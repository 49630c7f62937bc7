----------------------------- MODULE BackendGet -----------------------------
(***************************************************************************)
(* Backend.Get of the five storage backends (src/storage/backend/*/*.go):  *)
(* a goroutine opens the object and copies it into the write end of the    *)
(* pipe; it reports an error on an unbuffered channel, on which the caller *)
(* selects together with the context.                                      *)
(*                                                                         *)
(* What is read is the object as it was when it was opened.  filesystem    *)
(* and sftp read the file itself: what becomes of a restore while another  *)
(* build writes to it is the matter of RivalBuilds.                        *)
(***************************************************************************)
EXTENDS Pipe, Sequences

VARIABLES
    store,      \* store[i]: the object at the remote path of mount i
    gpc,        \* gpc[i]: where the goroutine of Get is
    opened,     \* opened[i]: the object as it was when it was opened
    pos,        \* pos[i]: chunks of it that were read
    getDone     \* getDone[i]: the context of the Get has expired or is
                \* cancelled

getVars == <<gpc, opened, pos, getDone>>

GetSending == {"sendOpen", "sendCopy"}

GetPC == {"idle", "open", "copy", "finish", "done"} \cup GetSending

(* What Get writes to the pipe: chunks, or what is left of one that was cut. *)
Pieces == Chunks \cup {"torn"}

GetTypeOK ==
    /\ offer \in [Mounts -> Pieces \cup {NoChunk}]
    /\ rclosed \in [Mounts -> BOOLEAN]
    /\ werr \in [Mounts -> {"none", "eof", "err"}]
    /\ store \in [Mounts -> Object]
    /\ gpc \in [Mounts -> GetPC]
    /\ opened \in [Mounts -> Object]
    /\ pos \in [Mounts -> 0..2 * NumEntries + 2]
    /\ getDone \in [Mounts -> BOOLEAN]

GetInit ==
    /\ gpc = AtAll("idle")
    /\ opened = AtAll(NoObject)
    /\ pos = AtAll(0)
    /\ getDone = AtAll(FALSE)

(* storage.Get makes a context with a timeout and calls the backend's Get. *)
StartGet(i) ==
    /\ gpc' = [gpc EXCEPT ![i] = "open"]
    /\ getDone' = [getDone EXCEPT ![i] = FALSE]
    /\ UNCHANGED <<opened, pos>>

GetTo(i, pc) == gpc' = [gpc EXCEPT ![i] = pc]

(* The chunks of the object o in their order; "torn" is what is left of an
   entry, of the trailer or of the footer that was cut. *)
Contents(o) ==
    LET tail == CASE o.end = "torn"    -> <<"torn">>
                  [] o.end = "short"   -> <<"header", "short">>
                  [] o.end = "trailer" -> <<"trailer">>
                  [] OTHER             -> <<>>
    IN  [k \in 1..2 * o.entries |-> IF k % 2 = 1 THEN "header" ELSE "body"]
            \o tail \o (IF o.footer THEN <<"footer">> ELSE <<>>)

(* os.Open, client.Open, NewReader, GetObjectWithContext, Download *)
OpenObject(i) ==
    /\ gpc[i] = "open" /\ Present(store[i])
    /\ InPlace \/ ~getDone[i]
    /\ GetTo(i, "copy")
    /\ opened' = [opened EXCEPT ![i] = store[i]]
    /\ UNCHANGED <<pos, getDone, pipeVars>>

(* The object is not there, or opening it fails. *)
OpenFails(i) ==
    /\ gpc[i] = "open"
    /\ GetTo(i, "sendOpen")
    /\ UNCHANGED <<opened, pos, getDone, pipeVars>>

(* The copy is not blocked in a Write to the pipe. *)
Copying(i) == gpc[i] = "copy" /\ offer[i] = NoChunk

AtEnd(i) == pos[i] = Len(Contents(opened[i]))

(* io.Copy reads a chunk and writes it to the pipe.  The SDKs refuse once
   the context is done; a file does not look at it. *)
ReadChunk(i) ==
    /\ Copying(i) /\ ~Closed(i) /\ ~AtEnd(i)
    /\ InPlace \/ ~getDone[i]
    /\ Offer(i, Contents(opened[i])[pos[i] + 1])
    /\ pos' = [pos EXCEPT ![i] = @ + 1]
    /\ UNCHANGED <<gpc, opened, getDone>>

(* Reading the object fails. *)
ReadFails(i) ==
    /\ Copying(i)
    /\ GetTo(i, "sendCopy")
    /\ UNCHANGED <<opened, pos, getDone, pipeVars>>

(* A Write, blocked or not, finds the pipe closed. *)
WriteToPipeFails(i) ==
    /\ gpc[i] = "copy" /\ Closed(i)
    /\ offer[i] # NoChunk \/ ~AtEnd(i)
    /\ GetTo(i, "sendCopy")
    /\ offer' = [offer EXCEPT ![i] = NoChunk]
    /\ UNCHANGED <<opened, pos, getDone, rclosed, werr>>

(* io.Copy has read the object to its end; the body is closed. *)
CopyEnds(i) ==
    /\ Copying(i) /\ AtEnd(i)
    /\ GetTo(i, "finish")
    /\ UNCHANGED <<opened, pos, getDone, pipeVars>>

(* defer close(errCh) *)
CloseGetErrCh(i) ==
    /\ gpc[i] = "finish"
    /\ GetTo(i, "done")
    /\ UNCHANGED <<opened, pos, getDone, pipeVars>>

GetCopy(i) ==
    \/ OpenObject(i) \/ OpenFails(i)
    \/ ReadChunk(i) \/ ReadFails(i)
    \/ WriteToPipeFails(i) \/ CopyEnds(i) \/ CloseGetErrCh(i)
=============================================================================
