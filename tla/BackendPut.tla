----------------------------- MODULE BackendPut -----------------------------
(***************************************************************************)
(* Backend.Put of the five storage backends (src/storage/backend/*/*.go):  *)
(* read the pipe to its end and leave what was read in storage.            *)
(*                                                                         *)
(* filesystem, sftp: a goroutine makes the directory, creates the file at  *)
(*   its final path (truncating what is there) and copies into it.         *)
(* gcs: a goroutine copies into an object writer; closing the writer       *)
(*   commits the object, also after a failed copy, unless the context is   *)
(*   done.                                                                 *)
(* s3, azure: the SDK reads the pipe in the calling goroutine and commits  *)
(*   the object only when it has seen EOF; it watches the context.         *)
(*                                                                         *)
(* The goroutine reports each error on an unbuffered channel: a "send..."  *)
(* state lasts until the caller receives, for ever if it no longer does.   *)
(* For s3 and azure "send..." is the SDK call returning its error.         *)
(* The SDKs and the operating system are modelled from how they are used.  *)
(***************************************************************************)
EXTENDS Pipe

VARIABLES
    store,      \* store[i]: the object at the remote path of mount i
    pend,       \* pend[i]: uploaded and not yet committed (gcs, s3, azure);
                \* NoObject when there is nothing a commit could use
    cpc,        \* cpc[i]: where the copy is
    ctxDone     \* ctxDone[i]: the context of the Put has expired or is
                \* cancelled

putVars == <<store, pend, cpc, ctxDone>>

Sending == {"sendMkdir", "sendCreate", "sendCopy", "sendClose"}

PutPC == {"idle", "mkdir", "create", "copy", "close", "finish", "done"}
            \cup Sending

PutTypeOK ==
    /\ store \in [Mounts -> Object]
    /\ pend \in [Mounts -> Object]
    /\ cpc \in [Mounts -> PutPC]
    /\ ctxDone \in [Mounts -> BOOLEAN]

PutInit ==
    /\ pend = AtAll(NoObject)
    /\ cpc = AtAll("idle")
    /\ ctxDone = AtAll(FALSE)

StepTo(i, pc) == cpc' = [cpc EXCEPT ![i] = pc]

(* storage.Put makes a context with a timeout and calls the backend's Put. *)
StartPut(i, v) ==
    /\ StepTo(i, IF InPlace THEN "mkdir" ELSE "copy")
    /\ pend' = [pend EXCEPT ![i] = IF InPlace THEN NoObject ELSE EmptyObject(v)]
    /\ ctxDone' = [ctxDone EXCEPT ![i] = FALSE]
    /\ UNCHANGED store

(* os.MkdirAll, client.MkdirAll *)
MakeDirectory(i) ==
    /\ cpc[i] = "mkdir"
    /\ \/ StepTo(i, "create")
       \/ StepTo(i, "sendMkdir")
    /\ UNCHANGED <<store, pend, ctxDone, pipeVars>>

(* os.Create, client.Create: an existing file is truncated. *)
CreateFile(i, v) ==
    /\ cpc[i] = "create"
    /\ \/ StepTo(i, "copy") /\ store' = [store EXCEPT ![i] = EmptyObject(v)]
       \/ StepTo(i, "sendCreate") /\ UNCHANGED store
    /\ UNCHANGED <<pend, ctxDone, pipeVars>>

(* io.Copy, or the SDK, reads a chunk and hands it to storage.  The SDKs
   refuse once the context is done; a file does not look at it. *)
CopyChunk(i) ==
    /\ cpc[i] = "copy" /\ Take(i)
    /\ IF InPlace
       THEN /\ store' = [store EXCEPT ![i] = Received(@, offer[i])]
            /\ UNCHANGED pend
       ELSE /\ ~ctxDone[i]
            /\ pend' = [pend EXCEPT ![i] = Received(@, offer[i])]
            /\ UNCHANGED store
    /\ UNCHANGED <<cpc, ctxDone>>

(* A chunk is read and storing it fails, perhaps half way. *)
CopyFails(i) ==
    /\ cpc[i] = "copy" /\ Take(i)
    /\ StepTo(i, "sendCopy")
    /\ IF InPlace
       THEN /\ store' \in {store, [store EXCEPT ![i] = Cut(@)]}
            /\ UNCHANGED pend
       ELSE /\ pend' = [pend EXCEPT ![i] = NoObject]
            /\ UNCHANGED store
    /\ UNCHANGED ctxDone

(* The read of the pipe returns EOF, or the error it was closed with. *)
ReadEnds(i) ==
    /\ cpc[i] = "copy" /\ Closed(i)
    /\ StepTo(i, IF ReadError(i) = "eof" THEN "close" ELSE "sendCopy")
    /\ UNCHANGED <<store, pend, ctxDone, pipeVars>>

(* Mutant: a failed copy still finishes the upload. *)
CloseAfterAnyCopy(pc) == IF pc = "sendCopy" THEN "close" ELSE "finish"

(* Where the copy goes once an error has been received: only filesystem goes
   on after a failed MkdirAll, and every goroutine closes its writer after a
   failed copy. *)
AfterSend(pc) ==
    CASE pc = "sendMkdir" -> IF conf.kind = "filesystem" THEN "create" ELSE "finish"
      [] pc = "sendCopy"  -> IF CopyGoroutine THEN "close" ELSE "finish"
      [] OTHER            -> "finish"

(* w.Close() of a file: what was written is there whatever it returns. *)
CloseFile(i) ==
    /\ cpc[i] = "close" /\ InPlace
    /\ \/ StepTo(i, "finish")
       \/ StepTo(i, "sendClose")
    /\ UNCHANGED <<store, pend, ctxDone, pipeVars>>

(* An uncommitted upload can still be committed. *)
Committable(i) == Present(pend[i]) /\ ~ctxDone[i]

(* The upload is committed: w.Close() of gcs, the last call of the SDKs. *)
Commit(i) ==
    /\ cpc[i] = "close" /\ ~InPlace /\ Committable(i)
    /\ store' = [store EXCEPT ![i] = pend[i]]
    /\ StepTo(i, "finish")
    /\ UNCHANGED <<pend, ctxDone, pipeVars>>

(* Committing fails, or has succeeded and its answer is lost. *)
CommitFails(i) ==
    /\ cpc[i] = "close" /\ ~InPlace
    /\ \/ UNCHANGED store
       \/ Committable(i) /\ store' = [store EXCEPT ![i] = pend[i]]
    /\ StepTo(i, "sendClose")
    /\ UNCHANGED <<pend, ctxDone, pipeVars>>

(* The SDKs of s3 and azure give up when the context is done. *)
UploadCancelled(i) ==
    /\ cpc[i] \in {"copy", "close"} /\ ~CopyGoroutine /\ ctxDone[i]
    /\ StepTo(i, "sendCopy")
    /\ pend' = [pend EXCEPT ![i] = NoObject]
    /\ UNCHANGED <<store, ctxDone, pipeVars>>

(* defer close(errCh) *)
CloseErrCh(i) ==
    /\ cpc[i] = "finish"
    /\ StepTo(i, "done")
    /\ UNCHANGED <<store, pend, ctxDone, pipeVars>>

Copy(i, v) ==
    \/ MakeDirectory(i) \/ CreateFile(i, v)
    \/ CopyChunk(i) \/ CopyFails(i) \/ ReadEnds(i)
    \/ CloseFile(i) \/ Commit(i) \/ CommitFails(i)
    \/ UploadCancelled(i) \/ CloseErrCh(i)
=============================================================================
