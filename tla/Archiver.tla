------------------------------ MODULE Archiver ------------------------------
(***************************************************************************)
(* The goroutine of rebuilder.rebuild that archives one mount into the     *)
(* pipe (src/cache/rebuilder.go) with tar.Archive.Create                   *)
(* (src/archive/tar/tar.go), wrapped by gzip.Archive.Create                *)
(* (src/archive/gzip/gzip.go) when the format is gzip.                     *)
(*                                                                         *)
(* Create walks the mount; every entry is a header and a body.  Whether it *)
(* fails or not, its deferred Close of the tar writer then writes the      *)
(* trailer (and the deferred Close of the gzip writer the footer): errors  *)
(* of these two are only logged.  Control returns to the goroutine, which  *)
(* closes the pipe with the error, if any, adds the written bytes, and     *)
(* closes the pipe again from its defer.                                   *)
(***************************************************************************)
EXTENDS Pipe

CONSTANT FilesMayShrink     \* a file may lose bytes between header and copy

ASSUME ShrinkAssumption == FilesMayShrink \in BOOLEAN

VARIABLES
    apc,        \* apc[i]: where the goroutine is
    ent,        \* ent[i]: headers written so far
    aerr,       \* aerr[i]: Create returns an error
    broken      \* broken[i]: the tar writer refuses its trailer: it misses
                \* bytes of an entry, or a Write of it has failed

archVars == <<apc, ent, aerr, broken>>

ArchPC == {"idle", "entry", "body", "closeTar", "closeGzip", "return",
           "count", "close", "done"}

ArchTypeOK ==
    /\ apc \in [Mounts -> ArchPC]
    /\ ent \in [Mounts -> 0..NumEntries]
    /\ aerr \in [Mounts -> BOOLEAN]
    /\ broken \in [Mounts -> BOOLEAN]

ArchInit ==
    /\ apc = AtAll("idle")
    /\ ent = AtAll(0)
    /\ aerr = AtAll(FALSE)
    /\ broken = AtAll(FALSE)

(* go func(wrt *int64) { ... }(&written) *)
StartArchiver(i) ==
    /\ apc' = [apc EXCEPT ![i] = "entry"]
    /\ UNCHANGED <<ent, aerr, broken>>

(* The goroutine is not blocked in a Write. *)
At(i, pc) == apc[i] = pc /\ offer[i] = NoChunk

Goto(i, pc) == apc' = [apc EXCEPT ![i] = pc]

(* Create is left with an error; b: the tar writer is in no state to write
   its trailer. *)
CreateFails(i, b) ==
    /\ Goto(i, "closeTar")
    /\ aerr' = [aerr EXCEPT ![i] = TRUE]
    /\ broken' = [broken EXCEPT ![i] = @ \/ b]
    /\ UNCHANGED ent

(* Mutant: the walk goes one entry too far. *)
OneMoreEntry(i) == ent[i] <= NumEntries

(* The walk has another entry. *)
MoreEntries(i) == ent[i] < NumEntries

(* tw.WriteHeader(h) *)
WriteHeader(i) ==
    /\ At(i, "entry") /\ MoreEntries(i) /\ ~broken[i] /\ ~Closed(i)
    /\ Offer(i, "header")
    /\ ent' = [ent EXCEPT ![i] = @ + 1]
    /\ Goto(i, "body")
    /\ UNCHANGED <<aerr, broken>>

(* WriteHeader's Flush finds bytes of the previous entry missing. *)
HeaderFindsShortBody(i) ==
    /\ At(i, "entry") /\ MoreEntries(i) /\ broken[i]
    /\ CreateFails(i, TRUE)
    /\ UNCHANGED pipeVars

(* The walk reports an error between two entries: Lstat, Readlink, reading a
   directory, an entry the tar format cannot hold, a file that grew. *)
WalkFails(i) ==
    /\ At(i, "entry")
    /\ CreateFails(i, FALSE)
    /\ UNCHANGED pipeVars

(* io.Copy of the whole file, then f.Close() *)
WriteBody(i) ==
    /\ At(i, "body") /\ ~Closed(i)
    /\ Offer(i, "body")
    /\ Goto(i, "entry")
    /\ UNCHANGED <<ent, aerr, broken>>

(* io.Copy reaches the end of a file that is shorter than its header said;
   that is no error to writeFileToArchive. *)
WriteShortBody(i) ==
    /\ FilesMayShrink
    /\ At(i, "body") /\ ~Closed(i)
    /\ Offer(i, "short")
    /\ Goto(i, "entry")
    /\ broken' = [broken EXCEPT ![i] = TRUE]
    /\ UNCHANGED <<ent, aerr>>

(* os.Open or a read of the file fails after its header was written. *)
BodyFails(i) ==
    /\ At(i, "body")
    /\ CreateFails(i, TRUE)
    /\ UNCHANGED pipeVars

(* A Write of a header or a body finds the pipe closed. *)
WriteRefused(i) ==
    /\ apc[i] \in {"entry", "body"} /\ Closed(i)
    /\ \/ offer[i] # NoChunk
       \/ apc[i] = "entry" /\ MoreEntries(i)
       \/ apc[i] = "body"
    /\ CreateFails(i, TRUE)
    /\ offer' = [offer EXCEPT ![i] = NoChunk]
    /\ UNCHANGED <<rclosed, werr>>

(* filepath.Walk is through all entries. *)
WalkDone(i) ==
    /\ At(i, "entry") /\ ~MoreEntries(i)
    /\ Goto(i, "closeTar")
    /\ UNCHANGED <<ent, aerr, broken, offer, rclosed, werr>>

(* Where Create goes after its deferred tar Close. *)
AfterTar == IF conf.gzip THEN "closeGzip" ELSE "return"

(* The deferred tw.Close() writes the trailer ... *)
CloseTar(i) ==
    /\ At(i, "closeTar") /\ ~broken[i] /\ ~Closed(i)
    /\ Offer(i, "trailer")
    /\ Goto(i, AfterTar)
    /\ UNCHANGED <<ent, aerr, broken>>

(* ... or fails, which CloseWithErrLogf logs and drops. *)
CloseTarFails(i) ==
    /\ At(i, "closeTar") /\ (broken[i] \/ Closed(i))
    /\ Goto(i, AfterTar)
    /\ UNCHANGED <<ent, aerr, broken, offer, rclosed, werr>>

(* The deferred gw.Close() writes the footer, or fails on a closed pipe. *)
CloseGzip(i) ==
    /\ At(i, "closeGzip")
    /\ IF Closed(i) THEN UNCHANGED pipeVars ELSE Offer(i, "footer")
    /\ Goto(i, "return")
    /\ UNCHANGED <<ent, aerr, broken>>

(* A blocked Write of the trailer or of the footer is woken by the closed
   pipe; the error is logged and dropped. *)
CloseWriteRefused(i) ==
    /\ apc[i] \in {"closeGzip", "return"} /\ offer[i] # NoChunk /\ Closed(i)
    /\ offer' = [offer EXCEPT ![i] = NoChunk]
    /\ UNCHANGED <<rclosed, werr, archVars>>

(* gzip.NewWriterLevel refuses the compression level: Create returns before
   anything is written. *)
BadCompressionLevel(i) ==
    /\ conf.gzip
    /\ At(i, "entry") /\ ent[i] = 0
    /\ Goto(i, "return")
    /\ aerr' = [aerr EXCEPT ![i] = TRUE]
    /\ UNCHANGED <<ent, broken, offer, rclosed, werr>>

(* Mutant: an error of Create does not close the pipe. *)
CreateErrorDropped(i) ==
    /\ At(i, "return")
    /\ Goto(i, "count")
    /\ UNCHANGED <<ent, aerr, broken, offer, rclosed, werr>>

(* Mutant: the pipe is closed before the bytes are counted. *)
CloseBeforeCount(i) ==
    /\ At(i, "return")
    /\ CloseWriter(i, IF aerr[i] THEN "err" ELSE "eof")
    /\ Goto(i, "count")
    /\ UNCHANGED <<ent, aerr, broken>>

(* Create has returned: if err != nil { pw.CloseWithError(err) } *)
CreateReturns(i) ==
    /\ At(i, "return")
    /\ IF aerr[i] THEN CloseWriter(i, "err") ELSE UNCHANGED pipeVars
    /\ Goto(i, "count")
    /\ UNCHANGED <<ent, aerr, broken>>

(* *wrt += written *)
CountWritten(i) ==
    /\ At(i, "count")
    /\ Goto(i, "close")
    /\ UNCHANGED <<ent, aerr, broken, offer, rclosed, werr>>

(* Mutant: the goroutine does not close its pipe. *)
LeavePipeOpen(i) ==
    /\ At(i, "close")
    /\ Goto(i, "done")
    /\ UNCHANGED <<ent, aerr, broken, offer, rclosed, werr>>

(* The goroutine's deferred pw.Close() *)
ClosePipe(i) ==
    /\ At(i, "close")
    /\ CloseWriter(i, "eof")
    /\ Goto(i, "done")
    /\ UNCHANGED <<ent, aerr, broken>>

Archive(i) ==
    \/ WriteHeader(i) \/ HeaderFindsShortBody(i) \/ WalkFails(i)
    \/ WriteBody(i) \/ WriteShortBody(i) \/ BodyFails(i)
    \/ WriteRefused(i) \/ WalkDone(i)
    \/ CloseTar(i) \/ CloseTarFails(i)
    \/ CloseGzip(i) \/ CloseWriteRefused(i) \/ BadCompressionLevel(i)
    \/ CreateReturns(i) \/ CountWritten(i) \/ ClosePipe(i)
=============================================================================
