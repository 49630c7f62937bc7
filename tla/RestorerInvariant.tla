-------------------------- MODULE RestorerInvariant -------------------------
(***************************************************************************)
(* The inductive invariant of Restorer: what ties the copy, the pipe, the  *)
(* downloader, the extraction and the files of one mount together while a  *)
(* run is under way.                                                       *)
(***************************************************************************)
EXTENDS Restorer

(* All of an object was read, and taken from the pipe. *)
AllTaken(i) == Present(opened[i]) /\ AtEnd(i) /\ offer[i] = NoChunk

(* The chunks Extract has taken from the pipe. *)
Taken(i) == IF offer[i] = NoChunk THEN pos[i] ELSE pos[i] - 1

(* An object as a run in rebuild mode leaves it. *)
Left(o) == o \in Leavings(o.ver, TRUE)

(* The mount has all that the object holds which was opened for it, and
   nothing else has changed. *)
AllExtracted(i) ==
    /\ opened[i].end \in {"trailer", "torn"} \/ (opened[i].end = "open" /\ ~conf.gzip)
    /\ \A k \in 1..NumEntries :
        IF k <= opened[i].entries THEN InPlaceFrom(opened[i].ver, i, k)
                                  ELSE local[i][k] \in Before

(* A mount the loop has not come to. *)
Fresh(i) ==
    /\ offer[i] = NoChunk /\ ~rclosed[i] /\ werr[i] = "none"
    /\ gpc[i] = "idle" /\ opened[i] = NoObject /\ pos[i] = 0
    /\ xpc[i] = "idle" /\ cur[i] = 0 /\ ~xerr[i]
    /\ \A k \in 1..NumEntries : local[i][k] \in Before
    /\ dpc[i] = "idle" /\ gres[i] = "none" /\ wpc[i] = "idle"

(* The copy: what is on offer is the chunk of the object it has come to, and
   it ends without an error only at the end of the object. *)
CopyInv(i) ==
    /\ gpc[i] # "idle"
    /\ opened[i] = NoObject \/ Left(opened[i])
    /\ opened[i] = NoObject => pos[i] = 0
    /\ pos[i] <= Len(Contents(opened[i]))
    /\ offer[i] # NoChunk =>
        gpc[i] = "copy" /\ pos[i] >= 1 /\ offer[i] = Contents(opened[i])[pos[i]]
    /\ gpc[i] \in {"open", "sendOpen"} => opened[i] = NoObject
    /\ gpc[i] = "copy" => Present(opened[i])
    /\ gpc[i] \in {"finish", "done"} /\ gres[i] # "err" => AllTaken(i)

(* The downloader: it closes the pipe with io.EOF only after a Get that has
   read all of the object. *)
DownInv(i) ==
    /\ dpc[i] # "idle"
    /\ dpc[i] = "get" <=> gres[i] = "none"
    /\ gres[i] = "ok" => gpc[i] = "done"
    /\ dpc[i] = "fail" => gres[i] = "err"
    /\ dpc[i] = "close" /\ gres[i] = "err" => werr[i] = "err"
    /\ werr[i] # "none" => dpc[i] \in {"close", "done"}
    /\ werr[i] = "eof" => gres[i] = "ok"

(* The extraction: it is at the entry whose chunks it has taken, the entries
   before it are in place and those behind it are untouched. *)
ExtractInv(i) ==
    /\ xpc[i] # "idle"
    /\ xpc[i] \in {"next", "entry", "copy"} => ~xerr[i]
    /\ opened[i] = NoObject => cur[i] = 0
    /\ xpc[i] = "next" => cur[i] <= opened[i].entries
    /\ xpc[i] \in {"entry", "copy"} => cur[i] >= 1
    /\ xpc[i] = "next" /\ werr[i] # "err" => Taken(i) = 2 * cur[i]
    /\ xpc[i] \in {"entry", "copy"} /\ werr[i] # "err" => Taken(i) + 1 = 2 * cur[i]
    /\ xpc[i] \in {"next", "entry", "copy"} =>
        \A k \in 1..NumEntries :
            /\ k < cur[i] \/ (k = cur[i] /\ xpc[i] = "next") => InPlaceFrom(opened[i].ver, i, k)
            /\ k > cur[i] => local[i][k] \in Before
    /\ xpc[i] \in {"close", "done"} /\ ~xerr[i] => AllExtracted(i)

(* The worker: it goes on when Extract has returned, and keeps its error. *)
WorkInv(i) ==
    /\ wpc[i] # "idle"
    /\ wpc[i] = "extract" <=> xpc[i] # "done"
    /\ rclosed[i] => xpc[i] = "done"
    /\ wpc[i] = "addErr" => xerr[i]
    /\ wpc[i] \in {"wg", "done"} /\ xerr[i] => i \in rerrs

Started(i) == CopyInv(i) /\ DownInv(i) /\ ExtractInv(i) /\ WorkInv(i)

(* Restore. *)
LoopInv ==
    /\ rpc = "loop" => rres = "none"
    /\ rpc = "returned" => next = NumMounts + 1 /\ \A i \in Mounts : wpc[i] = "done"
    /\ rpc = "returned" /\ rres = "ok" => rerrs = {}

(* What the goroutines of the process keep, also when others write to storage
   between their steps. *)
ProcessInv ==
    /\ RestoreTypeOK
    /\ \A i \in Mounts : Left(store[i])
    /\ LoopInv
    /\ Running => \A i \in Mounts : IF i < next THEN Started(i) ELSE Fresh(i)

(* The inductive invariant of the proofs: nobody writes to storage. *)
RestoresInv ==
    /\ ProcessInv
    /\ Running => \A i \in Mounts : opened[i] \in {NoObject, store[i]}
    /\ OkMeansExtracted
=============================================================================
