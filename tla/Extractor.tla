----------------------------- MODULE Extractor ------------------------------
(***************************************************************************)
(* tar.Archive.Extract (src/archive/tar/tar.go), behind gzip.Archive.      *)
(* Extract (src/archive/gzip/gzip.go) when the format is gzip: read the    *)
(* pipe, put every entry at its place under the mount, and return at the   *)
(* tar trailer, or at the end of the stream where an entry could begin,    *)
(* without reading any further.                                            *)
(*                                                                         *)
(* A file that is there already is opened without being truncated, so the  *)
(* end of a longer one stays.                                              *)
(***************************************************************************)
EXTENDS BackendGet

CONSTANT FoundFiles     \* what a run may find where an entry belongs

VARIABLES
    xpc,        \* xpc[i]: where Extract is
    cur,        \* cur[i]: headers read so far
    xerr,       \* xerr[i]: Extract returns an error
    local       \* local[i][k]: what is on disk where entry k belongs

extVars == <<xpc, cur, xerr, local>>

ExtPC == {"idle", "next", "entry", "copy", "close", "done"}

(* A file on disk: "old" and "longer" files were there before, the latter
   longer than the entry; an "extracted" file is the entry of the archive that
   run ver has written, one with a "tail" is the entry and the end of a longer
   file, a "part" is less than the entry. *)
File == [ver: Nat, state: {"absent", "old", "longer", "extracted", "tail", "part"}]

Before == [ver: {0}, state: {"absent", "old", "longer"}]

ASSUME FoundAssumption == FoundFiles \subseteq Before

ExtTypeOK ==
    /\ xpc \in [Mounts -> ExtPC]
    /\ cur \in [Mounts -> 0..NumEntries]
    /\ xerr \in [Mounts -> BOOLEAN]
    /\ local \in [Mounts -> [1..NumEntries -> File]]

ExtInit ==
    /\ xpc = AtAll("idle")
    /\ cur = AtAll(0)
    /\ xerr = AtAll(FALSE)
    /\ local \in [Mounts -> [1..NumEntries -> FoundFiles]]

StartExtract(i) ==
    /\ xpc' = [xpc EXCEPT ![i] = "next"]
    /\ UNCHANGED <<cur, xerr, local>>

ExtTo(i, pc) == xpc' = [xpc EXCEPT ![i] = pc]

(* Extract returns. *)
ExtractReturns(i, err) ==
    /\ ExtTo(i, "close")
    /\ xerr' = [xerr EXCEPT ![i] = err]
    /\ UNCHANGED cur

Here(i) == local[i][cur[i]]

SetHere(i, ver, state) ==
    local' = [local EXCEPT ![i][cur[i]] = [ver |-> ver, state |-> state]]

(* Mutant: what is left of the trailer is taken for one more header. *)
TrailerAsHeader(i) ==
    /\ xpc[i] = "next" /\ Take(i)
    /\ offer[i] \in {"header", "torn"}
    /\ ExtTo(i, "entry")
    /\ cur' = [cur EXCEPT ![i] = @ + 1]
    /\ UNCHANGED <<xerr, local>>

(* tr.Next() reads a header. *)
NextHeader(i) ==
    /\ xpc[i] = "next" /\ Take(i)
    /\ offer[i] \in {"header", "torn"} /\ cur[i] < NumEntries
    /\ ExtTo(i, "entry")
    /\ cur' = [cur EXCEPT ![i] = @ + 1]
    /\ UNCHANGED <<xerr, local>>

(* What tr.Next() reads is no whole header. *)
NextUnreadable(i) ==
    /\ xpc[i] = "next" /\ Take(i)
    /\ offer[i] = "torn"
    /\ ExtractReturns(i, TRUE)
    /\ UNCHANGED local

(* tr.Next() reads the trailer, or enough of one that was cut, and returns
   io.EOF; the gzip footer is behind it. *)
NextTrailer(i) ==
    /\ xpc[i] = "next" /\ Take(i)
    /\ offer[i] \in {"trailer", "torn"}
    /\ ExtractReturns(i, FALSE)
    /\ UNCHANGED local

(* The directory is made and the file, directory or link is created; what is
   in a file that is there already stays until it is overwritten. *)
CreateEntry(i) ==
    /\ xpc[i] = "entry"
    /\ ExtTo(i, "copy")
    /\ IF Here(i).state = "absent" THEN SetHere(i, 0, "part") ELSE UNCHANGED local
    /\ UNCHANGED <<cur, xerr, pipeVars>>

(* MkdirAll, OpenFile, unlink, Symlink or Link fails, the name of the entry
   is not relative to the mount, or its type is unknown. *)
CreateEntryFails(i) ==
    /\ xpc[i] = "entry"
    /\ ExtractReturns(i, TRUE)
    /\ UNCHANGED <<local, pipeVars>>

(* io.Copy(f, tr) gets to the end of the entry; closing the file may fail. *)
CopyBody(i) ==
    /\ xpc[i] = "copy" /\ Take(i)
    /\ offer[i] = "body"
    /\ SetHere(i, opened[i].ver, IF Here(i).state = "longer" THEN "tail" ELSE "extracted")
    /\ \/ ExtTo(i, "next") /\ UNCHANGED <<cur, xerr>>
       \/ ExtractReturns(i, TRUE)

(* io.Copy(f, tr) gets no further than a part of the body: it ends, or
   writing the file fails. *)
CopyBodyFails(i) ==
    /\ xpc[i] = "copy" /\ Take(i)
    /\ SetHere(i, 0, "part")
    /\ ExtractReturns(i, TRUE)

(* The end of the stream where an entry could begin is the end of the
   archive; to the gzip reader a stream without its footer is an error. *)
EndsHere(i) == xpc[i] = "next" /\ ReadError(i) = "eof" /\ ~conf.gzip

(* The stream ends, or is ended by an error. *)
StreamEnds(i) ==
    /\ xpc[i] \in {"next", "copy"} /\ Closed(i)
    /\ ExtractReturns(i, ~EndsHere(i))
    /\ UNCHANGED <<local, pipeVars>>

Extract(i) ==
    \/ NextHeader(i) \/ NextUnreadable(i) \/ NextTrailer(i)
    \/ CreateEntry(i) \/ CreateEntryFails(i)
    \/ CopyBody(i) \/ CopyBodyFails(i) \/ StreamEnds(i)
=============================================================================
