--------------------------- MODULE ArchiveStream ---------------------------
(***************************************************************************)
(* The archive of one mount as it travels from archive/tar (optionally     *)
(* inside archive/gzip) through an io.Pipe to the storage backend.         *)
(*                                                                         *)
(* An archive is NumEntries entries, each a header followed by a body,     *)
(* then the tar trailer and, for gzip, the gzip footer.  What a backend    *)
(* has received of an archive is summarised by a record: which run of the  *)
(* plugin wrote it, how many entries are whole, and what the last thing    *)
(* received was.                                                           *)
(***************************************************************************)
EXTENDS Naturals

CONSTANT NumEntries     \* entries of the archive of a mount (the root is one)

ASSUME EntriesAssumption == NumEntries \in Nat \ {0}

(* What one Write of the archive writer carries.  "short" is the body of a
   file that has shrunk since its header was written. *)
Chunks == {"header", "body", "short", "trailer", "footer"}

NoChunk == "none"

(* end: "open"    - cut at the boundary between two entries
        "torn"    - cut inside an entry
        "short"   - ends in the body of a file that shrank
        "trailer" - closed by the tar trailer
   footer: the gzip footer has been received. *)
Object == [ver: Nat, entries: Nat,
           end: {"absent", "open", "torn", "short", "trailer"},
           footer: BOOLEAN]

NoObject == [ver |-> 0, entries |-> 0, end |-> "absent", footer |-> FALSE]

EmptyObject(v) == [ver |-> v, entries |-> 0, end |-> "open", footer |-> FALSE]

Present(o) == o.end # "absent"

(* The object after one more chunk. *)
Received(o, c) ==
    [ver     |-> o.ver,
     entries |-> IF c = "body" THEN o.entries + 1 ELSE o.entries,
     end     |-> CASE c = "header"  -> "torn"
                   [] c = "body"    -> "open"
                   [] c = "short"   -> "short"
                   [] c = "trailer" -> "trailer"
                   [] OTHER         -> o.end,
     footer  |-> IF c = "footer" THEN TRUE ELSE o.footer]

(* The object after a chunk of which only a part was written. *)
Cut(o) == [o EXCEPT !.end = "torn"]

(* Everything Create is asked to write is there. *)
Complete(o, gzip) ==
    /\ o.entries = NumEntries
    /\ o.end = "trailer"
    /\ o.footer = gzip

(* The archive misses the end of its last file and its trailer, because that
   file shrank while it was read, and nothing else. *)
Shrunk(o, gzip) ==
    /\ o.entries + 1 = NumEntries
    /\ o.end = "short"
    /\ o.footer = gzip
=============================================================================
