--------------------------- MODULE RivalInvariant ---------------------------
(***************************************************************************)
(* The inductive invariant of RivalBuilds: what the place of every build   *)
(* in its mode says of the object, whatever its rivals have done to it.    *)
(***************************************************************************)
EXTENDS RivalBuilds

Rebuilds(b) == mode[b] = "rebuild"

(* The object with the first n blocks of the archive of x. *)
Part(x, n) == [owner |-> x, blocks |-> [k \in 1..n |-> x]]

(* What storage shows where objects are committed: nothing, or the archive of
   one build, of which only gcs may show a part. *)
Committed(o) ==
    \/ o = Nothing
    \/ \E x \in Builds : \E n \in 0..size[x] :
            /\ o = Part(x, n)
            /\ conf.kind # "gcs" => n = size[x]

(* What a file shows: the one that has truncated it last is past its creation,
   and whatever it has written since is there, or was overwritten. *)
File(o) ==
    \/ o = Nothing
    \/ LET x == o.owner
       IN  /\ x \in Builds /\ Rebuilds(x) /\ pc[x] \in {"copy", "close", "over"}
           /\ at[x] <= Len(o.blocks)
           /\ \A k \in 1..at[x] : o.blocks[k] # Nobody
           /\ res[x] = "ok" => at[x] = size[x]

ObjectInv == IF InPlace THEN File(object) ELSE Committed(object)

(* A build that rebuilds: it asks before it writes unless it overrides, and
   has not returned while it copies, but for an error. *)
RebuildInv(b) ==
    /\ pc[b] \in {"ask", "create", "copy", "cut", "close", "over"}
    /\ at[b] <= size[b] /\ got[b] = {} /\ opened[b] = Nothing
    /\ pc[b] = "ask" => ~conf.override /\ res[b] = "none"
    /\ pc[b] \in {"ask", "create"} => at[b] = 0
    /\ pc[b] = "create" => InPlace
    /\ pc[b] = "copy" /\ InPlace => There
    /\ pc[b] = "cut" => conf.kind = "gcs"
    /\ pc[b] = "close" => There /\ at[b] = size[b]
    /\ res[b] = "ok" => There

(* A restore from one archive, or from a stream whose parts must fit together,
   has data of one build, and all of it once it is to return nil. *)
OneArchive(b) ==
    \/ got[b] = {} /\ at[b] = 0 /\ pc[b] # "close" /\ res[b] # "ok"
    \/ \E x \in Builds :
        /\ got[b] = {x} /\ at[b] <= size[x]
        /\ pc[b] = "read" => at[b] < size[x]
        /\ pc[b] = "close" \/ res[b] = "ok" => at[b] = size[x]

(* A build that restores. *)
RestoreInv(b) ==
    /\ pc[b] \in {"open", "read", "close", "over"}
    /\ Len(opened[b].blocks) <= MaxBlocks
    /\ pc[b] = "open" => at[b] = 0 /\ got[b] = {} /\ opened[b] = Nothing
    /\ pc[b] \in {"read", "close"} \/ res[b] = "ok" => There
    /\ IF InPlace THEN opened[b] = Nothing
       ELSE /\ Committed(opened[b])
            /\ pc[b] = "read" => opened[b] # Nothing
            /\ got[b] \subseteq {opened[b].owner}
    /\ conf.gzip \/ conf.kind \in {"azure", "s3"} => OneArchive(b)

BuildInv(b) ==
    /\ IF Rebuilds(b) THEN RebuildInv(b) ELSE RestoreInv(b)
    /\ pc[b] \in {"ask", "open", "read"} => res[b] = "none"
    /\ pc[b] # "over" => res[b] # "ok"
    /\ pc[b] = "cut" => res[b] = "err"

RivalsInv == BuildsTypeOK /\ ObjectInv /\ \A b \in Builds : BuildInv(b)
=============================================================================
