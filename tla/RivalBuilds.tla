----------------------------- MODULE RivalBuilds -----------------------------
(***************************************************************************)
(* Builds that share one path of storage and run at the same time, each a  *)
(* process in one mode, at the level of the calls their backends make:     *)
(* Exists, Put and Get of src/storage/backend/*/*.go in the order in which *)
(* rebuilder.go and restorer.go make them.  What happens inside a process, *)
(* between its goroutines, is the matter of Rebuilder and Restorer.        *)
(*                                                                         *)
(* An archive is a row of blocks, the last one holding its trailer.  A     *)
(* build writes its own block k at position k: of the object it commits,   *)
(* or of the file, where it keeps its own position whatever others do to   *)
(* the file meanwhile.                                                     *)
(***************************************************************************)
EXTENDS PluginConfig, SequencesExt

CONSTANTS
    Builds,         \* the builds, one mount each
    Nobody,         \* no build
    MaxBlocks       \* bound: blocks of an archive

ASSUME NobodyAssumption == Nobody \notin Builds
ASSUME BlocksAssumption == MaxBlocks \in Nat \ {0}

VARIABLES
    object,     \* what is at the path: who created or committed it last, and
                \* by position whose block is there, Nobody's if none was written
    mode,       \* mode[b]: the mode of build b
    size,       \* size[b]: the blocks of the archive of build b
    pc,         \* pc[b]: where it is in its mode
    at,         \* at[b]: the blocks it has written or read
    opened,     \* opened[b]: the object as it was when b opened it
    got,        \* got[b]: builds whose blocks it has extracted
    res         \* res[b]: what its mode has returned

buildVars == <<conf, object, mode, size, pc, at, opened, got, res>>

Objects == [owner: Builds \cup {Nobody}, blocks: Seq(Builds \cup {Nobody})]

Nothing == [owner |-> Nobody, blocks |-> <<>>]

There == object.owner # Nobody

BuildsTypeOK ==
    /\ conf \in Configs
    /\ object \in Objects /\ Len(object.blocks) <= MaxBlocks
    /\ mode \in [Builds -> {"rebuild", "restore"}]
    /\ size \in [Builds -> 1..MaxBlocks]
    /\ pc \in [Builds -> {"ask", "create", "copy", "cut", "open", "read", "close", "over"}]
    /\ at \in [Builds -> 0..MaxBlocks]
    /\ opened \in [Builds -> Objects]
    /\ got \in [Builds -> SUBSET Builds]
    /\ res \in [Builds -> {"none", "ok", "err"}]

(* Rebuild calls Exists unless override is set, then Put. *)
Put == IF InPlace THEN "create" ELSE "copy"

BuildsInit ==
    /\ conf \in Configs
    /\ object = Nothing
    /\ mode \in [Builds -> {"rebuild", "restore"}]
    /\ size \in [Builds -> 1..MaxBlocks]
    /\ \A b \in Builds : mode[b] = "restore" => size[b] = 1
    /\ pc = [b \in Builds |-> IF mode[b] = "restore" THEN "open"
                              ELSE IF conf.override THEN Put ELSE "ask"]
    /\ at = [b \in Builds |-> 0]
    /\ opened = [b \in Builds |-> Nothing]
    /\ got = [b \in Builds |-> {}]
    /\ res = [b \in Builds |-> "none"]

Goto(b, l) == pc' = [pc EXCEPT ![b] = l]

(* The mode returns r, unless its deadline has made it return before. *)
Returns(b, r) ==
    /\ Goto(b, "over")
    /\ res' = [res EXCEPT ![b] = IF @ = "none" THEN r ELSE @]

-----------------------------------------------------------------------------
(* rebuild *)

(* Mutant: the answer of Exists is not looked at. *)
AskWrong(b) ==
    /\ pc[b] = "ask"
    /\ \/ Goto(b, Put) /\ UNCHANGED res
       \/ Returns(b, "err")
    /\ UNCHANGED <<conf, object, mode, size, at, opened, got>>

(* Exists, with what it may answer at this moment: azure has no other answer
   than an error for an object that is not there. *)
Ask(b) ==
    /\ pc[b] = "ask"
    /\ \/ There /\ Returns(b, "ok")
       \/ ~There /\ conf.kind # "azure" /\ Goto(b, Put) /\ UNCHANGED res
       \/ Returns(b, "err")
    /\ UNCHANGED <<conf, object, mode, size, at, opened, got>>

(* After a failure of os.MkdirAll the goroutine of filesystem goes on, once
   Put has taken the error. *)
MkdirFails(b) ==
    /\ conf.kind = "filesystem" /\ res[b] = "none"
    /\ res' = [res EXCEPT ![b] = "err"]
    /\ UNCHANGED pc

(* os.Create, client.Create: the file is truncated. *)
Create(b) ==
    /\ pc[b] = "create"
    /\ \/ Goto(b, "copy") /\ object' = [owner |-> b, blocks |-> <<>>] /\ UNCHANGED res
       \/ Returns(b, "err") /\ UNCHANGED object
       \/ MkdirFails(b) /\ UNCHANGED object
    /\ UNCHANGED <<conf, mode, size, at, opened, got>>

(* Mutant: the file is opened for appending. *)
Appended(blocks, k, b) == Append(blocks, b)

(* The file after a block of b was written at position k: what was skipped
   is filled with zeros. *)
WithBlock(blocks, k, b) ==
    [j \in 1..(IF k > Len(blocks) THEN k ELSE Len(blocks)) |->
        IF j = k THEN b ELSE IF j <= Len(blocks) THEN blocks[j] ELSE Nobody]

(* The next block is read from the archiver and written to the file, or goes
   into the upload. *)
CopyBlock(b) ==
    /\ pc[b] = "copy" /\ at[b] < size[b]
    /\ at' = [at EXCEPT ![b] = @ + 1]
    /\ object' = IF InPlace THEN [object EXCEPT !.blocks = WithBlock(@, at[b] + 1, b)]
                 ELSE object
    /\ UNCHANGED <<conf, mode, size, pc, opened, got, res>>

(* The archiver or storage fails.  gcs closes its writer all the same. *)
CopyFails(b) ==
    /\ pc[b] = "copy"
    /\ Returns(b, "err") \/ (conf.kind = "gcs" /\ res[b] = "none" /\ Goto(b, "cut")
                             /\ res' = [res EXCEPT ![b] = "err"])
    /\ UNCHANGED <<conf, object, mode, size, at, opened, got>>

(* Mutant: the upload goes on where the object that is there ends. *)
UploadedBehind(b) == [owner |-> b, blocks |-> object.blocks \o [k \in 1..at[b] |-> b]]

(* What b has uploaded. *)
Uploaded(b) == [owner |-> b, blocks |-> [k \in 1..at[b] |-> b]]

(* Mutant: the last block is left in a buffer. *)
StoreEarly(b) ==
    /\ pc[b] = "copy" /\ at[b] + 1 = size[b]
    /\ Goto(b, "close")
    /\ IF InPlace THEN UNCHANGED object
       ELSE res[b] = "none" /\ object' = Uploaded(b)
    /\ UNCHANGED <<conf, mode, size, at, opened, got, res>>

(* The archive has ended: the upload is committed, unless its context is done.
   A file needs no more than to be closed. *)
Store(b) ==
    /\ pc[b] = "copy" /\ at[b] = size[b]
    /\ Goto(b, "close")
    /\ IF InPlace THEN UNCHANGED object
       ELSE res[b] = "none" /\ object' = Uploaded(b)
    /\ UNCHANGED <<conf, mode, size, at, opened, got, res>>

(* The object writer of gcs, closed after a failed copy, commits what it has
   before the context is cancelled. *)
StoreCut(b) ==
    /\ pc[b] = "cut"
    /\ Goto(b, "over")
    /\ object' = Uploaded(b)
    /\ UNCHANGED <<conf, mode, size, at, opened, got, res>>

(* The deadline of Put passes.  The goroutine that copies goes on. *)
PutTimeout(b) ==
    /\ mode[b] = "rebuild" /\ pc[b] \in {"create", "copy", "close"} /\ res[b] = "none"
    /\ res' = [res EXCEPT ![b] = "err"]
    /\ IF CopyGoroutine THEN UNCHANGED pc ELSE Goto(b, "over")
    /\ UNCHANGED <<conf, object, mode, size, at, opened, got>>

-----------------------------------------------------------------------------
(* restore *)

(* Get opens the object; it is not there, or opening fails. *)
Open(b) ==
    /\ pc[b] = "open"
    /\ \/ /\ There /\ Goto(b, "read") /\ UNCHANGED res
          /\ opened' = IF InPlace THEN opened ELSE [opened EXCEPT ![b] = object]
       \/ Returns(b, "err") /\ UNCHANGED opened
    /\ UNCHANGED <<conf, object, mode, size, at, got>>

(* Mutant: each read asks for the object again. *)
ReadAnew(b) == object.blocks

(* What Get reads from: the file, or the object as it was. *)
Source(b) == IF InPlace THEN object.blocks ELSE opened[b].blocks

(* The block x is extracted; the last one of an archive ends the extraction. *)
Extracted(b, x) ==
    /\ got' = [got EXCEPT ![b] = @ \cup {x}]
    /\ at' = [at EXCEPT ![b] = @ + 1]
    /\ IF at[b] + 1 = size[x] THEN Goto(b, "close") ELSE UNCHANGED pc
    /\ UNCHANGED <<conf, object, mode, size, opened, res>>

(* The next block is read.  Behind a block of another build it may make sense
   in a plain tar. *)
ReadBlock(b) ==
    /\ pc[b] = "read" /\ at[b] < Len(Source(b))
    /\ LET x == Source(b)[at[b] + 1]
       IN  /\ x # Nobody
           /\ got[b] \subseteq {x} \/ ~conf.gzip
           /\ Extracted(b, x)

(* The file ends, or holds zeros: to a plain tar, where an entry could begin,
   that is the end of the archive. *)
ReadEnd(b) ==
    /\ pc[b] = "read" /\ ~conf.gzip
    /\ at[b] < Len(Source(b)) => Source(b)[at[b] + 1] = Nobody
    /\ Returns(b, "ok")
    /\ UNCHANGED <<conf, object, mode, size, at, opened, got>>

(* What is read makes no sense, or reading or extracting fails, or the deadline
   of Get passes. *)
ReadFails(b) ==
    /\ pc[b] = "read"
    /\ Returns(b, "err")
    /\ UNCHANGED <<conf, object, mode, size, at, opened, got>>

-----------------------------------------------------------------------------

(* What is left to close is closed, what is left to write to disk is written,
   and the mode returns. *)
Close(b) ==
    /\ pc[b] = "close"
    /\ Returns(b, "ok") \/ Returns(b, "err")
    /\ UNCHANGED <<conf, object, mode, size, at, opened, got>>

(* The process ends, or is killed, with all that is left in it. *)
Exit(b) ==
    /\ pc[b] # "over"
    /\ Goto(b, "over")
    /\ UNCHANGED <<conf, object, mode, size, at, opened, got, res>>

AllOver == \A b \in Builds : pc[b] = "over"

BuildsDone == AllOver /\ UNCHANGED buildVars

BuildsNext ==
    \/ \E b \in Builds :
        \/ Ask(b) \/ Create(b) \/ CopyBlock(b) \/ CopyFails(b)
        \/ Store(b) \/ StoreCut(b) \/ PutTimeout(b)
        \/ Open(b) \/ ReadBlock(b) \/ ReadEnd(b) \/ ReadFails(b)
        \/ Close(b) \/ Exit(b)
    \/ BuildsDone

BuildsSpec == BuildsInit /\ [][BuildsNext]_buildVars

-----------------------------------------------------------------------------

Rival == INSTANCE RivalCache WITH
    override <- conf.override,
    atomic <- ~InPlace,
    there <- There,
    cached <- ToSet(object.blocks) \ {Nobody},
    leave <- {b \in Builds : mode[b] = "rebuild" /\ ~conf.override
                             /\ pc[b] \in {"create", "copy", "cut", "close"}},
    got <- [b \in Builds |-> got[b] \cup (ToSet(opened[b].blocks) \ {Nobody})],
    ok <- {b \in Builds : res[b] = "ok"}

(* Whatever the builds do at the same time, they keep what RivalCache promises:
   rebuilder.go:62-84 lets a build that is not to override write only after it
   has found nothing, s3.go:112, azure.go:116 and the object writer of gcs
   publish one build's archive in one step and one Get reads one of those, and
   no build reports success with nothing at the path. *)
ImplementsRivalCache == Rival!RivalSpec

(* A restore that succeeds has one whole archive of one build.  Not so where a
   plain tar is read while the file is written in place (filesystem.go:94,
   sftp.go:111), nor where gcs has committed the beginning of one
   (gcs.go:117-124): without gzip, nothing tells the end of the data from the
   end of the archive. *)
RestoresOneArchive ==
    (conf.gzip \/ conf.kind \in {"azure", "s3"}) =>
        \A b \in Builds : mode[b] = "restore" /\ res[b] = "ok" =>
            \E x \in Builds : got[b] = {x} /\ at[b] = size[x]

(* A restore that succeeds has extracted data of one build at most. *)
RestoresOneObject ==
    \A b \in Builds : mode[b] = "restore" /\ res[b] = "ok" =>
        \A x, y \in got[b] : x = y

(* When a rebuild to azure or s3 has succeeded, a whole archive of one build is
   there, and stays there, with any number of rivals, killed or not. *)
OkMeansStored ==
    conf.kind \in {"azure", "s3"} =>
        \A b \in Builds : mode[b] = "rebuild" /\ res[b] = "ok" =>
            \E x \in Builds : object = [owner |-> x, blocks |-> [k \in 1..size[x] |-> x]]

(* When all rebuilds of a file have ended well, the one that truncated it last
   has written all of its archive: no zeros of skipped blocks are left in it,
   whoever has written to the file in between (filesystem.go:94-106). *)
NoHolesLeft ==
    InPlace /\ There /\ AllOver
    /\ (\A b \in Builds : mode[b] = "rebuild" => res[b] = "ok") =>
        /\ Len(object.blocks) >= size[object.owner]
        /\ \A k \in 1..size[object.owner] : object.blocks[k] # Nobody
=============================================================================
