----------------------------- MODULE ArchiveTree -----------------------------
(***************************************************************************)
(* What becomes of a tree of directories, files and links that is archived *)
(* (Create, src/archive/tar/tar.go:39-160) and extracted (Extract,         *)
(* tar.go:163-288), entry by entry, onto a disk where something may be     *)
(* already, by one worker for every mount (src/cache/restorer.go:51-75):   *)
(* mounts may lie inside one another.                                      *)
(*                                                                         *)
(* A path is a sequence of names, from the working directory down; a name  *)
(* is a number, and names sort as numbers do.  That an entry is extracted  *)
(* to the path it was archived from is shown in ArchivePaths; failures of  *)
(* the disk and of the transfer are the matter of Extractor.               *)
(***************************************************************************)
EXTENDS Integers, FiniteSets, SequencesExt

CONSTANTS
    Trees,          \* what may have been archived
    Disks,          \* what a restore may find
    MountLists,     \* Config.Mount, as a set
    MaxBlocks,      \* bound: blocks of a file
    MaxHops         \* bound: links followed in one path

VARIABLES
    tree,           \* the tree that was archived
    found,          \* the disk that the restore has found
    mounts,         \* Config.Mount
    skipSymlinks,   \* Config.SkipSymlinks
    root,           \* the user may write where the mode forbids it
    disk,           \* the disk: by path, what is there
    pc,             \* pc[m]: where the worker of mount m is
    done            \* done[m]: the paths of the entries it has extracted

given == <<tree, found, mounts, skipSymlinks, root>>
treeVars == <<given, disk, pc, done>>

(* Something on disk.  What a file holds is a row of blocks, each named by the
   path it was archived from, <<>> for one that was on disk before.  Pipes
   stands for named pipes and devices. *)
Dir(w) == [kind |-> "dir", write |-> w, data |-> <<>>]
RegularFile(w, blocks) == [kind |-> "file", write |-> w, data |-> blocks]
Link(to) == [kind |-> "link", write |-> TRUE, data |-> to]
Special(k) == [kind |-> k, write |-> TRUE, data |-> <<>>]

ASSUME BoundsAssumption == MaxBlocks \in Nat /\ MaxHops \in Nat

(* 0 is no name. *)
Name == Nat \ {0}
Path == Seq(Name) \ {<<>>}

DirNode == [kind : {"dir"}, write : BOOLEAN, data : {<<>>}]
FileNode == [kind : {"file"}, write : BOOLEAN,
             data : {b \in Seq(Seq(Name)) : Len(b) <= MaxBlocks}]
LinkNode == [kind : {"link"}, write : {TRUE}, data : Seq(Name)]
SpecialNode == [kind : {"pipe", "socket"}, write : {TRUE}, data : {<<>>}]

(* What has something in it is a directory. *)
IsTree(t) ==
    /\ DOMAIN t \subseteq Path
    /\ \A p \in DOMAIN t : \A k \in 1..Len(p) - 1 :
        SubSeq(p, 1, k) \in DOMAIN t /\ t[SubSeq(p, 1, k)].kind = "dir"

ASSUME TreesAssumption == \A t \in Trees :
    /\ IsTree(t) /\ IsFiniteSet(DOMAIN t)
    /\ \A p \in DOMAIN t : t[p] \in DirNode \cup FileNode \cup LinkNode \cup SpecialNode

ASSUME DisksAssumption == \A d \in Disks :
    /\ IsTree(d)
    /\ \A p \in DOMAIN d : d[p] \in DirNode \cup FileNode \cup LinkNode

-----------------------------------------------------------------------------
(* Create *)

(* Mutant: a directory comes after what is in it. *)
After(p, q) ==
    \/ IsStrictPrefix(q, p)
    \/ \E k \in 1..Len(p) : /\ k <= Len(q) /\ p[k] < q[k]
                            /\ SubSeq(p, 1, k - 1) = SubSeq(q, 1, k - 1)

(* A directory comes before what is in it, names come in their order. *)
Before(p, q) ==
    \/ IsStrictPrefix(p, q)
    \/ \E k \in 1..Len(p) : /\ k <= Len(q) /\ p[k] < q[k]
                            /\ SubSeq(p, 1, k - 1) = SubSeq(q, 1, k - 1)

(* filepath.Walk of the mount m, which follows no link. *)
Walk(m) == {p \in DOMAIN tree : IsPrefix(m, p)}

(* tar.FileInfoHeader knows no sockets. *)
CreateFails(m) == \E p \in Walk(m) : tree[p].kind = "socket"

(* The paths of the entries in the archive of m. *)
Entries(m) == {p \in Walk(m) : ~(skipSymlinks /\ tree[p].kind = "link")}

Archived == UNION {Entries(m) : m \in mounts}

-----------------------------------------------------------------------------
(* The disk *)

Parent(p) == Front(p)

NoPath == <<0>>

(* The parts of the path p that are links. *)
Links(p) == {k \in 1..Len(p) : /\ SubSeq(p, 1, k) \in DOMAIN disk
                               /\ disk[SubSeq(p, 1, k)].kind = "link"}

(* The path p with the first link in it followed. *)
Hop(p) ==
    LET k == Min(Links(p)) IN disk[SubSeq(p, 1, k)].data \o SubSeq(p, k + 1, Len(p))

(* Where the path p leads, up to n links in it followed; NoPath for a loop. *)
Follow[n \in 0..MaxHops] ==
    [p \in Seq(Nat) |->
        IF Links(p) = {} THEN p ELSE IF n = 0 THEN NoPath ELSE Follow[n - 1][Hop(p)]]

Real(p) == Follow[MaxHops][p]

(* The path p, of which only the last component is not followed. *)
Place(p) == Append(Real(Parent(p)), Last(p))

IsDir(p) == Real(p) = <<>> \/ (Real(p) \in DOMAIN disk /\ disk[Real(p)].kind = "dir")

(* Something may be made or removed in the directory p. *)
MayChange(p) == IsDir(p) /\ (root \/ Real(p) = <<>> \/ disk[Real(p)].write)

Put(p, node) == disk' = [q \in DOMAIN disk \cup {p} |-> IF q = p THEN node ELSE disk[q]]

(* The longest part of p that is a directory. *)
DirPart(p) == CHOOSE q \in {SubSeq(p, 1, k) : k \in 0..Len(p)} :
                /\ IsDir(q)
                /\ \A k \in Len(q) + 1..Len(p) : ~IsDir(SubSeq(p, 1, k))

(* Mutant: os.Mkdir. *)
CanMkdir(p) == p # <<>> => MayChange(Parent(p)) /\ Place(p) \notin DOMAIN disk

(* os.MkdirAll finds directories, follows links to them, and makes what is
   missing, unless something else is in its way. *)
CanMkdirAll(p) ==
    LET from == DirPart(p)
    IN  p # from => /\ MayChange(from)
                    /\ Append(Real(from), p[Len(from) + 1]) \notin DOMAIN disk

MkdirAll(p, w) ==
    LET from == DirPart(p)
        made == {Real(from) \o SubSeq(p, Len(from) + 1, k) : k \in Len(from) + 1..Len(p)}
    IN  disk' = [q \in DOMAIN disk \cup made |-> IF q \in made THEN Dir(w) ELSE disk[q]]

-----------------------------------------------------------------------------
(* Extract *)

TreeInit ==
    /\ tree \in Trees /\ found \in Disks /\ mounts \in MountLists
    /\ skipSymlinks \in BOOLEAN /\ root \in BOOLEAN
    /\ \A m \in mounts : m \in DOMAIN tree
    /\ disk = found
    /\ pc = [m \in mounts |-> IF CreateFails(m) THEN "failed" ELSE "next"]
    /\ done = [m \in mounts |-> {}]

(* The entries that are not extracted yet; the path and the node of the first
   one, at which the worker of m is. *)
Rest(m) == Entries(m) \ done[m]
Target(m) == CHOOSE p \in Rest(m) : \A q \in Rest(m) : ~Before(q, p)
Header(m) == tree[Target(m)]

Goto(m, l) == pc' = [pc EXCEPT ![m] = l]
Fails(m) == Goto(m, "failed") /\ UNCHANGED <<given, disk, done>>
Extracted(m) == Goto(m, "next") /\ done' = [done EXCEPT ![m] = @ \cup {Target(m)}]

(* os.MkdirAll of the directory of the target *)
EnsureParent(m) ==
    /\ pc[m] = "next" /\ Rest(m) # {}
    /\ IF CanMkdirAll(Parent(Target(m)))
       THEN /\ MkdirAll(Parent(Target(m)), TRUE)
            /\ Goto(m, IF Header(m).kind = "link" THEN "unlink" ELSE "make")
            /\ UNCHANGED <<given, done>>
       ELSE Fails(m)

(* extractDir: a directory that is there keeps its mode. *)
ExtractDir(m) ==
    /\ pc[m] = "make" /\ Header(m).kind = "dir"
    /\ IF CanMkdirAll(Target(m))
       THEN MkdirAll(Target(m), Header(m).write) /\ Extracted(m) /\ UNCHANGED given
       ELSE Fails(m)

(* Mutant: the file is opened for appending. *)
Appended(new, old) == old \o new

(* What was in the file stays behind what is written to its beginning. *)
Overwritten(new, old) == new \o SubSeq(old, Len(new) + 1, Len(old))

(* os.OpenFile without O_TRUNC, which follows a link; a pipe or a device has
   no contents and comes back as a file. *)
ExtractRegular(m) ==
    /\ pc[m] = "make" /\ Header(m).kind \in {"file", "pipe"}
    /\ LET p == Real(Target(m))
           new == p \notin DOMAIN disk
       IN  IF \/ new /\ p \notin {<<>>, NoPath} /\ MayChange(Parent(p))
              \/ ~new /\ disk[p].kind = "file" /\ (root \/ disk[p].write)
           THEN /\ Put(p, IF new THEN RegularFile(Header(m).write, Header(m).data)
                          ELSE [disk[p] EXCEPT !.data = Overwritten(Header(m).data, @)])
                /\ Extracted(m) /\ UNCHANGED given
           ELSE Fails(m)

(* What is in the directory p. *)
Inside(p) == {q \in DOMAIN disk : IsStrictPrefix(p, q)}

(* Mutant: a link is not made where something is. *)
KeepWhatIsThere(m) ==
    /\ pc[m] = "unlink"
    /\ IF Place(Target(m)) \in DOMAIN disk THEN Extracted(m)
       ELSE Goto(m, "link") /\ UNCHANGED done
    /\ UNCHANGED <<given, disk>>

(* unlink: os.Lstat *)
Lstat(m) ==
    /\ pc[m] = "unlink"
    /\ Goto(m, IF Place(Target(m)) \in DOMAIN disk THEN "remove" ELSE "link")
    /\ UNCHANGED <<given, disk, done>>

(* Mutant: os.RemoveAll. *)
RemoveAll(m) ==
    /\ pc[m] = "remove"
    /\ LET p == Place(Target(m))
       IN  IF MayChange(Parent(p))
           THEN /\ disk' = [q \in DOMAIN disk \ ({p} \cup Inside(p)) |-> disk[q]]
                /\ Goto(m, "link") /\ UNCHANGED <<given, done>>
           ELSE Fails(m)

(* unlink: os.Remove, not of a directory that has something in it *)
RemoveOld(m) ==
    /\ pc[m] = "remove"
    /\ LET p == Place(Target(m))
       IN  IF p \in DOMAIN disk /\ Inside(p) = {} /\ MayChange(Parent(p))
           THEN /\ disk' = [q \in DOMAIN disk \ {p} |-> disk[q]]
                /\ Goto(m, "link") /\ UNCHANGED <<given, done>>
           ELSE Fails(m)

(* extractSymlink: os.Symlink *)
Symlink(m) ==
    /\ pc[m] = "link"
    /\ IF Place(Target(m)) \notin DOMAIN disk /\ MayChange(Parent(Target(m)))
       THEN Put(Place(Target(m)), Header(m)) /\ Extracted(m) /\ UNCHANGED given
       ELSE Fails(m)

(* The archive has ended. *)
ExtractEnds(m) ==
    /\ pc[m] = "next" /\ Rest(m) = {}
    /\ Goto(m, "ok")
    /\ UNCHANGED <<given, disk, done>>

Extract(m) ==
    \/ EnsureParent(m) \/ ExtractDir(m) \/ ExtractRegular(m)
    \/ Lstat(m) \/ RemoveOld(m) \/ Symlink(m) \/ ExtractEnds(m)

AllReturned == \A m \in mounts : pc[m] \in {"ok", "failed"}

TreeNext == (\E m \in mounts : Extract(m)) \/ (AllReturned /\ UNCHANGED treeVars)

TreeSpec == TreeInit /\ [][TreeNext]_treeVars

-----------------------------------------------------------------------------

(* The disk stays a tree of directories with files and links in them. *)
TreeTypeOK ==
    /\ DOMAIN pc = mounts /\ DOMAIN done = mounts
    /\ \A m \in mounts :
        /\ pc[m] \in {"next", "make", "unlink", "remove", "link", "ok", "failed"}
        /\ done[m] \subseteq Entries(m)
        /\ pc[m] \in {"make", "unlink", "remove", "link"} => Rest(m) # {}
    /\ \A p \in DOMAIN disk :
        /\ disk[p].kind \in {"dir", "file", "link"} /\ disk[p].write \in BOOLEAN
        /\ disk[p].kind = "file" => Len(disk[p].data) <= MaxBlocks
        /\ Parent(p) # <<>> => Parent(p) \in DOMAIN disk /\ disk[Parent(p)].kind = "dir"

AllOk == \A m \in mounts : pc[m] = "ok"

Empty(d) == DOMAIN d = {}

NoLinksFound == \A p \in DOMAIN found : found[p].kind # "link"

(* The directory p has a mount in it. *)
AboveMount(p) == \E m \in mounts : IsStrictPrefix(p, m)

(* The node that an entry becomes on an empty disk. *)
Fresh(p) == IF tree[p].kind = "pipe" THEN RegularFile(tree[p].write, <<>>) ELSE tree[p]

(* On an empty disk a restore that succeeds gives the tree back: every file,
   directory and link with its contents, target and mode, and nothing else;
   named pipes and devices as empty files, no links if they are skipped.  Only
   a directory around a mount, which the worker of that mount may have made, is
   not sure to have its mode back (tar.go:193, 234, 242). *)
TreesComeBack ==
    AllOk /\ Empty(found) =>
        /\ \A p \in Archived :
            /\ p \in DOMAIN disk
            /\ disk[p] = Fresh(p) \/ (AboveMount(p) /\ disk[p] = Dir(TRUE))
        /\ \A p \in DOMAIN disk \ Archived : AboveMount(p) /\ disk[p] = Dir(TRUE)

Inner(p) == \E m, n \in mounts : m # n /\ IsPrefix(m, p) /\ IsPrefix(n, p)

(* No socket, no mode that forbids, no link in two archives. *)
Harmless ==
    /\ \A m \in mounts : ~CreateFails(m)
    /\ root \/ \A p \in Archived : tree[p].write
    /\ \A p \in Archived : ~(Inner(p) /\ tree[p].kind = "link")

(* On an empty disk no extraction fails, of mounts next to or inside one another
   (restorer.go:51), but for two reasons: a mode forbids a user who is not root
   to go on, as a directory is made with its own mode before what is in it
   (tar.go:199, 234); or two workers make the same link, which neither finds
   there when it looks (tar.go:258-262). *)
FreshRestoresSucceed ==
    Empty(found) /\ Harmless => \A m \in mounts : pc[m] # "failed"

(* What a restore that succeeds has archived is there, whatever was there
   before, unless links were, through which it writes elsewhere: a file begins
   with what was archived, a link leads where it led, a directory is one
   (tar.go:233-288). *)
ArchivedIsThere ==
    AllOk /\ NoLinksFound => \A p \in Archived :
        /\ p \in DOMAIN disk
        /\ disk[p].kind = Fresh(p).kind
        /\ tree[p].kind = "file" => IsPrefix(tree[p].data, disk[p].data)
        /\ tree[p].kind = "link" => disk[p] = tree[p]

(* A restore removes and changes nothing that was not archived, inside a mount
   or outside, and the files it finds keep what they have beyond the archived
   size (tar.go:242, 281-287). *)
KeepsTheRest ==
    [][NoLinksFound => \A p \in DOMAIN disk :
        /\ p \notin Archived => p \in DOMAIN disk' /\ disk'[p] = disk[p]
        /\ disk[p].kind = "file" /\ p \in DOMAIN disk' /\ disk'[p].kind = "file"
            => Len(disk'[p].data) >= Len(disk[p].data)]_disk
=============================================================================
