------------------------- MODULE ArchiveTreeProofs --------------------------
(***************************************************************************)
(* Theorems about ArchiveTree, for any trees, disks and mounts: the disk   *)
(* stays a tree, a restore gives back what was archived and leaves alone   *)
(* what was not, and on an empty disk no harmless extraction fails.        *)
(***************************************************************************)
EXTENDS ArchiveTree, SequenceTheorems, FiniteSetTheorems, TLAPS

(* Induction over numbers. *)
N == INSTANCE FilePathProofs

-----------------------------------------------------------------------------
(* Parts of paths. *)

LEMMA PartProperties ==
    ASSUME NEW S, NEW p \in Seq(S), NEW k \in 0..Len(p)
    PROVE  /\ SubSeq(p, 1, k) \in Seq(S) /\ Len(SubSeq(p, 1, k)) = k
           /\ \A i \in 1..k : SubSeq(p, 1, k)[i] = p[i]
<1> DEFINE r == SubSeq(p, 1, k)
<1>1. 1 \in Int /\ k \in Int /\ k \in Nat
  OBVIOUS
<1>2. \A i \in 1..k : p[i] \in S
  OBVIOUS
<1>3. r \in Seq(S) /\ Len(r) = (IF 1 <= k THEN k - 1 + 1 ELSE 0)
  BY <1>1, <1>2, SubSeqProperties
<1>4. \A i \in 1..k - 1 + 1 : r[i] = p[1 + i - 1]
  BY <1>1, <1>2, SubSeqProperties
<1> HIDE DEF r
<1>5. (IF 1 <= k THEN k - 1 + 1 ELSE 0) = k /\ k - 1 + 1 = k /\ \A i \in 1..k : 1 + i - 1 = i
  BY <1>1
<1>6. r \in Seq(S) /\ Len(r) = k /\ \A i \in 1..k : r[i] = p[i]
  BY <1>3, <1>4, <1>5
<1> QED
  BY <1>6 DEF r

LEMMA PartOfPart ==
    ASSUME NEW S, NEW p \in Seq(S), NEW k \in 0..Len(p), NEW j \in 0..k
    PROVE  SubSeq(SubSeq(p, 1, k), 1, j) = SubSeq(p, 1, j)
<1> DEFINE r == SubSeq(p, 1, k)
           a == SubSeq(r, 1, j)
           b == SubSeq(p, 1, j)
<1>1. r \in Seq(S) /\ Len(r) = k /\ \A i \in 1..k : r[i] = p[i]
  BY PartProperties
<1>2. j \in 0..Len(p) /\ \A i \in 1..j : i \in 1..k
  OBVIOUS
<1> HIDE DEF r
<1>3. a \in Seq(S) /\ Len(a) = j /\ \A i \in 1..j : a[i] = r[i]
  BY <1>1, PartProperties
<1>4. b \in Seq(S) /\ Len(b) = j /\ \A i \in 1..j : b[i] = p[i]
  BY <1>2, PartProperties
<1> HIDE DEF a, b
<1>5. a = b
  BY <1>1, <1>2, <1>3, <1>4, SeqEqual
<1> QED
  BY <1>5 DEF a, b, r

LEMMA PartOfConcat ==
    ASSUME NEW S, NEW r \in Seq(S), NEW s \in Seq(S), NEW k \in 0..Len(r) + Len(s)
    PROVE  /\ k <= Len(r) => SubSeq(r \o s, 1, k) = SubSeq(r, 1, k)
           /\ k > Len(r) => SubSeq(r \o s, 1, k) = r \o SubSeq(s, 1, k - Len(r))
<1> DEFINE c == r \o s
           a == SubSeq(c, 1, k)
<1>1. /\ c \in Seq(S) /\ Len(c) = Len(r) + Len(s) /\ Len(r) \in Nat /\ Len(s) \in Nat
      /\ \A i \in 1..Len(r) + Len(s) : c[i] = IF i <= Len(r) THEN r[i] ELSE s[i - Len(r)]
  BY ConcatProperties, LenProperties
<1> HIDE DEF c
<1>2. a \in Seq(S) /\ Len(a) = k /\ \A i \in 1..k : a[i] = c[i]
  BY <1>1, PartProperties
<1> HIDE DEF a
<1>3. CASE k <= Len(r)
  <2> DEFINE b == SubSeq(r, 1, k)
  <2>1. b \in Seq(S) /\ Len(b) = k /\ \A i \in 1..k : b[i] = r[i]
    BY <1>3, PartProperties
  <2> HIDE DEF b
  <2>2. \A i \in 1..k : c[i] = r[i]
    BY <1>1, <1>3
  <2>3. a = b
    BY <1>2, <2>1, <2>2, SeqEqual
  <2> QED
    BY <1>1, <1>3, <2>3 DEF a, b, c
<1>4. CASE k > Len(r)
  <2> DEFINE n == k - Len(r)
             t == SubSeq(s, 1, n)
             b == r \o t
  <2>1. n \in 0..Len(s) /\ Len(r) + n = k
    BY <1>1, <1>4
  <2> HIDE DEF n
  <2>2. t \in Seq(S) /\ Len(t) = n /\ \A i \in 1..n : t[i] = s[i]
    BY <2>1, PartProperties
  <2> HIDE DEF t
  <2>3. b \in Seq(S) /\ Len(b) = k
    BY <1>1, <2>1, <2>2, ConcatProperties
  <2>4. \A i \in 1..k : b[i] = IF i <= Len(r) THEN r[i] ELSE t[i - Len(r)]
    BY <1>1, <2>1, <2>2, ConcatProperties
  <2> HIDE DEF b
  <2>5. \A i \in 1..k : b[i] = c[i]
    <3>1. SUFFICES ASSUME NEW i \in 1..k PROVE b[i] = c[i]
      OBVIOUS
    <3>2. i \in 1..Len(r) + Len(s)
      BY <1>1
    <3>3. CASE i <= Len(r)
      BY <1>1, <2>4, <3>2, <3>3
    <3>4. CASE ~(i <= Len(r))
      <4>1. i - Len(r) \in 1..n
        BY <1>1, <2>1, <3>4
      <4> QED
        BY <1>1, <2>2, <2>4, <3>2, <3>4, <4>1
    <3> QED
      BY <3>3, <3>4
  <2>6. a = b
    BY <1>2, <2>3, <2>5, SeqEqual
  <2> QED
    BY <1>1, <1>4, <2>6 DEF a, b, c, t, n
<1> QED
  BY <1>1, <1>3, <1>4

(* A path, its directory and its name. *)
LEMMA ParentProperties ==
    ASSUME NEW S, NEW p \in Seq(S), p # <<>>
    PROVE  /\ Len(p) \in Nat \ {0} /\ Len(p) - 1 \in 0..Len(p)
           /\ Parent(p) = SubSeq(p, 1, Len(p) - 1)
           /\ Parent(p) \in Seq(S) /\ Len(Parent(p)) = Len(p) - 1
           /\ Last(p) \in S /\ Append(Parent(p), Last(p)) = p
<1>1. Len(p) \in Nat \ {0} /\ Len(p) - 1 \in 0..Len(p)
  BY EmptySeq, LenProperties
<1>2. Parent(p) = SubSeq(p, 1, Len(p) - 1)
  BY DEF Parent, Front
<1>3. Last(p) = p[Len(p)] /\ Last(p) \in S
  BY <1>1 DEF Last
<1> DEFINE f == Parent(p)
           a == Append(f, Last(p))
<1>4. f \in Seq(S) /\ Len(f) = Len(p) - 1 /\ \A i \in 1..Len(p) - 1 : f[i] = p[i]
  <2>1. PICK k \in 0..Len(p) : k = Len(p) - 1
    BY <1>1
  <2>2. f = SubSeq(p, 1, k)
    BY <1>2, <2>1
  <2> HIDE DEF f
  <2>3. f \in Seq(S) /\ Len(f) = k /\ \A i \in 1..k : f[i] = p[i]
    BY <2>2, PartProperties
  <2> QED
    BY <2>1, <2>3
<1> HIDE DEF f
<1>5. a \in Seq(S) /\ Len(a) = Len(f) + 1 /\ a[Len(f) + 1] = Last(p)
  BY <1>3, <1>4, AppendProperties
<1>6. \A i \in 1..Len(f) : a[i] = f[i]
  BY <1>3, <1>4, AppendProperties
<1> HIDE DEF a
<1>7. Len(a) = Len(p) /\ \A i \in 1..Len(a) : a[i] = p[i]
  BY <1>1, <1>3, <1>4, <1>5, <1>6
<1>8. a = p
  BY <1>5, <1>7, SeqEqual
<1> QED
  BY <1>1, <1>2, <1>3, <1>4, <1>8 DEF a, f

-----------------------------------------------------------------------------
(* The inductive invariant. *)

GivenInv ==
    /\ tree \in Trees /\ found \in Disks /\ mounts \subseteq DOMAIN tree
    /\ skipSymlinks \in BOOLEAN /\ root \in BOOLEAN

AtEntry == {"make", "unlink", "remove", "link"}

(* A worker is where the kind of its entry takes it. *)
WorkInv ==
    /\ DOMAIN pc = mounts /\ DOMAIN done = mounts
    /\ \A m \in mounts :
        /\ pc[m] \in {"next", "ok", "failed"} \cup AtEntry
        /\ done[m] \subseteq Entries(m)
        /\ pc[m] # "failed" => ~CreateFails(m)
        /\ pc[m] \in AtEntry => Rest(m) # {} /\ (pc[m] = "make" <=> Header(m).kind # "link")
        /\ pc[m] = "ok" => Rest(m) = {}

(* The disk stays a tree, ... *)
DiskInv ==
    /\ IsTree(disk)
    /\ \A p \in DOMAIN disk : disk[p] \in DirNode \cup FileNode \cup LinkNode

(* ... in which links are where links were archived; *)
LinkInv ==
    NoLinksFound => \A p \in DOMAIN disk :
        disk[p].kind = "link" => p \in DOMAIN tree /\ tree[p].kind = "link"

(* there are directories down to what is extracted; *)
WayInv ==
    NoLinksFound => \A m \in mounts : pc[m] \in AtEntry =>
        \A k \in 1..Len(Target(m)) - 1 :
            /\ SubSeq(Target(m), 1, k) \in DOMAIN disk
            /\ disk[SubSeq(Target(m), 1, k)].kind = "dir"

(* What was archived as p is there. *)
Stands(p) ==
    /\ p \in DOMAIN disk
    /\ disk[p].kind = Fresh(p).kind
    /\ tree[p].kind = "file" => IsPrefix(tree[p].data, disk[p].data)
    /\ tree[p].kind = "link" => disk[p] = tree[p]

(* and what was extracted is there, unless it is a link that another worker has
   removed to make it again. *)
StandInv ==
    NoLinksFound => \A m \in mounts : \A p \in done[m] :
        \/ Stands(p)
        \/ /\ tree[p].kind = "link"
           /\ \E n \in mounts : /\ pc[n] \in {"link", "failed"}
                                /\ Rest(n) # {} /\ Target(n) = p

(* A disk that was empty has what was extracted, as it was archived, and
   directories around mounts; *)
CleanInv ==
    Empty(found) => \A p \in DOMAIN disk :
        \/ disk[p] = Fresh(p) /\ \E m \in mounts : p \in done[m]
        \/ AboveMount(p) /\ disk[p] = Dir(TRUE)

(* on it there is no link to be removed. *)
HarmlessInv ==
    Empty(found) /\ Harmless => \A m \in mounts : pc[m] \notin {"remove", "failed"}

TreeInv ==
    /\ GivenInv /\ WorkInv /\ DiskInv /\ LinkInv
    /\ WayInv /\ StandInv /\ CleanInv /\ HarmlessInv

-----------------------------------------------------------------------------
(* Where paths lead. *)

(* Follow is what its definition says: there are rows of functions of any length,
   each function made from the one before. *)
LEMMA FollowDefinition ==
    Follow = [n \in 0..MaxHops |-> [p \in Seq(Nat) |->
        IF Links(p) = {} THEN p ELSE IF n = 0 THEN NoPath ELSE Follow[n - 1][Hop(p)]]]
<1> DEFINE First == [p \in Seq(Nat) |-> IF Links(p) = {} THEN p ELSE NoPath]
           Then(F) == [p \in Seq(Nat) |-> IF Links(p) = {} THEN p ELSE F[Hop(p)]]
           Row(f, m) == f = [n \in 0..m |-> IF n = 0 THEN First ELSE Then(f[n - 1])]
           G == {m \in Nat : \E f : Row(f, m)}
<1>1. 0 \in G
  <2> HIDE DEF First, Then
  <2> DEFINE f == [n \in 0..0 |-> First]
  <2>1. \A n \in 0..0 : n = 0
    OBVIOUS
  <2>2. f = [n \in 0..0 |-> IF n = 0 THEN First ELSE Then(f[n - 1])]
    BY <2>1
  <2> HIDE DEF f
  <2>3. Row(f, 0)
    BY <2>2
  <2> QED
    BY <2>3
<1>2. \A m \in 0..MaxHops - 1 : m \in G => m + 1 \in G
  <2> HIDE DEF First, Then
  <2>1. SUFFICES ASSUME NEW m \in Nat, NEW f, Row(f, m) PROVE \E g : Row(g, m + 1)
    <3>1. \A m \in 0..MaxHops - 1 : m \in Nat /\ m + 1 \in Nat
      BY BoundsAssumption DEF BoundsAssumption
    <3> QED
      BY <3>1
  <2> DEFINE g == [n \in 0..m + 1 |-> IF n <= m THEN f[n] ELSE Then(f[m])]
             h == [n \in 0..m + 1 |-> IF n = 0 THEN First ELSE Then(g[n - 1])]
  <2>2. \A n \in 0..m + 1 : g[n] = h[n]
    <3>1. SUFFICES ASSUME NEW n \in 0..m + 1 PROVE g[n] = h[n]
      OBVIOUS
    <3>2. CASE n = 0
      <4>1. 0 \in 0..m /\ 0 <= m /\ f[0] = First
        BY <2>1
      <4> QED
        BY <3>2, <4>1
    <3>3. CASE n \in 1..m
      <4>1. n \in 0..m /\ n <= m /\ n # 0 /\ n - 1 \in 0..m + 1 /\ n - 1 <= m
        BY <3>3
      <4>2. f[n] = Then(f[n - 1])
        BY <2>1, <4>1
      <4>3. g[n - 1] = f[n - 1] /\ g[n] = f[n] /\ h[n] = Then(g[n - 1])
        BY <4>1
      <4> QED
        BY <4>2, <4>3
    <3>4. CASE n = m + 1
      <4>1. n # 0 /\ ~(n <= m) /\ n - 1 = m /\ m \in 0..m + 1 /\ m <= m
        BY <3>4
      <4>2. g[m] = f[m] /\ g[n] = Then(f[m]) /\ h[n] = Then(g[m])
        BY <4>1
      <4> QED
        BY <4>2
    <3> QED
      BY <3>2, <3>3, <3>4
  <2>3. g = h
    BY <2>2
  <2> QED
    BY <2>3
<1> HIDE DEF G
<1>3. MaxHops \in G
  <2>1. MaxHops \in 0..MaxHops
    BY BoundsAssumption DEF BoundsAssumption
  <2> QED
    BY <1>1, <1>2, <2>1, BoundsAssumption, N!UpTo DEF BoundsAssumption
<1>4. PICK f : Row(f, MaxHops)
  BY <1>3 DEF G
<1>5. f = [n \in 0..MaxHops |-> [p \in Seq(Nat) |->
        IF Links(p) = {} THEN p ELSE IF n = 0 THEN NoPath ELSE f[n - 1][Hop(p)]]]
  <2> DEFINE e == [n \in 0..MaxHops |-> [p \in Seq(Nat) |->
        IF Links(p) = {} THEN p ELSE IF n = 0 THEN NoPath ELSE f[n - 1][Hop(p)]]]
  <2>1. \A n \in 0..MaxHops : f[n] = IF n = 0 THEN First ELSE Then(f[n - 1])
    BY <1>4
  <2>2. \A n \in 0..MaxHops : f[n] = e[n]
    <3>1. SUFFICES ASSUME NEW n \in 0..MaxHops PROVE f[n] = e[n]
      OBVIOUS
    <3>2. CASE n = 0
      BY <2>1, <3>2
    <3>3. CASE n # 0
      BY <2>1, <3>3
    <3> QED
      BY <3>2, <3>3
  <2>3. f = [n \in 0..MaxHops |-> f[n]]
    <3> HIDE DEF First, Then
    <3> QED
      BY <1>4
  <2> HIDE DEF e
  <2>4. e = [n \in 0..MaxHops |-> e[n]]
    BY DEF e
  <2>5. f = e
    BY <2>2, <2>3, <2>4
  <2> QED
    BY <2>5 DEF e
<1> QED
  BY <1>5 DEF Follow

LEMMA FollowStep ==
    ASSUME NEW n \in 0..MaxHops, NEW p \in Seq(Nat)
    PROVE  Follow[n][p] =
        IF Links(p) = {} THEN p ELSE IF n = 0 THEN NoPath ELSE Follow[n - 1][Hop(p)]
<1> DEFINE B(m) == [q \in Seq(Nat) |->
        IF Links(q) = {} THEN q ELSE IF m = 0 THEN NoPath ELSE Follow[m - 1][Hop(q)]]
<1>1. Follow = [m \in 0..MaxHops |-> B(m)]
  BY FollowDefinition
<1>2. Follow[n] = B(n)
  <2> HIDE DEF B
  <2> QED
    BY <1>1
<1> QED
  BY <1>2

LEMMA NamesAreNumbers ==
    ASSUME NEW p \in Seq(Name)
    PROVE  p \in Seq(Nat)
  BY SeqMonotonic DEF Name

(* A path without links leads where it says. *)
LEMMA RealWithoutLinks ==
    ASSUME NEW p \in Seq(Name), Links(p) = {}
    PROVE  Real(p) = p
  BY NamesAreNumbers, FollowStep, BoundsAssumption DEF Real, BoundsAssumption

LEMMA LinksAreNumbers ==
    ASSUME NEW p \in Seq(Name), Links(p) # {}
    PROVE  /\ Min(Links(p)) \in 1..Len(p)
           /\ SubSeq(p, 1, Min(Links(p))) \in DOMAIN disk
           /\ disk[SubSeq(p, 1, Min(Links(p)))].kind = "link"
<1>1. Links(p) \in SUBSET Nat
  BY LenProperties DEF Links
<1>2. \E k \in Links(p) : \A j \in Links(p) : k <= j
  BY <1>1, N!LeastNatural
<1>3. Min(Links(p)) \in Links(p)
  BY <1>2 DEF Min
<1> QED
  BY <1>3 DEF Links

LEMMA KindOfNode ==
    ASSUME NEW n \in DirNode \cup FileNode \cup LinkNode \cup SpecialNode
    PROVE  /\ n.kind = "dir" => n \in DirNode
           /\ n.kind = "file" => n \in FileNode
           /\ n.kind = "link" => n \in LinkNode
           /\ n.kind \in {"pipe", "socket"} => n \in SpecialNode
           /\ n.kind \in {"dir", "file", "link", "pipe", "socket"}
           /\ n.write \in BOOLEAN
  BY DEF DirNode, FileNode, LinkNode, SpecialNode

LEMMA HopIsPath ==
    ASSUME DiskInv, NEW p \in Seq(Name), Links(p) # {}
    PROVE  Hop(p) \in Seq(Name)
<1> DEFINE k == Min(Links(p))
<1>1. /\ k \in 1..Len(p) /\ SubSeq(p, 1, k) \in DOMAIN disk
      /\ disk[SubSeq(p, 1, k)].kind = "link"
  BY LinksAreNumbers
<1> HIDE DEF k
<1>2. disk[SubSeq(p, 1, k)].data \in Seq(Name)
  BY <1>1, KindOfNode DEF DiskInv, LinkNode
<1>3. SubSeq(p, k + 1, Len(p)) \in Seq(Name)
  <2>1. Len(p) \in Nat /\ k + 1 \in Int /\ \A i \in k + 1..Len(p) : p[i] \in Name
    BY <1>1, LenProperties
  <2> QED
    BY <2>1, SubSeqProperties
<1>4. disk[SubSeq(p, 1, k)].data \o SubSeq(p, k + 1, Len(p)) \in Seq(Name)
  BY <1>2, <1>3, ConcatProperties
<1> QED
  BY <1>4 DEF Hop, k

(* A path leads to one without links, if it leads anywhere. *)
LEMMA RealIsPath ==
    ASSUME DiskInv, NEW p \in Seq(Name)
    PROVE  Real(p) = NoPath \/ (Real(p) \in Seq(Name) /\ Links(Real(p)) = {})
<1> DEFINE Good(q) == q = NoPath \/ (q \in Seq(Name) /\ Links(q) = {})
           G == {n \in Nat : \A q \in Seq(Name) : Good(Follow[n][q])}
<1>1. 0 \in G
  <2>1. 0 \in 0..MaxHops
    BY BoundsAssumption DEF BoundsAssumption
  <2> QED
    BY <2>1, FollowStep, NamesAreNumbers
<1>2. \A n \in 0..MaxHops - 1 : n \in G => n + 1 \in G
  <2>1. SUFFICES ASSUME NEW n \in 0..MaxHops - 1, n \in G, NEW q \in Seq(Name)
                 PROVE  Good(Follow[n + 1][q])
    <3>1. \A n \in 0..MaxHops - 1 : n + 1 \in Nat
      BY BoundsAssumption DEF BoundsAssumption
    <3> HIDE DEF Good
    <3> QED
      BY <3>1
  <2>2. n + 1 \in 0..MaxHops /\ n + 1 # 0 /\ (n + 1) - 1 = n
    BY BoundsAssumption DEF BoundsAssumption
  <2>3. Follow[n + 1][q] = IF Links(q) = {} THEN q ELSE Follow[n][Hop(q)]
    BY <2>2, FollowStep, NamesAreNumbers
  <2>4. CASE Links(q) = {}
    BY <2>3, <2>4
  <2>5. CASE Links(q) # {}
    BY <2>1, <2>3, <2>5, HopIsPath
  <2> QED
    BY <2>4, <2>5
<1> HIDE DEF G
<1>3. MaxHops \in G
  <2>1. MaxHops \in 0..MaxHops
    BY BoundsAssumption DEF BoundsAssumption
  <2> QED
    BY <1>1, <1>2, <2>1, BoundsAssumption, N!UpTo DEF BoundsAssumption
<1> QED
  BY <1>3 DEF G, Real

LEMMA NoPathIsNoPath == NoPath \notin Seq(Name) /\ NoPath # <<>>
<1>1. NoPath[1] = 0 /\ Len(NoPath) = 1
  BY DEF NoPath
<1>2. ASSUME NoPath \in Seq(Name) PROVE FALSE
  <2>1. NoPath[1] \in Name
    BY <1>1, <1>2, ElementOfSeq
  <2> QED
    BY <1>1, <2>1 DEF Name
<1>3. NoPath # <<>>
  BY <1>1
<1> QED
  BY <1>2, <1>3

(* A directory by any path. *)
LEMMA DirProperties ==
    ASSUME DiskInv, NEW p \in Seq(Name), IsDir(p)
    PROVE  /\ Real(p) \in Seq(Name) /\ Links(Real(p)) = {}
           /\ Real(p) # <<>> => Real(p) \in DOMAIN disk /\ disk[Real(p)].kind = "dir"
<1>1. Real(p) # NoPath
  BY NoPathIsNoPath DEF IsDir, DiskInv, IsTree, Path
<1> QED
  BY <1>1, RealIsPath DEF IsDir

LEMMA NoLinksInNothing == <<>> \in Seq(Name) /\ Links(<<>>) = {} /\ Real(<<>>) = <<>>
<1>1. <<>> \in Seq(Name) /\ Links(<<>>) = {}
  BY DEF Links
<1> QED
  BY <1>1, RealWithoutLinks

(* The longest part of a path that is a directory. *)
LEMMA DirPartProperties ==
    ASSUME NEW p \in Seq(Name)
    PROVE  \E k \in 0..Len(p) :
              /\ DirPart(p) = SubSeq(p, 1, k) /\ Len(DirPart(p)) = k
              /\ DirPart(p) \in Seq(Name) /\ IsDir(DirPart(p))
              /\ \A j \in k + 1..Len(p) : ~IsDir(SubSeq(p, 1, j))
<1> DEFINE T == {n \in 0..Len(p) : IsDir(SubSeq(p, 1, Len(p) - n))}
<1>1. Len(p) \in Nat
  BY LenProperties
<1>2. Len(p) \in T
  <2>1. SubSeq(p, 1, Len(p) - Len(p)) = <<>>
    <3>1. Len(p) - Len(p) = 0 /\ 0 \in 0..Len(p)
      BY <1>1
    <3>2. SubSeq(p, 1, 0) \in Seq(Name) /\ Len(SubSeq(p, 1, 0)) = 0
      BY <3>1, PartProperties
    <3> QED
      BY <3>1, <3>2, EmptySeq
  <2>2. IsDir(SubSeq(p, 1, Len(p) - Len(p)))
    BY <2>1, NoLinksInNothing DEF IsDir
  <2> QED
    BY <1>1, <2>2
<1>3. PICK n \in T : \A i \in T : n <= i
  <2>1. T \in SUBSET Nat /\ T # {}
    BY <1>1, <1>2
  <2> HIDE DEF T
  <2> QED
    BY <2>1, N!LeastNatural
<1> DEFINE k == Len(p) - n
           q == SubSeq(p, 1, k)
<1>4. k \in 0..Len(p) /\ IsDir(q)
  BY <1>1, <1>3
<1>5. q \in Seq(Name) /\ Len(q) = k
  BY <1>4, PartProperties
<1>6. \A j \in k + 1..Len(p) : ~IsDir(SubSeq(p, 1, j))
  <2>1. SUFFICES ASSUME NEW j \in k + 1..Len(p), IsDir(SubSeq(p, 1, j)) PROVE FALSE
    OBVIOUS
  <2>2. Len(p) - j \in 0..Len(p) /\ Len(p) - (Len(p) - j) = j /\ ~(n <= Len(p) - j)
    BY <1>1, <1>3
  <2>3. Len(p) - j \in T
    BY <2>1, <2>2
  <2> QED
    BY <1>3, <2>2, <2>3
<1> DEFINE Longest(r) == IsDir(r) /\ \A j \in Len(r) + 1..Len(p) : ~IsDir(SubSeq(p, 1, j))
<1>7. q \in {SubSeq(p, 1, i) : i \in 0..Len(p)} /\ Longest(q)
  BY <1>4, <1>5, <1>6
<1>8. DirPart(p) = CHOOSE r \in {SubSeq(p, 1, i) : i \in 0..Len(p)} : Longest(r)
  BY DEF DirPart
<1>9. DirPart(p) \in {SubSeq(p, 1, i) : i \in 0..Len(p)} /\ Longest(DirPart(p))
  <2> HIDE DEF Longest, q
  <2> QED
    BY <1>7, <1>8
<1>10. PICK i \in 0..Len(p) : DirPart(p) = SubSeq(p, 1, i)
  BY <1>9
<1>11. DirPart(p) \in Seq(Name) /\ Len(DirPart(p)) = i
  BY <1>10, PartProperties
<1> QED
  BY <1>9, <1>10, <1>11

-----------------------------------------------------------------------------
(* Making directories. *)

(* os.MkdirAll adds directories and leaves what is there as it is. *)
LEMMA MkdirAllProperties ==
    ASSUME DiskInv, NEW p \in Seq(Name), NEW w \in BOOLEAN, CanMkdirAll(p), MkdirAll(p, w)
    PROVE  /\ DOMAIN disk \subseteq DOMAIN disk'
           /\ \A q \in DOMAIN disk : disk'[q] = disk[q]
           /\ \A q \in DOMAIN disk' \ DOMAIN disk : disk'[q] = Dir(w)
           /\ DiskInv'
           /\ Links(p) = {} =>
                /\ \A k \in 1..Len(p) : /\ SubSeq(p, 1, k) \in DOMAIN disk'
                                        /\ disk'[SubSeq(p, 1, k)].kind = "dir"
                /\ \A q \in DOMAIN disk' \ DOMAIN disk :
                    \E k \in 1..Len(p) : q = SubSeq(p, 1, k)
<1> DEFINE from == DirPart(p)
           r == Real(from)
           more(k) == SubSeq(p, Len(from) + 1, k)
           made == {r \o more(k) : k \in Len(from) + 1..Len(p)}
<1>1. PICK n \in 0..Len(p) :
        /\ from = SubSeq(p, 1, n) /\ Len(from) = n /\ from \in Seq(Name) /\ IsDir(from)
        /\ \A j \in n + 1..Len(p) : ~IsDir(SubSeq(p, 1, j))
  BY DirPartProperties
<1>2. /\ r \in Seq(Name) /\ Links(r) = {} /\ Len(r) \in Nat /\ Len(p) \in Nat
      /\ r # <<>> => r \in DOMAIN disk /\ disk[r].kind = "dir"
  BY <1>1, DirProperties, LenProperties
<1>3. disk' = [q \in DOMAIN disk \cup made |-> IF q \in made THEN Dir(w) ELSE disk[q]]
  BY DEF MkdirAll
<1>4. ASSUME NEW k \in n + 1..Len(p)
      PROVE  /\ more(k) \in Seq(Name) /\ Len(more(k)) = k - n
             /\ \A i \in 1..k - n : more(k)[i] = p[n + i]
  <2>1. n + 1 \in Int /\ k \in Int /\ n \in Nat /\ n + 1 <= k /\ k <= Len(p)
    BY <1>1, <1>2
  <2>2. \A i \in n + 1..k : p[i] \in Name
    BY <2>1
  <2> DEFINE m == n + 1
             t == SubSeq(p, m, k)
  <2>3. m \in Int /\ m <= k /\ k - m + 1 = k - n /\ \A i \in 1..k - n : m + i - 1 = n + i
    BY <2>1
  <2> HIDE DEF m
  <2>4. t \in Seq(Name) /\ Len(t) = (IF m <= k THEN k - m + 1 ELSE 0)
    BY <2>1, <2>2, <2>3, SubSeqProperties DEF m
  <2>5. \A i \in 1..k - m + 1 : t[i] = p[m + i - 1]
    BY <2>1, <2>2, <2>3, SubSeqProperties DEF m
  <2> HIDE DEF t
  <2>6. t \in Seq(Name) /\ Len(t) = k - n /\ \A i \in 1..k - n : t[i] = p[n + i]
    BY <2>3, <2>4, <2>5
  <2> QED
    BY <1>1, <2>6 DEF t, m
<1> HIDE DEF from, r, more
<1>5. ASSUME NEW k \in n + 1..Len(p), NEW j \in n + 1..k
      PROVE  SubSeq(more(k), 1, j - n) = more(j)
  <2>1. j - n \in 0..Len(more(k)) /\ \A i \in 1..j - n : i \in 1..k - n
    BY <1>1, <1>4
  <2> DEFINE a == SubSeq(more(k), 1, j - n)
  <2>2. a \in Seq(Name) /\ Len(a) = j - n /\ \A i \in 1..j - n : a[i] = more(k)[i]
    BY <1>4, <2>1, PartProperties
  <2> HIDE DEF a
  <2>3. j \in n + 1..Len(p)
    BY <1>1, <1>2
  <2>4. more(j) \in Seq(Name) /\ Len(more(j)) = j - n /\ \A i \in 1..j - n : more(j)[i] = p[n + i]
    BY <1>4, <2>3
  <2>5. a = more(j)
    BY <1>4, <2>1, <2>2, <2>4, SeqEqual
  <2> QED
    BY <2>5 DEF a
(* The parts of what is made are parts of the directory or made, too. *)
<1>6. ASSUME NEW k \in n + 1..Len(p)
      PROVE  /\ r \o more(k) \in Path /\ Len(r \o more(k)) = Len(r) + (k - n)
             /\ \A j \in 1..Len(r) : SubSeq(r \o more(k), 1, j) = SubSeq(r, 1, j)
             /\ \A j \in Len(r) + 1..Len(r) + (k - n) :
                  /\ n + (j - Len(r)) \in n + 1..k
                  /\ SubSeq(r \o more(k), 1, j) = r \o more(n + (j - Len(r)))
  <2> DEFINE c == r \o more(k)
  <2>1. more(k) \in Seq(Name) /\ Len(more(k)) = k - n
    BY <1>4
  <2>2. c \in Seq(Name) /\ Len(c) = Len(r) + (k - n)
    BY <1>2, <2>1, ConcatProperties
  <2>3. c # <<>>
    BY <1>1, <1>2, <2>2
  <2>4. ASSUME NEW j \in 1..Len(r) PROVE SubSeq(c, 1, j) = SubSeq(r, 1, j)
    <3>1. j \in 0..Len(r) + Len(more(k)) /\ j <= Len(r)
      BY <1>1, <1>2, <2>1
    <3> QED
      BY <1>2, <2>1, <3>1, PartOfConcat
  <2>5. ASSUME NEW j \in Len(r) + 1..Len(r) + (k - n)
        PROVE  /\ n + (j - Len(r)) \in n + 1..k
               /\ SubSeq(c, 1, j) = r \o more(n + (j - Len(r)))
    <3>1. /\ j \in 0..Len(r) + Len(more(k)) /\ j > Len(r)
          /\ n + (j - Len(r)) \in n + 1..k /\ (n + (j - Len(r))) - n = j - Len(r)
      BY <1>1, <1>2, <2>1
    <3>2. SubSeq(c, 1, j) = r \o SubSeq(more(k), 1, j - Len(r))
      BY <1>2, <2>1, <3>1, PartOfConcat
    <3>3. SubSeq(more(k), 1, j - Len(r)) = more(n + (j - Len(r)))
      BY <1>5, <3>1
    <3> QED
      BY <3>1, <3>2, <3>3
  <2> QED
    BY <2>2, <2>3, <2>4, <2>5 DEF Path
<1>7. made \cap DOMAIN disk = {}
  <2>1. SUFFICES ASSUME NEW k \in n + 1..Len(p), r \o more(k) \in DOMAIN disk PROVE FALSE
    BY <1>1
  <2>2. n + 1 \in 1..Len(p) /\ p # <<>> /\ n < Len(p) /\ n + 1 \in n + 1..k
    BY <1>1, <1>2, <2>1
  <2>3. p # from
    BY <1>1, <2>2
  <2>4. Append(r, p[n + 1]) \notin DOMAIN disk
    BY <1>1, <2>3 DEF CanMkdirAll, from, r
  <2>5. more(n + 1) = <<p[n + 1]>>
    <3>1. n + 1 \in n + 1..Len(p) /\ (n + 1) - n = 1 /\ 1 \in 1..(n + 1) - n
      BY <2>2, <1>1
    <3>2. more(n + 1) \in Seq(Name) /\ Len(more(n + 1)) = 1 /\ more(n + 1)[1] = p[n + 1]
      BY <1>4, <3>1
    <3> DEFINE t == more(n + 1)
               u == <<p[n + 1]>>
    <3>3. p[n + 1] \in Name
      BY <2>2
    <3>4. u \in Seq(Name) /\ Len(u) = 1 /\ u[1] = p[n + 1]
      BY <3>3
    <3> HIDE DEF t, u
    <3>5. t \in Seq(Name) /\ Len(t) = Len(u) /\ \A i \in 1..Len(t) : t[i] = u[i]
      BY <3>2, <3>4 DEF t
    <3>6. t = u
      BY <3>4, <3>5, SeqEqual
    <3> QED
      BY <3>6 DEF t, u
  <2>6. Append(r, p[n + 1]) = r \o more(n + 1)
    <3>1. p[n + 1] \in Name
      BY <2>2
    <3> QED
      BY <1>2, <2>5, <3>1, AppendIsConcat
  <2>7. CASE k = n + 1
    BY <2>1, <2>4, <2>6, <2>7
  <2>8. CASE k # n + 1
    <3> DEFINE c == r \o more(k)
               j == Len(r) + 1
    <3>1. /\ j \in Len(r) + 1..Len(r) + (k - n) /\ n + (j - Len(r)) = n + 1
          /\ j \in 1..Len(c) - 1
      BY <1>1, <1>2, <1>6, <2>8
    <3>2. SubSeq(c, 1, j) = r \o more(n + 1)
      BY <1>6, <3>1
    <3>3. SubSeq(c, 1, j) \in DOMAIN disk
      BY <2>1, <3>1 DEF DiskInv, IsTree
    <3> QED
      BY <2>4, <2>6, <3>2, <3>3
  <2> QED
    BY <2>7, <2>8
<1>8. /\ DOMAIN disk' = DOMAIN disk \cup made
      /\ \A q \in DOMAIN disk : disk'[q] = disk[q]
      /\ \A q \in made : disk'[q] = Dir(w)
  <2> HIDE DEF made
  <2> QED
    BY <1>3, <1>7
<1>9. Dir(w) \in DirNode /\ Dir(w).kind = "dir"
  BY DEF Dir, DirNode
<1>10. DiskInv'
  <2>1. DOMAIN disk' \subseteq Path
    BY <1>1, <1>6, <1>8 DEF DiskInv, IsTree
  <2>2. ASSUME NEW q \in DOMAIN disk'
        PROVE  disk'[q] \in DirNode \cup FileNode \cup LinkNode
    BY <1>8, <1>9, <2>2 DEF DiskInv
  <2>3. ASSUME NEW q \in DOMAIN disk', NEW j \in 1..Len(q) - 1
        PROVE  SubSeq(q, 1, j) \in DOMAIN disk' /\ disk'[SubSeq(q, 1, j)].kind = "dir"
    <3>1. CASE q \in DOMAIN disk
      BY <1>8, <3>1 DEF DiskInv, IsTree
    <3>2. CASE q \in made
      <4>1. PICK k \in n + 1..Len(p) : q = r \o more(k)
        BY <1>1, <3>2
      <4>2. j \in 1..Len(r) \/ j \in Len(r) + 1..Len(r) + (k - n)
        BY <1>2, <1>6, <4>1
      <4>3. CASE j \in 1..Len(r)
        <5>1. SubSeq(q, 1, j) = SubSeq(r, 1, j)
          BY <1>6, <4>1, <4>3
        <5>2. r # <<>>
          BY <4>3
        <5>3. CASE j = Len(r)
          <6>1. SubSeq(r, 1, j) = r
            BY <1>2, <5>3, SubSeqFull
          <6> QED
            BY <1>2, <1>8, <5>1, <5>2, <6>1
        <5>4. CASE j # Len(r)
          <6>1. j \in 1..Len(r) - 1
            BY <1>2, <4>3, <5>4
          <6>2. SubSeq(r, 1, j) \in DOMAIN disk /\ disk[SubSeq(r, 1, j)].kind = "dir"
            BY <1>2, <5>2, <6>1 DEF DiskInv, IsTree
          <6> QED
            BY <1>8, <5>1, <6>2
        <5> QED
          BY <5>3, <5>4
      <4>4. CASE j \in Len(r) + 1..Len(r) + (k - n)
        <5> DEFINE i == n + (j - Len(r))
        <5>1. i \in n + 1..k /\ SubSeq(q, 1, j) = r \o more(i)
          BY <1>6, <4>1, <4>4
        <5> HIDE DEF i
        <5>2. i \in n + 1..Len(p)
          BY <1>1, <1>2, <4>1, <5>1
        <5>3. SubSeq(q, 1, j) \in made
          BY <1>1, <5>1, <5>2
        <5> QED
          BY <1>8, <1>9, <5>3
      <4> QED
        BY <4>2, <4>3, <4>4
    <3> QED
      BY <1>8, <3>1, <3>2
  <2> QED
    BY <2>1, <2>2, <2>3 DEF DiskInv, IsTree
<1>11. ASSUME Links(p) = {}
       PROVE  /\ \A k \in 1..Len(p) : /\ SubSeq(p, 1, k) \in DOMAIN disk'
                                      /\ disk'[SubSeq(p, 1, k)].kind = "dir"
              /\ \A q \in made : \E k \in 1..Len(p) : q = SubSeq(p, 1, k)
  <2>1. r = from
    <3>1. Links(from) = {}
      <4>1. SUFFICES ASSUME NEW k \in 1..n, SubSeq(from, 1, k) \in DOMAIN disk,
                            disk[SubSeq(from, 1, k)].kind = "link"
                     PROVE  FALSE
        BY <1>1 DEF Links
      <4>2. k \in 0..n /\ k \in 1..Len(p)
        BY <1>1, <1>2
      <4>3. SubSeq(from, 1, k) = SubSeq(p, 1, k)
        BY <1>1, <4>2, PartOfPart
      <4>4. k \in Links(p)
        BY <4>1, <4>2, <4>3 DEF Links
      <4> QED
        BY <1>11, <4>4
    <3> QED
      BY <1>1, <3>1, RealWithoutLinks DEF r
  <2>2. ASSUME NEW k \in n + 1..Len(p) PROVE r \o more(k) = SubSeq(p, 1, k)
    <3>1. k \in 0..Len(p) /\ n \in 0..k
      BY <1>1, <1>2
    <3> DEFINE s == SubSeq(p, 1, k)
    <3>2. s \in Seq(Name) /\ Len(s) = k /\ \A i \in 1..k : s[i] = p[i]
      BY <3>1, PartProperties
    <3> HIDE DEF s
    <3> DEFINE c == r \o more(k)
    <3>3. c \in Seq(Name) /\ Len(c) = k
      BY <1>1, <1>2, <1>4, <2>1, ConcatProperties
    <3>4. \A i \in 1..k : c[i] = IF i <= n THEN r[i] ELSE more(k)[i - n]
      BY <1>1, <1>2, <1>4, <2>1, ConcatProperties
    <3> HIDE DEF c
    <3>5. \A i \in 1..n : r[i] = p[i]
      BY <1>1, <2>1, PartProperties
    <3>6. ASSUME NEW i \in 1..k PROVE c[i] = s[i]
      <4>1. CASE i <= n
        <5>1. i \in 1..n
          BY <3>1, <4>1
        <5>2. c[i] = r[i] /\ r[i] = p[i] /\ s[i] = p[i]
          BY <3>2, <3>4, <3>5, <4>1, <5>1
        <5> QED
          BY <5>2
      <4>2. CASE ~(i <= n)
        <5>1. i - n \in 1..k - n /\ n + (i - n) = i
          BY <1>1, <3>1, <4>2
        <5> QED
          BY <1>4, <3>2, <3>4, <4>2, <5>1
      <4> QED
        BY <4>1, <4>2
    <3>7. c = s
      BY <3>2, <3>3, <3>6, SeqEqual
    <3> QED
      BY <3>7 DEF c, s
  <2>3. ASSUME NEW k \in 1..Len(p)
        PROVE  SubSeq(p, 1, k) \in DOMAIN disk' /\ disk'[SubSeq(p, 1, k)].kind = "dir"
    <3>1. CASE k \in n + 1..Len(p)
      <4>1. SubSeq(p, 1, k) \in made
        BY <1>1, <2>2, <3>1
      <4> QED
        BY <1>8, <1>9, <4>1
    <3>2. CASE ~(k \in n + 1..Len(p))
      <4>1. k \in 1..n /\ k \in 0..n /\ n # 0
        BY <1>1, <1>2, <3>2
      <4>2. r # <<>> /\ SubSeq(r, 1, k) = SubSeq(p, 1, k)
        BY <1>1, <2>1, <4>1, PartOfPart
      <4>3. CASE k = n
        BY <1>1, <1>2, <1>8, <2>1, <4>2, <4>3
      <4>4. CASE k # n
        <5>1. k \in 1..Len(r) - 1
          BY <1>1, <2>1, <4>1, <4>4
        <5> QED
          BY <1>2, <1>8, <4>2, <5>1 DEF DiskInv, IsTree
      <4> QED
        BY <4>3, <4>4
    <3> QED
      BY <3>1, <3>2
  <2>4. ASSUME NEW q \in made PROVE \E k \in 1..Len(p) : q = SubSeq(p, 1, k)
    <3>1. PICK k \in n + 1..Len(p) : q = r \o more(k)
      BY <1>1
    <3>2. k \in 1..Len(p)
      BY <1>1, <1>2
    <3> QED
      BY <2>2, <3>1, <3>2
  <2> QED
    BY <2>3, <2>4
<1> QED
  <2> HIDE DEF made
  <2> QED
    BY <1>8, <1>10, <1>11

-----------------------------------------------------------------------------
(* The order of the walk. *)

LEMMA PrefixByNames ==
    ASSUME NEW S, NEW p \in Seq(S), NEW q \in Seq(S)
    PROVE  IsPrefix(p, q) <=> Len(p) <= Len(q) /\ \A i \in 1..Len(p) : p[i] = q[i]
<1>1. Len(p) \in Nat /\ Len(q) \in Nat /\ SubSeq(p, 1, Len(p)) = p
  BY LenProperties, SubSeqFull
<1>2. CASE Len(p) <= Len(q)
  <2> DEFINE r == SubSeq(q, 1, Len(p))
  <2>1. r \in Seq(S) /\ Len(r) = Len(p) /\ \A i \in 1..Len(p) : r[i] = q[i]
    BY <1>1, <1>2, PartProperties
  <2>2. IsPrefix(p, q) <=> p = r
    BY <1>1, <1>2 DEF IsPrefix
  <2> HIDE DEF r
  <2>3. (\A i \in 1..Len(p) : p[i] = r[i]) => p = r
    BY <2>1, SeqEqual
  <2> QED
    BY <1>2, <2>1, <2>2, <2>3
<1>3. CASE ~(Len(p) <= Len(q))
  BY <1>3 DEF IsPrefix
<1> QED
  BY <1>2, <1>3

(* p is a part of q. *)
Within(p, q) == Len(p) < Len(q) /\ \A i \in 1..Len(p) : p[i] = q[i]

(* p and q differ in their kth name first. *)
Apart(p, q, k) ==
    k <= Len(p) /\ k <= Len(q) /\ p[k] < q[k] /\ \A i \in 1..k - 1 : p[i] = q[i]

LEMMA BeforeByNames ==
    ASSUME NEW p \in Seq(Nat), NEW q \in Seq(Nat)
    PROVE  Before(p, q) <=> Within(p, q) \/ \E k \in 1..Len(p) : Apart(p, q, k)
<1>1. Len(p) \in Nat /\ Len(q) \in Nat
  BY LenProperties
<1>2. IsStrictPrefix(p, q) <=> Within(p, q)
  <2>1. IsPrefix(p, q) <=> Len(p) <= Len(q) /\ \A i \in 1..Len(p) : p[i] = q[i]
    BY PrefixByNames
  <2>2. Len(p) = Len(q) /\ (\A i \in 1..Len(p) : p[i] = q[i]) => p = q
    BY SeqEqual
  <2> QED
    BY <1>1, <2>1, <2>2 DEF IsStrictPrefix, Within
<1>3. ASSUME NEW k \in 1..Len(p), k <= Len(q)
      PROVE  SubSeq(p, 1, k - 1) = SubSeq(q, 1, k - 1) <=> \A i \in 1..k - 1 : p[i] = q[i]
  <2> DEFINE a == SubSeq(p, 1, k - 1)
             b == SubSeq(q, 1, k - 1)
  <2>1. k - 1 \in 0..Len(p) /\ k - 1 \in 0..Len(q)
    BY <1>1, <1>3
  <2>2. a \in Seq(Nat) /\ Len(a) = k - 1 /\ \A i \in 1..k - 1 : a[i] = p[i]
    BY <2>1, PartProperties
  <2>3. b \in Seq(Nat) /\ Len(b) = k - 1 /\ \A i \in 1..k - 1 : b[i] = q[i]
    BY <2>1, PartProperties
  <2> HIDE DEF a, b
  <2>4. (\A i \in 1..k - 1 : a[i] = b[i]) => a = b
    BY <2>2, <2>3, SeqEqual
  <2>5. a = b <=> \A i \in 1..k - 1 : p[i] = q[i]
    BY <2>2, <2>3, <2>4
  <2> QED
    BY <2>5 DEF a, b
<1>4. (\E k \in 1..Len(p) : /\ k <= Len(q) /\ p[k] < q[k]
                            /\ SubSeq(p, 1, k - 1) = SubSeq(q, 1, k - 1))
        <=> \E k \in 1..Len(p) : Apart(p, q, k)
  BY <1>1, <1>3 DEF Apart
<1> QED
  BY <1>2, <1>4 DEF Before

LEMMA BeforeIrreflexive ==
    ASSUME NEW p \in Seq(Nat)
    PROVE  ~Before(p, p)
<1>1. Len(p) \in Nat /\ \A k \in 1..Len(p) : p[k] \in Nat
  BY LenProperties, ElementOfSeq
<1>2. ~Within(p, p) /\ \A k \in 1..Len(p) : ~Apart(p, p, k)
  BY <1>1 DEF Within, Apart
<1> QED
  BY <1>2, BeforeByNames

LEMMA BeforeTransitive ==
    ASSUME NEW p \in Seq(Nat), NEW q \in Seq(Nat), NEW r \in Seq(Nat), Before(p, q), Before(q, r)
    PROVE  Before(p, r)
<1>1. /\ Len(p) \in Nat /\ \A k \in 1..Len(p) : p[k] \in Nat
      /\ Len(q) \in Nat /\ \A k \in 1..Len(q) : q[k] \in Nat
      /\ Len(r) \in Nat /\ \A k \in 1..Len(r) : r[k] \in Nat
  BY LenProperties, ElementOfSeq
<1>2. Within(p, q) \/ \E k \in 1..Len(p) : Apart(p, q, k)
  BY BeforeByNames
<1>3. Within(q, r) \/ \E k \in 1..Len(q) : Apart(q, r, k)
  BY BeforeByNames
<1>4. CASE Within(p, q) /\ Within(q, r)
  <2>1. Within(p, r)
    BY <1>1, <1>4 DEF Within
  <2> QED
    BY <2>1, BeforeByNames
<1>5. ASSUME NEW k \in 1..Len(q), Within(p, q), Apart(q, r, k) PROVE Before(p, r)
  <2>1. CASE k <= Len(p)
    <3>1. k \in 1..Len(p) /\ Apart(p, r, k)
      BY <1>1, <1>5, <2>1 DEF Within, Apart
    <3> QED
      BY <3>1, BeforeByNames
  <2>2. CASE ~(k <= Len(p))
    <3>1. Len(p) < Len(r) /\ \A i \in 1..Len(p) : i \in 1..k - 1
      BY <1>1, <1>5, <2>2 DEF Apart
    <3>2. Within(p, r)
      BY <1>5, <3>1 DEF Within, Apart
    <3> QED
      BY <3>2, BeforeByNames
  <2> QED
    BY <2>1, <2>2
<1>6. ASSUME NEW k \in 1..Len(p), Apart(p, q, k), Within(q, r) PROVE Before(p, r)
  <2>1. k \in 1..Len(q) /\ k <= Len(r) /\ \A i \in 1..k - 1 : i \in 1..Len(q)
    BY <1>1, <1>6 DEF Apart, Within
  <2>2. Apart(p, r, k)
    BY <1>6, <2>1 DEF Within, Apart
  <2> QED
    BY <2>2, BeforeByNames
<1>7. ASSUME NEW k \in 1..Len(p), NEW j \in 1..Len(q), Apart(p, q, k), Apart(q, r, j)
      PROVE  Before(p, r)
  <2>1. CASE k < j
    <3>1. k \in 1..j - 1 /\ k <= Len(r) /\ \A i \in 1..k - 1 : i \in 1..j - 1
      <4>1. k \in Nat /\ j \in Nat /\ 1 <= k /\ j <= Len(r)
        BY <1>1, <1>7 DEF Apart
      <4> QED
        BY <1>1, <2>1, <4>1
    <3>2. Apart(p, r, k)
      BY <1>7, <3>1 DEF Apart
    <3> QED
      BY <3>2, BeforeByNames
  <2>2. CASE k = j
    <3>1. p[k] < r[k]
      BY <1>1, <1>7, <2>2 DEF Apart
    <3>2. Apart(p, r, k)
      BY <1>7, <2>2, <3>1 DEF Apart
    <3> QED
      BY <3>2, BeforeByNames
  <2>3. CASE j < k
    <3>1. j \in 1..k - 1 /\ j \in 1..Len(p) /\ j <= Len(p) /\ \A i \in 1..j - 1 : i \in 1..k - 1
      BY <1>1, <1>7, <2>3
    <3>2. Apart(p, r, j)
      BY <1>7, <3>1 DEF Apart
    <3> QED
      BY <3>1, <3>2, BeforeByNames
  <2> QED
    BY <2>1, <2>2, <2>3
<1> QED
  BY <1>2, <1>3, <1>4, <1>5, <1>6, <1>7

(* Of finitely many paths one comes first: that before which the fewest come. *)
LEMMA FirstPath ==
    ASSUME NEW T, IsFiniteSet(T), T \subseteq Seq(Nat), T # {}
    PROVE  \E p \in T : \A q \in T : ~Before(q, p)
<1> DEFINE Earlier(p) == {q \in T : Before(q, p)}
           C == {Cardinality(Earlier(p)) : p \in T}
<1>1. \A p \in T : IsFiniteSet(Earlier(p)) /\ Cardinality(Earlier(p)) \in Nat
  <2>1. SUFFICES ASSUME NEW p \in T
                 PROVE  IsFiniteSet(Earlier(p)) /\ Cardinality(Earlier(p)) \in Nat
    OBVIOUS
  <2>2. Earlier(p) \in SUBSET T
    OBVIOUS
  <2> HIDE DEF Earlier
  <2> QED
    BY <2>2, FS_Subset, FS_CardinalityType
<1>2. PICK p \in T : \A q \in T : Cardinality(Earlier(p)) <= Cardinality(Earlier(q))
  <2> HIDE DEF Earlier
  <2>1. C \in SUBSET Nat /\ C # {}
    BY <1>1
  <2>2. \E c \in C : \A d \in C : c <= d
    <3> HIDE DEF C
    <3> QED
      BY <2>1, N!LeastNatural
  <2> QED
    BY <2>2
<1>3. ASSUME NEW q \in T, Before(q, p) PROVE FALSE
  <2>1. Earlier(q) \subseteq Earlier(p)
    <3>1. SUFFICES ASSUME NEW r \in T, Before(r, q) PROVE Before(r, p)
      OBVIOUS
    <3> QED
      BY <1>3, <3>1, BeforeTransitive
  <2>2. q \in Earlier(p) /\ q \notin Earlier(q)
    BY <1>3, BeforeIrreflexive
  <2> HIDE DEF Earlier
  <2>3. /\ Cardinality(Earlier(q)) <= Cardinality(Earlier(p))
        /\ Cardinality(Earlier(p)) = Cardinality(Earlier(q)) => Earlier(p) = Earlier(q)
    BY <1>1, <2>1, FS_Subset
  <2>4. Cardinality(Earlier(p)) <= Cardinality(Earlier(q))
    BY <1>2
  <2>5. Cardinality(Earlier(p)) \in Nat /\ Cardinality(Earlier(q)) \in Nat
    BY <1>1
  <2> QED
    BY <2>2, <2>3, <2>4, <2>5
<1> QED
  BY <1>3

-----------------------------------------------------------------------------
(* The entries of an archive. *)

LEMMA TreeProperties ==
    ASSUME GivenInv
    PROVE  /\ IsTree(tree) /\ IsFiniteSet(DOMAIN tree) /\ DOMAIN tree \subseteq Path
           /\ \A p \in DOMAIN tree :
                /\ p \in Seq(Name) /\ p # <<>>
                /\ tree[p] \in DirNode \cup FileNode \cup LinkNode \cup SpecialNode
  BY TreesAssumption DEF GivenInv, TreesAssumption, IsTree, Path

LEMMA TargetProperties ==
    ASSUME GivenInv, NEW m \in mounts, Rest(m) # {}
    PROVE  /\ Target(m) \in Rest(m) /\ \A q \in Rest(m) : ~Before(q, Target(m))
           /\ Target(m) \in Entries(m) /\ Target(m) \notin done[m]
           /\ Target(m) \in DOMAIN tree /\ Target(m) \in Archived
           /\ Target(m) \in Seq(Name) /\ Target(m) # <<>>
           /\ IsPrefix(m, Target(m))
           /\ Header(m) = tree[Target(m)]
<1>1. Rest(m) \subseteq Entries(m) /\ Entries(m) \subseteq DOMAIN tree
  BY DEF Rest, Entries, Walk
<1>2. IsFiniteSet(Rest(m)) /\ Rest(m) \subseteq Seq(Nat)
  <2>1. Rest(m) \in SUBSET DOMAIN tree
    BY <1>1
  <2>2. DOMAIN tree \subseteq Seq(Nat)
    BY TreeProperties, NamesAreNumbers
  <2> QED
    BY <2>1, <2>2, TreeProperties, FS_Subset
<1>3. \E p \in Rest(m) : \A q \in Rest(m) : ~Before(q, p)
  BY <1>2, FirstPath
<1>4. Target(m) \in Rest(m) /\ \A q \in Rest(m) : ~Before(q, Target(m))
  BY <1>3 DEF Target
<1>5. Target(m) \in Entries(m) /\ Target(m) \notin done[m] /\ IsPrefix(m, Target(m))
  BY <1>4 DEF Rest, Entries, Walk
<1> QED
  BY <1>1, <1>4, <1>5, TreeProperties DEF Archived, Header

(* What is above an entry in its mount is a directory, extracted before. *)
LEMMA AboveIsDone ==
    ASSUME GivenInv, NEW m \in mounts, Rest(m) # {},
           NEW k \in 1..Len(Target(m)) - 1
    PROVE  /\ SubSeq(Target(m), 1, k) \in DOMAIN tree
           /\ tree[SubSeq(Target(m), 1, k)].kind = "dir"
           /\ SubSeq(Target(m), 1, k) \in done[m] \/ AboveMount(SubSeq(Target(m), 1, k))
<1> DEFINE t == Target(m)
           p == SubSeq(t, 1, k)
<1>1. /\ t \in Rest(m) /\ \A q \in Rest(m) : ~Before(q, t)
      /\ t \in DOMAIN tree /\ t \in Seq(Name) /\ IsPrefix(m, t)
  BY TargetProperties
<1>2. m \in DOMAIN tree /\ m \in Seq(Name) /\ m # <<>>
  BY TreeProperties DEF GivenInv
<1> HIDE DEF t
<1>3. Len(t) \in Nat /\ Len(m) \in Nat /\ k \in 1..Len(t) - 1 /\ k \in 0..Len(t)
  BY <1>1, <1>2, LenProperties DEF t
<1>4. p \in DOMAIN tree /\ tree[p].kind = "dir"
  BY <1>1, <1>3, TreeProperties DEF IsTree
<1>5. p \in Seq(Name) /\ Len(p) = k /\ \A i \in 1..k : p[i] = t[i]
  BY <1>1, <1>3, PartProperties
<1> HIDE DEF p
<1>6. Len(m) <= Len(t) /\ \A i \in 1..Len(m) : m[i] = t[i]
  BY <1>1, <1>2, PrefixByNames
<1>7. CASE Len(m) <= k
  <2>1. IsPrefix(m, p)
    <3>1. \A i \in 1..Len(m) : i \in 1..k
      BY <1>3, <1>7
    <3> QED
      BY <1>2, <1>5, <1>6, <1>7, <3>1, PrefixByNames
  <2>2. p \in Entries(m)
    BY <1>4, <2>1 DEF Entries, Walk
  <2>3. Before(p, t)
    <3>1. Within(p, t)
      BY <1>3, <1>5 DEF Within
    <3> QED
      BY <1>1, <1>5, <3>1, NamesAreNumbers, BeforeByNames
  <2> QED
    BY <1>1, <1>4, <2>2, <2>3 DEF Rest, p, t
<1>8. CASE ~(Len(m) <= k)
  <2>1. IsPrefix(p, m) /\ p # m
    <3>1. k < Len(m) /\ \A i \in 1..k : i \in 1..Len(m)
      BY <1>3, <1>8
    <3> QED
      BY <1>2, <1>3, <1>5, <1>6, <3>1, PrefixByNames
  <2> QED
    BY <1>4, <2>1 DEF AboveMount, IsStrictPrefix, p, t
<1> QED
  BY <1>3, <1>7, <1>8

(* Without links found, what is archived is extracted where it was. *)
LEMMA NoLinksOnTheWay ==
    ASSUME GivenInv, LinkInv, NoLinksFound, NEW p \in DOMAIN tree
    PROVE  /\ Parent(p) \in Seq(Name) /\ Links(Parent(p)) = {} /\ Real(Parent(p)) = Parent(p)
           /\ Place(p) = p
           /\ tree[p].kind # "link" => Links(p) = {} /\ Real(p) = p
<1>1. p \in Seq(Name) /\ p # <<>>
  BY TreeProperties
<1>2. /\ Len(p) \in Nat \ {0} /\ Len(p) - 1 \in 0..Len(p) /\ Parent(p) = SubSeq(p, 1, Len(p) - 1)
      /\ Parent(p) \in Seq(Name) /\ Len(Parent(p)) = Len(p) - 1
      /\ Append(Parent(p), Last(p)) = p
  BY <1>1, ParentProperties
<1>3. \A k \in 1..Len(p) - 1 : tree[SubSeq(p, 1, k)].kind = "dir"
  BY TreeProperties DEF IsTree
<1>4. \A k \in 1..Len(p) - 1 :
        ~(SubSeq(p, 1, k) \in DOMAIN disk /\ disk[SubSeq(p, 1, k)].kind = "link")
  BY <1>3 DEF LinkInv
<1>5. Links(Parent(p)) = {}
  <2>1. SUFFICES ASSUME NEW k \in 1..Len(p) - 1
                 PROVE  SubSeq(Parent(p), 1, k) = SubSeq(p, 1, k)
    BY <1>2, <1>4 DEF Links
  <2>2. k \in 0..Len(p) - 1
    BY <1>2
  <2> QED
    BY <1>1, <1>2, <2>2, PartOfPart
<1>6. Real(Parent(p)) = Parent(p)
  BY <1>2, <1>5, RealWithoutLinks
<1>7. Place(p) = p
  BY <1>2, <1>6 DEF Place
<1>8. ASSUME tree[p].kind # "link" PROVE Links(p) = {} /\ Real(p) = p
  <2>1. SubSeq(p, 1, Len(p)) = p
    BY <1>1, SubSeqFull
  <2>2. ~(p \in DOMAIN disk /\ disk[p].kind = "link")
    BY <1>8 DEF LinkInv
  <2>3. \A k \in 1..Len(p) : k \in 1..Len(p) - 1 \/ k = Len(p)
    <3>1. Len(p) \in Nat
      BY <1>2
    <3> QED
      BY <3>1
  <2>4. Links(p) = {}
    BY <1>4, <2>1, <2>2, <2>3 DEF Links
  <2> QED
    BY <1>1, <2>4, RealWithoutLinks
<1> QED
  BY <1>2, <1>5, <1>6, <1>7, <1>8

-----------------------------------------------------------------------------
(* What no step changes, and where workers are. *)

LEMMA GivenStays ==
    ASSUME UNCHANGED given
    PROVE  /\ GivenInv => GivenInv'
           /\ NoLinksFound' = NoLinksFound /\ Empty(found)' = Empty(found)
           /\ Archived' = Archived /\ Harmless' = Harmless
           /\ \A m : Entries(m)' = Entries(m) /\ CreateFails(m)' = CreateFails(m)
           /\ \A p : Fresh(p)' = Fresh(p) /\ AboveMount(p)' = AboveMount(p)
<1>1. tree' = tree /\ found' = found /\ mounts' = mounts /\ skipSymlinks' = skipSymlinks /\ root' = root
  BY DEF given
<1>2. \A m : Entries(m)' = Entries(m) /\ CreateFails(m)' = CreateFails(m)
  BY <1>1 DEF Entries, CreateFails, Walk
<1>3. Archived' = Archived
  BY <1>1, <1>2 DEF Archived
<1>4. Harmless' = Harmless
  BY <1>1, <1>2, <1>3 DEF Harmless, Inner
<1>5. \A p : Fresh(p)' = Fresh(p) /\ AboveMount(p)' = AboveMount(p)
  BY <1>1 DEF Fresh, AboveMount
<1> QED
  BY <1>1, <1>2, <1>3, <1>4, <1>5 DEF GivenInv, NoLinksFound, Empty

LEMMA TargetStays ==
    ASSUME UNCHANGED given, NEW m, done'[m] = done[m]
    PROVE  Rest(m)' = Rest(m) /\ Target(m)' = Target(m) /\ Header(m)' = Header(m)
<1>1. Rest(m)' = Rest(m)
  BY GivenStays DEF Rest
<1>2. Target(m)' = Target(m)
  BY <1>1 DEF Target
<1> QED
  BY <1>1, <1>2 DEF Header, given

(* A step of a worker is its own, and goes on as pc says. *)
LEMMA WorkerStep ==
    ASSUME WorkInv, NEW m \in mounts, Extract(m)
    PROVE  /\ UNCHANGED given
           /\ DOMAIN pc' = mounts /\ DOMAIN done' = mounts
           /\ \A n \in mounts : n # m => pc'[n] = pc[n] /\ done'[n] = done[n]
           /\ \/ /\ done' = done /\ Rest(m) # {} /\ pc'[m] = "failed"
                 /\ pc[m] \in {"next"} \cup AtEntry /\ disk' = disk
              \/ /\ done' = done /\ pc[m] = "next" /\ Rest(m) # {}
                 /\ pc'[m] = IF Header(m).kind = "link" THEN "unlink" ELSE "make"
              \/ done' = done /\ pc[m] = "unlink" /\ pc'[m] \in {"remove", "link"}
              \/ done' = done /\ pc[m] = "remove" /\ pc'[m] = "link"
              \/ done' = done /\ pc[m] = "next" /\ Rest(m) = {} /\ pc'[m] = "ok"
              \/ /\ done'[m] = done[m] \cup {Target(m)} /\ Rest(m) # {}
                 /\ pc[m] \in {"make", "link"} /\ pc'[m] = "next"
<1>1. DOMAIN pc = mounts /\ DOMAIN done = mounts /\ (pc[m] \in AtEntry => Rest(m) # {})
  BY DEF WorkInv
<1> USE DEF AtEntry
<1>2. CASE EnsureParent(m)
  BY <1>1, <1>2 DEF EnsureParent, Goto, Fails
<1>3. CASE ExtractDir(m)
  BY <1>1, <1>3 DEF ExtractDir, Extracted, Goto, Fails
<1>4. CASE ExtractRegular(m)
  BY <1>1, <1>4 DEF ExtractRegular, Extracted, Goto, Fails
<1>5. CASE Lstat(m)
  BY <1>1, <1>5 DEF Lstat, Goto
<1>6. CASE RemoveOld(m)
  BY <1>1, <1>6 DEF RemoveOld, Goto, Fails
<1>7. CASE Symlink(m)
  BY <1>1, <1>7 DEF Symlink, Extracted, Goto, Fails
<1>8. CASE ExtractEnds(m)
  BY <1>1, <1>8 DEF ExtractEnds, Goto
<1> QED
  BY <1>2, <1>3, <1>4, <1>5, <1>6, <1>7, <1>8 DEF Extract

LEMMA WorkStep ==
    ASSUME TreeInv, NEW m \in mounts, Extract(m)
    PROVE  GivenInv' /\ WorkInv'
<1>1. GivenInv /\ WorkInv
  BY DEF TreeInv
<1>2. /\ UNCHANGED given /\ mounts' = mounts
      /\ DOMAIN pc' = mounts /\ DOMAIN done' = mounts
      /\ \A n \in mounts : n # m => pc'[n] = pc[n] /\ done'[n] = done[n]
  BY <1>1, WorkerStep DEF given
<1> DEFINE Fit(n) ==
        /\ pc[n] \in {"next", "ok", "failed"} \cup AtEntry
        /\ done[n] \subseteq Entries(n)
        /\ pc[n] # "failed" => ~CreateFails(n)
        /\ pc[n] \in AtEntry => Rest(n) # {} /\ (pc[n] = "make" <=> Header(n).kind # "link")
        /\ pc[n] = "ok" => Rest(n) = {}
<1>3. \A n \in mounts : Fit(n)
  BY <1>1 DEF WorkInv
<1>4. ASSUME NEW n \in mounts, n # m PROVE Fit(n)'
  <2>1. pc'[n] = pc[n] /\ done'[n] = done[n]
    BY <1>2, <1>4
  <2>2. Rest(n)' = Rest(n) /\ Header(n)' = Header(n)
    BY <1>2, <2>1, TargetStays
  <2>3. Entries(n)' = Entries(n) /\ CreateFails(n)' = CreateFails(n)
    BY <1>2, GivenStays
  <2> QED
    BY <1>3, <2>1, <2>2, <2>3
<1>5. Fit(m)'
  <2>1. Entries(m)' = Entries(m) /\ CreateFails(m)' = CreateFails(m)
    BY <1>2, GivenStays
  <2>2. Fit(m)
    BY <1>3
  <2>3. CASE done' = done
    <3>1. Rest(m)' = Rest(m) /\ Header(m)' = Header(m)
      BY <1>2, <2>3, TargetStays
    <3>2. \/ Rest(m) # {} /\ pc'[m] = "failed"
          \/ /\ pc[m] = "next" /\ Rest(m) # {}
             /\ pc'[m] = IF Header(m).kind = "link" THEN "unlink" ELSE "make"
          \/ pc[m] = "unlink" /\ pc'[m] \in {"remove", "link"}
          \/ pc[m] = "remove" /\ pc'[m] = "link"
          \/ pc[m] = "next" /\ Rest(m) = {} /\ pc'[m] = "ok"
          \/ pc[m] \in {"make", "link"} /\ pc'[m] = "next"
      BY <1>1, WorkerStep
    <3> QED
      BY <2>1, <2>2, <2>3, <3>1, <3>2 DEF AtEntry
  <2>4. CASE /\ done'[m] = done[m] \cup {Target(m)} /\ Rest(m) # {}
             /\ pc[m] \in {"make", "link"} /\ pc'[m] = "next"
    <3>1. Target(m) \in Entries(m)
      BY <1>1, <2>4, TargetProperties
    <3> QED
      BY <2>1, <2>2, <2>4, <3>1 DEF AtEntry
  <2> QED
    BY <1>1, <2>3, <2>4, WorkerStep
<1>6. \A n \in mounts : Fit(n)'
  BY <1>4, <1>5
<1>7. WorkInv'
  BY <1>2, <1>6 DEF WorkInv
<1> QED
  BY <1>1, <1>2, <1>7, GivenStays

-----------------------------------------------------------------------------
(* The disk stays a tree. *)

(* Something that is put into a directory, or in the place of a file. *)
LEMMA PutKeepsTree ==
    ASSUME DiskInv, NEW p \in Path, NEW node \in DirNode \cup FileNode \cup LinkNode,
           Put(p, node), p \in DOMAIN disk => node.kind = disk[p].kind,
           Parent(p) # <<>> => Parent(p) \in DOMAIN disk /\ disk[Parent(p)].kind = "dir"
    PROVE  DiskInv'
<1>1. /\ DOMAIN disk' = DOMAIN disk \cup {p} /\ disk'[p] = node
      /\ \A q \in DOMAIN disk : q # p => disk'[q] = disk[q]
  BY DEF Put
<1>2. /\ p \in Seq(Name) /\ p # <<>> /\ Len(p) \in Nat \ {0}
      /\ Parent(p) = SubSeq(p, 1, Len(p) - 1) /\ Len(Parent(p)) = Len(p) - 1
      /\ Parent(p) \in Seq(Name) /\ Len(p) - 1 \in 0..Len(p)
  <2>1. p \in Seq(Name) /\ p # <<>>
    BY DEF Path
  <2> QED
    BY <2>1, ParentProperties
<1>3. ASSUME NEW k \in 1..Len(p) - 1
      PROVE  /\ SubSeq(p, 1, k) \in DOMAIN disk /\ disk[SubSeq(p, 1, k)].kind = "dir"
             /\ SubSeq(p, 1, k) # p
  <2>1. k \in 0..Len(p) /\ k # Len(p) /\ k \in 0..Len(p) - 1
    BY <1>2
  <2>2. SubSeq(p, 1, k) # p
    BY <1>2, <2>1, PartProperties
  <2>3. Parent(p) # <<>>
    BY <1>2
  <2>4. CASE k = Len(p) - 1
    BY <1>2, <2>2, <2>3, <2>4
  <2>5. CASE k # Len(p) - 1
    <3>1. k \in 1..Len(Parent(p)) - 1
      BY <1>2, <2>5
    <3>2. SubSeq(Parent(p), 1, k) = SubSeq(p, 1, k)
      BY <1>2, <2>1, PartOfPart
    <3> QED
      BY <2>2, <2>3, <3>1, <3>2 DEF DiskInv, IsTree
  <2> QED
    BY <2>4, <2>5
<1>4. ASSUME NEW q \in DOMAIN disk', NEW k \in 1..Len(q) - 1
      PROVE  SubSeq(q, 1, k) \in DOMAIN disk' /\ disk'[SubSeq(q, 1, k)].kind = "dir"
  <2>1. CASE q = p
    BY <1>1, <1>3, <2>1
  <2>2. CASE q # p
    <3>1. SubSeq(q, 1, k) \in DOMAIN disk /\ disk[SubSeq(q, 1, k)].kind = "dir"
      BY <1>1, <2>2 DEF DiskInv, IsTree
    <3> QED
      BY <1>1, <3>1
  <2> QED
    BY <2>1, <2>2
<1>5. /\ DOMAIN disk' \subseteq Path
      /\ \A q \in DOMAIN disk' : disk'[q] \in DirNode \cup FileNode \cup LinkNode
  BY <1>1 DEF DiskInv, IsTree
<1> QED
  BY <1>4, <1>5 DEF DiskInv, IsTree

LEMMA OverwrittenProperties ==
    ASSUME NEW S, NEW d \in Seq(S), NEW o \in Seq(S)
    PROVE  /\ Overwritten(d, o) \in Seq(S)
           /\ Len(Overwritten(d, o)) = IF Len(d) < Len(o) THEN Len(o) ELSE Len(d)
           /\ IsPrefix(d, Overwritten(d, o))
           /\ d = o => Overwritten(d, o) = d
<1> DEFINE m == Len(d) + 1
           t == SubSeq(o, m, Len(o))
<1>1. Len(d) \in Nat /\ Len(o) \in Nat /\ m \in Int /\ \A i \in m..Len(o) : o[i] \in S
  <2>1. Len(d) \in Nat /\ Len(o) \in Nat
    BY LenProperties
  <2> QED
    BY <2>1, ElementOfSeq
<1>2. t \in Seq(S) /\ Len(t) = IF m <= Len(o) THEN Len(o) - m + 1 ELSE 0
  <2> HIDE DEF m
  <2> QED
    BY <1>1, SubSeqProperties
<1>3. Overwritten(d, o) = d \o t
  BY DEF Overwritten
<1> HIDE DEF t
<1>4. Len(t) = IF Len(d) < Len(o) THEN Len(o) - Len(d) ELSE 0
  BY <1>1, <1>2
<1>5. /\ d \o t \in Seq(S) /\ Len(d \o t) = Len(d) + Len(t)
      /\ \A i \in 1..Len(d) + Len(t) : (d \o t)[i] = IF i <= Len(d) THEN d[i] ELSE t[i - Len(d)]
  BY <1>2, ConcatProperties
<1>6. IsPrefix(d, d \o t)
  <2>1. Len(d) <= Len(d \o t) /\ \A i \in 1..Len(d) : d[i] = (d \o t)[i]
    BY <1>1, <1>4, <1>5
  <2> QED
    BY <1>5, <2>1, PrefixByNames
<1>7. ASSUME d = o PROVE d \o t = d
  <2>1. t = <<>>
    BY <1>1, <1>2, <1>4, <1>7, EmptySeq
  <2> QED
    BY <2>1, ConcatEmptySeq
<1> QED
  BY <1>1, <1>3, <1>4, <1>5, <1>6, <1>7

(* What is in an archive, and what becomes of it. *)
LEMMA NodeProperties ==
    ASSUME GivenInv, NEW p \in DOMAIN tree
    PROVE  /\ tree[p].write \in BOOLEAN
           /\ tree[p].kind = "dir" => tree[p] = Dir(tree[p].write) /\ tree[p] \in DirNode
           /\ tree[p].kind = "link" => tree[p] \in LinkNode
           /\ tree[p].kind \in {"file", "pipe"} =>
                /\ RegularFile(tree[p].write, tree[p].data) \in FileNode
                /\ Fresh(p) = RegularFile(tree[p].write, tree[p].data)
                /\ tree[p].data \in Seq(Seq(Name)) /\ Len(tree[p].data) <= MaxBlocks
           /\ tree[p].kind \notin {"file", "pipe"} => Fresh(p) = tree[p]
<1>1. tree[p] \in DirNode \cup FileNode \cup LinkNode \cup SpecialNode
  BY TreeProperties
<1>2. CASE tree[p].kind = "dir"
  BY <1>1, <1>2, KindOfNode DEF DirNode, Dir, Fresh
<1>3. CASE tree[p].kind = "file"
  BY <1>1, <1>3, KindOfNode DEF FileNode, RegularFile, Fresh
<1>4. CASE tree[p].kind = "link"
  BY <1>1, <1>4, KindOfNode DEF Fresh
<1>5. CASE tree[p].kind = "pipe"
  <2>1. tree[p].write = TRUE /\ tree[p].data = <<>>
    BY <1>1, <1>5, KindOfNode DEF SpecialNode
  <2>2. <<>> \in Seq(Seq(Name)) /\ Len(<<>>) <= MaxBlocks
    BY BoundsAssumption DEF BoundsAssumption
  <2> QED
    BY <1>5, <2>1, <2>2 DEF FileNode, RegularFile, Fresh
<1>6. CASE tree[p].kind = "socket"
  BY <1>1, <1>6, KindOfNode DEF Fresh
<1> QED
  BY <1>1, <1>2, <1>3, <1>4, <1>5, <1>6, KindOfNode

LEMMA FileDataProperties ==
    ASSUME DiskInv, NEW p \in DOMAIN disk, disk[p].kind = "file"
    PROVE  /\ disk[p] \in FileNode /\ disk[p].data \in Seq(Seq(Name))
           /\ Len(disk[p].data) \in Nat /\ Len(disk[p].data) <= MaxBlocks
<1>1. disk[p] \in FileNode
  BY KindOfNode DEF DiskInv
<1>2. disk[p].data \in Seq(Seq(Name)) /\ Len(disk[p].data) <= MaxBlocks
  BY <1>1 DEF FileNode
<1> QED
  BY <1>1, <1>2, LenProperties

(* A directory by its own path. *)
LEMMA DirWithoutLinks ==
    ASSUME NEW p \in Seq(Name), Links(p) = {}, IsDir(p)
    PROVE  p # <<>> => p \in DOMAIN disk /\ disk[p].kind = "dir"
  BY RealWithoutLinks DEF IsDir

LEMMA LinksOfPart ==
    ASSUME NEW p \in Seq(Name), NEW k \in 0..Len(p), Links(p) = {}
    PROVE  Links(SubSeq(p, 1, k)) = {}
<1>1. Len(SubSeq(p, 1, k)) = k
  BY PartProperties
<1>2. SUFFICES ASSUME NEW j \in 1..k PROVE SubSeq(SubSeq(p, 1, k), 1, j) = SubSeq(p, 1, j) /\ j \in 1..Len(p)
  BY <1>1 DEF Links
<1>3. j \in 0..k /\ j \in 1..Len(p)
  OBVIOUS
<1> QED
  BY <1>3, PartOfPart

LEMMA DiskStep ==
    ASSUME TreeInv, NEW m \in mounts, Extract(m)
    PROVE  DiskInv'
<1> DEFINE t == Target(m)
<1>1. GivenInv /\ WorkInv /\ DiskInv
  BY DEF TreeInv
<1>2. CASE UNCHANGED disk
  BY <1>1, <1>2 DEF DiskInv
<1>3. ASSUME Rest(m) # {}
      PROVE  /\ t \in DOMAIN tree /\ t \in Seq(Name) /\ t # <<>> /\ Header(m) = tree[t]
             /\ Parent(t) \in Seq(Name) /\ Last(t) \in Name
  BY <1>1, <1>3, TargetProperties, ParentProperties
<1>4. pc[m] \in AtEntry => Rest(m) # {}
  BY <1>1 DEF WorkInv
<1> HIDE DEF t
<1>5. CASE EnsureParent(m)
  <2>1. Rest(m) # {}
    BY <1>5 DEF EnsureParent
  <2>2. CASE CanMkdirAll(Parent(t)) /\ MkdirAll(Parent(t), TRUE)
    BY <1>1, <1>3, <2>1, <2>2, MkdirAllProperties
  <2> QED
    BY <1>2, <1>5, <2>2 DEF EnsureParent, Fails, t
<1>6. CASE ExtractDir(m)
  <2>1. Rest(m) # {}
    BY <1>4, <1>6 DEF ExtractDir, AtEntry
  <2>2. Header(m).write \in BOOLEAN
    BY <1>1, <1>3, <2>1, NodeProperties
  <2>3. CASE CanMkdirAll(t) /\ MkdirAll(t, Header(m).write)
    BY <1>1, <1>3, <2>1, <2>2, <2>3, MkdirAllProperties
  <2> QED
    BY <1>2, <1>6, <2>3 DEF ExtractDir, Fails, t
<1>7. CASE ExtractRegular(m)
  <2> DEFINE p == Real(t)
             node == IF p \notin DOMAIN disk THEN RegularFile(Header(m).write, Header(m).data)
                     ELSE [disk[p] EXCEPT !.data = Overwritten(Header(m).data, @)]
  <2>1. Rest(m) # {} /\ Header(m).kind \in {"file", "pipe"}
    BY <1>4, <1>7 DEF ExtractRegular, AtEntry
  <2>2. \/ UNCHANGED disk
        \/ /\ \/ p \notin DOMAIN disk /\ p \notin {<<>>, NoPath} /\ MayChange(Parent(p))
              \/ p \in DOMAIN disk /\ disk[p].kind = "file"
           /\ Put(p, node)
    BY <1>7 DEF ExtractRegular, Fails, t
  <2>3. /\ RegularFile(Header(m).write, Header(m).data) \in FileNode
        /\ Header(m).data \in Seq(Seq(Name)) /\ Len(Header(m).data) <= MaxBlocks
    BY <1>1, <1>3, <2>1, NodeProperties
  <2>4. p = NoPath \/ (p \in Seq(Name) /\ Links(p) = {})
    BY <1>1, <1>3, <2>1, RealIsPath
  <2> HIDE DEF p
  <2>5. ASSUME p \notin DOMAIN disk, p \notin {<<>>, NoPath}, MayChange(Parent(p)), Put(p, node)
        PROVE  DiskInv'
    <3>1. p \in Seq(Name) /\ p # <<>> /\ Links(p) = {} /\ p \in Path
      BY <2>4, <2>5 DEF Path
    <3>2. /\ Parent(p) = SubSeq(p, 1, Len(p) - 1) /\ Len(p) - 1 \in 0..Len(p)
          /\ Parent(p) \in Seq(Name)
      BY <3>1, ParentProperties
    <3>3. Links(Parent(p)) = {}
      BY <3>1, <3>2, LinksOfPart
    <3>4. Parent(p) # <<>> => Parent(p) \in DOMAIN disk /\ disk[Parent(p)].kind = "dir"
      BY <2>5, <3>2, <3>3, DirWithoutLinks DEF MayChange
    <3>5. node \in DirNode \cup FileNode \cup LinkNode
      BY <2>3, <2>5
    <3> HIDE DEF node
    <3> QED
      BY <1>1, <2>5, <3>1, <3>4, <3>5, PutKeepsTree
  <2>6. ASSUME p \in DOMAIN disk, disk[p].kind = "file", Put(p, node)
        PROVE  DiskInv'
    <3>1. /\ disk[p] \in FileNode /\ disk[p].data \in Seq(Seq(Name))
          /\ Len(disk[p].data) <= MaxBlocks
      BY <1>1, <2>6, FileDataProperties
    <3> DEFINE new == Overwritten(Header(m).data, disk[p].data)
    <3>2. new \in Seq(Seq(Name)) /\ Len(new) <= MaxBlocks
      <4>1. /\ new \in Seq(Seq(Name))
            /\ Len(new) = IF Len(Header(m).data) < Len(disk[p].data)
                          THEN Len(disk[p].data) ELSE Len(Header(m).data)
        BY <2>3, <3>1, OverwrittenProperties
      <4> QED
        BY <2>3, <3>1, <4>1
    <3>3. node = [disk[p] EXCEPT !.data = new]
      BY <2>6
    <3> HIDE DEF new, node
    <3>4. node \in FileNode /\ node.kind = "file"
      BY <3>1, <3>2, <3>3 DEF FileNode
    <3>5. p \in Path /\ p \in Seq(Name) /\ p # <<>>
      BY <1>1, <2>6 DEF DiskInv, IsTree, Path
    <3>6. Parent(p) # <<>> => Parent(p) \in DOMAIN disk /\ disk[Parent(p)].kind = "dir"
      <4>1. /\ Len(p) \in Nat \ {0} /\ Parent(p) = SubSeq(p, 1, Len(p) - 1)
            /\ Parent(p) \in Seq(Name) /\ Len(Parent(p)) = Len(p) - 1
        BY <3>5, ParentProperties
      <4>2. Parent(p) # <<>> => Len(p) - 1 \in 1..Len(p) - 1
        BY <4>1, EmptySeq
      <4> QED
        BY <1>1, <2>6, <4>1, <4>2 DEF DiskInv, IsTree
    <3> QED
      BY <1>1, <2>6, <3>4, <3>5, <3>6, PutKeepsTree
  <2> QED
    BY <1>2, <2>2, <2>5, <2>6
<1>8. CASE RemoveOld(m)
  <2> DEFINE p == Place(t)
  <2>1. \/ UNCHANGED disk
        \/ /\ p \in DOMAIN disk /\ Inside(p) = {}
           /\ disk' = [q \in DOMAIN disk \ {p} |-> disk[q]]
    BY <1>8 DEF RemoveOld, Fails, t
  <2> HIDE DEF p
  <2>2. ASSUME p \in DOMAIN disk, Inside(p) = {}, disk' = [q \in DOMAIN disk \ {p} |-> disk[q]]
        PROVE  DiskInv'
    <3>1. DOMAIN disk' = DOMAIN disk \ {p} /\ \A q \in DOMAIN disk' : disk'[q] = disk[q]
      BY <2>2
    <3>2. ASSUME NEW q \in DOMAIN disk, NEW k \in 1..Len(q) - 1 PROVE SubSeq(q, 1, k) # p
      <4>1. q \in Seq(Name) /\ Len(q) \in Nat
        BY <1>1, LenProperties DEF DiskInv, IsTree, Path
      <4>2. k \in 0..Len(q) /\ k < Len(q)
        BY <4>1
      <4> DEFINE a == SubSeq(q, 1, k)
      <4>3. a \in Seq(Name) /\ Len(a) = k /\ \A i \in 1..k : a[i] = q[i]
        BY <4>1, <4>2, PartProperties
      <4> HIDE DEF a
      <4>4. IsPrefix(a, q) /\ a # q
        BY <4>1, <4>2, <4>3, PrefixByNames
      <4>5. a # p
        BY <2>2, <4>4 DEF Inside, IsStrictPrefix
      <4> QED
        BY <4>5 DEF a
    <3> QED
      BY <1>1, <3>1, <3>2 DEF DiskInv, IsTree
  <2> QED
    BY <1>2, <2>1, <2>2
<1>9. CASE Symlink(m)
  <2> DEFINE p == Place(t)
             r == Real(Parent(t))
  <2>1. Rest(m) # {} /\ Header(m).kind = "link"
    BY <1>1, <1>9 DEF Symlink, WorkInv, AtEntry
  <2>2. \/ UNCHANGED disk
        \/ p \notin DOMAIN disk /\ MayChange(Parent(t)) /\ Put(p, Header(m))
    BY <1>9 DEF Symlink, Fails, t
  <2>3. ASSUME p \notin DOMAIN disk, MayChange(Parent(t)), Put(p, Header(m)) PROVE DiskInv'
    <3>1. r \in Seq(Name) /\ (r # <<>> => r \in DOMAIN disk /\ disk[r].kind = "dir")
      BY <1>1, <1>3, <2>1, <2>3, DirProperties DEF MayChange
    <3>2. p = Append(r, Last(t))
      BY DEF Place
    <3> HIDE DEF p, r
    <3>3. p \in Seq(Name) /\ p # <<>>
      BY <1>3, <2>1, <3>1, <3>2, AppendProperties
    <3>4. Parent(p) = r
      <4>1. Parent(p) \in Seq(Name) /\ Last(p) \in Name /\ Append(Parent(p), Last(p)) = p
        BY <3>3, ParentProperties
      <4> QED
        BY <1>3, <2>1, <3>1, <3>2, <4>1, AppendInjective
    <3>5. Header(m) \in LinkNode
      BY <1>1, <1>3, <2>1, NodeProperties
    <3>6. p \in Path
      BY <3>3 DEF Path
    <3> QED
      BY <1>1, <2>3, <3>1, <3>4, <3>5, <3>6, PutKeepsTree
  <2> QED
    BY <1>2, <2>2, <2>3
<1> QED
  BY <1>2, <1>5, <1>6, <1>7, <1>8, <1>9 DEF Extract, Lstat, ExtractEnds

-----------------------------------------------------------------------------
(* What a step does to a disk on which no links were found. *)

(* Nothing but the target is changed or removed; *)
Untouched(m) ==
    \A p \in DOMAIN disk : p # Target(m) => p \in DOMAIN disk' /\ disk'[p] = disk[p]

(* what is added is the entry or a directory above it; *)
Added(m) ==
    \A p \in DOMAIN disk' \ DOMAIN disk :
        \/ p = Target(m) /\ disk'[p] = Fresh(p) /\ done'[m] = done[m] \cup {Target(m)}
        \/ /\ \E k \in 1..Len(Target(m)) - 1 : p = SubSeq(Target(m), 1, k)
           /\ disk'[p] = Dir(TRUE)

(* a file that is there is overwritten, and what is in the way of a link removed. *)
Changed(m) ==
    Target(m) \in DOMAIN disk =>
        \/ Target(m) \in DOMAIN disk' /\ disk'[Target(m)] = disk[Target(m)]
        \/ /\ Target(m) \in DOMAIN disk'
           /\ disk[Target(m)].kind = "file" /\ Header(m).kind \in {"file", "pipe"}
           /\ disk'[Target(m)] =
                [disk[Target(m)] EXCEPT !.data = Overwritten(Header(m).data, @)]
        \/ /\ Header(m).kind = "link" /\ Target(m) \notin DOMAIN disk'
           /\ pc'[m] = "link" /\ done' = done

(* After the directories have been made, they are there. *)
Prepared(m) ==
    pc[m] = "next" /\ pc'[m] \in AtEntry =>
        \A k \in 1..Len(Target(m)) - 1 :
            /\ SubSeq(Target(m), 1, k) \in DOMAIN disk'
            /\ disk'[SubSeq(Target(m), 1, k)].kind = "dir"

(* What has been extracted is there. *)
Arrived(m) == \A p : p = Target(m) /\ done' # done => Stands(p)'

LEMMA StepEffect ==
    ASSUME TreeInv, NoLinksFound, NEW m \in mounts, Rest(m) # {}, Extract(m)
    PROVE  Untouched(m) /\ Added(m) /\ Changed(m) /\ Prepared(m) /\ Arrived(m)
<1>0. PICK t : t = Target(m)
  OBVIOUS
<1>1. GivenInv /\ WorkInv /\ DiskInv /\ LinkInv /\ WayInv
  BY DEF TreeInv
<1>2. /\ t \in DOMAIN tree /\ t \in Seq(Name) /\ t # <<>> /\ Header(m) = tree[t]
      /\ Len(t) \in Nat \ {0} /\ Len(t) - 1 \in 0..Len(t)
      /\ Parent(t) = SubSeq(t, 1, Len(t) - 1) /\ Parent(t) \in Seq(Name)
      /\ Len(Parent(t)) = Len(t) - 1 /\ SubSeq(t, 1, Len(t)) = t
  <2>1. t \in DOMAIN tree /\ t \in Seq(Name) /\ t # <<>> /\ Header(m) = tree[t]
    BY <1>0, <1>1, TargetProperties
  <2> QED
    BY <2>1, ParentProperties, SubSeqFull
<1>3. /\ Links(Parent(t)) = {} /\ Place(t) = t
      /\ Header(m).kind # "link" => Links(t) = {} /\ Real(t) = t
  BY <1>1, <1>2, NoLinksOnTheWay
<1>4. /\ Header(m).kind = "dir" => Header(m) = Dir(Header(m).write) /\ Fresh(t) = Header(m)
      /\ Header(m).kind = "link" => Fresh(t) = Header(m)
      /\ Header(m).kind \in {"file", "pipe"} =>
            /\ Fresh(t) = RegularFile(Header(m).write, Header(m).data)
            /\ Header(m).data \in Seq(Seq(Name))
      /\ Header(m).write \in BOOLEAN
  BY <1>1, <1>2, NodeProperties
<1>5. UNCHANGED given /\ Header(m)' = tree[Target(m)'] /\ \A p : Fresh(p)' = Fresh(p)
  BY <1>1, WorkerStep, GivenStays DEF Header, given
<1>6. ASSUME UNCHANGED disk, done' = done, pc[m] # "next" \/ pc'[m] \notin AtEntry
      PROVE  Untouched(m) /\ Added(m) /\ Changed(m) /\ Prepared(m) /\ Arrived(m)
  BY <1>6 DEF Untouched, Added, Changed, Prepared, Arrived
<1>7. ASSUME Fails(m)
      PROVE  Untouched(m) /\ Added(m) /\ Changed(m) /\ Prepared(m) /\ Arrived(m)
  <2>1. pc'[m] \notin AtEntry
    BY <1>1, <1>7 DEF Fails, Goto, WorkInv, AtEntry
  <2> QED
    BY <1>6, <1>7, <2>1 DEF Fails
<1>8. CASE EnsureParent(m)
  <2>1. ASSUME CanMkdirAll(Parent(t)), MkdirAll(Parent(t), TRUE), done' = done
        PROVE  Untouched(m) /\ Added(m) /\ Changed(m) /\ Prepared(m) /\ Arrived(m)
    <3>1. \A k \in 1..Len(t) - 1 : SubSeq(Parent(t), 1, k) = SubSeq(t, 1, k)
      <4>1. \A k \in 1..Len(t) - 1 : k \in 0..Len(t) - 1
        BY <1>2
      <4> QED
        BY <1>2, <4>1, PartOfPart
    <3>2. /\ \A q \in DOMAIN disk : q \in DOMAIN disk' /\ disk'[q] = disk[q]
          /\ \A q \in DOMAIN disk' \ DOMAIN disk : disk'[q] = Dir(TRUE)
      BY <1>1, <1>2, <2>1, MkdirAllProperties
    <3>3. /\ \A k \in 1..Len(t) - 1 : /\ SubSeq(Parent(t), 1, k) \in DOMAIN disk'
                                      /\ disk'[SubSeq(Parent(t), 1, k)].kind = "dir"
          /\ \A q \in DOMAIN disk' \ DOMAIN disk :
                \E k \in 1..Len(t) - 1 : q = SubSeq(Parent(t), 1, k)
      BY <1>1, <1>2, <1>3, <2>1, MkdirAllProperties
    <3>4. Untouched(m) /\ Changed(m) /\ Arrived(m)
      BY <2>1, <3>2 DEF Untouched, Changed, Arrived
    <3>5. Added(m) /\ Prepared(m)
      BY <1>0, <3>1, <3>2, <3>3 DEF Added, Prepared
    <3> QED
      BY <3>4, <3>5
  <2> QED
    BY <1>0, <1>7, <1>8, <2>1 DEF EnsureParent
<1>9. CASE ExtractDir(m)
  <2>1. ASSUME CanMkdirAll(t), MkdirAll(t, Header(m).write), Extracted(m)
        PROVE  Untouched(m) /\ Added(m) /\ Changed(m) /\ Prepared(m) /\ Arrived(m)
    <3>1. Header(m).kind = "dir" /\ pc[m] = "make"
      BY <1>9 DEF ExtractDir
    <3>2. /\ \A q \in DOMAIN disk : q \in DOMAIN disk' /\ disk'[q] = disk[q]
          /\ \A q \in DOMAIN disk' \ DOMAIN disk : disk'[q] = Dir(Header(m).write)
      BY <1>1, <1>2, <1>4, <2>1, MkdirAllProperties
    <3>3. /\ \A k \in 1..Len(t) : /\ SubSeq(t, 1, k) \in DOMAIN disk'
                                  /\ disk'[SubSeq(t, 1, k)].kind = "dir"
          /\ \A q \in DOMAIN disk' \ DOMAIN disk : \E k \in 1..Len(t) : q = SubSeq(t, 1, k)
      BY <1>1, <1>2, <1>3, <1>4, <2>1, <3>1, MkdirAllProperties
    <3>4. \A k \in 1..Len(t) - 1 : SubSeq(t, 1, k) \in DOMAIN disk
      BY <1>0, <1>1, <3>1 DEF WayInv, AtEntry
    <3>5. \A q \in DOMAIN disk' \ DOMAIN disk : q = t
      <4>1. \A k \in 1..Len(t) : k \in 1..Len(t) - 1 \/ k = Len(t)
        BY <1>2
      <4> QED
        BY <1>2, <3>3, <3>4, <4>1
    <3>6. done'[m] = done[m] \cup {t}
      BY <1>0, <1>1, <2>1 DEF Extracted, WorkInv
    <3>7. Untouched(m) /\ Changed(m) /\ Added(m) /\ Prepared(m)
      <4>1. Fresh(t) = Dir(Header(m).write)
        BY <1>4, <3>1
      <4>2. Added(m)
        BY <1>0, <3>2, <3>5, <3>6, <4>1 DEF Added
      <4>3. Untouched(m) /\ Changed(m) /\ Prepared(m)
        BY <3>1, <3>2 DEF Untouched, Changed, Prepared
      <4> QED
        BY <4>2, <4>3
    <3>8. t \in DOMAIN disk' /\ disk'[t].kind = "dir"
      <4>1. Len(t) \in 1..Len(t) /\ SubSeq(t, 1, Len(t)) = t
        BY <1>2
      <4>2. SubSeq(t, 1, Len(t)) \in DOMAIN disk' /\ disk'[SubSeq(t, 1, Len(t))].kind = "dir"
        BY <3>3, <4>1
      <4> QED
        BY <4>1, <4>2
    <3>9. Stands(t)'
      <4>1. Fresh(t)' = Fresh(t) /\ tree' = tree
        BY <1>5 DEF given
      <4> QED
        BY <1>2, <1>4, <3>1, <3>8, <4>1 DEF Stands
    <3>10. Arrived(m)
      BY <1>0, <3>9 DEF Arrived
    <3> QED
      BY <3>7, <3>10
  <2> QED
    BY <1>0, <1>7, <1>9, <2>1 DEF ExtractDir
<1>10. CASE ExtractRegular(m)
  <2> DEFINE d == Header(m).data
  <2>1. Header(m).kind \in {"file", "pipe"} /\ pc[m] = "make" /\ Real(t) = t
    BY <1>3, <1>10 DEF ExtractRegular
  <2>2. d \in Seq(Seq(Name)) /\ Fresh(t) = RegularFile(Header(m).write, d)
    BY <1>4, <2>1
  <2>3. /\ Fresh(t)' = Fresh(t) /\ tree'[t].kind \in {"file", "pipe"} /\ tree'[t].data = d
        /\ Fresh(t).kind = "file"
    BY <1>2, <1>5, <2>1, <2>2 DEF given, RegularFile
  <2>4. ASSUME t \notin DOMAIN disk, Put(t, RegularFile(Header(m).write, d)), Extracted(m)
        PROVE  Untouched(m) /\ Added(m) /\ Changed(m) /\ Prepared(m) /\ Arrived(m)
    <3>1. /\ DOMAIN disk' = DOMAIN disk \cup {t} /\ disk'[t] = Fresh(t)
          /\ \A q \in DOMAIN disk : disk'[q] = disk[q]
      BY <2>2, <2>4 DEF Put
    <3>2. done'[m] = done[m] \cup {t}
      BY <1>0, <1>1, <2>4 DEF Extracted, WorkInv
    <3>3. Untouched(m) /\ Added(m) /\ Changed(m) /\ Prepared(m)
      BY <1>0, <2>1, <2>4, <3>1, <3>2 DEF Untouched, Changed, Added, Prepared
    <3>4. IsPrefix(d, Fresh(t).data)
      <4>1. Fresh(t).data = d
        BY <2>2 DEF RegularFile
      <4> QED
        BY <2>2, <4>1, LenProperties DEF IsPrefix
    <3>5. Stands(t)'
      BY <2>1, <2>3, <3>1, <3>4 DEF Stands
    <3>6. Arrived(m)
      BY <1>0, <3>5 DEF Arrived
    <3> QED
      BY <3>3, <3>6
  <2>5. ASSUME t \in DOMAIN disk, disk[t].kind = "file", Extracted(m),
               Put(t, [disk[t] EXCEPT !.data = Overwritten(d, @)])
        PROVE  Untouched(m) /\ Added(m) /\ Changed(m) /\ Prepared(m) /\ Arrived(m)
    <3> DEFINE new == Overwritten(d, disk[t].data)
               node == [disk[t] EXCEPT !.data = new]
    <3>1. disk[t] \in FileNode /\ disk[t].data \in Seq(Seq(Name))
      BY <1>1, <2>5, FileDataProperties
    <3>2. IsPrefix(d, new)
      BY <2>2, <3>1, OverwrittenProperties
    <3>3. Put(t, node)
      BY <2>5
    <3> HIDE DEF new
    <3>4. node.kind = "file" /\ node.data = new
      BY <2>5, <3>1 DEF FileNode
    <3> HIDE DEF node
    <3>5. /\ DOMAIN disk' = DOMAIN disk /\ disk'[t] = node
          /\ \A q \in DOMAIN disk : q # t => disk'[q] = disk[q]
      BY <2>5, <3>3 DEF Put
    <3>6. Untouched(m) /\ Added(m) /\ Prepared(m)
      BY <1>0, <2>1, <3>5 DEF Untouched, Added, Prepared
    <3>7. Changed(m)
      BY <1>0, <2>1, <2>5, <3>5 DEF Changed, node, new
    <3>8. Stands(t)'
      BY <2>1, <2>3, <2>5, <3>2, <3>4, <3>5 DEF Stands
    <3>9. Arrived(m)
      BY <1>0, <3>8 DEF Arrived
    <3> QED
      BY <3>6, <3>7, <3>9
  <2> QED
    BY <1>0, <1>7, <1>10, <2>1, <2>4, <2>5 DEF ExtractRegular
<1>11. CASE RemoveOld(m)
  <2>1. pc[m] = "remove" /\ Header(m).kind = "link"
    BY <1>1, <1>11 DEF RemoveOld, WorkInv, AtEntry
  <2>2. ASSUME disk' = [q \in DOMAIN disk \ {t} |-> disk[q]], Goto(m, "link"), UNCHANGED done
        PROVE  Untouched(m) /\ Added(m) /\ Changed(m) /\ Prepared(m) /\ Arrived(m)
    <3>1. pc'[m] = "link"
      BY <1>1, <2>2 DEF Goto, WorkInv
    <3> QED
      BY <1>0, <2>1, <2>2, <3>1 DEF Untouched, Added, Changed, Prepared, Arrived
  <2> QED
    BY <1>0, <1>3, <1>7, <1>11, <2>2 DEF RemoveOld
<1>12. CASE Symlink(m)
  <2>1. pc[m] = "link" /\ Header(m).kind = "link" /\ Fresh(t) = Header(m)
    BY <1>1, <1>4, <1>12 DEF Symlink, WorkInv, AtEntry
  <2>2. ASSUME t \notin DOMAIN disk, Put(t, Header(m)), Extracted(m)
        PROVE  Untouched(m) /\ Added(m) /\ Changed(m) /\ Prepared(m) /\ Arrived(m)
    <3>1. /\ DOMAIN disk' = DOMAIN disk \cup {t} /\ disk'[t] = Fresh(t)
          /\ \A q \in DOMAIN disk : disk'[q] = disk[q]
      BY <2>1, <2>2 DEF Put
    <3>2. done'[m] = done[m] \cup {t}
      BY <1>0, <1>1, <2>2 DEF Extracted, WorkInv
    <3>3. Untouched(m) /\ Added(m) /\ Changed(m) /\ Prepared(m)
      BY <1>0, <2>1, <2>2, <3>1, <3>2 DEF Untouched, Changed, Added, Prepared
    <3>4. Fresh(t)' = Fresh(t) /\ tree' = tree
      BY <1>5 DEF given
    <3>5. Stands(t)'
      BY <1>2, <2>1, <3>1, <3>4 DEF Stands
    <3>6. Arrived(m)
      BY <1>0, <3>5 DEF Arrived
    <3> QED
      BY <3>3, <3>6
  <2> QED
    BY <1>0, <1>3, <1>7, <1>12, <2>2 DEF Symlink
<1>13. CASE Lstat(m)
  BY <1>6, <1>13 DEF Lstat
<1> QED
  BY <1>8, <1>9, <1>10, <1>11, <1>12, <1>13 DEF Extract, ExtractEnds

-----------------------------------------------------------------------------
(* The steps keep the invariant. *)

(* At the end of the archive the disk is left alone. *)
LEMMA EndStep ==
    ASSUME WorkInv, NEW m \in mounts, Rest(m) = {}, Extract(m)
    PROVE  UNCHANGED <<disk, done>> /\ pc[m] = "next" /\ pc'[m] = "ok"
<1>1. DOMAIN pc = mounts /\ pc[m] \notin AtEntry
  BY DEF WorkInv
<1> QED
  BY <1>1 DEF Extract, EnsureParent, ExtractDir, ExtractRegular, Lstat, RemoveOld, Symlink,
              ExtractEnds, Goto, AtEntry

(* A file that is overwritten stays a file. *)
LEMMA OverwrittenFile ==
    ASSUME DiskInv, NEW p \in DOMAIN disk, disk[p].kind = "file", NEW d \in Seq(Seq(Name)),
           NEW node, node = [disk[p] EXCEPT !.data = Overwritten(d, @)]
    PROVE  /\ node.kind = "file" /\ node.write = disk[p].write
           /\ node.data = Overwritten(d, disk[p].data)
           /\ IsPrefix(d, node.data) /\ Len(node.data) >= Len(disk[p].data)
           /\ d = disk[p].data => node = disk[p]
<1>1. disk[p] \in FileNode /\ disk[p].data \in Seq(Seq(Name)) /\ Len(disk[p].data) \in Nat
  BY FileDataProperties
<1> DEFINE new == Overwritten(d, disk[p].data)
<1>2. /\ Len(new) = IF Len(d) < Len(disk[p].data) THEN Len(disk[p].data) ELSE Len(d)
      /\ IsPrefix(d, new) /\ (d = disk[p].data => new = d)
  BY <1>1, OverwrittenProperties
<1>3. node = [disk[p] EXCEPT !.data = new]
  OBVIOUS
<1> HIDE DEF new
<1>4. node.kind = "file" /\ node.write = disk[p].write /\ node.data = new
  BY <1>1, <1>3 DEF FileNode
<1>5. Len(node.data) >= Len(disk[p].data)
  <2>1. Len(d) \in Nat
    BY LenProperties
  <2> QED
    BY <1>1, <1>2, <1>4, <2>1
<1>6. d = disk[p].data => node = disk[p]
  BY <1>1, <1>2, <1>3 DEF FileNode
<1> QED
  BY <1>2, <1>4, <1>5, <1>6 DEF new

LEMMA LinkStep ==
    ASSUME TreeInv, NEW m \in mounts, Extract(m)
    PROVE  LinkInv'
<1>1. GivenInv /\ WorkInv /\ DiskInv /\ LinkInv
  BY DEF TreeInv
<1>2. tree' = tree /\ NoLinksFound' = NoLinksFound
  BY <1>1, WorkerStep, GivenStays DEF given
<1>3. SUFFICES ASSUME NoLinksFound, NEW p \in DOMAIN disk', disk'[p].kind = "link"
               PROVE  p \in DOMAIN tree /\ tree[p].kind = "link"
  BY <1>2 DEF LinkInv
<1>4. p \in DOMAIN disk /\ disk[p].kind = "link" => p \in DOMAIN tree /\ tree[p].kind = "link"
  BY <1>1, <1>3 DEF LinkInv
<1>5. CASE Rest(m) = {}
  BY <1>1, <1>3, <1>4, <1>5, EndStep
<1>6. CASE Rest(m) # {}
  <2>1. Untouched(m) /\ Added(m) /\ Changed(m)
    BY <1>3, <1>6, StepEffect
  <2>2. /\ Target(m) \in DOMAIN tree /\ Header(m) = tree[Target(m)]
        /\ Header(m).kind \in {"file", "pipe"} => Header(m).data \in Seq(Seq(Name))
    BY <1>1, <1>6, TargetProperties, NodeProperties
  <2>3. CASE p \in DOMAIN disk
    <3>1. CASE disk'[p] = disk[p]
      BY <1>3, <1>4, <2>3, <3>1
    <3>2. CASE disk'[p] # disk[p]
      <4>1. /\ p = Target(m) /\ disk[p].kind = "file" /\ Header(m).kind \in {"file", "pipe"}
            /\ disk'[p] = [disk[p] EXCEPT !.data = Overwritten(Header(m).data, @)]
        BY <1>3, <2>1, <2>3, <3>2 DEF Untouched, Changed
      <4>2. disk'[p].kind = "file"
        BY <1>1, <2>2, <2>3, <4>1, OverwrittenFile
      <4> QED
        BY <1>3, <4>2
    <3> QED
      BY <3>1, <3>2
  <2>4. CASE p \notin DOMAIN disk
    <3>1. p = Target(m) /\ disk'[p] = Fresh(p)
      BY <1>3, <2>1, <2>4 DEF Added, Dir
    <3>2. Fresh(p).kind = "link"
      BY <1>3, <3>1
    <3> QED
      BY <2>2, <3>1, <3>2 DEF Fresh, RegularFile
  <2> QED
    BY <2>3, <2>4
<1> QED
  BY <1>5, <1>6

(* What is a directory in the tree and on disk stays one. *)
LEMMA DirStays ==
    ASSUME TreeInv, NoLinksFound, NEW m \in mounts, Extract(m),
           NEW d \in DOMAIN tree, tree[d].kind = "dir", d \in DOMAIN disk, disk[d].kind = "dir"
    PROVE  d \in DOMAIN disk' /\ disk'[d].kind = "dir"
<1>1. GivenInv /\ WorkInv
  BY DEF TreeInv
<1>2. CASE Rest(m) = {}
  BY <1>1, <1>2, EndStep
<1>3. CASE Rest(m) # {}
  <2>1. Untouched(m) /\ Changed(m) /\ Header(m) = tree[Target(m)]
    BY <1>1, <1>3, StepEffect, TargetProperties
  <2> QED
    BY <2>1 DEF Untouched, Changed
<1> QED
  BY <1>2, <1>3

LEMMA WayStep ==
    ASSUME TreeInv, NEW m \in mounts, Extract(m)
    PROVE  WayInv'
<1>1. GivenInv /\ WorkInv /\ WayInv
  BY DEF TreeInv
<1>2. /\ UNCHANGED given /\ mounts' = mounts /\ NoLinksFound' = NoLinksFound
      /\ \A n \in mounts : n # m => pc'[n] = pc[n] /\ done'[n] = done[n]
  BY <1>1, WorkerStep, GivenStays DEF given
<1>3. SUFFICES ASSUME NoLinksFound, NEW n \in mounts, pc'[n] \in AtEntry
               PROVE  (\A k \in 1..Len(Target(n)) - 1 :
                          /\ SubSeq(Target(n), 1, k) \in DOMAIN disk
                          /\ disk[SubSeq(Target(n), 1, k)].kind = "dir")'
  BY <1>2 DEF WayInv
<1>4. done'[n] = done[n] /\ (pc[n] \in AtEntry \/ (n = m /\ pc[m] = "next" /\ Rest(m) # {}))
  BY <1>1, <1>2, <1>3, WorkerStep DEF AtEntry
<1>5. Target(n)' = Target(n)
  BY <1>2, <1>4, TargetStays
<1>6. SUFFICES ASSUME NEW k \in 1..Len(Target(n)) - 1
               PROVE  /\ SubSeq(Target(n), 1, k) \in DOMAIN disk'
                      /\ disk'[SubSeq(Target(n), 1, k)].kind = "dir"
  BY <1>5
<1>7. CASE pc[n] \in AtEntry
  <2>1. /\ SubSeq(Target(n), 1, k) \in DOMAIN disk
        /\ disk[SubSeq(Target(n), 1, k)].kind = "dir"
    BY <1>1, <1>3, <1>7 DEF WayInv
  <2>2. Rest(n) # {}
    BY <1>1, <1>7 DEF WorkInv
  <2>3. /\ SubSeq(Target(n), 1, k) \in DOMAIN tree
        /\ tree[SubSeq(Target(n), 1, k)].kind = "dir"
    BY <1>1, <2>2, AboveIsDone
  <2> QED
    BY <1>3, <2>1, <2>3, DirStays
<1>8. CASE n = m /\ pc[m] = "next" /\ Rest(m) # {}
  <2>1. Prepared(m)
    BY <1>3, <1>8, StepEffect
  <2> QED
    BY <1>3, <1>8, <2>1 DEF Prepared
<1> QED
  BY <1>4, <1>7, <1>8

(* What has been extracted stays there, or is a link that is made again. *)
LEMMA StandStep ==
    ASSUME TreeInv, NEW m \in mounts, Extract(m)
    PROVE  StandInv'
<1> DEFINE Waits(p) == \E n \in mounts : /\ pc[n] \in {"link", "failed"}
                                         /\ Rest(n) # {} /\ Target(n) = p
<1>1. GivenInv /\ WorkInv /\ DiskInv /\ StandInv
  BY DEF TreeInv
<1>2. /\ UNCHANGED given /\ mounts' = mounts /\ NoLinksFound' = NoLinksFound /\ tree' = tree
      /\ \A n \in mounts : n # m => pc'[n] = pc[n] /\ done'[n] = done[n]
      /\ \A p : Fresh(p)' = Fresh(p)
  BY <1>1, WorkerStep, GivenStays DEF given
<1>3. SUFFICES ASSUME NoLinksFound, NEW n \in mounts, NEW p \in done'[n]
               PROVE  Stands(p)' \/ (tree[p].kind = "link" /\ Waits(p)')
  BY <1>2 DEF StandInv
<1>4. ASSUME NEW l \in mounts, done'[l] = done[l]
      PROVE  Rest(l)' = Rest(l) /\ Target(l)' = Target(l)
  BY <1>2, <1>4, TargetStays
<1>5. CASE Rest(m) = {}
  <2>1. UNCHANGED <<disk, done>> /\ pc[m] = "next"
    BY <1>1, <1>5, EndStep
  <2>2. Stands(p) => Stands(p)'
    BY <1>2, <2>1 DEF Stands
  <2>3. Waits(p) => Waits(p)'
    <3>1. SUFFICES ASSUME NEW l \in mounts, pc[l] \in {"link", "failed"}, Rest(l) # {}, Target(l) = p
                   PROVE  Waits(p)'
      OBVIOUS
    <3>2. l # m /\ pc'[l] = pc[l] /\ done'[l] = done[l]
      BY <1>2, <2>1, <3>1
    <3> QED
      BY <1>2, <1>4, <3>1, <3>2
  <2> QED
    BY <1>1, <1>3, <2>1, <2>2, <2>3 DEF StandInv
<1>6. CASE Rest(m) # {}
  <2>1. Untouched(m) /\ Changed(m) /\ Arrived(m)
    BY <1>3, <1>6, StepEffect
  <2>2. /\ Header(m) = tree[Target(m)]
        /\ Header(m).kind \in {"file", "pipe"} =>
              Header(m).data \in Seq(Seq(Name)) /\ Fresh(Target(m)).kind = "file"
    <3>1. Target(m) \in DOMAIN tree /\ Header(m) = tree[Target(m)]
      BY <1>1, <1>6, TargetProperties
    <3>2. tree[Target(m)].kind \in {"file", "pipe"} =>
            /\ tree[Target(m)].data \in Seq(Seq(Name))
            /\ Fresh(Target(m)) = RegularFile(tree[Target(m)].write, tree[Target(m)].data)
      BY <1>1, <3>1, NodeProperties
    <3>3. \A w, b : RegularFile(w, b).kind = "file"
      BY DEF RegularFile
    <3> QED
      BY <3>1, <3>2, <3>3
  <2>3. CASE p = Target(m) /\ done' # done
    BY <2>1, <2>3 DEF Arrived
  <2>4. CASE Stands(p) /\ ~(p = Target(m) /\ done' # done)
    <3>1. CASE p \in DOMAIN disk' /\ disk'[p] = disk[p]
      BY <1>2, <2>4, <3>1 DEF Stands
    <3>2. CASE /\ p = Target(m) /\ p \in DOMAIN disk'
               /\ disk[p].kind = "file" /\ Header(m).kind \in {"file", "pipe"}
               /\ disk'[p] = [disk[p] EXCEPT !.data = Overwritten(Header(m).data, @)]
      <4>1. disk'[p].kind = "file" /\ IsPrefix(Header(m).data, disk'[p].data)
        BY <1>1, <2>2, <2>4, <3>2, OverwrittenFile DEF Stands
      <4> QED
        BY <1>2, <2>2, <3>2, <4>1 DEF Stands
    <3>3. CASE /\ p = Target(m) /\ Header(m).kind = "link"
               /\ pc'[m] = "link" /\ done' = done
      <4>1. Rest(m)' = Rest(m) /\ Target(m)' = Target(m)
        BY <1>4, <3>3
      <4> QED
        BY <1>2, <1>6, <2>2, <3>3, <4>1
    <3> QED
      BY <2>1, <2>4, <3>1, <3>2, <3>3 DEF Untouched, Changed, Stands
  <2>5. CASE tree[p].kind = "link" /\ Waits(p) /\ ~(p = Target(m) /\ done' # done)
    <3>1. PICK l \in mounts : pc[l] \in {"link", "failed"} /\ Rest(l) # {} /\ Target(l) = p
      BY <2>5
    <3>2. done'[l] = done[l] /\ pc'[l] \in {"link", "failed"}
      <4>1. CASE l # m
        BY <1>2, <3>1, <4>1
      <4>2. CASE l = m
        <5>1. done' = done
          BY <2>5, <3>1, <4>2
        <5> QED
          BY <1>1, <3>1, <4>2, <5>1, WorkerStep, TargetProperties
      <4> QED
        BY <4>1, <4>2
    <3> QED
      BY <1>2, <1>4, <2>5, <3>1, <3>2
  <2>6. p \in done[n] \/ (p = Target(m) /\ done' # done)
    BY <1>1, <1>2, <1>3, WorkerStep
  <2> QED
    BY <1>1, <1>3, <2>3, <2>4, <2>5, <2>6 DEF StandInv
<1> QED
  BY <1>5, <1>6

(* On a disk that was empty there is nothing but what was extracted, and
   directories around mounts. *)
LEMMA CleanStep ==
    ASSUME TreeInv, NEW m \in mounts, Extract(m)
    PROVE  CleanInv'
<1>1. GivenInv /\ WorkInv /\ DiskInv /\ StandInv /\ CleanInv /\ WayInv
  BY DEF TreeInv
<1>2. /\ UNCHANGED given /\ mounts' = mounts /\ Empty(found)' = Empty(found)
      /\ \A n \in mounts : n # m => done'[n] = done[n]
      /\ \A p : Fresh(p)' = Fresh(p) /\ AboveMount(p)' = AboveMount(p)
  BY <1>1, WorkerStep, GivenStays DEF given
<1>3. SUFFICES ASSUME Empty(found), NEW p \in DOMAIN disk'
               PROVE  \/ disk'[p] = Fresh(p) /\ \E n \in mounts : p \in done'[n]
                      \/ AboveMount(p) /\ disk'[p] = Dir(TRUE)
  BY <1>2 DEF CleanInv
<1>4. NoLinksFound
  BY <1>3 DEF Empty, NoLinksFound
<1>5. \A n \in mounts : done[n] \subseteq done'[n]
  BY <1>1, <1>2, WorkerStep
<1>6. ASSUME p \in DOMAIN disk, disk'[p] = disk[p]
      PROVE  \/ disk'[p] = Fresh(p) /\ \E n \in mounts : p \in done'[n]
             \/ AboveMount(p) /\ disk'[p] = Dir(TRUE)
  BY <1>1, <1>3, <1>5, <1>6 DEF CleanInv
<1>7. CASE Rest(m) = {}
  BY <1>1, <1>3, <1>6, <1>7, EndStep
<1>8. CASE Rest(m) # {}
  <2>1. Untouched(m) /\ Added(m) /\ Changed(m)
    BY <1>4, <1>8, StepEffect
  <2>2. Target(m) \in DOMAIN tree /\ Header(m) = tree[Target(m)]
    BY <1>1, <1>8, TargetProperties
  <2>3. ASSUME p \in DOMAIN disk, disk'[p] # disk[p] PROVE FALSE
    <3>1. /\ p = Target(m) /\ disk[p].kind = "file" /\ Header(m).kind \in {"file", "pipe"}
          /\ disk'[p] = [disk[p] EXCEPT !.data = Overwritten(Header(m).data, @)]
      BY <1>3, <2>1, <2>3 DEF Untouched, Changed
    <3>2. Header(m).data \in Seq(Seq(Name)) /\ Fresh(p) = RegularFile(Header(m).write, Header(m).data)
      BY <1>1, <2>2, <3>1, NodeProperties
    <3>3. disk[p] = Fresh(p)
      BY <1>1, <1>3, <2>3, <3>1 DEF CleanInv, Dir
    <3>4. disk[p].data = Header(m).data
      BY <3>2, <3>3 DEF RegularFile
    <3> QED
      BY <1>1, <2>3, <3>1, <3>2, <3>4, OverwrittenFile
  <2>4. CASE p \notin DOMAIN disk
    <3>1. CASE p = Target(m) /\ disk'[p] = Fresh(p) /\ done'[m] = done[m] \cup {Target(m)}
      BY <3>1
    <3>2. CASE /\ \E k \in 1..Len(Target(m)) - 1 : p = SubSeq(Target(m), 1, k)
               /\ disk'[p] = Dir(TRUE)
      <4>1. tree[p].kind = "dir" /\ (p \in done[m] \/ AboveMount(p))
        BY <1>1, <1>8, <3>2, AboveIsDone
      <4>2. p \notin done[m]
        BY <1>1, <1>4, <2>4, <4>1 DEF StandInv, Stands
      <4> QED
        BY <3>2, <4>1, <4>2
    <3> QED
      BY <1>3, <2>1, <2>4, <3>1, <3>2 DEF Added
  <2> QED
    BY <1>6, <2>3, <2>4
<1> QED
  BY <1>7, <1>8

(* What must be known of a directory to change it, on a disk that was empty. *)
LEMMA MayChangeClean ==
    ASSUME TreeInv, Empty(found), Harmless, NEW p \in Seq(Name), Links(p) = {}, IsDir(p)
    PROVE  MayChange(p)
<1>1. CleanInv /\ WorkInv /\ GivenInv
  BY DEF TreeInv
<1>2. Real(p) = p /\ (p # <<>> => p \in DOMAIN disk /\ disk[p].kind = "dir")
  BY RealWithoutLinks, DirWithoutLinks
<1>3. SUFFICES ASSUME p # <<>>, ~root PROVE disk[p].write
  BY <1>2 DEF MayChange
<1>4. CASE disk[p] = Fresh(p) /\ \E n \in mounts : p \in done[n]
  <2>1. p \in Archived /\ p \in DOMAIN tree
    BY <1>1, <1>4 DEF WorkInv, Archived, Entries, Walk
  <2>2. tree[p].write
    BY <1>3, <2>1 DEF Harmless
  <2> QED
    BY <1>4, <2>2 DEF Fresh, RegularFile
<1>5. CASE disk[p] = Dir(TRUE)
  BY <1>5 DEF Dir
<1> QED
  BY <1>1, <1>2, <1>3, <1>4, <1>5 DEF CleanInv

(* There, directories can be made along any path of which no part is anything
   else. *)
LEMMA CanMkdirAllClean ==
    ASSUME TreeInv, Empty(found), Harmless, NEW p \in Seq(Name), Links(p) = {},
           \A k \in 1..Len(p) :
              SubSeq(p, 1, k) \in DOMAIN disk => disk[SubSeq(p, 1, k)].kind = "dir"
    PROVE  CanMkdirAll(p)
<1> DEFINE from == DirPart(p)
<1>1. PICK n \in 0..Len(p) :
        /\ from = SubSeq(p, 1, n) /\ Len(from) = n /\ from \in Seq(Name) /\ IsDir(from)
        /\ \A j \in n + 1..Len(p) : ~IsDir(SubSeq(p, 1, j))
  BY DirPartProperties
<1> HIDE DEF from
<1>2. Links(from) = {} /\ Real(from) = from
  BY <1>1, LinksOfPart, RealWithoutLinks
<1>3. MayChange(from)
  BY <1>1, <1>2, MayChangeClean
<1>4. ASSUME p # from PROVE Append(Real(from), p[n + 1]) \notin DOMAIN disk
  <2>1. Len(p) \in Nat /\ n # Len(p)
    BY <1>1, <1>4, SubSeqFull
  <2>2. n + 1 \in 1..Len(p) /\ n + 1 \in 0..Len(p) /\ n + 1 \in n + 1..Len(p) /\ n \in 0..n + 1
    BY <2>1
  <2> DEFINE q == SubSeq(p, 1, n + 1)
  <2>3. /\ q \in Seq(Name) /\ Len(q) = n + 1 /\ \A i \in 1..n + 1 : q[i] = p[i]
        /\ SubSeq(q, 1, n) = from /\ Links(q) = {}
    BY <1>1, <2>2, PartProperties, PartOfPart, LinksOfPart
  <2> HIDE DEF q
  <2>4. q # <<>> /\ Parent(q) = from /\ Last(q) = p[n + 1]
    <3>1. q # <<>> /\ n + 1 \in 1..n + 1 /\ (n + 1) - 1 = n
      BY <1>1, <2>3
    <3>2. Parent(q) = SubSeq(q, 1, Len(q) - 1)
      BY <2>3, <3>1, ParentProperties
    <3> QED
      BY <2>3, <3>1, <3>2 DEF Last
  <2>5. Append(from, p[n + 1]) = q
    BY <2>3, <2>4, ParentProperties
  <2>6. ~IsDir(q)
    BY <1>1, <2>2 DEF q
  <2>7. Real(q) = q
    BY <2>3, RealWithoutLinks
  <2>8. q \notin DOMAIN disk
    BY <2>2, <2>6, <2>7 DEF IsDir, q
  <2> QED
    BY <1>2, <2>5, <2>8
<1>5. n + 1 = Len(from) + 1
  BY <1>1
<1> QED
  BY <1>3, <1>4, <1>5 DEF CanMkdirAll, from

LEMMA AboveMountIsDir ==
    ASSUME GivenInv, NEW p \in Path, AboveMount(p)
    PROVE  p \in DOMAIN tree /\ tree[p].kind = "dir"
<1>1. PICK m \in mounts : IsPrefix(p, m) /\ p # m
  BY DEF AboveMount, IsStrictPrefix
<1>2. m \in DOMAIN tree /\ m \in Seq(Name) /\ p \in Seq(Name) /\ p # <<>>
  BY TreeProperties DEF GivenInv, Path
<1>3. /\ Len(p) \in Nat \ {0} /\ Len(m) \in Nat /\ Len(p) <= Len(m)
      /\ SubSeq(p, 1, Len(p)) = p /\ SubSeq(m, 1, Len(m)) = m
      /\ SubSeq(p, 1, Len(p)) = SubSeq(m, 1, Len(p))
  BY <1>1, <1>2, EmptySeq, LenProperties, SubSeqFull DEF IsPrefix
<1>4. Len(p) \in 1..Len(m) - 1
  <2>1. Len(p) # Len(m)
    BY <1>1, <1>3
  <2>2. ASSUME NEW i \in Nat \ {0}, NEW j \in Nat, i <= j, i # j PROVE i \in 1..j - 1
    BY <2>2
  <2>3. Len(p) \in Nat \ {0} /\ Len(m) \in Nat /\ Len(p) <= Len(m)
    BY <1>3
  <2> QED
    BY <2>1, <2>2, <2>3
<1> QED
  BY <1>1, <1>2, <1>3, <1>4, TreeProperties DEF GivenInv, IsTree

(* On a disk that was empty a directory is there as a directory, ... *)
LEMMA CleanDir ==
    ASSUME GivenInv, CleanInv, Empty(found), NEW p \in DOMAIN disk,
           p \in DOMAIN tree, tree[p].kind = "dir"
    PROVE  disk[p].kind = "dir"
<1>1. Fresh(p).kind = "dir" /\ Dir(TRUE).kind = "dir"
  BY DEF Fresh, Dir
<1> QED
  BY <1>1 DEF CleanInv

(* ... anything else as it was archived, ... *)
LEMMA CleanEntry ==
    ASSUME GivenInv, DiskInv, CleanInv, Empty(found), NEW p \in DOMAIN disk,
           tree[p].kind # "dir"
    PROVE  disk[p] = Fresh(p) /\ \E n \in mounts : p \in done[n]
<1>1. p \in Path
  BY DEF DiskInv, IsTree
<1> QED
  BY <1>1, AboveMountIsDir DEF CleanInv

(* ... and a link not before it is made. *)
LEMMA CleanLink ==
    ASSUME TreeInv, Empty(found), Harmless, NEW m \in mounts, Rest(m) # {},
           Header(m).kind = "link"
    PROVE  Target(m) \notin DOMAIN disk
<1>1. GivenInv /\ WorkInv /\ DiskInv /\ CleanInv
  BY DEF TreeInv
<1>2. /\ Target(m) \notin done[m] /\ Target(m) \in Archived /\ IsPrefix(m, Target(m))
      /\ Header(m) = tree[Target(m)]
  BY <1>1, TargetProperties
<1>3. SUFFICES ASSUME Target(m) \in DOMAIN disk PROVE FALSE
  OBVIOUS
<1>4. PICK n \in mounts : Target(m) \in done[n]
  BY <1>1, <1>2, <1>3, CleanEntry
<1>5. n # m /\ IsPrefix(n, Target(m))
  BY <1>1, <1>2, <1>4 DEF WorkInv, Entries, Walk
<1>6. Inner(Target(m))
  BY <1>2, <1>5 DEF Inner
<1> QED
  BY <1>2, <1>6 DEF Harmless

LEMMA HarmlessStep ==
    ASSUME TreeInv, NEW m \in mounts, Extract(m)
    PROVE  HarmlessInv'
<1> DEFINE t == Target(m)
<1>1. GivenInv /\ WorkInv /\ DiskInv /\ LinkInv /\ WayInv /\ CleanInv /\ HarmlessInv
  BY DEF TreeInv
<1>2. /\ mounts' = mounts /\ Empty(found)' = Empty(found) /\ Harmless' = Harmless
      /\ \A n \in mounts : n # m => pc'[n] = pc[n]
  BY <1>1, WorkerStep, GivenStays DEF given
<1>3. SUFFICES ASSUME Empty(found), Harmless PROVE pc'[m] \notin {"remove", "failed"}
  BY <1>1, <1>2 DEF HarmlessInv
<1>4. NoLinksFound /\ pc[m] \notin {"remove", "failed"}
  BY <1>1, <1>3 DEF Empty, NoLinksFound, HarmlessInv
<1>5. CASE Rest(m) = {}
  BY <1>1, <1>5, EndStep
<1>6. CASE Rest(m) # {}
  <2>1. /\ t \in DOMAIN tree /\ t \in Archived /\ t \in Seq(Name) /\ t # <<>>
        /\ Header(m) = tree[t]
    BY <1>1, <1>6, TargetProperties
  <2> HIDE DEF t
  <2>2. /\ Len(t) \in Nat \ {0} /\ Len(t) - 1 \in 0..Len(t)
        /\ Parent(t) = SubSeq(t, 1, Len(t) - 1) /\ Parent(t) \in Seq(Name)
        /\ Len(Parent(t)) = Len(t) - 1 /\ SubSeq(t, 1, Len(t)) = t
    BY <2>1, ParentProperties, SubSeqFull
  <2>3. /\ Links(Parent(t)) = {} /\ Real(Parent(t)) = Parent(t) /\ Place(t) = t
        /\ Header(m).kind # "link" => Links(t) = {} /\ Real(t) = t
    BY <1>1, <1>4, <2>1, NoLinksOnTheWay
  <2>4. \A k \in 1..Len(t) - 1 :
          SubSeq(t, 1, k) \in DOMAIN disk => disk[SubSeq(t, 1, k)].kind = "dir"
    BY <1>1, <1>3, <2>1, CleanDir, TreeProperties DEF IsTree
  <2>5. CanMkdirAll(Parent(t))
    <3>1. \A k \in 1..Len(t) - 1 : SubSeq(Parent(t), 1, k) = SubSeq(t, 1, k)
      <4>1. \A k \in 1..Len(t) - 1 : k \in 0..Len(t) - 1
        BY <2>2
      <4> QED
        BY <2>1, <2>2, <4>1, PartOfPart
    <3>2. \A k \in 1..Len(Parent(t)) :
            SubSeq(Parent(t), 1, k) \in DOMAIN disk => disk[SubSeq(Parent(t), 1, k)].kind = "dir"
      BY <2>2, <2>4, <3>1
    <3> QED
      BY <1>3, <2>2, <2>3, <3>2, CanMkdirAllClean
  <2>6. ASSUME Header(m).kind = "dir" PROVE CanMkdirAll(t)
    <3>1. \A k \in 1..Len(t) : k \in 1..Len(t) - 1 \/ k = Len(t)
      <4>1. Len(t) \in Nat
        BY <2>2
      <4> QED
        BY <4>1
    <3>2. t \in DOMAIN disk => disk[t].kind = "dir"
      BY <1>1, <1>3, <2>1, <2>6, CleanDir
    <3>3. \A k \in 1..Len(t) :
            SubSeq(t, 1, k) \in DOMAIN disk => disk[SubSeq(t, 1, k)].kind = "dir"
      BY <2>2, <2>4, <3>1, <3>2
    <3> QED
      BY <1>3, <2>1, <2>3, <2>6, <3>3, CanMkdirAllClean
  <2>7. ASSUME pc[m] \in AtEntry PROVE MayChange(Parent(t))
    <3>1. Parent(t) # <<>> => Parent(t) \in DOMAIN disk /\ disk[Parent(t)].kind = "dir"
      <4>1. Parent(t) # <<>> => Len(t) - 1 \in 1..Len(t) - 1
        BY <2>2, EmptySeq
      <4> QED
        BY <1>1, <1>4, <2>2, <2>7, <4>1 DEF WayInv, t
    <3>2. IsDir(Parent(t))
      BY <2>3, <3>1 DEF IsDir
    <3> QED
      BY <1>3, <2>2, <2>3, <3>2, MayChangeClean
  <2>8. ASSUME Header(m).kind \in {"file", "pipe"}, t \in DOMAIN disk
        PROVE  disk[t].kind = "file" /\ (root \/ disk[t].write)
    <3>1. disk[t] = Fresh(t)
      BY <1>1, <1>3, <2>1, <2>8, CleanEntry
    <3>2. disk[t] = RegularFile(tree[t].write, tree[t].data)
      BY <1>1, <2>1, <2>8, <3>1, NodeProperties
    <3>3. root \/ tree[t].write
      BY <1>3, <2>1 DEF Harmless
    <3> QED
      BY <3>2, <3>3 DEF RegularFile
  <2>9. Header(m).kind = "link" => t \notin DOMAIN disk
    BY <1>3, <1>6, CleanLink DEF t
  <2>10. t \notin {<<>>, NoPath}
    BY <2>1, NoPathIsNoPath
  <2>11. DOMAIN pc = mounts /\ (pc[m] \in AtEntry => (pc[m] = "make" <=> Header(m).kind # "link"))
    BY <1>1 DEF WorkInv
  <2>12. CASE EnsureParent(m)
    BY <2>5, <2>11, <2>12 DEF EnsureParent, Goto, t
  <2>13. CASE ExtractDir(m)
    BY <2>6, <2>11, <2>13 DEF ExtractDir, Extracted, Goto, t
  <2>14. CASE ExtractRegular(m)
    <3>1. Header(m).kind \in {"file", "pipe"} /\ pc[m] = "make" /\ Real(t) = t
      BY <2>3, <2>14 DEF ExtractRegular
    <3>2. MayChange(Parent(t))
      BY <2>7, <3>1 DEF AtEntry
    <3>3. Extracted(m)
      BY <2>8, <2>10, <2>14, <3>1, <3>2 DEF ExtractRegular, t
    <3> QED
      BY <2>11, <3>3 DEF Extracted, Goto
  <2>15. CASE Lstat(m)
    <3>1. Header(m).kind = "link"
      BY <2>11, <2>15 DEF Lstat, AtEntry
    <3> QED
      BY <2>3, <2>9, <2>11, <2>15, <3>1 DEF Lstat, Goto, t
  <2>16. CASE Symlink(m)
    <3>1. Header(m).kind = "link" /\ MayChange(Parent(t))
      BY <2>7, <2>11, <2>16 DEF Symlink, AtEntry
    <3>2. Extracted(m)
      BY <2>3, <2>9, <2>16, <3>1 DEF Symlink, t
    <3> QED
      BY <2>11, <3>2 DEF Extracted, Goto
  <2>17. CASE RemoveOld(m) \/ ExtractEnds(m)
    BY <1>4, <1>6, <2>17 DEF RemoveOld, ExtractEnds
  <2> QED
    BY <2>12, <2>13, <2>14, <2>15, <2>16, <2>17 DEF Extract
<1> QED
  BY <1>5, <1>6

-----------------------------------------------------------------------------
(* The invariant. *)

LEMMA TreeInitially == TreeInit => TreeInv
<1>1. SUFFICES ASSUME TreeInit PROVE TreeInv
  OBVIOUS
<1>2. /\ found \in Disks /\ disk = found /\ DOMAIN pc = mounts /\ DOMAIN done = mounts
      /\ \A m \in mounts : /\ pc[m] = IF CreateFails(m) THEN "failed" ELSE "next"
                           /\ done[m] = {}
  BY <1>1 DEF TreeInit
<1>3. GivenInv
  BY <1>1 DEF TreeInit, GivenInv
<1>4. WorkInv
  BY <1>2 DEF WorkInv, AtEntry
<1>5. DiskInv
  BY <1>2, DisksAssumption DEF DiskInv, DisksAssumption
<1>6. LinkInv /\ CleanInv
  BY <1>2 DEF LinkInv, CleanInv, NoLinksFound, Empty
<1>7. WayInv /\ StandInv
  BY <1>2 DEF WayInv, StandInv, AtEntry
<1>8. HarmlessInv
  BY <1>2 DEF HarmlessInv, Harmless
<1> QED
  BY <1>3, <1>4, <1>5, <1>6, <1>7, <1>8 DEF TreeInv

LEMMA TreeStands ==
    ASSUME TreeInv, UNCHANGED treeVars
    PROVE  TreeInv'
<1>1. UNCHANGED given /\ disk' = disk /\ pc' = pc /\ done' = done /\ mounts' = mounts
      /\ tree' = tree
  BY DEF treeVars, given
<1>2. /\ GivenInv => GivenInv'
      /\ NoLinksFound' = NoLinksFound /\ Empty(found)' = Empty(found) /\ Harmless' = Harmless
      /\ \A m : Entries(m)' = Entries(m) /\ CreateFails(m)' = CreateFails(m)
      /\ \A p : Fresh(p)' = Fresh(p) /\ AboveMount(p)' = AboveMount(p)
  BY <1>1, GivenStays
<1>3. \A m : Rest(m)' = Rest(m) /\ Target(m)' = Target(m) /\ Header(m)' = Header(m)
  BY <1>1, TargetStays
<1>4. GivenInv' /\ WorkInv' /\ DiskInv' /\ LinkInv'
  BY <1>1, <1>2, <1>3 DEF TreeInv, WorkInv, DiskInv, LinkInv
<1>5. WayInv'
  BY <1>1, <1>2, <1>3 DEF TreeInv, WayInv
<1>6. StandInv'
  BY <1>1, <1>2, <1>3 DEF TreeInv, StandInv, Stands
<1>7. CleanInv' /\ HarmlessInv'
  BY <1>1, <1>2 DEF TreeInv, CleanInv, HarmlessInv
<1> QED
  BY <1>4, <1>5, <1>6, <1>7 DEF TreeInv

LEMMA TreeInvStep ==
    ASSUME TreeInv, [TreeNext]_treeVars
    PROVE  TreeInv'
<1>1. CASE UNCHANGED treeVars
  BY <1>1, TreeStands
<1>2. ASSUME NEW m \in mounts, Extract(m) PROVE TreeInv'
  <2>1. GivenInv' /\ WorkInv' /\ DiskInv' /\ LinkInv'
    BY <1>2, WorkStep, DiskStep, LinkStep
  <2>2. WayInv' /\ StandInv' /\ CleanInv' /\ HarmlessInv'
    BY <1>2, WayStep, StandStep, CleanStep, HarmlessStep
  <2> QED
    BY <2>1, <2>2 DEF TreeInv
<1> QED
  BY <1>1, <1>2 DEF TreeNext

(* However the workers interleave, whatever the tree that was archived and the
   disk that is found: the workers are where their entries take them, and the
   disk is what TreeInv says of it (tar.go:163-288). *)
THEOREM TreeInvariance == TreeSpec => []TreeInv
<1>1. TreeInv /\ [TreeNext]_treeVars => TreeInv'
  BY TreeInvStep
<1> QED
  BY TreeInitially, <1>1, PTL DEF TreeSpec

-----------------------------------------------------------------------------
(* The properties. *)

LEMMA TreeTypeHolds == TreeInv => TreeTypeOK
<1>1. SUFFICES ASSUME TreeInv PROVE TreeTypeOK
  OBVIOUS
<1>2. WorkInv /\ DiskInv
  BY <1>1 DEF TreeInv
<1>3. ASSUME NEW p \in DOMAIN disk
      PROVE  /\ disk[p].kind \in {"dir", "file", "link"} /\ disk[p].write \in BOOLEAN
             /\ disk[p].kind = "file" => Len(disk[p].data) <= MaxBlocks
  <2>1. disk[p] \in DirNode \cup FileNode \cup LinkNode
    BY <1>2 DEF DiskInv
  <2>2. disk[p].kind \in {"dir", "file", "link"} /\ disk[p].write \in BOOLEAN
    BY <2>1 DEF DirNode, FileNode, LinkNode
  <2> QED
    BY <1>2, <2>2, FileDataProperties
<1>4. ASSUME NEW p \in DOMAIN disk, Parent(p) # <<>>
      PROVE  Parent(p) \in DOMAIN disk /\ disk[Parent(p)].kind = "dir"
  <2>1. p \in Seq(Name) /\ p # <<>>
    BY <1>2 DEF DiskInv, IsTree, Path
  <2>2. /\ Len(p) \in Nat \ {0} /\ Parent(p) = SubSeq(p, 1, Len(p) - 1)
        /\ Parent(p) \in Seq(Name) /\ Len(Parent(p)) = Len(p) - 1
    BY <2>1, ParentProperties
  <2>3. Len(p) - 1 # 0
    BY <1>4, <2>2, EmptySeq
  <2>4. Len(p) - 1 \in 1..Len(p) - 1
    BY <2>2, <2>3
  <2> QED
    BY <1>2, <2>2, <2>4 DEF DiskInv, IsTree
<1> QED
  BY <1>2, <1>3, <1>4 DEF TreeTypeOK, WorkInv, AtEntry

(* The disk stays a tree of directories with files and links in them, in which
   a file is no longer than the longest (tar.go:233-288). *)
THEOREM TreeTypeCorrect == TreeSpec => []TreeTypeOK
  BY TreeInvariance, TreeTypeHolds, PTL

(* When all workers have ended well, every entry is there, and no worker is left
   to make a link again. *)
LEMMA AllOkStands ==
    ASSUME TreeInv, AllOk
    PROVE  /\ \A p \in Archived : \E m \in mounts : p \in done[m]
           /\ NoLinksFound => \A p \in Archived : Stands(p)
<1>1. WorkInv /\ StandInv
  BY DEF TreeInv
<1>2. \A m \in mounts : pc[m] = "ok" /\ Rest(m) = {}
  BY <1>1 DEF AllOk, WorkInv
<1>3. \A m \in mounts : Entries(m) \subseteq done[m]
  BY <1>2 DEF Rest
<1>4. \A p \in Archived : \E m \in mounts : p \in done[m]
  BY <1>3 DEF Archived
<1> QED
  BY <1>1, <1>2, <1>4 DEF StandInv

(* What a restore that succeeds has archived is there, whatever was there before,
   unless links were: a worker that removes a link that another one has made
   makes it again, or fails (tar.go:242-262). *)
THEOREM ArchivedIsThereAlways == TreeSpec => []ArchivedIsThere
<1>1. TreeInv => ArchivedIsThere
  BY AllOkStands DEF ArchivedIsThere, Stands
<1> QED
  BY <1>1, TreeInvariance, PTL

(* On an empty disk a restore that succeeds gives the tree back, and nothing
   else but directories around mounts (tar.go:193, 234, 242). *)
THEOREM TreesComeBackAlways == TreeSpec => []TreesComeBack
<1>1. ASSUME TreeInv, AllOk, Empty(found)
      PROVE  /\ \A p \in Archived :
                  /\ p \in DOMAIN disk
                  /\ disk[p] = Fresh(p) \/ (AboveMount(p) /\ disk[p] = Dir(TRUE))
             /\ \A p \in DOMAIN disk \ Archived : AboveMount(p) /\ disk[p] = Dir(TRUE)
  <2>1. WorkInv /\ CleanInv
    BY <1>1 DEF TreeInv
  <2>2. NoLinksFound
    BY <1>1 DEF NoLinksFound, Empty
  <2>3. \A p \in Archived : p \in DOMAIN disk
    BY <1>1, <2>2, AllOkStands DEF Stands
  <2>4. \A m \in mounts : done[m] \subseteq Archived
    BY <2>1 DEF WorkInv, Archived
  <2> QED
    BY <1>1, <2>1, <2>3, <2>4 DEF CleanInv
<1>2. TreeInv => TreesComeBack
  BY <1>1 DEF TreesComeBack
<1> QED
  BY <1>2, TreeInvariance, PTL

(* On an empty disk no extraction fails but for a mode or for a link that two
   workers make (restorer.go:51, tar.go:199, 258-262). *)
THEOREM FreshRestoresSucceedAlways == TreeSpec => []FreshRestoresSucceed
<1>1. TreeInv => FreshRestoresSucceed
  BY DEF TreeInv, HarmlessInv, FreshRestoresSucceed
<1> QED
  BY <1>1, TreeInvariance, PTL

(* A restore removes and changes nothing that was not archived, and no file gets
   shorter (tar.go:242, 281-287). *)
THEOREM KeepsTheRestAlways == TreeSpec => KeepsTheRest
<1> DEFINE Kept == \A p \in DOMAIN disk :
        /\ p \notin Archived => p \in DOMAIN disk' /\ disk'[p] = disk[p]
        /\ disk[p].kind = "file" /\ p \in DOMAIN disk' /\ disk'[p].kind = "file"
            => Len(disk'[p].data) >= Len(disk[p].data)
<1>1. ASSUME TreeInv, NoLinksFound, NEW m \in mounts, Extract(m) PROVE disk' = disk \/ Kept
  <2>1. GivenInv /\ WorkInv /\ DiskInv
    BY <1>1 DEF TreeInv
  <2>2. CASE Rest(m) = {}
    BY <1>1, <2>1, <2>2, EndStep
  <2>3. CASE Rest(m) # {}
    <3>1. Untouched(m) /\ Changed(m)
      BY <1>1, <2>3, StepEffect
    <3>2. /\ Target(m) \in Archived /\ Target(m) \in DOMAIN tree
          /\ Header(m) = tree[Target(m)]
      BY <2>1, <2>3, TargetProperties
    <3>3. Header(m).kind \in {"file", "pipe"} => Header(m).data \in Seq(Seq(Name))
      BY <2>1, <3>2, NodeProperties
    <3>4. ASSUME NEW p \in DOMAIN disk, p \notin Archived
          PROVE  p \in DOMAIN disk' /\ disk'[p] = disk[p]
      BY <3>1, <3>2, <3>4 DEF Untouched
    <3>5. ASSUME NEW p \in DOMAIN disk, disk[p].kind = "file", p \in DOMAIN disk'
          PROVE  Len(disk'[p].data) >= Len(disk[p].data)
      <4>1. CASE disk'[p] = disk[p]
        BY <2>1, <3>5, <4>1, FileDataProperties
      <4>2. CASE disk'[p] # disk[p]
        <5>1. p = Target(m)
          BY <3>1, <4>2 DEF Untouched
        <5>2. /\ Header(m).kind \in {"file", "pipe"}
              /\ disk'[p] = [disk[p] EXCEPT !.data = Overwritten(Header(m).data, @)]
          BY <3>1, <3>5, <4>2, <5>1 DEF Changed
        <5> QED
          BY <2>1, <3>3, <3>5, <5>2, OverwrittenFile
      <4> QED
        BY <4>1, <4>2
    <3> QED
      BY <3>4, <3>5
  <2> QED
    BY <2>2, <2>3
<1>2. TreeInv /\ [TreeNext]_treeVars => [NoLinksFound => Kept]_disk
  BY <1>1 DEF TreeNext, treeVars
<1> QED
  BY <1>2, TreeInvariance, PTL DEF TreeSpec, KeepsTheRest

=============================================================================
