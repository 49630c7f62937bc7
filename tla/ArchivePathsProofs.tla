------------------------- MODULE ArchivePathsProofs --------------------------
(***************************************************************************)
(* That the files of a mount come back to their places, for any working    *)
(* directories, mounts and files: what the functions of ArchivePaths       *)
(* return, and the way of a file from the disk to the disk.                *)
(***************************************************************************)
EXTENDS ArchivePaths, FilePathProofs

-----------------------------------------------------------------------------
(* Names. *)

(* What two rows begin with in common: the names they share, and no fewer. *)
Agree(a, b, n) == n <= Len(a) /\ n <= Len(b) /\ \A i \in 1..n : a[i] = b[i]

LEMMA CommonPrefix ==
    ASSUME NEW a \in Seq(Element), NEW b \in Seq(Element), NEW x \in CommonPrefixes({a, b})
    PROVE  x \in Seq(Element) /\ Len(x) \in Nat /\ Agree(a, b, Len(x))
<1>1. (x \in Prefixes(a) \/ x \in Prefixes(b)) /\ IsPrefix(x, a) /\ IsPrefix(x, b)
  BY DEF CommonPrefixes
<1>2. ASSUME NEW s \in Seq(Element), NEW l \in 0..Len(s)
      PROVE  SubSeq(s, 1, l) \in Seq(Element)
  BY <1>2
<1>3. x \in Seq(Element)
  BY <1>1, <1>2 DEF Prefixes
<1>4. SubSeq(x, 1, Len(x)) = x /\ Len(x) \in Nat
  BY <1>3, SubSeqFull
<1>5. /\ Len(x) <= Len(a) /\ Len(x) <= Len(b)
      /\ x = SubSeq(a, 1, Len(x)) /\ x = SubSeq(b, 1, Len(x))
  BY <1>1, <1>4 DEF IsPrefix
<1>6. ASSUME NEW s \in Seq(Element), Len(x) <= Len(s), x = SubSeq(s, 1, Len(x)), NEW i \in 1..Len(x)
      PROVE  x[i] = s[i]
  <2>1. SubSeq(s, 1, Len(x))[i] = s[i]
    BY <1>4, <1>6
  <2> QED
    BY <1>6, <2>1
<1>7. \A i \in 1..Len(x) : x[i] = a[i] /\ x[i] = b[i]
  BY <1>5, <1>6
<1> QED
  BY <1>3, <1>4, <1>5, <1>7 DEF Agree

LEMMA AgreementIsCommon ==
    ASSUME NEW a \in Seq(Element), NEW b \in Seq(Element), NEW n \in Nat, Agree(a, b, n)
    PROVE  SubSeq(a, 1, n) \in CommonPrefixes({a, b}) /\ Len(SubSeq(a, 1, n)) = n
<1> DEFINE x == SubSeq(a, 1, n)
           y == SubSeq(b, 1, n)
<1>1. /\ Len(a) \in Nat /\ n <= Len(a) /\ n <= Len(b) /\ \A i \in 1..n : a[i] = b[i]
  BY LenProperties DEF Agree
<1>2. x \in Seq(Element) /\ Len(x) = n /\ \A i \in 1..n : x[i] = a[i]
  BY <1>1
<1>3. y \in Seq(Element) /\ Len(y) = n /\ \A i \in 1..n : y[i] = b[i]
  BY <1>1
<1> HIDE DEF x, y
<1>4. x = y
  <2>1. \A i \in 1..Len(x) : x[i] = y[i]
    BY <1>1, <1>2, <1>3
  <2> QED
    BY <1>2, <1>3, <2>1, SeqEqual
<1>5. SubSeq(x, 1, Len(x)) = x
  BY <1>2, SubSeqFull
<1>6. IsPrefix(x, a) /\ IsPrefix(x, b)
  BY <1>1, <1>2, <1>4, <1>5 DEF IsPrefix, x, y
<1>7. x \in Prefixes(a)
  <2>1. n \in 0..Len(a)
    BY <1>1
  <2> QED
    BY <2>1 DEF Prefixes, x
<1>8. x \in CommonPrefixes({a, b})
  BY <1>6, <1>7 DEF CommonPrefixes
<1> QED
  BY <1>2, <1>8 DEF x

LEMMA SharedProperties ==
    ASSUME NEW a \in Seq(Element), NEW b \in Seq(Element)
    PROVE  LET c == Len(LongestCommonPrefix({a, b}))
           IN  /\ c \in Nat /\ Agree(a, b, c)
               /\ \A n \in Nat : Agree(a, b, n) => n <= c
<1> DEFINE C == CommonPrefixes({a, b})
           T == {Len(a) - Len(x) : x \in C}
           longest == LongestCommonPrefix({a, b})
<1>1. \A x \in C : x \in Seq(Element) /\ Len(x) \in Nat /\ Agree(a, b, Len(x))
  BY CommonPrefix
<1>2. \A n \in Nat : Agree(a, b, n) => \E x \in C : Len(x) = n
  BY AgreementIsCommon
<1>3. longest = CHOOSE l \in C : \A o \in C : Len(o) <= Len(l)
  BY DEF LongestCommonPrefix
<1> HIDE DEF C, longest
<1>4. T \in SUBSET Nat /\ T # {}
  <2>1. \A x \in C : Len(a) - Len(x) \in Nat
    BY <1>1 DEF Agree
  <2>2. Agree(a, b, 0)
    BY DEF Agree
  <2>3. C # {}
    BY <1>2, <2>2
  <2> QED
    BY <2>1, <2>3
<1>5. PICK m \in T : \A y \in T : m <= y
  <2> HIDE DEF T
  <2> QED
    BY <1>4, LeastNatural
<1>6. PICK l \in C : m = Len(a) - Len(l)
  OBVIOUS
<1>7. ASSUME NEW o \in C PROVE Len(o) <= Len(l)
  <2>1. Len(a) - Len(l) <= Len(a) - Len(o)
    BY <1>5, <1>6
  <2>2. Len(a) \in Nat /\ Len(l) \in Nat /\ Len(o) \in Nat
    BY <1>1, <1>6
  <2> QED
    BY <2>1, <2>2
<1>8. longest \in C /\ \A o \in C : Len(o) <= Len(longest)
  BY <1>3, <1>6, <1>7
<1>9. /\ Len(longest) \in Nat /\ Agree(a, b, Len(longest))
      /\ \A n \in Nat : Agree(a, b, n) => n <= Len(longest)
  <2> HIDE DEF T
  <2> QED
    BY <1>1, <1>2, <1>8
<1> QED
  BY <1>9 DEF longest

(* Two rows of which one begins with the other. *)
LEMMA SharedWithPrefix ==
    ASSUME NEW a \in Seq(Element), NEW t \in Seq(Element)
    PROVE  Len(LongestCommonPrefix({a, a \o t})) = Len(a)
<1> DEFINE b == a \o t
           c == Len(LongestCommonPrefix({a, b}))
<1>1. /\ b \in Seq(Element) /\ Len(b) = Len(a) + Len(t) /\ Len(a) \in Nat /\ Len(t) \in Nat
      /\ \A i \in 1..Len(a) + Len(t) : b[i] = IF i <= Len(a) THEN a[i] ELSE t[i - Len(a)]
  BY ConcatProperties, LenProperties
<1> HIDE DEF b
<1>2. Agree(a, b, Len(a))
  BY <1>1 DEF Agree
<1>3. c \in Nat /\ Agree(a, b, c) /\ Len(a) <= c
  BY <1>1, <1>2, SharedProperties
<1>4. c = Len(a)
  <2> HIDE DEF c
  <2> QED
    BY <1>1, <1>3 DEF Agree
<1> QED
  BY <1>4 DEF b

(* Plain rows have no ".." that would be dropped. *)
LEMMA PlainIsKept ==
    ASSUME NEW s \in Seq(Element), Plain(s)
    PROVE  StripUps(s) = s
<1>1. CASE s = <<>>
  BY <1>1 DEF StripUps
<1>2. CASE s # <<>>
  <2> DEFINE last == Len(s)
             Kept(k) == /\ \A j \in 1..(k - 1) : s[j] = ".."
                        /\ k = last \/ s[k] # ".."
  <2>1. last \in Nat \ {0} /\ s[1] # ".."
    BY <1>2 DEF Plain
  <2>2. 1 \in 1..last /\ Kept(1)
    BY <2>1
  <2>3. \A k \in 1..last : Kept(k) => k = 1
    BY <2>1
  <2>4. (CHOOSE k \in 1..last : Kept(k)) = 1
    <3> HIDE DEF Kept
    <3> QED
      BY <2>2, <2>3
  <2>5. SubSeq(s, 1, last) = s
    BY SubSeqFull
  <2> QED
    BY <1>2, <2>4, <2>5 DEF StripUps
<1> QED
  BY <1>1, <1>2

(* The name of something below the directory p is the way to it. *)
LEMMA NameBelow ==
    ASSUME NEW p \in Path, NEW s \in Seq(Element), s # <<>>, Plain(s)
    PROVE  RelativeNames(p, [abs |-> p.abs, elems |-> p.elems \o s]) = {Relative(s)}
<1> DEFINE a == p.elems
           f == Front(s)
           path == [abs |-> p.abs, elems |-> a \o s]
<1>1. /\ a \in Seq(Element) /\ p.abs \in BOOLEAN /\ Len(a) \in Nat
      /\ Len(s) \in Nat \ {0} /\ f \in Seq(Element) /\ Len(f) = Len(s) - 1
      /\ \A i \in 1..Len(s) - 1 : f[i] = s[i]
      /\ Last(s) = s[Len(s)] /\ Last(s) \in Element /\ f \o <<Last(s)>> = s
  <2>1. a \in Seq(Element) /\ p.abs \in BOOLEAN
    BY DEF Path
  <2>2. Len(a) \in Nat
    <3> HIDE DEF a
    <3> QED
      BY <2>1
  <2>3. /\ Len(s) \in Nat \ {0} /\ f \in Seq(Element) /\ Len(f) = Len(s) - 1
        /\ \A i \in 1..Len(s) - 1 : f[i] = s[i]
        /\ Last(s) = s[Len(s)] /\ Last(s) \in Element /\ f \o <<Last(s)>> = s
    BY FrontAndLast
  <2> QED
    BY <2>1, <2>2, <2>3
<1>2. Plain(f)
  BY <1>1 DEF Plain
<1> HIDE DEF a, f
<1>3. /\ Dir(path) = [abs |-> p.abs, elems |-> a \o f]
      /\ Base(path) = Relative(<<Last(s)>>)
  <2> DEFINE e == a \o s
  <2>1. e \in Seq(Element) /\ e # <<>> /\ Front(e) = a \o f /\ Last(e) = Last(s)
    BY <1>1, FrontOfConcat DEF f
  <2>2. path.elems = e /\ path = [abs |-> p.abs, elems |-> e]
    OBVIOUS
  <2>3. [path EXCEPT !.elems = Front(e)] = [abs |-> p.abs, elems |-> Front(e)]
    <3> DEFINE g == Front(e)
    <3> HIDE DEF e, g
    <3> QED
      OBVIOUS
  <2>4. Dir(path) = [path EXCEPT !.elems = Front(e)]
    <3> HIDE DEF e, path
    <3> QED
      BY <2>1, <2>2 DEF Dir
  <2>5. Base(path) = Relative(<<Last(e)>>)
    <3> HIDE DEF e, path
    <3> QED
      BY <2>1, <2>2 DEF Base
  <2> HIDE DEF e, path
  <2> QED
    BY <2>1, <2>3, <2>4, <2>5
<1>4. Dir(path).elems = a \o f /\ Dir(path).abs = p.abs
  <2> HIDE DEF path
  <2> QED
    BY <1>3
<1>5. Shared(p, Dir(path)) = Len(a)
  <2>1. Dir(path).elems = a \o f
    BY <1>4
  <2> HIDE DEF path
  <2> QED
    BY <1>1, <2>1, SharedWithPrefix DEF Shared, a
<1>6. ~RelFails(p, Dir(path))
  <2> DEFINE d == Dir(path)
             n == Shared(p, d)
  <2>1. d.abs = p.abs /\ n = Len(p.elems) /\ Len(p.elems) \in Nat
    BY <1>1, <1>4, <1>5 DEF a
  <2>2. ~(n < Len(p.elems))
    <3> HIDE DEF n
    <3> QED
      BY <2>1
  <2> HIDE DEF path
  <2> QED
    BY <2>1, <2>2 DEF RelFails
<1>7. RelElems(p, Dir(path)) = {f}
  <2> DEFINE targ == Dir(path)
             up   == Ups(Len(p.elems) - Shared(p, targ))
             down == SubSeq(targ.elems, Shared(p, targ) + 1, Len(targ.elems))
  <2>1. up = <<>>
    <3> DEFINE n == Len(p.elems) - Shared(p, targ)
    <3>1. n = 0
      BY <1>1, <1>5 DEF a
    <3>2. up = [k \in 1..n |-> ".."]
      BY DEF Ups
    <3> HIDE DEF n, up
    <3>3. up \in Seq(Element) /\ Len(up) = 0
      BY <3>1, <3>2
    <3> QED
      BY <3>3
  <2>2. down = f
    <3>1. SubSeq(a \o f, Len(a) + 1, Len(a \o f)) = f
      BY <1>1, RestOfConcat
    <3> QED
      BY <1>4, <1>5, <3>1
  <2>3. up \o down = f
    BY <1>1, <2>1, <2>2, ConcatEmptySeq
  <2> HIDE DEF targ, up, down
  <2>4. RelElems(p, targ) = IF targ = Relative(<<>>) /\ up # <<>> THEN {up, Append(up, ".")}
                            ELSE {up \o down}
    BY DEF RelElems, up, down
  <2> QED
    BY <2>1, <2>3, <2>4 DEF targ
<1>8. StripUps(f) = f
  BY <1>1, <1>2, PlainIsKept
<1>9. Clean(Relative(f)) = Relative(f)
  BY <1>1, <1>2, CleanPlain
<1>10. Join(Relative(f), Base(path)) = Relative(s)
  <2> DEFINE l == <<Last(s)>>
  <2>1. l \in Seq(Element) /\ Plain(l) /\ f \o l = s
    BY <1>1 DEF Plain
  <2> HIDE DEF l
  <2>2. Join(Relative(f), Relative(l)) = Relative(f \o l)
    BY <1>1, <2>1, JoinRelative
  <2> QED
    BY <1>3, <2>1, <2>2 DEF l
<1> HIDE DEF path
<1>11. RelativeNames(p, path) = {Relative(s)}
  BY <1>6, <1>7, <1>8, <1>9, <1>10 DEF RelativeNames
<1> QED
  BY <1>11 DEF path, a

-----------------------------------------------------------------------------
(* Mounts below the working directory. *)

LEMMA PlainConcat ==
    ASSUME NEW s \in Seq(Element), NEW t \in Seq(Element), Plain(s), Plain(t)
    PROVE  s \o t \in Seq(Element) /\ Plain(s \o t)
<1> DEFINE c == s \o t
<1>1. /\ c \in Seq(Element) /\ Len(c) = Len(s) + Len(t) /\ Len(s) \in Nat /\ Len(t) \in Nat
      /\ \A i \in 1..Len(s) + Len(t) : c[i] = IF i <= Len(s) THEN s[i] ELSE t[i - Len(s)]
  BY ConcatProperties, LenProperties
<1> HIDE DEF c
<1>2. ASSUME NEW k \in 1..Len(c) PROVE c[k] # "." /\ c[k] # ".."
  <2>1. k <= Len(s) => k \in 1..Len(s)
    BY <1>1
  <2>2. ~(k <= Len(s)) => k - Len(s) \in 1..Len(t)
    BY <1>1
  <2> QED
    BY <1>1, <2>1, <2>2 DEF Plain
<1> QED
  BY <1>1, <1>2 DEF Plain, c

(* A clean relative path that does not begin with "..": none of it is. *)
LEMMA CleanIsPlain ==
    ASSUME NEW m \in MountPaths, m.elems[1] # "..", ~m.abs
    PROVE  /\ m \in Path /\ m.elems \in Seq(Element) /\ Plain(m.elems)
           /\ m = Relative(m.elems)
<1>1. m \in Path /\ IsClean(m)
  BY MountPathsAssumption
<1>2. m.elems \in Seq(Element) /\ m = Relative(m.elems)
  BY <1>1 DEF Path, Relative
<1>3. ASSUME NEW k \in 1..Len(m.elems) PROVE m.elems[k] # "." /\ m.elems[k] # ".."
  <2> DEFINE e == m.elems
  <2>1. e \in Seq(Element)
    BY <1>2
  <2>2. e[k] # "." /\ (e[k] = ".." => \A j \in 1..k : e[j] = "..")
    BY <1>1 DEF IsClean
  <2>3. 1 \in 1..k
    <3> HIDE DEF e
    <3> QED
      BY <2>1
  <2> QED
    BY <2>2, <2>3
<1> QED
  BY <1>1, <1>2, <1>3 DEF Plain

(* The way from a directory to a file of a mount: to the mount, then to the file. *)
LEMMA WayDown ==
    ASSUME NEW d \in Path, NEW m \in Seq(Element), NEW f \in Seq(Element), Plain(m), Plain(f)
    PROVE  /\ Join(Abs(d, Relative(m)), Relative(f)) = [abs |-> d.abs, elems |-> d.elems \o (m \o f)]
           /\ Abs(d, Relative(m \o f)) = [abs |-> d.abs, elems |-> d.elems \o (m \o f)]
<1> DEFINE M == Relative(m)
           F == Relative(f)
           e == d.elems
           E == e \o m
           D == [abs |-> d.abs, elems |-> E]
<1>1. /\ M \in Path /\ M.elems = m /\ ~M.abs
      /\ F \in Path /\ F.elems = f
      /\ e \in Seq(Element) /\ d.abs \in BOOLEAN
  BY DEF Relative, Path
<1> HIDE DEF M, F
<1>2. Abs(d, M) = D
  BY <1>1, JoinPlain DEF Abs
<1> HIDE DEF e
<1>3. E \in Seq(Element)
  BY <1>1, ConcatProperties
<1> HIDE DEF E
<1>4. D \in Path /\ D.elems = E /\ D.abs = d.abs
  BY <1>1, <1>3 DEF Path
<1> HIDE DEF D
<1>5. Join(D, F) = [abs |-> d.abs, elems |-> E \o f]
  BY <1>1, <1>4, JoinPlain
<1>6. E \o f = e \o (m \o f)
  BY <1>1, ConcatAssociative DEF E
<1> DEFINE w == m \o f
           W == Relative(w)
<1>7. w \in Seq(Element) /\ Plain(w)
  BY PlainConcat
<1> HIDE DEF w
<1>8. W \in Path /\ W.elems = w /\ ~W.abs
  BY <1>7 DEF Relative, Path
<1> HIDE DEF W
<1>9. Abs(d, W) = [abs |-> d.abs, elems |-> e \o w]
  BY <1>7, <1>8, JoinPlain DEF Abs, e
<1> QED
  BY <1>2, <1>5, <1>6, <1>9 DEF M, F, W, w, e

(* relative(mount, name) is the way from the mount to the file: joined to the
   mount it is the name again. *)
LEMMA TargetIsName ==
    ASSUME NEW m \in Seq(Element), NEW f \in Seq(Element), Plain(m), Plain(f)
    PROVE  Targets(Relative(m), Relative(m \o f)) = {Relative(m \o f)}
<1> DEFINE M == Relative(m)
           n == Relative(m \o f)
<1>1. CASE M = n
  BY <1>1 DEF Targets
<1>2. CASE M # n
  <2>1. f # <<>>
    BY <1>2, ConcatEmptySeq
  <2>2. M \in Path /\ M.elems = m /\ M.abs = FALSE
    BY DEF Relative, Path
  <2>3. n = [abs |-> M.abs, elems |-> M.elems \o f]
    BY <2>2 DEF Relative
  <2>4. RelativeNames(M, n) = {Relative(f)}
    <3> HIDE DEF M, n
    <3> QED
      BY <2>1, <2>2, <2>3, NameBelow
  <2>5. Join(M, Relative(f)) = n
    BY JoinRelative
  <2>6. Targets(M, n) = {Join(M, rel) : rel \in RelativeNames(M, n)}
    <3> HIDE DEF M, n
    <3> QED
      BY <1>2 DEF Targets
  <2> HIDE DEF M, n
  <2>7. Targets(M, n) = {n}
    BY <2>4, <2>5, <2>6
  <2> QED
    BY <2>7 DEF M, n
<1> QED
  BY <1>1, <1>2

-----------------------------------------------------------------------------
(* The names of the files of one mount. *)

LEMMA UpsProperties ==
    ASSUME NEW n \in Nat
    PROVE  /\ Ups(n) \in Seq(Element) /\ Len(Ups(n)) = n
           /\ \A k \in 1..n : Ups(n)[k] = ".."
  BY DEF Ups, Element

(* The loop takes every ".." away that a name follows. *)
LEMMA UpsAreDropped ==
    ASSUME NEW n \in Nat, NEW down \in Seq(Element), Plain(down), down # <<>>
    PROVE  StripUps(Ups(n) \o down) = down
<1> DEFINE S == Element
           u == Ups(n)
           e == u \o down
           last == Len(e)
           Kept(k) == /\ \A j \in 1..(k - 1) : e[j] = ".."
                      /\ k = last \/ e[k] # ".."
<1>1. u \in Seq(S) /\ Len(u) = n /\ \A k \in 1..n : u[k] = ".."
  BY UpsProperties
<1>2. Len(down) \in Nat \ {0} /\ down \in Seq(S) /\ \A k \in 1..Len(down) : down[k] # ".."
  BY DEF Plain
<1> HIDE DEF S, u
<1>3. /\ e \in Seq(S) /\ last = n + Len(down)
      /\ \A i \in 1..n + Len(down) : e[i] = IF i <= n THEN u[i] ELSE down[i - n]
  BY <1>1, <1>2, ConcatProperties
<1>4. Rest(e, n) = down
  BY <1>1, <1>2, RestOfConcat DEF Rest
<1> HIDE DEF e
<1>5. \A i \in 1..n : e[i] = ".."
  BY <1>1, <1>2, <1>3
<1>6. n + 1 \in 1..last /\ e[n + 1] # ".."
  <2>1. n + 1 \in 1..n + Len(down) /\ ~(n + 1 <= n) /\ (n + 1) - n = 1 /\ 1 \in 1..Len(down)
    BY <1>2
  <2>2. e[n + 1] = down[1]
    BY <1>3, <2>1
  <2> QED
    BY <1>2, <1>3, <2>1, <2>2
<1>7. Kept(n + 1)
  BY <1>5, <1>6
<1>8. ASSUME NEW k \in 1..last, Kept(k) PROVE k = n + 1
  <2>1. last \in Nat /\ n < last
    BY <1>2, <1>3
  <2>2. ~(k <= n)
    BY <1>5, <1>8, <2>1
  <2>3. ~(n + 1 <= k - 1)
    BY <1>6, <1>8
  <2> QED
    BY <2>1, <2>2, <2>3
<1>9. (CHOOSE k \in 1..last : Kept(k)) = n + 1
  <2> HIDE DEF Kept
  <2> QED
    BY <1>6, <1>7, <1>8
<1>10. e # <<>>
  BY <1>2, <1>3
<1>11. StripUps(e) = SubSeq(e, n + 1, last)
  BY <1>9, <1>10 DEF StripUps
<1> QED
  BY <1>4, <1>11 DEF e, u, Rest

(* It leaves one where nothing follows. *)
LEMMA OneUpIsKept ==
    ASSUME NEW n \in Nat \ {0}
    PROVE  /\ StripUps(Ups(n)) \in Seq(Element)
           /\ Len(StripUps(Ups(n))) = 1 /\ StripUps(Ups(n))[1] = ".."
<1> DEFINE u == Ups(n)
           last == Len(u)
           Kept(k) == /\ \A j \in 1..(k - 1) : u[j] = ".."
                      /\ k = last \/ u[k] # ".."
<1>1. u \in Seq(Element) /\ last = n /\ \A k \in 1..n : u[k] = ".."
  BY UpsProperties
<1> HIDE DEF u
<1>2. n \in 1..last /\ Kept(n)
  BY <1>1
<1>3. \A k \in 1..last : Kept(k) => k = n
  BY <1>1
<1>4. (CHOOSE k \in 1..last : Kept(k)) = n
  <2> HIDE DEF Kept
  <2> QED
    BY <1>2, <1>3
<1>5. StripUps(u) = SubSeq(u, n, n)
  <2>1. u # <<>>
    BY <1>1
  <2> QED
    BY <1>1, <1>4, <2>1 DEF StripUps
<1>6. /\ SubSeq(u, n, n) \in Seq(Element) /\ Len(SubSeq(u, n, n)) = 1
      /\ SubSeq(u, n, n)[1] = u[n]
  BY <1>1
<1> QED
  BY <1>1, <1>5, <1>6 DEF u

(* A name after a "..": it is not plain. *)
LEMMA UpAndName ==
    ASSUME NEW x \in Seq(Element), Len(x) = 1, x[1] = "..",
           NEW l \in Element, l # ".", l # ".."
    PROVE  LET n == Join(Clean(Relative(x)), Relative(<<l>>))
           IN  n.elems # <<>> /\ n.elems[1] = ".."
<1> DEFINE P == [abs : BOOLEAN, elems : Seq(Element)]
           zero == [Relative(x) EXCEPT !.elems = <<>>]
           y == Clean(Relative(x))
           L == Relative(<<l>>)
<1>1. /\ Relative(x) \in P /\ Relative(x).elems = x /\ ~Relative(x).abs
      /\ L.elems = <<l>> /\ Len(L.elems) = 1 /\ L.elems[1] = l
  BY DEF Relative
<1>2. ASSUME NEW r \in P, NEW none \in Seq(Element)
      PROVE  LET z == [r EXCEPT !.elems = none] IN z \in P /\ z.elems = none /\ z.abs = r.abs
  BY <1>2
<1>3. <<>> \in Seq(Element)
  BY EmptySeq
<1>4. zero \in P /\ zero.elems = <<>> /\ ~zero.abs
  BY <1>1, <1>2, <1>3
<1> HIDE DEF zero, L
<1>5. Join(zero, Relative(x)) = Resolve(zero, "..")
  <2> DEFINE q == Relative(x)
  <2>1. q.elems = x
    BY <1>1
  <2> HIDE DEF q
  <2>2. Join(zero, q) = Resolve(zero, q.elems[1])
    BY <2>1, JoinOne
  <2> QED
    BY <2>1, <2>2 DEF q
<1>6. y = [zero EXCEPT !.elems = Append(<<>>, "..")]
  <2>1. Resolve(zero, "..") = [zero EXCEPT !.elems = Append(zero.elems, "..")]
    BY <1>4 DEF Resolve
  <2> QED
    BY <1>4, <1>5, <2>1 DEF Clean, zero
<1> DEFINE u == Append(<<>>, "..")
<1>7. /\ u \in Seq(Element) /\ Len(u) = 1 /\ u[1] = ".."
  OBVIOUS
<1> HIDE DEF u, y
<1>8. y \in P /\ y.elems = u
  BY <1>2, <1>4, <1>6, <1>7 DEF u
<1>9. Join(y, L) = Resolve(y, l)
  <2>1. Join(y, L) = Resolve(y, L.elems[1])
    BY <1>1, JoinOne
  <2> QED
    BY <1>1, <2>1
<1>10. Resolve(y, l) = [y EXCEPT !.elems = Append(u, l)]
  BY <1>8 DEF Resolve
<1>11. /\ Append(u, l) \in Seq(Element) /\ Append(u, l) # <<>>
       /\ Append(u, l)[1] = ".."
  <2>1. ASSUME NEW S, NEW v \in Seq(S), Len(v) = 1, NEW z \in S
        PROVE  Append(v, z) \in Seq(S) /\ Append(v, z) # <<>> /\ Append(v, z)[1] = v[1]
    BY <2>1, AppendProperties
  <2>2. l \in Element
    OBVIOUS
  <2> QED
    BY <1>7, <2>1, <2>2
<1>12. Resolve(y, l).elems = Append(u, l)
  <2> DEFINE a == Append(u, l)
  <2>1. a \in Seq(Element)
    BY <1>11
  <2> HIDE DEF a
  <2> QED
    BY <1>2, <1>8, <1>10, <2>1 DEF a
<1> QED
  BY <1>9, <1>11, <1>12 DEF y, L

(* The name begins with a "..". *)
GoesUp(n) == n.elems # <<>> /\ n.elems[1] = ".."

(* relative of a root and of a path, both absolute: what the path has more than
   the root, or the last name of the path below a "..". *)
LEMMA NameOf ==
    ASSUME NEW r \in Seq(Element), NEW q \in Seq(Element), Plain(r), Plain(q), q # <<>>
    PROVE  LET c == Len(LongestCommonPrefix({r, Front(q)}))
           IN  IF c = Len(r) \/ c < Len(q) - 1
               THEN RelativeNames(Absolute(r), Absolute(q)) = {Relative(Rest(q, c))}
               ELSE \E n : RelativeNames(Absolute(r), Absolute(q)) = {n} /\ GoesUp(n)
<1> DEFINE f == Front(q)
           l == Last(q)
           c == Len(LongestCommonPrefix({r, f}))
           R == Absolute(r)
           Q == Absolute(q)
           D == Dir(Q)
           down == Rest(f, c)
           up == Ups(Len(r) - c)
<1>1. /\ Len(q) \in Nat \ {0} /\ f \in Seq(Element) /\ Len(f) = Len(q) - 1
      /\ \A i \in 1..Len(q) - 1 : f[i] = q[i]
      /\ l = q[Len(q)] /\ l \in Element /\ Len(r) \in Nat
  <2>1. Len(r) \in Nat
    OBVIOUS
  <2>2. /\ Len(q) \in Nat \ {0} /\ f \in Seq(Element) /\ Len(f) = Len(q) - 1
        /\ \A i \in 1..Len(q) - 1 : f[i] = q[i]
        /\ l = q[Len(q)] /\ l \in Element
    BY FrontAndLast
  <2> QED
    BY <2>1, <2>2
<1>2. Plain(f) /\ l # "." /\ l # ".."
  <2> HIDE DEF f, l
  <2> QED
    BY <1>1 DEF Plain
<1>3. Q.elems = q /\ Q.abs = TRUE /\ R.elems = r /\ R.abs = TRUE
  BY DEF Absolute
<1>4. D = Absolute(f) /\ Base(Q) = Relative(<<l>>)
  <2>1. ASSUME NEW p \in Path, NEW x \in Seq(Element)
        PROVE  [p EXCEPT !.elems = x] = [abs |-> p.abs, elems |-> x]
    BY DEF Path
  <2>2. Q \in Path
    BY DEF Absolute, Path
  <2> HIDE DEF Q
  <2>3. D = [Q EXCEPT !.elems = f]
    BY <1>3 DEF Dir
  <2>4. Base(Q) = Relative(<<l>>)
    BY <1>3 DEF Base
  <2>5. D = Absolute(f)
    <3> HIDE DEF D, f
    <3> QED
      BY <1>1, <1>3, <2>1, <2>2, <2>3 DEF Absolute
  <2> QED
    BY <2>4, <2>5
<1>5. D.elems = f /\ D.abs = TRUE
  <2> HIDE DEF D
  <2> QED
    BY <1>4 DEF Absolute
<1> HIDE DEF R, Q, D, f, l
<1>6. /\ c \in Nat /\ Agree(r, f, c)
      /\ Shared(R, D) = c
  <2>1. c \in Nat /\ Agree(r, f, c)
    BY <1>1, SharedProperties
  <2>2. Shared(R, D) = c
    BY <1>3, <1>5 DEF Shared
  <2> QED
    BY <2>1, <2>2
<1> HIDE DEF c
<1>7. c <= Len(r) /\ c <= Len(f) /\ Len(r) - c \in Nat /\ c \in 0..Len(f)
  BY <1>1, <1>6 DEF Agree
<1>8. ~RelFails(R, D)
  <2>1. c < Len(r) => r[c + 1] # ".."
    BY <1>1, <1>6 DEF Plain
  <2> QED
    BY <1>3, <1>5, <1>6, <2>1 DEF RelFails
<1>9. RelElems(R, D) = {up \o down}
  <2>1. D # Relative(<<>>)
    <3>1. Relative(<<>>).abs = FALSE
      BY DEF Relative
    <3> QED
      BY <1>5, <3>1
  <2>2. Ups(Len(R.elems) - Shared(R, D)) = up
    BY <1>3, <1>6
  <2>3. SubSeq(D.elems, Shared(R, D) + 1, Len(D.elems)) = down
    BY <1>5, <1>6 DEF Rest
  <2> HIDE DEF up, down
  <2> QED
    BY <2>1, <2>2, <2>3 DEF RelElems
<1>10. down \in Seq(Element) /\ Len(down) = Len(f) - c /\ Plain(down)
  <2>1. /\ down \in Seq(Element) /\ Len(down) = Len(f) - c
        /\ \A i \in 1..Len(f) - c : down[i] = f[c + i]
    BY <1>1, <1>7, RestProperties
  <2> HIDE DEF down
  <2>2. \A i \in 1..Len(f) - c : c + i \in 1..Len(f)
    BY <1>1, <1>7
  <2> QED
    BY <1>2, <2>1, <2>2 DEF Plain
<1>11. RelativeNames(R, Q) = {Join(Clean(Relative(StripUps(up \o down))), Relative(<<l>>))}
  <2> HIDE DEF up, down
  <2> QED
    BY <1>4, <1>8, <1>9 DEF RelativeNames, D
<1>12. CASE c = Len(r) \/ c < Len(q) - 1
  <2>1. StripUps(up \o down) = down
    <3>1. CASE down # <<>>
      <4> HIDE DEF down
      <4> QED
        BY <1>7, <1>10, <3>1, UpsAreDropped
    <3>2. CASE down = <<>>
      <4>1. c = Len(r)
        <5> HIDE DEF down
        <5> QED
          BY <1>1, <1>7, <1>10, <1>12, <3>2
      <4>2. Len(r) - c = 0
        BY <1>1, <4>1
      <4>3. up \in Seq(Element) /\ Len(up) = 0
        BY <4>2, UpsProperties
      <4>4. up = <<>>
        <5> HIDE DEF up
        <5> QED
          BY <4>3
      <4>5. up \o down = down
        <5> HIDE DEF up, down
        <5> QED
          BY <1>10, <4>4, ConcatEmptySeq
      <4> QED
        BY <1>10, <4>5, PlainIsKept
    <3> QED
      BY <3>1, <3>2
  <2>2. Clean(Relative(down)) = Relative(down)
    <3> HIDE DEF down
    <3> QED
      BY <1>10, CleanPlain
  <2>3. Join(Relative(down), Relative(<<l>>)) = Relative(down \o <<l>>)
    <3> DEFINE t == <<l>>
    <3>1. t \in Seq(Element) /\ Plain(t)
      BY <1>1, <1>2, RowOfOne DEF Plain
    <3> HIDE DEF t, down
    <3>2. Join(Relative(down), Relative(t)) = Relative(down \o t)
      BY <1>10, <3>1, JoinRelative
    <3> QED
      BY <3>2 DEF t
  <2>4. down \o <<l>> = Rest(q, c)
    <3>1. c \in 0..Len(q) - 1
      BY <1>1, <1>7
    <3> QED
      BY <3>1, RestAndLast DEF f, l
  <2>5. RelativeNames(R, Q) = {Relative(Rest(q, c))}
    <3> HIDE DEF up, down
    <3> QED
      BY <1>11, <2>1, <2>2, <2>3, <2>4
  <2> QED
    BY <1>12, <2>5 DEF c, f, R, Q
<1>13. CASE ~(c = Len(r) \/ c < Len(q) - 1)
  <2>1. down = <<>>
    <3> HIDE DEF down
    <3> QED
      BY <1>1, <1>7, <1>10, <1>13
  <2>2. Len(r) - c \in Nat \ {0}
    BY <1>1, <1>7, <1>13
  <2> DEFINE x == StripUps(up)
  <2>3. up \o down = up
    <3>1. up \in Seq(Element)
      BY <2>2, UpsProperties
    <3> HIDE DEF up, down
    <3> QED
      BY <2>1, <3>1, ConcatEmptySeq
  <2>4. x \in Seq(Element) /\ Len(x) = 1 /\ x[1] = ".."
    BY <2>2, OneUpIsKept
  <2> DEFINE n == Join(Clean(Relative(x)), Relative(<<l>>))
  <2>5. GoesUp(n)
    <3> HIDE DEF x
    <3> QED
      BY <1>1, <1>2, <2>4, UpAndName DEF GoesUp
  <2>6. RelativeNames(R, Q) = {n}
    <3> HIDE DEF up, down
    <3> QED
      BY <1>11, <2>3
  <2> HIDE DEF n
  <2>7. \E z : RelativeNames(R, Q) = {z} /\ GoesUp(z)
    BY <2>5, <2>6
  <2> QED
    BY <1>13, <2>7 DEF c, f, R, Q
<1> QED
  BY <1>12, <1>13

(* The whole of p agrees with r: it is a prefix. *)
LEMMA AgreeingIsPrefix ==
    ASSUME NEW p \in Seq(Element), NEW r \in Seq(Element), Agree(r, p, Len(p))
    PROVE  p = r \/ IsStrictPrefix(p, r)
<1>1. Len(p) \in Nat /\ Len(p) <= Len(r) /\ \A i \in 1..Len(p) : r[i] = p[i]
  BY LenProperties DEF Agree
<1> DEFINE x == SubSeq(r, 1, Len(p))
<1>2. x \in Seq(Element) /\ Len(x) = Len(p) /\ \A i \in 1..Len(p) : x[i] = p[i]
  BY <1>1
<1> HIDE DEF x
<1>3. x = p
  BY <1>1, <1>2, SeqEqual
<1>4. SubSeq(p, 1, Len(p)) = p
  BY SubSeqFull
<1> QED
  BY <1>1, <1>3, <1>4 DEF IsStrictPrefix, IsPrefix, x

(* The directory of a file of the mount p has the same in common with the root
   r as the mount, unless it is the mount, or the root is inside it. *)
LEMMA SharedBelow ==
    ASSUME NEW p \in Seq(Element), NEW r \in Seq(Element), NEW f \in Seq(Element),
           ~IsStrictPrefix(p, r)
    PROVE  LET c == Len(LongestCommonPrefix({r, p}))
           IN  /\ Len(LongestCommonPrefix({r, p \o f})) = c
               /\ c = Len(r) \/ c < Len(p)
<1> DEFINE c == Len(LongestCommonPrefix({r, p}))
           d == p \o f
           e == Len(LongestCommonPrefix({r, d}))
<1>1. /\ c \in Nat /\ Agree(r, p, c) /\ \A n \in Nat : Agree(r, p, n) => n <= c
  BY SharedProperties
<1>2. /\ d \in Seq(Element) /\ Len(d) = Len(p) + Len(f)
      /\ Len(p) \in Nat /\ Len(f) \in Nat /\ Len(r) \in Nat
      /\ \A i \in 1..Len(p) + Len(f) : d[i] = IF i <= Len(p) THEN p[i] ELSE f[i - Len(p)]
  BY ConcatProperties, LenProperties
<1> HIDE DEF c, d
<1>3. /\ e \in Nat /\ Agree(r, d, e) /\ \A n \in Nat : Agree(r, d, n) => n <= e
  BY <1>2, SharedProperties
<1> HIDE DEF e
<1>4. c <= Len(p) /\ c <= Len(r) /\ e <= Len(r)
  BY <1>1, <1>3 DEF Agree
<1>5. \A n \in Nat : n <= Len(p) => (Agree(r, p, n) <=> Agree(r, d, n))
  <2>1. SUFFICES ASSUME NEW n \in Nat, n <= Len(p)
                 PROVE  Agree(r, p, n) <=> Agree(r, d, n)
    OBVIOUS
  <2>2. \A i \in 1..n : d[i] = p[i]
    BY <1>2, <2>1
  <2>3. n <= Len(d)
    BY <1>2, <2>1
  <2> QED
    BY <2>1, <2>2, <2>3 DEF Agree
<1>6. c <= e
  BY <1>1, <1>3, <1>4, <1>5
<1>7. c = Len(r) \/ c < Len(p)
  <2>1. c = Len(p) => p = r
    BY <1>1, AgreeingIsPrefix
  <2> QED
    BY <1>1, <1>2, <1>4, <2>1
<1>8. e <= c
  <2>1. CASE c = Len(r)
    BY <1>4, <2>1
  <2>2. CASE c < Len(p)
    <3>1. SUFFICES ASSUME ~(e <= c) PROVE FALSE
      OBVIOUS
    <3>2. c + 1 \in Nat /\ c + 1 <= Len(p) /\ c + 1 <= e
      BY <1>1, <1>2, <1>3, <2>2, <3>1
    <3>3. Agree(r, d, c + 1)
      <4>1. \A i \in 1..c + 1 : i \in 1..e
        BY <1>1, <1>3, <3>2
      <4>2. c + 1 <= Len(r) /\ c + 1 <= Len(d)
        BY <1>2, <1>3, <1>4, <3>2
      <4> QED
        BY <1>3, <4>1, <4>2 DEF Agree
    <3>4. c + 1 <= c
      BY <1>1, <1>5, <3>2, <3>3
    <3> QED
      BY <1>1, <3>4
  <2> QED
    BY <1>7, <2>1, <2>2
<1>9. e = c
  BY <1>1, <1>3, <1>6, <1>8
<1> QED
  BY <1>7, <1>9 DEF c, d, e

(* What the mount is called itself has no such name only when the root is the
   mount, or the mount is beside the root or above it. *)
LEMMA SharedAbove ==
    ASSUME NEW p \in Seq(Element), NEW r \in Seq(Element), p # <<>>,
           ~IsStrictPrefix(p, r)
    PROVE  LET c == Len(LongestCommonPrefix({r, p}))
               e == Len(LongestCommonPrefix({r, Front(p)}))
           IN  e = c \/ (e # Len(r) /\ ~(e < Len(p) - 1))
<1> DEFINE c == Len(LongestCommonPrefix({r, p}))
           f == Front(p)
           e == Len(LongestCommonPrefix({r, f}))
<1>1. /\ c \in Nat /\ Agree(r, p, c) /\ \A n \in Nat : Agree(r, p, n) => n <= c
  BY SharedProperties
<1>2. /\ Len(p) \in Nat \ {0} /\ f \in Seq(Element) /\ Len(f) = Len(p) - 1
      /\ \A i \in 1..Len(p) - 1 : f[i] = p[i]
  BY FrontAndLast
<1> HIDE DEF c, f
<1>3. /\ e \in Nat /\ Agree(r, f, e) /\ \A n \in Nat : Agree(r, f, n) => n <= e
  BY <1>2, SharedProperties
<1> HIDE DEF e
<1>4. c <= Len(p) /\ c <= Len(r) /\ e <= Len(r) /\ e <= Len(f) /\ Len(r) \in Nat
  BY <1>1, <1>3, LenProperties DEF Agree
<1>5. \A n \in Nat : n <= Len(f) => (Agree(r, p, n) <=> Agree(r, f, n))
  <2>1. SUFFICES ASSUME NEW n \in Nat, n <= Len(f)
                 PROVE  Agree(r, p, n) <=> Agree(r, f, n)
    OBVIOUS
  <2>2. \A i \in 1..n : f[i] = p[i]
    BY <1>2, <2>1
  <2>3. n <= Len(p)
    BY <1>2, <2>1
  <2> QED
    BY <2>1, <2>2, <2>3 DEF Agree
<1>6. e <= c
  BY <1>1, <1>3, <1>4, <1>5
<1>7. CASE c <= Len(f)
  <2>1. c <= e
    BY <1>1, <1>3, <1>5, <1>7
  <2>2. e = c
    BY <1>1, <1>3, <1>6, <2>1
  <2> QED
    BY <2>2 DEF c, e, f
<1>8. CASE ~(c <= Len(f))
  <2>1. c = Len(p)
    BY <1>1, <1>2, <1>4, <1>8
  <2>2. p = r
    BY <1>1, <2>1, AgreeingIsPrefix
  <2>3. Agree(r, f, Len(f))
    <3>1. Agree(r, p, Len(f))
      <4>1. \A i \in 1..Len(f) : i \in 1..c
        BY <1>2, <2>1
      <4>2. Len(f) <= Len(p) /\ Len(f) <= Len(r)
        BY <1>2, <2>2
      <4> QED
        BY <1>1, <4>1, <4>2 DEF Agree
    <3> QED
      BY <1>2, <1>5, <3>1
  <2>4. Len(f) <= e
    BY <1>2, <1>3, <2>3
  <2>5. e = Len(p) - 1
    BY <1>2, <1>3, <1>4, <2>4
  <2>6. e # Len(r) /\ ~(e < Len(p) - 1)
    BY <1>2, <2>2, <2>5
  <2> QED
    BY <2>6 DEF e, f
<1> QED
  BY <1>7, <1>8

(* The root of the file system in itself. *)
LEMMA NameOfRoot == RelativeNames(Absolute(<<>>), Absolute(<<>>)) = {Relative(<<>>)}
<1> DEFINE R == Absolute(<<>>)
           none == <<>>
<1>1. R.elems = none /\ R.abs = TRUE /\ none \in Seq(Element) /\ Len(none) = 0
  BY EmptySeq DEF Absolute
<1>2. Plain(none)
  BY DEF Plain
<1>3. Relative(none).abs = FALSE
  BY DEF Relative
<1> HIDE DEF R
<1>4. Dir(R) = R /\ Base(R) = Relative(none)
  BY <1>1 DEF Dir, Base
<1> HIDE DEF none
<1>5. Shared(R, R) = 0
  <2> DEFINE c == Len(LongestCommonPrefix({none, none}))
  <2>1. c \in Nat /\ Agree(none, none, c)
    BY <1>1, SharedProperties
  <2>2. Shared(R, R) = c
    BY <1>1 DEF Shared
  <2> HIDE DEF c
  <2> QED
    BY <1>1, <2>1, <2>2 DEF Agree
<1>6. ~RelFails(R, R)
  BY <1>1, <1>5 DEF RelFails
<1> DEFINE up == Ups(0)
           down == SubSeq(none, 1, 0)
<1>7. up = none /\ down = none
  <2>1. Len(up) = 0 /\ up \in Seq(Element)
    BY UpsProperties
  <2>2. up = <<>>
    <3> HIDE DEF up
    <3> QED
      BY <2>1
  <2>3. down = <<>>
    BY SubSeqEmpty
  <2> QED
    BY <2>2, <2>3 DEF none
<1>8. RelElems(R, R) = {up \o down}
  <2>1. R # Relative(<<>>)
    BY <1>1, <1>3 DEF none
  <2>2. Ups(Len(R.elems) - Shared(R, R)) = up
    BY <1>1, <1>5
  <2>3. SubSeq(R.elems, Shared(R, R) + 1, Len(R.elems)) = down
    BY <1>1, <1>5
  <2> HIDE DEF up, down
  <2> QED
    BY <2>1, <2>2, <2>3 DEF RelElems
<1>9. none \o none = none
  BY <1>1, ConcatEmptySeq DEF none
<1>10. StripUps(none) = none /\ Clean(Relative(none)) = Relative(none)
  BY <1>1, <1>2, PlainIsKept, CleanPlain
<1>11. Join(Relative(none), Relative(none)) = Relative(none)
  <2>1. Join(Relative(none), Relative(none)) = Relative(none \o none)
    BY <1>1, <1>2, JoinRelative
  <2> QED
    BY <1>9, <2>1
<1>12. RelativeNames(R, R) = {Relative(none)}
  <2> HIDE DEF up, down
  <2> QED
    BY <1>4, <1>6, <1>7, <1>8, <1>9, <1>10, <1>11 DEF RelativeNames
<1> QED
  BY <1>12 DEF R, none

(* The name of a file of the mount p: what its path has more than the root and
   the mount have in common.  The mount itself may get a name with a "..". *)
LEMMA NameInMount ==
    ASSUME NEW p \in Seq(Element), NEW r \in Seq(Element), NEW f \in Seq(Element),
           Plain(p), Plain(r), Plain(f), ~IsStrictPrefix(p, r)
    PROVE  LET c     == Len(LongestCommonPrefix({r, p}))
               names == RelativeNames(Absolute(r), Absolute(p \o f))
           IN  \/ names = {Relative(Rest(p \o f, c))}
               \/ f = <<>> /\ \E n : names = {n} /\ GoesUp(n)
<1> DEFINE c == Len(LongestCommonPrefix({r, p}))
           q == p \o f
           e == Len(LongestCommonPrefix({r, Front(q)}))
           names == RelativeNames(Absolute(r), Absolute(q))
<1>1. q \in Seq(Element) /\ Plain(q)
  BY PlainConcat
<1>2. q # <<>> => IF e = Len(r) \/ e < Len(q) - 1
                  THEN names = {Relative(Rest(q, e))}
                  ELSE \E n : names = {n} /\ GoesUp(n)
  <2> HIDE DEF q
  <2> QED
    BY <1>1, NameOf
<1>3. CASE f # <<>>
  <2> DEFINE g == Front(f)
  <2>1. g \in Seq(Element) /\ Len(f) \in Nat \ {0}
    BY <1>3, FrontAndLast
  <2>2. q # <<>> /\ Front(q) = p \o g
    BY <1>3, FrontOfConcat
  <2>3. /\ Len(LongestCommonPrefix({r, p \o g})) = c
        /\ c = Len(r) \/ c < Len(p)
    <3> HIDE DEF g
    <3> QED
      BY <2>1, SharedBelow
  <2> HIDE DEF g
  <2>4. e = c
    BY <2>2, <2>3
  <2>5. Len(q) = Len(p) + Len(f) /\ Len(p) \in Nat
    BY ConcatProperties, LenProperties
  <2>6. c \in Nat
    BY SharedProperties
  <2> HIDE DEF q, c, e, names
  <2>7. c = Len(r) \/ c < Len(q) - 1
    BY <2>1, <2>3, <2>5, <2>6
  <2>8. names = {Relative(Rest(q, c))}
    BY <1>2, <2>2, <2>4, <2>7
  <2> QED
    BY <2>8 DEF q, c, names
<1>4. CASE f = <<>> /\ p # <<>>
  <2>1. q = p
    BY <1>4, ConcatEmptySeq
  <2>2. LET d == Len(LongestCommonPrefix({r, Front(p)}))
        IN  d = c \/ (d # Len(r) /\ ~(d < Len(p) - 1))
    BY <1>4, SharedAbove
  <2>3. e = c \/ (e # Len(r) /\ ~(e < Len(q) - 1))
    BY <2>1, <2>2
  <2> HIDE DEF q, c, e, names
  <2>4. names = {Relative(Rest(q, c))} \/ \E n : names = {n} /\ GoesUp(n)
    BY <1>2, <1>4, <2>1, <2>3
  <2> QED
    BY <1>4, <2>4 DEF q, c, names
<1>5. CASE f = <<>> /\ p = <<>>
  <2>1. r = <<>>
    <3>1. Agree(r, p, Len(p))
      BY <1>5 DEF Agree
    <3> QED
      BY <1>5, <3>1, AgreeingIsPrefix
  <2>2. q = <<>>
    BY <1>5, ConcatEmptySeq
  <2>3. c = 0
    <3>1. c \in Nat /\ Agree(r, p, c)
      BY SharedProperties
    <3> HIDE DEF c
    <3> QED
      BY <1>5, <3>1 DEF Agree
  <2> HIDE DEF q, c
  <2>4. Rest(q, c) = <<>>
    BY <2>2, <2>3, SubSeqEmpty DEF Rest
  <2>5. names = {Relative(Rest(q, c))}
    BY <2>1, <2>2, <2>4, NameOfRoot
  <2> QED
    BY <2>5 DEF q, c
<1> QED
  BY <1>3, <1>4, <1>5

(* Two files of a mount that get the same name are the same. *)
LEMMA SameNameSameFile ==
    ASSUME NEW p \in Seq(Element), NEW r \in Seq(Element), Plain(p), Plain(r), ~IsStrictPrefix(p, r)
    PROVE  \A f, g \in Seq(Element) :
               /\ Plain(f) /\ Plain(g)
               /\ RelativeNames(Absolute(r), Absolute(p \o f))
                      \cap RelativeNames(Absolute(r), Absolute(p \o g)) # {}
               => f = g
<1> DEFINE c == Len(LongestCommonPrefix({r, p}))
           Names(f) == RelativeNames(Absolute(r), Absolute(p \o f))
           Left(f) == Rest(p \o f, c)
<1>1. c \in 0..Len(p)
  BY SharedProperties DEF Agree
<1>2. ASSUME NEW f \in Seq(Element), Plain(f)
      PROVE  \/ Names(f) = {Relative(Left(f))}
             \/ f = <<>> /\ \E n : Names(f) = {n} /\ GoesUp(n)
  BY <1>2, NameInMount
<1>3. ASSUME NEW f \in Seq(Element), Plain(f), GoesUp(Relative(Left(f)))
      PROVE  FALSE
  <2> DEFINE q == p \o f
             t == Left(f)
  <2>1. q \in Seq(Element) /\ Plain(q)
    BY <1>3, PlainConcat
  <2>2. Len(q) = Len(p) + Len(f) /\ Len(p) \in Nat /\ Len(f) \in Nat
    BY ConcatProperties, LenProperties
  <2> HIDE DEF q, c
  <2>3. /\ t \in Seq(Element) /\ Len(t) = Len(q) - c
        /\ \A i \in 1..Len(q) - c : t[i] = q[c + i]
    <3>1. c \in 0..Len(q)
      BY <1>1, <2>2
    <3> QED
      BY <2>1, <3>1, RestProperties DEF q
  <2>4. t # <<>> /\ t[1] = ".."
    BY <1>3 DEF GoesUp, Relative
  <2> HIDE DEF t
  <2>5. 1 \in 1..Len(q) - c /\ c + 1 \in 1..Len(q)
    BY <1>1, <2>2, <2>3, <2>4
  <2>6. q[c + 1] = ".."
    BY <2>3, <2>4, <2>5
  <2> QED
    BY <2>1, <2>5, <2>6 DEF Plain
<1>4. ASSUME NEW f \in Seq(Element), NEW g \in Seq(Element), Left(f) = Left(g)
      PROVE  f = g
  BY <1>1, <1>4, SameRest
<1> HIDE DEF Names, Left, c
<1>5. ASSUME NEW f \in Seq(Element), NEW g \in Seq(Element), Plain(f), Plain(g),
             NEW n \in Names(f) \cap Names(g)
      PROVE  f = g
  <2>1. CASE Names(f) = {Relative(Left(f))} /\ Names(g) = {Relative(Left(g))}
    <3>1. Relative(Left(f)) = Relative(Left(g))
      BY <1>5, <2>1
    <3>2. Left(f) = Left(g)
      BY <3>1 DEF Relative
    <3> QED
      BY <1>4, <3>2
  <2>2. CASE Names(f) = {Relative(Left(f))} /\ g = <<>> /\ (\E z : Names(g) = {z} /\ GoesUp(z))
    <3>1. GoesUp(Relative(Left(f)))
      BY <1>5, <2>2
    <3> QED
      BY <1>3, <1>5, <3>1
  <2>3. CASE Names(g) = {Relative(Left(g))} /\ f = <<>> /\ (\E z : Names(f) = {z} /\ GoesUp(z))
    <3>1. GoesUp(Relative(Left(g)))
      BY <1>5, <2>3
    <3> QED
      BY <1>3, <1>5, <3>1
  <2>4. CASE f = <<>> /\ g = <<>>
    BY <2>4
  <2> QED
    BY <1>2, <1>5, <2>1, <2>2, <2>3, <2>4
<1>6. \A f, g \in Seq(Element) :
          /\ Plain(f) /\ Plain(g)
          /\ Names(f) \cap Names(g) # {}
          => f = g
  BY <1>5
<1> QED
  BY <1>6 DEF Names

-----------------------------------------------------------------------------
(* The way of a file. *)

(* The way from the working directory to the file. *)
Way == Relative(mount.elems \o file.elems)

(* What is true of the file all along: its name is the way to it, and it is
   extracted at the end of the same way. *)
PathInv ==
    /\ mount \in MountPaths /\ file \in Files
    /\ home \in Dirs /\ here \in Dirs
    /\ Below =>
        /\ phase \in {"mounted", "archived", "extracted"}
        /\ phase = "archived" => name = Way
        /\ phase = "extracted" => target = Abs(here, Way)

(* The constants of a mount below the working directory. *)
LEMMA BelowIsPlain ==
    ASSUME PathInv, Below
    PROVE  /\ home \in Path /\ home.abs /\ here \in Path /\ root = home
           /\ mount = Relative(mount.elems) /\ file = Relative(file.elems)
           /\ mount.elems \in Seq(Element) /\ Plain(mount.elems) /\ mount.elems # <<>>
           /\ file.elems \in Seq(Element) /\ Plain(file.elems)
<1>1. home \in Path /\ home.abs /\ here \in Path /\ root = home
  BY DirsAssumption DEF PathInv, Below
<1>2. mount = Relative(mount.elems) /\ mount.elems \in Seq(Element) /\ Plain(mount.elems)
  BY CleanIsPlain DEF PathInv, Below
<1>3. mount.elems # <<>>
  BY <1>2 DEF Below, Dot
<1>4. /\ file.elems \in Seq(Element) /\ Plain(file.elems)
      /\ file = Relative(file.elems)
  BY FilesAssumption DEF PathInv, Path, Relative
<1> QED
  BY <1>1, <1>2, <1>3, <1>4

(* The first use of relative: the name of a file is the way to it. *)
LEMMA NameIsWay ==
    ASSUME PathInv, Below
    PROVE  RelativeNames(root, SourcePath(file)) = {Way}
<1> DEFINE m == mount.elems
           f == file.elems
           w == m \o f
<1>1. /\ home \in Path /\ root = home
      /\ mount = Relative(m) /\ m \in Seq(Element) /\ Plain(m) /\ m # <<>>
      /\ file = Relative(f) /\ f \in Seq(Element) /\ Plain(f)
  BY BelowIsPlain
<1>2. Way = Relative(w)
  BY DEF Way
<1> HIDE DEF m, f
<1>3. w \in Seq(Element) /\ Plain(w)
  BY <1>1, PlainConcat
<1>4. w # <<>>
  <2>1. Len(w) = Len(m) + Len(f) /\ Len(m) \in Nat \ {0} /\ Len(f) \in Nat
    BY <1>1, ConcatProperties
  <2> HIDE DEF w
  <2> QED
    BY <2>1
<1>5. SourcePath(file) = [abs |-> home.abs, elems |-> home.elems \o w]
  <2>1. Join(Abs(home, Relative(m)), Relative(f)) = [abs |-> home.abs, elems |-> home.elems \o (m \o f)]
    BY <1>1, WayDown
  <2> QED
    BY <1>1, <2>1 DEF SourcePath
<1> HIDE DEF w
<1>6. RelativeNames(home, [abs |-> home.abs, elems |-> home.elems \o w]) = {Relative(w)}
  BY <1>1, <1>3, <1>4, NameBelow
<1> QED
  BY <1>1, <1>2, <1>5, <1>6

(* The second use of relative gives the name back. *)
LEMMA TargetIsWay ==
    ASSUME PathInv, Below
    PROVE  Targets(mount, Way) = {Way}
<1>1. /\ mount = Relative(mount.elems) /\ mount.elems \in Seq(Element) /\ Plain(mount.elems)
      /\ file.elems \in Seq(Element) /\ Plain(file.elems)
  BY BelowIsPlain
<1>2. Targets(Relative(mount.elems), Way) = {Way}
  BY <1>1, TargetIsName DEF Way
<1> QED
  BY <1>1, <1>2

(* The way leads to the place of the file below the mount. *)
LEMMA WayLeadsHome ==
    ASSUME PathInv, Below
    PROVE  Abs(here, Way) = Join(Abs(here, mount), file)
<1> DEFINE m == mount.elems
           f == file.elems
<1>1. /\ here \in Path
      /\ mount = Relative(m) /\ m \in Seq(Element) /\ Plain(m)
      /\ file = Relative(f) /\ f \in Seq(Element) /\ Plain(f)
  BY BelowIsPlain
<1>2. Way = Relative(m \o f)
  BY DEF Way
<1> HIDE DEF m, f
<1>3. /\ Join(Abs(here, Relative(m)), Relative(f)) = [abs |-> here.abs, elems |-> here.elems \o (m \o f)]
      /\ Abs(here, Relative(m \o f)) = [abs |-> here.abs, elems |-> here.elems \o (m \o f)]
  BY <1>1, WayDown
<1> QED
  BY <1>1, <1>2, <1>3

LEMMA PathInvInit == PathInit => PathInv
  BY DEF PathInit, PathInv

LEMMA PathInvStep == PathInv /\ [PathNext]_pathVars => PathInv'
<1>1. SUFFICES ASSUME PathInv, [PathNext]_pathVars PROVE PathInv'
  OBVIOUS
<1>2. ASSUME UNCHANGED <<mount, file, home, root>>
      PROVE  /\ Below' <=> Below
             /\ Way' = Way
  BY <1>2 DEF Below, Way
<1>3. CASE WriteName
  <2>1. UNCHANGED <<mount, file, home, here, root>> /\ phase' = "archived"
    BY <1>3 DEF WriteName
  <2>2. ASSUME Below PROVE name' = Way
    BY <1>1, <1>3, <2>2, NameIsWay DEF WriteName
  <2> QED
    BY <1>1, <1>2, <2>1, <2>2 DEF PathInv
<1>4. CASE WriteNameFails
  <2>1. ~Below
    BY <1>1, <1>4, NameIsWay DEF WriteNameFails
  <2> QED
    BY <1>1, <1>2, <1>4, <2>1 DEF PathInv, WriteNameFails
<1>5. ASSUME NEW dir \in Dirs, ExtractFile(dir) PROVE PathInv'
  <2>1. UNCHANGED <<mount, file, home, root>> /\ here' = dir /\ phase' = "extracted"
    BY <1>5 DEF ExtractFile
  <2>2. ASSUME Below PROVE target' = Abs(here', Way)
    <3>1. name = Way
      BY <1>1, <1>5, <2>2 DEF ExtractFile, PathInv
    <3>2. target' \in {Abs(dir, t) : t \in {Way}}
      BY <1>1, <1>5, <2>2, <3>1, TargetIsWay DEF ExtractFile
    <3> QED
      BY <2>1, <3>2
  <2>3. Below' => target' = Abs(here', Way')
    BY <1>2, <2>1, <2>2
  <2> QED
    BY <1>1, <1>5, <2>1, <2>3 DEF PathInv
<1>6. CASE ExtractFileFails
  <2>1. ~Below
    <3>1. ASSUME Below PROVE FALSE
      <4>1. name = Way
        BY <1>1, <1>6, <3>1 DEF ExtractFileFails, PathInv
      <4> QED
        BY <1>1, <1>6, <3>1, <4>1, TargetIsWay DEF ExtractFileFails
    <3> QED
      BY <3>1
  <2> QED
    BY <1>1, <1>2, <1>6, <2>1 DEF PathInv, ExtractFileFails
<1>7. CASE PathDone \/ UNCHANGED pathVars
  <2>1. UNCHANGED pathVars
    BY <1>7 DEF PathDone
  <2>2. (Below' <=> Below) /\ Way' = Way
    BY <1>2, <2>1 DEF pathVars
  <2>3. Abs(here', Way') = Abs(here, Way)
    BY <2>1, <2>2 DEF pathVars
  <2> QED
    BY <1>1, <2>1, <2>2, <2>3 DEF PathInv, pathVars
<1> QED
  BY <1>1, <1>3, <1>4, <1>5, <1>6, <1>7 DEF PathNext

(* The name of a file below the working directory is the way to it, and its
   target the end of that way (tar.go:87, tar.go:181-191). *)
THEOREM PathInvariance == PathSpec => []PathInv
<1> QED
  BY PathInvInit, PathInvStep, PTL DEF PathSpec

(* The files of a mount below the working directory come back to their places,
   whatever the directories, the mount and the file (tar.go:87, tar.go:181-191,
   rebuilder.go:100). *)
THEOREM MountsBelowReturnAlways == PathSpec => []MountsBelowReturn
<1>1. PathInv => MountsBelowReturn
  <2>1. SUFFICES ASSUME PathInv, Below PROVE RoundTrip
    BY DEF MountsBelowReturn
  <2>2. phase # "failed"
    BY <2>1 DEF PathInv
  <2>3. phase = "extracted" => target = Join(Abs(here, mount), file)
    BY <2>1, WayLeadsHome DEF PathInv
  <2> QED
    BY <2>2, <2>3 DEF RoundTrip
<1> QED
  BY <1>1, PathInvariance, PTL

-----------------------------------------------------------------------------
(* Names of different files. *)

(* The root is a path, without ".." if it is absolute; the name is one that
   relative makes for the file. *)
NamesInv ==
    /\ mount \in MountPaths /\ file \in Files /\ home \in Dirs
    /\ root \in Path /\ (root.abs => Plain(root.elems))
    /\ phase = "archived" => name \in RelativeNames(root, SourcePath(file))

(* The local root: a relative one stays relative, an absolute one is cleaned. *)
LEMMA LocalRootType ==
    ASSUME NEW d \in Dirs, NEW r \in Roots
    PROVE  LET x == LocalRoot(d, r)
           IN  x \in Path /\ (x.abs => Plain(x.elems))
<1>1. d \in Path /\ Plain(d.elems)
  BY DirsAssumption
<1>2. CASE r = Unset
  BY <1>1, <1>2 DEF LocalRoot
<1>3. CASE r # Unset
  <2> DEFINE z == [r EXCEPT !.elems = <<>>]
  <2>1. r \in Path
    BY <1>3, RootsAssumption
  <2>2. z \in Path /\ Plain(z.elems)
    BY <2>1, Emptied
  <2> HIDE DEF z
  <2>3. Join(z, r) \in Path
    BY <2>1, <2>2, JoinType
  <2>4. Join(z, r).abs = z.abs
    BY <2>1, <2>2, JoinAbs
  <2>5. z.abs => Plain(Join(z, r).elems)
    BY <2>1, <2>2, JoinAbsolute
  <2>6. LocalRoot(d, r) = Join(z, r)
    BY <1>3 DEF LocalRoot, Clean, z
  <2> QED
    BY <2>3, <2>4, <2>5, <2>6
<1> QED
  BY <1>2, <1>3

(* The absolute path of a mount, and of a file of it. *)
LEMMA SourceOfMount ==
    ASSUME home \in Dirs, mount \in MountPaths
    PROVE  LET p == SourcePath(Dot).elems
           IN  /\ p \in Seq(Element) /\ Plain(p)
               /\ \A f \in Files : SourcePath(f) = Absolute(p \o f.elems)
<1> DEFINE P == Abs(home, mount)
           s == P.elems
<1>1. /\ home \in Path /\ home.abs /\ Plain(home.elems) /\ mount \in Path
  BY DirsAssumption, MountPathsAssumption
<1>2. P \in Path /\ P.abs /\ Plain(P.elems)
  <2>1. CASE mount.abs
    <3> DEFINE z == [mount EXCEPT !.elems = <<>>]
    <3>1. z \in Path /\ z.abs /\ Plain(z.elems)
      BY <1>1, <2>1, Emptied
    <3> HIDE DEF z
    <3>2. Join(z, mount) \in Path /\ Join(z, mount).abs /\ Plain(Join(z, mount).elems)
      BY <1>1, <3>1, JoinAbsolute
    <3> QED
      BY <2>1, <3>2 DEF Abs, Clean, z
  <2>2. CASE ~mount.abs
    <3>1. /\ Join(home, mount) \in Path /\ Join(home, mount).abs
          /\ Plain(Join(home, mount).elems)
      BY <1>1, JoinAbsolute
    <3> QED
      BY <2>2, <3>1 DEF Abs
  <2> QED
    BY <2>1, <2>2
<1> HIDE DEF P
<1>3. s \in Seq(Element) /\ P.abs = TRUE
  BY <1>2 DEF Path
<1>4. ASSUME NEW q \in Path, Plain(q.elems)
      PROVE  SourcePath(q) = Absolute(s \o q.elems)
  <2>1. Join(P, q) = [abs |-> P.abs, elems |-> P.elems \o q.elems]
    BY <1>2, <1>4, JoinPlain
  <2> QED
    BY <1>3, <2>1 DEF SourcePath, P, Absolute
<1>5. SourcePath(Dot) = Absolute(s)
  <2>1. Dot \in Path /\ Dot.elems = <<>> /\ Plain(Dot.elems)
    BY EmptySeq DEF Dot, Relative, Path, Plain
  <2>2. SourcePath(Dot) = Absolute(s \o Dot.elems)
    BY <1>4, <2>1
  <2>3. s \o Dot.elems = s
    BY <1>3, <2>1, ConcatEmptySeq
  <2> QED
    BY <2>2, <2>3
<1>6. SourcePath(Dot).elems = s
  BY <1>5 DEF Absolute
<1>7. \A f \in Files : SourcePath(f) = Absolute(s \o f.elems)
  BY <1>4, FilesAssumption
<1> HIDE DEF s
<1>8. Plain(s)
  BY <1>2 DEF s
<1> QED
  BY <1>3, <1>6, <1>7, <1>8

(* relative fails for a relative root. *)
LEMMA RelativeRootFails ==
    ASSUME NEW r \in Path, ~r.abs, NEW q \in Seq(Element)
    PROVE  RelativeNames(r, Absolute(q)) = {}
<1> DEFINE Q == Absolute(q)
<1>1. Q \in Path /\ Q.abs = TRUE
  BY DEF Absolute, Path
<1> HIDE DEF Q
<1>2. Dir(Q).abs = TRUE
  BY <1>1 DEF Dir, Path
<1>3. r.abs = FALSE
  BY DEF Path
<1> QED
  BY <1>2, <1>3 DEF RelativeNames, RelFails, Q

LEMMA NamesInvInit == PathInit => NamesInv
<1>1. SUFFICES ASSUME PathInit PROVE NamesInv
  OBVIOUS
<1>2. root \in Path /\ (root.abs => Plain(root.elems))
  BY <1>1, LocalRootType DEF PathInit
<1> QED
  BY <1>1, <1>2 DEF PathInit, NamesInv

LEMMA NamesInvStep == NamesInv /\ [PathNext]_pathVars => NamesInv'
<1>1. SUFFICES ASSUME NamesInv, [PathNext]_pathVars PROVE NamesInv'
  OBVIOUS
<1>2. CASE WriteName
  <2>1. /\ UNCHANGED <<mount, file, home, root>>
        /\ name' \in RelativeNames(root, SourcePath(file))
    BY <1>2 DEF WriteName
  <2>2. SourcePath(file)' = SourcePath(file)
    BY <2>1 DEF SourcePath
  <2>3. (name \in RelativeNames(root, SourcePath(file)))'
    BY <2>1, <2>2
  <2> QED
    BY <1>1, <2>1, <2>3 DEF NamesInv
<1>3. CASE WriteNameFails \/ (\E dir \in Dirs : ExtractFile(dir)) \/ ExtractFileFails
  <2>1. UNCHANGED <<mount, file, home, root>> /\ phase' # "archived"
    BY <1>3 DEF WriteNameFails, ExtractFile, ExtractFileFails
  <2> QED
    BY <1>1, <2>1 DEF NamesInv
<1>4. CASE PathDone \/ UNCHANGED pathVars
  <2>1. UNCHANGED <<phase, mount, file, home, root, name>>
    BY <1>4 DEF PathDone, pathVars
  <2>2. SourcePath(file)' = SourcePath(file)
    BY <2>1 DEF SourcePath
  <2>3. (phase = "archived" => name \in RelativeNames(root, SourcePath(file)))'
    BY <1>1, <2>1, <2>2 DEF NamesInv
  <2> QED
    BY <1>1, <2>1, <2>3 DEF NamesInv
<1> QED
  BY <1>1, <1>2, <1>3, <1>4 DEF PathNext

(* No two files of a mount share a name, although relative drops "../", unless
   the root is inside the mount, whatever the directories, the mount, the root
   and the files (tar.go:116-130). *)
THEOREM NamesApartAlways == PathSpec => []NamesApart
<1>1. NamesInv => NamesApart
  <2>1. SUFFICES ASSUME NamesInv, phase = "archived", NEW f \in Files \ {file},
                        ~IsStrictPrefix(SourcePath(Dot).elems, root.elems),
                        name \in RelativeNames(root, SourcePath(f))
                 PROVE  FALSE
    BY DEF NamesApart
  <2> DEFINE p == SourcePath(Dot).elems
             r == root.elems
             s == file.elems
             t == f.elems
  <2>2. /\ p \in Seq(Element) /\ Plain(p)
        /\ SourcePath(file) = Absolute(p \o s) /\ SourcePath(f) = Absolute(p \o t)
    BY <2>1, SourceOfMount DEF NamesInv
  <2>3. /\ s \in Seq(Element) /\ Plain(s) /\ t \in Seq(Element) /\ Plain(t)
        /\ s # t
    <3>1. file \in Path /\ ~file.abs /\ Plain(s) /\ f \in Path /\ ~f.abs /\ Plain(t)
      BY <2>1, FilesAssumption DEF NamesInv
    <3>2. file = [abs |-> FALSE, elems |-> s] /\ f = [abs |-> FALSE, elems |-> t]
      BY <3>1 DEF Path
    <3>3. s \in Seq(Element) /\ t \in Seq(Element)
      BY <3>1 DEF Path
    <3>4. f # file
      BY <2>1
    <3> HIDE DEF s, t
    <3> QED
      BY <3>1, <3>2, <3>3, <3>4
  <2>4. /\ root \in Path /\ (root.abs => Plain(r))
        /\ name \in RelativeNames(root, SourcePath(file))
    BY <2>1 DEF NamesInv
  <2> HIDE DEF p, s, t
  <2>5. root.abs
    <3>1. p \o s \in Seq(Element)
      BY <2>2, <2>3, ConcatProperties
    <3> QED
      BY <2>2, <2>4, <3>1, RelativeRootFails
  <2>6. r \in Seq(Element) /\ Plain(r) /\ root = Absolute(r)
    BY <2>4, <2>5 DEF Path, Absolute
  <2> HIDE DEF r
  <2>7. ~IsStrictPrefix(p, r)
    BY <2>1 DEF p, r
  <2>8. \A x, y \in Seq(Element) :
            /\ Plain(x) /\ Plain(y)
            /\ RelativeNames(Absolute(r), Absolute(p \o x))
                   \cap RelativeNames(Absolute(r), Absolute(p \o y)) # {}
            => x = y
    BY <2>2, <2>6, <2>7, SameNameSameFile
  <2>9. name \in RelativeNames(Absolute(r), Absolute(p \o s))
                     \cap RelativeNames(Absolute(r), Absolute(p \o t))
    BY <2>1, <2>2, <2>4, <2>6
  <2> QED
    BY <2>3, <2>8, <2>9
<1>2. PathSpec => []NamesInv
  BY NamesInvInit, NamesInvStep, PTL DEF PathSpec
<1> QED
  BY <1>1, <1>2, PTL

-----------------------------------------------------------------------------
(* Types, for any paths. *)

(* The loop keeps at least the last element. *)
LEMMA StripUpsType ==
    ASSUME NEW s \in Seq(Element)
    PROVE  StripUps(s) \in Seq(Element)
<1> DEFINE last == Len(s)
           Kept(k) == /\ \A j \in 1..(k - 1) : s[j] = ".."
                      /\ k = last \/ s[k] # ".."
           Ends == {k \in 1..last : k = last \/ s[k] # ".."}
<1>1. CASE s = <<>>
  BY <1>1 DEF StripUps
<1>2. CASE s # <<>>
  <2>1. last \in Nat \ {0} /\ last \in Ends
    BY <1>2, EmptySeq, LenProperties
  <2>2. PICK k \in Ends : \A j \in Ends : k <= j
    <3>1. Ends \in SUBSET Nat
      OBVIOUS
    <3> HIDE DEF Ends
    <3> QED
      BY <2>1, <3>1, LeastNatural
  <2>3. k \in 1..last /\ Kept(k)
    <3>1. \A j \in 1..k - 1 : j \in 1..last /\ ~(k <= j)
      BY <2>1
    <3> QED
      BY <2>2, <3>1
  <2> DEFINE kept == CHOOSE i \in 1..last : Kept(i)
  <2>4. kept \in 1..last
    BY <2>3
  <2>5. StripUps(s) = SubSeq(s, kept, last)
    BY <1>2 DEF StripUps
  <2> HIDE DEF kept
  <2> QED
    BY <2>1, <2>4, <2>5
<1> QED
  BY <1>1, <1>2

LEMMA RelElemsType ==
    ASSUME NEW p \in Path, NEW q \in Path, NEW e \in RelElems(p, q)
    PROVE  e \in Seq(Element)
<1> DEFINE a == p.elems
           b == q.elems
           c == Shared(p, q)
           up == Ups(Len(a) - c)
           down == Rest(b, c)
<1>1. a \in Seq(Element) /\ b \in Seq(Element) /\ Len(a) \in Nat /\ Len(b) \in Nat
  BY DEF Path
<1> HIDE DEF a, b
<1>2. c \in Nat /\ Agree(a, b, c)
  BY <1>1, SharedProperties DEF Shared, a, b
<1> HIDE DEF c
<1>3. Len(a) - c \in Nat /\ c \in 0..Len(b)
  BY <1>1, <1>2 DEF Agree
<1>4. up \in Seq(Element)
  BY <1>3, UpsProperties
<1>5. down \in Seq(Element)
  BY <1>1, <1>3, RestProperties
<1> HIDE DEF up, down
<1>6. e = up \/ e = Append(up, ".") \/ e = up \o down
  <2>1. RelElems(p, q) = IF q = Relative(<<>>) /\ up # <<>> THEN {up, Append(up, ".")}
                         ELSE {up \o down}
    BY Zenon DEF RelElems, Rest, up, down, a, b, c
  <2> QED
    BY <2>1
<1>7. "." \in Element
  BY DEF Element
<1>8. Append(up, ".") \in Seq(Element)
  BY <1>4, <1>7, AppendProperties
<1>9. up \o down \in Seq(Element)
  BY <1>4, <1>5, ConcatProperties
<1> QED
  BY <1>4, <1>6, <1>8, <1>9

LEMMA BaseAndDirTypes ==
    ASSUME NEW q \in Path
    PROVE  Base(q) \in Path /\ Dir(q) \in Path
<1> DEFINE s == q.elems
<1>1. s \in Seq(Element)
  BY DEF Path
<1>2. ASSUME NEW t \in Seq(Element) PROVE Relative(t) \in Path /\ [q EXCEPT !.elems = t] \in Path
  BY <1>2 DEF Relative, Path
<1>3. s # <<>> => Front(s) \in Seq(Element) /\ <<Last(s)>> \in Seq(Element)
  <2> HIDE DEF s
  <2> QED
    BY <1>1, FrontAndLast, RowOfOne
<1>4. <<>> \in Seq(Element)
  BY EmptySeq
<1>5. Base(q) \in Path
  BY <1>2, <1>3, <1>4 DEF Base
<1>6. Dir(q) \in Path
  <2>1. CASE s = <<>>
    BY <2>1 DEF Dir
  <2>2. CASE s # <<>>
    <3>1. Dir(q) = [q EXCEPT !.elems = Front(s)]
      BY <2>2 DEF Dir
    <3> QED
      BY <1>2, <1>3, <2>2, <3>1
  <2> QED
    BY <2>1, <2>2
<1> QED
  BY <1>5, <1>6

LEMMA CleanAbs ==
    ASSUME NEW p \in Path
    PROVE  Clean(p) \in Path /\ Clean(p).abs = p.abs
  BY Emptied, CleanType, JoinAbs DEF Clean

(* What relative returns is a relative path. *)
LEMMA NamesType ==
    ASSUME NEW p \in Path, NEW q \in Path, NEW n \in RelativeNames(p, q)
    PROVE  n \in Path /\ n.abs = FALSE
<1>1. Base(q) \in Path /\ Dir(q) \in Path
  BY BaseAndDirTypes
<1>2. PICK e \in RelElems(p, Dir(q)) : n = Join(Clean(Relative(StripUps(e))), Base(q))
  BY DEF RelativeNames
<1> DEFINE r == Relative(StripUps(e))
<1>3. r \in Path /\ r.abs = FALSE
  <2>1. StripUps(e) \in Seq(Element)
    BY <1>1, RelElemsType, StripUpsType
  <2> QED
    BY <2>1 DEF Relative, Path
<1> HIDE DEF r
<1>4. Clean(r) \in Path /\ Clean(r).abs = FALSE
  BY <1>3, CleanAbs
<1> QED
  BY <1>1, <1>2, <1>4, JoinType, JoinAbs DEF r

LEMMA AbsType ==
    ASSUME NEW d \in Dirs, NEW p \in Path
    PROVE  Abs(d, p) \in Path /\ Abs(d, p).abs = TRUE
<1>1. d \in Path /\ d.abs = TRUE /\ p.abs \in BOOLEAN
  BY DirsAssumption DEF Path, DirsAssumption
<1>2. CASE p.abs
  BY <1>2, CleanAbs DEF Abs, Path
<1>3. CASE ~p.abs
  BY <1>1, <1>3, JoinType, JoinAbs DEF Abs
<1> QED
  BY <1>2, <1>3

LEMMA TypeInit == PathInit => PathTypeOK
<1>1. SUFFICES ASSUME PathInit PROVE PathTypeOK
  OBVIOUS
<1>2. PICK r \in Roots : root = LocalRoot(home, r)
  BY <1>1 DEF PathInit
<1>3. home \in Path
  BY <1>1, DirsAssumption DEF PathInit, DirsAssumption
<1>4. root \in Path
  BY <1>2, <1>3, RootsAssumption, CleanType DEF LocalRoot, RootsAssumption
<1>5. Dot \in [abs : {FALSE}, elems : Seq(Element)]
  BY EmptySeq DEF Dot, Relative
<1> QED
  BY <1>1, <1>4, <1>5 DEF PathInit, PathTypeOK

LEMMA TypeStep == PathTypeOK /\ [PathNext]_pathVars => PathTypeOK'
<1>1. SUFFICES ASSUME PathTypeOK, [PathNext]_pathVars PROVE PathTypeOK'
  OBVIOUS
<1>2. /\ mount \in Path /\ file \in Path /\ root \in Path
      /\ name \in Path /\ name \in [abs : {FALSE}, elems : Seq(Element)]
  BY <1>1, MountPathsAssumption, FilesAssumption
     DEF PathTypeOK, Path, MountPathsAssumption, FilesAssumption
<1>3. CASE WriteName
  <2>1. SourcePath(file) \in Path
    BY <1>1, <1>2, AbsType, JoinType DEF SourcePath, PathTypeOK
  <2>2. name' \in RelativeNames(root, SourcePath(file))
    BY <1>3 DEF WriteName
  <2>3. name' \in Path /\ name'.abs = FALSE
    BY <1>2, <2>1, <2>2, NamesType
  <2>4. name' \in [abs : {FALSE}, elems : Seq(Element)]
    BY <2>3 DEF Path
  <2>5. phase = "mounted" /\ phase' = "archived" /\ target' = target
    BY <1>3 DEF WriteName
  <2> QED
    BY <1>1, <1>3, <2>4, <2>5 DEF WriteName, PathTypeOK
<1>4. CASE WriteNameFails \/ ExtractFileFails
  <2>1. phase \in {"mounted", "archived"} /\ phase' = "failed"
    BY <1>4 DEF WriteNameFails, ExtractFileFails
  <2> QED
    BY <1>1, <1>4, <2>1 DEF WriteNameFails, ExtractFileFails, PathTypeOK
<1>5. ASSUME NEW dir \in Dirs, ExtractFile(dir) PROVE PathTypeOK'
  <2>1. PICK t \in Targets(mount, name) : target' = Abs(dir, t)
    BY <1>5 DEF ExtractFile
  <2>2. t \in Path
    <3>1. CASE mount = name
      BY <1>2, <2>1, <3>1 DEF Targets
    <3>2. CASE mount # name
      <4>1. PICK n \in RelativeNames(mount, name) : t = Join(mount, n)
        BY <2>1, <3>2 DEF Targets
      <4> QED
        BY <1>2, <4>1, NamesType, JoinType
    <3> QED
      BY <3>1, <3>2
  <2>3. target' \in Path /\ target'.abs = TRUE
    BY <2>1, <2>2, AbsType
  <2>4. target' \in [abs : {TRUE}, elems : Seq(Element)]
    BY <2>3 DEF Path
  <2> QED
    BY <1>1, <1>5, <2>4 DEF ExtractFile, PathTypeOK
<1>6. CASE PathDone \/ UNCHANGED pathVars
  BY <1>1, <1>6 DEF PathDone, pathVars, PathTypeOK
<1> QED
  BY <1>1, <1>3, <1>4, <1>5, <1>6 DEF PathNext

(* Whatever the mount, the root and the directories, what relative makes of a path
   is a relative one, and what is extracted has an absolute one (tar.go:116-130,
   181-191). *)
THEOREM PathTypeCorrect == PathSpec => []PathTypeOK
  BY TypeInit, TypeStep, PTL DEF PathSpec
=============================================================================
