--------------------------- MODULE FilePathProofs ---------------------------
(***************************************************************************)
(* What the functions of FilePath return, for paths of any length.         *)
(*                                                                         *)
(* Induction is by the least number for which a formula fails, since sets  *)
(* have one: the theorems of the library about induction take the formula  *)
(* as a parameter.                                                         *)
(***************************************************************************)
EXTENDS FilePath, SequenceTheorems, WellFoundedInduction, TLAPS

(* A set of numbers has a least one. *)
LEMMA LeastNatural ==
    ASSUME NEW T \in SUBSET Nat, T # {}
    PROVE  \E x \in T : \A y \in T : x <= y
<1> DEFINE R == OpToRel(<, Nat)
<1>1. IsWellFoundedOn(R, Nat)
  BY NatLessThanWellFounded, Zenon
<1>2. \A x, y \in Nat : y < x => <<y, x>> \in R
  BY DEF OpToRel
<1> HIDE DEF R
<1>3. PICK x \in T : \A y \in T : ~(<<y, x>> \in R)
  BY <1>1, WFMin
<1>4. \A y \in T : ~(y < x)
  BY <1>2, <1>3
<1> QED
  BY <1>3, <1>4

(* Induction up to N, over the set of numbers for which the formula holds. *)
LEMMA UpTo ==
    ASSUME NEW N \in Nat, NEW S, 0 \in S, \A n \in 0..N - 1 : n \in S => n + 1 \in S
    PROVE  \A n \in 0..N : n \in S
<1> DEFINE T == {n \in 0..N : n \notin S}
<1>1. SUFFICES ASSUME T # {} PROVE FALSE
  OBVIOUS
<1>2. PICK m \in T : \A y \in T : m <= y
  <2>1. T \in SUBSET Nat
    OBVIOUS
  <2> HIDE DEF T
  <2> QED
    BY <1>1, <2>1, LeastNatural
<1>3. m # 0 /\ m \in 0..N /\ m \notin S
  BY <1>2
<1>4. m - 1 \in 0..N - 1 /\ m - 1 \notin T
  BY <1>2, <1>3
<1>5. m - 1 \in S
  BY <1>4
<1> QED
  BY <1>3, <1>4, <1>5

-----------------------------------------------------------------------------
(* Rows of names. *)

(* Rows that are the same have the same parts, if the first ones are as long. *)
LEMMA SplitAlike ==
    ASSUME NEW S, NEW a \in Seq(S), NEW b \in Seq(S), NEW s \in Seq(S), NEW t \in Seq(S),
           Len(a) = Len(b), a \o s = b \o t
    PROVE  a = b /\ s = t
<1>1. /\ Len(a \o s) = Len(a) + Len(s) /\ Len(b \o t) = Len(b) + Len(t)
      /\ \A i \in 1..Len(a) + Len(s) : (a \o s)[i] = IF i <= Len(a) THEN a[i] ELSE s[i - Len(a)]
      /\ \A i \in 1..Len(b) + Len(t) : (b \o t)[i] = IF i <= Len(b) THEN b[i] ELSE t[i - Len(b)]
      /\ Len(a) \in Nat /\ Len(s) \in Nat /\ Len(t) \in Nat
  BY ConcatProperties, LenProperties
<1>2. Len(s) = Len(t)
  BY <1>1
<1>3. \A i \in 1..Len(a) : a[i] = b[i]
  <2>1. SUFFICES ASSUME NEW i \in 1..Len(a) PROVE a[i] = b[i]
    OBVIOUS
  <2>2. i \in 1..Len(a) + Len(s) /\ i <= Len(a) /\ i \in 1..Len(b) + Len(t) /\ i <= Len(b)
    BY <1>1, <1>2
  <2> QED
    BY <1>1, <2>2
<1>4. \A i \in 1..Len(s) : s[i] = t[i]
  <2>1. SUFFICES ASSUME NEW i \in 1..Len(s) PROVE s[i] = t[i]
    OBVIOUS
  <2>2. /\ Len(a) + i \in 1..Len(a) + Len(s) /\ ~(Len(a) + i <= Len(a))
        /\ Len(a) + i \in 1..Len(b) + Len(t) /\ ~(Len(a) + i <= Len(b))
        /\ (Len(a) + i) - Len(a) = i /\ (Len(a) + i) - Len(b) = i
    BY <1>1, <1>2
  <2> QED
    BY <1>1, <2>2
<1> QED
  BY <1>2, <1>3, <1>4, SeqEqual

LEMMA RowOfOne ==
    ASSUME NEW S, NEW e \in S
    PROVE  <<e>> \in Seq(S)
  OBVIOUS

(* What is appended to a row is appended to its last part. *)
LEMMA AppendToConcat ==
    \A s \in Seq(Element), t \in Seq(Element), e \in Element :
        Append(s \o t, e) = s \o Append(t, e)
<1>1. SUFFICES ASSUME NEW s \in Seq(Element), NEW t \in Seq(Element), NEW e \in Element
               PROVE  Append(s \o t, e) = s \o Append(t, e)
  OBVIOUS
<1>2. s \o t \in Seq(Element) /\ <<e>> \in Seq(Element)
  BY ConcatProperties, RowOfOne
<1>3. Append(s \o t, e) = (s \o t) \o <<e>> /\ Append(t, e) = t \o <<e>>
  BY <1>2, AppendIsConcat
<1>4. (s \o t) \o <<e>> = s \o (t \o <<e>>)
  BY <1>2, ConcatAssociative
<1> QED
  BY <1>3, <1>4

(* A row without its last name, and that name. *)
LEMMA FrontAndLast ==
    ASSUME NEW S, NEW s \in Seq(S), s # <<>>
    PROVE  /\ Len(s) \in Nat \ {0}
           /\ Front(s) \in Seq(S) /\ Len(Front(s)) = Len(s) - 1
           /\ \A i \in 1..Len(s) - 1 : Front(s)[i] = s[i]
           /\ Last(s) = s[Len(s)] /\ Last(s) \in S
           /\ Front(s) \o <<Last(s)>> = s
<1>1. Len(s) \in Nat \ {0} /\ Last(s) = s[Len(s)] /\ Last(s) \in S
  BY DEF Last
<1>2. /\ Front(s) \in Seq(S) /\ Len(Front(s)) = Len(s) - 1
      /\ \A i \in 1..Len(s) - 1 : Front(s)[i] = s[i]
  <2> DEFINE n == Len(s) - 1
             r == SubSeq(s, 1, n)
  <2>1. /\ n \in Nat /\ 1 \in Int /\ n \in Int
        /\ (IF 1 <= n THEN n - 1 + 1 ELSE 0) = n /\ n - 1 + 1 = n
    <3>1. n \in Nat
      OBVIOUS
    <3> HIDE DEF n
    <3> QED
      BY <3>1
  <2>6. \A i \in 1..n : 1 + i - 1 = i
    BY <2>1
  <2>5. \A i \in 1..n : s[i] \in S
    <3>1. \A i \in 1..Len(s) : s[i] \in S
      OBVIOUS
    <3>2. \A i \in 1..n : i \in 1..Len(s)
      BY <1>1
    <3> HIDE DEF n
    <3> QED
      BY <3>1, <3>2
  <2>2. /\ r \in Seq(S) /\ Len(r) = IF 1 <= n THEN n - 1 + 1 ELSE 0
        /\ \A i \in 1..n - 1 + 1 : r[i] = s[1 + i - 1]
    <3> HIDE DEF n
    <3> QED
      BY <2>1, <2>5, SubSeqProperties
  <2>3. Front(s) = r
    BY DEF Front
  <2> HIDE DEF r, n
  <2>4. Front(s) \in Seq(S) /\ Len(Front(s)) = n /\ \A i \in 1..n : Front(s)[i] = s[i]
    BY <2>1, <2>2, <2>3, <2>6
  <2> QED
    BY <2>4 DEF n
<1>3. Front(s) \o <<Last(s)>> = s
  <2> DEFINE f == Front(s)
             l == Last(s)
  <2> HIDE DEF f, l
  <2>1. /\ Append(f, l) \in Seq(S) /\ Len(Append(f, l)) = Len(s)
        /\ \A i \in 1..Len(s) - 1 : Append(f, l)[i] = s[i]
        /\ Append(f, l)[Len(s)] = s[Len(s)]
    BY <1>1, <1>2, AppendProperties DEF f, l
  <2>2. Append(f, l) = s
    BY <1>1, <2>1, SeqEqual
  <2>3. Append(f, l) = f \o <<l>>
    BY <1>1, <1>2, AppendIsConcat DEF f, l
  <2> QED
    BY <2>2, <2>3 DEF f, l
<1> QED
  BY <1>1, <1>2, <1>3

(* The last name of a row made of two. *)
LEMMA FrontOfConcat ==
    ASSUME NEW a \in Seq(Element), NEW s \in Seq(Element), s # <<>>
    PROVE  /\ a \o s \in Seq(Element) /\ a \o s # <<>>
           /\ Front(a \o s) = a \o Front(s) /\ Last(a \o s) = Last(s)
<1> DEFINE f == Front(s)
           l == Last(s)
<1>1. f \in Seq(Element) /\ l \in Element /\ f \o <<l>> = s
  BY FrontAndLast
<1> HIDE DEF f, l
<1>2. (a \o f) \in Seq(Element) /\ Append(a \o f, l) = a \o s
  <2>1. Append(f, l) = s
    BY <1>1, AppendIsConcat
  <2>2. a \o f \in Seq(Element)
    BY <1>1, ConcatProperties
  <2>4. Append(a \o f, l) = a \o Append(f, l)
    BY <1>1, AppendToConcat, Zenon
  <2> QED
    BY <2>1, <2>2, <2>4
<1> DEFINE b == a \o f
           c == a \o s
<1>3. /\ b \in Seq(Element) /\ c = Append(b, l) /\ c \in Seq(Element)
      /\ Len(c) = Len(b) + 1 /\ Len(b) \in Nat
      /\ \A i \in 1..Len(b) : c[i] = b[i]
      /\ c[Len(c)] = l
  <2> HIDE DEF b
  <2>1. b \in Seq(Element) /\ c = Append(b, l)
    BY <1>2 DEF b
  <2> HIDE DEF c
  <2>2. /\ Len(b) \in Nat /\ Append(b, l) \in Seq(Element) /\ Len(Append(b, l)) = Len(b) + 1
        /\ \A i \in 1..Len(b) : Append(b, l)[i] = b[i]
        /\ Append(b, l)[Len(b) + 1] = l
    <3>1. b \in Seq(Element) /\ l \in Element
      BY <1>1, <2>1
    <3>2. Len(b) \in Nat /\ Append(b, l) \in Seq(Element)
      BY <3>1, LenProperties, AppendProperties
    <3>3. Len(Append(b, l)) = Len(b) + 1 /\ Append(b, l)[Len(b) + 1] = l
      BY <3>1, AppendProperties
    <3>4. \A i \in 1..Len(b) : Append(b, l)[i] = b[i]
      BY <3>1, AppendProperties
    <3> QED
      BY <3>2, <3>3, <3>4
  <2> QED
    BY <2>1, <2>2
<1> HIDE DEF b, c
<1>4. c # <<>> /\ Last(c) = l
  BY <1>3 DEF Last
<1>5. /\ Front(c) \in Seq(Element) /\ Len(Front(c)) = Len(b)
      /\ \A i \in 1..Len(b) : Front(c)[i] = c[i]
  <2>1. /\ Front(c) \in Seq(Element) /\ Len(Front(c)) = Len(c) - 1
        /\ \A i \in 1..Len(c) - 1 : Front(c)[i] = c[i]
    BY <1>3, <1>4, FrontAndLast
  <2>2. Len(c) - 1 = Len(b)
    BY <1>3
  <2> QED
    BY <2>1, <2>2
<1>6. Front(c) = b
  <2> DEFINE g == Front(c)
  <2> HIDE DEF g
  <2>1. g \in Seq(Element) /\ Len(g) = Len(b) /\ \A i \in 1..Len(g) : g[i] = b[i]
    BY <1>3, <1>5 DEF g
  <2>2. g = b
    BY <1>3, <2>1, SeqEqual
  <2> QED
    BY <2>2 DEF g
<1> QED
  BY <1>3, <1>4, <1>6 DEF b, c, f, l

(* What follows the first of two rows. *)
LEMMA RestOfConcat ==
    ASSUME NEW S, NEW a \in Seq(S), NEW f \in Seq(S)
    PROVE  SubSeq(a \o f, Len(a) + 1, Len(a \o f)) = f
<1> DEFINE b == a \o f
           r == SubSeq(b, Len(a) + 1, Len(b))
<1>1. /\ b \in Seq(S) /\ Len(b) = Len(a) + Len(f) /\ Len(a) \in Nat /\ Len(f) \in Nat
      /\ \A i \in 1..Len(a) + Len(f) : b[i] = IF i <= Len(a) THEN a[i] ELSE f[i - Len(a)]
  BY ConcatProperties, LenProperties
<1> HIDE DEF b
<1>2. \A i \in Len(a) + 1..Len(b) : b[i] \in S
  BY <1>1
<1>3. /\ r \in Seq(S)
      /\ Len(r) = IF Len(a) + 1 <= Len(b) THEN Len(b) - (Len(a) + 1) + 1 ELSE 0
      /\ \A i \in 1..Len(b) - (Len(a) + 1) + 1 : r[i] = b[(Len(a) + 1) + i - 1]
  BY <1>1, <1>2, SubSeqProperties
<1> HIDE DEF r
<1>4. Len(r) = Len(f)
  BY <1>1, <1>3
<1>5. \A i \in 1..Len(r) : r[i] = f[i]
  <2>1. SUFFICES ASSUME NEW i \in 1..Len(f) PROVE r[i] = f[i]
    BY <1>4
  <2>2. /\ i \in 1..Len(b) - (Len(a) + 1) + 1 /\ (Len(a) + 1) + i - 1 = Len(a) + i
        /\ Len(a) + i \in 1..Len(a) + Len(f) /\ ~(Len(a) + i <= Len(a))
        /\ (Len(a) + i) - Len(a) = i
    BY <1>1
  <2> QED
    BY <1>1, <1>3, <2>2
<1>6. r = f
  BY <1>3, <1>4, <1>5, SeqEqual
<1> QED
  BY <1>6 DEF r, b

(* What is left of a row without its first names. *)
Rest(s, n) == SubSeq(s, n + 1, Len(s))

LEMMA RestProperties ==
    ASSUME NEW S, NEW s \in Seq(S), NEW n \in 0..Len(s)
    PROVE  /\ Rest(s, n) \in Seq(S) /\ Len(Rest(s, n)) = Len(s) - n
           /\ \A i \in 1..Len(s) - n : Rest(s, n)[i] = s[n + i]
<1> DEFINE m == n + 1
           l == Len(s)
<1>1. m \in Int /\ l \in Nat /\ n \in Nat /\ n <= l
  OBVIOUS
<1>2. \A i \in m..l : s[i] \in S
  BY <1>1
<1>3. /\ (IF m <= l THEN l - m + 1 ELSE 0) = l - n /\ l - m + 1 = l - n
  BY <1>1
<1>4. \A i \in 1..l - n : m + i - 1 = n + i
  BY <1>1
<1>5. Rest(s, n) = SubSeq(s, m, l)
  BY DEF Rest
<1> HIDE DEF m, l
<1>6. /\ SubSeq(s, m, l) \in Seq(S)
      /\ Len(SubSeq(s, m, l)) = IF m <= l THEN l - m + 1 ELSE 0
      /\ \A i \in 1..l - m + 1 : SubSeq(s, m, l)[i] = s[m + i - 1]
  BY <1>1, <1>2, SubSeqProperties
<1>7. /\ Rest(s, n) \in Seq(S) /\ Len(Rest(s, n)) = l - n
      /\ \A i \in 1..l - n : Rest(s, n)[i] = s[n + i]
  BY <1>3, <1>4, <1>5, <1>6
<1> QED
  BY <1>7 DEF l

(* The last name of a row is the last one of what is left of it. *)
LEMMA RestAndLast ==
    ASSUME NEW q \in Seq(Element), q # <<>>, NEW n \in 0..Len(q) - 1
    PROVE  Rest(Front(q), n) \o <<Last(q)>> = Rest(q, n)
<1> DEFINE f == Front(q)
           l == Last(q)
           r == Rest(f, n)
           t == Rest(q, n)
<1>1. /\ Len(q) \in Nat \ {0} /\ f \in Seq(Element) /\ Len(f) = Len(q) - 1
      /\ \A i \in 1..Len(q) - 1 : f[i] = q[i]
      /\ l = q[Len(q)] /\ l \in Element
  BY FrontAndLast
<1> HIDE DEF f, l
<1>2. /\ r \in Seq(Element) /\ Len(r) = Len(f) - n
      /\ \A i \in 1..Len(f) - n : r[i] = f[n + i]
  <2>1. n \in 0..Len(f)
    BY <1>1
  <2> QED
    BY <1>1, <2>1, RestProperties
<1>3. /\ t \in Seq(Element) /\ Len(t) = Len(q) - n
      /\ \A i \in 1..Len(q) - n : t[i] = q[n + i]
  <2>1. n \in 0..Len(q)
    BY <1>1
  <2> QED
    BY <2>1, RestProperties
<1> HIDE DEF r, t
<1>4. Append(r, l) = r \o <<l>> /\ Append(r, l) \in Seq(Element)
  BY <1>1, <1>2, AppendIsConcat, AppendProperties
<1>5. Len(Append(r, l)) = Len(t)
  <2>1. Len(Append(r, l)) = Len(r) + 1
    BY <1>1, <1>2, AppendProperties
  <2> QED
    BY <1>1, <1>2, <1>3, <2>1
<1>6. \A i \in 1..Len(t) : Append(r, l)[i] = t[i]
  <2>1. SUFFICES ASSUME NEW i \in 1..Len(t) PROVE Append(r, l)[i] = t[i]
    OBVIOUS
  <2>2. CASE i = Len(t)
    <3>1. n + i = Len(q) /\ i = Len(r) + 1 /\ i \in 1..Len(q) - n
      BY <1>1, <1>2, <1>3, <2>2
    <3>2. t[i] = l
      BY <1>1, <1>3, <3>1
    <3>3. Append(r, l)[Len(r) + 1] = l
      BY <1>1, <1>2, AppendProperties
    <3> QED
      BY <3>1, <3>2, <3>3
  <2>3. CASE i # Len(t)
    <3>1. /\ i \in 1..Len(q) - n /\ i \in 1..Len(f) - n /\ i \in 1..Len(r)
          /\ n + i \in 1..Len(q) - 1
      <4> DEFINE k == Len(q)
      <4>1. k \in Nat /\ n \in Nat /\ i \in 1..k - n /\ i # k - n
        BY <1>1, <1>3, <2>3
      <4>2. Len(f) - n = k - n - 1 /\ Len(r) = k - n - 1
        BY <1>1, <1>2
      <4> HIDE DEF k
      <4>3. i \in 1..k - n - 1 /\ n + i \in 1..k - 1
        BY <4>1
      <4> QED
        BY <4>1, <4>2, <4>3 DEF k
    <3>2. t[i] = q[n + i] /\ r[i] = q[n + i]
      BY <1>1, <1>2, <1>3, <3>1
    <3>3. Append(r, l)[i] = r[i]
      BY <1>1, <1>2, <3>1
    <3> QED
      BY <3>2, <3>3
  <2> QED
    BY <2>2, <2>3
<1>7. Append(r, l) = t
  BY <1>3, <1>4, <1>5, <1>6, SeqEqual
<1> QED
  BY <1>4, <1>7 DEF f, l, r, t

(* Rows of which the same is left are the same, if they begin with the same. *)
LEMMA SameRest ==
    ASSUME NEW p \in Seq(Element), NEW s \in Seq(Element), NEW t \in Seq(Element),
           \E n \in 0..Len(p) : Rest(p \o s, n) = Rest(p \o t, n)
    PROVE  s = t
<1> DEFINE a == p \o s
           b == p \o t
<1>1. /\ a \in Seq(Element) /\ Len(a) = Len(p) + Len(s)
      /\ b \in Seq(Element) /\ Len(b) = Len(p) + Len(t)
      /\ Len(p) \in Nat /\ Len(s) \in Nat /\ Len(t) \in Nat
      /\ \A i \in 1..Len(p) + Len(s) : a[i] = IF i <= Len(p) THEN p[i] ELSE s[i - Len(p)]
      /\ \A i \in 1..Len(p) + Len(t) : b[i] = IF i <= Len(p) THEN p[i] ELSE t[i - Len(p)]
  BY ConcatProperties, LenProperties
<1>2. PICK n \in 0..Len(p) : Rest(a, n) = Rest(b, n)
  OBVIOUS
<1> HIDE DEF a, b
<1>3. /\ Len(Rest(a, n)) = Len(a) - n
      /\ \A i \in 1..Len(a) - n : Rest(a, n)[i] = a[n + i]
  <2>1. n \in 0..Len(a)
    BY <1>1
  <2> QED
    BY <1>1, <2>1, RestProperties
<1>4. /\ Len(Rest(b, n)) = Len(b) - n
      /\ \A i \in 1..Len(b) - n : Rest(b, n)[i] = b[n + i]
  <2>1. n \in 0..Len(b)
    BY <1>1
  <2> QED
    BY <1>1, <2>1, RestProperties
<1>5. Len(s) = Len(t)
  BY <1>1, <1>2, <1>3, <1>4
<1>6. ASSUME NEW i \in 1..Len(s) PROVE s[i] = t[i]
  <2> DEFINE k == Len(p) - n + i
  <2>1. /\ k \in 1..Len(a) - n /\ k \in 1..Len(b) - n /\ n + k = Len(p) + i
        /\ Len(p) + i \in 1..Len(p) + Len(s) /\ Len(p) + i \in 1..Len(p) + Len(t)
        /\ ~(Len(p) + i <= Len(p)) /\ (Len(p) + i) - Len(p) = i
    BY <1>1, <1>5
  <2> HIDE DEF k
  <2>2. a[n + k] = b[n + k]
    BY <1>2, <1>3, <1>4, <2>1
  <2>3. a[Len(p) + i] = s[i] /\ b[Len(p) + i] = t[i]
    BY <1>1, <2>1
  <2> QED
    BY <2>1, <2>2, <2>3
<1> QED
  BY <1>5, <1>6, SeqEqual

-----------------------------------------------------------------------------
(* Join. *)

(* The path after n elements of q. *)
JoinStep(p, q, f, n) == IF n = 0 THEN p ELSE Resolve(f[n - 1], q.elems[n])

(* Join is what its steps lead to. *)
LEMMA JoinSteps ==
    ASSUME NEW p, NEW q, Len(q.elems) \in Nat
    PROVE  \E f : /\ f = [n \in 0..Len(q.elems) |-> JoinStep(p, q, f, n)]
                  /\ Join(p, q) = f[Len(q.elems)]
<1> DEFINE N == Len(q.elems)
           Upto(g, m) == g = [n \in 0..m |-> JoinStep(p, q, g, n)]
           S == {m \in 0..N : \E g : Upto(g, m)}
<1>1. 0 \in S
  <2> DEFINE g == [n \in 0..0 |-> p]
  <2>1. g = [n \in 0..0 |-> JoinStep(p, q, g, n)]
    BY DEF JoinStep
  <2> QED
    BY <2>1
<1>2. ASSUME NEW m \in 0..N - 1, m \in S
      PROVE  m + 1 \in S
  <2>1. PICK g : Upto(g, m)
    BY <1>2
  <2> DEFINE h == [n \in 0..m + 1 |-> IF n = m + 1 THEN JoinStep(p, q, g, n) ELSE g[n]]
  <2>2. ASSUME NEW n \in 0..m + 1 PROVE h[n] = JoinStep(p, q, h, n)
    <3>1. CASE n = m + 1
      <4>1. h[n - 1] = g[n - 1] /\ h[n] = JoinStep(p, q, g, n)
        BY <3>1
      <4> HIDE DEF h
      <4> QED
        BY <4>1 DEF JoinStep
    <3>2. CASE n # m + 1
      <4>1. n \in 0..m
        BY <3>2
      <4>2. h[n] = g[n] /\ g[n] = JoinStep(p, q, g, n) /\ (n # 0 => h[n - 1] = g[n - 1])
        BY <2>1, <4>1
      <4> HIDE DEF h
      <4> QED
        BY <4>2 DEF JoinStep
    <3> QED
      BY <3>1, <3>2
  <2>3. h = [n \in 0..m + 1 |-> JoinStep(p, q, h, n)]
    <3>1. h = [n \in 0..m + 1 |-> h[n]]
      OBVIOUS
    <3> HIDE DEF h
    <3> QED
      BY <2>2, <3>1
  <2>4. m + 1 \in 0..N
    OBVIOUS
  <2>5. Upto(h, m + 1)
    BY <2>3
  <2> HIDE DEF h, Upto
  <2> QED
    BY <2>4, <2>5
<1>3. \A m \in 0..N : m \in S
  <2> HIDE DEF S
  <2> QED
    BY <1>1, <1>2, UpTo
<1>4. \E g : Upto(g, N)
  BY <1>3
<1> DEFINE join == CHOOSE f : f = [n \in 0..N |->
                        IF n = 0 THEN p ELSE Resolve(f[n - 1], q.elems[n])]
<1>5. \E f : f = [n \in 0..N |-> IF n = 0 THEN p ELSE Resolve(f[n - 1], q.elems[n])]
  BY <1>4 DEF JoinStep
<1>6. join = [n \in 0..N |-> IF n = 0 THEN p ELSE Resolve(join[n - 1], q.elems[n])]
  BY <1>5, Zenon
<1>7. Join(p, q) = join[N]
  BY DEF Join
<1> HIDE DEF join
<1> QED
  BY <1>6, <1>7 DEF JoinStep

LEMMA JoinOne ==
    ASSUME NEW p, NEW q, Len(q.elems) = 1
    PROVE  Join(p, q) = Resolve(p, q.elems[1])
<1> DEFINE N == Len(q.elems)
<1>1. N = 1 /\ N \in Nat
  OBVIOUS
<1>2. PICK f : /\ f = [n \in 0..N |-> JoinStep(p, q, f, n)]
               /\ Join(p, q) = f[N]
  BY <1>1, JoinSteps
<1> HIDE DEF N
<1>3. f[0] = p /\ f[1] = Resolve(f[0], q.elems[1])
  BY <1>1, <1>2 DEF JoinStep
<1> QED
  BY <1>1, <1>2, <1>3

(* The elements q has, one by one. *)
LEMMA ResolveType ==
    ASSUME NEW p \in Path, NEW e \in Element
    PROVE  Resolve(p, e) \in Path
<1>1. Append(p.elems, e) \in Seq(Element) /\ p.abs \in BOOLEAN
  BY DEF Path
<1>2. p.elems # <<>> => Front(p.elems) \in Seq(Element)
  <2> DEFINE s == p.elems
  <2>1. s \in Seq(Element)
    BY DEF Path
  <2> HIDE DEF s
  <2>2. Front(s) \in Seq(Element)
    BY <2>1, SubSeqProperties DEF Front
  <2> QED
    BY <2>2 DEF s
<1>3. /\ [p EXCEPT !.elems = Append(p.elems, e)] \in Path
      /\ p.elems # <<>> => [p EXCEPT !.elems = Front(p.elems)] \in Path
  BY <1>1, <1>2 DEF Path
<1> QED
  BY <1>3 DEF Resolve

(* Join makes a path. *)
LEMMA JoinType ==
    ASSUME NEW p \in Path, NEW q \in Path
    PROVE  Join(p, q) \in Path
<1> DEFINE N == Len(q.elems)
<1>1. q.elems \in Seq(Element) /\ N \in Nat
  BY DEF Path
<1>2. PICK f : /\ f = [n \in 0..N |-> JoinStep(p, q, f, n)]
               /\ Join(p, q) = f[N]
  BY <1>1, JoinSteps
<1> DEFINE S == {n \in 0..N : f[n] \in Path}
<1> HIDE DEF N
<1>3. 0 \in S
  BY <1>1, <1>2 DEF JoinStep
<1>4. ASSUME NEW n \in 0..N - 1, n \in S PROVE n + 1 \in S
  <2>1. n + 1 \in 0..N /\ n + 1 # 0 /\ (n + 1) - 1 = n
    BY <1>1
  <2>2. f[n + 1] = Resolve(f[n], q.elems[n + 1])
    BY <1>2, <2>1 DEF JoinStep
  <2>3. q.elems[n + 1] \in Element
    BY <1>1, <2>1 DEF N
  <2> QED
    BY <1>4, <2>1, <2>2, <2>3, ResolveType
<1>5. \A n \in 0..N : n \in S
  <2> HIDE DEF S
  <2> QED
    BY <1>1, <1>3, <1>4, UpTo
<1> QED
  BY <1>1, <1>2, <1>5

(* Join leaves a relative path relative, and an absolute one absolute. *)
LEMMA JoinAbs ==
    ASSUME NEW p \in Path, NEW q \in Path
    PROVE  Join(p, q).abs = p.abs
<1> DEFINE N == Len(q.elems)
           Good(x) == x \in Path /\ x.abs = p.abs
<1>1. q.elems \in Seq(Element) /\ N \in Nat
  BY DEF Path
<1>2. PICK f : /\ f = [n \in 0..N |-> JoinStep(p, q, f, n)]
               /\ Join(p, q) = f[N]
  BY <1>1, JoinSteps
<1> DEFINE S == {n \in 0..N : Good(f[n])}
<1> HIDE DEF N
<1>3. 0 \in S
  BY <1>1, <1>2 DEF JoinStep
<1>4. ASSUME NEW n \in 0..N - 1, n \in S PROVE n + 1 \in S
  <2>1. n + 1 \in 0..N /\ n + 1 # 0 /\ (n + 1) - 1 = n
    BY <1>1
  <2>2. f[n + 1] = Resolve(f[n], q.elems[n + 1])
    BY <1>2, <2>1 DEF JoinStep
  <2>3. q.elems[n + 1] \in Element
    BY <1>1, <2>1 DEF N
  <2>4. ASSUME NEW x \in Path, NEW e \in Element PROVE Resolve(x, e).abs = x.abs
    BY DEF Resolve, Path
  <2>5. Good(Resolve(f[n], q.elems[n + 1]))
    BY <1>4, <2>3, <2>4, ResolveType
  <2> HIDE DEF Good
  <2> QED
    BY <2>1, <2>2, <2>5
<1>5. \A n \in 0..N : n \in S
  <2> HIDE DEF S
  <2> QED
    BY <1>1, <1>3, <1>4, UpTo
<1> QED
  BY <1>1, <1>2, <1>5

(* Names are only ever added to a path. *)
LEMMA JoinPlain ==
    ASSUME NEW p \in Path, NEW q \in Path, Plain(q.elems)
    PROVE  Join(p, q) = [abs |-> p.abs, elems |-> p.elems \o q.elems]
<1> DEFINE N == Len(q.elems)
           Part(n) == SubSeq(q.elems, 1, n)
           Made(n) == [abs |-> p.abs, elems |-> p.elems \o Part(n)]
<1>1. q.elems \in Seq(Element) /\ p.elems \in Seq(Element) /\ N \in Nat
  BY DEF Path
<1>2. PICK f : /\ f = [n \in 0..N |-> JoinStep(p, q, f, n)]
               /\ Join(p, q) = f[N]
  BY <1>1, JoinSteps
<1> DEFINE S == {n \in 0..N : f[n] = Made(n)}
<1> HIDE DEF N
<1>3. 0 \in S
  <2>1. Part(0) = <<>>
    BY SubSeqEmpty
  <2>2. Made(0) = p
    BY <1>1, <2>1, ConcatEmptySeq DEF Path
  <2>3. f[0] = p
    BY <1>1, <1>2 DEF JoinStep
  <2>4. 0 \in 0..N /\ f[0] = Made(0)
    BY <1>1, <2>2, <2>3
  <2> HIDE DEF Made
  <2> QED
    BY <2>4
<1>4. ASSUME NEW n \in 0..N - 1, n \in S PROVE n + 1 \in S
  <2>1. n + 1 \in 0..N /\ n + 1 # 0 /\ (n + 1) - 1 = n /\ n + 1 \in 1..N
    BY <1>1
  <2> DEFINE e == q.elems[n + 1]
  <2>2. e \in Element /\ e # "." /\ e # ".."
    BY <1>1, <2>1 DEF Plain, N
  <2>3. f[n + 1] = Resolve(Made(n), e)
    BY <1>2, <1>4, <2>1 DEF JoinStep
  <2>4. Part(n) \in Seq(Element) /\ Part(n + 1) = Append(Part(n), e)
    BY <1>1, <2>1 DEF N
  <2>5. Resolve(Made(n), e) = [abs |-> p.abs, elems |-> Append(p.elems \o Part(n), e)]
    <3> HIDE DEF e, Part
    <3> QED
      BY <2>2 DEF Resolve
  <2>6. Append(p.elems \o Part(n), e) = p.elems \o Append(Part(n), e)
    <3> HIDE DEF e, Part
    <3> QED
      BY <1>1, <2>2, <2>4, AppendToConcat, Zenon
  <2>7. f[n + 1] = Made(n + 1)
    BY <2>3, <2>4, <2>5, <2>6
  <2> QED
    BY <2>1, <2>7
<1>5. \A n \in 0..N : n \in S
  <2> HIDE DEF S
  <2> QED
    BY <1>1, <1>3, <1>4, UpTo
<1>6. Part(N) = q.elems
  BY <1>1 DEF N
<1>7. f[N] = Made(N)
  <2> HIDE DEF Made
  <2> QED
    BY <1>1, <1>5
<1> QED
  BY <1>2, <1>6, <1>7

LEMMA Emptied ==
    ASSUME NEW p \in Path
    PROVE  LET z == [p EXCEPT !.elems = <<>>]
           IN  z \in Path /\ z.abs = p.abs /\ Plain(z.elems)
<1>1. ASSUME NEW s \in Seq(Element)
      PROVE  LET z == [p EXCEPT !.elems = s] IN z \in Path /\ z.abs = p.abs /\ z.elems = s
  BY <1>1 DEF Path
<1>2. <<>> \in Seq(Element)
  BY EmptySeq
<1> DEFINE z == [p EXCEPT !.elems = <<>>]
<1>3. z \in Path /\ z.abs = p.abs /\ z.elems = <<>>
  BY <1>1, <1>2
<1>4. Plain(z.elems)
  <2> HIDE DEF z
  <2> QED
    BY <1>3 DEF Plain
<1> QED
  BY <1>3, <1>4

LEMMA CleanType ==
    ASSUME NEW p \in Path
    PROVE  Clean(p) \in Path
<1>1. [p EXCEPT !.elems = <<>>] \in Path
  BY EmptySeq DEF Path
<1> QED
  BY <1>1, JoinType DEF Clean

(* Two relative paths. *)
LEMMA JoinRelative ==
    ASSUME NEW s \in Seq(Element), NEW t \in Seq(Element), Plain(t)
    PROVE  Join(Relative(s), Relative(t)) = Relative(s \o t)
<1>1. /\ Relative(s) \in Path /\ Relative(t) \in Path
      /\ Relative(s).elems = s /\ Relative(t).elems = t /\ Relative(s).abs = FALSE
  BY DEF Relative, Path
<1>2. Relative(s \o t) = [abs |-> FALSE, elems |-> s \o t]
  BY DEF Relative
<1> DEFINE p == Relative(s)
           q == Relative(t)
<1> HIDE DEF p, q
<1>3. Join(p, q) = [abs |-> p.abs, elems |-> p.elems \o q.elems]
  BY <1>1, JoinPlain DEF p, q
<1> QED
  BY <1>1, <1>2, <1>3 DEF p, q

LEMMA CleanPlain ==
    ASSUME NEW s \in Seq(Element), Plain(s)
    PROVE  Clean(Relative(s)) = Relative(s)
<1>1. [Relative(s) EXCEPT !.elems = <<>>] = Relative(<<>>)
  <2>1. ASSUME NEW r \in Path, NEW none \in Seq(Element)
        PROVE  [r EXCEPT !.elems = none] = [abs |-> r.abs, elems |-> none]
    BY DEF Path
  <2>2. Relative(s) \in Path /\ Relative(s).abs = FALSE
    BY DEF Relative, Path
  <2>3. <<>> \in Seq(Element)
    BY EmptySeq
  <2>4. [Relative(s) EXCEPT !.elems = <<>>] = [abs |-> Relative(s).abs, elems |-> <<>>]
    BY <2>1, <2>2, <2>3
  <2> QED
    BY <2>2, <2>4 DEF Relative
<1>2. Join(Relative(<<>>), Relative(s)) = Relative(<<>> \o s)
  BY EmptySeq, JoinRelative
<1>3. <<>> \o s = s
  BY ConcatEmptySeq
<1> QED
  BY <1>1, <1>2, <1>3 DEF Clean

(* Absolute paths stay so, and no ".." stays in them. *)
LEMMA ResolveAbsolute ==
    ASSUME NEW p \in Path, p.abs, Plain(p.elems), NEW e \in Element
    PROVE  /\ Resolve(p, e) \in Path /\ Resolve(p, e).abs
           /\ Plain(Resolve(p, e).elems)
<1> DEFINE s == p.elems
<1>1. s \in Seq(Element) /\ Plain(s)
  BY DEF Path
<1>2. ASSUME NEW x \in Seq(Element), Plain(x)
      PROVE  LET q == [p EXCEPT !.elems = x] IN q \in Path /\ q.abs /\ Plain(q.elems)
  BY <1>2 DEF Path
<1>3. CASE e = "."
  BY <1>3 DEF Resolve
<1>4. CASE e # "." /\ e # ".."
  <2>1. Append(s, e) \in Seq(Element) /\ Plain(Append(s, e))
    <3> HIDE DEF s
    <3> QED
      BY <1>1, <1>4 DEF Plain
  <2>2. Resolve(p, e) = [p EXCEPT !.elems = Append(s, e)]
    BY <1>4 DEF Resolve
  <2> HIDE DEF s
  <2> QED
    BY <1>2, <2>1, <2>2
<1>5. CASE e = ".." /\ s # <<>>
  <2> DEFINE f == Front(s)
  <2>1. /\ Len(s) \in Nat \ {0} /\ f \in Seq(Element) /\ Len(f) = Len(s) - 1
        /\ \A i \in 1..Len(s) - 1 : f[i] = s[i]
        /\ Last(s) = s[Len(s)]
    <3> HIDE DEF s
    <3> QED
      BY <1>1, <1>5, FrontAndLast
  <2>2. Plain(f) /\ Last(s) # ".."
    <3> HIDE DEF s, f
    <3> QED
      BY <1>1, <2>1 DEF Plain
  <2>3. Resolve(p, e) = [p EXCEPT !.elems = f]
    BY <1>5, <2>2 DEF Resolve
  <2> HIDE DEF s, f
  <2> QED
    BY <1>2, <2>1, <2>2, <2>3
<1>6. CASE e = ".." /\ s = <<>>
  BY <1>6 DEF Resolve
<1> QED
  BY <1>3, <1>4, <1>5, <1>6

LEMMA JoinAbsolute ==
    ASSUME NEW p \in Path, p.abs, Plain(p.elems), NEW q \in Path
    PROVE  /\ Join(p, q) \in Path /\ Join(p, q).abs
           /\ Plain(Join(p, q).elems)
<1> DEFINE N == Len(q.elems)
           Good(x) == x \in Path /\ x.abs /\ Plain(x.elems)
<1>1. q.elems \in Seq(Element) /\ N \in Nat
  BY DEF Path
<1>2. PICK f : /\ f = [n \in 0..N |-> JoinStep(p, q, f, n)]
               /\ Join(p, q) = f[N]
  BY <1>1, JoinSteps
<1> DEFINE S == {n \in 0..N : Good(f[n])}
<1> HIDE DEF N
<1>3. 0 \in S
  <2>1. f[0] = p /\ 0 \in 0..N
    BY <1>1, <1>2 DEF JoinStep
  <2> QED
    BY <2>1
<1>4. ASSUME NEW n \in 0..N - 1, n \in S PROVE n + 1 \in S
  <2>1. n + 1 \in 0..N /\ n + 1 # 0 /\ (n + 1) - 1 = n
    BY <1>1
  <2>2. f[n + 1] = Resolve(f[n], q.elems[n + 1])
    BY <1>2, <2>1 DEF JoinStep
  <2>3. q.elems[n + 1] \in Element
    BY <1>1, <2>1 DEF N
  <2>4. Good(f[n])
    BY <1>4
  <2>5. Good(Resolve(f[n], q.elems[n + 1]))
    BY <2>3, <2>4, ResolveAbsolute
  <2> HIDE DEF Good
  <2> QED
    BY <2>1, <2>2, <2>5
<1>5. \A n \in 0..N : n \in S
  <2> HIDE DEF S
  <2> QED
    BY <1>1, <1>3, <1>4, UpTo
<1> QED
  BY <1>1, <1>2, <1>5
=============================================================================
