---------------------------- MODULE RivalProofs -----------------------------
(***************************************************************************)
(* Theorems about RivalBuilds, for any set of configurations, any builds   *)
(* and archives of any number of blocks.                                   *)
(***************************************************************************)
EXTENDS RivalInvariant, SequenceTheorems, TLAPS

-----------------------------------------------------------------------------
(* Rows of blocks. *)

(* A function on 1..n is a row of n blocks. *)
LEMMA RowIsSeq ==
    ASSUME NEW S, NEW n \in Nat, NEW f \in [1..n -> S]
    PROVE  f \in Seq(S) /\ Len(f) = n
<1>1. f \in Seq(S)
  BY SeqDef
<1>2. DOMAIN f = 1..Len(f) /\ Len(f) \in Nat
  BY <1>1, LenProperties
<1>3. DOMAIN f = 1..n
  OBVIOUS
<1> QED
  BY <1>1, <1>2, <1>3

(* The empty row. *)
LEMMA NothingIsThere == Nothing \in Objects /\ Len(Nothing.blocks) = 0 /\ ToSet(Nothing.blocks) = {}
BY EmptySeq DEF Nothing, Objects, ToSet

(* A part of the archive of x is an object of its n blocks, all of x. *)
LEMMA PartIsObject ==
    ASSUME NEW x \in Builds, NEW n \in Nat
    PROVE  /\ Part(x, n) \in Objects
           /\ Part(x, n).owner = x
           /\ Len(Part(x, n).blocks) = n
           /\ \A k \in 1..n : Part(x, n).blocks[k] = x
           /\ ToSet(Part(x, n).blocks) \subseteq {x}
<1> DEFINE f == [k \in 1..n |-> x]
<1>1. f \in [1..n -> Builds \cup {Nobody}]
  OBVIOUS
<1>2. f \in Seq(Builds \cup {Nobody}) /\ Len(f) = n
  BY <1>1, RowIsSeq
<1> QED
  BY <1>1, <1>2 DEF Part, Objects, ToSet

(* A block that is written to a file is there, those that were there stay or
   are its own, and the file is as long as it must be. *)
LEMMA WithBlockRow ==
    ASSUME NEW s \in Seq(Builds \cup {Nobody}), NEW k \in Nat \ {0}, NEW b \in Builds
    PROVE  /\ WithBlock(s, k, b) \in Seq(Builds \cup {Nobody})
           /\ Len(WithBlock(s, k, b)) = IF k > Len(s) THEN k ELSE Len(s)
           /\ WithBlock(s, k, b)[k] = b
           /\ \A j \in 1..Len(s) : WithBlock(s, k, b)[j] = IF j = k THEN b ELSE s[j]
           /\ ToSet(WithBlock(s, k, b)) \subseteq ToSet(s) \cup {b, Nobody}
<1> DEFINE t == WithBlock(s, k, b)
           n == IF k > Len(s) THEN k ELSE Len(s)
<1>1. Len(s) \in Nat /\ n \in Nat /\ k \in 1..n /\ 1..Len(s) \subseteq 1..n
  BY LenProperties
<1>2. \A j \in 1..Len(s) : s[j] \in Builds \cup {Nobody} /\ s[j] \in ToSet(s)
  BY ElementOfSeq, LenProperties DEF ToSet
<1>3. t = [j \in 1..n |-> IF j = k THEN b ELSE IF j <= Len(s) THEN s[j] ELSE Nobody]
  BY DEF WithBlock
<1>4. t \in [1..n -> Builds \cup {Nobody}]
  BY <1>1, <1>2, <1>3
<1>5. t \in Seq(Builds \cup {Nobody}) /\ Len(t) = n
  BY <1>1, <1>4, RowIsSeq
<1>6. ToSet(t) \subseteq ToSet(s) \cup {b, Nobody}
  <2> SUFFICES ASSUME NEW j \in 1..n PROVE t[j] \in ToSet(s) \cup {b, Nobody}
    BY <1>4 DEF ToSet
  <2> QED
    BY <1>1, <1>2, <1>3
<1> QED
  BY <1>1, <1>3, <1>5, <1>6

-----------------------------------------------------------------------------
(* The inductive invariant. *)

(* What a step of b leaves alone, whatever it does. *)
Frame(b) ==
    /\ UNCHANGED <<conf, mode, size>>
    /\ There => There'
    /\ \A c \in Builds \ {b} :
        /\ pc'[c] = pc[c] /\ at'[c] = at[c] /\ opened'[c] = opened[c]
        /\ got'[c] = got[c] /\ res'[c] = res[c]

(* So the other builds are where they were, and see no less. *)
LEMMA OthersKeep ==
    ASSUME NEW b \in Builds, Frame(b), NEW c \in Builds \ {b}, BuildInv(c)
    PROVE  BuildInv(c)'
<1>1. InPlace' = InPlace
  BY DEF Frame, InPlace
<1>2. \A o : Committed(o)' <=> Committed(o)
  BY DEF Frame, Committed
<1>3. Rebuilds(c)' = Rebuilds(c)
  BY DEF Frame, Rebuilds
<1>4. OneArchive(c)' <=> OneArchive(c)
  BY DEF Frame, OneArchive
<1>5. CASE Rebuilds(c)
  <2>1. RebuildInv(c)'
    BY <1>1, <1>5 DEF Frame, BuildInv, RebuildInv
  <2> QED
    BY <1>3, <1>5, <2>1 DEF Frame, BuildInv
<1>6. CASE ~Rebuilds(c)
  <2>1. RestoreInv(c)'
    BY <1>1, <1>2, <1>4, <1>6 DEF Frame, BuildInv, RestoreInv
  <2> QED
    BY <1>3, <1>6, <2>1 DEF Frame, BuildInv
<1> QED
  BY <1>5, <1>6

(* A step that leaves the object alone, and the build that has truncated the
   file past its creation, leaves the object what it is said to be. *)
LEMMA ObjectKeeps ==
    ASSUME NEW b \in Builds, Frame(b), object' = object, ObjectInv,
           InPlace /\ object.owner = b =>
               /\ pc'[b] \in {"copy", "close", "over"} /\ at'[b] = at[b]
               /\ res'[b] = "ok" => res[b] = "ok" \/ at[b] = size[b]
    PROVE  ObjectInv'
<1>1. InPlace' = InPlace
  BY DEF Frame, InPlace
<1>2. CASE InPlace
  <2>1. CASE object = Nothing
    BY <1>1, <1>2, <2>1 DEF ObjectInv, File, Nothing
  <2>2. CASE object # Nothing
    BY <1>1, <1>2, <2>2 DEF Frame, ObjectInv, File, Rebuilds, Nothing
  <2> QED
    BY <2>1, <2>2
<1>3. CASE ~InPlace
  BY <1>1, <1>3 DEF Frame, ObjectInv, Committed
<1> QED
  BY <1>2, <1>3

(* A build that has not created the file is not the one that has truncated it,
   and no build is that does not rebuild. *)
LEMMA NotTheOwner ==
    ASSUME RivalsInv, NEW b \in Builds, InPlace,
           pc[b] \notin {"copy", "close", "over"} \/ ~Rebuilds(b)
    PROVE  object.owner # b
BY NobodyAssumption DEF RivalsInv, ObjectInv, File, Nothing

(* What a step of b has to keep, then. *)
LEMMA StepKeeps ==
    ASSUME RivalsInv, NEW b \in Builds,
           Frame(b), BuildsTypeOK', ObjectInv', BuildInv(b)'
    PROVE  RivalsInv' /\ Frame(b)
BY OthersKeep DEF RivalsInv

-----------------------------------------------------------------------------
(* The steps of a build that rebuilds. *)

(* Exists. *)
LEMMA AskKeeps ==
    ASSUME RivalsInv, NEW b \in Builds, Ask(b)
    PROVE  RivalsInv' /\ Frame(b)
<1>1. BuildsTypeOK /\ BuildInv(b) /\ pc[b] = "ask"
  BY DEF RivalsInv, Ask
<1>2. Rebuilds(b)
  BY <1>1 DEF BuildInv, RestoreInv
<1>3. BuildsTypeOK'
  BY <1>1 DEF Ask, BuildsTypeOK, Goto, Returns, Put
<1>4. Frame(b)
  BY <1>1 DEF Ask, BuildsTypeOK, Goto, Returns, Frame, There
<1>5. BuildInv(b)'
  BY <1>1, <1>2 DEF BuildInv, RebuildInv, Rebuilds, Ask, BuildsTypeOK, Goto, Returns, Put, InPlace, There, CopyGoroutine
<1>6. ObjectInv'
  <2>1. object' = object /\ ObjectInv
    BY DEF RivalsInv, Ask
  <2>2. InPlace => object.owner # b
    BY <1>1, NotTheOwner
  <2> QED
    BY <1>4, <2>1, <2>2, ObjectKeeps
<1> QED
  BY <1>3, <1>4, <1>5, <1>6, StepKeeps

(* The file is created. *)
LEMMA CreateKeeps ==
    ASSUME RivalsInv, NEW b \in Builds, Create(b)
    PROVE  RivalsInv' /\ Frame(b)
<1>1. BuildsTypeOK /\ BuildInv(b) /\ pc[b] = "create"
  BY DEF RivalsInv, Create
<1>2. Rebuilds(b) /\ InPlace /\ InPlace' /\ at[b] = 0
  BY <1>1 DEF BuildInv, RestoreInv, RebuildInv, Create, InPlace
<1>3. CASE object' = [owner |-> b, blocks |-> <<>>] /\ Goto(b, "copy") /\ UNCHANGED res
  <2>1. Len(object'.blocks) = 0 /\ object'.blocks \in Seq(Builds \cup {Nobody})
    BY <1>3, EmptySeq
  <2>2. object' \in Objects
    BY <1>3, <2>1 DEF Objects
  <2>3. BuildsTypeOK'
    BY <1>1, <1>3, <2>1, <2>2, BlocksAssumption DEF Create, BuildsTypeOK, Goto
  <2>4. There'
    BY <1>3, NobodyAssumption DEF There
  <2>5. Frame(b)
    BY <1>1, <1>3, <2>4 DEF Create, BuildsTypeOK, Goto, Frame
  <2>6. BuildInv(b)'
    BY <1>1, <1>2, <1>3, <2>4 DEF BuildInv, RebuildInv, Rebuilds, Create, BuildsTypeOK, Goto
  <2>7. File(object)'
    BY <1>1, <1>2, <1>3, <2>1 DEF File, Rebuilds, BuildInv, Create, BuildsTypeOK, Goto
  <2> QED
    BY <1>2, <2>3, <2>5, <2>6, <2>7, StepKeeps DEF ObjectInv
<1>4. CASE UNCHANGED object /\ (Returns(b, "err") \/ MkdirFails(b))
  <2>1. BuildsTypeOK'
    BY <1>1, <1>4 DEF Create, BuildsTypeOK, Goto, Returns, MkdirFails
  <2>2. Frame(b)
    BY <1>1, <1>4 DEF Create, BuildsTypeOK, Goto, Returns, MkdirFails, Frame, There
  <2>3. BuildInv(b)'
    BY <1>1, <1>2, <1>4 DEF BuildInv, RebuildInv, Rebuilds, Create, BuildsTypeOK, Goto, Returns, MkdirFails, There
  <2>4. object.owner # b
    BY <1>1, <1>2, NotTheOwner
  <2> QED
    BY <1>4, <2>1, <2>2, <2>3, <2>4, ObjectKeeps, StepKeeps DEF RivalsInv
<1> QED
  BY <1>3, <1>4 DEF Create

(* The next block is copied.  In place: one block more is there, and none that
   was written is lost. *)
LEMMA CopyBlockKeeps ==
    ASSUME RivalsInv, NEW b \in Builds, CopyBlock(b)
    PROVE  RivalsInv' /\ Frame(b)
<1>1. BuildsTypeOK /\ BuildInv(b) /\ ObjectInv /\ pc[b] = "copy" /\ at[b] < size[b]
  BY DEF RivalsInv, CopyBlock
<1>2. Rebuilds(b) /\ InPlace' = InPlace /\ (InPlace => There)
  BY <1>1 DEF BuildInv, RestoreInv, RebuildInv, CopyBlock, InPlace
<1>3. /\ at[b] \in Nat /\ size[b] \in Nat /\ at[b] + 1 <= size[b] /\ size[b] <= MaxBlocks
      /\ at' \in [Builds -> 0..MaxBlocks] /\ at'[b] = at[b] + 1
      /\ \A c \in Builds \ {b} : at'[c] = at[c]
  BY <1>1, BlocksAssumption DEF BuildsTypeOK, CopyBlock
<1>4. CASE InPlace
  <2> DEFINE s == object.blocks
             t == WithBlock(s, at[b] + 1, b)
  <2>1. /\ object' = [owner |-> object.owner, blocks |-> t]
        /\ object.owner \in Builds /\ s \in Seq(Builds \cup {Nobody})
    BY <1>1, <1>2, <1>4 DEF CopyBlock, BuildsTypeOK, Objects, There
  <2> HIDE DEF t
  <2>2. /\ t \in Seq(Builds \cup {Nobody})
        /\ Len(t) = IF at[b] + 1 > Len(s) THEN at[b] + 1 ELSE Len(s)
        /\ t[at[b] + 1] = b
        /\ \A j \in 1..Len(s) : t[j] = IF j = at[b] + 1 THEN b ELSE s[j]
    <3>1. at[b] + 1 \in Nat \ {0} /\ s \in Seq(Builds \cup {Nobody})
      BY <1>3, <2>1
    <3> QED
      BY <3>1, WithBlockRow DEF t
  <2>3. Len(s) \in Nat /\ Len(s) <= MaxBlocks
    BY <1>1, <2>1, LenProperties DEF BuildsTypeOK
  <2>4. object' \in Objects /\ Len(object'.blocks) <= MaxBlocks
    BY <1>3, <2>1, <2>2, <2>3, BlocksAssumption DEF Objects
  <2>5. BuildsTypeOK'
    BY <1>1, <1>3, <2>4 DEF CopyBlock, BuildsTypeOK
  <2>6. There' /\ Frame(b)
    BY <1>2, <1>3, <1>4, <2>1 DEF CopyBlock, Frame, There
  <2>7. BuildInv(b)'
    BY <1>1, <1>2, <1>3, <2>6 DEF BuildInv, RebuildInv, Rebuilds, CopyBlock
  <2>8. /\ Len(s) <= Len(t) /\ Len(t) \in Nat
        /\ \A j \in 1..Len(s) : s[j] # Nobody => t[j] # Nobody
    <3>1. b # Nobody
      BY NobodyAssumption
    <3>2. Len(s) <= Len(t) /\ Len(t) \in Nat
      BY <1>3, <2>2, <2>3
    <3> QED
      BY <2>2, <3>1, <3>2
  <2>9. File(object)'
    <3> DEFINE x == object.owner
    <3>1. object # Nothing
      BY <1>2, <1>4 DEF There, Nothing
    <3>2. /\ x \in Builds /\ Rebuilds(x) /\ pc[x] \in {"copy", "close", "over"}
          /\ at[x] <= Len(s) /\ \A k \in 1..at[x] : s[k] # Nobody
          /\ res[x] = "ok" => at[x] = size[x]
      BY <1>1, <1>4, <3>1 DEF ObjectInv, File
    <3>3. object'.owner = x /\ object'.blocks = t
      BY <2>1
    <3>4. /\ Rebuilds(x)' /\ pc'[x] \in {"copy", "close", "over"}
          /\ res'[x] = "ok" => at'[x] = size'[x]
      BY <1>1, <1>3, <3>2 DEF Rebuilds, CopyBlock, BuildInv
    <3>5. at'[x] <= Len(t) /\ \A k \in 1..at'[x] : t[k] # Nobody
      <4>1. CASE x = b
        BY <1>3, <2>2, <2>3, <3>2, <4>1, NobodyAssumption
      <4>2. CASE x # b
        <5>1. at'[x] = at[x] /\ at[x] \in Nat
          BY <1>1, <1>3, <3>2, <4>2, BlocksAssumption DEF BuildsTypeOK
        <5> QED
          BY <2>8, <3>2, <5>1
      <4> QED
        BY <4>1, <4>2
    <3> QED
      BY <3>2, <3>3, <3>4, <3>5 DEF File
  <2> QED
    BY <1>2, <1>4, <2>5, <2>6, <2>7, <2>9, StepKeeps DEF ObjectInv
<1>5. CASE ~InPlace
  <2>1. object' = object
    BY <1>5 DEF CopyBlock
  <2>2. BuildsTypeOK'
    BY <1>1, <1>3, <2>1 DEF CopyBlock, BuildsTypeOK
  <2>3. Frame(b)
    BY <1>3, <2>1 DEF CopyBlock, Frame, There
  <2>4. BuildInv(b)'
    BY <1>1, <1>2, <1>3, <1>5, <2>1 DEF BuildInv, RebuildInv, Rebuilds, CopyBlock, There
  <2>5. ObjectInv'
    BY <1>1, <1>5, <2>1, <2>3, ObjectKeeps
  <2> QED
    BY <2>2, <2>3, <2>4, <2>5, StepKeeps
<1> QED
  BY <1>4, <1>5

(* Copying fails. *)
LEMMA CopyFailsKeeps ==
    ASSUME RivalsInv, NEW b \in Builds, CopyFails(b)
    PROVE  RivalsInv' /\ Frame(b)
<1>1. BuildsTypeOK /\ BuildInv(b) /\ ObjectInv /\ pc[b] = "copy"
  BY DEF RivalsInv, CopyFails
<1>2. Rebuilds(b) /\ InPlace' = InPlace
  BY <1>1 DEF BuildInv, RestoreInv, CopyFails, InPlace
<1>3. /\ res' \in [Builds -> {"none", "ok", "err"}] /\ pc'[b] \in {"over", "cut"}
      /\ pc'[b] = "cut" => conf.kind = "gcs" /\ res'[b] = "err"
      /\ res[b] # "ok" /\ res'[b] # "ok"
  BY <1>1 DEF BuildInv, CopyFails, Goto, Returns, BuildsTypeOK
<1>4. BuildsTypeOK'
  <2>1. pc' \in [Builds -> {"ask", "create", "copy", "cut", "open", "read", "close", "over"}]
    BY <1>1 DEF CopyFails, BuildsTypeOK, Goto, Returns
  <2> QED
    BY <1>1, <1>3, <2>1 DEF CopyFails, BuildsTypeOK
<1>5. Frame(b)
  BY <1>1 DEF CopyFails, BuildsTypeOK, Goto, Returns, Frame, There
<1>6. BuildInv(b)'
  BY <1>1, <1>2, <1>3 DEF BuildInv, RebuildInv, Rebuilds, CopyFails
<1>7. InPlace => pc'[b] = "over"
  BY <1>3 DEF InPlace
<1>8. ObjectInv'
  BY <1>1, <1>3, <1>5, <1>7, ObjectKeeps DEF CopyFails
<1> QED
  BY <1>4, <1>5, <1>6, <1>8, StepKeeps

(* What has been uploaded is a part of one archive. *)
LEMMA UploadedIsPart ==
    ASSUME BuildsTypeOK, NEW b \in Builds, RebuildInv(b), Rebuilds(b), object' = Uploaded(b)
    PROVE  /\ object' = Part(b, at[b]) /\ at[b] \in 0..size[b]
           /\ object' \in Objects /\ Len(object'.blocks) <= MaxBlocks
           /\ There'
<1>1. /\ at[b] \in Nat /\ size[b] \in Nat /\ at[b] <= size[b] /\ at[b] <= MaxBlocks
  BY BlocksAssumption DEF BuildsTypeOK, RebuildInv
<1>2. object' = Part(b, at[b])
  BY DEF Uploaded, Part
<1> QED
  BY <1>1, <1>2, PartIsObject, NobodyAssumption DEF There

(* The upload is committed, or the file closed. *)
LEMMA StoreKeeps ==
    ASSUME RivalsInv, NEW b \in Builds, Store(b)
    PROVE  RivalsInv' /\ Frame(b)
<1>1. BuildsTypeOK /\ BuildInv(b) /\ ObjectInv /\ pc[b] = "copy" /\ at[b] = size[b]
  BY DEF RivalsInv, Store
<1>2. Rebuilds(b) /\ RebuildInv(b) /\ InPlace' = InPlace
  BY <1>1 DEF BuildInv, RestoreInv, Store, InPlace
<1>3. /\ pc' \in [Builds -> {"ask", "create", "copy", "cut", "open", "read", "close", "over"}]
      /\ pc'[b] = "close" /\ \A c \in Builds \ {b} : pc'[c] = pc[c]
  BY <1>1 DEF Store, Goto, BuildsTypeOK
<1>4. /\ object' \in Objects /\ Len(object'.blocks) <= MaxBlocks /\ There'
      /\ ~InPlace => object' = Part(b, at[b])
  <2>1. CASE InPlace
    BY <1>1, <1>2, <2>1 DEF Store, BuildsTypeOK, RebuildInv, There
  <2>2. CASE ~InPlace
    BY <1>1, <1>2, <2>2, UploadedIsPart DEF Store
  <2> QED
    BY <2>1, <2>2
<1>5. BuildsTypeOK'
  BY <1>1, <1>3, <1>4 DEF Store, BuildsTypeOK
<1>6. Frame(b)
  BY <1>3, <1>4 DEF Store, Frame
<1>7. BuildInv(b)'
  BY <1>1, <1>2, <1>3, <1>4 DEF BuildInv, RebuildInv, Rebuilds, Store
<1>8. ObjectInv'
  <2>1. CASE InPlace
    <3>1. object' = object /\ res' = res /\ at' = at
      BY <2>1 DEF Store
    <3> QED
      BY <1>1, <1>3, <1>6, <3>1, ObjectKeeps
  <2>2. CASE ~InPlace
    <3>1. object' = Part(b, size[b]) /\ size' = size /\ size[b] \in Nat
      BY <1>1, <1>4, <2>2, BlocksAssumption DEF Store, BuildsTypeOK
    <3>2. object' = Part(b, size[b])' /\ size[b]' \in 0..size[b]'
      BY <3>1 DEF Part
    <3>3. Committed(object)'
      BY <3>2 DEF Committed
    <3> QED
      BY <1>2, <2>2, <3>3 DEF ObjectInv
  <2> QED
    BY <2>1, <2>2
<1> QED
  BY <1>5, <1>6, <1>7, <1>8, StepKeeps

(* gcs commits what it has. *)
LEMMA StoreCutKeeps ==
    ASSUME RivalsInv, NEW b \in Builds, StoreCut(b)
    PROVE  RivalsInv' /\ Frame(b)
<1>1. BuildsTypeOK /\ BuildInv(b) /\ pc[b] = "cut"
  BY DEF RivalsInv, StoreCut
<1>2. Rebuilds(b) /\ RebuildInv(b) /\ conf.kind = "gcs" /\ res[b] = "err"
  BY <1>1 DEF BuildInv, RestoreInv, RebuildInv
<1>3. ~InPlace /\ ~InPlace'
  BY <1>2 DEF StoreCut, InPlace
<1>4. /\ pc' \in [Builds -> {"ask", "create", "copy", "cut", "open", "read", "close", "over"}]
      /\ pc'[b] = "over" /\ \A c \in Builds \ {b} : pc'[c] = pc[c]
  BY <1>1 DEF StoreCut, Goto, BuildsTypeOK
<1>5. /\ object' = Part(b, at[b]) /\ at[b] \in 0..size[b]
      /\ object' \in Objects /\ Len(object'.blocks) <= MaxBlocks /\ There'
  BY <1>1, <1>2, UploadedIsPart DEF StoreCut
<1>6. BuildsTypeOK'
  BY <1>1, <1>4, <1>5 DEF StoreCut, BuildsTypeOK
<1>7. Frame(b)
  BY <1>4, <1>5 DEF StoreCut, Frame
<1>8. BuildInv(b)'
  BY <1>1, <1>2, <1>4 DEF BuildInv, RebuildInv, Rebuilds, StoreCut
<1>9. Committed(object)'
  BY <1>2, <1>5 DEF Committed, Part, StoreCut
<1> QED
  BY <1>3, <1>6, <1>7, <1>8, <1>9, StepKeeps DEF ObjectInv

(* The deadline of Put passes. *)
LEMMA PutTimeoutKeeps ==
    ASSUME RivalsInv, NEW b \in Builds, PutTimeout(b)
    PROVE  RivalsInv' /\ Frame(b)
<1>1. BuildsTypeOK /\ BuildInv(b) /\ ObjectInv /\ Rebuilds(b)
  BY DEF RivalsInv, PutTimeout, Rebuilds
<1>2. /\ pc[b] \in {"create", "copy", "close"} /\ res[b] = "none"
      /\ res'[b] = "err" /\ pc'[b] \in {pc[b], "over"}
  BY <1>1 DEF PutTimeout, Goto, BuildsTypeOK
<1>3. BuildsTypeOK'
  BY <1>1 DEF PutTimeout, BuildsTypeOK, Goto
<1>4. Frame(b)
  BY <1>1 DEF PutTimeout, BuildsTypeOK, Goto, Frame, There
<1>5. BuildInv(b)'
  BY <1>1, <1>2 DEF BuildInv, RebuildInv, Rebuilds, PutTimeout, InPlace, There
<1>6. object' = object /\ at'[b] = at[b]
  BY DEF PutTimeout
<1>7. InPlace /\ object.owner = b => pc'[b] \in {"copy", "close", "over"}
  BY <1>2, NotTheOwner
<1> QED
  BY <1>1, <1>2, <1>3, <1>4, <1>5, <1>6, <1>7, ObjectKeeps, StepKeeps

-----------------------------------------------------------------------------
(* The steps of a build that restores. *)

(* What storage has committed is the row of one build. *)
LEMMA CommittedRow ==
    ASSUME BuildsTypeOK, NEW o, Committed(o), o # Nothing
    PROVE  /\ o.owner \in Builds
           /\ Len(o.blocks) \in 0..size[o.owner]
           /\ \A k \in 1..Len(o.blocks) : o.blocks[k] = o.owner
           /\ conf.kind # "gcs" => Len(o.blocks) = size[o.owner]
<1>1. PICK x \in Builds : \E n \in 0..size[x] : o = Part(x, n) /\ (conf.kind # "gcs" => n = size[x])
  BY DEF Committed
<1>2. PICK n \in 0..size[x] : o = Part(x, n) /\ (conf.kind # "gcs" => n = size[x])
  BY <1>1
<1>3. n \in Nat
  BY BlocksAssumption DEF BuildsTypeOK
<1>4. o.owner = x /\ Len(o.blocks) = n /\ \A k \in 1..n : o.blocks[k] = x
  BY <1>2, <1>3, PartIsObject
<1> QED
  BY <1>2, <1>4

(* Get opens the object. *)
LEMMA OpenKeeps ==
    ASSUME RivalsInv, NEW b \in Builds, Open(b)
    PROVE  RivalsInv' /\ Frame(b)
<1>1. BuildsTypeOK /\ BuildInv(b) /\ ObjectInv /\ pc[b] = "open" /\ res[b] = "none"
  BY DEF RivalsInv, BuildInv, Open
<1>2. ~Rebuilds(b) /\ ~Rebuilds(b)' /\ RestoreInv(b)
  BY <1>1 DEF BuildInv, RebuildInv, Rebuilds, Open
<1>3. InPlace' = InPlace /\ There' = There /\ object' = object /\ at' = at /\ got' = got
  BY DEF Open, InPlace, There
<1>4. \A o : Committed(o)' <=> Committed(o)
  BY DEF Open, Committed
<1>5. BuildsTypeOK' /\ Frame(b)
  BY <1>1 DEF Open, BuildsTypeOK, Goto, Returns, Frame, There
<1>6. ObjectInv'
  BY <1>1, <1>2, <1>3, <1>5, NotTheOwner, ObjectKeeps
<1>7. /\ pc'[b] \in {"read", "over"} /\ res'[b] \in {"none", "err"}
      /\ pc'[b] = "read" => There /\ res'[b] = "none"
  BY <1>1 DEF Open, Goto, Returns, BuildsTypeOK
<1>8. /\ opened'[b] \in {opened[b], object}
      /\ InPlace => opened'[b] = opened[b]
      /\ pc'[b] = "read" /\ ~InPlace => opened'[b] = object
  BY <1>1 DEF Open, Goto, Returns, BuildsTypeOK
<1>9. at[b] = 0 /\ got[b] = {} /\ opened[b] = Nothing
  BY <1>1, <1>2 DEF RestoreInv
<1>10. There => object # Nothing
  BY DEF There, Nothing
<1>11. OneArchive(b)'
  BY <1>3, <1>7, <1>9 DEF OneArchive
<1>12. Len(opened'[b].blocks) <= MaxBlocks
  BY <1>1, <1>8, <1>9, NothingIsThere, BlocksAssumption DEF BuildsTypeOK
<1>13. ~InPlace => Committed(opened'[b])
  BY <1>1, <1>8, <1>9 DEF ObjectInv, Committed
<1>14. RestoreInv(b)'
  BY <1>3, <1>4, <1>7, <1>8, <1>9, <1>10, <1>11, <1>12, <1>13 DEF RestoreInv
<1>15. BuildInv(b)'
  BY <1>2, <1>7, <1>14 DEF BuildInv
<1> QED
  BY <1>5, <1>6, <1>15, StepKeeps

(* A block that is read is a block of a build, and of the archive that was
   opened, where one was. *)
LEMMA BlockOfSource ==
    ASSUME BuildsTypeOK, NEW b \in Builds, RestoreInv(b),
           pc[b] = "read", at[b] < Len(Source(b)), Source(b)[at[b] + 1] # Nobody
    PROVE  /\ Source(b)[at[b] + 1] \in Builds
           /\ at[b] + 1 \in 1..MaxBlocks
           /\ ~InPlace => /\ Source(b)[at[b] + 1] = opened[b].owner
                          /\ at[b] < size[opened[b].owner]
<1>1. at[b] \in Nat
  BY BlocksAssumption DEF BuildsTypeOK
<1>2. Source(b) \in Seq(Builds \cup {Nobody}) /\ Len(Source(b)) \in Nat /\ Len(Source(b)) <= MaxBlocks
  <2>1. Source(b) \in Seq(Builds \cup {Nobody}) /\ Len(Source(b)) <= MaxBlocks
    BY DEF Source, BuildsTypeOK, Objects, RestoreInv
  <2> QED
    BY <2>1, LenProperties
<1>3. at[b] + 1 \in 1..Len(Source(b)) /\ at[b] + 1 \in 1..MaxBlocks
  BY <1>1, <1>2, BlocksAssumption
<1>4. Source(b)[at[b] + 1] \in Builds
  BY <1>2, <1>3, ElementOfSeq
<1>5. ASSUME ~InPlace
      PROVE  Source(b)[at[b] + 1] = opened[b].owner /\ at[b] < size[opened[b].owner]
  <2>1. Committed(opened[b]) /\ opened[b] # Nothing /\ Source(b) = opened[b].blocks
    BY <1>5 DEF RestoreInv, Source
  <2>2. opened[b].owner \in Builds /\ size[opened[b].owner] \in Nat
    BY <2>1, CommittedRow, BlocksAssumption DEF BuildsTypeOK
  <2> QED
    BY <1>1, <1>2, <1>3, <2>1, <2>2, CommittedRow
<1> QED
  BY <1>3, <1>4, <1>5

(* A block is read.  What has been extracted is still of one archive, where
   that can be told, and is all of it when the extraction ends. *)
LEMMA ReadBlockKeeps ==
    ASSUME RivalsInv, NEW b \in Builds, ReadBlock(b)
    PROVE  RivalsInv' /\ Frame(b)
<1> DEFINE x == Source(b)[at[b] + 1]
<1>1. BuildsTypeOK /\ BuildInv(b) /\ ObjectInv /\ pc[b] = "read" /\ res[b] = "none"
  BY DEF RivalsInv, BuildInv, ReadBlock
<1>2. ~Rebuilds(b) /\ RestoreInv(b)
  BY <1>1 DEF BuildInv, RebuildInv, Rebuilds
<1>3. /\ at[b] < Len(Source(b)) /\ x # Nobody
      /\ got[b] \subseteq {x} \/ ~conf.gzip
      /\ Extracted(b, x)
  BY DEF ReadBlock
<1>4. /\ x \in Builds /\ at[b] + 1 \in 1..MaxBlocks
      /\ ~InPlace => x = opened[b].owner /\ at[b] < size[opened[b].owner]
  BY <1>1, <1>2, <1>3, BlockOfSource
<1> HIDE DEF x
<1>5. /\ InPlace' = InPlace /\ There' = There /\ object' = object /\ res' = res
      /\ opened' = opened /\ size' = size /\ conf' = conf
  BY <1>3 DEF Extracted, InPlace, There
<1>6. ~Rebuilds(b)' /\ \A o : Committed(o)' <=> Committed(o)
  BY <1>2, <1>3 DEF Extracted, Rebuilds, Committed
<1>7. BuildsTypeOK' /\ Frame(b)
  <2>1. /\ at' = [at EXCEPT ![b] = at[b] + 1]
        /\ got' = [got EXCEPT ![b] = got[b] \cup {x}]
        /\ pc' \in {pc, [pc EXCEPT ![b] = "close"]}
        /\ UNCHANGED <<conf, object, mode, size, opened, res>>
    BY <1>3 DEF Extracted, Goto
  <2>2. at' \in [Builds -> 0..MaxBlocks]
    BY <1>1, <1>4, <2>1, BlocksAssumption DEF BuildsTypeOK
  <2>3. got' \in [Builds -> SUBSET Builds]
    BY <1>1, <1>4, <2>1 DEF BuildsTypeOK
  <2>4. pc' \in [Builds -> {"ask", "create", "copy", "cut", "open", "read", "close", "over"}]
    BY <1>1, <2>1 DEF BuildsTypeOK
  <2>5. BuildsTypeOK'
    BY <1>1, <2>1, <2>2, <2>3, <2>4 DEF BuildsTypeOK
  <2>6. Frame(b)
    BY <1>1, <2>1 DEF BuildsTypeOK, Frame, There
  <2> QED
    BY <2>5, <2>6
<1>8. /\ at'[b] = at[b] + 1 /\ got'[b] = got[b] \cup {x}
      /\ pc'[b] = IF at[b] + 1 = size[x] THEN "close" ELSE "read"
  BY <1>1, <1>3 DEF Extracted, Goto, BuildsTypeOK
<1>9. ObjectInv'
  BY <1>1, <1>2, <1>5, <1>7, NotTheOwner, ObjectKeeps
<1>10. at[b] \in Nat /\ size[x] \in Nat \ {0}
  BY <1>1, <1>4, BlocksAssumption DEF BuildsTypeOK
<1>11. ASSUME conf.gzip \/ conf.kind \in {"azure", "s3"}
       PROVE  OneArchive(b)'
  <2>1. OneArchive(b)
    BY <1>2, <1>11 DEF RestoreInv
  <2>2. got[b] \subseteq {x}
    BY <1>2, <1>3, <1>4, <1>11 DEF RestoreInv, InPlace
  <2>3. at[b] < size[x]
    BY <1>1, <1>10, <2>1, <2>2 DEF OneArchive
  <2>4. got'[b] = {x}
    BY <1>8, <2>2
  <2>5. /\ at'[b] <= size'[x]
        /\ pc'[b] = "read" => at'[b] < size'[x]
        /\ pc'[b] = "close" \/ res'[b] = "ok" => at'[b] = size'[x]
    BY <1>1, <1>5, <1>8, <1>10, <2>3
  <2> QED
    BY <1>4, <2>4, <2>5 DEF OneArchive
<1>12. RestoreInv(b)'
  BY <1>1, <1>2, <1>4, <1>5, <1>6, <1>8, <1>11 DEF RestoreInv
<1>13. BuildInv(b)'
  BY <1>1, <1>5, <1>6, <1>8, <1>12 DEF BuildInv
<1> QED
  BY <1>7, <1>9, <1>13, StepKeeps

(* What a build that restores keeps when its mode returns. *)
LEMMA RestoreReturns ==
    ASSUME RivalsInv, NEW b \in Builds, ~Rebuilds(b), NEW r \in {"ok", "err"},
           pc[b] \in {"read", "close"}, Returns(b, r),
           UNCHANGED <<conf, object, mode, size, at, opened, got>>,
           r = "ok" /\ (conf.gzip \/ conf.kind \in {"azure", "s3"}) => pc[b] = "close"
    PROVE  RivalsInv' /\ Frame(b)
<1>1. BuildsTypeOK /\ BuildInv(b) /\ ObjectInv /\ RestoreInv(b)
  BY DEF RivalsInv, BuildInv
<1>2. ~Rebuilds(b)' /\ InPlace' = InPlace /\ There' = There /\ \A o : Committed(o)' <=> Committed(o)
  BY DEF Rebuilds, Committed, InPlace, There
<1>3. BuildsTypeOK' /\ Frame(b)
  BY <1>1 DEF BuildsTypeOK, Goto, Returns, Frame, There
<1>4. pc'[b] = "over" /\ res'[b] \in {res[b], r} /\ res[b] # "ok"
  BY <1>1 DEF Goto, Returns, BuildsTypeOK, BuildInv
<1>5. ObjectInv'
  BY <1>1, <1>3, NotTheOwner, ObjectKeeps
<1>6. ASSUME conf.gzip \/ conf.kind \in {"azure", "s3"}
      PROVE  OneArchive(b)'
  <2>1. OneArchive(b) /\ (res'[b] = "ok" => pc[b] = "close")
    BY <1>1, <1>4, <1>6 DEF RestoreInv
  <2> QED
    BY <1>4, <2>1 DEF OneArchive
<1>7. RestoreInv(b)'
  BY <1>1, <1>2, <1>4, <1>6 DEF RestoreInv
<1>8. BuildInv(b)'
  BY <1>2, <1>4, <1>7 DEF BuildInv
<1> QED
  BY <1>3, <1>5, <1>8, StepKeeps

(* The data ends, or is zeros.  Neither happens where a whole archive of one
   build was opened. *)
LEMMA ReadEndKeeps ==
    ASSUME RivalsInv, NEW b \in Builds, ReadEnd(b)
    PROVE  RivalsInv' /\ Frame(b)
<1>1. BuildsTypeOK /\ BuildInv(b) /\ pc[b] = "read" /\ ~conf.gzip
  BY DEF RivalsInv, ReadEnd
<1>2. ~Rebuilds(b) /\ RestoreInv(b)
  BY <1>1 DEF BuildInv, RebuildInv, Rebuilds
<1>3. ASSUME conf.kind \in {"azure", "s3"}
      PROVE  FALSE
  <2> DEFINE o == opened[b]
  <2>1. ~InPlace /\ conf.kind # "gcs"
    BY <1>3 DEF InPlace
  <2>2. Committed(o) /\ o # Nothing /\ got[b] \subseteq {o.owner} /\ Source(b) = o.blocks
    BY <1>1, <1>2, <2>1 DEF RestoreInv, Source
  <2> HIDE DEF o
  <2>3. /\ o.owner \in Builds /\ Len(o.blocks) = size[o.owner]
        /\ \A k \in 1..Len(o.blocks) : o.blocks[k] = o.owner
    BY <1>1, <2>1, <2>2, CommittedRow
  <2>4. size[o.owner] \in Nat \ {0} /\ at[b] \in Nat
    BY <1>1, <2>3, BlocksAssumption DEF BuildsTypeOK
  <2>5. at[b] < size[o.owner]
    <3>1. OneArchive(b)
      BY <1>2, <1>3 DEF RestoreInv
    <3>2. CASE got[b] = {} /\ at[b] = 0
      BY <2>4, <3>2
    <3>3. CASE \E x \in Builds : got[b] = {x} /\ at[b] < size[x]
      BY <2>2, <3>3
    <3> QED
      BY <1>1, <3>1, <3>2, <3>3 DEF OneArchive
  <2>6. Source(b)[at[b] + 1] = Nobody
    BY <2>2, <2>3, <2>5 DEF ReadEnd
  <2> QED
    BY <2>2, <2>3, <2>4, <2>5, <2>6, NobodyAssumption
<1> QED
  BY <1>1, <1>2, <1>3, RestoreReturns DEF ReadEnd

(* Reading fails. *)
LEMMA ReadFailsKeeps ==
    ASSUME RivalsInv, NEW b \in Builds, ReadFails(b)
    PROVE  RivalsInv' /\ Frame(b)
<1>1. BuildsTypeOK /\ BuildInv(b) /\ pc[b] = "read"
  BY DEF RivalsInv, ReadFails
<1>2. ~Rebuilds(b)
  BY <1>1 DEF BuildInv, RebuildInv
<1> QED
  BY <1>1, <1>2, RestoreReturns DEF ReadFails

-----------------------------------------------------------------------------
(* The steps of either. *)

(* What is left is closed, and the mode returns. *)
LEMMA CloseKeeps ==
    ASSUME RivalsInv, NEW b \in Builds, Close(b)
    PROVE  RivalsInv' /\ Frame(b)
<1>1. BuildsTypeOK /\ BuildInv(b) /\ ObjectInv /\ pc[b] = "close"
  BY DEF RivalsInv, Close
<1>2. CASE Rebuilds(b)
  <2>1. There /\ There' /\ Rebuilds(b)' /\ at[b] = size[b]
    BY <1>1, <1>2 DEF BuildInv, RebuildInv, Close, There, Rebuilds
  <2>2. BuildsTypeOK' /\ Frame(b)
    BY <1>1 DEF Close, BuildsTypeOK, Goto, Returns, Frame, There
  <2>3. pc'[b] = "over"
    BY <1>1 DEF Close, BuildsTypeOK, Goto, Returns
  <2>4. BuildInv(b)'
    BY <1>1, <1>2, <2>1, <2>3 DEF BuildInv, RebuildInv, Close
  <2>5. ObjectInv'
    BY <1>1, <2>1, <2>2, <2>3, ObjectKeeps DEF Close
  <2> QED
    BY <2>2, <2>4, <2>5, StepKeeps
<1>3. CASE ~Rebuilds(b)
  BY <1>1, <1>3, RestoreReturns DEF Close
<1> QED
  BY <1>2, <1>3

(* The process ends. *)
LEMMA ExitKeeps ==
    ASSUME RivalsInv, NEW b \in Builds, Exit(b)
    PROVE  RivalsInv' /\ Frame(b)
<1>1. BuildsTypeOK /\ BuildInv(b) /\ ObjectInv /\ pc[b] # "over" /\ res[b] # "ok"
  BY DEF RivalsInv, BuildInv, Exit
<1>2. BuildsTypeOK' /\ Frame(b)
  BY <1>1 DEF Exit, BuildsTypeOK, Goto, Frame, There
<1>3. pc'[b] = "over" /\ res'[b] = res[b] /\ at'[b] = at[b]
  BY <1>1 DEF Exit, BuildsTypeOK, Goto
<1>4. InPlace' = InPlace /\ There' = There /\ Rebuilds(b)' = Rebuilds(b)
  BY DEF Exit, InPlace, There, Rebuilds
<1>5. \A o : Committed(o)' <=> Committed(o)
  BY DEF Exit, Committed
<1>6. OneArchive(b) => OneArchive(b)'
  BY <1>1, <1>3 DEF Exit, OneArchive
<1>7. RebuildInv(b) => RebuildInv(b)'
  BY <1>1, <1>3, <1>4 DEF Exit, RebuildInv
<1>8. RestoreInv(b) => RestoreInv(b)'
  BY <1>1, <1>3, <1>4, <1>5, <1>6 DEF Exit, RestoreInv
<1>9. BuildInv(b)'
  BY <1>1, <1>3, <1>4, <1>7, <1>8 DEF BuildInv
<1>10. ObjectInv'
  BY <1>1, <1>2, <1>3, ObjectKeeps DEF Exit
<1> QED
  BY <1>2, <1>9, <1>10, StepKeeps

(* Nothing happens once all are over. *)
LEMMA StutterKeeps ==
    ASSUME RivalsInv, UNCHANGED buildVars
    PROVE  RivalsInv'
<1>1. BuildsTypeOK' /\ \A o : Committed(o)' <=> Committed(o)
  BY DEF RivalsInv, BuildsTypeOK, buildVars, Committed
<1>2. ObjectInv'
  BY <1>1 DEF RivalsInv, ObjectInv, InPlace, File, Rebuilds, buildVars
<1>3. ASSUME NEW b \in Builds PROVE BuildInv(b)'
  <2>1. BuildInv(b)
    BY DEF RivalsInv
  <2>2. InPlace' = InPlace /\ There' = There /\ Rebuilds(b)' = Rebuilds(b)
        /\ (OneArchive(b)' <=> OneArchive(b))
    BY DEF buildVars, InPlace, There, Rebuilds, OneArchive
  <2>3. RebuildInv(b) => RebuildInv(b)'
    BY <2>2 DEF RebuildInv, buildVars
  <2>4. RestoreInv(b) => RestoreInv(b)'
    BY <1>1, <2>2 DEF RestoreInv, buildVars
  <2> QED
    BY <2>1, <2>2, <2>3, <2>4 DEF BuildInv, buildVars
<1> QED
  BY <1>1, <1>2, <1>3 DEF RivalsInv

(* The builds start with nothing at the path. *)
LEMMA InitHolds == BuildsInit => RivalsInv
<1> SUFFICES ASSUME BuildsInit PROVE RivalsInv
  OBVIOUS
<1>1. BuildsTypeOK
  BY NothingIsThere, BlocksAssumption DEF BuildsInit, BuildsTypeOK, Put
<1>2. ObjectInv
  BY DEF BuildsInit, ObjectInv, File, Committed
<1>3. ASSUME NEW b \in Builds PROVE BuildInv(b)
  <2>1. /\ at[b] = 0 /\ got[b] = {} /\ opened[b] = Nothing /\ res[b] = "none"
        /\ size[b] \in Nat /\ 0 <= size[b]
        /\ pc[b] = IF mode[b] = "restore" THEN "open" ELSE IF conf.override THEN Put ELSE "ask"
    BY DEF BuildsInit
  <2>2. CASE Rebuilds(b)
    <3>1. pc[b] = IF conf.override THEN IF InPlace THEN "create" ELSE "copy" ELSE "ask"
      BY <2>1, <2>2 DEF Rebuilds, Put
    <3> QED
      BY <2>1, <2>2, <3>1 DEF BuildInv, RebuildInv
  <2>3. CASE ~Rebuilds(b)
    <3>1. pc[b] = "open"
      BY <1>1, <2>1, <2>3 DEF Rebuilds, BuildsTypeOK
    <3>2. Len(opened[b].blocks) <= MaxBlocks /\ Committed(opened[b])
      BY <2>1, NothingIsThere, BlocksAssumption DEF Committed
    <3> QED
      BY <2>1, <2>3, <3>1, <3>2 DEF BuildInv, RestoreInv, OneArchive
  <2> QED
    BY <2>2, <2>3
<1> QED
  BY <1>1, <1>2, <1>3 DEF RivalsInv

(* Each step keeps the invariant. *)
LEMMA NextKeeps == RivalsInv /\ [BuildsNext]_buildVars => RivalsInv'
<1> SUFFICES ASSUME RivalsInv, [BuildsNext]_buildVars PROVE RivalsInv'
  OBVIOUS
<1>1. ASSUME NEW b \in Builds,
             Ask(b) \/ Create(b) \/ CopyBlock(b) \/ CopyFails(b)
             \/ Store(b) \/ StoreCut(b) \/ PutTimeout(b)
      PROVE  RivalsInv'
  BY <1>1, AskKeeps, CreateKeeps, CopyBlockKeeps, CopyFailsKeeps, StoreKeeps, StoreCutKeeps,
     PutTimeoutKeeps
<1>2. ASSUME NEW b \in Builds,
             Open(b) \/ ReadBlock(b) \/ ReadEnd(b) \/ ReadFails(b) \/ Close(b) \/ Exit(b)
      PROVE  RivalsInv'
  BY <1>2, OpenKeeps, ReadBlockKeeps, ReadEndKeeps, ReadFailsKeeps, CloseKeeps, ExitKeeps
<1>3. CASE BuildsDone \/ UNCHANGED buildVars
  BY <1>3, StutterKeeps DEF BuildsDone
<1> QED
  BY <1>1, <1>2, <1>3 DEF BuildsNext

(* Whatever rivals do to the object meanwhile, the place of every build in its
   mode tells what it may find at the path: rebuilder.go:62-84 and
   restorer.go:54-75 over the calls of the backends. *)
THEOREM RivalsInvariance == BuildsSpec => []RivalsInv
BY InitHolds, NextKeeps, PTL DEF BuildsSpec

(* The variables have the types they were declared with. *)
THEOREM BuildsTypeCorrect == BuildsSpec => []BuildsTypeOK
<1>1. RivalsInv => BuildsTypeOK
  BY DEF RivalsInv
<1> QED
  BY <1>1, RivalsInvariance, PTL

-----------------------------------------------------------------------------
(* What the builds may rely on. *)

(* A restore that returns nil has extracted one whole archive of one build,
   with gzip from every backend and without it from azure and s3. *)
THEOREM RestoresOneArchiveAlways == BuildsSpec => []RestoresOneArchive
<1>1. RivalsInv => RestoresOneArchive
  <2>1. ASSUME RivalsInv, conf.gzip \/ conf.kind \in {"azure", "s3"},
               NEW b \in Builds, mode[b] = "restore", res[b] = "ok"
        PROVE  \E x \in Builds : got[b] = {x} /\ at[b] = size[x]
    BY <2>1 DEF RivalsInv, BuildInv, RestoreInv, Rebuilds, OneArchive
  <2> QED
    BY <2>1 DEF RestoresOneArchive
<1> QED
  BY <1>1, RivalsInvariance, PTL

(* After a rebuild to azure or s3 that returned nil a whole archive is there,
   and from then on always. *)
THEOREM OkMeansStoredAlways == BuildsSpec => []OkMeansStored
<1>1. RivalsInv => OkMeansStored
  <2>1. ASSUME RivalsInv, conf.kind \in {"azure", "s3"},
               NEW b \in Builds, mode[b] = "rebuild", res[b] = "ok"
        PROVE  \E x \in Builds : object = [owner |-> x, blocks |-> [k \in 1..size[x] |-> x]]
    <3>1. object # Nothing /\ ~InPlace
      BY <2>1 DEF RivalsInv, BuildInv, RebuildInv, Rebuilds, There, Nothing, InPlace
    <3>2. Committed(object) /\ conf.kind # "gcs"
      BY <2>1, <3>1 DEF RivalsInv, ObjectInv
    <3> QED
      BY <3>1, <3>2 DEF Committed, Part
  <2> QED
    BY <2>1 DEF OkMeansStored
<1> QED
  BY <1>1, RivalsInvariance, PTL

(* When every rebuild of a file has returned nil, the file holds no zeros of
   blocks its last creator skipped. *)
THEOREM NoHolesLeftAlways == BuildsSpec => []NoHolesLeft
<1>1. RivalsInv => NoHolesLeft
  <2>1. ASSUME RivalsInv, InPlace, There,
               \A b \in Builds : mode[b] = "rebuild" => res[b] = "ok"
        PROVE  /\ Len(object.blocks) >= size[object.owner]
               /\ \A k \in 1..size[object.owner] : object.blocks[k] # Nobody
    <3>1. object # Nothing
      BY <2>1 DEF There, Nothing
    <3>2. /\ object.owner \in Builds /\ at[object.owner] = size[object.owner]
          /\ at[object.owner] <= Len(object.blocks)
          /\ \A k \in 1..at[object.owner] : object.blocks[k] # Nobody
      BY <2>1, <3>1 DEF RivalsInv, ObjectInv, File, Rebuilds
    <3>3. Len(object.blocks) \in Nat /\ size[object.owner] \in Nat
      BY <2>1, <3>2, LenProperties, BlocksAssumption DEF RivalsInv, BuildsTypeOK, Objects
    <3> QED
      BY <3>2, <3>3
  <2> QED
    BY <2>1 DEF NoHolesLeft
<1> QED
  BY <1>1, RivalsInvariance, PTL

-----------------------------------------------------------------------------
(* RivalBuilds implements RivalCache. *)

(* What RivalCache sees. *)
Cached == ToSet(object.blocks) \ {Nobody}

Leave == {b \in Builds : mode[b] = "rebuild" /\ ~conf.override
                         /\ pc[b] \in {"create", "copy", "cut", "close"}}

Taken(b) == got[b] \cup (ToSet(opened[b].blocks) \ {Nobody})

Ok == {b \in Builds : res[b] = "ok"}

(* Every step of b leaves the rest as RivalCache has it. *)
LEMMA OthersSeen ==
    ASSUME NEW b \in Builds, Frame(b)
    PROVE  /\ Leave' \ {b} = Leave \ {b} /\ Ok' \ {b} = Ok \ {b}
           /\ \A c \in Builds \ {b} : Taken(c)' = Taken(c)
BY DEF Frame, Leave, Ok, Taken

(* A step RivalCache does not see. *)
LEMMA Unseen ==
    ASSUME NEW b \in Builds, Frame(b), There' = There, Cached' = Cached,
           Taken(b)' = Taken(b), b \in Leave' <=> b \in Leave, b \in Ok' <=> b \in Ok
    PROVE  UNCHANGED Rival!rivalVars
<1>1. Leave' = Leave /\ Ok' = Ok /\ \A c \in Builds : Taken(c)' = Taken(c)
  BY OthersSeen DEF Leave, Ok
<1> QED
  BY <1>1 DEF Rival!rivalVars, Leave, Ok, Taken, Cached, Frame, InPlace

(* A build that ends. *)
LEMMA EndSeen ==
    ASSUME NEW b \in Builds, Frame(b), There' = There, Cached' = Cached,
           Taken(b)' = Taken(b), b \notin Leave', b \in Ok' => b \in Ok \/ There,
           b \in Ok => b \in Ok'
    PROVE  Rival!Finish(b)
<1>1. /\ Leave' = Leave \ {b}
      /\ Ok' = Ok \/ (There /\ Ok' = Ok \cup {b})
      /\ \A c \in Builds : Taken(c)' = Taken(c)
  BY OthersSeen DEF Leave, Ok
<1> QED
  BY <1>1 DEF Rival!Finish, Leave, Ok, Taken, Cached, Frame, InPlace

(* A build that writes. *)
LEMMA WriteSeen ==
    ASSUME NEW b \in Builds, Frame(b), There', conf.override \/ b \in Leave,
           b \notin Ok, b \notin Ok', Taken(b)' = Taken(b), b \in Leave' => b \in Leave,
           Cached' \subseteq IF ~InPlace THEN {b} ELSE Cached \cup {b}
    PROVE  Rival!Write(b)
<1>1. Leave' \in {Leave, Leave \ {b}} /\ Ok' = Ok
      /\ \A c \in Builds : Taken(c)' = Taken(c)
  BY OthersSeen DEF Leave, Ok
<1> QED
  BY <1>1 DEF Rival!Write, Leave, Ok, Taken, Cached, Frame, InPlace

(* Exists is the look, or the end of the build. *)
LEMMA AskSeen ==
    ASSUME RivalsInv, NEW b \in Builds, Ask(b), Frame(b)
    PROVE  Rival!Look(b) \/ Rival!Finish(b)
<1>1. BuildsTypeOK /\ BuildInv(b) /\ pc[b] = "ask" /\ b \notin Leave
  BY DEF RivalsInv, Ask, Leave
<1>2. Rebuilds(b) /\ ~conf.override /\ res[b] = "none"
  BY <1>1 DEF BuildInv, RestoreInv, RebuildInv
<1>3. There' = There /\ Cached' = Cached /\ \A c \in Builds : Taken(c)' = Taken(c)
  BY DEF Ask, There, Cached, Taken
<1>4. CASE ~There /\ Goto(b, Put) /\ UNCHANGED res
  <2>1. pc'[b] \in {"create", "copy"} /\ Ok' = Ok
    BY <1>1, <1>4 DEF Goto, Put, BuildsTypeOK, Ok
  <2>2. Leave' = Leave \cup {b}
    BY <1>1, <1>2, <2>1, OthersSeen DEF Leave, Frame, Rebuilds
  <2>3. Rival!Look(b)
    BY <1>3, <1>4, <2>1, <2>2 DEF Rival!Look, Leave, Ok, Taken, Cached, Frame, InPlace
  <2> QED
    BY <2>3
<1>5. CASE (There /\ Returns(b, "ok")) \/ Returns(b, "err")
  <2>1. pc'[b] = "over" /\ (res'[b] = "ok" => There)
    BY <1>1, <1>2, <1>5 DEF Goto, Returns, BuildsTypeOK
  <2>2. b \notin Leave' /\ b \notin Ok /\ (b \in Ok' => There)
    BY <1>2, <2>1 DEF Leave, Ok
  <2> QED
    BY <1>3, <2>2, EndSeen
<1> QED
  BY <1>4, <1>5 DEF Ask

(* The file is created, or it is not. *)
LEMMA CreateSeen ==
    ASSUME RivalsInv, NEW b \in Builds, Create(b), Frame(b)
    PROVE  Rival!Write(b) \/ Rival!Finish(b) \/ UNCHANGED Rival!rivalVars
<1>1. BuildsTypeOK /\ BuildInv(b) /\ pc[b] = "create" /\ res[b] # "ok"
  BY DEF RivalsInv, BuildInv, Create
<1>2. Rebuilds(b) /\ InPlace /\ b \notin Ok
  BY <1>1 DEF BuildInv, RestoreInv, RebuildInv, Ok
<1>3. conf.override \/ b \in Leave
  BY <1>1, <1>2 DEF Leave, Rebuilds
<1>4. Taken(b)' = Taken(b)
  BY DEF Create, Taken
<1>5. CASE Goto(b, "copy") /\ object' = [owner |-> b, blocks |-> <<>>] /\ UNCHANGED res
  <2>1. There' /\ Cached' = {}
    BY <1>5, EmptySeq, NobodyAssumption DEF There, Cached, ToSet
  <2>2. b \notin Ok' /\ (b \in Leave' => b \in Leave)
    BY <1>1, <1>2, <1>5 DEF Ok, Leave, Create
  <2> QED
    BY <1>2, <1>3, <1>4, <2>1, <2>2, WriteSeen
<1>6. CASE UNCHANGED object /\ Returns(b, "err")
  <2>1. pc'[b] = "over" /\ res'[b] # "ok"
    BY <1>1, <1>6 DEF Goto, Returns, BuildsTypeOK
  <2>2. There' = There /\ Cached' = Cached /\ b \notin Leave' /\ b \notin Ok'
    BY <1>6, <2>1 DEF There, Cached, Leave, Ok
  <2> QED
    BY <1>2, <1>4, <2>2, EndSeen
<1>7. CASE UNCHANGED object /\ MkdirFails(b)
  <2>1. pc'[b] = pc[b] /\ res'[b] # "ok"
    BY <1>1, <1>7 DEF MkdirFails, BuildsTypeOK
  <2>2. There' = There /\ Cached' = Cached /\ (b \in Leave' <=> b \in Leave) /\ b \notin Ok'
    BY <1>7, <2>1 DEF There, Cached, Leave, Ok, Create
  <2> QED
    BY <1>2, <1>4, <2>2, Unseen
<1> QED
  BY <1>5, <1>6, <1>7 DEF Create

(* A block is written to the file, or goes into an upload nobody sees. *)
LEMMA CopyBlockSeen ==
    ASSUME RivalsInv, NEW b \in Builds, CopyBlock(b), Frame(b)
    PROVE  Rival!Write(b) \/ UNCHANGED Rival!rivalVars
<1>1. BuildsTypeOK /\ BuildInv(b) /\ pc[b] = "copy" /\ res[b] # "ok"
  BY DEF RivalsInv, BuildInv, CopyBlock
<1>2. Rebuilds(b) /\ (InPlace => There) /\ b \notin Ok
  BY <1>1 DEF BuildInv, RestoreInv, RebuildInv, Ok
<1>3. conf.override \/ b \in Leave
  BY <1>1, <1>2 DEF Leave, Rebuilds
<1>4. /\ Taken(b)' = Taken(b) /\ b \notin Ok' /\ (b \in Leave' <=> b \in Leave)
  BY <1>2 DEF CopyBlock, Taken, Ok, Leave
<1>5. CASE InPlace
  <2>1. object'.blocks = WithBlock(object.blocks, at[b] + 1, b) /\ There'
    BY <1>1, <1>2, <1>5 DEF CopyBlock, BuildsTypeOK, Objects, There
  <2>2. object.blocks \in Seq(Builds \cup {Nobody}) /\ at[b] + 1 \in Nat \ {0}
    BY <1>1, BlocksAssumption DEF BuildsTypeOK, Objects
  <2>3. ToSet(object'.blocks) \subseteq ToSet(object.blocks) \cup {b, Nobody}
    BY <2>1, <2>2, WithBlockRow
  <2>4. Cached' \subseteq Cached \cup {b}
    BY <2>3 DEF Cached
  <2> QED
    BY <1>2, <1>3, <1>4, <1>5, <2>1, <2>4, WriteSeen
<1>6. CASE ~InPlace
  <2>1. There' = There /\ Cached' = Cached
    BY <1>6 DEF CopyBlock, There, Cached
  <2> QED
    BY <1>2, <1>4, <2>1, Unseen
<1> QED
  BY <1>5, <1>6

(* What is uploaded is the data of the build alone. *)
LEMMA UploadSeen ==
    ASSUME RivalsInv, NEW b \in Builds, Frame(b), Rebuilds(b), RebuildInv(b),
           pc[b] \in {"copy", "cut"}, ~InPlace, b \notin Ok, b \notin Ok',
           object' = Uploaded(b), UNCHANGED <<opened, got>>
    PROVE  Rival!Write(b)
<1>1. BuildsTypeOK /\ at[b] \in Nat
  BY BlocksAssumption DEF RivalsInv, BuildsTypeOK
<1>2. There' /\ object' = Part(b, at[b])
  BY <1>1, UploadedIsPart
<1>3. Cached' \subseteq {b}
  BY <1>1, <1>2, PartIsObject DEF Cached
<1>4. (conf.override \/ b \in Leave) /\ (b \in Leave' => b \in Leave) /\ Taken(b)' = Taken(b)
  BY DEF Leave, Rebuilds, Taken, Frame
<1> QED
  BY <1>2, <1>3, <1>4, WriteSeen

(* The object is committed; the file is closed unseen. *)
LEMMA StoreSeen ==
    ASSUME RivalsInv, NEW b \in Builds, Store(b) \/ StoreCut(b), Frame(b)
    PROVE  Rival!Write(b) \/ UNCHANGED Rival!rivalVars
<1>1. BuildsTypeOK /\ BuildInv(b) /\ pc[b] \in {"copy", "cut"} /\ res[b] # "ok"
  BY DEF RivalsInv, BuildInv, Store, StoreCut
<1>2. Rebuilds(b) /\ RebuildInv(b)
  BY <1>1 DEF BuildInv, RestoreInv
<1>3. b \notin Ok /\ b \notin Ok' /\ UNCHANGED <<opened, got>>
  BY <1>1 DEF Ok, Store, StoreCut
<1>4. CASE ~InPlace
  BY <1>1, <1>2, <1>3, <1>4, UploadSeen DEF Store, StoreCut
<1>5. CASE InPlace
  <2>1. Store(b)
    BY <1>2, <1>5 DEF StoreCut, RebuildInv, InPlace
  <2>2. pc[b] = "copy" /\ pc'[b] = "close" /\ object' = object
    BY <1>1, <1>5, <2>1 DEF Store, Goto, BuildsTypeOK
  <2>3. /\ There' = There /\ Cached' = Cached /\ Taken(b)' = Taken(b)
        /\ b \in Leave' <=> b \in Leave
    BY <1>3, <2>1, <2>2 DEF Store, There, Cached, Taken, Leave
  <2> QED
    BY <1>3, <2>3, Unseen
<1> QED
  BY <1>4, <1>5

(* Put times out: its build ends unseen, or goes on to copy. *)
LEMMA PutTimeoutSeen ==
    ASSUME RivalsInv, NEW b \in Builds, PutTimeout(b), Frame(b)
    PROVE  Rival!Finish(b) \/ UNCHANGED Rival!rivalVars
<1>1. BuildsTypeOK /\ b \notin Ok
  BY DEF RivalsInv, PutTimeout, Ok
<1>2. b \notin Ok' /\ There' = There /\ Cached' = Cached /\ Taken(b)' = Taken(b)
  BY <1>1 DEF PutTimeout, BuildsTypeOK, Ok, There, Cached, Taken
<1>3. CASE pc' = pc
  <2>1. b \in Leave' <=> b \in Leave
    BY <1>3 DEF PutTimeout, Leave
  <2> QED
    BY <1>1, <1>2, <2>1, Unseen
<1>4. CASE Goto(b, "over")
  <2>1. b \notin Leave'
    BY <1>1, <1>4 DEF Goto, BuildsTypeOK, Leave
  <2> QED
    BY <1>1, <1>2, <2>1, EndSeen
<1> QED
  BY <1>3, <1>4 DEF PutTimeout

(* Copying fails: the build ends, or its writer is still to be closed. *)
LEMMA CopyFailsSeen ==
    ASSUME RivalsInv, NEW b \in Builds, CopyFails(b), Frame(b)
    PROVE  Rival!Finish(b) \/ UNCHANGED Rival!rivalVars
<1>1. BuildsTypeOK /\ BuildInv(b) /\ pc[b] = "copy" /\ b \notin Ok
  BY DEF RivalsInv, BuildInv, CopyFails, Ok
<1>2. There' = There /\ Cached' = Cached /\ Taken(b)' = Taken(b)
  BY DEF CopyFails, There, Cached, Taken
<1>3. b \notin Ok' /\ pc'[b] \in {"over", "cut"}
  BY <1>1 DEF CopyFails, Goto, Returns, BuildsTypeOK, Ok
<1>4. CASE pc'[b] = "cut"
  <2>1. b \in Leave' <=> b \in Leave
    BY <1>1, <1>4 DEF CopyFails, Leave
  <2> QED
    BY <1>1, <1>2, <1>3, <2>1, Unseen
<1>5. CASE pc'[b] = "over"
  <2>1. b \notin Leave'
    BY <1>5 DEF Leave
  <2> QED
    BY <1>1, <1>2, <1>3, <2>1, EndSeen
<1> QED
  BY <1>3, <1>4, <1>5

(* Get fetches the object where it was committed. *)
LEMMA OpenSeen ==
    ASSUME RivalsInv, NEW b \in Builds, Open(b), Frame(b)
    PROVE  Rival!Fetch(b) \/ Rival!Finish(b) \/ UNCHANGED Rival!rivalVars
<1>1. BuildsTypeOK /\ BuildInv(b) /\ pc[b] = "open" /\ res[b] = "none"
  BY DEF RivalsInv, BuildInv, Open
<1>2. ~Rebuilds(b) /\ got[b] = {} /\ opened[b] = Nothing
  BY <1>1 DEF BuildInv, RebuildInv, RestoreInv
<1>3. Taken(b) = {} /\ b \notin Ok /\ b \notin Leave /\ b \notin Leave'
  BY <1>1, <1>2, NothingIsThere DEF Taken, Ok, Leave, Rebuilds, Open
<1>4. There' = There /\ Cached' = Cached
  BY DEF Open, There, Cached
<1>5. res'[b] \in {"none", "err"}
  BY <1>1 DEF Open, Returns, BuildsTypeOK
<1>6. b \notin Ok'
  BY <1>5 DEF Ok
<1>7. CASE There /\ ~InPlace /\ UNCHANGED res /\ opened' = [opened EXCEPT ![b] = object]
  <2>1. Taken(b)' = Cached
    BY <1>1, <1>2, <1>7 DEF Open, BuildsTypeOK, Taken, Cached
  <2>2. Leave' = Leave /\ Ok' = Ok /\ \A c \in Builds \ {b} : Taken(c)' = Taken(c)
    BY <1>3, <1>6, OthersSeen
  <2> DEFINE seen == [c \in Builds |-> Taken(c)]
  <2>3. seen[b] = {} /\ seen' = [seen EXCEPT ![b] = Cached]
    BY <1>3, <2>1, <2>2
  <2>4. conf' = conf /\ InPlace' = InPlace
    BY DEF Frame, InPlace
  <2>5. Rival!Fetch(b)
    BY <1>3, <1>4, <1>7, <2>2, <2>3, <2>4 DEF Rival!Fetch, Leave, Ok, Taken, Cached
  <2> QED
    BY <2>5
<1>8. CASE opened' = opened
  <2>1. Taken(b)' = Taken(b)
    BY <1>8 DEF Open, Taken
  <2> QED
    BY <1>3, <1>4, <1>6, <2>1, Unseen
<1> QED
  BY <1>7, <1>8 DEF Open

(* A block is read of a file that may change, or of the object as it was. *)
LEMMA ReadBlockSeen ==
    ASSUME RivalsInv, NEW b \in Builds, ReadBlock(b), Frame(b)
    PROVE  Rival!Fetch(b) \/ UNCHANGED Rival!rivalVars
<1> DEFINE x == Source(b)[at[b] + 1]
<1>1. BuildsTypeOK /\ BuildInv(b) /\ pc[b] = "read" /\ res[b] = "none"
  BY DEF RivalsInv, BuildInv, ReadBlock
<1>2. ~Rebuilds(b) /\ RestoreInv(b) /\ There
  BY <1>1 DEF BuildInv, RebuildInv, RestoreInv
<1>3. x # Nobody /\ at[b] < Len(Source(b)) /\ Extracted(b, x)
  BY DEF ReadBlock
<1>4. x \in ToSet(Source(b))
  <2>1. at[b] \in Nat /\ Len(Source(b)) \in Nat /\ Source(b) \in Seq(Builds \cup {Nobody})
    BY <1>1, LenProperties, BlocksAssumption DEF BuildsTypeOK, Source, Objects
  <2>2. at[b] + 1 \in DOMAIN Source(b)
    BY <1>3, <2>1, LenProperties
  <2> QED
    BY <2>2 DEF ToSet
<1> HIDE DEF x
<1>5. got'[b] = got[b] \cup {x} /\ opened' = opened /\ object' = object /\ res' = res
  BY <1>1, <1>3 DEF Extracted, BuildsTypeOK
<1>6. There' = There /\ Cached' = Cached /\ b \notin Ok /\ b \notin Ok'
  BY <1>1, <1>5 DEF There, Cached, Ok
<1>7. b \notin Leave /\ b \notin Leave'
  BY <1>2, <1>3 DEF Leave, Rebuilds, Extracted
<1>8. CASE InPlace
  <2>1. x \in Cached
    BY <1>3, <1>4, <1>8 DEF Source, Cached
  <2>2. Taken(b)' = Taken(b) \cup {x}
    BY <1>5 DEF Taken
  <2>3. Leave' = Leave /\ Ok' = Ok /\ \A c \in Builds \ {b} : Taken(c)' = Taken(c)
    BY <1>6, <1>7, OthersSeen
  <2> DEFINE seen == [c \in Builds |-> Taken(c)]
  <2>4. seen' = [seen EXCEPT ![b] = @ \cup {x}]
    BY <2>2, <2>3
  <2>5. conf' = conf /\ InPlace' = InPlace
    BY DEF Frame, InPlace
  <2>6. {x} \in SUBSET Cached
    BY <2>1
  <2>7. Rival!Fetch(b)
    BY <1>2, <1>6, <1>8, <2>3, <2>4, <2>5, <2>6 DEF Rival!Fetch, Leave, Ok, Taken, Cached
  <2> QED
    BY <2>7
<1>9. CASE ~InPlace
  <2>1. Taken(b)' = Taken(b)
    BY <1>3, <1>4, <1>5, <1>9 DEF Source, Taken
  <2> QED
    BY <1>6, <1>7, <2>1, Unseen
<1> QED
  BY <1>8, <1>9

(* The mode returns, or the process ends.  Success is reported only where
   something is there. *)
LEMMA OverSeen ==
    ASSUME RivalsInv, NEW b \in Builds,
           ReadEnd(b) \/ ReadFails(b) \/ Close(b) \/ Exit(b), Frame(b)
    PROVE  Rival!Finish(b)
<1>1. BuildsTypeOK /\ BuildInv(b)
  BY DEF RivalsInv
<1>2. /\ pc'[b] = "over" /\ res[b] # "ok"
      /\ res'[b] = "ok" => pc[b] \in {"read", "close"}
  BY <1>1 DEF BuildInv, ReadEnd, ReadFails, Close, Exit, Goto, Returns, BuildsTypeOK
<1>3. res'[b] = "ok" => There
  BY <1>1, <1>2 DEF BuildInv, RebuildInv, RestoreInv
<1>4. There' = There /\ Cached' = Cached /\ Taken(b)' = Taken(b)
  BY DEF ReadEnd, ReadFails, Close, Exit, There, Cached, Taken
<1>5. b \notin Leave' /\ b \notin Ok /\ (b \in Ok' => There)
  BY <1>2, <1>3 DEF Leave, Ok
<1> QED
  BY <1>4, <1>5, EndSeen

(* No step takes the object away, or another build with it. *)
LEMMA StepFrames ==
    ASSUME RivalsInv, NEW b \in Builds,
           \/ Ask(b) \/ Create(b) \/ CopyBlock(b) \/ CopyFails(b)
           \/ Store(b) \/ StoreCut(b) \/ PutTimeout(b)
           \/ Open(b) \/ ReadBlock(b) \/ ReadEnd(b) \/ ReadFails(b)
           \/ Close(b) \/ Exit(b)
    PROVE  Frame(b)
<1>1. CASE Ask(b) \/ Create(b) \/ CopyBlock(b) \/ CopyFails(b) \/ Store(b) \/ StoreCut(b)
           \/ PutTimeout(b)
  BY <1>1, AskKeeps, CreateKeeps, CopyBlockKeeps, CopyFailsKeeps, StoreKeeps, StoreCutKeeps,
     PutTimeoutKeeps
<1>2. CASE Open(b) \/ ReadBlock(b) \/ ReadEnd(b) \/ ReadFails(b) \/ Close(b) \/ Exit(b)
  BY <1>2, OpenKeeps, ReadBlockKeeps, ReadEndKeeps, ReadFailsKeeps, CloseKeeps, ExitKeeps
<1> QED
  BY <1>1, <1>2

(* Every step is one of RivalCache or is not seen by it. *)
LEMMA StepSeen == RivalsInv /\ [BuildsNext]_buildVars => [Rival!RivalNext]_Rival!rivalVars
<1> SUFFICES ASSUME RivalsInv, [BuildsNext]_buildVars
             PROVE  [Rival!RivalNext]_Rival!rivalVars
  OBVIOUS
<1>1. ASSUME NEW b \in Builds,
             \/ Ask(b) \/ Create(b) \/ CopyBlock(b) \/ CopyFails(b)
             \/ Store(b) \/ StoreCut(b) \/ PutTimeout(b)
             \/ Open(b) \/ ReadBlock(b) \/ ReadEnd(b) \/ ReadFails(b)
             \/ Close(b) \/ Exit(b)
      PROVE  [Rival!RivalNext]_Rival!rivalVars
  <2>1. Frame(b)
    BY <1>1, StepFrames
  <2>2. \/ Rival!Look(b) \/ Rival!Write(b) \/ Rival!Fetch(b) \/ Rival!Finish(b)
        \/ UNCHANGED Rival!rivalVars
    BY <1>1, <2>1, AskSeen, CreateSeen, CopyBlockSeen, CopyFailsSeen, StoreSeen,
       PutTimeoutSeen, OpenSeen, ReadBlockSeen, OverSeen
  <2> QED
    BY <2>2 DEF Rival!RivalNext
<1>2. CASE UNCHANGED buildVars
  BY <1>2 DEF buildVars, Rival!rivalVars, InPlace, There
<1> QED
  BY <1>1, <1>2 DEF BuildsNext, BuildsDone

(* At the start nothing is there and nobody has looked. *)
LEMMA InitSeen == BuildsInit => Rival!RivalInit
<1> SUFFICES ASSUME BuildsInit PROVE Rival!RivalInit
  OBVIOUS
<1>1. conf.override \in BOOLEAN /\ InPlace \in BOOLEAN /\ ~There
  BY ConfigsAssumption DEF BuildsInit, Config, InPlace, There, Nothing
<1>2. Cached = {} /\ Ok = {}
  BY NothingIsThere DEF BuildsInit, Cached, Ok
<1>3. Leave = {}
  BY DEF BuildsInit, Leave
<1>4. \A b \in Builds : Taken(b) = {}
  BY NothingIsThere DEF BuildsInit, Taken
<1> QED
  BY <1>1, <1>2, <1>3, <1>4 DEF Rival!RivalInit, Cached, Ok, Leave, Taken

(* Whatever the builds do at the same time, what they do is a behaviour of
   RivalCache: a build that is not to override writes only when it has found
   nothing, and none reports success with nothing there. *)
THEOREM ImplementsRivalCacheAlways == BuildsSpec => ImplementsRivalCache
BY InitSeen, StepSeen, RivalsInvariance, PTL DEF BuildsSpec, ImplementsRivalCache, Rival!RivalSpec
=============================================================================
