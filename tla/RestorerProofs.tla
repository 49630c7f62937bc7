--------------------------- MODULE RestorerProofs ---------------------------
(***************************************************************************)
(* Theorems about Restorer, for any number of mounts and entries, any set  *)
(* of configurations and whatever the run finds on disk.                   *)
(***************************************************************************)
EXTENDS RestorerInvariant, SequenceTheorems, TLAPS

-----------------------------------------------------------------------------
(* The chunks of an object. *)

(* What follows the whole entries of an object. *)
Rest(o) ==
    (CASE o.end = "torn"    -> <<"torn">>
       [] o.end = "short"   -> <<"header", "short">>
       [] o.end = "trailer" -> <<"trailer">>
       [] OTHER             -> <<>>)

Footer(o) == IF o.footer THEN <<"footer">> ELSE <<>>

Whole(n) == [k \in 1..2 * n |-> IF k % 2 = 1 THEN "header" ELSE "body"]

(* No piece is the absence of one. *)
LEMMA NoPiece == NoChunk \notin Pieces
BY DEF NoChunk, Pieces, Chunks

(* The chunks of n whole entries. *)
LEMMA WholeEntries ==
    ASSUME NEW n \in Nat
    PROVE  /\ Whole(n) \in Seq(Pieces) /\ Len(Whole(n)) = 2 * n
           /\ \A k \in 1..2 * n : Whole(n)[k] \in {"header", "body"}
<1>1. 2 * n \in Nat /\ Whole(n) \in [1..2 * n -> Pieces]
  BY DEF Whole, Pieces, Chunks
<1>2. Whole(n) \in Seq(Pieces)
  BY <1>1, SeqDef
<1>3. Len(Whole(n)) = 2 * n
  BY <1>1, <1>2, LenProperties
<1> QED
  BY <1>2, <1>3 DEF Whole

(* An object in storage. *)
LEMMA ObjectFound ==
    ASSUME NEW o, Left(o)
    PROVE  /\ o.entries \in Nat /\ o.entries <= NumEntries /\ o.footer \in BOOLEAN
           /\ o.end \in {"absent", "open", "torn", "short", "trailer"}
           /\ o.footer => o.end \notin {"absent", "open"}
           /\ o.end = "torn" /\ o.footer => o.entries < NumEntries
           /\ o.end = "short" => o.entries < NumEntries
           /\ Present(o) <=> o # NoObject
<1>1. CASE o = NoObject
  BY <1>1, EntriesAssumption DEF NoObject, Present
<1>2. CASE o # NoObject
  <2>1. /\ o \in [ver: {o.ver}, entries: 0..NumEntries,
                  end: {"open", "torn", "short", "trailer"}, footer: BOOLEAN]
        /\ o.footer => o.end # "open"
        /\ o.end = "torn" /\ o.entries = NumEntries => ~o.footer
        /\ o.end = "short" => o.entries < NumEntries
    BY <1>2 DEF Left, Leavings
  <2>2. /\ o.entries \in 0..NumEntries /\ o.footer \in BOOLEAN
        /\ o.end \in {"open", "torn", "short", "trailer"}
    BY <2>1
  <2> QED
    BY <1>2, <2>1, <2>2, EntriesAssumption DEF Present
<1> QED
  BY <1>1, <1>2

(* Its rest and its footer. *)
LEMMA PartsOfObject ==
    ASSUME NEW o, Left(o)
    PROVE  /\ Rest(o) \in Seq(Pieces) /\ Footer(o) \in Seq(Pieces)
           /\ Len(Rest(o)) = (IF o.end = "short" THEN 2
                              ELSE IF o.end \in {"torn", "trailer"} THEN 1 ELSE 0)
           /\ \A k \in 1..Len(Rest(o)) :
                /\ Rest(o)[k] # "body"
                /\ Rest(o)[k] \in {"torn", "trailer"} => k = 1 /\ o.end = Rest(o)[k]
           /\ Len(Footer(o)) = (IF o.footer THEN 1 ELSE 0)
           /\ \A k \in 1..Len(Footer(o)) : Footer(o)[k] = "footer"
<1>1. /\ "torn" \in Pieces /\ "header" \in Pieces /\ "short" \in Pieces
      /\ "trailer" \in Pieces /\ "footer" \in Pieces
  BY DEF Pieces, Chunks
<1>2. CASE o.end = "short"
  <2>1. Rest(o) = <<"header", "short">>
    BY <1>2 DEF Rest
  <2>2. Footer(o) \in {<<"footer">>, <<>>}
    BY DEF Footer
  <2> QED
    BY <1>1, <1>2, <2>1, <2>2, EmptySeq DEF Footer
<1>3. CASE o.end = "torn"
  <2>1. Rest(o) = <<"torn">>
    BY <1>3 DEF Rest
  <2> QED
    BY <1>1, <1>3, <2>1, EmptySeq DEF Footer
<1>4. CASE o.end = "trailer"
  <2>1. Rest(o) = <<"trailer">>
    BY <1>4 DEF Rest
  <2> QED
    BY <1>1, <1>4, <2>1, EmptySeq DEF Footer
<1>5. CASE o.end \in {"absent", "open"}
  <2>1. Rest(o) = <<>>
    BY <1>5 DEF Rest
  <2> QED
    BY <1>1, <1>5, <2>1, EmptySeq DEF Footer
<1> QED
  BY <1>2, <1>3, <1>4, <1>5, ObjectFound

(* What follows the whole entries: nothing but for an object that is cut
   between two entries, or not there at all. *)
LEMMA RestOfObject ==
    ASSUME NEW o, Left(o)
    PROVE  /\ Rest(o) \o Footer(o) \in Seq(Pieces) /\ Len(Rest(o) \o Footer(o)) \in Nat
           /\ 2 * o.entries + Len(Rest(o) \o Footer(o)) <= 2 * NumEntries + 2
           /\ Len(Rest(o) \o Footer(o)) = 0 => o.end \in {"absent", "open"}
           /\ \A k \in 1..Len(Rest(o) \o Footer(o)) :
                /\ (Rest(o) \o Footer(o))[k] # "body"
                /\ (Rest(o) \o Footer(o))[k] \in {"torn", "trailer"} =>
                    k = 1 /\ o.end = (Rest(o) \o Footer(o))[k]
<1> DEFINE r == Rest(o)
           f == Footer(o)
<1>1. /\ r \in Seq(Pieces) /\ f \in Seq(Pieces)
      /\ Len(r) = (IF o.end = "short" THEN 2 ELSE IF o.end \in {"torn", "trailer"} THEN 1 ELSE 0)
      /\ \A k \in 1..Len(r) : r[k] # "body" /\ (r[k] \in {"torn", "trailer"} => k = 1 /\ o.end = r[k])
      /\ Len(f) = (IF o.footer THEN 1 ELSE 0)
      /\ \A k \in 1..Len(f) : f[k] = "footer"
  BY PartsOfObject
<1>2. /\ o.entries \in Nat /\ o.entries <= NumEntries
      /\ o.end \in {"absent", "open", "torn", "short", "trailer"}
      /\ o.end = "torn" /\ o.footer => o.entries < NumEntries
      /\ o.end = "short" => o.entries < NumEntries
  BY ObjectFound
<1> HIDE DEF r, f
<1>3. /\ r \o f \in Seq(Pieces) /\ Len(r \o f) = Len(r) + Len(f)
      /\ \A k \in 1..(Len(r) + Len(f)) : (r \o f)[k] = IF k <= Len(r) THEN r[k] ELSE f[k - Len(r)]
  BY <1>1, ConcatProperties
<1>4. Len(r) \in 0..2 /\ Len(f) \in 0..1
  BY <1>1
<1>5. 2 * o.entries + Len(r \o f) <= 2 * NumEntries + 2
  BY <1>1, <1>2, <1>3, EntriesAssumption
<1>6. Len(r \o f) \in Nat /\ (Len(r \o f) = 0 => o.end \in {"absent", "open"})
  BY <1>1, <1>2, <1>3, <1>4
<1>7. ASSUME NEW k \in 1..Len(r \o f)
      PROVE  /\ (r \o f)[k] # "body"
             /\ (r \o f)[k] \in {"torn", "trailer"} => k = 1 /\ o.end = (r \o f)[k]
  <2>1. CASE k <= Len(r)
    BY <1>1, <1>3, <1>4, <2>1
  <2>2. CASE k > Len(r)
    <3>1. k - Len(r) \in 1..Len(f) /\ (r \o f)[k] = f[k - Len(r)]
      BY <1>3, <1>4, <2>2
    <3> QED
      BY <1>1, <3>1
  <2> QED
    BY <1>4, <2>1, <2>2
<1> QED
  BY <1>3, <1>5, <1>6, <1>7 DEF r, f

(* The chunks of an object: those of its whole entries come first, a trailer
   or what is left of something else directly behind them. *)
LEMMA ContentsOfObject ==
    ASSUME NEW o, Left(o)
    PROVE  /\ Len(Contents(o)) \in 0..(2 * NumEntries + 2)
           /\ 2 * o.entries <= Len(Contents(o))
           /\ Len(Contents(o)) = 2 * o.entries => o.end \in {"absent", "open"}
           /\ \A k \in 1..Len(Contents(o)) :
                /\ Contents(o)[k] \in Pieces
                /\ Contents(o)[k] = "body" => k <= 2 * o.entries
                /\ Contents(o)[k] \in {"torn", "trailer"} =>
                    k = 2 * o.entries + 1 /\ o.end = Contents(o)[k]
<1> DEFINE n == o.entries
           s == Whole(n)
           t == Rest(o) \o Footer(o)
<1>1. n \in Nat /\ 2 * n \in Nat
  <2>1. n \in Nat
    BY ObjectFound
  <2> HIDE DEF n
  <2> QED
    BY <2>1
<1>2. s \in Seq(Pieces) /\ Len(s) = 2 * n /\ \A k \in 1..Len(s) : s[k] \in {"header", "body"}
  BY <1>1, WholeEntries
<1>3. /\ t \in Seq(Pieces) /\ Len(t) \in Nat
      /\ 2 * n + Len(t) <= 2 * NumEntries + 2
      /\ Len(t) = 0 => o.end \in {"absent", "open"}
      /\ \A k \in 1..Len(t) :
            /\ t[k] # "body"
            /\ t[k] \in {"torn", "trailer"} => k = 1 /\ o.end = t[k]
  BY RestOfObject
<1>4. Contents(o) = s \o t
  <2>1. Rest(o) \in Seq(Pieces) /\ Footer(o) \in Seq(Pieces)
    BY PartsOfObject
  <2>2. Contents(o) = (s \o Rest(o)) \o Footer(o)
    BY DEF Contents, Whole, Rest, Footer
  <2> QED
    BY <1>2, <2>1, <2>2, ConcatAssociative
<1> HIDE DEF s, t
<1>5. /\ Len(s \o t) = Len(s) + Len(t)
      /\ \A k \in 1..(Len(s) + Len(t)) : (s \o t)[k] = IF k <= Len(s) THEN s[k] ELSE t[k - Len(s)]
  BY <1>2, <1>3, ConcatProperties
<1>6. ASSUME NEW k \in 1..Len(s \o t)
      PROVE  /\ (s \o t)[k] \in Pieces
             /\ (s \o t)[k] = "body" => k <= 2 * n
             /\ (s \o t)[k] \in {"torn", "trailer"} =>
                    k = 2 * n + 1 /\ o.end = (s \o t)[k]
  <2>1. CASE k <= Len(s)
    BY <1>1, <1>2, <1>3, <1>5, <2>1 DEF Pieces, Chunks
  <2>2. CASE k > Len(s)
    <3>1. k - Len(s) \in 1..Len(t) /\ (s \o t)[k] = t[k - Len(s)]
      <4>1. Len(s) \in Nat /\ Len(t) \in Nat /\ k \in 1..(Len(s) + Len(t))
        BY <1>1, <1>2, <1>3, <1>5
      <4>2. \A a, b \in Nat : \A m \in 1..(a + b) : m > a => m - a \in 1..b /\ ~(m <= a)
        OBVIOUS
      <4>3. k - Len(s) \in 1..Len(t) /\ ~(k <= Len(s))
        BY <2>2, <4>1, <4>2
      <4> QED
        BY <1>5, <4>1, <4>3
    <3>2. t[k - Len(s)] \in Pieces
      BY <1>3, <3>1, ElementOfSeq
    <3> QED
      BY <1>1, <1>2, <1>3, <3>1, <3>2
  <2>3. k \in Nat /\ Len(s) \in Nat
    BY <1>1, <1>2, <1>3, <1>5
  <2> QED
    BY <2>1, <2>2, <2>3
<1>7. /\ Len(s \o t) \in 0..(2 * NumEntries + 2)
      /\ 2 * n <= Len(s \o t)
      /\ Len(s \o t) = 2 * n => o.end \in {"absent", "open"}
  <2> HIDE DEF n
  <2> QED
    BY <1>1, <1>2, <1>3, <1>5, EntriesAssumption
<1> QED
  BY <1>4, <1>6, <1>7

-----------------------------------------------------------------------------
(* What a step at one mount has to keep. *)

(* Storage and the other mounts are left alone. *)
Elsewhere(j) ==
    /\ UNCHANGED <<conf, store>>
    /\ \A i \in Mounts \ {j} :
        /\ offer'[i] = offer[i] /\ rclosed'[i] = rclosed[i] /\ werr'[i] = werr[i]
        /\ gpc'[i] = gpc[i] /\ opened'[i] = opened[i] /\ pos'[i] = pos[i]
        /\ xpc'[i] = xpc[i] /\ cur'[i] = cur[i] /\ xerr'[i] = xerr[i] /\ local'[i] = local[i]
        /\ dpc'[i] = dpc[i] /\ gres'[i] = gres[i] /\ wpc'[i] = wpc[i]
        /\ i \in rerrs => i \in rerrs'

(* An object that is open stays what it was. *)
LEMMA LeftStays ==
    ASSUME conf' = conf, NEW i \in Mounts, opened'[i] = opened[i]
    PROVE  Left(opened[i])' <=> Left(opened[i])
BY DEF Left, Leavings, OnlyWhole

(* So the other mounts are where they were. *)
LEMMA OthersKeep ==
    ASSUME NEW j \in Mounts, Elsewhere(j), NEW i \in Mounts \ {j}
    PROVE  (Started(i) => Started(i)') /\ (Fresh(i) => Fresh(i)')
<1>1. AllExtracted(i)' <=> AllExtracted(i)
  BY DEF Elsewhere, AllExtracted, InPlaceFrom
<1>2. AllTaken(i)' <=> AllTaken(i)
  BY DEF Elsewhere, AllTaken, AtEnd
<1>3. Taken(i)' = Taken(i)
  BY DEF Elsewhere, Taken
<1>4. CopyInv(i) => CopyInv(i)'
  BY <1>2, LeftStays DEF Elsewhere, CopyInv
<1>5. DownInv(i) => DownInv(i)'
  BY DEF Elsewhere, DownInv
<1>6. ExtractInv(i) => ExtractInv(i)'
  BY <1>1, <1>3 DEF Elsewhere, ExtractInv, InPlaceFrom
<1>7. WorkInv(i) => WorkInv(i)'
  BY DEF Elsewhere, WorkInv
<1>8. Fresh(i) => Fresh(i)'
  BY DEF Elsewhere, Fresh
<1> QED
  BY <1>4, <1>5, <1>6, <1>7, <1>8 DEF Started

(* A mount at which something goes on was started. *)
LEMMA Begun ==
    ASSUME ProcessInv, Running, NEW j \in Mounts,
           gpc[j] # "idle" \/ xpc[j] # "idle" \/ dpc[j] # "idle" \/ wpc[j] # "idle"
    PROVE  j < next /\ Started(j)
BY DEF ProcessInv, Fresh

LEMMA StepKeeps ==
    ASSUME ProcessInv, Running, NEW j \in Mounts, j < next, Elsewhere(j),
           UNCHANGED <<rpc, next, rres>>, RestoreTypeOK', Started(j)',
           wpc[j] = "done" => wpc'[j] = "done" /\ rerrs' = rerrs
    PROVE  ProcessInv'
<1>1. \A i \in Mounts : Left(store[i])'
  BY DEF ProcessInv, Elsewhere, Left, Leavings, OnlyWhole
<1>2. \A i \in Mounts : (IF i < next THEN Started(i) ELSE Fresh(i))'
  BY OthersKeep DEF ProcessInv
<1>3. LoopInv'
  <2>1. CASE rpc # "returned"
    BY <2>1 DEF ProcessInv, LoopInv
  <2>2. CASE rpc = "returned"
    <3>1. next' = NumMounts + 1 /\ rerrs' = rerrs /\ \A i \in Mounts : wpc'[i] = "done"
      BY <2>2 DEF ProcessInv, LoopInv, Elsewhere
    <3> QED
      BY <2>2, <3>1 DEF ProcessInv, LoopInv
  <2> QED
    BY <2>1, <2>2
<1> QED
  BY <1>1, <1>2, <1>3 DEF ProcessInv

-----------------------------------------------------------------------------
(* The copy of one mount. *)

(* What no step of the copy touches. *)
CopyRest == UNCHANGED <<conf, store, extVars, downVars, workVars, loopVars>>

(* A step of the copy that keeps the types and what is said of the copy and
   the pipe is a step that keeps the invariant. *)
LEMMA CopyStepKeeps ==
    ASSUME ProcessInv, Running, NEW j \in Mounts, j < next, Started(j), CopyRest,
           UNCHANGED <<rclosed, werr>>,
           GetTypeOK', \A i \in Mounts \ {j} : /\ offer'[i] = offer[i] /\ gpc'[i] = gpc[i]
                                               /\ opened'[i] = opened[i] /\ pos'[i] = pos[i],
           CopyInv(j)', gres[j] = "ok" => gpc'[j] = "done", ExtractInv(j)'
    PROVE  ProcessInv'
<1>1. RestoreTypeOK'
  BY DEF ProcessInv, RestoreTypeOK, ExtTypeOK, CopyRest, extVars, downVars, workVars, loopVars
<1>2. Elsewhere(j)
  BY DEF CopyRest, Elsewhere, extVars, downVars, workVars, loopVars
<1>3. DownInv(j)' /\ WorkInv(j)'
  BY DEF CopyRest, Started, DownInv, WorkInv, extVars, downVars, workVars, loopVars
<1> QED
  BY <1>1, <1>2, <1>3, StepKeeps DEF CopyRest, Started, extVars, workVars, loopVars

(* What is said of the extraction stays true when the copy moves on, as long
   as the chunks that were taken are the same, or none is taken any more. *)
LEMMA ExtractionStays ==
    ASSUME NEW j \in Mounts, CopyRest, ExtractInv(j), opened'[j] = opened[j],
           werr'[j] = werr[j],
           Taken(j)' = Taken(j) \/ werr[j] = "err" \/ xpc[j] \in {"close", "done"}
    PROVE  ExtractInv(j)'
<1>1. AllExtracted(j)' <=> AllExtracted(j)
  BY DEF CopyRest, AllExtracted, InPlaceFrom, extVars
<1>2. /\ xpc' = xpc /\ cur' = cur /\ xerr' = xerr /\ local' = local
  BY DEF CopyRest, extVars
<1> QED
  BY <1>1, <1>2 DEF ExtractInv, InPlaceFrom

(* The types of what the copy changes. *)
LEMMA CopyTypes ==
    ASSUME ProcessInv, NEW j \in Mounts, NEW c \in Pieces \cup {NoChunk},
           NEW p \in 0..(2 * NumEntries + 2), NEW g \in GetPC, NEW o \in Object,
           offer' = [offer EXCEPT ![j] = c], gpc' = [gpc EXCEPT ![j] = g],
           opened' = [opened EXCEPT ![j] = o], pos' = [pos EXCEPT ![j] = p],
           UNCHANGED <<rclosed, werr, getDone, store>>
    PROVE  /\ GetTypeOK'
           /\ offer'[j] = c /\ gpc'[j] = g /\ opened'[j] = o /\ pos'[j] = p
           /\ \A i \in Mounts \ {j} : /\ offer'[i] = offer[i] /\ gpc'[i] = gpc[i]
                                      /\ opened'[i] = opened[i] /\ pos'[i] = pos[i]
BY DEF ProcessInv, RestoreTypeOK, GetTypeOK

(* An object that was opened is one of storage. *)
LEMMA OpenedFound ==
    ASSUME ProcessInv, NEW j \in Mounts, CopyInv(j)
    PROVE  /\ Left(opened[j])
           /\ opened[j] = NoObject <=> ~Present(opened[j])
<1>1. Left(opened[j])
  BY DEF CopyInv, Left, Leavings
<1> QED
  BY <1>1, ObjectFound DEF CopyInv

(* The object is opened, or it is not. *)
LEMMA OpenKeeps ==
    ASSUME ProcessInv, Running, NEW j \in Mounts,
           OpenObject(j) \/ OpenFails(j), CopyRest
    PROVE  ProcessInv'
<1>1. gpc[j] = "open" /\ j < next /\ Started(j)
  BY Begun DEF OpenObject, OpenFails
<1>2. /\ CopyInv(j) /\ opened[j] = NoObject /\ pos[j] = 0 /\ offer[j] = NoChunk
      /\ cur[j] = 0 /\ gres[j] # "ok"
  BY <1>1 DEF Started, CopyInv, DownInv, ExtractInv
<1>3. CASE OpenObject(j)
  <2>1. Present(store[j]) /\ store[j] \in Object /\ Left(store[j])
    BY <1>3 DEF OpenObject, ProcessInv, RestoreTypeOK, GetTypeOK
  <2>2. /\ offer' = [offer EXCEPT ![j] = NoChunk] /\ gpc' = [gpc EXCEPT ![j] = "copy"]
        /\ opened' = [opened EXCEPT ![j] = store[j]] /\ pos' = [pos EXCEPT ![j] = 0]
        /\ UNCHANGED <<rclosed, werr, getDone, store>>
    BY <1>2, <1>3 DEF OpenObject, GetTo, pipeVars, CopyRest, ProcessInv, RestoreTypeOK, GetTypeOK
  <2>3. /\ GetTypeOK'
        /\ offer'[j] = NoChunk /\ gpc'[j] = "copy" /\ opened'[j] = store[j] /\ pos'[j] = 0
        /\ \A i \in Mounts \ {j} : /\ offer'[i] = offer[i] /\ gpc'[i] = gpc[i]
                                   /\ opened'[i] = opened[i] /\ pos'[i] = pos[i]
    <3>1. "copy" \in GetPC /\ 0 \in 0..(2 * NumEntries + 2)
      BY EntriesAssumption DEF GetPC
    <3> QED
      BY <2>1, <2>2, <3>1, CopyTypes
  <2>4. Len(Contents(store[j])) \in Nat /\ store[j].entries \in Nat
    <3>1. Len(Contents(store[j])) \in 0..(2 * NumEntries + 2) /\ store[j].entries \in Nat
      BY <2>1, ContentsOfObject, ObjectFound
    <3> QED
      BY <3>1, EntriesAssumption
  <2>5. CopyInv(j)'
    <3>1. Left(opened[j])'
      BY <2>1, <2>3 DEF CopyRest, Left, Leavings, OnlyWhole
    <3> QED
      BY <2>1, <2>2, <2>3, <2>4, <3>1, NoPiece DEF CopyInv, Present, NoObject
  <2>6. ExtractInv(j)'
    <3>1. ~AllExtracted(j)
      BY <1>2 DEF AllExtracted, NoObject
    <3>2. /\ xpc' = xpc /\ cur' = cur /\ xerr' = xerr /\ local' = local /\ werr' = werr
      BY <2>2 DEF CopyRest, extVars
    <3>3. Taken(j) = 0 /\ Taken(j)' = 0
      BY <1>2, <2>3 DEF Taken
    <3>4. ExtractInv(j)
      BY <1>1 DEF Started
    <3> QED
      BY <1>2, <2>3, <2>4, <3>1, <3>2, <3>3, <3>4 DEF ExtractInv
  <2> QED
    BY <1>1, <1>2, <2>2, <2>3, <2>5, <2>6, CopyStepKeeps
<1>4. CASE OpenFails(j)
  <2>1. /\ offer' = [offer EXCEPT ![j] = NoChunk] /\ gpc' = [gpc EXCEPT ![j] = "sendOpen"]
        /\ opened' = [opened EXCEPT ![j] = opened[j]] /\ pos' = [pos EXCEPT ![j] = 0]
        /\ UNCHANGED <<rclosed, werr, getDone, store>>
    BY <1>2, <1>4 DEF OpenFails, GetTo, pipeVars, CopyRest, ProcessInv, RestoreTypeOK, GetTypeOK
  <2>2. opened[j] \in Object
    BY DEF ProcessInv, RestoreTypeOK, GetTypeOK
  <2>3. /\ GetTypeOK'
        /\ offer'[j] = NoChunk /\ gpc'[j] = "sendOpen" /\ opened'[j] = opened[j] /\ pos'[j] = 0
        /\ \A i \in Mounts \ {j} : /\ offer'[i] = offer[i] /\ gpc'[i] = gpc[i]
                                   /\ opened'[i] = opened[i] /\ pos'[i] = pos[i]
    <3>1. "sendOpen" \in GetPC /\ 0 \in 0..(2 * NumEntries + 2)
      BY EntriesAssumption DEF GetPC, GetSending
    <3> QED
      BY <2>1, <2>2, <3>1, CopyTypes
  <2>4. CopyInv(j)'
    BY <1>2, <2>1, <2>3 DEF CopyInv, Present, NoObject
  <2>5. ExtractInv(j)'
    BY <1>1, <1>2, <2>1, <2>3, ExtractionStays DEF Started, Taken
  <2> QED
    BY <1>1, <1>2, <2>1, <2>3, <2>4, <2>5, CopyStepKeeps
<1> QED
  BY <1>3, <1>4

(* A chunk is read and offered: the next one of the object. *)
LEMMA ReadChunkKeeps ==
    ASSUME ProcessInv, Running, NEW j \in Mounts, ReadChunk(j), CopyRest
    PROVE  ProcessInv'
<1> DEFINE c == Contents(opened[j])[pos[j] + 1]
<1>1. gpc[j] = "copy" /\ offer[j] = NoChunk /\ ~AtEnd(j) /\ j < next /\ Started(j)
  BY Begun DEF ReadChunk, Copying
<1>2. CopyInv(j) /\ gres[j] # "ok" /\ opened[j] \in Object /\ pos[j] \in Nat
  BY <1>1, EntriesAssumption DEF Started, DownInv, ProcessInv, RestoreTypeOK, GetTypeOK
<1>3. Left(opened[j])
  BY <1>2, OpenedFound
<1>4. /\ Len(Contents(opened[j])) \in 0..(2 * NumEntries + 2)
      /\ \A k \in 1..Len(Contents(opened[j])) : Contents(opened[j])[k] \in Pieces
  BY <1>3, ContentsOfObject
<1>5. /\ pos[j] + 1 \in 1..Len(Contents(opened[j])) /\ pos[j] + 1 \in 0..(2 * NumEntries + 2)
  BY <1>1, <1>2, <1>4, EntriesAssumption DEF CopyInv, AtEnd
<1>6. c \in Pieces /\ c # NoChunk
  BY <1>4, <1>5, NoPiece
<1>7. /\ offer' = [offer EXCEPT ![j] = c] /\ gpc' = [gpc EXCEPT ![j] = "copy"]
      /\ opened' = [opened EXCEPT ![j] = opened[j]] /\ pos' = [pos EXCEPT ![j] = pos[j] + 1]
      /\ UNCHANGED <<rclosed, werr, getDone, store>>
  BY <1>1 DEF ReadChunk, Offer, CopyRest, ProcessInv, RestoreTypeOK, GetTypeOK
<1> HIDE DEF c
<1>8. /\ GetTypeOK'
      /\ offer'[j] = c /\ gpc'[j] = "copy" /\ opened'[j] = opened[j] /\ pos'[j] = pos[j] + 1
      /\ \A i \in Mounts \ {j} : /\ offer'[i] = offer[i] /\ gpc'[i] = gpc[i]
                                 /\ opened'[i] = opened[i] /\ pos'[i] = pos[i]
  BY <1>2, <1>5, <1>6, <1>7, CopyTypes DEF GetPC
<1>9. CopyInv(j)'
  <2>1. offer'[j] = Contents(opened'[j])[pos'[j]]
    BY <1>8 DEF c
  <2>2. Left(opened[j])' <=> Left(opened[j])
    BY <1>8, LeftStays DEF CopyRest
  <2> QED
    BY <1>1, <1>2, <1>5, <1>7, <1>8, <2>1, <2>2 DEF CopyInv, Present, NoObject
<1>10. ExtractInv(j)'
  <2>1. Taken(j)' = Taken(j)
    BY <1>1, <1>2, <1>6, <1>8 DEF Taken
  <2> QED
    BY <1>1, <1>7, <1>8, <2>1, ExtractionStays DEF Started
<1> QED
  BY <1>1, <1>2, <1>7, <1>8, <1>9, <1>10, CopyStepKeeps

(* The copy ends, by an error or at the end of the object, or is through. *)
LEMMA CopyEndKeeps ==
    ASSUME ProcessInv, Running, NEW j \in Mounts,
           ReadFails(j) \/ CopyEnds(j) \/ CloseGetErrCh(j), CopyRest
    PROVE  ProcessInv'
<1>1. gpc[j] \in {"copy", "finish"} /\ j < next /\ Started(j)
  BY Begun DEF ReadFails, CopyEnds, CloseGetErrCh, Copying
<1>2. CopyInv(j) /\ gres[j] # "ok" /\ opened[j] \in Object /\ pos[j] \in 0..(2 * NumEntries + 2)
      /\ offer[j] = NoChunk
  BY <1>1 DEF Started, CopyInv, DownInv, ProcessInv, RestoreTypeOK, GetTypeOK, ReadFails,
              CopyEnds, CloseGetErrCh, Copying
<1>3. PICK g \in {"sendCopy", "finish", "done"} :
        /\ gpc' = [gpc EXCEPT ![j] = g]
        /\ g = "finish" => Present(opened[j]) /\ AtEnd(j)
        /\ g = "done" => gpc[j] = "finish"
  BY <1>1 DEF ReadFails, CopyEnds, CloseGetErrCh, GetTo, Started, CopyInv, Copying
<1>4. /\ offer' = [offer EXCEPT ![j] = NoChunk]
      /\ opened' = [opened EXCEPT ![j] = opened[j]] /\ pos' = [pos EXCEPT ![j] = pos[j]]
      /\ UNCHANGED <<rclosed, werr, getDone, store>>
  BY <1>2 DEF ReadFails, CopyEnds, CloseGetErrCh, pipeVars, CopyRest, ProcessInv,
              RestoreTypeOK, GetTypeOK
<1>5. /\ GetTypeOK'
      /\ offer'[j] = NoChunk /\ gpc'[j] = g /\ opened'[j] = opened[j] /\ pos'[j] = pos[j]
      /\ \A i \in Mounts \ {j} : /\ offer'[i] = offer[i] /\ gpc'[i] = gpc[i]
                                 /\ opened'[i] = opened[i] /\ pos'[i] = pos[i]
  <2>1. g \in GetPC
    BY DEF GetPC, GetSending
  <2>2. gpc' = [gpc EXCEPT ![j] = g]
    BY <1>3
  <2>3. opened[j] \in Object /\ pos[j] \in 0..(2 * NumEntries + 2)
    BY <1>2
  <2> QED
    BY <1>4, <2>1, <2>2, <2>3, CopyTypes
<1>6. CopyInv(j)'
  <2>1. AllTaken(j)' <=> AllTaken(j)
    BY <1>2, <1>5 DEF AllTaken, AtEnd
  <2>2. gres' = gres /\ (Left(opened[j])' <=> Left(opened[j]))
    BY <1>5, LeftStays DEF CopyRest, downVars
  <2> QED
    BY <1>2, <1>3, <1>5, <2>1, <2>2 DEF CopyInv, AllTaken
<1>7. ExtractInv(j)'
  BY <1>1, <1>2, <1>4, <1>5, ExtractionStays DEF Started, Taken
<1> QED
  BY <1>1, <1>2, <1>4, <1>5, <1>6, <1>7, CopyStepKeeps

(* A write finds the pipe closed: its chunk is withdrawn, when nobody is to
   take it any more. *)
LEMMA WriteFailsKeeps ==
    ASSUME ProcessInv, Running, NEW j \in Mounts, WriteToPipeFails(j), CopyRest
    PROVE  ProcessInv'
<1>1. gpc[j] = "copy" /\ Closed(j) /\ j < next /\ Started(j)
  BY Begun DEF WriteToPipeFails
<1>2. CopyInv(j) /\ gres[j] # "ok" /\ opened[j] \in Object /\ pos[j] \in 0..(2 * NumEntries + 2)
  BY <1>1 DEF Started, DownInv, ProcessInv, RestoreTypeOK, GetTypeOK
<1>3. werr[j] = "err" \/ xpc[j] \in {"close", "done"}
  BY <1>1, <1>2 DEF Started, DownInv, WorkInv, Closed, ProcessInv, RestoreTypeOK, GetTypeOK
<1>4. /\ offer' = [offer EXCEPT ![j] = NoChunk] /\ gpc' = [gpc EXCEPT ![j] = "sendCopy"]
      /\ opened' = [opened EXCEPT ![j] = opened[j]] /\ pos' = [pos EXCEPT ![j] = pos[j]]
      /\ UNCHANGED <<rclosed, werr, getDone, store>>
  BY DEF WriteToPipeFails, GetTo, CopyRest, ProcessInv, RestoreTypeOK, GetTypeOK
<1>5. /\ GetTypeOK'
      /\ offer'[j] = NoChunk /\ gpc'[j] = "sendCopy" /\ opened'[j] = opened[j] /\ pos'[j] = pos[j]
      /\ \A i \in Mounts \ {j} : /\ offer'[i] = offer[i] /\ gpc'[i] = gpc[i]
                                 /\ opened'[i] = opened[i] /\ pos'[i] = pos[i]
  BY <1>2, <1>4, CopyTypes DEF GetPC, GetSending
<1>6. CopyInv(j)'
  <2>1. Left(opened[j])' <=> Left(opened[j])
    BY <1>5, LeftStays DEF CopyRest
  <2> QED
    BY <1>2, <1>4, <1>5, <2>1 DEF CopyInv
<1>7. ExtractInv(j)'
  BY <1>1, <1>3, <1>4, <1>5, ExtractionStays DEF Started
<1> QED
  BY <1>1, <1>2, <1>4, <1>5, <1>6, <1>7, CopyStepKeeps

-----------------------------------------------------------------------------
(* The extraction of one mount. *)

(* What no step of the extraction touches. *)
ExtractRest == UNCHANGED <<conf, store, rclosed, werr, getVars, downVars, workVars, loopVars>>

Extracting(j) == xpc[j] \in {"next", "entry", "copy"}

LEMMA AtEntry ==
    ASSUME ProcessInv, NEW j \in Mounts
    PROVE  cur[j] \in 0..NumEntries /\ cur[j] \in Nat
<1>1. cur[j] \in 0..NumEntries
  BY DEF ProcessInv, RestoreTypeOK, ExtTypeOK
<1> QED
  BY <1>1, EntriesAssumption

(* A chunk that is taken is the one of the object the copy has come to, and
   the next one of those that were taken. *)
LEMMA ChunkTaken ==
    ASSUME ProcessInv, NEW j \in Mounts, Started(j), Take(j), ExtractRest
    PROVE  /\ gpc[j] = "copy" /\ werr[j] = "none" /\ ~rclosed[j]
           /\ Present(opened[j]) /\ Left(opened[j]) /\ opened[j] # NoObject
           /\ pos[j] \in 1..Len(Contents(opened[j])) /\ pos[j] \in Nat
           /\ offer[j] = Contents(opened[j])[pos[j]]
           /\ Taken(j) = pos[j] - 1 /\ Taken(j)' = pos[j]
           /\ offer' = [offer EXCEPT ![j] = NoChunk]
<1>1. CopyInv(j) /\ offer[j] # NoChunk /\ ~Closed(j) /\ offer' = [offer EXCEPT ![j] = NoChunk]
  BY DEF Started, Take
<1>2. gpc[j] = "copy" /\ pos[j] >= 1 /\ offer[j] = Contents(opened[j])[pos[j]]
      /\ pos[j] <= Len(Contents(opened[j])) /\ Present(opened[j])
  BY <1>1 DEF CopyInv
<1>3. opened[j] # NoObject /\ Left(opened[j])
  BY <1>1, <1>2, OpenedFound
<1>4. pos[j] \in Nat /\ Len(Contents(opened[j])) \in Nat
  <2>1. pos[j] \in 0..(2 * NumEntries + 2) /\ Len(Contents(opened[j])) \in 0..(2 * NumEntries + 2)
    BY <1>3, ContentsOfObject DEF ProcessInv, RestoreTypeOK, GetTypeOK
  <2> QED
    BY <2>1, EntriesAssumption
<1>5. offer'[j] = NoChunk /\ pos' = pos
  BY <1>1 DEF ProcessInv, RestoreTypeOK, GetTypeOK, ExtractRest, getVars
<1> QED
  BY <1>1, <1>2, <1>3, <1>4, <1>5 DEF Taken, Closed

(* A step of the extraction keeps the invariant if it keeps what is said of
   the extraction. *)
LEMMA ExtractStepKeeps ==
    ASSUME ProcessInv, Running, NEW j \in Mounts, j < next, Started(j), ExtractRest,
           Extracting(j), offer' = offer \/ Take(j),
           NEW x \in {"next", "entry", "copy", "close"}, xpc' = [xpc EXCEPT ![j] = x],
           NEW n \in 0..NumEntries, cur' = [cur EXCEPT ![j] = n],
           NEW e \in BOOLEAN, xerr' = [xerr EXCEPT ![j] = e],
           local' \in [Mounts -> [1..NumEntries -> File]],
           \A i \in Mounts \ {j} : local'[i] = local[i],
           ExtractInv(j)'
    PROVE  ProcessInv'
<1>1. /\ offer' \in [Mounts -> Pieces \cup {NoChunk}]
      /\ \A i \in Mounts \ {j} : offer'[i] = offer[i]
      /\ offer'[j] = offer[j] \/ (offer[j] # NoChunk /\ offer'[j] = NoChunk)
  BY DEF ProcessInv, RestoreTypeOK, GetTypeOK, Take
<1>2. GetTypeOK'
  BY <1>1 DEF ProcessInv, RestoreTypeOK, GetTypeOK, ExtractRest, getVars
<1>3. /\ xpc'[j] = x /\ cur'[j] = n /\ xerr'[j] = e
      /\ \A i \in Mounts \ {j} : xpc'[i] = xpc[i] /\ cur'[i] = cur[i] /\ xerr'[i] = xerr[i]
      /\ xpc' \in [Mounts -> ExtPC] /\ cur' \in [Mounts -> 0..NumEntries]
      /\ xerr' \in [Mounts -> BOOLEAN]
  BY DEF ProcessInv, RestoreTypeOK, ExtTypeOK, ExtPC
<1>4. RestoreTypeOK'
  BY <1>2, <1>3 DEF ProcessInv, RestoreTypeOK, ExtTypeOK, ExtractRest, getVars, downVars,
                    workVars, loopVars
<1>5. Elsewhere(j)
  BY <1>1, <1>3 DEF Elsewhere, ExtractRest, getVars, downVars, workVars
<1>6. CopyInv(j)'
  <2>1. offer[j] # NoChunk => gpc[j] = "copy"
    BY DEF Started, CopyInv
  <2>2. /\ gpc' = gpc /\ opened' = opened /\ pos' = pos /\ store' = store /\ gres' = gres
    BY DEF ExtractRest, getVars, downVars
  <2>3. gpc[j] # "copy" => AllTaken(j)' = AllTaken(j)
    BY <1>1, <2>1, <2>2 DEF AllTaken, AtEnd
  <2>4. Left(opened[j])' <=> Left(opened[j])
    BY <2>2, LeftStays DEF ExtractRest
  <2> QED
    BY <1>1, <2>1, <2>2, <2>3, <2>4 DEF Started, CopyInv
<1>7. wpc[j] = "extract" /\ ~rclosed[j]
  BY DEF Started, WorkInv, Extracting
<1>8. DownInv(j)' /\ WorkInv(j)'
  BY <1>3, <1>7 DEF Started, DownInv, WorkInv, ExtractRest, getVars, downVars, workVars
<1>9. Started(j)'
  BY <1>6, <1>8 DEF Started
<1> QED
  BY <1>4, <1>5, <1>7, <1>9, StepKeeps DEF ExtractRest, loopVars

(* When the extraction fails nothing more is said of the files. *)
LEMMA FailureKeeps ==
    ASSUME ProcessInv, Running, NEW j \in Mounts, j < next, Started(j), ExtractRest,
           Extracting(j), offer' = offer \/ Take(j), ExtractReturns(j, TRUE),
           local' \in [Mounts -> [1..NumEntries -> File]],
           \A i \in Mounts \ {j} : local'[i] = local[i]
    PROVE  ProcessInv'
<1>1. /\ xpc' = [xpc EXCEPT ![j] = "close"] /\ cur' = [cur EXCEPT ![j] = cur[j]]
      /\ xerr' = [xerr EXCEPT ![j] = TRUE] /\ cur[j] \in 0..NumEntries
  BY DEF ExtractReturns, ExtTo, ProcessInv, RestoreTypeOK, ExtTypeOK
<1>2. xpc'[j] = "close" /\ xerr'[j] = TRUE /\ cur'[j] = cur[j] /\ opened' = opened
  BY <1>1 DEF ProcessInv, RestoreTypeOK, ExtTypeOK, ExtractRest, getVars
<1>3. ExtractInv(j)'
  BY <1>2 DEF Started, ExtractInv
<1> QED
  BY <1>1, <1>3, ExtractStepKeeps

(* The type of the files when the one of the present entry has changed. *)
LEMMA FileChanges ==
    ASSUME ProcessInv, NEW j \in Mounts, cur[j] \in 1..NumEntries, NEW v \in Nat,
           NEW t \in {"absent", "old", "longer", "extracted", "tail", "part"}, SetHere(j, v, t)
    PROVE  /\ local' \in [Mounts -> [1..NumEntries -> File]]
           /\ \A i \in Mounts \ {j} : local'[i] = local[i]
           /\ local'[j][cur[j]] = [ver |-> v, state |-> t]
           /\ \A k \in 1..NumEntries : k # cur[j] => local'[j][k] = local[j][k]
<1>1. [ver |-> v, state |-> t] \in File
  BY DEF File
<1>2. local \in [Mounts -> [1..NumEntries -> File]]
  BY DEF ProcessInv, RestoreTypeOK, ExtTypeOK
<1>3. local' = [local EXCEPT ![j] = [local[j] EXCEPT ![cur[j]] = [ver |-> v, state |-> t]]]
  BY DEF SetHere
<1> QED
  BY <1>1, <1>2, <1>3

(* The first header, or the next one. *)
LEMMA NextHeaderKeeps ==
    ASSUME ProcessInv, Running, NEW j \in Mounts, j < next, Started(j), ExtractRest,
           NextHeader(j)
    PROVE  ProcessInv'
<1>1. /\ xpc[j] = "next" /\ Take(j) /\ cur[j] < NumEntries /\ ExtractInv(j)
      /\ cur[j] \in 0..NumEntries /\ cur[j] \in Nat
  BY EntriesAssumption DEF NextHeader, Started, ProcessInv, RestoreTypeOK, ExtTypeOK
<1>2. /\ xpc' = [xpc EXCEPT ![j] = "entry"] /\ cur' = [cur EXCEPT ![j] = cur[j] + 1]
      /\ xerr' = [xerr EXCEPT ![j] = xerr[j]] /\ local' = local
  BY DEF NextHeader, ExtTo, ProcessInv, RestoreTypeOK, ExtTypeOK
<1>3. /\ xpc'[j] = "entry" /\ cur'[j] = cur[j] + 1 /\ xerr'[j] = xerr[j]
      /\ opened' = opened /\ werr' = werr
  BY <1>2 DEF ProcessInv, RestoreTypeOK, ExtTypeOK, ExtractRest, getVars
<1>4. /\ werr[j] = "none" /\ opened[j] # NoObject /\ pos[j] \in Nat
      /\ Taken(j) = pos[j] - 1 /\ Taken(j)' = pos[j]
  BY <1>1, ChunkTaken
<1>5. pos[j] = 2 * cur[j] + 1 /\ ~xerr[j]
  BY <1>1, <1>4 DEF ExtractInv
<1>6. ASSUME NEW k \in 1..NumEntries
      PROVE  /\ k < cur[j] + 1 => InPlaceFrom(opened[j].ver, j, k)
             /\ k > cur[j] + 1 => local[j][k] \in Before
  BY <1>1 DEF ExtractInv
<1>7. ExtractInv(j)'
  BY <1>1, <1>2, <1>3, <1>4, <1>5, <1>6 DEF ExtractInv, InPlaceFrom
<1>8. cur[j] + 1 \in 0..NumEntries /\ xerr[j] \in BOOLEAN
  BY <1>1, EntriesAssumption DEF ProcessInv, RestoreTypeOK, ExtTypeOK
<1> QED
  BY <1>1, <1>2, <1>7, <1>8, ExtractStepKeeps DEF Extracting, ProcessInv, RestoreTypeOK, ExtTypeOK

(* The extraction ends without an error. *)
LEMMA SuccessKeeps ==
    ASSUME ProcessInv, Running, NEW j \in Mounts, j < next, Started(j), ExtractRest,
           xpc[j] = "next", offer' = offer \/ Take(j), ExtractReturns(j, FALSE), local' = local,
           opened[j] # NoObject, cur[j] = opened[j].entries,
           opened[j].end \in {"trailer", "torn"} \/ (opened[j].end = "open" /\ ~conf.gzip)
    PROVE  ProcessInv'
<1>1. /\ xpc' = [xpc EXCEPT ![j] = "close"] /\ cur' = [cur EXCEPT ![j] = cur[j]]
      /\ xerr' = [xerr EXCEPT ![j] = FALSE] /\ cur[j] \in 0..NumEntries
  BY DEF ExtractReturns, ExtTo, ProcessInv, RestoreTypeOK, ExtTypeOK
<1>2. /\ xpc'[j] = "close" /\ cur'[j] = cur[j] /\ opened' = opened /\ conf' = conf
  BY <1>1 DEF ProcessInv, RestoreTypeOK, ExtTypeOK, ExtractRest, getVars
<1>3. ASSUME NEW k \in 1..NumEntries
      PROVE  IF k <= opened[j].entries THEN InPlaceFrom(opened[j].ver, j, k)
                                       ELSE local[j][k] \in Before
  <2>1. cur[j] \in Nat /\ k \in Nat
    BY <1>1, EntriesAssumption
  <2> QED
    BY <2>1 DEF Started, ExtractInv
<1>4. AllExtracted(j)'
  BY <1>2, <1>3 DEF AllExtracted, InPlaceFrom
<1>5. ExtractInv(j)'
  BY <1>2, <1>4 DEF Started, ExtractInv
<1> QED
  BY <1>1, <1>5, ExtractStepKeeps DEF Extracting, ProcessInv, RestoreTypeOK, ExtTypeOK

(* The trailer comes behind the last entry. *)
LEMMA NextTrailerKeeps ==
    ASSUME ProcessInv, Running, NEW j \in Mounts, j < next, Started(j), ExtractRest,
           NextTrailer(j)
    PROVE  ProcessInv'
<1>1. /\ xpc[j] = "next" /\ Take(j) /\ offer[j] \in {"trailer", "torn"} /\ local' = local
      /\ ExtractReturns(j, FALSE) /\ ExtractInv(j) /\ cur[j] \in Nat
  BY AtEntry DEF NextTrailer, Started
<1>2. /\ werr[j] = "none" /\ Left(opened[j]) /\ opened[j] # NoObject
      /\ pos[j] \in 1..Len(Contents(opened[j])) /\ pos[j] \in Nat
      /\ offer[j] = Contents(opened[j])[pos[j]] /\ Taken(j) = pos[j] - 1
  BY <1>1, ChunkTaken
<1>3. Left(opened[j])
  BY <1>2
<1>4. pos[j] = 2 * opened[j].entries + 1 /\ opened[j].end = offer[j] /\ opened[j].entries \in Nat
  BY <1>1, <1>2, <1>3, ContentsOfObject, ObjectFound
<1>5. Taken(j) = 2 * cur[j]
  BY <1>1, <1>2 DEF ExtractInv
<1>6. cur[j] = opened[j].entries
  BY <1>1, <1>2, <1>4, <1>5
<1> QED
  BY <1>1, <1>2, <1>4, <1>6, SuccessKeeps

(* The stream ends where an entry could begin, and not by an error: all of
   the object was read, and it is cut between two entries. *)
LEMMA StreamEndsKeeps ==
    ASSUME ProcessInv, Running, NEW j \in Mounts, j < next, Started(j), ExtractRest,
           StreamEnds(j)
    PROVE  ProcessInv'
<1>1. /\ Extracting(j) /\ local' = local /\ offer' = offer /\ ExtractReturns(j, ~EndsHere(j))
      /\ local' \in [Mounts -> [1..NumEntries -> File]]
  BY DEF StreamEnds, Extracting, pipeVars, ProcessInv, RestoreTypeOK, ExtTypeOK
<1>2. CASE ~EndsHere(j)
  <2>1. ExtractReturns(j, TRUE)
    BY <1>1, <1>2 DEF ExtractReturns
  <2> QED
    BY <1>1, <2>1, FailureKeeps
<1>3. CASE EndsHere(j)
  <2>1. xpc[j] = "next" /\ werr[j] = "eof" /\ ~conf.gzip /\ ExtractReturns(j, FALSE)
    BY <1>1, <1>3 DEF EndsHere, ReadError, ExtractReturns
  <2>2. CopyInv(j) /\ AllTaken(j)
    BY <2>1 DEF Started, DownInv, CopyInv
  <2>3. /\ opened[j] # NoObject /\ Left(opened[j])
    BY <2>2, OpenedFound DEF AllTaken
  <2>4. pos[j] = Len(Contents(opened[j])) /\ Taken(j) = pos[j]
    BY <2>2 DEF AllTaken, AtEnd, Taken
  <2>5. Taken(j) = 2 * cur[j] /\ cur[j] <= opened[j].entries
    BY <2>1 DEF Started, ExtractInv
  <2>6. /\ opened[j].entries \in Nat /\ cur[j] \in Nat
        /\ opened[j].end \in {"absent", "open", "torn", "short", "trailer"} /\ Present(opened[j])
    <3>1. cur[j] \in Nat
      BY AtEntry
    <3>2. Present(opened[j])
      BY <2>2 DEF AllTaken
    <3> QED
      BY <2>3, <3>1, <3>2, ObjectFound
  <2>7. 2 * opened[j].entries <= 2 * cur[j]
    BY <2>3, <2>4, <2>5, ContentsOfObject
  <2>8. cur[j] = opened[j].entries
    BY <2>5, <2>6, <2>7
  <2>9. opened[j].end = "open"
    BY <2>3, <2>4, <2>5, <2>6, <2>8, ContentsOfObject DEF Present
  <2> QED
    BY <1>1, <2>1, <2>3, <2>8, <2>9, SuccessKeeps
<1> QED
  BY <1>2, <1>3

(* An entry is created, or its creation fails. *)
LEMMA CreateEntryKeeps ==
    ASSUME ProcessInv, Running, NEW j \in Mounts, j < next, Started(j), ExtractRest,
           CreateEntry(j) \/ CreateEntryFails(j)
    PROVE  ProcessInv'
<1>1. /\ Extracting(j) /\ xpc[j] = "entry" /\ offer' = offer /\ ExtractInv(j)
      /\ local \in [Mounts -> [1..NumEntries -> File]]
  BY DEF CreateEntry, CreateEntryFails, Extracting, pipeVars, Started, ProcessInv,
         RestoreTypeOK, ExtTypeOK
<1>2. cur[j] \in 1..NumEntries /\ cur[j] \in 0..NumEntries /\ cur[j] \in Nat
  BY <1>1, AtEntry, EntriesAssumption DEF ExtractInv
<1>3. CASE CreateEntryFails(j)
  BY <1>1, <1>3, FailureKeeps DEF CreateEntryFails
<1>4. CASE CreateEntry(j)
  <2>1. /\ xpc' = [xpc EXCEPT ![j] = "copy"] /\ cur' = [cur EXCEPT ![j] = cur[j]]
        /\ xerr' = [xerr EXCEPT ![j] = xerr[j]] /\ xerr[j] \in BOOLEAN
        /\ local' = local \/ SetHere(j, 0, "part")
    BY <1>4 DEF CreateEntry, ExtTo, ProcessInv, RestoreTypeOK, ExtTypeOK
  <2>2. /\ local' \in [Mounts -> [1..NumEntries -> File]]
        /\ \A i \in Mounts \ {j} : local'[i] = local[i]
        /\ \A k \in 1..NumEntries : k # cur[j] => local'[j][k] = local[j][k]
    BY <1>1, <1>2, <2>1, FileChanges
  <2>3. /\ xpc'[j] = "copy" /\ cur'[j] = cur[j] /\ xerr'[j] = xerr[j]
        /\ opened' = opened /\ werr' = werr /\ pos' = pos
    BY <2>1 DEF ProcessInv, RestoreTypeOK, ExtTypeOK, ExtractRest, getVars
  <2>4. ASSUME NEW k \in 1..NumEntries
        PROVE  /\ k < cur[j] => InPlaceFrom(opened[j].ver, j, k) /\ local'[j][k] = local[j][k]
               /\ k > cur[j] => local[j][k] \in Before /\ local'[j][k] = local[j][k]
    BY <1>1, <1>2, <2>2 DEF ExtractInv
  <2>5. Taken(j)' = Taken(j)
    BY <1>1, <2>3 DEF Taken
  <2>6. ExtractInv(j)'
    BY <1>1, <2>3, <2>4, <2>5 DEF ExtractInv, InPlaceFrom
  <2> QED
    BY <1>1, <1>2, <2>1, <2>2, <2>6, ExtractStepKeeps
<1> QED
  BY <1>3, <1>4

(* The body of an entry is written, and was the one of that entry. *)
LEMMA CopyBodyKeeps ==
    ASSUME ProcessInv, Running, NEW j \in Mounts, j < next, Started(j), ExtractRest,
           CopyBody(j) \/ CopyBodyFails(j)
    PROVE  ProcessInv'
<1>1. Extracting(j) /\ xpc[j] = "copy" /\ Take(j) /\ ExtractInv(j)
  BY DEF CopyBody, CopyBodyFails, Extracting, Started
<1>2. cur[j] \in 1..NumEntries /\ cur[j] \in 0..NumEntries /\ cur[j] \in Nat
  BY <1>1, AtEntry, EntriesAssumption DEF ExtractInv
<1>3. CASE CopyBodyFails(j)
  BY <1>1, <1>2, <1>3, FileChanges, FailureKeeps DEF CopyBodyFails
<1>4. CASE CopyBody(j)
  <2>1. PICK t \in {"tail", "extracted"} : SetHere(j, opened[j].ver, t)
    BY <1>4 DEF CopyBody
  <2>2. opened[j].ver \in Nat
    BY DEF ProcessInv, RestoreTypeOK, GetTypeOK, Object
  <2>3. /\ local' \in [Mounts -> [1..NumEntries -> File]]
        /\ \A i \in Mounts \ {j} : local'[i] = local[i]
        /\ local'[j][cur[j]] = [ver |-> opened[j].ver, state |-> t]
        /\ \A k \in 1..NumEntries : k # cur[j] => local'[j][k] = local[j][k]
    <3>1. t \in {"absent", "old", "longer", "extracted", "tail", "part"}
      OBVIOUS
    <3> QED
      BY <1>2, <2>1, <2>2, <3>1, FileChanges
  <2>4. CASE ExtractReturns(j, TRUE)
    BY <1>1, <2>3, <2>4, FailureKeeps
  <2>5. CASE ExtTo(j, "next") /\ UNCHANGED <<cur, xerr>>
    <3>1. /\ xpc' = [xpc EXCEPT ![j] = "next"] /\ cur' = [cur EXCEPT ![j] = cur[j]]
          /\ xerr' = [xerr EXCEPT ![j] = xerr[j]] /\ xerr[j] \in BOOLEAN
      BY <2>5 DEF ExtTo, ProcessInv, RestoreTypeOK, ExtTypeOK
    <3>2. /\ xpc'[j] = "next" /\ cur'[j] = cur[j] /\ xerr'[j] = xerr[j]
          /\ opened' = opened /\ werr' = werr
      BY <3>1 DEF ProcessInv, RestoreTypeOK, ExtTypeOK, ExtractRest, getVars
    <3>3. /\ werr[j] = "none" /\ Left(opened[j]) /\ opened[j] # NoObject
          /\ pos[j] \in 1..Len(Contents(opened[j])) /\ pos[j] \in Nat
          /\ offer[j] = Contents(opened[j])[pos[j]]
          /\ Taken(j) = pos[j] - 1 /\ Taken(j)' = pos[j]
      BY <1>1, ChunkTaken
    <3>4. pos[j] = 2 * cur[j]
      BY <1>1, <1>2, <3>3 DEF ExtractInv
    <3>5. Left(opened[j])
      BY <3>3
    <3>6. pos[j] <= 2 * opened[j].entries /\ opened[j].entries \in Nat
      BY <1>4, <3>3, <3>5, ContentsOfObject, ObjectFound DEF CopyBody
    <3>7. cur[j] <= opened[j].entries
      BY <1>2, <3>4, <3>6
    <3>8. ASSUME NEW k \in 1..NumEntries
          PROVE  /\ k < cur[j] \/ k = cur[j] =>
                        local'[j][k] \in [ver: {opened[j].ver}, state: {"extracted", "tail"}]
                 /\ k > cur[j] => local'[j][k] \in Before
      BY <1>1, <1>2, <2>3 DEF ExtractInv, InPlaceFrom
    <3>9. ExtractInv(j)'
      BY <1>1, <3>2, <3>3, <3>4, <3>7, <3>8 DEF ExtractInv, InPlaceFrom
    <3> QED
      BY <1>1, <1>2, <2>3, <3>1, <3>9, ExtractStepKeeps
  <2> QED
    BY <1>4, <2>4, <2>5 DEF CopyBody
<1> QED
  BY <1>3, <1>4

(* Any step of the extraction. *)
LEMMA ExtractKeeps ==
    ASSUME ProcessInv, Running, NEW j \in Mounts, ExtractStep(j), UNCHANGED <<conf, store>>
    PROVE  ProcessInv'
<1>1. xpc[j] # "idle"
  BY DEF ExtractStep, Extract, NextHeader, NextUnreadable, NextTrailer, CreateEntry,
         CreateEntryFails, CopyBody, CopyBodyFails, StreamEnds
<1>2. j < next /\ Started(j)
  BY <1>1, Begun
<1>3. ExtractRest
  BY DEF ExtractStep, Extract, ExtractRest, NextHeader, NextUnreadable, NextTrailer, CreateEntry,
         CreateEntryFails, CopyBody, CopyBodyFails, StreamEnds, Take, pipeVars
<1>4. CASE NextUnreadable(j)
  <2>1. /\ Extracting(j) /\ Take(j) /\ ExtractReturns(j, TRUE) /\ local' = local
        /\ local' \in [Mounts -> [1..NumEntries -> File]]
    BY <1>4 DEF NextUnreadable, Extracting, ProcessInv, RestoreTypeOK, ExtTypeOK
  <2> QED
    BY <1>2, <1>3, <2>1, FailureKeeps
<1> QED
  BY <1>2, <1>3, <1>4, NextHeaderKeeps, NextTrailerKeeps, CreateEntryKeeps, CopyBodyKeeps,
     StreamEndsKeeps DEF ExtractStep, Extract

(* Any step of the copy. *)
LEMMA GetCopyKeeps ==
    ASSUME ProcessInv, Running, NEW j \in Mounts, GetCopyStep(j), UNCHANGED <<conf, store>>
    PROVE  ProcessInv'
<1>1. CopyRest
  BY DEF GetCopyStep, CopyRest
<1> QED
  BY <1>1, OpenKeeps, ReadChunkKeeps, CopyEndKeeps, WriteFailsKeeps DEF GetCopyStep, GetCopy

-----------------------------------------------------------------------------
(* The downloader of one mount. *)

(* What no step of the downloader touches. *)
DownRest == UNCHANGED <<conf, store, opened, pos, offer, rclosed, extVars, workVars, loopVars>>

(* A step of the downloader keeps the invariant if it keeps what is said of
   the copy and of the downloader: to the extraction no error becomes the end
   of the stream. *)
LEMMA DownStepKeeps ==
    ASSUME ProcessInv, Running, NEW j \in Mounts, j < next, Started(j), DownRest,
           NEW g \in GetPC, gpc' = [gpc EXCEPT ![j] = g],
           NEW d \in {"get", "cancel", "fail", "close", "done"}, dpc' = [dpc EXCEPT ![j] = d],
           NEW r \in {"none", "ok", "err"}, gres' = [gres EXCEPT ![j] = r],
           NEW w \in {"none", "eof", "err"}, werr' = [werr EXCEPT ![j] = w],
           getDone' \in [Mounts -> BOOLEAN],
           werr[j] = "err" => w = "err",
           g # gpc[j] => gpc[j] \in GetSending /\ g = "finish",
           g = "finish" => r = "err" \/ AllTaken(j),
           g = "done" => r = "err" \/ AllTaken(j),
           DownInv(j)'
    PROVE  ProcessInv'
<1>1. /\ gpc'[j] = g /\ dpc'[j] = d /\ gres'[j] = r /\ werr'[j] = w
      /\ \A i \in Mounts \ {j} : /\ gpc'[i] = gpc[i] /\ dpc'[i] = dpc[i] /\ gres'[i] = gres[i]
                                 /\ werr'[i] = werr[i]
  BY DEF ProcessInv, RestoreTypeOK, GetTypeOK
<1>2. RestoreTypeOK'
  BY DEF ProcessInv, RestoreTypeOK, GetTypeOK, ExtTypeOK, DownRest, extVars, workVars, loopVars
<1>3. Elsewhere(j)
  BY <1>1 DEF Elsewhere, DownRest, extVars, workVars
<1>4. CopyInv(j)'
  <2>1. /\ opened' = opened /\ pos' = pos /\ offer' = offer /\ store' = store
        /\ AllTaken(j)' = AllTaken(j)
    BY DEF DownRest, AllTaken, AtEnd
  <2>2. CopyInv(j) /\ (gpc[j] \in GetSending => offer[j] = NoChunk)
    BY DEF Started, CopyInv, GetSending
  <2>3. g # "idle" /\ (g = "copy" => gpc[j] = "copy")
        /\ (g \in {"open", "sendOpen"} => gpc[j] = g)
    BY <2>2 DEF CopyInv
  <2>4. offer[j] # NoChunk => g = "copy"
    BY <2>2 DEF CopyInv, GetSending
  <2>5. Left(opened[j])' <=> Left(opened[j])
    BY <2>1, LeftStays DEF DownRest
  <2> QED
    BY <1>1, <2>1, <2>2, <2>3, <2>4, <2>5 DEF CopyInv
<1>5. ExtractInv(j)'
  <2>1. /\ xpc' = xpc /\ cur' = cur /\ xerr' = xerr /\ local' = local /\ opened' = opened
        /\ Taken(j)' = Taken(j)
    BY DEF DownRest, extVars, Taken
  <2>2. AllExtracted(j)' <=> AllExtracted(j)
    BY <2>1 DEF DownRest, AllExtracted, InPlaceFrom
  <2> QED
    BY <1>1, <2>1, <2>2 DEF Started, ExtractInv, InPlaceFrom
<1>6. WorkInv(j)'
  BY DEF Started, WorkInv, DownRest, extVars, workVars
<1> QED
  BY <1>2, <1>3, <1>4, <1>5, <1>6, StepKeeps DEF Started, DownRest, extVars, workVars, loopVars

(* Get returns, once it has taken the error of its copy or found the channel
   closed, or when its context is done. *)
LEMMA GetReturnsKeeps ==
    ASSUME ProcessInv, Running, NEW j \in Mounts, DownRest,
           ReceiveGetError(j) \/ ReceiveGetClosed(j) \/ ReceiveGetDone(j)
    PROVE  ProcessInv'
<1>1. dpc[j] = "get" /\ j < next /\ Started(j)
  BY Begun DEF ReceiveGetError, ReceiveGetClosed, ReceiveGetDone, GetReturns
<1>2. gres[j] = "none" /\ werr[j] = "none" /\ werr' = werr /\ getDone' \in [Mounts -> BOOLEAN]
  BY <1>1 DEF Started, DownInv, ReceiveGetError, ReceiveGetClosed, ReceiveGetDone, GetReturns,
              pipeVars, ProcessInv, RestoreTypeOK, GetTypeOK
<1>3. /\ dpc' = [dpc EXCEPT ![j] = "cancel"] /\ werr' = [werr EXCEPT ![j] = "none"]
      /\ dpc'[j] = "cancel" /\ werr'[j] = "none"
  BY <1>2 DEF ReceiveGetError, ReceiveGetClosed, ReceiveGetDone, GetReturns, DownTo,
              ProcessInv, RestoreTypeOK, GetTypeOK
<1>4. CASE ReceiveGetError(j)
  <2>1. /\ gpc' = [gpc EXCEPT ![j] = "finish"] /\ gpc[j] \in GetSending
        /\ gres' = [gres EXCEPT ![j] = "err"] /\ gres'[j] = "err" /\ "finish" \in GetPC
    BY <1>4 DEF ReceiveGetError, GetTo, GetReturns, GetPC, ProcessInv, RestoreTypeOK
  <2>2. DownInv(j)'
    BY <1>3, <2>1 DEF DownInv
  <2> QED
    BY <1>1, <1>2, <1>3, <2>1, <2>2, DownStepKeeps
<1>5. CASE ReceiveGetClosed(j)
  <2>1. /\ gpc[j] = "done" /\ gpc' = [gpc EXCEPT ![j] = "done"] /\ gpc'[j] = "done"
        /\ gres' = [gres EXCEPT ![j] = "ok"] /\ gres'[j] = "ok" /\ "done" \in GetPC
    BY <1>5 DEF ReceiveGetClosed, GetReturns, GetPC, ProcessInv, RestoreTypeOK, GetTypeOK
  <2>2. AllTaken(j)
    BY <1>1, <1>2, <2>1 DEF Started, CopyInv
  <2>3. DownInv(j)'
    BY <1>3, <2>1 DEF DownInv
  <2> QED
    BY <1>1, <1>2, <1>3, <2>1, <2>2, <2>3, DownStepKeeps
<1>6. CASE ReceiveGetDone(j)
  <2>1. /\ gpc' = [gpc EXCEPT ![j] = gpc[j]] /\ gpc[j] \in GetPC
        /\ gres' = [gres EXCEPT ![j] = "err"] /\ gres'[j] = "err"
    BY <1>6 DEF ReceiveGetDone, GetReturns, ProcessInv, RestoreTypeOK, GetTypeOK
  <2>2. DownInv(j)'
    BY <1>3, <2>1 DEF DownInv
  <2> QED
    BY <1>1, <1>2, <1>3, <2>1, <2>2, DownStepKeeps
<1> QED
  BY <1>4, <1>5, <1>6

(* The pipe is closed, with the error of Get if it has one; a deadline
   passes. *)
LEMMA DownloadEndKeeps ==
    ASSUME ProcessInv, Running, NEW j \in Mounts, DownRest,
           CancelGet(j) \/ FailPipe(j) \/ ClosePipeDown(j) \/ GetTimeout(j)
    PROVE  ProcessInv'
<1>1. dpc[j] # "idle" /\ j < next /\ Started(j)
  BY Begun DEF CancelGet, FailPipe, ClosePipeDown, GetTimeout
<1>2. /\ DownInv(j) /\ CopyInv(j) /\ gpc[j] \in GetPC /\ gres[j] \in {"none", "ok", "err"}
      /\ werr[j] \in {"none", "eof", "err"}
      /\ dpc[j] \in {"get", "cancel", "fail", "close", "done"}
  BY <1>1 DEF Started, ProcessInv, RestoreTypeOK, GetTypeOK
<1>3. /\ gpc' = [gpc EXCEPT ![j] = gpc[j]] /\ gres' = [gres EXCEPT ![j] = gres[j]]
      /\ getDone' \in [Mounts -> BOOLEAN] /\ gpc'[j] = gpc[j] /\ gres'[j] = gres[j]
  BY DEF CancelGet, FailPipe, ClosePipeDown, GetTimeout, getVars, downVars, ProcessInv,
         RestoreTypeOK, GetTypeOK
<1>4. (gpc[j] = "finish" \/ gpc[j] = "done") => gres[j] = "err" \/ AllTaken(j)
  BY <1>2 DEF CopyInv
<1>5. CASE CancelGet(j)
  <2>1. /\ dpc[j] = "cancel" /\ werr' = [werr EXCEPT ![j] = werr[j]] /\ werr'[j] = werr[j]
        /\ dpc' = [dpc EXCEPT ![j] = IF gres[j] = "ok" THEN "close" ELSE "fail"]
        /\ dpc'[j] = IF gres[j] = "ok" THEN "close" ELSE "fail"
    BY <1>5 DEF CancelGet, DownTo, pipeVars, ProcessInv, RestoreTypeOK, GetTypeOK
  <2>2. DownInv(j)'
    BY <1>2, <1>3, <2>1 DEF DownInv
  <2> QED
    BY <1>1, <1>2, <1>3, <1>4, <2>1, <2>2, DownStepKeeps
<1>6. CASE FailPipe(j)
  <2>1. /\ dpc[j] = "fail" /\ gres[j] = "err" /\ werr[j] = "none"
        /\ werr' = [werr EXCEPT ![j] = "err"] /\ werr'[j] = "err"
        /\ dpc' = [dpc EXCEPT ![j] = "close"] /\ dpc'[j] = "close"
    BY <1>2, <1>6 DEF FailPipe, CloseWriter, DownTo, DownInv, ProcessInv, RestoreTypeOK, GetTypeOK
  <2>2. DownInv(j)'
    BY <1>3, <2>1 DEF DownInv
  <2> QED
    BY <1>1, <1>2, <1>3, <1>4, <2>1, <2>2, DownStepKeeps
<1>7. CASE ClosePipeDown(j)
  <2> DEFINE w == IF werr[j] = "none" THEN "eof" ELSE werr[j]
  <2>1. /\ dpc[j] = "close" /\ werr' = [werr EXCEPT ![j] = w] /\ werr'[j] = w
        /\ dpc' = [dpc EXCEPT ![j] = "done"] /\ dpc'[j] = "done"
    BY <1>7 DEF ClosePipeDown, CloseWriter, DownTo, ProcessInv, RestoreTypeOK, GetTypeOK
  <2>2. w \in {"none", "eof", "err"} /\ (werr[j] = "err" => w = "err")
    BY <1>2
  <2>3. DownInv(j)'
    BY <1>2, <1>3, <2>1 DEF DownInv
  <2> HIDE DEF w
  <2> QED
    BY <1>1, <1>2, <1>3, <1>4, <2>1, <2>2, <2>3, DownStepKeeps
<1>8. CASE GetTimeout(j)
  <2>1. /\ werr' = [werr EXCEPT ![j] = werr[j]] /\ werr' = werr
        /\ dpc' = [dpc EXCEPT ![j] = dpc[j]] /\ dpc' = dpc
    BY <1>8 DEF GetTimeout, pipeVars, downVars, ProcessInv, RestoreTypeOK, GetTypeOK
  <2>2. DownInv(j)'
    BY <1>2, <1>3, <2>1 DEF DownInv
  <2> QED
    BY <1>1, <1>2, <1>3, <1>4, <2>1, <2>2, DownStepKeeps
<1> QED
  BY <1>5, <1>6, <1>7, <1>8

(* Any step of the downloader, and its deadline. *)
LEMMA DownloadKeeps ==
    ASSUME ProcessInv, Running, NEW j \in Mounts, Download(j) \/ GetTimeout(j),
           UNCHANGED <<conf, store>>
    PROVE  ProcessInv'
<1>1. DownRest
  BY DEF DownRest, Download, GetTimeout, ReceiveGetError, ReceiveGetClosed, ReceiveGetDone,
         GetReturns, CancelGet, FailPipe, ClosePipeDown, CloseWriter, pipeVars, getVars
<1> QED
  BY <1>1, GetReturnsKeeps, DownloadEndKeeps DEF Download


-----------------------------------------------------------------------------
(* The worker of one mount, the loop and the end of the process. *)

(* A step of the worker keeps the invariant if it keeps what is said of the
   worker: it closes the read end of the pipe when Extract has returned, and
   leaves the files alone. *)
LEMMA WorkStepKeeps ==
    ASSUME ProcessInv, Running, NEW j \in Mounts, j < next, Started(j),
           UNCHANGED <<conf, store, offer, werr, getVars, cur, xerr, local, downVars, loopVars>>,
           NEW r \in BOOLEAN, rclosed' = [rclosed EXCEPT ![j] = r],
           NEW x \in {"close", "done"}, xpc' = [xpc EXCEPT ![j] = x],
           x = xpc[j] \/ xpc[j] = "close",
           NEW w \in {"extract", "addErr", "wg", "done"}, wpc' = [wpc EXCEPT ![j] = w],
           wpc[j] # "done", rerrs' = rerrs \/ rerrs' = rerrs \cup {j},
           WorkInv(j)'
    PROVE  ProcessInv'
<1>1. /\ rclosed'[j] = r /\ xpc'[j] = x /\ wpc'[j] = w
      /\ \A i \in Mounts \ {j} : rclosed'[i] = rclosed[i] /\ xpc'[i] = xpc[i] /\ wpc'[i] = wpc[i]
      /\ rclosed' \in [Mounts -> BOOLEAN] /\ xpc' \in [Mounts -> ExtPC]
      /\ wpc' \in [Mounts -> {"idle", "extract", "addErr", "wg", "done"}]
      /\ rerrs' \subseteq Mounts
  BY DEF ProcessInv, RestoreTypeOK, GetTypeOK, ExtTypeOK, ExtPC
<1>2. RestoreTypeOK'
  BY <1>1 DEF ProcessInv, RestoreTypeOK, GetTypeOK, ExtTypeOK, getVars, downVars, loopVars
<1>3. Elsewhere(j)
  BY <1>1 DEF Elsewhere, getVars, downVars
<1>4. (AllTaken(j)' <=> AllTaken(j)) /\ (Left(opened[j])' <=> Left(opened[j]))
  BY LeftStays DEF AllTaken, AtEnd, getVars
<1>5. CopyInv(j)' /\ DownInv(j)'
  BY <1>4 DEF Started, CopyInv, DownInv, getVars, downVars
<1>6. AllExtracted(j)' <=> AllExtracted(j)
  BY DEF AllExtracted, InPlaceFrom, getVars
<1>7. ExtractInv(j)'
  <2>1. xpc[j] # "idle" /\ (xpc[j] \in {"close", "done"} <=> x \in {"close", "done"})
    BY DEF Started, ExtractInv
  <2> QED
    BY <1>1, <1>6, <2>1 DEF Started, ExtractInv, getVars
<1>8. Started(j)'
  BY <1>5, <1>7 DEF Started
<1> QED
  BY <1>2, <1>3, <1>8, StepKeeps DEF loopVars

(* Extract has returned, and what comes after it. *)
LEMMA WorkKeeps ==
    ASSUME ProcessInv, Running, NEW j \in Mounts, Work(j), UNCHANGED <<conf, store>>
    PROVE  ProcessInv'
<1>1. /\ wpc[j] \in {"extract", "addErr", "wg"} /\ j < next /\ Started(j) /\ WorkInv(j)
      /\ UNCHANGED <<conf, store, offer, werr, getVars, cur, xerr, local, downVars, loopVars>>
  <2>1. wpc[j] \in {"extract", "addErr", "wg"}
    BY DEF Work, CloseRead, AddRestoreError, WorkerDone
  <2> QED
    BY <2>1, Begun DEF Work, CloseRead, AddRestoreError, WorkerDone, CloseReader, pipeVars,
                       extVars, Started
<1>2. /\ xerr[j] \in BOOLEAN /\ rclosed[j] \in BOOLEAN
      /\ rclosed = [rclosed EXCEPT ![j] = rclosed[j]] /\ xpc = [xpc EXCEPT ![j] = xpc[j]]
  BY DEF ProcessInv, RestoreTypeOK, GetTypeOK, ExtTypeOK
<1>3. CASE CloseRead(j)
  <2> DEFINE w == IF xerr[j] THEN "addErr" ELSE "wg"
  <2>1. /\ rclosed' = [rclosed EXCEPT ![j] = TRUE] /\ xpc' = [xpc EXCEPT ![j] = "done"]
        /\ wpc' = [wpc EXCEPT ![j] = w] /\ rerrs' = rerrs /\ xpc[j] = "close"
        /\ wpc[j] = "extract" /\ wpc'[j] = w /\ xpc'[j] = "done"
    BY <1>3 DEF CloseRead, CloseReader, ExtTo, WorkTo, ProcessInv, RestoreTypeOK, ExtTypeOK
  <2>2. WorkInv(j)'
    BY <1>1, <2>1 DEF WorkInv
  <2>3. w \in {"extract", "addErr", "wg", "done"}
    OBVIOUS
  <2> HIDE DEF w
  <2> QED
    BY <1>1, <2>1, <2>2, <2>3, WorkStepKeeps
<1>4. CASE AddRestoreError(j)
  <2>1. /\ rclosed' = [rclosed EXCEPT ![j] = rclosed[j]] /\ xpc' = [xpc EXCEPT ![j] = "done"]
        /\ wpc' = [wpc EXCEPT ![j] = "wg"] /\ rerrs' = rerrs \cup {j} /\ wpc[j] = "addErr"
        /\ xpc[j] = "done" /\ wpc'[j] = "wg" /\ xpc' = xpc /\ rclosed' = rclosed
    BY <1>1, <1>2, <1>4 DEF AddRestoreError, WorkTo, WorkInv, pipeVars, extVars,
                            ProcessInv, RestoreTypeOK
  <2>2. WorkInv(j)'
    BY <1>1, <2>1 DEF WorkInv
  <2> QED
    BY <1>1, <1>2, <2>1, <2>2, WorkStepKeeps
<1>5. CASE WorkerDone(j)
  <2>1. /\ rclosed' = [rclosed EXCEPT ![j] = rclosed[j]] /\ xpc' = [xpc EXCEPT ![j] = "done"]
        /\ wpc' = [wpc EXCEPT ![j] = "done"] /\ rerrs' = rerrs /\ wpc[j] = "wg"
        /\ xpc[j] = "done" /\ wpc'[j] = "done" /\ xpc' = xpc /\ rclosed' = rclosed
    BY <1>1, <1>2, <1>5 DEF WorkerDone, WorkTo, WorkInv, pipeVars, extVars,
                            ProcessInv, RestoreTypeOK
  <2>2. WorkInv(j)'
    BY <1>1, <2>1 DEF WorkInv
  <2> QED
    BY <1>1, <1>2, <2>1, <2>2, WorkStepKeeps
<1> QED
  BY <1>3, <1>4, <1>5 DEF Work

(* The loop starts the worker of the next mount, with its downloader. *)
LEMMA StartWorkerKeeps ==
    ASSUME ProcessInv, Running, NEW j \in Mounts, StartWorker(j), UNCHANGED <<conf, store>>
    PROVE  ProcessInv'
<1>1. /\ rpc = "loop" /\ next = j /\ next' = j + 1 /\ rpc' = rpc /\ rres' = rres
      /\ wpc' = [wpc EXCEPT ![j] = "extract"] /\ dpc' = [dpc EXCEPT ![j] = "get"]
      /\ gpc' = [gpc EXCEPT ![j] = "open"] /\ getDone' = [getDone EXCEPT ![j] = FALSE]
      /\ xpc' = [xpc EXCEPT ![j] = "next"]
      /\ UNCHANGED <<opened, pos, cur, xerr, local, rerrs, gres, offer, rclosed, werr>>
  BY DEF StartWorker, StartGet, StartExtract, pipeVars
<1>2. /\ wpc'[j] = "extract" /\ dpc'[j] = "get" /\ gpc'[j] = "open" /\ xpc'[j] = "next"
      /\ Elsewhere(j)
  BY <1>1 DEF ProcessInv, RestoreTypeOK, GetTypeOK, ExtTypeOK, Elsewhere
<1>3. j \in Nat /\ j <= NumMounts /\ Mounts = 1..NumMounts /\ NumMounts \in Nat
  BY MountsAssumption DEF Mounts
<1>4. RestoreTypeOK'
  <2>1. next' \in 1..(NumMounts + 1)
    BY <1>1, <1>3
  <2>2. GetTypeOK' /\ ExtTypeOK'
    BY <1>1 DEF ProcessInv, RestoreTypeOK, GetTypeOK, ExtTypeOK, GetPC, ExtPC
  <2> QED
    BY <1>1, <2>1, <2>2 DEF ProcessInv, RestoreTypeOK
<1>5. Fresh(j)
  BY <1>1, <1>3 DEF ProcessInv
<1>6. Started(j)'
  <2>1. CopyInv(j)'
    <3>1. Left(NoObject)
      BY DEF Left, Leavings
    <3>2. Len(Contents(NoObject)) \in 0..(2 * NumEntries + 2)
      BY <3>1, ContentsOfObject
    <3> QED
      BY <1>1, <1>2, <1>5, <3>2, EntriesAssumption DEF CopyInv, Fresh
  <2>2. DownInv(j)' /\ WorkInv(j)'
    BY <1>1, <1>2, <1>5 DEF DownInv, WorkInv, Fresh
  <2>3. ExtractInv(j)'
    <3>1. Taken(j)' = 0
      BY <1>1, <1>5 DEF Taken, Fresh
    <3>2. opened'[j].entries = 0
      BY <1>1, <1>5 DEF Fresh, NoObject
    <3>3. /\ ~xerr'[j] /\ cur'[j] = 0 /\ xpc'[j] = "next" /\ werr'[j] = "none"
          /\ \A k \in 1..NumEntries : local'[j][k] \in Before
      BY <1>1, <1>2, <1>5 DEF Fresh
    <3> QED
      BY <3>1, <3>2, <3>3, EntriesAssumption DEF ExtractInv
  <2> QED
    BY <2>1, <2>2, <2>3 DEF Started
<1>7. \A i \in Mounts : (IF i < next THEN Started(i) ELSE Fresh(i))'
  <2>1. TAKE i \in Mounts
  <2>2. CASE i = j
    BY <1>1, <1>3, <1>6, <2>2
  <2>3. CASE i # j
    <3>1. i \in Nat /\ (i < next' <=> i < next)
      BY <1>1, <1>3, <2>3
    <3> QED
      BY <1>2, <2>3, <3>1, OthersKeep DEF ProcessInv
  <2> QED
    BY <2>2, <2>3
<1>8. LoopInv'
  BY <1>1 DEF ProcessInv, LoopInv
<1>9. \A i \in Mounts : Left(store[i])'
  BY DEF ProcessInv, Left, Leavings, OnlyWhole
<1> QED
  BY <1>4, <1>7, <1>8, <1>9 DEF ProcessInv

(* Restore returns when all workers are done: without an error only if none
   of them has had one. *)
LEMMA WaitForWorkersKeeps ==
    ASSUME ProcessInv, Running, WaitForWorkers, UNCHANGED <<conf, store>>
    PROVE  ProcessInv'
<1>1. /\ rpc = "loop" /\ next = NumMounts + 1 /\ \A i \in Mounts : wpc[i] = "done"
      /\ rpc' = "returned" /\ rres' = IF rerrs = {} THEN "ok" ELSE "err"
      /\ UNCHANGED <<next, pipeVars, getVars, extVars, downVars, workVars>>
  BY DEF WaitForWorkers
<1>2. \A i \in Mounts : Started(i)
  <2>1. \A i \in Mounts : i < next
    BY <1>1, MountsAssumption DEF Mounts
  <2> QED
    BY <2>1 DEF ProcessInv
<1>3. RestoreTypeOK'
  BY <1>1 DEF ProcessInv, RestoreTypeOK, GetTypeOK, ExtTypeOK, pipeVars, getVars, extVars,
              downVars, workVars
<1>4. ASSUME NEW i \in Mounts
      PROVE  Started(i)'
  <2>1. AllExtracted(i)' <=> AllExtracted(i)
    BY <1>1 DEF AllExtracted, InPlaceFrom, extVars, getVars
  <2>2. /\ AllTaken(i)' <=> AllTaken(i)
        /\ Taken(i)' = Taken(i)
    BY <1>1 DEF AllTaken, AtEnd, Taken, pipeVars, getVars
  <2>3. Left(opened[i])' <=> Left(opened[i])
    BY <1>1, LeftStays DEF getVars
  <2>4. CopyInv(i)' /\ DownInv(i)' /\ WorkInv(i)'
    BY <1>1, <1>2, <2>2, <2>3 DEF Started, CopyInv, DownInv, WorkInv, pipeVars, getVars, extVars,
                            downVars, workVars
  <2>5. ExtractInv(i)'
    BY <1>1, <1>2, <2>1, <2>2 DEF Started, ExtractInv, InPlaceFrom, pipeVars, getVars, extVars
  <2> QED
    BY <2>4, <2>5 DEF Started
<1>5. LoopInv'
  BY <1>1 DEF LoopInv, workVars
<1>6. \A i \in Mounts : Left(store[i])'
  BY DEF ProcessInv, Left, Leavings, OnlyWhole
<1>7. \A i \in Mounts : (IF i < next THEN Started(i) ELSE Fresh(i))'
  <2>1. \A i \in Mounts : i < next'
    BY <1>1, MountsAssumption DEF Mounts
  <2> QED
    BY <1>4, <2>1
<1> QED
  BY <1>3, <1>5, <1>6, <1>7 DEF ProcessInv

(* The process ends. *)
LEMMA ExitKeeps ==
    ASSUME ProcessInv, RestoreExit, UNCHANGED <<conf, store>>
    PROVE  ProcessInv'
<1>1. RestoreTypeOK'
  <2>1. GetTypeOK'
    BY EntriesAssumption DEF RestoreExit, ProcessInv, RestoreTypeOK, GetTypeOK, AtAll, GetPC,
                             NoObject, Object
  <2>2. ExtTypeOK'
    BY EntriesAssumption DEF RestoreExit, ProcessInv, RestoreTypeOK, ExtTypeOK, AtAll, ExtPC
  <2>3. 1 \in 1..(NumMounts + 1)
    BY MountsAssumption
  <2> QED
    BY <2>1, <2>2, <2>3 DEF RestoreExit, ProcessInv, RestoreTypeOK, AtAll
<1>2. LoopInv' /\ ~Running'
  BY DEF RestoreExit, LoopInv, Running
<1>3. \A i \in Mounts : Left(store[i])'
  BY DEF ProcessInv, Left, Leavings, OnlyWhole
<1> QED
  BY <1>1, <1>2, <1>3 DEF ProcessInv

-----------------------------------------------------------------------------
(* The specification. *)

(* A process begins, whatever is in storage and on disk. *)
LEMMA ProcessBegins ==
    ASSUME conf \in Configs, store \in [Mounts -> Object], \A i \in Mounts : Left(store[i]),
           RestoreInit
    PROVE  ProcessInv
<1>1. NumMounts \in Nat /\ Mounts = 1..NumMounts
  BY MountsAssumption DEF Mounts
<1>2. local \in [Mounts -> [1..NumEntries -> Before]]
  BY FoundAssumption DEF RestoreInit, ExtInit
<1>3. RestoreTypeOK
  <2>1. GetTypeOK
    BY EntriesAssumption DEF RestoreInit, PipeInit, GetInit, GetTypeOK,
                                   AtAll, GetPC, NoObject, Object
  <2>2. ExtTypeOK
    <3>1. Before \subseteq File
      BY DEF Before, File
    <3>2. local \in [Mounts -> [1..NumEntries -> File]]
      BY <1>2, <3>1
    <3> QED
      BY <3>2, EntriesAssumption DEF RestoreInit, ExtInit, ExtTypeOK, AtAll, ExtPC
  <2>3. 1 \in 1..(NumMounts + 1)
    BY <1>1
  <2> QED
    BY <2>1, <2>2, <2>3 DEF RestoreInit, RestoreTypeOK, AtAll
<1>4. ASSUME NEW i \in Mounts
      PROVE  Fresh(i) /\ ~(i < next)
  <2>1. next = 1 /\ i \in Nat /\ i >= 1
    BY <1>1 DEF RestoreInit
  <2>2. \A k \in 1..NumEntries : local[i][k] \in Before
    BY <1>2
  <2>3. Fresh(i)
    BY <2>2 DEF RestoreInit, PipeInit, GetInit, ExtInit, AtAll, Fresh
  <2> QED
    BY <2>1, <2>3
<1>5. LoopInv
  BY DEF RestoreInit, LoopInv
<1> QED
  BY <1>3, <1>4, <1>5 DEF ProcessInv

(* Others may write to storage, as long as they leave there what a restore
   can find. *)
LEMMA StorageMayChange ==
    ASSUME ProcessInv, UNCHANGED <<conf, restoreVars>>, store' \in [Mounts -> Object],
           \A i \in Mounts : Left(store[i])'
    PROVE  ProcessInv'
<1>1. /\ conf' = conf
      /\ UNCHANGED <<offer, rclosed, werr>> /\ UNCHANGED <<gpc, opened, pos, getDone>>
      /\ UNCHANGED <<xpc, cur, xerr, local>> /\ UNCHANGED <<dpc, gres>>
      /\ UNCHANGED <<wpc, rerrs>> /\ UNCHANGED <<rpc, next, rres>>
  BY DEF restoreVars, pipeVars, getVars, extVars, downVars, workVars, loopVars
<1>2. RestoreTypeOK'
  BY <1>1 DEF ProcessInv, RestoreTypeOK, GetTypeOK, ExtTypeOK
<1>3. ASSUME NEW i \in Mounts
      PROVE  /\ Started(i) => Started(i)'
             /\ Fresh(i) => Fresh(i)'
  <2>1. AllExtracted(i)' <=> AllExtracted(i)
    BY <1>1 DEF AllExtracted, InPlaceFrom
  <2>2. (AllTaken(i)' <=> AllTaken(i)) /\ Taken(i)' = Taken(i)
    BY <1>1 DEF AllTaken, AtEnd, Taken
  <2>3. Fresh(i) => Fresh(i)'
    BY <1>1 DEF Fresh
  <2>4. Started(i) => CopyInv(i)' /\ DownInv(i)' /\ WorkInv(i)'
    <3>1. Left(opened[i])' <=> Left(opened[i])
      BY <1>1, LeftStays
    <3> QED
      BY <1>1, <2>2, <3>1 DEF Started, CopyInv, DownInv, WorkInv
  <2>5. Started(i) => ExtractInv(i)'
    BY <1>1, <2>1, <2>2 DEF Started, ExtractInv, InPlaceFrom
  <2> QED
    BY <2>3, <2>4, <2>5 DEF Started
<1>4. LoopInv'
  BY <1>1 DEF ProcessInv, LoopInv
<1> QED
  BY <1>1, <1>2, <1>3, <1>4 DEF ProcessInv, Running

(* Nothing changes. *)
LEMMA StutterKeeps ==
    ASSUME ProcessInv, UNCHANGED allVars
    PROVE  ProcessInv'
<1>1. UNCHANGED <<conf, restoreVars, store>>
  BY DEF allVars
<1>2. store \in [Mounts -> Object]
  BY DEF ProcessInv, RestoreTypeOK, GetTypeOK
<1>3. \A i \in Mounts : Left(store[i])'
  BY <1>1 DEF ProcessInv, Left, Leavings, OnlyWhole
<1> QED
  BY <1>1, <1>2, <1>3, StorageMayChange

LEMMA NextKeeps ==
    ASSUME ProcessInv, RestoreNext \/ UNCHANGED allVars
    PROVE  ProcessInv'
<1>1. CASE UNCHANGED allVars
  BY <1>1, StutterKeeps
<1>2. CASE RestoreDone /\ UNCHANGED <<conf, store>>
  BY <1>2, StutterKeeps DEF RestoreDone, allVars
<1>3. CASE RestoreStep /\ UNCHANGED <<conf, store>>
  <2>1. Running /\ UNCHANGED <<conf, store>>
    BY <1>3 DEF RestoreStep
  <2>2. CASE Loop
    BY <2>1, <2>2, StartWorkerKeeps, WaitForWorkersKeeps DEF Loop
  <2>3. CASE RestoreExit
    BY <2>1, <2>3, ExitKeeps
  <2>4. ASSUME NEW j \in Mounts,
               GetCopyStep(j) \/ ExtractStep(j) \/ Download(j) \/ GetTimeout(j) \/ Work(j)
        PROVE  ProcessInv'
    BY <2>1, <2>4, GetCopyKeeps, ExtractKeeps, DownloadKeeps, WorkKeeps
  <2> QED
    BY <1>3, <2>2, <2>3, <2>4 DEF RestoreStep
<1> QED
  BY <1>1, <1>2, <1>3 DEF RestoreNext


(* No extraction is under way any more when Restore has returned. *)
LEMMA ReturnIsQuiet ==
    ASSUME ProcessInv, RestoreNext, rpc # "loop"
    PROVE  UNCHANGED local
<1>1. CASE RestoreDone
  BY <1>1 DEF RestoreDone, restoreVars, extVars
<1>2. CASE RestoreStep
  <2>1. rpc = "returned" /\ \A i \in Mounts : wpc[i] = "done"
    BY <1>2 DEF RestoreStep, Running, ProcessInv, RestoreTypeOK, LoopInv
  <2>2. \A i \in Mounts : xpc[i] = "done"
    <3>1. ASSUME NEW i \in Mounts
          PROVE  xpc[i] = "done"
      BY <1>2, <2>1, Begun DEF RestoreStep, Started, WorkInv
    <3> QED
      BY <3>1
  <2>3. CASE Loop \/ RestoreExit
    BY <2>1, <2>3 DEF Loop, StartWorker, WaitForWorkers, RestoreExit
  <2>4. ASSUME NEW j \in Mounts, GetCopyStep(j) \/ Download(j) \/ GetTimeout(j) \/ Work(j)
        PROVE  UNCHANGED local
    BY <2>1, <2>4 DEF GetCopyStep, Download, GetTimeout, Work, CloseRead, AddRestoreError,
                      WorkerDone, extVars
  <2>5. ASSUME NEW j \in Mounts, ExtractStep(j)
        PROVE  FALSE
    BY <2>2, <2>5 DEF ExtractStep, Extract, NextHeader, NextUnreadable, NextTrailer, CreateEntry,
                      CreateEntryFails, CopyBody, CopyBodyFails, StreamEnds
  <2> QED
    BY <1>2, <2>3, <2>4, <2>5 DEF RestoreStep
<1> QED
  BY <1>1, <1>2 DEF RestoreNext

(* What a restore has opened is what storage holds. *)
LEMMA SameObject ==
    ASSUME RestoresInv, RestoreNext, Running', NEW i \in Mounts
    PROVE  opened'[i] \in {NoObject, store'[i]}
<1>1. /\ RestoreStep /\ Running /\ store' = store /\ opened[i] \in {NoObject, store[i]}
      /\ opened \in [Mounts -> Object]
  BY DEF RestoreNext, RestoreDone, restoreVars, loopVars, Running, RestoreStep, RestoresInv,
         ProcessInv, RestoreTypeOK, GetTypeOK
<1>2. CASE Loop
  BY <1>1, <1>2 DEF Loop, StartWorker, StartGet, WaitForWorkers, getVars
<1>3. CASE RestoreExit
  BY <1>3 DEF RestoreExit, Running
<1>4. ASSUME NEW j \in Mounts, GetCopyStep(j)
      PROVE  opened'[i] \in {NoObject, store'[i]}
  BY <1>1, <1>4 DEF GetCopyStep, GetCopy, OpenObject, OpenFails, ReadChunk, ReadFails,
                    WriteToPipeFails, CopyEnds, CloseGetErrCh
<1>5. ASSUME NEW j \in Mounts, ExtractStep(j) \/ Download(j) \/ GetTimeout(j) \/ Work(j)
      PROVE  opened'[i] \in {NoObject, store'[i]}
  BY <1>1, <1>5 DEF ExtractStep, Download, ReceiveGetError, ReceiveGetClosed, ReceiveGetDone,
                    GetReturns, CancelGet, FailPipe, ClosePipeDown, GetTimeout, Work, getVars
<1> QED
  BY <1>1, <1>2, <1>3, <1>4, <1>5 DEF RestoreStep

(* A result stays what it is, and there is one only when all workers are
   done. *)
LEMMA ResultStays ==
    ASSUME RestoreNext, ~WaitForWorkers
    PROVE  rres' = rres
<1>1. CASE RestoreDone
  BY <1>1 DEF RestoreDone, restoreVars, loopVars
<1>2. CASE RestoreStep
  BY <1>2 DEF RestoreStep, Loop, StartWorker, RestoreExit, GetCopyStep, ExtractStep, Download,
              GetTimeout, Work, loopVars
<1> QED
  BY <1>1, <1>2 DEF RestoreNext

(* A restore that returns nil has extracted all of every object. *)
LEMMA OkExtracts ==
    ASSUME ProcessInv, RestoreNext, WaitForWorkers, rres' = "ok", NEW i \in Mounts
    PROVE  Running' /\ AllExtracted(i)'
<1>1. ProcessInv'
  BY NextKeeps
<1>2. rpc' = "returned" /\ Running'
  BY DEF WaitForWorkers, Running
<1>3. wpc'[i] = "done" /\ rerrs' = {}
  BY <1>1, <1>2 DEF ProcessInv, LoopInv
<1>4. i < next'
  BY <1>1, <1>2, MountsAssumption DEF ProcessInv, LoopInv, Mounts
<1>5. WorkInv(i)' /\ ExtractInv(i)'
  BY <1>1, <1>2, <1>4 DEF ProcessInv, Started
<1>6. xpc'[i] = "done" /\ ~xerr'[i]
  BY <1>3, <1>5 DEF WorkInv
<1> QED
  BY <1>2, <1>5, <1>6 DEF ExtractInv

(* What was extracted is what is in storage. *)
LEMMA OkKeeps ==
    ASSUME RestoresInv, RestoreNext
    PROVE  OkMeansExtracted'
<1>1. ProcessInv' /\ store' = store /\ conf' = conf
  BY NextKeeps DEF RestoresInv, RestoreNext
<1>2. CASE WaitForWorkers
  <2>1. SUFFICES ASSUME rres' = "ok", NEW i \in Mounts
                 PROVE  /\ store'[i].end \in {"trailer", "torn"}
                             \/ (store'[i].end = "open" /\ ~conf'.gzip)
                        /\ \A k \in 1..NumEntries :
                            IF k <= store'[i].entries THEN InPlaceFrom(store[i].ver, i, k)'
                                                      ELSE local'[i][k] \in Before
    BY DEF OkMeansExtracted, InPlaceFrom
  <2>2. Running' /\ AllExtracted(i)'
    BY <1>2, <2>1, OkExtracts DEF RestoresInv
  <2>3. opened'[i] \in {NoObject, store'[i]} /\ opened'[i] # NoObject
    BY <2>2, SameObject DEF AllExtracted, NoObject
  <2> QED
    BY <2>2, <2>3 DEF AllExtracted, InPlaceFrom
<1>3. CASE ~WaitForWorkers
  <2>1. SUFFICES ASSUME rres = "ok"
                 PROVE  OkMeansExtracted'
    BY <1>3, ResultStays DEF OkMeansExtracted
  <2>2. rpc # "loop"
    BY <2>1 DEF RestoresInv, ProcessInv, LoopInv
  <2>3. local' = local
    BY <2>2, ReturnIsQuiet DEF RestoresInv
  <2> QED
    BY <1>1, <2>1, <2>3 DEF RestoresInv, OkMeansExtracted, InPlaceFrom
<1> QED
  BY <1>2, <1>3

LEMMA RestoresNext == RestoresInv /\ [RestoreNext]_allVars => RestoresInv'
<1>1. ASSUME RestoresInv, RestoreNext
      PROVE  RestoresInv'
  BY <1>1, NextKeeps, SameObject, OkKeeps DEF RestoresInv
<1>2. ASSUME RestoresInv, UNCHANGED allVars
      PROVE  RestoresInv'
  <2>1. ProcessInv'
    BY <1>2, NextKeeps DEF RestoresInv
  <2>2. UNCHANGED <<conf, store, opened, local, rpc, rres>>
    BY <1>2 DEF allVars, restoreVars, getVars, extVars, loopVars
  <2> QED
    BY <1>2, <2>1, <2>2 DEF RestoresInv, OkMeansExtracted, InPlaceFrom, Running
<1> QED
  BY <1>1, <1>2

(* The run begins with whatever an earlier one has left in storage. *)
LEMMA InitHolds == RestoreSpecInit => RestoresInv
<1> SUFFICES ASSUME RestoreSpecInit PROVE RestoresInv
  OBVIOUS
<1>1. ASSUME NEW o \in Leavings(1, TRUE)
      PROVE  o \in Object /\ Left(o)
  <2>1. CASE o = NoObject
    BY <2>1 DEF NoObject, Object, Left, Leavings
  <2>2. CASE o # NoObject
    <3>1. o \in [ver: {1}, entries: 0..NumEntries, end: {"open", "torn", "short", "trailer"},
                 footer: BOOLEAN]
      BY <2>2 DEF Leavings
    <3>2. o.ver = 1
      BY <3>1
    <3>3. o \in Object
      BY <3>1, EntriesAssumption DEF Object
    <3> QED
      BY <3>2, <3>3 DEF Left
  <2> QED
    BY <2>1, <2>2
<1>2. store \in [Mounts -> Object] /\ \A i \in Mounts : Left(store[i])
  BY <1>1 DEF RestoreSpecInit
<1>3. ProcessInv
  BY <1>2, ProcessBegins DEF RestoreSpecInit
<1> QED
  BY <1>3 DEF RestoresInv, OkMeansExtracted, RestoreSpecInit, RestoreInit, GetInit, AtAll

(* At every moment of a run the copy, the pipe, the downloader, the extraction
   and the files of each mount agree with each other. *)
THEOREM RestoresInvariance == RestoreSpec => []RestoresInv
BY InitHolds, RestoresNext, PTL DEF RestoreSpec

(* The variables of a restore keep their types. *)
THEOREM RestoreTypeCorrect == RestoreSpec => []RestoreTypeOK
<1>1. RestoresInv => RestoreTypeOK
  BY DEF RestoresInv, ProcessInv
<1> QED
  BY <1>1, RestoresInvariance, PTL

(* However downloads, copies and extractions of any number of mounts are
   interleaved, delayed and failed: a restore that returns nil has put all
   that storage holds in place (restorer.go:79-115). *)
THEOREM OkMeansExtractedAlways == RestoreSpec => []OkMeansExtracted
<1>1. RestoresInv => OkMeansExtracted
  BY DEF RestoresInv
<1> QED
  BY <1>1, RestoresInvariance, PTL

(* Once Restore has returned, no goroutine it has left behind changes a file
   (restorer.go:67). *)
THEOREM QuietAfterReturnAlways == RestoreSpec => QuietAfterReturn
<1>1. RestoresInv /\ [RestoreNext]_allVars => [rpc # "loop" => UNCHANGED local]_allVars
  BY ReturnIsQuiet DEF RestoresInv
<1> QED
  BY <1>1, RestoresInvariance, PTL DEF RestoreSpec, QuietAfterReturn
=============================================================================
