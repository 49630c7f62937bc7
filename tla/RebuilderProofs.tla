--------------------------- MODULE RebuilderProofs ---------------------------
(***************************************************************************)
(* Theorems about Rebuilder, for any set of configurations and any number  *)
(* of mounts, entries and runs: its types; the safety properties of its    *)
(* runs from the inductive invariant IInv; and, from what LeavingsInv adds *)
(* to it, what storage can hold after runs that end in any way, and that   *)
(* with s3 and azure they implement AtomicCache.                           *)
(***************************************************************************)
EXTENDS RebuilderInvariant, RebuilderCache, TLAPS

-----------------------------------------------------------------------------
(* Objects. *)

(* A chunk turns an object into an object (the copies of every Put). *)
LEMMA ReceivedType ==
    ASSUME NEW o \in Object, NEW c \in Chunks
    PROVE  Received(o, c) \in Object /\ Received(o, c).ver = o.ver
<1>1. (IF c = "footer" THEN TRUE ELSE o.footer) \in BOOLEAN
  BY DEF Object
<1>2. (IF c = "body" THEN o.entries + 1 ELSE o.entries) \in Nat
  BY DEF Object
<1>3. Received(o, c).end \in {"absent", "open", "torn", "short", "trailer"}
  BY DEF Object, Received
<1> QED
  BY <1>1, <1>2, <1>3 DEF Object, Received

(* So does a part of a chunk (a copy that fails half way). *)
LEMMA CutType ==
    ASSUME NEW o \in Object
    PROVE  Cut(o) \in Object /\ Cut(o).ver = o.ver
BY DEF Object, Cut

(* The two objects a Put starts from. *)
LEMMA NewObjectType ==
    /\ NoObject \in Object /\ ~Present(NoObject)
    /\ \A v \in Nat : EmptyObject(v) \in Object
BY DEF Object, NoObject, EmptyObject, Present

-----------------------------------------------------------------------------
(* Type correctness. *)

(* No step of the archiver leaves the types (Archiver). *)
LEMMA TypeArchiver ==
    ASSUME TypeOK, NEW i \in Mounts, ArchiverStep(i)
    PROVE  TypeOK'
<1> USE EntriesAssumption DEF ArchPC, Chunks
<1>1. ArchTypeOK /\ PipeTypeOK
  BY DEF TypeOK
<1>2. Archive(i)
  BY DEF ArchiverStep
<1>3. UNCHANGED <<conf, store, pend, cpc, ctxDone, mpc, idx, run, outcome, upc, ures, errs>>
  BY DEF ArchiverStep, putVars, mainVars, upVars
<1>4. ArchTypeOK' /\ PipeTypeOK'
  <2> USE DEF ArchTypeOK, PipeTypeOK, Goto, At, CreateFails, Offer, CloseWriter, pipeVars, archVars
  <2>1. CASE WriteHeader(i)
    BY <1>1, <2>1 DEF WriteHeader, MoreEntries
  <2>2. CASE HeaderFindsShortBody(i)
    BY <1>1, <2>2 DEF HeaderFindsShortBody
  <2>3. CASE WalkFails(i)
    BY <1>1, <2>3 DEF WalkFails
  <2>4. CASE WriteBody(i)
    BY <1>1, <2>4 DEF WriteBody
  <2>5. CASE WriteShortBody(i)
    BY <1>1, <2>5 DEF WriteShortBody
  <2>6. CASE BodyFails(i)
    BY <1>1, <2>6 DEF BodyFails
  <2>7. CASE WriteRefused(i)
    BY <1>1, <2>7 DEF WriteRefused
  <2>8. CASE WalkDone(i)
    BY <1>1, <2>8 DEF WalkDone
  <2>9. CASE CloseTar(i)
    BY <1>1, <2>9 DEF CloseTar, AfterTar
  <2>10. CASE CloseTarFails(i)
    BY <1>1, <2>10 DEF CloseTarFails, AfterTar
  <2>11. CASE CloseGzip(i)
    BY <1>1, <2>11 DEF CloseGzip
  <2>12. CASE CloseWriteRefused(i)
    BY <1>1, <2>12 DEF CloseWriteRefused
  <2>13. CASE BadCompressionLevel(i)
    BY <1>1, <2>13 DEF BadCompressionLevel
  <2>14. CASE CreateReturns(i)
    BY <1>1, <2>14 DEF CreateReturns
  <2>15. CASE CountWritten(i)
    BY <1>1, <2>15 DEF CountWritten
  <2>16. CASE ClosePipe(i)
    BY <1>1, <2>16 DEF ClosePipe
  <2> QED
    BY <1>2, <2>1, <2>2, <2>3, <2>4, <2>5, <2>6, <2>7, <2>8, <2>9, <2>10,
       <2>11, <2>12, <2>13, <2>14, <2>15, <2>16 DEF Archive
<1>5. Runs' = Runs
  BY DEF Runs
<1> QED
  BY <1>3, <1>4, <1>5 DEF TypeOK, PutTypeOK

(* No step of the copy leaves the types (BackendPut). *)
LEMMA TypeCopy ==
    ASSUME TypeOK, NEW i \in Mounts, CopyStep(i)
    PROVE  TypeOK'
<1> USE DEF PutPC, Sending
<1>1. PutTypeOK /\ PipeTypeOK /\ run \in Nat
  BY RunsAssumption DEF TypeOK, Runs
<1>2. Copy(i, run)
  BY DEF CopyStep
<1>3. UNCHANGED <<conf, apc, ent, aerr, broken, mpc, idx, run, outcome, upc, ures, errs>>
  BY DEF CopyStep, archVars, mainVars, upVars
<1>4. PutTypeOK' /\ PipeTypeOK'
  <2> USE DEF PutTypeOK, PipeTypeOK, StepTo, pipeVars
  <2>1. CASE MakeDirectory(i)
    BY <1>1, <2>1 DEF MakeDirectory
  <2>2. CASE CreateFile(i, run)
    BY <1>1, <2>2, NewObjectType DEF CreateFile
  <2>3. CASE CopyChunk(i)
    <3>1. offer[i] \in Chunks /\ PipeTypeOK'
      BY <1>1, <2>3 DEF CopyChunk, Take
    <3>2. store' \in [Mounts -> Object] /\ pend' \in [Mounts -> Object]
      <4>1. Received(store[i], offer[i]) \in Object /\ Received(pend[i], offer[i]) \in Object
        BY <1>1, <3>1, ReceivedType
      <4> QED
        BY <1>1, <2>3, <4>1 DEF CopyChunk
    <3> QED
      BY <1>1, <2>3, <3>1, <3>2 DEF CopyChunk
  <2>4. CASE CopyFails(i)
    <3>1. PipeTypeOK'
      BY <1>1, <2>4 DEF CopyFails, Take
    <3>2. store' \in [Mounts -> Object] /\ pend' \in [Mounts -> Object]
      BY <1>1, <2>4, CutType, NewObjectType DEF CopyFails
    <3> QED
      BY <1>1, <2>4, <3>1, <3>2 DEF CopyFails
  <2>5. CASE ReadEnds(i)
    BY <1>1, <2>5 DEF ReadEnds
  <2>6. CASE CloseFile(i)
    BY <1>1, <2>6 DEF CloseFile
  <2>7. CASE Commit(i)
    BY <1>1, <2>7 DEF Commit
  <2>8. CASE CommitFails(i)
    BY <1>1, <2>8 DEF CommitFails
  <2>9. CASE UploadCancelled(i)
    BY <1>1, <2>9, NewObjectType DEF UploadCancelled
  <2>10. CASE CloseErrCh(i)
    BY <1>1, <2>10 DEF CloseErrCh
  <2> QED
    BY <1>2, <2>1, <2>2, <2>3, <2>4, <2>5, <2>6, <2>7, <2>8, <2>9, <2>10 DEF Copy
<1>5. Runs' = Runs
  BY DEF Runs
<1> QED
  BY <1>3, <1>4, <1>5 DEF TypeOK, ArchTypeOK

(* No step of the uploader, and no deadline, leaves the types. *)
LEMMA TypeUploader ==
    ASSUME TypeOK, NEW i \in Mounts, UploaderStep(i) \/ TimeoutStep(i)
    PROVE  TypeOK'
<1> USE DEF TypeOK, PipeTypeOK, ArchTypeOK, PutTypeOK, PutPC, Sending, UpPC, Runs,
            pipeVars, archVars, putVars, mainVars, upVars, PutReturns, UpTo
<1>1. CASE ReceiveError(i) /\ UNCHANGED conf
  BY <1>1 DEF ReceiveError, StepTo, AfterSend
<1>2. CASE ReceiveClosed(i) /\ UNCHANGED conf
  BY <1>2 DEF ReceiveClosed
<1>3. CASE ReceiveDone(i) /\ UNCHANGED conf
  BY <1>3 DEF ReceiveDone
<1>4. CASE CancelContext(i) /\ UNCHANGED conf
  BY <1>4 DEF CancelContext
<1>5. CASE ReadStats(i) /\ UNCHANGED conf
  BY <1>5 DEF ReadStats
<1>6. CASE CloseReadEnd(i) /\ UNCHANGED conf
  BY <1>6 DEF CloseReadEnd, CloseReader
<1>7. CASE AddError(i) /\ UNCHANGED conf
  BY <1>7 DEF AddError
<1>8. CASE WaitGroupDone(i) /\ UNCHANGED conf
  BY <1>8 DEF WaitGroupDone
<1>9. CASE Timeout(i) /\ UNCHANGED conf
  BY <1>9 DEF Timeout
<1> QED
  BY <1>1, <1>2, <1>3, <1>4, <1>5, <1>6, <1>7, <1>8, <1>9
  DEF UploaderStep, Uploader, TimeoutStep

(* No step of Rebuild's loop leaves the types. *)
LEMMA TypeMain ==
    ASSUME TypeOK, MainStep
    PROVE  TypeOK'
<1> USE MountsAssumption
    DEF TypeOK, PipeTypeOK, ArchTypeOK, PutTypeOK, PutPC, ArchPC, UpPC, Runs, Mounts,
        pipeVars, archVars, putVars, mainVars, upVars, AtMount, Return, NextMount
<1>1. UNCHANGED conf
  BY DEF MainStep
<1>2. ASSUME NEW i \in Mounts, AtMount(i), StartUploader(i)
      PROVE  TypeOK'
  <2>1. run \in Nat
    BY RunsAssumption
  <2>2. PutTypeOK'
    BY <1>2, <2>1, NewObjectType DEF StartUploader, StartPut, StepTo
  <2> QED
    BY <1>1, <1>2, <2>2 DEF StartUploader, StartArchiver
<1>3. ASSUME NEW i \in Mounts, SourceMissing(i) \/ ExistsFails(i)
      PROVE  TypeOK'
  BY <1>1, <1>3 DEF SourceMissing, ExistsFails
<1>4. ASSUME NEW i \in Mounts, Skip(i)
      PROVE  TypeOK'
  BY <1>1, <1>4 DEF Skip
<1>5. CASE WaitAndReturn
  BY <1>1, <1>5 DEF WaitAndReturn
<1> QED
  BY <1>2, <1>3, <1>4, <1>5 DEF MainStep, Main, Override, Upload

(* The end of a process and the start of the next leave the types alone. *)
LEMMA TypeProcess ==
    ASSUME TypeOK, Exit \/ StartRun \/ NoMoreRuns \/ UNCHANGED vars
    PROVE  TypeOK'
<1>1. CASE Exit
  <2>1. PipeTypeOK' /\ ArchTypeOK' /\ PutTypeOK'
    BY <1>1, NewObjectType, EntriesAssumption
    DEF Exit, TypeOK, PipeTypeOK, ArchTypeOK, PutTypeOK, PutPC, ArchPC, AtAll
  <2>2. idx' \in 1..(NumMounts + 1)
    BY <1>1, MountsAssumption DEF Exit
  <2>3. upc' \in [Mounts -> UpPC] /\ ures' \in [Mounts -> {"none", "ok", "err"}]
    BY <1>1 DEF Exit, UpPC, AtAll
  <2> QED
    BY <1>1, <2>1, <2>2, <2>3 DEF Exit, TypeOK, Runs
<1>2. CASE StartRun
  BY <1>2, RunsAssumption
  DEF StartRun, TypeOK, PipeTypeOK, ArchTypeOK, PutTypeOK, Runs,
      pipeVars, archVars, putVars, upVars
<1>3. CASE UNCHANGED vars
  BY <1>3 DEF vars, TypeOK, PipeTypeOK, ArchTypeOK, PutTypeOK, Runs,
      pipeVars, archVars, putVars, mainVars, upVars
<1> QED
  BY <1>1, <1>2, <1>3 DEF NoMoreRuns

(* The state a run starts from has the right types. *)
LEMMA TypeInit == Init => TypeOK
<1> SUFFICES ASSUME Init PROVE TypeOK
  OBVIOUS
<1>1. PipeTypeOK /\ ArchTypeOK /\ PutTypeOK
  BY NewObjectType, EntriesAssumption
  DEF Init, ProcessInit, PipeInit, ArchInit, PutInit, PipeTypeOK, ArchTypeOK,
      PutTypeOK, PutPC, ArchPC, AtAll
<1>2. upc \in [Mounts -> UpPC] /\ ures \in [Mounts -> {"none", "ok", "err"}]
  BY DEF Init, ProcessInit, UpPC, AtAll
<1>3. idx \in 1..(NumMounts + 1) /\ run \in Runs
  BY MountsAssumption, RunsAssumption DEF Init, ProcessInit, Runs
<1> QED
  BY <1>1, <1>2, <1>3 DEF Init, ProcessInit, TypeOK

(* Every step keeps the types. *)
LEMMA TypeNext == TypeOK /\ [Next]_vars => TypeOK'
BY TypeArchiver, TypeCopy, TypeUploader, TypeMain, TypeProcess DEF Next

(* Every variable of the runs of Rebuilder keeps its type. *)
THEOREM TypeCorrect == Spec => []TypeOK
BY TypeInit, TypeNext, PTL DEF Spec

-----------------------------------------------------------------------------
(* The archiver. *)

(* Only a goroutine that runs takes a step. *)
LEMMA ArchiverBusy ==
    ASSUME NEW i \in Mounts, ArchiverStep(i)
    PROVE  apc[i] \notin {"idle", "done"}
BY DEF ArchiverStep, Archive, At, WriteHeader, HeaderFindsShortBody, WalkFails, WriteBody,
       WriteShortBody, BodyFails, WriteRefused, WalkDone, CloseTar, CloseTarFails, CloseGzip,
       CloseWriteRefused, BadCompressionLevel, CreateReturns, CountWritten, ClosePipe

(* What an archiver step keeps. *)
LEMMA ArchiverFrame ==
    ASSUME TypeOK, NEW i \in Mounts, ArchiverStep(i)
    PROVE  /\ UNCHANGED <<conf, rclosed, store, pend, cpc, ctxDone, mpc, idx, run, outcome,
                          upc, ures, errs>>
           /\ aerr[i] => aerr'[i]
           /\ apc'[i] # "idle"
           /\ \A j \in Mounts \ {i} :
                /\ apc'[j] = apc[j] /\ ent'[j] = ent[j] /\ aerr'[j] = aerr[j]
                /\ broken'[j] = broken[j] /\ offer'[j] = offer[j] /\ werr'[j] = werr[j]
<1>1. UNCHANGED <<conf, store, pend, cpc, ctxDone, mpc, idx, run, outcome, upc, ures, errs>>
  BY DEF ArchiverStep, putVars, mainVars, upVars
<1>2. Archive(i) /\ ArchTypeOK /\ PipeTypeOK
  BY DEF ArchiverStep, TypeOK
<1>3. /\ rclosed' = rclosed
      /\ aerr[i] => aerr'[i]
      /\ apc'[i] # "idle"
      /\ \A j \in Mounts \ {i} :
            /\ apc'[j] = apc[j] /\ ent'[j] = ent[j] /\ aerr'[j] = aerr[j]
            /\ broken'[j] = broken[j] /\ offer'[j] = offer[j] /\ werr'[j] = werr[j]
  <2> USE <1>2 DEF ArchTypeOK, PipeTypeOK, At, Goto, CreateFails, Offer, CloseWriter,
                   pipeVars, archVars
  <2>1. CASE WriteHeader(i)
    BY <2>1 DEF WriteHeader
  <2>2. CASE HeaderFindsShortBody(i)
    BY <2>2 DEF HeaderFindsShortBody
  <2>3. CASE WalkFails(i)
    BY <2>3 DEF WalkFails
  <2>4. CASE WriteBody(i)
    BY <2>4 DEF WriteBody
  <2>5. CASE WriteShortBody(i)
    BY <2>5 DEF WriteShortBody
  <2>6. CASE BodyFails(i)
    BY <2>6 DEF BodyFails
  <2>7. CASE WriteRefused(i)
    BY <2>7 DEF WriteRefused
  <2>8. CASE WalkDone(i)
    BY <2>8 DEF WalkDone
  <2>9. CASE CloseTar(i)
    BY <2>9 DEF CloseTar, AfterTar
  <2>10. CASE CloseTarFails(i)
    BY <2>10 DEF CloseTarFails, AfterTar
  <2>11. CASE CloseGzip(i)
    BY <2>11 DEF CloseGzip
  <2>12. CASE CloseWriteRefused(i)
    BY <2>12 DEF CloseWriteRefused
  <2>13. CASE BadCompressionLevel(i)
    BY <2>13 DEF BadCompressionLevel
  <2>14. CASE CreateReturns(i)
    BY <2>14 DEF CreateReturns
  <2>15. CASE CountWritten(i)
    BY <2>15 DEF CountWritten
  <2>16. CASE ClosePipe(i)
    BY <2>16 DEF ClosePipe
  <2> QED
    BY <2>1, <2>2, <2>3, <2>4, <2>5, <2>6, <2>7, <2>8, <2>9, <2>10, <2>11, <2>12, <2>13,
       <2>14, <2>15, <2>16 DEF Archive
<1> QED
  BY <1>1, <1>3

(* The state of the archiver of mount i after a step of it, without the part
   of ArchInv about a goroutine that has not started. *)
LEMMA ArchiverInv ==
    ASSUME TypeOK, NEW i \in Mounts, ArchInv(i), ArchiverStep(i)
    PROVE  ArchInv(i)'
<1>1. Archive(i) /\ ArchTypeOK /\ PipeTypeOK /\ conf' = conf
  BY DEF ArchiverStep, TypeOK
<1>2. i \in Mounts /\ ent[i] \in Nat /\ NumEntries \in Nat /\ ent[i] <= NumEntries
      /\ aerr[i] \in BOOLEAN /\ broken[i] \in BOOLEAN
  BY <1>1, EntriesAssumption DEF ArchTypeOK
<1> USE <1>1, <1>2 DEF ArchTypeOK, PipeTypeOK, At, Goto, CreateFails, Offer, CloseWriter,
                       pipeVars, archVars, ArchInv
<1>3. CASE WriteHeader(i)
  BY <1>3 DEF WriteHeader, MoreEntries
<1>4. CASE HeaderFindsShortBody(i)
  BY <1>4 DEF HeaderFindsShortBody
<1>5. CASE WalkFails(i)
  BY <1>5 DEF WalkFails
<1>6. CASE WriteBody(i)
  BY <1>6 DEF WriteBody
<1>7. CASE WriteShortBody(i)
  BY <1>7 DEF WriteShortBody
<1>8. CASE BodyFails(i)
  BY <1>8 DEF BodyFails
<1>9. CASE WriteRefused(i)
  BY <1>9 DEF WriteRefused
<1>10. CASE WalkDone(i)
  BY <1>10 DEF WalkDone, MoreEntries
<1>11. CASE CloseTar(i)
  BY <1>11 DEF CloseTar, AfterTar
<1>12. CASE CloseTarFails(i)
  BY <1>12 DEF CloseTarFails, AfterTar
<1>13. CASE CloseGzip(i)
  BY <1>13 DEF CloseGzip
<1>14. CASE CloseWriteRefused(i)
  BY <1>14 DEF CloseWriteRefused
<1>15. CASE BadCompressionLevel(i)
  BY <1>15 DEF BadCompressionLevel
<1>16. CASE CreateReturns(i)
  BY <1>16 DEF CreateReturns
<1>17. CASE CountWritten(i)
  BY <1>17 DEF CountWritten
<1>18. CASE ClosePipe(i)
  BY <1>18 DEF ClosePipe
<1> QED
  BY <1>3, <1>4, <1>5, <1>6, <1>7, <1>8, <1>9, <1>10, <1>11, <1>12, <1>13, <1>14, <1>15,
     <1>16, <1>17, <1>18 DEF Archive

(* What each chunk makes of an object of the current run. *)
LEMMA ReceivedObj ==
    ASSUME NEW n \in Nat, NEW e, NEW f \in BOOLEAN
    PROVE  /\ Received(Obj(n, e, f), "header") = Obj(n, "torn", f)
           /\ Received(Obj(n, e, f), "body") = Obj(n + 1, "open", f)
           /\ Received(Obj(n, e, f), "short") = Obj(n, "short", f)
           /\ Received(Obj(n, e, f), "trailer") = Obj(n, "trailer", f)
           /\ Received(Obj(n, e, f), "footer") = Obj(n, e, TRUE)
<1>1. Received(Obj(n, e, f), "header") = Obj(n, "torn", f)
  BY DEF Received, Obj
<1>2. Received(Obj(n, e, f), "body") = Obj(n + 1, "open", f)
  BY DEF Received, Obj
<1>3. Received(Obj(n, e, f), "short") = Obj(n, "short", f)
  BY DEF Received, Obj
<1>4. Received(Obj(n, e, f), "trailer") = Obj(n, "trailer", f)
  BY DEF Received, Obj
<1>5. Received(Obj(n, e, f), "footer") = Obj(n, e, TRUE)
  BY DEF Received, Obj
<1> QED
  BY <1>1, <1>2, <1>3, <1>4, <1>5

(* As long as Create has no error and the read end is open, a step of the
   archiver writes what Written says it has written. *)
LEMMA ArchiverWrites ==
    ASSUME TypeOK, NEW i \in Mounts, ArchInv(i), ArchiverStep(i),
           ~aerr'[i], ~rclosed[i],
           NEW o \in Object, Arrived(o, offer[i]) = Written(i)
    PROVE  Arrived(o, offer'[i]) = Written(i)'
<1>1. Archive(i) /\ ArchTypeOK /\ PipeTypeOK /\ conf' = conf /\ run' = run
  BY DEF ArchiverStep, TypeOK, mainVars
<1>2. i \in Mounts /\ ent[i] \in Nat /\ NumEntries \in Nat /\ ~aerr[i]
      /\ conf.gzip \in BOOLEAN
  BY <1>1, ConfigsAssumption, EntriesAssumption, ArchiverFrame DEF ArchTypeOK, TypeOK, Config
<1>3. apc[i] \in {"entry", "body", "closeTar", "closeGzip", "return"} => ~Closed(i)
  BY DEF ArchInv, Closed
<1>4. ~FilesMayShrink => ~broken[i]
  BY <1>2 DEF ArchInv
<1> USE <1>1, <1>2, <1>3 DEF ArchTypeOK, PipeTypeOK, At, Goto, CreateFails, Offer,
                             CloseWriter, pipeVars, archVars, Arrived
<1>5. CASE WriteHeader(i)
  <2>1. /\ apc[i] = "entry" /\ offer[i] = NoChunk /\ ~broken[i]
        /\ apc'[i] = "body" /\ offer'[i] = "header" /\ ent'[i] = ent[i] + 1
    BY <1>5 DEF WriteHeader
  <2>2. o = Obj(ent[i], "open", FALSE)
    BY <2>1 DEF Written
  <2>3. ent'[i] - 1 = ent[i]
    BY <2>1
  <2>4. Written(i)' = Obj(ent[i], "torn", FALSE)
    BY <2>1, <2>3 DEF Written, Obj
  <2> QED
    BY <2>1, <2>2, <2>4, ReceivedObj DEF NoChunk
<1>6. CASE HeaderFindsShortBody(i) \/ WalkFails(i) \/ BodyFails(i) \/ WriteRefused(i)
           \/ BadCompressionLevel(i)
  BY <1>6 DEF HeaderFindsShortBody, WalkFails, BodyFails, WriteRefused, BadCompressionLevel
<1>7. CASE WriteBody(i)
  <2>1. /\ apc[i] = "body" /\ offer[i] = NoChunk /\ ~broken[i]
        /\ apc'[i] = "entry" /\ offer'[i] = "body" /\ ent'[i] = ent[i] /\ ~broken'[i]
    BY <1>7 DEF WriteBody, ArchInv
  <2>2. o = Obj(ent[i] - 1, "torn", FALSE)
    BY <2>1 DEF Written
  <2>3. ent[i] - 1 \in Nat /\ (ent[i] - 1) + 1 = ent[i]
    BY <2>1 DEF ArchInv
  <2>4. Written(i)' = Obj(ent[i], "open", FALSE)
    BY <2>1 DEF Written, Obj
  <2>5. Received(o, "body") = Obj(ent[i], "open", FALSE)
    BY <2>2, <2>3, ReceivedObj
  <2> QED
    BY <2>1, <2>4, <2>5 DEF NoChunk
<1>8. CASE WriteShortBody(i)
  <2>1. /\ apc[i] = "body" /\ offer[i] = NoChunk
        /\ apc'[i] = "entry" /\ offer'[i] = "short" /\ ent'[i] = ent[i] /\ broken'[i]
    BY <1>8 DEF WriteShortBody
  <2>2. o = Obj(ent[i] - 1, "torn", FALSE) /\ ent[i] - 1 \in Nat
    BY <2>1 DEF Written, ArchInv
  <2>3. Written(i)' = Obj(ent[i] - 1, "short", FALSE)
    BY <2>1 DEF Written, Obj
  <2>4. Received(o, "short") = Obj(ent[i] - 1, "short", FALSE)
    BY <2>2, ReceivedObj
  <2> QED
    BY <2>1, <2>3, <2>4 DEF NoChunk
<1>9. CASE WalkDone(i)
  BY <1>9 DEF WalkDone, Written, Obj
<1>10. CASE CloseTar(i)
  <2>1. /\ apc[i] = "closeTar" /\ offer[i] = NoChunk /\ ~broken[i] /\ ent[i] = NumEntries
        /\ apc'[i] = IF conf.gzip THEN "closeGzip" ELSE "return"
        /\ offer'[i] = "trailer" /\ ~broken'[i]
    BY <1>10 DEF CloseTar, AfterTar, ArchInv
  <2>2. o = Obj(NumEntries, "open", FALSE)
    BY <2>1 DEF Written
  <2>3. Written(i)' = Obj(NumEntries, "trailer", FALSE)
    BY <2>1 DEF Written, Obj
  <2>4. Received(o, "trailer") = Obj(NumEntries, "trailer", FALSE)
    BY <2>2, ReceivedObj
  <2> QED
    BY <2>1, <2>3, <2>4 DEF NoChunk
<1>11. CASE CloseTarFails(i)
  <2>1. /\ apc[i] = "closeTar" /\ broken[i] /\ ent[i] = NumEntries /\ offer' = offer
        /\ apc'[i] = IF conf.gzip THEN "closeGzip" ELSE "return"
        /\ broken'[i]
    BY <1>11 DEF CloseTarFails, AfterTar, ArchInv
  <2>2. Written(i)' = Obj(NumEntries - 1, "short", FALSE)
    BY <2>1 DEF Written, Obj
  <2> QED
    BY <2>1, <2>2 DEF Written
<1>12. CASE CloseGzip(i)
  <2>1. /\ apc[i] = "closeGzip" /\ offer[i] = NoChunk /\ conf.gzip
        /\ apc'[i] = "return" /\ offer'[i] = "footer" /\ broken' = broken
    BY <1>12 DEF CloseGzip, ArchInv
  <2>2. NumEntries - 1 \in Nat /\ NumEntries \in Nat
    BY EntriesAssumption
  <2>3. CASE broken[i]
    <3>1. o = Obj(NumEntries - 1, "short", FALSE)
      BY <2>1, <2>3 DEF Written
    <3>2. Written(i)' = Obj(NumEntries - 1, "short", TRUE)
      BY <2>1, <2>3 DEF Written, Obj
    <3>3. Received(o, "footer") = Obj(NumEntries - 1, "short", TRUE)
      BY <2>2, <3>1, ReceivedObj
    <3> QED
      BY <2>1, <3>2, <3>3 DEF NoChunk
  <2>4. CASE ~broken[i]
    <3>1. o = Obj(NumEntries, "trailer", FALSE)
      BY <2>1, <2>4 DEF Written
    <3>2. Written(i)' = Obj(NumEntries, "trailer", TRUE)
      BY <2>1, <2>4 DEF Written, Obj
    <3>3. Received(o, "footer") = Obj(NumEntries, "trailer", TRUE)
      BY <2>2, <3>1, ReceivedObj
    <3> QED
      BY <2>1, <3>2, <3>3 DEF NoChunk
  <2> QED
    BY <2>3, <2>4
<1>13. CASE CloseWriteRefused(i)
  BY <1>13 DEF CloseWriteRefused
<1>14. CASE CreateReturns(i)
  BY <1>14 DEF CreateReturns, Written, Obj
<1>15. CASE CountWritten(i)
  BY <1>15 DEF CountWritten, Written, Obj
<1>16. CASE ClosePipe(i)
  BY <1>16 DEF ClosePipe, Written, Obj
<1> QED
  BY <1>5, <1>6, <1>7, <1>8, <1>9, <1>10, <1>11, <1>12, <1>13, <1>14, <1>15, <1>16
  DEF Archive

-----------------------------------------------------------------------------
(* Steps of one mount leave the others alone. *)

(* The goroutines of mount j and its object do not change. *)
Untouched(j) ==
    /\ UNCHANGED <<conf, run>> /\ errs \subseteq errs'
    /\ apc'[j] = apc[j] /\ ent'[j] = ent[j] /\ aerr'[j] = aerr[j] /\ broken'[j] = broken[j]
    /\ offer'[j] = offer[j] /\ rclosed'[j] = rclosed[j] /\ werr'[j] = werr[j]
    /\ store'[j] = store[j] /\ pend'[j] = pend[j] /\ cpc'[j] = cpc[j]
    /\ upc'[j] = upc[j] /\ ures'[j] = ures[j]

(* What does not change keeps its invariant, whatever Rebuild does ... *)
LEMMA GoroutineFrame ==
    ASSUME NEW j \in Mounts, ArchInv(j), PutInv(j), UpInv(j), Untouched(j)
    PROVE  ArchInv(j)' /\ PutInv(j)' /\ UpInv(j)'
<1> USE DEF Untouched
<1>1. ArchInv(j)'
  BY DEF ArchInv
<1>2. Target(j)' = Target(j) /\ Written(j)' = Written(j) /\ InPlace' = InPlace
      /\ EmptyObject(run)' = EmptyObject(run)
  BY DEF Target, Written, Obj, InPlace, EmptyObject
<1>3. \A o : Whole(o)' <=> Whole(o)
  BY DEF Whole
<1>4. PutInv(j)'
  BY <1>2, <1>3 DEF PutInv
<1>5. UpInv(j)'
  BY DEF UpInv
<1> QED
  BY <1>1, <1>4, <1>5

(* ... and all of it while Rebuild stands still. *)
LEMMA MountFrame ==
    ASSUME NEW j \in Mounts, MountInv(j), Untouched(j), UNCHANGED <<mpc, idx>>
    PROVE  MountInv(j)'
<1>1. StoreInv(j)'
  BY DEF MountInv, StoreInv, Untouched
<1> QED
  BY <1>1, GoroutineFrame DEF MountInv

(* A step of the archiver keeps the invariant. *)
LEMMA ArchiverKeeps ==
    ASSUME IInv, NEW i \in Mounts, ArchiverStep(i)
    PROVE  IInv'
<1>1. TypeOK /\ TypeOK' /\ MountInv(i)
  BY TypeArchiver DEF IInv
<1>2. /\ UNCHANGED <<conf, rclosed, store, pend, cpc, ctxDone, mpc, idx, run, outcome,
                     upc, ures, errs>>
      /\ apc'[i] # "idle" /\ apc[i] \notin {"idle", "done"}
  BY <1>1, ArchiverFrame, ArchiverBusy
<1>3. outcome[run] # "ok"
  BY <1>2 DEF IInv, QuietInv, OkMeansCached
<1>4. MainInv' /\ QuietInv' /\ OkRunsLeaveWholeArchives'
  BY <1>2, <1>3 DEF IInv, MainInv, QuietInv, OkMeansCached, OkRunsLeaveWholeArchives, Whole,
                    Runs
<1>5. ASSUME NEW j \in Mounts, j # i PROVE MountInv(j)'
  <2>1. MountInv(j)
    BY DEF IInv
  <2>2. Untouched(j)
    BY <1>1, <1>2, <1>5, ArchiverFrame DEF Untouched
  <2> QED
    BY <1>2, <2>1, <2>2, MountFrame
<1>6. MountInv(i)'
  <2>1. ArchInv(i)'
    BY <1>1, ArchiverInv DEF MountInv
  <2>2. UpInv(i)' /\ StoreInv(i)'
    BY <1>1, <1>2 DEF MountInv, UpInv, StoreInv
  <2>3. PutInv(i)'
    <3>1. PutInv(i) /\ ArchInv(i)
      BY <1>1 DEF MountInv
    <3>2. InPlace' = InPlace /\ Target(i)' = Target(i) /\ EmptyObject(run)' = EmptyObject(run)
      BY <1>2 DEF InPlace, Target, EmptyObject
    <3>3. Target(i) \in Object /\ EmptyObject(run) \in Object
      BY <1>1, NewObjectType, RunsAssumption DEF TypeOK, PutTypeOK, Target, Runs
    <3>4. ASSUME ures[i] # "err", ~aerr'[i], ~rclosed[i]
          PROVE  /\ cpc[i] \in {"mkdir", "create"} =>
                        Arrived(EmptyObject(run), offer'[i]) = Written(i)'
                 /\ cpc[i] = "copy" => Arrived(Target(i), offer'[i]) = Written(i)'
      <4>1. ~aerr[i]
        BY <1>1, <3>4, ArchiverFrame
      <4>2. CASE cpc[i] \in {"mkdir", "create"}
        <5>1. Arrived(EmptyObject(run), offer[i]) = Written(i)
          BY <3>1, <3>4, <4>1, <4>2 DEF PutInv
        <5> QED
          BY <1>1, <3>1, <3>3, <3>4, <4>2, <5>1, ArchiverWrites
      <4>3. CASE cpc[i] = "copy"
        <5>1. Arrived(Target(i), offer[i]) = Written(i)
          BY <3>1, <3>4, <4>1, <4>3 DEF PutInv
        <5> QED
          BY <1>1, <3>1, <3>3, <3>4, <4>3, <5>1, ArchiverWrites
      <4> QED
        BY <4>2, <4>3
    <3>5. ~(ures[i] # "err" /\ cpc[i] \in {"close", "finish", "done"})
      BY <1>2, <3>1 DEF PutInv
    <3> QED
      BY <1>2, <3>1, <3>2, <3>4, <3>5 DEF PutInv
  <2> QED
    BY <2>1, <2>2, <2>3 DEF MountInv
<1> QED
  BY <1>1, <1>4, <1>5, <1>6 DEF IInv

-----------------------------------------------------------------------------
(* The copy. *)

(* What a copy step needs, keeps and does to the object in storage. *)
LEMMA CopyFrame ==
    ASSUME TypeOK, NEW i \in Mounts, PutInv(i), CopyStep(i)
    PROVE  /\ UNCHANGED <<conf, rclosed, werr, apc, ent, aerr, broken, mpc, idx, run, outcome,
                          upc, ures, errs>>
           /\ cpc[i] \notin {"idle", "done"} /\ cpc'[i] # "idle"
           /\ offer'[i] \in {offer[i], NoChunk}
           /\ store'[i] = store[i] \/ store'[i].ver = run
           /\ \A j \in Mounts \ {i} :
                /\ store'[j] = store[j] /\ pend'[j] = pend[j] /\ cpc'[j] = cpc[j]
                /\ offer'[j] = offer[j]
<1>1. UNCHANGED <<conf, apc, ent, aerr, broken, mpc, idx, run, outcome, upc, ures, errs>>
  BY DEF CopyStep, archVars, mainVars, upVars
<1>2. Copy(i, run) /\ PutTypeOK /\ PipeTypeOK
  BY DEF CopyStep, TypeOK
<1> DEFINE Frame ==
        /\ UNCHANGED <<rclosed, werr>>
        /\ cpc[i] \notin {"idle", "done"} /\ cpc'[i] # "idle"
        /\ offer'[i] \in {offer[i], NoChunk}
        /\ store'[i] = store[i] \/ store'[i].ver = run
        /\ \A j \in Mounts \ {i} :
             /\ store'[j] = store[j] /\ pend'[j] = pend[j] /\ cpc'[j] = cpc[j]
             /\ offer'[j] = offer[j]
<1>3. Frame
  <2> USE <1>2 DEF PutTypeOK, PipeTypeOK, StepTo, pipeVars, Take
  <2>1. CASE MakeDirectory(i)
    BY <2>1 DEF MakeDirectory
  <2>2. CASE CreateFile(i, run)
    BY <2>2 DEF CreateFile, EmptyObject
  <2>3. CASE CopyChunk(i)
    <3>1. InPlace => Received(store[i], offer[i]).ver = run
      BY <2>3 DEF CopyChunk, PutInv, Target, Received
    <3> QED
      BY <2>3, <3>1 DEF CopyChunk
  <2>4. CASE CopyFails(i)
    <3>1. InPlace => Cut(store[i]).ver = run
      BY <2>4, CutType DEF CopyFails, PutInv, Target
    <3> QED
      BY <2>4, <3>1 DEF CopyFails
  <2>5. CASE ReadEnds(i)
    BY <2>5 DEF ReadEnds
  <2>6. CASE CloseFile(i)
    BY <2>6 DEF CloseFile
  <2>7. CASE Commit(i)
    BY <2>7 DEF Commit, Committable, PutInv
  <2>8. CASE CommitFails(i)
    BY <2>8 DEF CommitFails, Committable, PutInv
  <2>9. CASE UploadCancelled(i)
    BY <2>9 DEF UploadCancelled
  <2>10. CASE CloseErrCh(i)
    BY <2>10 DEF CloseErrCh
  <2> QED
    BY <2>1, <2>2, <2>3, <2>4, <2>5, <2>6, <2>7, <2>8, <2>9, <2>10 DEF Copy
<1> QED
  BY <1>1, <1>3

(* An archiver that has ended well has written a whole archive. *)
LEMMA WrittenWhole ==
    ASSUME TypeOK, NEW i \in Mounts, ArchInv(i), apc[i] = "done", ~aerr[i]
    PROVE  Written(i).ver = run /\ Whole(Written(i))
<1>1. NumEntries \in Nat \ {0} /\ (conf.gzip /\ apc[i] # "closeGzip") = conf.gzip
  BY EntriesAssumption, ConfigsAssumption DEF TypeOK, Config
<1>2. CASE broken[i]
  <2>1. FilesMayShrink /\ Written(i) = Obj(NumEntries - 1, "short", conf.gzip)
    BY <1>1, <1>2 DEF ArchInv, Written, Obj
  <2>2. (NumEntries - 1) + 1 = NumEntries
    BY <1>1
  <2> QED
    BY <2>1, <2>2 DEF Whole, Shrunk, Obj
<1>3. CASE ~broken[i]
  <2>1. Written(i) = Obj(NumEntries, "trailer", conf.gzip)
    BY <1>1, <1>3 DEF Written, Obj
  <2> QED
    BY <2>1 DEF Whole, Complete, Obj
<1> QED
  BY <1>2, <1>3

(* The copy keeps its bond with the archiver: what arrives is what was
   written, and it ends well only with a whole archive. *)
LEMMA CopyInv ==
    ASSUME TypeOK, NEW i \in Mounts, ArchInv(i), PutInv(i), CopyStep(i)
    PROVE  PutInv(i)'
<1>1. Copy(i, run) /\ PutTypeOK /\ PipeTypeOK
  BY DEF CopyStep, TypeOK
<1>2. UNCHANGED <<conf, rclosed, apc, ent, aerr, broken, run, ures>>
  BY CopyFrame
<1>3. InPlace' = InPlace /\ EmptyObject(run)' = EmptyObject(run) /\ Written(i)' = Written(i)
      /\ Target(i)' = IF InPlace THEN store'[i] ELSE pend'[i]
  BY <1>2 DEF InPlace, EmptyObject, Written, Obj, Target
<1>4. \A o : Whole(o)' <=> Whole(o)
  BY <1>2 DEF Whole
<1>5. ~Present(NoObject)
  BY NewObjectType
<1> USE <1>1, <1>2, <1>3 DEF PutTypeOK, PipeTypeOK, StepTo, pipeVars, Take
<1>6. CASE MakeDirectory(i)
  BY <1>6 DEF MakeDirectory, PutInv
<1>7. CASE CreateFile(i, run)
  <2>1. cpc[i] = "create" /\ InPlace /\ pend' = pend /\ offer' = offer
    BY <1>7 DEF CreateFile, PutInv
  <2>2. CASE cpc'[i] = "copy" /\ store'[i] = EmptyObject(run)
    <3>1. Target(i)' = EmptyObject(run) /\ EmptyObject(run).ver = run
      BY <2>1, <2>2 DEF EmptyObject
    <3> QED
      BY <2>1, <2>2, <3>1 DEF PutInv
  <2>3. CASE cpc'[i] = "sendCreate"
    BY <2>1, <2>3 DEF PutInv
  <2> QED
    BY <1>7, <2>2, <2>3 DEF CreateFile
<1>8. CASE CopyChunk(i)
  <2>1. /\ cpc[i] = "copy" /\ cpc'[i] = "copy" /\ offer[i] # NoChunk /\ offer'[i] = NoChunk
        /\ Target(i)' = Received(Target(i), offer[i])
        /\ ~InPlace => pend'[i] = Received(pend[i], offer[i])
        /\ InPlace => pend'[i] = pend[i]
    BY <1>8 DEF CopyChunk, Target
  <2>2. Target(i)'.ver = run /\ (Present(pend'[i]) => pend'[i].ver = run)
    BY <2>1 DEF Received, PutInv, Target
  <2>3. Arrived(Target(i)', offer'[i]) = Arrived(Target(i), offer[i])
    BY <2>1 DEF Arrived
  <2> QED
    BY <2>1, <2>2, <2>3 DEF PutInv
<1>9. CASE CopyFails(i)
  BY <1>5, <1>9 DEF CopyFails, PutInv
<1>10. CASE ReadEnds(i)
  <2>1. cpc[i] = "copy" /\ UNCHANGED <<store, pend, offer>> /\ Closed(i)
        /\ cpc'[i] = IF ReadError(i) = "eof" THEN "close" ELSE "sendCopy"
    BY <1>10 DEF ReadEnds
  <2>2. CASE ReadError(i) = "eof" /\ ures[i] # "err"
    <3>1. ~rclosed[i] /\ werr[i] = "eof"
      BY <2>2 DEF ReadError
    <3>2. apc[i] = "done" /\ ~aerr[i] /\ offer[i] = NoChunk
      BY <3>1 DEF ArchInv
    <3>3. Target(i) = Written(i)
      BY <2>1, <2>2, <3>1, <3>2 DEF PutInv, Arrived
    <3>4. Target(i).ver = run /\ Whole(Target(i))
      BY <3>2, <3>3, WrittenWhole
    <3> QED
      BY <1>4, <2>1, <2>2, <3>2, <3>4 DEF PutInv, Target
  <2>3. CASE ~(ReadError(i) = "eof" /\ ures[i] # "err")
    BY <2>1, <2>3 DEF PutInv
  <2> QED
    BY <2>2, <2>3
<1>11. CASE CloseFile(i)
  BY <1>4, <1>11 DEF CloseFile, PutInv, Target
<1>12. CASE Commit(i)
  BY <1>4, <1>12 DEF Commit, PutInv, Target
<1>13. CASE CommitFails(i)
  BY <1>13 DEF CommitFails, PutInv
<1>14. CASE UploadCancelled(i)
  BY <1>5, <1>14 DEF UploadCancelled, PutInv
<1>15. CASE CloseErrCh(i)
  BY <1>4, <1>15 DEF CloseErrCh, PutInv
<1> QED
  BY <1>6, <1>7, <1>8, <1>9, <1>10, <1>11, <1>12, <1>13, <1>14, <1>15 DEF Copy

(* A step of the copy keeps the invariant. *)
LEMMA CopyKeeps ==
    ASSUME IInv, NEW i \in Mounts, CopyStep(i)
    PROVE  IInv'
<1>1. TypeOK /\ TypeOK' /\ MountInv(i) /\ PutInv(i) /\ ArchInv(i) /\ PutTypeOK
  BY TypeCopy DEF IInv, MountInv, TypeOK
<1>2. /\ UNCHANGED <<conf, rclosed, werr, apc, ent, aerr, broken, mpc, idx, run, outcome,
                     upc, ures, errs>>
      /\ cpc[i] \notin {"idle", "done"} /\ cpc'[i] # "idle"
      /\ offer'[i] \in {offer[i], NoChunk}
      /\ store'[i] = store[i] \/ store'[i].ver = run
  BY <1>1, CopyFrame
<1>3. outcome[run] # "ok"
  BY <1>2 DEF IInv, QuietInv, OkMeansCached
<1>4. MainInv' /\ QuietInv'
  BY <1>2, <1>3 DEF IInv, MainInv, QuietInv, OkMeansCached, Runs
<1>5. OkRunsLeaveWholeArchives'
  <2>1. ASSUME NEW j \in Mounts, Present(store'[j]), outcome[store'[j].ver] = "ok"
        PROVE  Whole(store'[j])
    <3>1. store'[j] = store[j]
      BY <1>1, <1>2, <1>3, <2>1, CopyFrame
    <3> QED
      BY <2>1, <3>1 DEF IInv, OkRunsLeaveWholeArchives
  <2> QED
    BY <1>2, <2>1 DEF OkRunsLeaveWholeArchives, Whole
<1>6. ASSUME NEW j \in Mounts, j # i PROVE MountInv(j)'
  <2>1. MountInv(j)
    BY DEF IInv
  <2>2. Untouched(j)
    BY <1>1, <1>2, <1>6, CopyFrame DEF Untouched
  <2> QED
    BY <1>2, <2>1, <2>2, MountFrame
<1>7. MountInv(i)'
  <2>1. ArchInv(i)'
    BY <1>1, <1>2 DEF ArchInv
  <2>2. UpInv(i)'
    BY <1>1, <1>2 DEF MountInv, UpInv
  <2>3. StoreInv(i)'
    <3>1. upc[i] # "idle" /\ run \in 1..run
      BY <1>1, <1>2, RunsAssumption DEF MountInv, UpInv, TypeOK, Runs
    <3> QED
      BY <1>1, <1>2, <3>1 DEF MountInv, StoreInv
  <2>4. PutInv(i)'
    BY <1>1, CopyInv
  <2> QED
    BY <2>1, <2>2, <2>3, <2>4 DEF MountInv
<1> QED
  BY <1>1, <1>4, <1>5, <1>6, <1>7 DEF IInv

-----------------------------------------------------------------------------
(* The uploader. *)

(* What an uploader step or a deadline needs and keeps. *)
LEMMA UploaderFrame ==
    ASSUME TypeOK, NEW i \in Mounts, UploaderStep(i) \/ TimeoutStep(i)
    PROVE  /\ UNCHANGED <<conf, apc, ent, aerr, broken, offer, werr, store, pend, mpc, idx, run,
                          outcome>>
           /\ upc[i] \notin {"idle", "done"} /\ errs \subseteq errs'
           /\ \A j \in Mounts \ {i} :
                rclosed'[j] = rclosed[j] /\ cpc'[j] = cpc[j] /\ upc'[j] = upc[j]
                    /\ ures'[j] = ures[j]
<1> USE DEF TypeOK, PipeTypeOK, PutTypeOK, pipeVars, archVars, putVars, mainVars, upVars,
            PutReturns, UpTo
<1>1. CASE ReceiveError(i) /\ UNCHANGED conf
  BY <1>1 DEF ReceiveError, StepTo
<1>2. CASE ReceiveClosed(i) /\ UNCHANGED conf
  BY <1>2 DEF ReceiveClosed
<1>3. CASE ReceiveDone(i) /\ UNCHANGED conf
  BY <1>3 DEF ReceiveDone
<1>4. CASE CancelContext(i) /\ UNCHANGED conf
  BY <1>4 DEF CancelContext
<1>5. CASE ReadStats(i) /\ UNCHANGED conf
  BY <1>5 DEF ReadStats
<1>6. CASE CloseReadEnd(i) /\ UNCHANGED conf
  BY <1>6 DEF CloseReadEnd, CloseReader
<1>7. CASE AddError(i) /\ UNCHANGED conf
  BY <1>7 DEF AddError
<1>8. CASE WaitGroupDone(i) /\ UNCHANGED conf
  BY <1>8 DEF WaitGroupDone
<1>9. CASE Timeout(i) /\ UNCHANGED conf
  BY <1>9 DEF Timeout
<1> QED
  BY <1>1, <1>2, <1>3, <1>4, <1>5, <1>6, <1>7, <1>8, <1>9
  DEF UploaderStep, Uploader, TimeoutStep

(* The uploader has the result of its Put, and nothing better. *)
LEMMA UploaderInv ==
    ASSUME TypeOK, NEW i \in Mounts, PutInv(i), UpInv(i), UploaderStep(i) \/ TimeoutStep(i)
    PROVE  PutInv(i)' /\ UpInv(i)'
<1>1. UNCHANGED <<conf, apc, ent, aerr, broken, offer, store, pend, run>>
  BY UploaderFrame
<1>2. InPlace' = InPlace /\ EmptyObject(run)' = EmptyObject(run) /\ Written(i)' = Written(i)
      /\ Target(i)' = Target(i)
  BY <1>1 DEF InPlace, EmptyObject, Written, Obj, Target
<1>3. \A o : Whole(o)' <=> Whole(o)
  BY <1>1 DEF Whole
<1>4. /\ upc \in [Mounts -> UpPC] /\ ures \in [Mounts -> {"none", "ok", "err"}]
      /\ cpc \in [Mounts -> PutPC] /\ rclosed \in [Mounts -> BOOLEAN]
  BY DEF TypeOK, PutTypeOK, PipeTypeOK
<1>5. CASE ReceiveError(i)
  <2>1. /\ cpc[i] \in Sending /\ cpc'[i] \in {"create", "close", "finish"}
        /\ cpc'[i] = "create" => InPlace
        /\ upc[i] = "put" /\ upc'[i] = "cancel" /\ ures'[i] = "err"
    BY <1>4, <1>5 DEF ReceiveError, StepTo, AfterSend, Sending, PutReturns, UpTo, InPlace
  <2> QED
    BY <1>1, <1>2, <2>1 DEF PutInv, UpInv, Sending
<1>6. CASE ReceiveClosed(i) \/ ReceiveDone(i)
  <2>1. /\ upc[i] = "put" /\ upc'[i] = "cancel" /\ cpc'[i] = cpc[i]
        /\ rclosed'[i] = rclosed[i]
        /\ ures'[i] = "err" \/ (ures'[i] = "ok" /\ cpc[i] = "done")
    BY <1>4, <1>6 DEF ReceiveClosed, ReceiveDone, PutReturns, UpTo, putVars, pipeVars
  <2> QED
    BY <1>1, <1>2, <1>3, <2>1 DEF PutInv, UpInv
<1>7. CASE CancelContext(i) \/ ReadStats(i) \/ CloseReadEnd(i) \/ AddError(i)
           \/ WaitGroupDone(i) \/ Timeout(i)
  <2>1. /\ cpc'[i] = cpc[i] /\ ures'[i] = ures[i] /\ (rclosed[i] => rclosed'[i])
        /\ errs \subseteq errs'
    BY <1>4, <1>7, UploaderFrame
    DEF CancelContext, ReadStats, CloseReadEnd, CloseReader, AddError, WaitGroupDone, Timeout,
        putVars, pipeVars, upVars
  <2>2. PutInv(i)'
    BY <1>1, <1>2, <1>3, <2>1 DEF PutInv
  <2>3. UpInv(i)'
    BY <1>1, <1>4, <1>7, <2>1
    DEF CancelContext, ReadStats, CloseReadEnd, AddError, WaitGroupDone, Timeout, UpTo, upVars,
        UpInv
  <2> QED
    BY <2>2, <2>3
<1> QED
  BY <1>5, <1>6, <1>7 DEF UploaderStep, Uploader, TimeoutStep

(* A step of the uploader, or a deadline, keeps the invariant. *)
LEMMA UploaderKeeps ==
    ASSUME IInv, NEW i \in Mounts, UploaderStep(i) \/ TimeoutStep(i)
    PROVE  IInv'
<1>1. TypeOK /\ TypeOK' /\ MountInv(i) /\ ArchInv(i) /\ PutInv(i) /\ UpInv(i)
  BY TypeUploader DEF IInv, MountInv
<1>2. /\ UNCHANGED <<conf, apc, ent, aerr, broken, offer, werr, store, pend, mpc, idx, run,
                     outcome>>
      /\ upc[i] \notin {"idle", "done"} /\ errs \subseteq errs'
  BY <1>1, UploaderFrame
<1>3. outcome[run] # "ok"
  BY <1>2 DEF IInv, QuietInv
<1>4. MainInv' /\ QuietInv' /\ OkRunsLeaveWholeArchives'
  BY <1>2, <1>3 DEF IInv, MainInv, QuietInv, OkMeansCached, OkRunsLeaveWholeArchives, Whole,
                    Runs, StoreInv, MountInv
<1>5. ASSUME NEW j \in Mounts, j # i PROVE MountInv(j)'
  <2>1. MountInv(j)
    BY DEF IInv
  <2>2. Untouched(j)
    BY <1>1, <1>2, <1>5, UploaderFrame DEF Untouched
  <2> QED
    BY <1>2, <2>1, <2>2, MountFrame
<1>6. MountInv(i)'
  <2>1. PutInv(i)' /\ UpInv(i)'
    BY <1>1, UploaderInv
  <2>2. apc[i] # "idle" /\ upc'[i] # "idle"
    BY <1>1, <1>2, <2>1 DEF UpInv
  <2>3. ArchInv(i)'
    BY <1>1, <1>2, <2>2 DEF ArchInv
  <2>4. StoreInv(i)'
    BY <1>1, <1>2, <2>2 DEF MountInv, StoreInv
  <2> QED
    BY <2>1, <2>3, <2>4 DEF MountInv
<1> QED
  BY <1>1, <1>4, <1>5, <1>6 DEF IInv

-----------------------------------------------------------------------------
(* Rebuild. *)

(* Starting the goroutines of a mount establishes their invariant. *)
LEMMA StartInv ==
    ASSUME TypeOK, NEW i \in Mounts, MountInv(i), AtMount(i), StartUploader(i), conf' = conf,
           Present(store[i]) => conf.override
    PROVE  MountInv(i)'
<1>1. /\ PipeTypeOK /\ ArchTypeOK /\ PutTypeOK /\ run \in Nat /\ i \in Nat
      /\ upc \in [Mounts -> UpPC] /\ ures \in [Mounts -> {"none", "ok", "err"}]
  BY RunsAssumption, MountsAssumption DEF TypeOK, Runs, Mounts
<1>2. /\ upc[i] = "idle" /\ apc[i] = "idle" /\ ures[i] = "none" /\ mpc = "loop" /\ idx = i
      /\ ent[i] = 0 /\ ~aerr[i] /\ ~broken[i] /\ offer[i] = NoChunk /\ ~rclosed[i]
      /\ werr[i] = "none"
  BY <1>1 DEF MountInv, ArchInv, UpInv, StoreInv, AtMount
<1>3. /\ UNCHANGED <<store, mpc, run, ures, errs, offer, rclosed, werr, ent, aerr, broken>>
      /\ idx' = i + 1 /\ upc'[i] = "put" /\ apc'[i] = "entry"
      /\ cpc'[i] = IF InPlace THEN "mkdir" ELSE "copy"
      /\ pend'[i] = IF InPlace THEN NoObject ELSE EmptyObject(run)
  BY <1>1, <1>2 DEF StartUploader, NextMount, StartArchiver, StartPut, StepTo, pipeVars,
                    PutTypeOK, ArchTypeOK
<1>4. InPlace' = InPlace /\ EmptyObject(run)' = EmptyObject(run)
      /\ Written(i)' = EmptyObject(run)
  BY <1>2, <1>3 DEF InPlace, EmptyObject, Written, Obj
<1>5. ArchInv(i)'
  BY <1>2, <1>3 DEF ArchInv
<1>6. UpInv(i)'
  BY <1>2, <1>3 DEF UpInv
<1>7. StoreInv(i)'
  BY <1>1, <1>2, <1>3 DEF MountInv, StoreInv
<1>8. PutInv(i)'
  <2>1. Arrived(EmptyObject(run), offer'[i]) = Written(i)'
    BY <1>2, <1>3, <1>4 DEF Arrived
  <2>2. ~InPlace => Target(i)' = EmptyObject(run)
    BY <1>3, <1>4 DEF Target
  <2>3. EmptyObject(run).ver = run /\ ~Present(NoObject)
    BY NewObjectType DEF EmptyObject
  <2> QED
    BY <1>3, <1>4, <2>1, <2>2, <2>3 DEF PutInv
<1> QED
  BY <1>5, <1>6, <1>7, <1>8 DEF MountInv

(* A turn of the loop that starts an uploader. *)
LEMMA StartKeeps ==
    ASSUME IInv, NEW i \in Mounts, Override(i) \/ Upload(i), conf' = conf, TypeOK'
    PROVE  IInv'
<1>1. /\ TypeOK /\ AtMount(i) /\ StartUploader(i) /\ (Present(store[i]) => conf.override)
      /\ PutTypeOK /\ ArchTypeOK /\ upc \in [Mounts -> UpPC]
  BY DEF IInv, Override, Upload, TypeOK
<1>2. /\ UNCHANGED <<store, mpc, run, outcome, ures, errs, offer, rclosed, werr, ent, aerr,
                     broken>>
      /\ mpc = "loop" /\ idx = i /\ idx' = i + 1 /\ outcome[run] = "none"
  BY <1>1 DEF StartUploader, NextMount, StartArchiver, StartPut, pipeVars, AtMount, IInv,
              MainInv
<1>3. MainInv' /\ QuietInv' /\ OkRunsLeaveWholeArchives'
  BY <1>2 DEF IInv, MainInv, QuietInv, OkMeansCached, OkRunsLeaveWholeArchives, Whole, Runs
<1>4. MountInv(i)'
  BY <1>1, StartInv DEF IInv
<1>5. ASSUME NEW j \in Mounts, j # i PROVE MountInv(j)'
  <2>1. ArchInv(j) /\ PutInv(j) /\ UpInv(j) /\ StoreInv(j) /\ i \in Nat /\ j \in Nat
    BY MountsAssumption DEF IInv, MountInv, Mounts
  <2>2. Untouched(j)
    BY <1>1, <1>2, <1>5 DEF Untouched, StartUploader, StartArchiver, StartPut, StepTo,
                            PutTypeOK, ArchTypeOK
  <2>3. StoreInv(j)'
    BY <1>2, <1>5, <2>1, <2>2 DEF StoreInv, Untouched
  <2> QED
    BY <2>1, <2>2, <2>3, GoroutineFrame DEF MountInv
<1> QED
  BY <1>3, <1>4, <1>5 DEF IInv

(* A turn of the loop that skips the mount. *)
LEMMA SkipKeeps ==
    ASSUME IInv, NEW i \in Mounts, Skip(i), conf' = conf, TypeOK'
    PROVE  IInv'
<1>1. /\ UNCHANGED <<pipeVars, archVars, putVars, upVars, mpc, run, outcome>>
      /\ mpc = "loop" /\ idx = i /\ idx' = i + 1 /\ outcome[run] = "none"
      /\ Present(store[i]) /\ ~conf.override
  BY DEF Skip, NextMount, AtMount, IInv, MainInv
<1> USE <1>1 DEF pipeVars, archVars, putVars, upVars
<1>2. MainInv' /\ QuietInv' /\ OkRunsLeaveWholeArchives'
  BY DEF IInv, MainInv, QuietInv, OkMeansCached, OkRunsLeaveWholeArchives, Whole, Runs
<1>3. ASSUME NEW j \in Mounts PROVE MountInv(j)'
  <2>1. ArchInv(j) /\ PutInv(j) /\ UpInv(j) /\ StoreInv(j) /\ i \in Nat /\ j \in Nat
    BY MountsAssumption DEF IInv, MountInv, Mounts
  <2>2. Untouched(j)
    BY DEF Untouched
  <2>3. StoreInv(j)'
    BY <2>1 DEF StoreInv
  <2> QED
    BY <2>1, <2>2, <2>3, GoroutineFrame DEF MountInv
<1> QED
  BY <1>2, <1>3 DEF IInv

(* Rebuild returns: with nil only when every mount is cached. *)
LEMMA ReturnKeeps ==
    ASSUME IInv, TypeOK', conf' = conf,
           WaitAndReturn \/ \E i \in Mounts : SourceMissing(i) \/ ExistsFails(i)
    PROVE  IInv'
<1>1. PICK res \in {"ok", "err"} :
        /\ Return(res) /\ mpc = "loop"
        /\ UNCHANGED <<pipeVars, archVars, putVars, upVars>>
        /\ res = "ok" =>
             /\ idx = NumMounts + 1 /\ errs = {}
             /\ \A j \in Mounts : upc[j] \in {"idle", "done"}
  <2>1. CASE WaitAndReturn
    BY <2>1 DEF WaitAndReturn
  <2>2. CASE \E i \in Mounts : SourceMissing(i) \/ ExistsFails(i)
    BY <2>2 DEF SourceMissing, ExistsFails, AtMount
  <2> QED
    BY <2>1, <2>2
<1>2. TypeOK /\ run \in Runs /\ outcome \in [Runs -> {"none", "ok", "err"}]
  BY DEF IInv, TypeOK
<1>3. /\ mpc' = "returned" /\ run' = run /\ idx' = idx /\ outcome'[run] = res
      /\ \A r \in Runs \ {run} : outcome'[r] = outcome[r]
  BY <1>1, <1>2 DEF Return
<1>4. ASSUME res = "ok", NEW j \in Mounts
      PROVE  /\ Present(store[j]) /\ (conf.override => store[j].ver = run)
             /\ store[j].ver = run => Whole(store[j])
             /\ upc[j] \in {"idle", "done"} /\ apc[j] \in {"idle", "done"}
             /\ cpc[j] \in {"idle", "done"}
  <2>1. MountInv(j) /\ j < idx
    BY <1>1, <1>4, MountsAssumption DEF IInv, Mounts
  <2>2. CASE upc[j] = "idle"
    <3>1. run \in Nat /\ store[j].ver < run => store[j].ver # run
      BY <1>2 DEF Runs
    <3> QED
      BY <1>1, <1>2, <2>1, <2>2, <3>1 DEF MountInv, UpInv, StoreInv, Runs
  <2>3. CASE upc[j] = "done"
    <3>1. ures[j] \in {"none", "ok", "err"}
      BY <1>2 DEF TypeOK
    <3>2. ures[j] = "ok"
      BY <1>1, <1>4, <2>1, <2>3, <3>1 DEF MountInv, UpInv
    <3>3. cpc[j] = "done" /\ apc[j] = "done" /\ store[j].ver = run /\ Whole(store[j])
      BY <2>1, <3>2 DEF MountInv, UpInv, PutInv
    <3>4. Present(store[j])
      BY <3>3 DEF Whole, Complete, Shrunk, Present
    <3> QED
      BY <2>3, <3>3, <3>4
  <2> QED
    BY <1>1, <1>4, <2>2, <2>3
<1> USE DEF pipeVars, archVars, putVars, upVars
<1>5. ASSUME NEW j \in Mounts PROVE MountInv(j)'
  <2>1. ArchInv(j) /\ PutInv(j) /\ UpInv(j) /\ StoreInv(j)
    BY DEF IInv, MountInv
  <2>2. Untouched(j)
    BY <1>1, <1>3 DEF Untouched
  <2>3. StoreInv(j)'
    BY <1>1, <1>3, <2>1 DEF StoreInv
  <2> QED
    BY <2>1, <2>2, <2>3, GoroutineFrame DEF MountInv
<1>6. MainInv'
  BY <1>2, <1>3 DEF IInv, MainInv, Runs
<1>7. QuietInv'
  BY <1>1, <1>3, <1>4 DEF QuietInv, OkMeansCached
<1>8. OkRunsLeaveWholeArchives'
  <2>1. ASSUME NEW j \in Mounts, Present(store[j]), outcome'[store[j].ver] = "ok"
        PROVE  Whole(store[j])
    <3>1. store[j].ver \in Runs
      BY <1>2, <2>1, RunsAssumption DEF IInv, MountInv, StoreInv, Runs
    <3>2. CASE store[j].ver = run
      BY <1>3, <1>4, <2>1, <3>2
    <3>3. CASE store[j].ver # run
      BY <1>3, <2>1, <3>1, <3>3 DEF IInv, OkRunsLeaveWholeArchives
    <3> QED
      BY <3>2, <3>3
  <2> QED
    BY <1>1, <2>1 DEF OkRunsLeaveWholeArchives, Whole
<1> QED
  BY <1>5, <1>6, <1>7, <1>8 DEF IInv

(* A step of Rebuild keeps the invariant. *)
LEMMA MainKeeps ==
    ASSUME IInv, MainStep
    PROVE  IInv'
<1>1. TypeOK' /\ conf' = conf
  BY TypeMain DEF IInv, MainStep
<1> QED
  BY <1>1, StartKeeps, SkipKeeps, ReturnKeeps DEF MainStep, Main

-----------------------------------------------------------------------------
(* The process. *)

(* Nothing but storage and the outcomes outlives a process. *)
LEMMA ExitKeeps ==
    ASSUME IInv, Exit
    PROVE  IInv'
<1>1. TypeOK /\ TypeOK'
  BY TypeProcess DEF IInv
<1>2. UNCHANGED <<conf, store, run, outcome>> /\ mpc' = "exited" /\ idx' = 1
  BY DEF Exit
<1>3. ASSUME NEW j \in Mounts
      PROVE  /\ apc'[j] = "idle" /\ cpc'[j] = "idle" /\ upc'[j] = "idle" /\ ures'[j] = "none"
             /\ ent'[j] = 0 /\ ~aerr'[j] /\ ~broken'[j] /\ offer'[j] = NoChunk
             /\ ~rclosed'[j] /\ werr'[j] = "none" /\ pend'[j] = NoObject
  BY DEF Exit, AtAll
<1>4. ASSUME NEW j \in Mounts PROVE MountInv(j)'
  <2>1. ArchInv(j)'
    BY <1>3 DEF ArchInv
  <2>2. PutInv(j)'
    BY <1>3, NewObjectType DEF PutInv
  <2>3. UpInv(j)'
    BY <1>3 DEF UpInv
  <2>4. StoreInv(j)'
    BY <1>2, <1>3 DEF IInv, MountInv, StoreInv
  <2> QED
    BY <2>1, <2>2, <2>3, <2>4 DEF MountInv
<1>5. MainInv' /\ QuietInv' /\ OkRunsLeaveWholeArchives'
  BY <1>2, <1>3 DEF IInv, MainInv, QuietInv, OkMeansCached, OkRunsLeaveWholeArchives, Whole,
                    Runs
<1> QED
  BY <1>1, <1>4, <1>5 DEF IInv

(* Whatever an earlier run has left is older than the run that starts. *)
LEMMA StartRunKeeps ==
    ASSUME IInv, StartRun
    PROVE  IInv'
<1>1. TypeOK /\ TypeOK' /\ run \in Nat /\ run' \in Runs
  BY TypeProcess, RunsAssumption DEF IInv, TypeOK, Runs
<1>2. /\ UNCHANGED <<conf, pipeVars, archVars, putVars, upVars, idx, outcome>>
      /\ mpc = "exited" /\ mpc' = "loop" /\ run' = run + 1 /\ idx = 1
      /\ \A j \in Mounts : upc[j] = "idle"
  BY <1>1 DEF StartRun, IInv, MainInv, Alive, TypeOK
<1> USE <1>2 DEF pipeVars, archVars, putVars, upVars
<1>3. ASSUME NEW j \in Mounts PROVE MountInv(j)'
  <2>1. ArchInv(j) /\ PutInv(j) /\ UpInv(j) /\ StoreInv(j) /\ j \in Nat /\ j >= 1
    BY MountsAssumption DEF IInv, MountInv, Mounts
  <2>2. upc[j] = "idle" /\ cpc[j] = "idle" /\ apc[j] = "idle"
    BY <2>1 DEF UpInv
  <2>3. ArchInv(j)'
    BY <2>1 DEF ArchInv
  <2>4. PutInv(j)'
    BY <2>1, <2>2 DEF PutInv
  <2>5. UpInv(j)'
    BY <2>1 DEF UpInv
  <2>6. StoreInv(j)'
    <3>1. Present(store[j]) => store[j].ver \in 1..(run + 1) /\ store[j].ver < run + 1
      BY <1>1, <2>1 DEF StoreInv
    <3> QED
      BY <2>1, <2>2, <3>1 DEF StoreInv
  <2> QED
    BY <2>3, <2>4, <2>5, <2>6 DEF MountInv
<1>4. outcome[run + 1] = "none"
  BY <1>1 DEF IInv, MainInv
<1>5. MainInv' /\ QuietInv' /\ OkRunsLeaveWholeArchives'
  BY <1>1, <1>4 DEF IInv, MainInv, QuietInv, OkMeansCached, OkRunsLeaveWholeArchives, Whole,
                    Runs
<1> QED
  BY <1>1, <1>3, <1>5 DEF IInv

(* A stuttering step. *)
LEMMA StutterKeeps ==
    ASSUME IInv, UNCHANGED vars
    PROVE  IInv'
<1> USE DEF vars, pipeVars, archVars, putVars, mainVars, upVars
<1>1. TypeOK'
  BY TypeProcess DEF IInv
<1>2. ASSUME NEW j \in Mounts PROVE MountInv(j)'
  BY MountFrame DEF IInv, Untouched
<1>3. MainInv' /\ QuietInv' /\ OkRunsLeaveWholeArchives'
  BY DEF IInv, MainInv, QuietInv, OkMeansCached, OkRunsLeaveWholeArchives, Whole, Runs
<1> QED
  BY <1>1, <1>2, <1>3 DEF IInv

-----------------------------------------------------------------------------
(* The theorems. *)

(* The first run finds nothing in storage. *)
LEMMA InvInit == Init => IInv
<1> SUFFICES ASSUME Init PROVE IInv
  OBVIOUS
<1>1. TypeOK /\ run = 1 /\ mpc = "loop" /\ idx = 1 /\ \A r \in Runs : outcome[r] = "none"
  BY TypeInit DEF Init, ProcessInit
<1>2. ASSUME NEW j \in Mounts
      PROVE  /\ apc[j] = "idle" /\ cpc[j] = "idle" /\ upc[j] = "idle" /\ ures[j] = "none"
             /\ ent[j] = 0 /\ ~aerr[j] /\ ~broken[j] /\ offer[j] = NoChunk
             /\ ~rclosed[j] /\ werr[j] = "none" /\ pend[j] = NoObject /\ store[j] = NoObject
  BY DEF Init, ProcessInit, PipeInit, ArchInit, PutInit, AtAll
<1>3. ASSUME NEW j \in Mounts PROVE MountInv(j)
  <2>1. ArchInv(j)
    BY <1>2 DEF ArchInv
  <2>2. PutInv(j)
    BY <1>2, NewObjectType DEF PutInv
  <2>3. UpInv(j)
    BY <1>2 DEF UpInv
  <2>4. StoreInv(j)
    BY <1>1, <1>2, NewObjectType, MountsAssumption DEF StoreInv, Mounts
  <2> QED
    BY <2>1, <2>2, <2>3, <2>4 DEF MountInv
<1>4. 1 \in Runs
  BY RunsAssumption DEF Runs
<1>5. MainInv /\ QuietInv /\ OkRunsLeaveWholeArchives
  BY <1>1, <1>2, <1>4, NewObjectType
  DEF MainInv, QuietInv, OkMeansCached, OkRunsLeaveWholeArchives
<1> QED
  BY <1>1, <1>3, <1>5 DEF IInv

(* Every step keeps the invariant. *)
LEMMA InvNext == IInv /\ [Next]_vars => IInv'
BY ArchiverKeeps, CopyKeeps, UploaderKeeps, MainKeeps, ExitKeeps, StartRunKeeps, StutterKeeps
DEF Next, NoMoreRuns

(* The inductive invariant holds in every run of Rebuilder. *)
THEOREM Invariance == Spec => []IInv
BY InvInit, InvNext, PTL DEF Spec

(* An object written by a run that succeeded is a whole archive, for any
   number of mounts, entries and runs and every interleaving. *)
THEOREM OkRunsLeaveWholeArchivesAlways == Spec => []OkRunsLeaveWholeArchives
<1>1. IInv => OkRunsLeaveWholeArchives
  BY DEF IInv
<1> QED
  BY <1>1, Invariance, PTL

(* A run that succeeded has cached every mount and has stopped. *)
THEOREM OkMeansCachedAlways == Spec => []OkMeansCached
<1>1. IInv => OkMeansCached
  BY DEF IInv, QuietInv
<1> QED
  BY <1>1, Invariance, PTL

(* An error nobody receives belongs to a Put that has failed already. *)
THEOREM NoErrorLostAlways == Spec => []NoErrorLost
<1>1. IInv => NoErrorLost
  <2>1. ASSUME IInv, NEW i \in Mounts, cpc[i] \in Sending, upc[i] # "put"
        PROVE  ures[i] = "err"
    <3>1. UpInv(i) /\ ures[i] \in {"none", "ok", "err"}
      BY <2>1 DEF IInv, MountInv, TypeOK
    <3> QED
      BY <2>1, <3>1 DEF UpInv, Sending
  <2> QED
    BY <2>1 DEF NoErrorLost
<1> QED
  BY <1>1, Invariance, PTL

(* The uploader reads the byte count when the archiver has written it. *)
THEOREM StatsAfterWriteAlways == Spec => []StatsAfterWrite
<1>1. IInv => StatsAfterWrite
  BY DEF IInv, MountInv, UpInv, PutInv, StatsAfterWrite
<1> QED
  BY <1>1, Invariance, PTL

LEMMA OldObjectStays ==
    ASSUME IInv, [Next]_vars, NEW i \in Mounts,
           ~conf.override, Present(store[i]), store[i].ver < run
    PROVE  UNCHANGED store[i]
<1>1. TypeOK /\ run \in Nat
  BY RunsAssumption DEF IInv, TypeOK, Runs
<1>2. ASSUME NEW k \in Mounts, CopyStep(k) PROVE UNCHANGED store[i]
  <2>1. PutInv(k) /\ UpInv(k) /\ StoreInv(k)
    BY DEF IInv, MountInv
  <2>2. CASE k = i
    <3>1. upc[i] # "idle"
      BY <1>1, <1>2, <2>1, <2>2, CopyFrame DEF UpInv
    <3>2. store[i].ver = run
      BY <2>1, <2>2, <3>1 DEF StoreInv
    <3> QED
      BY <1>1, <3>2
  <2>3. CASE k # i
    BY <1>1, <1>2, <2>1, <2>3, CopyFrame
  <2> QED
    BY <2>2, <2>3
<1>3. ASSUME NEW k \in Mounts, ArchiverStep(k) \/ UploaderStep(k) \/ TimeoutStep(k)
      PROVE  UNCHANGED store[i]
  BY <1>1, <1>3, ArchiverFrame, UploaderFrame
<1>4. CASE MainStep
  BY <1>4 DEF MainStep, Main, SourceMissing, Override, Skip, Upload, ExistsFails,
              WaitAndReturn, StartUploader, StartPut, putVars
<1>5. CASE Exit \/ StartRun \/ NoMoreRuns \/ UNCHANGED vars
  BY <1>5 DEF Exit, StartRun, NoMoreRuns, vars, putVars
<1> QED
  BY <1>2, <1>3, <1>4, <1>5 DEF Next

(* Without override no step changes an object of an earlier run. *)
THEOREM NoOverrideKeepsAlways == Spec => NoOverrideKeeps
<1>1. IInv /\ [Next]_vars =>
        [\A i \in Mounts : (~conf.override /\ Present(store[i]) /\ store[i].ver < run)
                                => UNCHANGED store[i]]_vars
  BY OldObjectStays
<1> QED
  BY <1>1, Invariance, PTL DEF Spec, NoOverrideKeeps

-----------------------------------------------------------------------------
(* What storage is left with. *)

(* An object as Leavings lists them, for any backend. *)
Fits(o) ==
    /\ o.entries \in 0..NumEntries
    /\ o.end \in {"open", "torn", "short", "trailer"}
    /\ o.footer => conf.gzip /\ o.end # "open"
    /\ o.end = "torn" /\ o.entries = NumEntries => ~o.footer
    /\ o.end = "short" => FilesMayShrink /\ o.entries < NumEntries

(* What the archiver writes still gets to where it is copied. *)
Flowing(i) == cpc[i] \in {"mkdir", "sendMkdir", "create", "copy"} /\ ~rclosed[i]

(* What has arrived there, with what is on offer. *)
Coming(i) == Arrived(IF cpc[i] = "copy" THEN Target(i) ELSE EmptyObject(run), offer[i])

(* What an archiver has written that has had an error: the trailer and the
   footer may follow what the error has cut. *)
Ended(i, o) ==
    /\ apc[i] \notin {"idle", "entry", "body"}
    /\ o.entries <= NumEntries
    /\ IF broken[i] THEN /\ o.end \in {"short", "torn"} /\ o.entries < NumEntries
                         /\ o.end = "short" => FilesMayShrink
                    ELSE o.end \in {"open", "trailer"}
    /\ apc[i] \in {"closeTar", "closeGzip"} => ~o.footer
    /\ apc[i] = "closeGzip" => o.end # "open"
    /\ o.footer => conf.gzip /\ o.end # "open"

FlowInv(i) ==
    Flowing(i) =>
        /\ IF aerr[i] THEN Ended(i, Coming(i)) ELSE Coming(i) = Written(i)
        /\ cpc[i] = "copy" /\ offer[i] # NoChunk => ~Target(i).footer

(* What is in storage and what is uploaded, and what is about to become of
   them, also after Put has returned. *)
LeftInv(i) ==
    /\ store[i] = NoObject \/ Fits(store[i])
    /\ pend[i] = NoObject \/ Fits(pend[i])
    /\ FlowInv(i)
    /\ OnlyWhole => /\ store[i] = NoObject \/ Whole(store[i])
                    /\ cpc[i] = "close" => Whole(pend[i])

LeavingsInv == IInv /\ \A i \in Mounts : LeftInv(i)


-----------------------------------------------------------------------------
(* Objects. *)

(* The kinds of backends, and what NoObject and EmptyObject are. *)
LEMMA Kinds == OnlyWhole => ~InPlace /\ ~CopyGoroutine
BY DEF OnlyWhole, InPlace, CopyGoroutine

LEMMA EmptyFits == Fits(EmptyObject(run)) /\ ~EmptyObject(run).footer
BY EntriesAssumption DEF Fits, EmptyObject

(* An object that fits is one that a restore may find. *)
LEMMA FitsIsLeft ==
    ASSUME NEW o \in Object, Fits(o), OnlyWhole => Whole(o)
    PROVE  o \in Leavings(o.ver, FilesMayShrink)
<1>1. o \in [ver: {o.ver}, entries: 0..NumEntries,
             end: {"open", "torn", "short", "trailer"}, footer: BOOLEAN]
  BY DEF Fits, Object
<1> QED
  BY <1>1 DEF Fits, Whole, Leavings

(* A chunk that is written in part cuts the object before its footer. *)
LEMMA CutFits ==
    ASSUME NEW o \in Object, Fits(o), ~o.footer
    PROVE  Fits(Cut(o))
<1>1. Cut(o).end = "torn" /\ Cut(o).entries = o.entries /\ Cut(o).footer = o.footer
  BY DEF Cut, Object
<1> QED
  BY <1>1 DEF Fits

(* What an archiver writes fits, as long as it has no error ... *)
LEMMA WrittenFits ==
    ASSUME TypeOK, NEW i \in Mounts, ArchInv(i), ~aerr[i], apc[i] # "idle"
    PROVE  Fits(Written(i))
<1>1. /\ ent[i] \in Nat /\ ent[i] <= NumEntries /\ NumEntries \in Nat /\ NumEntries >= 1
      /\ apc[i] \in ArchPC /\ conf.gzip \in BOOLEAN
  BY ConfigsAssumption, EntriesAssumption DEF TypeOK, ArchTypeOK, Config
<1>2. CASE apc[i] = "body"
  <2>1. /\ Written(i).entries = ent[i] - 1 /\ Written(i).end = "torn" /\ ~Written(i).footer
        /\ ent[i] > 0
    BY <1>2 DEF Written, Obj, ArchInv
  <2> QED
    BY <1>1, <2>1 DEF Fits
<1>3. CASE apc[i] \in {"entry", "closeTar"}
  <2>1. CASE broken[i]
    <3>1. /\ Written(i).entries = ent[i] - 1 /\ Written(i).end = "short" /\ ~Written(i).footer
          /\ ent[i] > 0 /\ FilesMayShrink
      BY <1>3, <2>1 DEF Written, Obj, ArchInv
    <3> QED
      BY <1>1, <3>1 DEF Fits
  <2>2. CASE ~broken[i]
    <3>1. Written(i).entries = ent[i] /\ Written(i).end = "open" /\ ~Written(i).footer
      BY <1>3, <2>2 DEF Written, Obj
    <3> QED
      BY <1>1, <3>1 DEF Fits
  <2> QED
    BY <2>1, <2>2
<1>4. CASE apc[i] \notin {"idle", "entry", "body", "closeTar"}
  <2>1. CASE broken[i]
    <3>1. /\ Written(i).entries = NumEntries - 1 /\ Written(i).end = "short"
          /\ Written(i).footer = (conf.gzip /\ apc[i] # "closeGzip") /\ FilesMayShrink
      BY <1>4, <2>1 DEF Written, Obj, ArchInv
    <3> QED
      BY <1>1, <3>1 DEF Fits
  <2>2. CASE ~broken[i]
    <3>1. /\ Written(i).entries = NumEntries /\ Written(i).end = "trailer"
          /\ Written(i).footer = (conf.gzip /\ apc[i] # "closeGzip")
      BY <1>4, <2>2 DEF Written, Obj
    <3> QED
      BY <1>1, <3>1 DEF Fits
  <2> QED
    BY <2>1, <2>2
<1> QED
  BY <1>2, <1>3, <1>4

(* ... and when it has had one. *)
LEMMA EndedFits ==
    ASSUME NEW i \in Mounts, NEW o \in Object, Ended(i, o)
    PROVE  Fits(o)
BY EntriesAssumption DEF Ended, Fits, Object

(* Objects are objects. *)
LEMMA FlowTypes ==
    ASSUME TypeOK, NEW i \in Mounts
    PROVE  /\ EmptyObject(run) \in Object /\ Target(i) \in Object
           /\ Coming(i) \in Object
<1>1. EmptyObject(run) \in Object /\ Target(i) \in Object
  BY NewObjectType, RunsAssumption DEF TypeOK, PutTypeOK, Target, Runs
<1>2. offer[i] \in Chunks \cup {NoChunk}
  BY DEF TypeOK, PipeTypeOK
<1>3. \A o \in Object : Arrived(o, offer[i]) \in Object
  BY <1>2, ReceivedType DEF Arrived
<1> QED
  BY <1>1, <1>3 DEF Coming

(* So what comes is an object that fits. *)
LEMMA ComingFits ==
    ASSUME TypeOK, NEW i \in Mounts, ArchInv(i), UpInv(i), FlowInv(i), Flowing(i)
    PROVE  Fits(Coming(i))
<1>1. apc[i] # "idle"
  BY DEF UpInv, Flowing
<1> QED
  BY <1>1, FlowTypes, WrittenFits, EndedFits DEF FlowInv


-----------------------------------------------------------------------------
(* The archiver. *)

(* What an archiver with an error has written stays so: only the trailer and
   the footer come after it. *)
LEMMA ArchiverEndsWell ==
    ASSUME TypeOK, NEW i \in Mounts, ArchInv(i), ArchiverStep(i), aerr'[i], ~rclosed[i],
           NEW o \in Object,
           IF aerr[i] THEN Ended(i, Arrived(o, offer[i])) ELSE Arrived(o, offer[i]) = Written(i)
    PROVE  Ended(i, Arrived(o, offer[i]))'
<1>1. Archive(i) /\ ArchTypeOK /\ PipeTypeOK /\ conf' = conf /\ run' = run
  BY DEF ArchiverStep, TypeOK, mainVars
<1>2. /\ ent[i] \in Nat /\ ent[i] <= NumEntries /\ NumEntries \in Nat /\ conf.gzip \in BOOLEAN
      /\ o.entries \in Nat /\ o.footer \in BOOLEAN
  BY <1>1, ConfigsAssumption, EntriesAssumption DEF ArchTypeOK, TypeOK, Config, Object
<1>3. apc[i] \in {"entry", "body", "closeTar", "closeGzip", "return"} => ~Closed(i)
  BY DEF ArchInv, Closed
<1> DEFINE w == Arrived(o, offer'[i])
<1>4. SUFFICES
        /\ apc'[i] \notin {"idle", "entry", "body"}
        /\ w.entries <= NumEntries
        /\ IF broken'[i] THEN /\ w.end \in {"short", "torn"} /\ w.entries < NumEntries
                              /\ w.end = "short" => FilesMayShrink
                         ELSE w.end \in {"open", "trailer"}
        /\ apc'[i] \in {"closeTar", "closeGzip"} => ~w.footer
        /\ apc'[i] = "closeGzip" => w.end # "open"
        /\ w.footer => conf.gzip /\ w.end # "open"
  BY <1>1 DEF Ended
<1> USE <1>1, <1>2, <1>3 DEF ArchTypeOK, PipeTypeOK, At, Goto, CreateFails, Offer,
                             CloseWriter, pipeVars, archVars, Arrived
<1>5. CASE WriteHeader(i) \/ WriteBody(i) \/ WriteShortBody(i) \/ WalkDone(i)
  <2>1. aerr[i] /\ apc[i] \in {"entry", "body"}
    BY <1>5 DEF WriteHeader, WriteBody, WriteShortBody, WalkDone
  <2> QED
    BY <2>1 DEF Ended
<1>6. CASE HeaderFindsShortBody(i) \/ WalkFails(i)
  <2>1. apc[i] = "entry" /\ offer[i] = NoChunk /\ offer' = offer /\ apc'[i] = "closeTar"
        /\ broken'[i] = broken[i] /\ ~aerr[i]
    BY <1>6 DEF HeaderFindsShortBody, WalkFails, Ended
  <2>2. o = Written(i) /\ w = o
    BY <2>1
  <2>3. CASE broken[i]
    <3>1. /\ w.entries = ent[i] - 1 /\ w.end = "short" /\ ~w.footer /\ ent[i] > 0
          /\ FilesMayShrink
      BY <2>1, <2>2, <2>3 DEF Written, Obj, ArchInv
    <3> QED
      BY <2>1, <2>3, <3>1
  <2>4. CASE ~broken[i]
    <3>1. w.entries = ent[i] /\ w.end = "open" /\ ~w.footer
      BY <2>1, <2>2, <2>4 DEF Written, Obj
    <3> QED
      BY <2>1, <2>4, <3>1
  <2> QED
    BY <2>3, <2>4
<1>7. CASE BodyFails(i)
  <2>1. apc[i] = "body" /\ offer[i] = NoChunk /\ offer' = offer /\ apc'[i] = "closeTar"
        /\ broken'[i] /\ ~aerr[i]
    BY <1>7 DEF BodyFails, Ended
  <2>2. o = Written(i) /\ w = o
    BY <2>1
  <2>3. w.entries = ent[i] - 1 /\ w.end = "torn" /\ ~w.footer /\ ent[i] > 0
    BY <2>1, <2>2 DEF Written, Obj, ArchInv
  <2> QED
    BY <2>1, <2>3
<1>8. CASE WriteRefused(i) \/ CloseWriteRefused(i)
  BY <1>8 DEF WriteRefused, CloseWriteRefused
<1>9. CASE BadCompressionLevel(i)
  <2>1. apc[i] = "entry" /\ offer[i] = NoChunk /\ offer' = offer /\ apc'[i] = "return"
        /\ broken' = broken /\ ent[i] = 0 /\ ~aerr[i]
    BY <1>9 DEF BadCompressionLevel, Ended
  <2>2. o = Written(i) /\ w = o /\ ~broken[i]
    BY <2>1 DEF ArchInv
  <2>3. w.entries = 0 /\ w.end = "open" /\ ~w.footer
    BY <2>1, <2>2 DEF Written, Obj
  <2> QED
    BY <2>1, <2>2, <2>3
<1>10. CASE CloseTar(i)
  <2>1. apc[i] = "closeTar" /\ offer[i] = NoChunk /\ ~broken[i] /\ aerr[i]
        /\ offer'[i] = "trailer" /\ apc'[i] \in {"closeGzip", "return"} /\ ~broken'[i]
    BY <1>10 DEF CloseTar, AfterTar
  <2>2. /\ w.entries = o.entries /\ w.end = "trailer" /\ w.footer = o.footer
        /\ o.entries <= NumEntries /\ ~o.footer
    BY <2>1 DEF Ended, Received, NoChunk
  <2> QED
    BY <2>1, <2>2
<1>11. CASE CloseTarFails(i)
  <2>1. apc[i] = "closeTar" /\ broken[i] /\ aerr[i] /\ offer' = offer
        /\ apc'[i] \in {"closeGzip", "return"} /\ broken'[i]
    BY <1>11 DEF CloseTarFails, AfterTar
  <2> QED
    BY <2>1 DEF Ended
<1>12. CASE CloseGzip(i)
  <2>1. apc[i] = "closeGzip" /\ offer[i] = NoChunk /\ aerr[i] /\ conf.gzip
        /\ offer'[i] = "footer" /\ apc'[i] = "return" /\ broken'[i] = broken[i]
    BY <1>12 DEF CloseGzip, ArchInv
  <2>2. w.entries = o.entries /\ w.end = o.end /\ w.footer
    BY <2>1 DEF Received, NoChunk
  <2> QED
    BY <2>1, <2>2 DEF Ended
<1>13. CASE CreateReturns(i)
  BY <1>13 DEF CreateReturns, Ended
<1>14. CASE CountWritten(i)
  BY <1>14 DEF CountWritten, Ended
<1>15. CASE ClosePipe(i)
  BY <1>15 DEF ClosePipe, Ended
<1> QED
  BY <1>5, <1>6, <1>7, <1>8, <1>9, <1>10, <1>11, <1>12, <1>13, <1>14, <1>15 DEF Archive

(* The footer is the last chunk of an archive. *)
LEMMA FooterIsLast ==
    ASSUME TypeOK, NEW i \in Mounts, ArchInv(i), ArchiverStep(i), FlowInv(i), Flowing(i),
           cpc[i] = "copy", offer'[i] # NoChunk
    PROVE  ~Target(i).footer
<1>1. Archive(i) /\ PipeTypeOK
  BY DEF ArchiverStep, TypeOK
<1>2. CASE offer[i] # NoChunk
  BY <1>2 DEF FlowInv
<1>3. CASE offer[i] = NoChunk
  <2>1. apc[i] \in {"entry", "body", "closeTar", "closeGzip"}
    BY <1>1, <1>3 DEF Archive, WriteHeader, HeaderFindsShortBody, WalkFails, WriteBody,
         WriteShortBody, BodyFails, WriteRefused, WalkDone, CloseTar, CloseTarFails, CloseGzip,
         CloseWriteRefused, BadCompressionLevel, CreateReturns, CountWritten, ClosePipe,
         At, PipeTypeOK, CloseWriter, pipeVars
  <2>2. Coming(i) = Target(i)
    BY <1>3 DEF Coming, Arrived
  <2>3. ~aerr[i] => ~Written(i).footer
    BY <2>1 DEF Written, Obj
  <2> QED
    BY <2>1, <2>2, <2>3 DEF FlowInv, Ended
<1> QED
  BY <1>2, <1>3


(* What is said of a mount depends on nothing else. *)
LEMMA LeftFrame ==
    ASSUME NEW j \in Mounts, LeftInv(j), conf' = conf,
           store'[j] = store[j], pend'[j] = pend[j], cpc'[j] = cpc[j],
           Flowing(j) => /\ run' = run /\ apc'[j] = apc[j] /\ ent'[j] = ent[j]
                         /\ aerr'[j] = aerr[j] /\ broken'[j] = broken[j]
                         /\ offer'[j] = offer[j],
           rclosed[j] => rclosed'[j]
    PROVE  LeftInv(j)'
<1>1. /\ OnlyWhole' = OnlyWhole /\ InPlace' = InPlace /\ Target(j)' = Target(j)
  BY DEF OnlyWhole, InPlace, Target
<1>2. \A o : (Fits(o)' <=> Fits(o)) /\ (Whole(o)' <=> Whole(o))
  BY DEF Fits, Whole
<1>3. FlowInv(j)'
  <2>1. SUFFICES ASSUME Flowing(j)'
                 PROVE  FlowInv(j)'
    BY DEF FlowInv
  <2>2. /\ Flowing(j) /\ run' = run /\ apc'[j] = apc[j] /\ ent'[j] = ent[j]
        /\ aerr'[j] = aerr[j] /\ broken'[j] = broken[j] /\ offer'[j] = offer[j]
    BY <2>1 DEF Flowing
  <2>3. Coming(j)' = Coming(j) /\ Written(j)' = Written(j)
    BY <1>1, <2>2 DEF Coming, Arrived, EmptyObject, Written, Obj
  <2>4. Ended(j, Coming(j))' <=> Ended(j, Coming(j))
    BY <2>2, <2>3 DEF Ended
  <2> QED
    BY <1>1, <2>2, <2>3, <2>4 DEF LeftInv, FlowInv
<1> QED
  BY <1>1, <1>2, <1>3 DEF LeftInv

(* A step of the archiver. *)
LEMMA ArchiverLeaves ==
    ASSUME LeavingsInv, NEW i \in Mounts, ArchiverStep(i)
    PROVE  \A j \in Mounts : LeftInv(j)'
<1>1. TypeOK /\ ArchInv(i) /\ LeftInv(i) /\ FlowInv(i)
  BY DEF LeavingsInv, IInv, MountInv, LeftInv
<1>2. /\ UNCHANGED <<conf, rclosed, store, pend, cpc, run>>
      /\ aerr[i] => aerr'[i]
  BY <1>1, ArchiverFrame
<1>3. ASSUME NEW j \in Mounts, j # i
      PROVE  LeftInv(j)'
  <2>1. /\ apc'[j] = apc[j] /\ ent'[j] = ent[j] /\ aerr'[j] = aerr[j] /\ broken'[j] = broken[j]
        /\ offer'[j] = offer[j]
    BY <1>1, <1>3, ArchiverFrame
  <2> QED
    BY <1>2, <2>1, LeftFrame DEF LeavingsInv
<1>4. LeftInv(i)'
  <2>1. /\ OnlyWhole' = OnlyWhole /\ InPlace' = InPlace /\ Target(i)' = Target(i)
        /\ Flowing(i)' = Flowing(i)
    BY <1>2 DEF OnlyWhole, InPlace, Target, Flowing
  <2>2. \A o : (Fits(o)' <=> Fits(o)) /\ (Whole(o)' <=> Whole(o))
    BY <1>2 DEF Fits, Whole
  <2>3. ASSUME Flowing(i)
        PROVE  /\ IF aerr'[i] THEN Ended(i, Coming(i))' ELSE Coming(i)' = Written(i)'
               /\ cpc'[i] = "copy" /\ offer'[i] # NoChunk => ~Target(i)'.footer
    <3>1. PICK o \in Object : o = IF cpc[i] = "copy" THEN Target(i) ELSE EmptyObject(run)
      BY <1>1, FlowTypes
    <3>2. Coming(i) = Arrived(o, offer[i]) /\ Coming(i)' = Arrived(o, offer'[i])
      BY <1>2, <2>1, <3>1 DEF Coming, EmptyObject
    <3>3. ~rclosed[i] /\ IF aerr[i] THEN Ended(i, Coming(i)) ELSE Coming(i) = Written(i)
      BY <1>1, <2>3 DEF FlowInv, Flowing
    <3>4. ASSUME aerr'[i]
          PROVE  Ended(i, Coming(i))'
      <4>1. Ended(i, Arrived(o, offer[i]))'
        BY <1>1, <3>2, <3>3, <3>4, ArchiverEndsWell
      <4> QED
        BY <3>2, <4>1 DEF Ended
    <3>5. ASSUME ~aerr'[i]
          PROVE  Coming(i)' = Written(i)'
      BY <1>1, <1>2, <3>2, <3>3, <3>5, ArchiverWrites
    <3>6. cpc'[i] = "copy" /\ offer'[i] # NoChunk => ~Target(i)'.footer
      BY <1>1, <1>2, <2>1, <2>3, FooterIsLast
    <3> QED
      BY <3>4, <3>5, <3>6
  <2>4. FlowInv(i)'
    BY <2>1, <2>3 DEF FlowInv
  <2> QED
    BY <1>1, <1>2, <2>1, <2>2, <2>4 DEF LeftInv
<1> QED
  BY <1>3, <1>4

-----------------------------------------------------------------------------
(* The copy. *)

(* A chunk that can be taken belongs to an archive that still flows. *)
LEMMA TakenFlows ==
    ASSUME NEW i \in Mounts, cpc[i] = "copy", Take(i)
    PROVE  Flowing(i) /\ offer[i] # NoChunk /\ offer'[i] \in {offer[i], NoChunk}
BY DEF Take, Closed, Flowing

(* What is copied to fits. *)
LEMMA TargetFits ==
    ASSUME TypeOK, NEW i \in Mounts, PutInv(i), LeftInv(i), cpc[i] = "copy"
    PROVE  Fits(Target(i))
<1>1. Target(i).ver = run /\ run # 0
  BY RunsAssumption DEF TypeOK, Runs, PutInv
<1>2. Target(i) # NoObject
  BY <1>1 DEF NoObject
<1> QED
  BY <1>2 DEF LeftInv, Target

(* A step of the copy. *)
LEMMA CopyLeaves ==
    ASSUME LeavingsInv, NEW i \in Mounts, CopyStep(i)
    PROVE  \A j \in Mounts : LeftInv(j)'
<1>1. /\ TypeOK /\ ArchInv(i) /\ PutInv(i) /\ UpInv(i) /\ LeftInv(i) /\ FlowInv(i)
      /\ PutTypeOK /\ PipeTypeOK
  BY DEF LeavingsInv, IInv, MountInv, LeftInv, TypeOK
<1>2. /\ UNCHANGED <<conf, rclosed, werr, apc, ent, aerr, broken, run>>
      /\ \A j \in Mounts \ {i} : /\ store'[j] = store[j] /\ pend'[j] = pend[j]
                                 /\ cpc'[j] = cpc[j] /\ offer'[j] = offer[j]
  BY <1>1, CopyFrame
<1>3. ASSUME NEW j \in Mounts, j # i
      PROVE  LeftInv(j)'
  BY <1>2, <1>3, LeftFrame DEF LeavingsInv
<1>4. /\ OnlyWhole' = OnlyWhole /\ InPlace' = InPlace
      /\ \A o : (Fits(o)' <=> Fits(o)) /\ (Whole(o)' <=> Whole(o))
      /\ EmptyObject(run)' = EmptyObject(run) /\ Written(i)' = Written(i)
  BY <1>2 DEF OnlyWhole, InPlace, Fits, Whole, EmptyObject, Written, Obj
<1>5. \A o : Ended(i, o)' <=> Ended(i, o)
  BY <1>2 DEF Ended
<1>6. Target(i)' = (IF InPlace THEN store'[i] ELSE pend'[i])
  BY <1>4 DEF Target
<1>7. Copy(i, run)
  BY DEF CopyStep
(* The archive flows as before. *)
<1> DEFINE Flows == Flowing(i)' => /\ Flowing(i) /\ Coming(i)' = Coming(i)
                                   /\ cpc'[i] = "copy" /\ offer'[i] # NoChunk => ~Target(i)'.footer
<1>8. ASSUME Flows
      PROVE  FlowInv(i)'
  BY <1>1, <1>2, <1>4, <1>5, <1>8 DEF FlowInv
<1>9. ~Flowing(i)' => Flows
  OBVIOUS
<1> HIDE DEF Flows
<1>10. CASE MakeDirectory(i)
  <2>1. /\ cpc[i] = "mkdir" /\ cpc'[i] \in {"create", "sendMkdir"}
        /\ UNCHANGED <<store, pend, offer>>
    BY <1>1, <1>10 DEF MakeDirectory, StepTo, PutTypeOK, pipeVars
  <2>2. Flows
    BY <1>2, <1>4, <2>1 DEF Flows, Flowing, Coming, Arrived
  <2> QED
    BY <1>1, <1>3, <1>4, <1>8, <2>1, <2>2 DEF LeftInv
<1>11. CASE CreateFile(i, run)
  <2>1. /\ cpc[i] = "create" /\ InPlace /\ pend' = pend /\ offer' = offer
        /\ \/ cpc'[i] = "copy" /\ store'[i] = EmptyObject(run)
           \/ cpc'[i] = "sendCreate" /\ store' = store
    BY <1>1, <1>11 DEF CreateFile, StepTo, PutTypeOK, PutInv, pipeVars
  <2>2. Flows
    BY <1>2, <1>4, <1>6, <2>1, EmptyFits DEF Flows, Flowing, Coming, Arrived
  <2> QED
    BY <1>1, <1>3, <1>4, <1>8, <2>1, <2>2, EmptyFits, Kinds DEF LeftInv
<1>12. CASE CopyChunk(i)
  <2>1. /\ cpc[i] = "copy" /\ Take(i) /\ cpc' = cpc /\ offer'[i] = NoChunk
        /\ Target(i)' = Received(Target(i), offer[i])
        /\ IF InPlace THEN pend' = pend ELSE store' = store
    BY <1>1, <1>6, <1>12 DEF CopyChunk, PutTypeOK, PipeTypeOK, Take, Target
  <2>2. Flowing(i) /\ offer[i] # NoChunk
    BY <2>1, TakenFlows
  <2>3. Coming(i) = Target(i)' /\ Coming(i)' = Target(i)'
    BY <2>1, <2>2 DEF Coming, Arrived
  <2>4. Flows
    BY <2>1, <2>2, <2>3 DEF Flows
  <2>5. Fits(Target(i)')
    BY <1>1, <2>2, <2>3, ComingFits
  <2> QED
    BY <1>1, <1>3, <1>4, <1>6, <1>8, <2>1, <2>4, <2>5, Kinds DEF LeftInv
<1>13. CASE CopyFails(i)
  <2>1. /\ cpc[i] = "copy" /\ Take(i) /\ cpc'[i] = "sendCopy"
        /\ IF InPlace
           THEN store'[i] \in {store[i], Cut(store[i])} /\ pend' = pend
           ELSE pend'[i] = NoObject /\ store' = store
    BY <1>1, <1>13 DEF CopyFails, StepTo, PutTypeOK
  <2>2. Flowing(i) /\ offer[i] # NoChunk
    BY <2>1, TakenFlows
  <2>3. Target(i) \in Object /\ Fits(Target(i)) /\ ~Target(i).footer
    BY <1>1, <2>1, <2>2, TargetFits, FlowTypes DEF FlowInv
  <2>4. Fits(Cut(Target(i)))
    BY <2>3, CutFits
  <2>5. Flows
    BY <1>9, <2>1 DEF Flowing
  <2> QED
    BY <1>1, <1>3, <1>4, <1>8, <2>1, <2>4, <2>5, Kinds DEF LeftInv, Target
<1>14. CASE ReadEnds(i)
  <2>1. /\ cpc[i] = "copy" /\ UNCHANGED <<store, pend, offer>>
        /\ cpc'[i] = IF ReadError(i) = "eof" THEN "close" ELSE "sendCopy"
    BY <1>1, <1>14 DEF ReadEnds, StepTo, PutTypeOK, pipeVars
  <2>2. ASSUME OnlyWhole, cpc'[i] = "close"
        PROVE  Whole(pend'[i])
    <3>1. ~rclosed[i] /\ werr[i] = "eof"
      BY <2>1, <2>2 DEF ReadError
    <3>2. apc[i] = "done" /\ ~aerr[i] /\ offer[i] = NoChunk
      BY <1>1, <3>1 DEF ArchInv
    <3>3. Flowing(i) /\ Coming(i) = Target(i)
      BY <2>1, <3>1, <3>2 DEF Flowing, Coming, Arrived
    <3>4. Target(i) = Written(i)
      BY <1>1, <3>2, <3>3 DEF FlowInv
    <3>5. Whole(Target(i))
      BY <1>1, <3>2, <3>4, WrittenWhole
    <3> QED
      BY <2>1, <2>2, <3>5, Kinds DEF Target
  <2>3. Flows
    BY <1>9, <2>1 DEF Flowing
  <2> QED
    BY <1>1, <1>3, <1>4, <1>8, <2>1, <2>2, <2>3 DEF LeftInv
<1>15. CASE CloseFile(i) \/ CloseErrCh(i)
  <2>1. cpc'[i] \in {"finish", "sendClose", "done"} /\ UNCHANGED <<store, pend>>
    BY <1>1, <1>15 DEF CloseFile, CloseErrCh, StepTo, PutTypeOK
  <2>2. Flows
    BY <1>9, <2>1 DEF Flowing
  <2> QED
    BY <1>1, <1>3, <1>4, <1>8, <2>1, <2>2 DEF LeftInv
<1>16. CASE Commit(i) \/ CommitFails(i)
  <2>1. /\ cpc[i] = "close" /\ cpc'[i] \in {"finish", "sendClose"} /\ pend' = pend
        /\ store'[i] = store[i] \/ (Present(pend[i]) /\ store'[i] = pend[i])
    BY <1>1, <1>16 DEF Commit, CommitFails, Committable, StepTo, PutTypeOK
  <2>2. Flows
    BY <1>9, <2>1 DEF Flowing
  <2> QED
    BY <1>1, <1>3, <1>4, <1>8, <2>1, <2>2 DEF LeftInv
<1>17. CASE UploadCancelled(i)
  <2>1. cpc'[i] = "sendCopy" /\ store' = store /\ pend'[i] = NoObject
    BY <1>1, <1>17 DEF UploadCancelled, StepTo, PutTypeOK
  <2>2. Flows
    BY <1>9, <2>1 DEF Flowing
  <2> QED
    BY <1>1, <1>3, <1>4, <1>8, <2>1, <2>2 DEF LeftInv
<1> QED
  BY <1>7, <1>10, <1>11, <1>12, <1>13, <1>14, <1>15, <1>16, <1>17 DEF Copy


-----------------------------------------------------------------------------
(* The uploader and the process. *)

(* An uploader step, or a deadline: after a failed MkdirAll the copy may go
   on, and after a failed copy its writer is closed. *)
LEMMA UploaderLeaves ==
    ASSUME LeavingsInv, NEW i \in Mounts, UploaderStep(i) \/ TimeoutStep(i)
    PROVE  \A j \in Mounts : LeftInv(j)'
<1>1. /\ TypeOK /\ LeftInv(i) /\ FlowInv(i) /\ PutTypeOK /\ PipeTypeOK
  BY DEF LeavingsInv, IInv, LeftInv, TypeOK
<1>2. /\ UNCHANGED <<conf, apc, ent, aerr, broken, offer, store, pend, run>>
      /\ \A j \in Mounts \ {i} : rclosed'[j] = rclosed[j] /\ cpc'[j] = cpc[j]
  BY <1>1, UploaderFrame
<1>3. ASSUME NEW j \in Mounts, j # i
      PROVE  LeftInv(j)'
  BY <1>2, <1>3, LeftFrame DEF LeavingsInv
<1>4. CASE ReceiveError(i)
  <2>1. cpc[i] \in Sending /\ cpc'[i] = AfterSend(cpc[i]) /\ rclosed' = rclosed
    BY <1>1, <1>4 DEF ReceiveError, StepTo, PutReturns, pipeVars, PutTypeOK
  <2>2. /\ cpc'[i] \in {"create", "close", "finish"}
        /\ cpc'[i] = "create" => cpc[i] = "sendMkdir"
        /\ cpc'[i] = "close" => CopyGoroutine
    BY <2>1 DEF Sending, AfterSend
  <2>3. /\ OnlyWhole' = OnlyWhole /\ InPlace' = InPlace /\ EmptyObject(run)' = EmptyObject(run)
        /\ \A o : (Fits(o)' <=> Fits(o)) /\ (Whole(o)' <=> Whole(o))
        /\ \A o : Ended(i, o)' <=> Ended(i, o)
        /\ Written(i)' = Written(i)
    BY <1>2 DEF OnlyWhole, InPlace, Fits, Whole, Ended, EmptyObject, Written, Obj
  <2>4. Flowing(i)' => Flowing(i) /\ Coming(i)' = Coming(i)
    BY <1>2, <2>1, <2>2, <2>3 DEF Flowing, Coming, Arrived
  <2>5. FlowInv(i)'
    BY <1>1, <1>2, <2>2, <2>3, <2>4 DEF FlowInv
  <2>6. LeftInv(i)'
    BY <1>1, <1>2, <2>2, <2>3, <2>5, Kinds DEF LeftInv
  <2> QED
    BY <1>3, <2>6
<1>5. CASE ~ReceiveError(i)
  <2>1. cpc' = cpc /\ (rclosed[i] => rclosed'[i])
    BY <1>1, <1>5 DEF UploaderStep, TimeoutStep, Uploader, ReceiveClosed, ReceiveDone,
         CancelContext, ReadStats, CloseReadEnd, CloseReader, AddError, WaitGroupDone, Timeout,
         PutReturns, putVars, pipeVars, PipeTypeOK
  <2>2. LeftInv(i)'
    BY <1>1, <1>2, <2>1, LeftFrame
  <2> QED
    BY <1>3, <2>2
<1> QED
  BY <1>4, <1>5

(* A step of Rebuild: an upload starts with nothing. *)
LEMMA MainLeaves ==
    ASSUME LeavingsInv, MainStep
    PROVE  \A j \in Mounts : LeftInv(j)'
<1>1. TypeOK /\ conf' = conf /\ PutTypeOK /\ ArchTypeOK
  BY DEF LeavingsInv, IInv, MainStep, TypeOK
<1>2. ASSUME NEW i \in Mounts, Override(i) \/ Upload(i)
      PROVE  \A j \in Mounts : LeftInv(j)'
  <2>1. AtMount(i) /\ StartUploader(i)
    BY <1>2 DEF Override, Upload
  <2>2. /\ UNCHANGED <<store, run, offer, rclosed, ent, aerr, broken>>
        /\ \A j \in Mounts \ {i} : apc'[j] = apc[j] /\ pend'[j] = pend[j] /\ cpc'[j] = cpc[j]
        /\ apc'[i] = "entry" /\ cpc'[i] = IF InPlace THEN "mkdir" ELSE "copy"
        /\ pend'[i] = IF InPlace THEN NoObject ELSE EmptyObject(run)
    BY <1>1, <2>1 DEF StartUploader, NextMount, StartArchiver, StartPut, StepTo, pipeVars,
                      PutTypeOK, ArchTypeOK
  <2>3. ASSUME NEW j \in Mounts, j # i
        PROVE  LeftInv(j)'
    BY <1>1, <2>2, <2>3, LeftFrame DEF LeavingsInv
  <2>4. apc[i] = "idle" /\ ent[i] = 0 /\ ~aerr[i] /\ ~broken[i] /\ offer[i] = NoChunk
    <3>1. ArchInv(i) /\ UpInv(i) /\ StoreInv(i) /\ i \in Nat
      BY MountsAssumption DEF LeavingsInv, IInv, MountInv, Mounts
    <3>2. upc[i] = "idle"
      BY <2>1, <3>1 DEF AtMount, StoreInv
    <3> QED
      BY <3>1, <3>2 DEF UpInv, ArchInv
  <2>5. /\ OnlyWhole' = OnlyWhole /\ InPlace' = InPlace /\ EmptyObject(run)' = EmptyObject(run)
        /\ \A o : (Fits(o)' <=> Fits(o)) /\ (Whole(o)' <=> Whole(o))
    BY <1>1, <2>2 DEF OnlyWhole, InPlace, Fits, Whole, EmptyObject
  <2>6. Coming(i)' = EmptyObject(run) /\ Written(i)' = EmptyObject(run)
    BY <2>2, <2>4, <2>5 DEF Coming, Arrived, Target, Written, Obj, EmptyObject
  <2>7. FlowInv(i)'
    BY <2>2, <2>4, <2>6 DEF FlowInv
  <2>8. LeftInv(i)'
    BY <2>2, <2>5, <2>7, EmptyFits DEF LeavingsInv, LeftInv
  <2> QED
    BY <2>3, <2>8
<1>3. CASE ~\E i \in Mounts : Override(i) \/ Upload(i)
  <2>1. UNCHANGED <<pipeVars, archVars, putVars, run>>
    BY <1>3 DEF MainStep, Main, SourceMissing, Skip, ExistsFails, WaitAndReturn, Return,
                NextMount
  <2> QED
    BY <1>1, <2>1, LeftFrame DEF LeavingsInv, pipeVars, archVars, putVars
<1> QED
  BY <1>2, <1>3

(* The end of the process, and the next one. *)
LEMMA ProcessLeaves ==
    ASSUME LeavingsInv, Exit \/ StartRun \/ NoMoreRuns \/ UNCHANGED vars
    PROVE  \A j \in Mounts : LeftInv(j)'
<1>1. CASE Exit
  <2>1. conf' = conf /\ store' = store
    BY <1>1 DEF Exit
  <2>2. ASSUME NEW j \in Mounts
        PROVE  LeftInv(j)'
    <3>1. pend'[j] = NoObject /\ cpc'[j] = "idle"
      BY <1>1 DEF Exit, AtAll
    <3>2. FlowInv(j)'
      BY <3>1 DEF FlowInv, Flowing
    <3> QED
      BY <2>1, <3>1, <3>2 DEF LeavingsInv, LeftInv, Fits, Whole, OnlyWhole
  <2> QED
    BY <2>2
<1>2. CASE StartRun
  <2>1. UNCHANGED <<conf, pipeVars, archVars, putVars>> /\ mpc = "exited"
    BY <1>2 DEF StartRun, Alive, LeavingsInv, IInv, TypeOK
  <2>2. ASSUME NEW j \in Mounts
        PROVE  ~Flowing(j)
    BY <2>1 DEF LeavingsInv, IInv, MainInv, MountInv, UpInv, Flowing
  <2> QED
    BY <2>1, <2>2, LeftFrame DEF LeavingsInv, pipeVars, archVars, putVars
<1>3. CASE UNCHANGED vars
  BY <1>3, LeftFrame DEF LeavingsInv, vars, pipeVars, archVars, putVars, mainVars
<1> QED
  BY <1>1, <1>2, <1>3 DEF NoMoreRuns

-----------------------------------------------------------------------------
(* The theorems. *)

LEMMA LeavingsInit == Init => LeavingsInv
<1> SUFFICES ASSUME Init PROVE LeavingsInv
  OBVIOUS
<1>1. ASSUME NEW j \in Mounts
      PROVE  LeftInv(j)
  <2>1. store[j] = NoObject /\ pend[j] = NoObject /\ cpc[j] = "idle"
    BY DEF Init, ProcessInit, PutInit, AtAll
  <2> QED
    BY <2>1 DEF LeftInv, FlowInv, Flowing
<1> QED
  BY <1>1, InvInit DEF LeavingsInv

LEMMA LeavingsNext == LeavingsInv /\ [Next]_vars => LeavingsInv'
<1> SUFFICES ASSUME LeavingsInv, [Next]_vars PROVE LeavingsInv'
  OBVIOUS
<1>1. IInv'
  BY InvNext DEF LeavingsInv
<1>2. \A j \in Mounts : LeftInv(j)'
  BY ArchiverLeaves, CopyLeaves, UploaderLeaves, MainLeaves, ProcessLeaves DEF Next
<1> QED
  BY <1>1, <1>2 DEF LeavingsInv

(* In every run of Rebuilder what is in storage and what is on its way there
   fits together, also after a Put has returned and left its goroutine
   behind. *)
THEOREM LeavingsInvariance == Spec => []LeavingsInv
BY LeavingsInit, LeavingsNext, PTL DEF Spec

LEMMA InvLeavesObjects == LeavingsInv => ObjectsLeft
<1> SUFFICES ASSUME LeavingsInv, NEW i \in Mounts
             PROVE  store[i] \in Leavings(store[i].ver, FilesMayShrink)
  BY DEF ObjectsLeft
<1>1. LeftInv(i) /\ store[i] \in Object
  BY DEF LeavingsInv, IInv, TypeOK, PutTypeOK
<1>2. CASE store[i] = NoObject
  BY <1>2 DEF Leavings
<1>3. CASE store[i] # NoObject
  BY <1>1, <1>3, FitsIsLeft DEF LeftInv
<1> QED
  BY <1>2, <1>3

(* Whatever becomes of the runs, and of the copies that outlive their Put,
   storage holds nothing but the objects StoredObjects lists. *)
THEOREM ObjectsLeftAlways == Spec => []ObjectsLeft
BY LeavingsInvariance, InvLeavesObjects, PTL

-----------------------------------------------------------------------------
(* The abstract cache. *)

(* The configurations of the theorem: an object is committed in one step, and
   no file shrinks while it is archived. *)
CommittedAtOnce ==
    /\ \A c \in Configs : c.kind \in {"azure", "s3"}
    /\ ~FilesMayShrink

(* So storage holds whole archives only ... *)
LEMMA StoredIsArchive ==
    ASSUME CommittedAtOnce, LeavingsInv, NEW i \in Mounts
    PROVE  /\ store[i] = NoObject \/ Complete(store[i], conf.gzip)
           /\ ArchiveOf(store[i]) = IF Present(store[i]) THEN store[i].ver ELSE 0
<1>1. OnlyWhole /\ ~FilesMayShrink
  BY DEF CommittedAtOnce, LeavingsInv, IInv, TypeOK, OnlyWhole
<1>2. store[i] = NoObject \/ Complete(store[i], conf.gzip)
  BY <1>1 DEF LeavingsInv, LeftInv, Whole
<1> QED
  BY <1>2, NewObjectType DEF ArchiveOf, Complete

(* ... and a copy that changes it publishes the archive of its run. *)
LEMMA CopyPublishes ==
    ASSUME CommittedAtOnce, LeavingsInv, LeavingsInv', NEW i \in Mounts, CopyStep(i)
    PROVE  Cache!Publish(i) \/ UNCHANGED Cache!cacheVars
<1>1. /\ TypeOK /\ PutInv(i) /\ UpInv(i) /\ StoreInv(i) /\ PutTypeOK /\ run \in Nat
  BY RunsAssumption DEF LeavingsInv, IInv, MountInv, TypeOK, Runs
<1>2. /\ UNCHANGED <<conf, run, outcome, upc>>
      /\ cpc[i] \notin {"idle", "done"}
      /\ store'[i] = store[i] \/ store'[i].ver = run
      /\ \A j \in Mounts \ {i} : store'[j] = store[j]
  BY <1>1, CopyFrame
<1>3. store' \in [Mounts -> Object]
  BY DEF LeavingsInv, IInv, TypeOK, PutTypeOK
<1> DEFINE cached == [j \in Mounts |-> ArchiveOf(store[j])]
<1>4. \A j \in Mounts \ {i} : ArchiveOf(store[j])' = ArchiveOf(store[j])
  BY <1>2 DEF ArchiveOf
<1>5. CASE store'[i] = store[i]
  <2>1. cached' = cached
    BY <1>2, <1>4, <1>5 DEF ArchiveOf
  <2> QED
    BY <1>2, <2>1 DEF Cache!cacheVars
<1>6. CASE store'[i] # store[i]
  <2>1. store'[i].ver = run /\ run # 0
    BY <1>1, <1>2, <1>6, RunsAssumption DEF TypeOK, Runs
  <2>2. Present(store'[i]) /\ Complete(store'[i], conf.gzip)
    <3>1. OnlyWhole /\ ~FilesMayShrink /\ OnlyWhole' = OnlyWhole
      BY <1>1, <1>2 DEF CommittedAtOnce, TypeOK, OnlyWhole
    <3>2. store'[i] = NoObject \/ Complete(store'[i], conf.gzip)
      BY <1>2, <3>1 DEF LeavingsInv, LeftInv, Whole
    <3> QED
      BY <2>1, <3>2 DEF NoObject, Complete, Present
  <2>3. ArchiveOf(store[i])' = run
    BY <1>2, <2>1, <2>2 DEF ArchiveOf
  <2>4. cached' = [cached EXCEPT ![i] = run]
    BY <1>4, <2>3
  <2>5. outcome[run] # "ok"
    BY <1>2 DEF LeavingsInv, IInv, QuietInv, OkMeansCached
  <2>6. CASE conf.override \/ ~Present(store[i])
    <3>1. conf.override \/ cached[i] = 0
      BY <2>6 DEF ArchiveOf
    <3>2. run \notin {r \in Runs : outcome[r] = "ok"}
      BY <2>5
    <3> QED
      BY <1>2, <2>4, <3>1, <3>2 DEF Cache!Publish
  <2>7. CASE ~conf.override /\ Present(store[i])
    <3>1. upc[i] # "idle"
      BY <1>1, <1>2 DEF UpInv
    <3>2. store[i].ver = run
      BY <1>1, <2>7, <3>1 DEF StoreInv
    <3>3. cached[i] = run
      BY <2>7, <3>2, StoredIsArchive
    <3>4. cached' = cached
      BY <2>4, <3>3
    <3> QED
      BY <1>2, <3>4 DEF Cache!cacheVars
  <2> QED
    BY <2>6, <2>7
<1> QED
  BY <1>5, <1>6


(* A run that reports success has all its mounts in the cache. *)
LEMMA MainSucceeds ==
    ASSUME CommittedAtOnce, LeavingsInv, LeavingsInv', MainStep
    PROVE  Cache!Succeed \/ UNCHANGED Cache!cacheVars
<1>1. TypeOK /\ TypeOK' /\ run \in Runs /\ outcome \in [Runs -> {"none", "ok", "err"}]
  BY DEF LeavingsInv, IInv, TypeOK
<1>2. UNCHANGED <<conf, store, run>>
  BY DEF MainStep, Main, SourceMissing, Override, Skip, Upload, ExistsFails, WaitAndReturn,
         StartUploader, StartPut, NextMount, Return, putVars
<1>3. [i \in Mounts |-> ArchiveOf(store[i])]' = [i \in Mounts |-> ArchiveOf(store[i])]
  BY <1>2 DEF ArchiveOf
<1>4. CASE outcome' = outcome
  BY <1>2, <1>3, <1>4 DEF Cache!cacheVars
<1>5. CASE outcome' # outcome
  <2>1. PICK res \in {"ok", "err"} : Return(res) /\ mpc = "loop"
    BY <1>5 DEF MainStep, Main, SourceMissing, Override, Skip, Upload, ExistsFails,
                WaitAndReturn, StartUploader, NextMount, AtMount
  <2>2. outcome[run] = "none" /\ outcome' = [outcome EXCEPT ![run] = res]
    BY <2>1 DEF Return, LeavingsInv, IInv, MainInv
  <2>3. \A r \in Runs : outcome'[r] = "ok" <=> outcome[r] = "ok" \/ (r = run /\ res = "ok")
    BY <1>1, <2>2
  <2>4. CASE res = "err"
    <3>1. {r \in Runs : outcome[r] = "ok"}' = {r \in Runs : outcome[r] = "ok"}
      BY <2>3, <2>4
    <3> QED
      BY <1>2, <1>3, <3>1 DEF Cache!cacheVars
  <2>5. CASE res = "ok"
    <3>1. {r \in Runs : outcome[r] = "ok"}' = {r \in Runs : outcome[r] = "ok"} \cup {run}
      BY <1>1, <2>3, <2>5
    <3>2. ASSUME NEW i \in Mounts
          PROVE  /\ ArchiveOf(store[i]) # 0
                 /\ conf.override => ArchiveOf(store[i]) = run
      <4>1. outcome'[run'] = "ok"
        BY <1>1, <1>2, <2>2, <2>5
      <4>2. Present(store[i]) /\ (conf.override => store[i].ver = run)
        BY <1>2, <4>1 DEF LeavingsInv, IInv, QuietInv, OkMeansCached
      <4>3. ArchiveOf(store[i]) = store[i].ver
        BY <4>2, StoredIsArchive
      <4>4. store[i].ver \in 1..run
        BY <4>2 DEF LeavingsInv, IInv, MountInv, StoreInv
      <4> QED
        BY <4>2, <4>3, <4>4
    <3> QED
      BY <1>2, <1>3, <3>1, <3>2 DEF Cache!Succeed
  <2> QED
    BY <2>4, <2>5
<1> QED
  BY <1>4, <1>5

LEMMA CacheStep ==
    ASSUME CommittedAtOnce, LeavingsInv, LeavingsInv', [Next]_vars
    PROVE  [Cache!CacheNext]_Cache!cacheVars
<1>1. ASSUME UNCHANGED <<conf, store, run, outcome>>
      PROVE  UNCHANGED Cache!cacheVars
  <2>1. [i \in Mounts |-> ArchiveOf(store[i])]' = [i \in Mounts |-> ArchiveOf(store[i])]
    BY <1>1 DEF ArchiveOf
  <2> QED
    BY <1>1, <2>1 DEF Cache!cacheVars
<1>2. TypeOK
  BY DEF LeavingsInv, IInv
<1>3. CASE MainStep
  BY <1>3, MainSucceeds DEF Cache!CacheNext
<1>4. ASSUME NEW i \in Mounts, CopyStep(i)
      PROVE  [Cache!CacheNext]_Cache!cacheVars
  BY <1>4, CopyPublishes DEF Cache!CacheNext
<1>5. ASSUME NEW i \in Mounts, ArchiverStep(i) \/ UploaderStep(i) \/ TimeoutStep(i)
      PROVE  [Cache!CacheNext]_Cache!cacheVars
  BY <1>1, <1>2, <1>5, ArchiverFrame, UploaderFrame
<1>6. CASE Exit \/ NoMoreRuns \/ UNCHANGED vars
  BY <1>1, <1>6 DEF Exit, NoMoreRuns, vars, mainVars, putVars
<1>7. CASE StartRun
  <2>1. UNCHANGED <<conf, store, outcome>> /\ run < MaxRuns /\ run' = run + 1
    BY <1>7 DEF StartRun, putVars
  <2>2. [i \in Mounts |-> ArchiveOf(store[i])]' = [i \in Mounts |-> ArchiveOf(store[i])]
    BY <2>1 DEF ArchiveOf
  <2> QED
    BY <2>1, <2>2 DEF Cache!CacheNext, Cache!NextRun
<1> QED
  BY <1>3, <1>4, <1>5, <1>6, <1>7 DEF Next

LEMMA CacheStart ==
    ASSUME Init
    PROVE  Cache!CacheInit
<1>1. conf \in Config /\ run = 1 /\ store = AtAll(NoObject) /\ outcome = [r \in Runs |-> "none"]
  BY ConfigsAssumption DEF Init
<1>2. [i \in Mounts |-> ArchiveOf(store[i])] = [i \in Mounts |-> 0]
  BY <1>1, NewObjectType DEF ArchiveOf, AtAll
<1>3. {r \in Runs : outcome[r] = "ok"} = {}
  BY <1>1
<1> QED
  BY <1>1, <1>2, <1>3 DEF Cache!CacheInit, Config

(* With s3 and azure the runs of Rebuilder are a cache in which archives
   appear in one step, whole, are left alone without override, and are there
   when a run has said so: for any number of mounts, entries and runs. *)
THEOREM ImplementsCacheAlways ==
    ASSUME CommittedAtOnce
    PROVE  Spec => ImplementsCache
<1>1. Init => Cache!CacheInit
  BY CacheStart
<1>2. LeavingsInv /\ LeavingsInv' /\ [Next]_vars => [Cache!CacheNext]_Cache!cacheVars
  BY CacheStep
<1> QED
  BY <1>1, <1>2, LeavingsInvariance, PTL DEF Spec, ImplementsCache, Cache!CacheSpec
=============================================================================
