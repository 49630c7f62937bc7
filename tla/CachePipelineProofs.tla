------------------------ MODULE CachePipelineProofs -------------------------
(***************************************************************************)
(* A restore next to rebuilds implements SharedCache where an object is    *)
(* committed in one step, and builds in which nothing fails bring back     *)
(* what they have archived; from the invariants of Rebuilder (LeavingsInv) *)
(* and of Restorer (ProcessInv, RestoresInv), for any number of mounts,    *)
(* entries and runs.                                                       *)
(***************************************************************************)
EXTENDS CachePipeline, RebuilderProofs

(* What is proved of Restorer, for the restore of the pipeline. *)
RP == INSTANCE RestorerProofs WITH offer <- roffer, rclosed <- rrclosed, werr <- rwerr

-----------------------------------------------------------------------------
(* The actions of the restore of the pipeline are those the lemmas of RP are
   about. *)

LEMMA SameGetCopy ==
    ASSUME NEW i \in Mounts, R!GetCopyStep(i)
    PROVE  RP!GetCopyStep(i)
BY DEF R!GetCopyStep, RP!GetCopyStep, R!GetCopy, RP!GetCopy,
       R!OpenObject, RP!OpenObject, R!OpenFails, RP!OpenFails, R!ReadChunk, RP!ReadChunk,
       R!ReadFails, RP!ReadFails, R!WriteToPipeFails, RP!WriteToPipeFails, R!CopyEnds, RP!CopyEnds,
       R!CloseGetErrCh, RP!CloseGetErrCh, R!Copying, RP!Copying, R!AtEnd, RP!AtEnd,
       R!Closed, RP!Closed, R!Offer, RP!Offer, R!GetTo, RP!GetTo, R!Contents, RP!Contents,
       R!InPlace, RP!InPlace, R!Present, RP!Present, R!NoChunk, RP!NoChunk,
       R!pipeVars, RP!pipeVars, R!extVars, RP!extVars, R!downVars, RP!downVars,
       R!workVars, RP!workVars, R!loopVars, RP!loopVars

LEMMA SameExtract ==
    ASSUME NEW i \in Mounts, R!ExtractStep(i)
    PROVE  RP!ExtractStep(i)
BY DEF R!ExtractStep, RP!ExtractStep, R!Extract, RP!Extract,
       R!NextHeader, RP!NextHeader, R!NextUnreadable, RP!NextUnreadable,
       R!NextTrailer, RP!NextTrailer, R!CreateEntry, RP!CreateEntry,
       R!CreateEntryFails, RP!CreateEntryFails, R!CopyBody, RP!CopyBody,
       R!CopyBodyFails, RP!CopyBodyFails, R!StreamEnds, RP!StreamEnds,
       R!EndsHere, RP!EndsHere, R!ReadError, RP!ReadError, R!SetHere, RP!SetHere,
       R!Here, RP!Here, R!ExtractReturns, RP!ExtractReturns, R!ExtTo, RP!ExtTo,
       R!Take, RP!Take, R!Closed, RP!Closed, R!NoChunk, RP!NoChunk,
       R!pipeVars, RP!pipeVars, R!getVars, RP!getVars, R!downVars, RP!downVars,
       R!workVars, RP!workVars, R!loopVars, RP!loopVars

LEMMA SameDownload ==
    ASSUME NEW i \in Mounts, R!Download(i)
    PROVE  RP!Download(i)
BY DEF R!Download, RP!Download, R!ReceiveGetError, RP!ReceiveGetError,
       R!ReceiveGetClosed, RP!ReceiveGetClosed, R!ReceiveGetDone, RP!ReceiveGetDone,
       R!CancelGet, RP!CancelGet, R!FailPipe, RP!FailPipe, R!ClosePipeDown, RP!ClosePipeDown,
       R!GetReturns, RP!GetReturns, R!GetTo, RP!GetTo, R!DownTo, RP!DownTo,
       R!CloseWriter, RP!CloseWriter, R!GetSending, RP!GetSending,
       R!pipeVars, RP!pipeVars, R!getVars, RP!getVars, R!extVars, RP!extVars,
       R!workVars, RP!workVars, R!loopVars, RP!loopVars

LEMMA SameWork ==
    ASSUME NEW i \in Mounts, R!Work(i)
    PROVE  RP!Work(i)
BY DEF R!Work, RP!Work, R!CloseRead, RP!CloseRead, R!AddRestoreError, RP!AddRestoreError,
       R!WorkerDone, RP!WorkerDone, R!CloseReader, RP!CloseReader, R!ExtTo, RP!ExtTo,
       R!WorkTo, RP!WorkTo,
       R!pipeVars, RP!pipeVars, R!getVars, RP!getVars, R!extVars, RP!extVars,
       R!downVars, RP!downVars, R!loopVars, RP!loopVars

LEMMA SameLoop ==
    ASSUME R!Loop
    PROVE  RP!Loop
BY DEF R!Loop, RP!Loop, R!StartWorker, RP!StartWorker, R!WaitForWorkers, RP!WaitForWorkers,
       R!StartGet, RP!StartGet, R!StartExtract, RP!StartExtract, R!Mounts, RP!Mounts,
       R!pipeVars, RP!pipeVars, R!getVars, RP!getVars, R!extVars, RP!extVars,
       R!downVars, RP!downVars, R!workVars, RP!workVars

LEMMA SameExit ==
    ASSUME R!RestoreExit
    PROVE  RP!RestoreExit
BY DEF R!RestoreExit, RP!RestoreExit, R!AtAll, RP!AtAll, R!Mounts, RP!Mounts,
       R!NoChunk, RP!NoChunk, R!NoObject, RP!NoObject

(* A step of the restore of the pipeline is one of Restorer. *)
LEMMA SameStep ==
    ASSUME R!HealthyRestoreStep, UNCHANGED vars
    PROVE  RP!RestoreNext /\ RP!RestoreStep
<1>1. RP!Running /\ R!Mounts = Mounts /\ RP!Mounts = Mounts
  BY DEF R!HealthyRestoreStep, R!Running, RP!Running, R!Mounts, RP!Mounts, Mounts
<1>2. UNCHANGED <<conf, store>>
  BY DEF vars, putVars
<1>3. CASE R!Loop
  BY <1>1, <1>2, <1>3, SameLoop DEF RP!RestoreNext, RP!RestoreStep
<1>4. CASE R!RestoreExit
  BY <1>1, <1>2, <1>4, SameExit DEF RP!RestoreNext, RP!RestoreStep
<1>5. ASSUME NEW i \in Mounts,
             R!GetCopyStep(i) \/ R!ExtractStep(i) \/ R!Download(i) \/ R!Work(i)
      PROVE  RP!RestoreNext /\ RP!RestoreStep
  BY <1>1, <1>2, <1>5, SameGetCopy, SameExtract, SameDownload, SameWork
     DEF RP!RestoreNext, RP!RestoreStep
<1> QED
  BY <1>1, <1>3, <1>4, <1>5 DEF R!HealthyRestoreStep, R!HealthyGetCopy, R!HealthyExtract

LEMMA SameBegin ==
    ASSUME R!RestoreInit
    PROVE  RP!RestoreInit
BY DEF R!RestoreInit, RP!RestoreInit, R!PipeInit, RP!PipeInit, R!GetInit, RP!GetInit,
       R!ExtInit, RP!ExtInit, R!AtAll, RP!AtAll, R!Mounts, RP!Mounts, R!NoChunk, RP!NoChunk,
       R!NoObject, RP!NoObject

-----------------------------------------------------------------------------
(* The lemmas of RestorerProofs that are needed here, and the assumptions they
   rest on. *)

LEMMA PipelineAssumptions ==
    /\ Configs \subseteq RP!Config /\ FoundFiles \subseteq RP!Before
    /\ NumMounts \in Nat /\ NumEntries \in Nat \ {0}
<1>1. Configs \subseteq RP!Config
  BY ConfigsAssumption DEF RP!Config, Config, Backends, RP!Backends
<1>2. FoundFiles \subseteq RP!Before
  BY FoundAssumption DEF RP!Before, R!Before
<1> QED
  BY <1>1, <1>2, MountsAssumption, EntriesAssumption

LEMMA RestoreKeeps ==
    ASSUME RP!ProcessInv, RP!RestoreNext
    PROVE  RP!ProcessInv'
BY PipelineAssumptions, RP!NextKeeps

LEMMA RestoreIsQuiet ==
    ASSUME RP!ProcessInv, RP!RestoreNext, rpc # "loop"
    PROVE  UNCHANGED local
BY PipelineAssumptions, RP!ReturnIsQuiet

LEMMA RestoreResultStays ==
    ASSUME RP!RestoreNext, ~RP!WaitForWorkers
    PROVE  rres' = rres
BY PipelineAssumptions, RP!ResultStays

LEMMA RestoreExtracts ==
    ASSUME RP!ProcessInv, RP!RestoreNext, RP!WaitForWorkers, rres' = "ok", NEW i \in Mounts
    PROVE  RP!Running' /\ RP!AllExtracted(i)'
<1>1. i \in RP!Mounts
  BY DEF Mounts, RP!Mounts
<1> QED
  BY <1>1, PipelineAssumptions, RP!OkExtracts

LEMMA RestoreUnderWrites ==
    ASSUME RP!ProcessInv, UNCHANGED <<conf, restoreVars>>, store' \in [Mounts -> Object],
           \A i \in Mounts : RP!Left(store[i])'
    PROVE  RP!ProcessInv'
<1>1. UNCHANGED <<conf, RP!restoreVars>>
  BY DEF restoreVars, RP!restoreVars, RP!pipeVars, RP!getVars, RP!extVars, RP!downVars,
         RP!workVars, RP!loopVars
<1>2. RP!Mounts = Mounts /\ RP!Object = Object
  BY DEF Mounts, RP!Mounts, Object, RP!Object
<1> QED
  BY <1>1, <1>2, PipelineAssumptions, RP!StorageMayChange

(* What the rebuilds leave is what Restorer takes for granted. *)
LEMMA LeavingsAreLeft ==
    ASSUME NEW o, NEW v, o \in Leavings(v, FilesMayShrink)
    PROVE  o \in RP!Leavings(v, TRUE)
BY ShrinkAssumption
   DEF Leavings, RP!Leavings, NoObject, RP!NoObject, OnlyWhole, RP!OnlyWhole,
       Complete, RP!Complete, Shrunk, RP!Shrunk, Present, RP!Present

-----------------------------------------------------------------------------
(* A restore next to rebuilds, where an object is committed in one step. *)

(* What the restore has opened is a whole archive. *)
FetchInv ==
    /\ RP!ProcessInv
    /\ \A i \in Mounts :
        opened[i] = NoObject \/ (Complete(opened[i], conf.gzip) /\ opened[i].ver \in Runs)

(* The steps of the restore that show in SharedCache. *)
LEMMA OnlyOpenOpens ==
    ASSUME NEW i \in Mounts, R!HealthyRestoreStep, ~R!RestoreExit,
           opened \in [Mounts -> Object], opened'[i] # opened[i]
    PROVE  /\ gpc[i] = "open" /\ Present(store[i])
           /\ opened' = [opened EXCEPT ![i] = store[i]]
           /\ UNCHANGED <<local, rres>>
<1>1. ~R!Loop
  BY DEF R!Loop, R!StartWorker, R!StartGet, R!WaitForWorkers, R!getVars
<1>2. PICK j \in R!Mounts : R!GetCopyStep(j) \/ R!ExtractStep(j) \/ R!Download(j) \/ R!Work(j)
  BY <1>1 DEF R!HealthyRestoreStep, R!HealthyGetCopy, R!HealthyExtract
<1>3. ~R!ExtractStep(j) /\ ~R!Work(j)
  BY DEF R!ExtractStep, R!Work, R!getVars
<1>4. ~R!Download(j)
  BY DEF R!Download, R!ReceiveGetError, R!ReceiveGetClosed, R!ReceiveGetDone, R!CancelGet,
         R!FailPipe, R!ClosePipeDown, R!GetReturns, R!getVars
<1>5. R!OpenObject(j)
  BY <1>2, <1>3, <1>4
     DEF R!GetCopyStep, R!GetCopy, R!OpenFails, R!ReadChunk, R!ReadFails, R!WriteToPipeFails,
         R!CopyEnds, R!CloseGetErrCh
<1>6. gpc[j] = "open" /\ Present(store[j]) /\ opened' = [opened EXCEPT ![j] = store[j]]
  BY <1>5 DEF R!OpenObject, R!Present, Present
<1>7. j = i
  BY <1>6
<1>8. UNCHANGED <<local, rres>>
  BY <1>2, <1>3, <1>4 DEF R!GetCopyStep, R!extVars, R!loopVars
<1> QED
  BY <1>6, <1>7, <1>8

(* What the types of Restorer say in terms of the pipeline. *)
LEMMA RestoreTypes ==
    ASSUME RP!ProcessInv
    PROVE  /\ opened \in [Mounts -> Object]
           /\ rpc = "loop" => rres = "none"
           /\ \A i \in Mounts : rpc # "exited" /\ gpc[i] = "open" => opened[i] = NoObject
<1>1. RP!RestoreTypeOK /\ RP!LoopInv
  BY DEF RP!ProcessInv
<1>2. opened \in [Mounts -> Object]
  BY <1>1 DEF RP!RestoreTypeOK, RP!GetTypeOK, RP!Mounts, RP!Object, Mounts, Object
<1>3. ASSUME NEW i \in Mounts, rpc # "exited", gpc[i] = "open"
      PROVE  opened[i] = NoObject
  <2>1. i \in RP!Mounts
    BY DEF Mounts, RP!Mounts
  <2>2. IF i < next THEN RP!Started(i) ELSE RP!Fresh(i)
    BY <1>3, <2>1 DEF RP!ProcessInv, RP!Running
  <2>3. RP!Started(i)
    BY <1>3, <2>2 DEF RP!Fresh
  <2> QED
    BY <1>3, <2>3 DEF RP!Started, RP!CopyInv, RP!NoObject, NoObject
<1> QED
  BY <1>1, <1>2, <1>3 DEF RP!LoopInv

LEMMA FetchStart ==
    ASSUME PipelineInit
    PROVE  FetchInv
<1>1. /\ conf \in Configs /\ store = AtAll(NoObject) /\ opened = AtAll(NoObject)
  BY DEF PipelineInit, Init, R!RestoreInit, R!GetInit, R!AtAll, R!Mounts, R!NoObject, AtAll,
         Mounts, NoObject
<1>2. RP!RestoreInit
  BY SameBegin DEF PipelineInit
<1>3. store \in [RP!Mounts -> RP!Object] /\ \A i \in RP!Mounts : RP!Left(store[i])
  BY <1>1, NewObjectType
     DEF AtAll, Mounts, RP!Mounts, Object, RP!Object, RP!Left, RP!Leavings, NoObject, RP!NoObject
<1>4. RP!ProcessInv
  BY <1>1, <1>2, <1>3, PipelineAssumptions, RP!ProcessBegins
<1> QED
  BY <1>1, <1>4 DEF FetchInv, AtAll

LEMMA FetchNext ==
    ASSUME CommittedAtOnce, LeavingsInv, LeavingsInv', ObjectsLeft', FetchInv,
           [QuietRestoreNext]_pipelineVars
    PROVE  FetchInv'
<1>1. CASE UNCHANGED restoreVars /\ [Next]_vars
  <2>1. conf' = conf /\ opened' = opened
    BY <1>1 DEF restoreVars, Next, MainStep, ArchiverStep, CopyStep, UploaderStep, TimeoutStep,
                Exit, StartRun, NoMoreRuns, vars
  <2>2. store' \in [Mounts -> Object]
    BY DEF LeavingsInv, IInv, TypeOK, PutTypeOK
  <2>3. ASSUME NEW i \in Mounts
        PROVE  RP!Left(store[i])'
    <3>1. store'[i] \in Leavings(store'[i].ver, FilesMayShrink)
      BY <2>1 DEF ObjectsLeft, Leavings, OnlyWhole
    <3>2. store'[i] \in RP!Leavings(store'[i].ver, TRUE)
      BY <3>1, LeavingsAreLeft
    <3> QED
      BY <2>1, <3>2 DEF RP!Left, RP!Leavings, RP!OnlyWhole
  <2>4. RP!ProcessInv'
    BY <1>1, <2>1, <2>2, <2>3, RestoreUnderWrites DEF FetchInv
  <2> QED
    BY <2>1, <2>4 DEF FetchInv
<1>2. CASE R!HealthyRestoreStep /\ UNCHANGED vars
  <2>1. RP!RestoreNext /\ conf' = conf /\ RP!ProcessInv /\ opened \in [Mounts -> Object]
    <3>1. RP!RestoreNext
      BY <1>2, SameStep
    <3>2. conf' = conf
      BY <1>2 DEF vars
    <3>3. RP!ProcessInv
      BY DEF FetchInv
    <3> QED
      BY <3>1, <3>2, <3>3, RestoreTypes
  <2>2. RP!ProcessInv'
    BY <2>1, RestoreKeeps
  <2>3. ASSUME NEW i \in Mounts
        PROVE  opened'[i] = NoObject \/ (Complete(opened'[i], conf.gzip) /\ opened'[i].ver \in Runs)
    <3>1. CASE R!RestoreExit
      BY <3>1 DEF R!RestoreExit, R!AtAll, R!Mounts, R!NoObject, Mounts, NoObject
    <3>2. CASE opened'[i] = opened[i]
      BY <3>2 DEF FetchInv
    <3>3. CASE ~R!RestoreExit /\ opened'[i] # opened[i]
      <4>1. opened'[i] = store[i] /\ Present(store[i])
        BY <1>2, <2>1, <3>3, OnlyOpenOpens
      <4>2. store[i].ver \in 1..run /\ run \in Runs
        BY <4>1 DEF LeavingsInv, IInv, TypeOK, MountInv, StoreInv
      <4>3. store[i].ver \in Runs
        BY <4>2, RunsAssumption DEF Runs
      <4> QED
        BY <4>1, <4>3, StoredIsArchive
    <3> QED
      BY <3>1, <3>2, <3>3
  <2> QED
    BY <2>1, <2>2, <2>3 DEF FetchInv
<1> QED
  BY <1>1, <1>2 DEF QuietRestoreNext, RebuildStep, pipelineVars

(* What is on disk changes for SharedCache only when Restore returns. *)
LEMMA DiskStays ==
    ASSUME RP!ProcessInv, RP!RestoreNext, ~RP!WaitForWorkers, NEW i \in Mounts
    PROVE  OnDisk(i)' = OnDisk(i)
<1>1. rres' = rres
  BY RestoreResultStays
<1>2. CASE rres # "ok"
  BY <1>1, <1>2 DEF OnDisk
<1>3. CASE rres = "ok"
  <2>1. rpc # "loop"
    BY <1>3, RestoreTypes
  <2>2. local' = local
    BY <2>1, RestoreIsQuiet
  <2> QED
    BY <1>1, <2>2 DEF OnDisk, R!InPlaceFrom
<1> QED
  BY <1>2, <1>3

LEMMA OpenedIsArchive ==
    ASSUME NEW o, o = NoObject \/ (Complete(o, conf.gzip) /\ o.ver \in Runs)
    PROVE  /\ ArchiveOf(o) = (IF Present(o) THEN o.ver ELSE 0)
           /\ Present(o) => ArchiveOf(o) \in Runs /\ ArchiveOf(o) # 0
<1>1. 0 \notin Runs
  BY RunsAssumption DEF Runs
<1> QED
  BY <1>1 DEF ArchiveOf, Present, Complete, NoObject

(* A restore that succeeds has put on disk what it has opened. *)
LEMMA RestoreDelivers ==
    ASSUME FetchInv, FetchInv', RP!RestoreNext, RP!WaitForWorkers, rres' = "ok", NEW i \in Mounts
    PROVE  ArchiveOf(opened[i]) # 0 /\ OnDisk(i)' = ArchiveOf(opened[i])
<1>1. RP!AllExtracted(i)' /\ opened' = opened /\ conf' = conf
  <2>1. RP!ProcessInv
    BY DEF FetchInv
  <2>2. RP!AllExtracted(i)'
    BY <2>1, RestoreExtracts
  <2> QED
    BY <2>2 DEF RP!WaitForWorkers, RP!getVars, RP!RestoreNext
<1>2. opened[i].end # "absent"
  BY <1>1 DEF RP!AllExtracted
<1>3. Complete(opened[i], conf.gzip) /\ opened[i].ver \in Runs
  BY <1>2 DEF FetchInv, NoObject
<1>4. ArchiveOf(opened[i]) = opened[i].ver /\ opened[i].ver # 0
  BY <1>2, <1>3, OpenedIsArchive DEF Present
<1>5. \A k \in 1..NumEntries : local'[i][k] \in [ver: {opened[i].ver}, state: {"extracted", "tail"}]
  <2>1. opened[i].entries = NumEntries
    BY <1>3 DEF Complete
  <2>2. \A k \in 1..NumEntries : k <= NumEntries
    BY EntriesAssumption
  <2> QED
    BY <1>1, <2>1, <2>2 DEF RP!AllExtracted, RP!InPlaceFrom
<1>6. \E v \in Runs : \A k \in 1..NumEntries : R!InPlaceFrom(v, i, k)'
  BY <1>3, <1>5 DEF R!InPlaceFrom
<1>7. local'[i][1].ver = opened[i].ver
  BY <1>5, EntriesAssumption
<1> QED
  BY <1>4, <1>6, <1>7 DEF OnDisk

(* The steps of the rebuilds are the same for both abstract caches. *)
LEMMA SameCacheStep ==
    ASSUME [Cache!CacheNext]_Cache!cacheVars
    PROVE  [Shared!CacheNext]_Shared!cacheVars
BY DEF Cache!CacheNext, Shared!CacheNext, Cache!cacheVars, Shared!cacheVars,
       Cache!Publish, Shared!Publish, Cache!Succeed, Shared!Succeed, Cache!NextRun, Shared!NextRun

(* A step of the restore fetches, delivers, forgets, or does not show. *)
LEMMA RestoreShows ==
    ASSUME CommittedAtOnce, LeavingsInv, FetchInv, FetchInv', R!HealthyRestoreStep, UNCHANGED vars
    PROVE  [Shared!SharedNext]_Shared!sharedVars
<1> DEFINE fetched == [i \in Mounts |-> ArchiveOf(opened[i])]
           disk == [i \in Mounts |-> OnDisk(i)]
<1>1. RP!RestoreNext /\ RP!ProcessInv /\ conf' = conf
  <2>1. RP!RestoreNext
    BY SameStep
  <2>2. conf' = conf
    BY DEF vars
  <2> QED
    BY <2>1, <2>2 DEF FetchInv
<1>2. /\ opened \in [Mounts -> Object]
      /\ rpc = "loop" => rres = "none"
      /\ \A i \in Mounts : rpc # "exited" /\ gpc[i] = "open" => opened[i] = NoObject
  BY <1>1, RestoreTypes
<1>3. UNCHANGED Shared!cacheVars
  <2>1. UNCHANGED <<conf, store, run, outcome>>
    BY DEF vars, mainVars, putVars
  <2>2. [i \in Mounts |-> ArchiveOf(store[i])]' = [i \in Mounts |-> ArchiveOf(store[i])]
    BY <2>1 DEF ArchiveOf
  <2> QED
    BY <2>1, <2>2 DEF Shared!cacheVars
<1>4. ASSUME opened' = opened
      PROVE  fetched' = fetched
  BY <1>1, <1>4 DEF ArchiveOf
<1>5. CASE RP!WaitForWorkers
  <2>1. rpc = "loop" /\ opened' = opened /\ rres' \in {"ok", "err"}
    BY <1>5 DEF RP!WaitForWorkers, RP!getVars
  <2>2. fetched' = fetched
    BY <1>4, <2>1
  <2>3. CASE rres' = "ok"
    <3>1. \A i \in Mounts : ArchiveOf(opened[i]) # 0 /\ OnDisk(i)' = ArchiveOf(opened[i])
      BY <1>1, <1>5, <2>3, RestoreDelivers
    <3>2. disk' = fetched /\ \A i \in Mounts : fetched[i] # 0
      BY <3>1
    <3> QED
      BY <1>3, <2>2, <3>2 DEF Shared!SharedNext, Shared!Deliver
  <2>4. CASE rres' # "ok"
    <3>1. \A i \in Mounts : OnDisk(i) = 0 /\ OnDisk(i)' = 0
      BY <1>2, <2>1, <2>4 DEF OnDisk
    <3>2. disk' = disk
      BY <3>1
    <3> QED
      BY <1>3, <2>2, <3>2 DEF Shared!sharedVars
  <2> QED
    BY <2>3, <2>4
<1>6. CASE ~RP!WaitForWorkers
  <2>1. \A i \in Mounts : OnDisk(i)' = OnDisk(i)
    BY <1>1, <1>6, DiskStays
  <2>2. disk' = disk
    BY <2>1
  <2>3. CASE R!RestoreExit
    <3>1. \A i \in Mounts : opened'[i] = NoObject
      BY <2>3 DEF R!RestoreExit, R!AtAll, R!Mounts, R!NoObject, Mounts, NoObject
    <3>2. fetched' = [i \in Mounts |-> 0]
      BY <3>1 DEF ArchiveOf, Present, NoObject
    <3> QED
      BY <1>3, <2>2, <3>2 DEF Shared!SharedNext, Shared!Forget
  <2>4. CASE opened' = opened
    BY <1>3, <1>4, <2>2, <2>4 DEF Shared!sharedVars
  <2>5. CASE ~R!RestoreExit /\ \E i \in Mounts : opened'[i] # opened[i]
    <3>1. PICK i \in Mounts : opened'[i] # opened[i]
      BY <2>5
    <3>2. /\ gpc[i] = "open" /\ Present(store[i])
          /\ opened' = [opened EXCEPT ![i] = store[i]]
      BY <1>2, <2>5, <3>1, OnlyOpenOpens
    <3>3. opened[i] = NoObject
      BY <1>2, <3>2 DEF R!HealthyRestoreStep, R!Running
    <3>4. store[i].ver \in 1..run /\ run \in Runs
      BY <3>2 DEF LeavingsInv, IInv, TypeOK, MountInv, StoreInv
    <3>5. ArchiveOf(store[i]) # 0
      BY <3>2, <3>4, StoredIsArchive
    <3>6. fetched[i] = 0
      BY <3>3 DEF ArchiveOf, Present, NoObject
    <3>7. fetched' = [fetched EXCEPT ![i] = ArchiveOf(store[i])]
      BY <1>1, <1>2, <3>2 DEF ArchiveOf
    <3>8. Shared!Fetch(i)
      BY <1>3, <2>2, <3>5, <3>6, <3>7 DEF Shared!Fetch
    <3> QED
      BY <3>8 DEF Shared!SharedNext
  <2>6. opened' \in [Mounts -> Object]
    <3>1. RP!ProcessInv'
      BY DEF FetchInv
    <3> QED
      BY <3>1 DEF RP!ProcessInv, RP!RestoreTypeOK, RP!GetTypeOK, RP!Mounts, RP!Object, Mounts, Object
  <2> QED
    BY <1>2, <2>3, <2>4, <2>5, <2>6
<1> QED
  BY <1>5, <1>6

LEMMA SharedNextStep ==
    ASSUME CommittedAtOnce, LeavingsInv, LeavingsInv', FetchInv, FetchInv',
           [QuietRestoreNext]_pipelineVars
    PROVE  [Shared!SharedNext]_Shared!sharedVars
<1>1. CASE R!HealthyRestoreStep /\ UNCHANGED vars
  BY <1>1, RestoreShows
<1>2. CASE [Next]_vars /\ UNCHANGED restoreVars
  <2>1. [Shared!CacheNext]_Shared!cacheVars
    <3>1. [Next]_vars
      BY <1>2
    <3> QED
      BY <3>1, CacheStep, SameCacheStep
  <2>2. conf' = conf /\ UNCHANGED <<opened, local, rres>>
    BY <1>2 DEF restoreVars, Next, MainStep, ArchiverStep, CopyStep, UploaderStep, TimeoutStep,
                Exit, StartRun, NoMoreRuns, vars
  <2>3. /\ [i \in Mounts |-> ArchiveOf(opened[i])]' = [i \in Mounts |-> ArchiveOf(opened[i])]
        /\ [i \in Mounts |-> OnDisk(i)]' = [i \in Mounts |-> OnDisk(i)]
    BY <2>2 DEF ArchiveOf, OnDisk, R!InPlaceFrom
  <2> QED
    BY <2>1, <2>3 DEF Shared!SharedNext, Shared!sharedVars
<1> QED
  BY <1>1, <1>2 DEF QuietRestoreNext, RebuildStep, pipelineVars

LEMMA SharedStart ==
    ASSUME PipelineInit
    PROVE  Shared!SharedInit
<1>1. Cache!CacheInit
  BY CacheStart DEF PipelineInit
<1>2. Shared!CacheInit
  BY <1>1 DEF Cache!CacheInit, Shared!CacheInit
<1>3. rres = "none" /\ \A i \in Mounts : opened[i] = NoObject
  BY DEF PipelineInit, R!RestoreInit, R!GetInit, R!AtAll, R!Mounts, R!NoObject, Mounts, NoObject
<1>4. \A i \in Mounts : ArchiveOf(opened[i]) = 0 /\ OnDisk(i) = 0
  BY <1>3 DEF ArchiveOf, OnDisk, Present, NoObject
<1> QED
  BY <1>2, <1>4 DEF Shared!SharedInit

(* The rebuilds of the pipeline are those of Rebuilder. *)
LEMMA RebuildsGoOn == QuietRestoreSpec => Spec
<1>1. PipelineInit => Init
  BY DEF PipelineInit
<1>2. [QuietRestoreNext]_pipelineVars => [Next]_vars
  BY DEF QuietRestoreNext, RebuildStep, pipelineVars
<1> QED
  BY <1>1, <1>2, PTL DEF QuietRestoreSpec, Spec

(* What a restore has opened next to rebuilds to s3 and azure stays a whole
   archive of one run, whatever they write afterwards. *)
THEOREM FetchInvariance ==
    ASSUME CommittedAtOnce
    PROVE  QuietRestoreSpec => []FetchInv
<1>1. PipelineInit => FetchInv
  BY FetchStart
<1>2. LeavingsInv /\ LeavingsInv' /\ ObjectsLeft' /\ FetchInv /\ [QuietRestoreNext]_pipelineVars
        => FetchInv'
  BY FetchNext
<1> QED
  BY <1>1, <1>2, RebuildsGoOn, LeavingsInvariance, ObjectsLeftAlways, PTL DEF QuietRestoreSpec

(* A restore that runs next to rebuilds to s3 and azure gets, under every path,
   the whole archive of one run that was in the cache when it was asked for,
   or it fails: for any number of mounts, entries and runs. *)
THEOREM ImplementsSharedCacheAlways ==
    ASSUME CommittedAtOnce
    PROVE  QuietRestoreSpec => ImplementsSharedCache
<1>1. PipelineInit => Shared!SharedInit
  BY SharedStart
<1>2. LeavingsInv /\ LeavingsInv' /\ FetchInv /\ FetchInv' /\ [QuietRestoreNext]_pipelineVars
        => [Shared!SharedNext]_Shared!sharedVars
  BY SharedNextStep
<1> QED
  BY <1>1, <1>2, RebuildsGoOn, LeavingsInvariance, FetchInvariance, PTL
     DEF QuietRestoreSpec, ImplementsSharedCache, Shared!SharedSpec

-----------------------------------------------------------------------------
(* Builds in which nothing fails, one after the other. *)

(* Every Put succeeds within its deadline.  So every run does, and without
   override the first one leaves what the others keep; or, where Exists cannot
   tell that an object is absent, nothing is ever stored. *)
HealthyInv ==
    /\ errs = {}
    /\ \A i \in Mounts :
        /\ cpc[i] \notin Sending /\ ures[i] # "err" /\ upc[i] # "addErr"
        /\ upc[i] = "put" => ~ctxDone[i]
    /\ IF AbsentRefused
       THEN \A i \in Mounts : upc[i] = "idle" /\ store[i] = NoObject
       ELSE /\ \A r \in Runs : r < run \/ (r = run /\ mpc # "loop") => outcome[r] = "ok"
            /\ ~conf.override /\ run > 1 =>
                \A i \in Mounts : Present(store[i]) /\ store[i].ver = 1

(* The restore that follows them has not begun to read before. *)
RestoreWaits == ~Rebuilt => rres = "none" /\ \A i \in Mounts : opened[i] = NoObject

RoundTripInv == HealthyInv /\ RestoreWaits /\ RP!RestoresInv

LEMMA HealthyIsNext == HealthyNext => Next
BY DEF HealthyNext, Next, HealthyMain, MainStep, Main, AbsentIsError, HealthyExit,
       HealthyArchiver, HealthyCopy

(* What a healthy run has left when it has returned. *)
LEMMA HealthyStore ==
    ASSUME IInv, HealthyInv, ~AbsentRefused, mpc # "loop", NEW i \in Mounts
    PROVE  /\ outcome[run] = "ok" /\ Present(store[i]) /\ Whole(store[i])
           /\ store[i].ver = IF conf.override THEN run ELSE 1
<1>1. TypeOK /\ run \in Runs /\ run \in Nat /\ run >= 1
  BY RunsAssumption DEF IInv, TypeOK, Runs
<1>2. \A r \in Runs : r < run \/ (r = run /\ mpc # "loop") => outcome[r] = "ok"
  BY DEF HealthyInv
<1>3. outcome[run] = "ok"
  BY <1>1, <1>2
<1>4. Present(store[i]) /\ (conf.override => store[i].ver = run)
  BY <1>3 DEF IInv, QuietInv, OkMeansCached
<1>5. store[i].ver \in 1..run /\ store[i].ver \in Runs
  <2>1. store[i].ver \in 1..run
    BY <1>4 DEF IInv, MountInv, StoreInv
  <2> QED
    BY <1>1, <2>1, RunsAssumption DEF Runs
<1>6. outcome[store[i].ver] = "ok"
  BY <1>1, <1>2, <1>3, <1>5
<1>7. Whole(store[i])
  BY <1>4, <1>6 DEF IInv, OkRunsLeaveWholeArchives
<1>8. ~conf.override => store[i].ver = 1
  <2>1. CASE run = 1
    BY <1>5, <2>1
  <2>2. CASE run > 1
    BY <2>2 DEF HealthyInv
  <2> QED
    BY <1>1, <2>1, <2>2
<1> QED
  BY <1>3, <1>4, <1>7, <1>8

LEMMA HealthyArchiverKeeps ==
    ASSUME IInv, HealthyInv, NEW i \in Mounts, ArchiverStep(i)
    PROVE  HealthyInv'
<1>1. UNCHANGED <<conf, store, cpc, ctxDone, mpc, run, outcome, upc, ures, errs>>
  BY ArchiverFrame DEF IInv
<1> QED
  BY <1>1 DEF HealthyInv, AbsentRefused

LEMMA HealthyCopyKeeps ==
    ASSUME IInv, HealthyInv, NEW i \in Mounts, HealthyCopy(i)
    PROVE  HealthyInv'
<1>1. TypeOK /\ PutInv(i) /\ UpInv(i) /\ CopyStep(i) /\ Next
  BY DEF IInv, MountInv, HealthyCopy, Next
<1>2. /\ UNCHANGED <<conf, mpc, run, outcome, upc, ures, errs>>
      /\ cpc[i] # "idle" /\ \A j \in Mounts \ {i} : cpc'[j] = cpc[j]
  BY <1>1, CopyFrame
<1>3. ctxDone' = ctxDone
  BY <1>1 DEF CopyStep, Copy, MakeDirectory, CreateFile, CopyChunk, CopyFails, ReadEnds,
              CloseFile, Commit, CommitFails, UploadCancelled, CloseErrCh
<1>4. cpc'[i] \notin Sending
  BY DEF HealthyCopy, NoFailure
<1>5. ~AbsentRefused
  BY <1>1, <1>2 DEF UpInv, HealthyInv
<1>6. ASSUME ~conf.override, run > 1, NEW j \in Mounts
      PROVE  store'[j] = store[j]
  <2>1. Present(store[j]) /\ store[j].ver < run
    BY <1>5, <1>6 DEF HealthyInv
  <2> QED
    BY <1>1, <1>6, <2>1, OldObjectStays
<1>7. \A j \in Mounts : /\ cpc'[j] \notin Sending /\ ures'[j] # "err" /\ upc'[j] # "addErr"
                        /\ upc'[j] = "put" => ~ctxDone'[j]
  BY <1>2, <1>3, <1>4 DEF HealthyInv
<1> QED
  BY <1>2, <1>5, <1>6, <1>7 DEF HealthyInv, AbsentRefused

LEMMA HealthyUploaderKeeps ==
    ASSUME IInv, HealthyInv, NEW i \in Mounts, UploaderStep(i)
    PROVE  HealthyInv'
<1>1. TypeOK /\ UpInv(i)
  BY DEF IInv, MountInv
<1>2. /\ UNCHANGED <<conf, store, mpc, run, outcome>> /\ upc[i] # "idle"
      /\ \A j \in Mounts \ {i} : cpc'[j] = cpc[j] /\ upc'[j] = upc[j] /\ ures'[j] = ures[j]
  BY <1>1, UploaderFrame
<1>3. ~AbsentRefused
  BY <1>2 DEF HealthyInv
<1>4. /\ cpc[i] \notin Sending /\ ures[i] # "err" /\ upc[i] # "addErr"
      /\ upc[i] = "put" => ~ctxDone[i]
  BY DEF HealthyInv
<1>5. /\ errs' = errs
      /\ cpc'[i] \notin Sending /\ ures'[i] # "err" /\ upc'[i] # "addErr"
      /\ upc'[i] = "put" => ~ctxDone'[i]
      /\ \A j \in Mounts \ {i} : ctxDone'[j] = ctxDone[j]
  <2> USE <1>1, <1>4
      DEF TypeOK, PutTypeOK, putVars, PutReturns, UpTo, UpInv
  <2>1. CASE ReceiveError(i)
    BY <2>1 DEF ReceiveError
  <2>2. CASE ReceiveClosed(i)
    BY <2>2 DEF ReceiveClosed
  <2>3. CASE ReceiveDone(i)
    BY <2>3 DEF ReceiveDone
  <2>4. CASE CancelContext(i)
    BY <2>4 DEF CancelContext
  <2>5. CASE ReadStats(i)
    BY <2>5 DEF ReadStats
  <2>6. CASE CloseReadEnd(i)
    BY <2>6 DEF CloseReadEnd
  <2>7. CASE AddError(i)
    BY <2>7 DEF AddError
  <2>8. CASE WaitGroupDone(i)
    BY <2>8 DEF WaitGroupDone
  <2> QED
    BY <2>1, <2>2, <2>3, <2>4, <2>5, <2>6, <2>7, <2>8 DEF UploaderStep, Uploader
<1>6. \A j \in Mounts : /\ cpc'[j] \notin Sending /\ ures'[j] # "err" /\ upc'[j] # "addErr"
                        /\ upc'[j] = "put" => ~ctxDone'[j]
  BY <1>2, <1>5 DEF HealthyInv
<1> QED
  BY <1>2, <1>3, <1>5, <1>6 DEF HealthyInv, AbsentRefused

LEMMA HealthyMainKeeps ==
    ASSUME IInv, HealthyInv, HealthyMain
    PROVE  HealthyInv'
<1>1. TypeOK /\ UNCHANGED <<conf, store, run>> /\ errs' = errs
  BY DEF IInv, HealthyMain, Override, Skip, Upload, AbsentIsError, ExistsFails, WaitAndReturn,
         StartUploader, StartPut, NextMount, Return, putVars, upVars
<1>2. CASE \E i \in Mounts : Override(i) \/ Upload(i)
  <2>1. PICK i \in Mounts : AtMount(i) /\ StartUploader(i) /\ ~AbsentRefused
    BY <1>2 DEF Override, Upload, AbsentRefused
  <2>2. /\ UNCHANGED <<mpc, outcome, ures>>
        /\ upc' = [upc EXCEPT ![i] = "put"]
        /\ cpc' = [cpc EXCEPT ![i] = IF InPlace THEN "mkdir" ELSE "copy"]
        /\ ctxDone' = [ctxDone EXCEPT ![i] = FALSE]
    BY <2>1 DEF StartUploader, StartPut, StepTo, NextMount
  <2>3. \A j \in Mounts : /\ cpc'[j] \notin Sending /\ ures'[j] # "err" /\ upc'[j] # "addErr"
                          /\ upc'[j] = "put" => ~ctxDone'[j]
    BY <1>1, <2>2 DEF HealthyInv, TypeOK, PutTypeOK, Sending
  <2> QED
    BY <1>1, <2>1, <2>2, <2>3 DEF HealthyInv, AbsentRefused
<1>3. CASE \E i \in Mounts : Skip(i)
  BY <1>1, <1>3 DEF Skip, NextMount, HealthyInv, AbsentRefused, putVars, upVars
<1>4. CASE (\E i \in Mounts : AbsentIsError(i)) \/ WaitAndReturn
  <2>1. UNCHANGED <<upc, cpc, ures, ctxDone>>
    BY <1>4 DEF AbsentIsError, ExistsFails, WaitAndReturn, putVars, upVars
  <2>2. AbsentRefused \/ (mpc = "loop" /\ outcome' = [outcome EXCEPT ![run] = "ok"])
    BY <1>4 DEF AbsentIsError, ExistsFails, AbsentRefused, WaitAndReturn, Return, HealthyInv
  <2>3. CASE AbsentRefused
    BY <1>1, <2>1, <2>3 DEF HealthyInv, AbsentRefused
  <2>4. CASE ~AbsentRefused
    <3>1. \A r \in Runs : r < run => outcome[r] = "ok"
      BY <2>4 DEF HealthyInv
    <3>2. \A r \in Runs : r < run \/ r = run => outcome'[r] = "ok"
      BY <1>1, <2>2, <2>4, <3>1 DEF TypeOK
    <3> QED
      BY <1>1, <2>1, <2>4, <3>2 DEF HealthyInv, AbsentRefused
  <2> QED
    BY <2>3, <2>4
<1> QED
  BY <1>2, <1>3, <1>4 DEF HealthyMain

LEMMA HealthyProcessKeeps ==
    ASSUME IInv, HealthyInv, HealthyExit \/ StartRun \/ NoMoreRuns \/ UNCHANGED vars
    PROVE  HealthyInv'
<1>1. CASE HealthyExit
  <2>1. /\ mpc = "returned" /\ UNCHANGED <<conf, store, run, outcome>> /\ errs' = {}
        /\ \A i \in Mounts : cpc'[i] = "idle" /\ ures'[i] = "none" /\ upc'[i] = "idle"
    BY <1>1 DEF HealthyExit, Exit, AtAll
  <2>2. \A j \in Mounts : /\ cpc'[j] \notin Sending /\ ures'[j] # "err" /\ upc'[j] # "addErr"
                          /\ upc'[j] = "put" => ~ctxDone'[j]
    BY <2>1 DEF Sending
  <2> QED
    BY <2>1, <2>2 DEF HealthyInv, AbsentRefused
<1>2. CASE StartRun
  <2>1. /\ mpc = "exited" /\ run' = run + 1 /\ UNCHANGED <<conf, store, outcome>>
        /\ UNCHANGED <<cpc, ctxDone, upc, ures, errs>> /\ run \in Nat /\ run >= 1
    BY <1>2, RunsAssumption DEF StartRun, Alive, putVars, upVars, IInv, TypeOK, Runs
  <2>2. CASE AbsentRefused
    BY <2>1, <2>2 DEF HealthyInv, AbsentRefused
  <2>3. CASE ~AbsentRefused
    <3>1. \A r \in Runs : r < run + 1 => r < run \/ r = run
      BY <2>1, RunsAssumption DEF Runs
    <3>2. \A r \in Runs : r < run' \/ (r = run' /\ mpc' # "loop") => outcome'[r] = "ok"
      <4>1. mpc' = "loop"
        BY <1>2 DEF StartRun
      <4> QED
        BY <2>1, <2>3, <3>1, <4>1 DEF HealthyInv
    <3>3. ~conf.override => \A i \in Mounts : Present(store[i]) /\ store[i].ver = 1
      BY <2>1, <2>3, HealthyStore
    <3> QED
      BY <2>1, <2>3, <3>2, <3>3 DEF HealthyInv, AbsentRefused
  <2> QED
    BY <2>2, <2>3
<1>3. CASE NoMoreRuns \/ UNCHANGED vars
  BY <1>3 DEF NoMoreRuns, vars, putVars, mainVars, upVars, HealthyInv, AbsentRefused
<1> QED
  BY <1>1, <1>2, <1>3

LEMMA HealthyNextKeeps ==
    ASSUME IInv, HealthyInv, HealthyNext \/ UNCHANGED vars
    PROVE  HealthyInv'
BY HealthyArchiverKeeps, HealthyCopyKeeps, HealthyUploaderKeeps, HealthyMainKeeps,
   HealthyProcessKeeps DEF HealthyNext, HealthyArchiver

LEMMA HealthyStart ==
    ASSUME Init
    PROVE  HealthyInv
<1>1. /\ errs = {} /\ mpc = "loop" /\ run = 1
      /\ \A i \in Mounts : /\ cpc[i] = "idle" /\ ures[i] = "none" /\ upc[i] = "idle"
                           /\ store[i] = NoObject
  BY DEF Init, ProcessInit, PutInit, AtAll
<1>2. \A i \in Mounts : /\ cpc[i] \notin Sending /\ ures[i] # "err" /\ upc[i] # "addErr"
                        /\ upc[i] = "put" => ~ctxDone[i]
  BY <1>1 DEF Sending
<1>3. \A r \in Runs : ~(r < run)
  BY <1>1, RunsAssumption DEF Runs
<1> QED
  BY <1>1, <1>2, <1>3 DEF HealthyInv

LEMMA RestoresKeeps ==
    ASSUME RP!RestoresInv, RP!RestoreNext \/ UNCHANGED RP!allVars
    PROVE  RP!RestoresInv'
BY PipelineAssumptions, RP!RestoresNext

(* Until they are over the rebuilds write below a restore that has not begun,
   afterwards they stop. *)
LEMMA RebuiltIsQuiet ==
    ASSUME Rebuilt, HealthyNext
    PROVE  UNCHANGED vars
BY RunsAssumption
   DEF Rebuilt, HealthyNext, HealthyMain, Override, Skip, Upload, AbsentIsError, ExistsFails,
       WaitAndReturn, AtMount, HealthyExit, StartRun, NoMoreRuns, HealthyArchiver, HealthyCopy,
       ArchiverStep, CopyStep, UploaderStep, Alive

LEMMA RebuildKeeps ==
    ASSUME LeavingsInv, LeavingsInv', ObjectsLeft', HealthyInv, RestoreWaits, RP!RestoresInv,
           HealthyNext, UNCHANGED restoreVars
    PROVE  RestoreWaits' /\ RP!RestoresInv'
<1>1. CASE Rebuilt
  <2>1. UNCHANGED vars
    BY <1>1, RebuiltIsQuiet
  <2>2. UNCHANGED RP!allVars
    BY <2>1 DEF vars, putVars, restoreVars, RP!allVars, RP!restoreVars, RP!pipeVars, RP!getVars,
                RP!extVars, RP!downVars, RP!workVars, RP!loopVars
  <2>3. RP!RestoresInv'
    BY <2>2, RestoresKeeps
  <2>4. Rebuilt'
    BY <1>1, <2>1 DEF vars, mainVars, Rebuilt
  <2> QED
    BY <2>3, <2>4 DEF RestoreWaits
<1>2. CASE ~Rebuilt
  <2>1. conf' = conf /\ Next
    BY HealthyIsNext
       DEF HealthyNext, HealthyMain, HealthyExit, Exit, StartRun, NoMoreRuns, HealthyArchiver,
           HealthyCopy, ArchiverStep, CopyStep, UploaderStep, vars
  <2>2. /\ rres' = rres /\ opened' = opened
        /\ rres = "none" /\ \A i \in Mounts : opened[i] = NoObject
    BY <1>2 DEF RestoreWaits, restoreVars
  <2>3. store' \in [Mounts -> Object]
    BY DEF LeavingsInv, IInv, TypeOK, PutTypeOK
  <2>4. ASSUME NEW i \in Mounts
        PROVE  RP!Left(store[i])'
    <3>1. store'[i] \in Leavings(store'[i].ver, FilesMayShrink)
      BY <2>1 DEF ObjectsLeft, Leavings, OnlyWhole
    <3>2. store'[i] \in RP!Leavings(store'[i].ver, TRUE)
      BY <3>1, LeavingsAreLeft
    <3> QED
      BY <2>1, <3>2 DEF RP!Left, RP!Leavings, RP!OnlyWhole
  <2>5. RP!ProcessInv'
    <3>1. RP!ProcessInv
      BY DEF RP!RestoresInv
    <3> QED
      BY <2>1, <2>3, <2>4, <3>1, RestoreUnderWrites
  <2>6. \A i \in RP!Mounts : opened'[i] = RP!NoObject
    BY <2>2 DEF RP!Mounts, Mounts, RP!NoObject, NoObject
  <2>7. RP!RestoresInv'
    BY <2>2, <2>5, <2>6 DEF RP!RestoresInv, RP!OkMeansExtracted
  <2> QED
    BY <2>2, <2>7 DEF RestoreWaits
<1> QED
  BY <1>1, <1>2

LEMMA AfterwardsKeeps ==
    ASSUME RestoreWaits, RP!RestoresInv, Afterwards(R!HealthyRestoreStep)
    PROVE  RestoreWaits' /\ RP!RestoresInv'
<1>1. Rebuilt /\ R!HealthyRestoreStep /\ UNCHANGED vars
  BY DEF Afterwards
<1>2. RP!RestoreNext
  BY <1>1, SameStep
<1>3. RP!RestoresInv'
  BY <1>2, RestoresKeeps
<1>4. Rebuilt'
  BY <1>1 DEF vars, mainVars, Rebuilt
<1> QED
  BY <1>3, <1>4 DEF RestoreWaits

LEMMA RoundTripStart ==
    ASSUME PipelineInit
    PROVE  RoundTripInv
<1>1. HealthyInv
  BY HealthyStart DEF PipelineInit
<1>2. RP!ProcessInv
  BY FetchStart DEF FetchInv
<1>3. rres = "none" /\ \A i \in Mounts : opened[i] = NoObject
  BY DEF PipelineInit, R!RestoreInit, R!GetInit, R!AtAll, R!Mounts, R!NoObject, Mounts, NoObject
<1>4. RP!RestoresInv
  BY <1>2, <1>3 DEF RP!RestoresInv, RP!OkMeansExtracted, RP!Mounts, Mounts, RP!NoObject, NoObject
<1> QED
  BY <1>1, <1>3, <1>4 DEF RoundTripInv, RestoreWaits

LEMMA RoundTripNextKeeps ==
    ASSUME LeavingsInv, LeavingsInv', ObjectsLeft', RoundTripInv, [RoundTripNext]_pipelineVars
    PROVE  RoundTripInv'
<1>1. IInv /\ HealthyInv /\ RestoreWaits /\ RP!RestoresInv
  BY DEF LeavingsInv, RoundTripInv
<1>2. CASE HealthyNext /\ UNCHANGED restoreVars
  BY <1>1, <1>2, HealthyNextKeeps, RebuildKeeps DEF RoundTripInv
<1>3. CASE Afterwards(R!HealthyRestoreStep)
  <2>1. UNCHANGED vars
    BY <1>3 DEF Afterwards
  <2> QED
    BY <1>1, <1>3, <2>1, HealthyNextKeeps, AfterwardsKeeps DEF RoundTripInv
<1>4. CASE UNCHANGED pipelineVars
  <2>1. UNCHANGED vars /\ UNCHANGED restoreVars
    BY <1>4 DEF pipelineVars
  <2>2. HealthyInv'
    BY <1>1, <2>1, HealthyNextKeeps
  <2>3. UNCHANGED RP!allVars
    BY <2>1 DEF vars, putVars, restoreVars, RP!allVars, RP!restoreVars, RP!pipeVars, RP!getVars,
                RP!extVars, RP!downVars, RP!workVars, RP!loopVars
  <2>4. RP!RestoresInv'
    BY <1>1, <2>3, RestoresKeeps
  <2>5. RestoreWaits'
    BY <1>1, <2>1 DEF RestoreWaits, Rebuilt, vars, mainVars, restoreVars
  <2> QED
    BY <2>2, <2>4, <2>5 DEF RoundTripInv
<1> QED
  BY <1>2, <1>3, <1>4 DEF RoundTripNext

(* What is proved is safety: fairness plays no part in it. *)
LEMMA RoundTripIsSafe == RoundTripSpec => PipelineInit /\ [][RoundTripNext]_pipelineVars
BY PTL DEF RoundTripSpec

LEMMA HealthyRebuildsGoOn == RoundTripSpec => Spec
<1>1. PipelineInit => Init
  BY DEF PipelineInit
<1>2. [RoundTripNext]_pipelineVars => [Next]_vars
  BY HealthyIsNext DEF RoundTripNext, Afterwards, pipelineVars
<1> QED
  BY <1>1, <1>2, RoundTripIsSafe, PTL DEF Spec

(* Builds in which nothing fails: every run succeeds unless it is refused, and
   the restore that follows has of an object all that it has opened. *)
THEOREM RoundTripInvariance == RoundTripSpec => []RoundTripInv
<1>1. PipelineInit => RoundTripInv
  BY RoundTripStart
<1>2. LeavingsInv /\ LeavingsInv' /\ ObjectsLeft' /\ RoundTripInv /\ [RoundTripNext]_pipelineVars
        => RoundTripInv'
  BY RoundTripNextKeeps
<1> QED
  BY <1>1, <1>2, RoundTripIsSafe, HealthyRebuildsGoOn, LeavingsInvariance, ObjectsLeftAlways, PTL

LEMMA RoundTripComesBack ==
    ASSUME ~FilesMayShrink, LeavingsInv, RoundTripInv
    PROVE  MountsComeBack
<1> SUFFICES ASSUME rres = "ok", NEW i \in Mounts, NEW k \in 1..NumEntries
             PROVE  R!InPlaceFrom(IF conf.override THEN MaxRuns ELSE 1, i, k)
  BY DEF MountsComeBack
<1>1. /\ IInv /\ HealthyInv /\ Rebuilt
      /\ store[i].end \in {"trailer", "torn", "open"}
      /\ k <= store[i].entries => RP!InPlaceFrom(store[i].ver, i, k)
  BY DEF LeavingsInv, RoundTripInv, RestoreWaits, RP!RestoresInv, RP!OkMeansExtracted,
         RP!Mounts, Mounts
<1>2. ~AbsentRefused
  BY <1>1 DEF HealthyInv, NoObject
<1>3. /\ Whole(store[i])
      /\ store[i].ver = IF conf.override THEN MaxRuns ELSE 1
  BY <1>1, <1>2, HealthyStore DEF Rebuilt
<1>4. k <= store[i].entries
  BY <1>3 DEF Whole, Complete
<1> QED
  BY <1>1, <1>3, <1>4 DEF R!InPlaceFrom, RP!InPlaceFrom

(* When no run fails and no file shrinks under the archiver, a restore that
   returns nil has brought back every file of every mount, from the run whose
   object the last one has left: for any number of mounts, entries and runs. *)
THEOREM MountsComeBackAlways ==
    ASSUME ~FilesMayShrink
    PROVE  RoundTripSpec => []MountsComeBack
<1>1. LeavingsInv /\ RoundTripInv => MountsComeBack
  BY RoundTripComesBack
<1> QED
  BY <1>1, HealthyRebuildsGoOn, LeavingsInvariance, RoundTripInvariance, PTL
=============================================================================
