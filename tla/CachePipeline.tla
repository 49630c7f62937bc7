--------------------------- MODULE CachePipeline ----------------------------
(***************************************************************************)
(* Builds that share a cache: one restores (Restorer) while others rebuild *)
(* (Rebuilder), one process each, with nothing in common but storage.      *)
(* Nobody locks an object: where it is committed in one step, a rebuild    *)
(* may replace it while the restore reads it; what is written in place is  *)
(* restored here after the rebuilds, and next to them in RivalBuilds.      *)
(***************************************************************************)
EXTENDS RebuilderCache, RebuilderProgress

CONSTANT FoundFiles     \* what the restore may find on its disk

VARIABLES
    roffer, rrclosed, rwerr,            \* the pipe of the restore
    gpc, opened, pos, getDone,    \* its Get
    xpc, cur, xerr, local,              \* its extraction
    rpc, next, dpc, gres, wpc, rerrs, rres

R == INSTANCE RestorerProgress WITH offer <- roffer, rclosed <- rrclosed, werr <- rwerr

ASSUME FoundAssumption == FoundFiles \subseteq R!Before

restoreVars == <<roffer, rrclosed, rwerr, gpc, opened, pos, getDone, xpc,
                 cur, xerr, local, rpc, next, dpc, gres, wpc, rerrs, rres>>

pipelineVars == <<vars, restoreVars>>

PipelineInit == Init /\ R!RestoreInit

(* A step of the process that rebuilds. *)
RebuildStep == Next /\ UNCHANGED restoreVars

(* Everything may happen to the rebuilds; the restore meets no failure of its
   own, which could only end it (Restorer). *)
QuietRestoreNext ==
    \/ RebuildStep
    \/ R!HealthyRestoreStep /\ UNCHANGED vars

QuietRestoreSpec == PipelineInit /\ [][QuietRestoreNext]_pipelineVars

(* Builds one after the other, in which nothing fails: the last one restores
   what the others have left. *)
Rebuilt == run = MaxRuns /\ mpc = "exited"

(* A step of the process that restores. *)
Afterwards(A) == Rebuilt /\ R!Running /\ A /\ UNCHANGED vars

RoundTripNext ==
    \/ HealthyNext /\ UNCHANGED restoreVars
    \/ Afterwards(R!HealthyRestoreStep)

RoundTripSpec ==
    /\ PipelineInit /\ [][RoundTripNext]_pipelineVars
    /\ HealthyFairness
    /\ WF_pipelineVars(Afterwards(R!Loop))
    /\ \A i \in Mounts :
        /\ WF_pipelineVars(Afterwards(R!HealthyGetCopy(i)))
        /\ WF_pipelineVars(Afterwards(R!HealthyExtract(i)))
        /\ WF_pipelineVars(Afterwards(R!Download(i)))
        /\ WF_pipelineVars(Afterwards(R!Work(i)))

-----------------------------------------------------------------------------

(* A restore in which nothing fails succeeds, if anything is there: downloader,
   copy and extraction do not wait for one another for ever, although the
   extraction stops reading at the trailer (restorer.go:79-115,
   tar.go:173-174). *)
HealthyRestoreSucceeds == <>(rres = IF AbsentRefused THEN "err" ELSE "ok")

(* Meanwhile no goroutine stays blocked in a Write to the pipe of the restore:
   the worker closes its end, and no deadline is needed for that
   (restorer.go:81, tar.go:173-174). *)
WritesReleased == \A i \in Mounts : roffer[i] # NoChunk ~> roffer[i] = NoChunk

(* When the restore returns nil, every file of every mount is back, as the run
   has archived it whose object the last one has left: the first without
   override, the last with it (rebuilder.go:62-84, restorer.go:51-75). *)
MountsComeBack ==
    rres = "ok" =>
        \A i \in Mounts : \A k \in 1..NumEntries :
            R!InPlaceFrom(IF conf.override THEN MaxRuns ELSE 1, i, k)

(* The run whose archive mount i has on disk after a restore that succeeded,
   0 before; a mixture or a part is no run's archive. *)
OnDisk(i) ==
    IF rres # "ok" THEN 0
    ELSE IF \E v \in Runs : \A k \in 1..NumEntries : R!InPlaceFrom(v, i, k)
    THEN local[i][1].ver ELSE MaxRuns + 1

Shared == INSTANCE SharedCache WITH
    Paths <- Mounts,
    override <- conf.override,
    cached <- [i \in Mounts |-> ArchiveOf(store[i])],
    current <- run,
    succeeded <- {r \in Runs : outcome[r] = "ok"},
    fetched <- [i \in Mounts |-> ArchiveOf(opened[i])],
    disk <- [i \in Mounts |-> OnDisk(i)]

(* With s3 and azure a restore that runs next to rebuilds gets, under every
   path, the whole archive of one run that was in the cache when it was asked
   for, or it fails: neither an upload under way nor a replacement shows
   (restorer.go:79-115 and rebuilder.go:98-149 over s3.go and azure.go). *)
ImplementsSharedCache == Shared!SharedSpec
=============================================================================
