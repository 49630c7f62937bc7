------------------------- MODULE RebuilderProgress --------------------------
(***************************************************************************)
(* What the Go scheduler and the deadlines make of Rebuilder: a run that   *)
(* storage leaves hanging, and a run in which nothing fails.               *)
(***************************************************************************)
EXTENDS Rebuilder

(* Goroutines that can take a step take it, deadlines pass, and the SDKs
   notice them.  Nothing obliges storage to answer: there is no fairness on
   Skip, Upload and the steps of Copy that wait for storage.  Of the backends
   only those that look at the context return from Exists when it is done. *)
LoopStep(i) == (Override(i) \/ ExistsTimesOut(i)) /\ UNCHANGED conf

WaitStep == WaitAndReturn /\ UNCHANGED conf

PutReleased(i) ==
    /\ Alive /\ (UploadCancelled(i) \/ CloseErrCh(i))
    /\ UNCHANGED <<conf, archVars, mainVars, upVars>>

HangingSpec ==
    /\ Spec
    /\ WF_vars(WaitStep)
    /\ \A i \in Mounts :
        /\ WF_vars(LoopStep(i))
        /\ WF_vars(ArchiverStep(i)) /\ WF_vars(UploaderStep(i))
        /\ WF_vars(TimeoutStep(i)) /\ WF_vars(PutReleased(i))

(* Rebuild returns (or the process is killed) although storage may never
   answer: each storage operation has a deadline, and every goroutine that
   blocks on a pipe, a channel or the wait group is released by it
   (main.go:304, storage.go:54-68, rebuilder.go:130-136).  Only Exists of
   filesystem, an os.Stat, is held by nothing but the disk
   (filesystem.go:126). *)
RebuildReturns ==
    mpc = "loop" /\ (conf.override \/ conf.kind # "filesystem") ~> mpc # "loop"

(* An archiver goroutine is never left blocked on its pipe: it ends, or the
   process does, whatever becomes of the Put that reads the pipe
   (rebuilder.go:106-134). *)
ArchiverEnds ==
    \A i \in Mounts : apc[i] # "idle" ~> apc[i] \in {"idle", "done"}

-----------------------------------------------------------------------------
(* A run in which no file, no storage operation and no deadline fails. *)

(* Storage is asked for an object that is not there: azure makes that an
   error too. *)
AbsentIsError(i) ==
    /\ conf.kind = "azure" /\ ~Present(store[i])
    /\ ExistsFails(i)

HealthyMain ==
    /\ \/ \E i \in Mounts : Override(i) \/ Skip(i) \/ Upload(i) \/ AbsentIsError(i)
       \/ WaitAndReturn
    /\ UNCHANGED conf

NoFailure(i) == ~aerr[i] /\ ~broken[i] /\ cpc[i] \notin Sending

HealthyArchiver(i) == ArchiverStep(i) /\ NoFailure(i)'
HealthyCopy(i) == CopyStep(i) /\ NoFailure(i)'

HealthyExit == mpc = "returned" /\ Exit

HealthyNext ==
    \/ HealthyMain \/ HealthyExit \/ StartRun \/ NoMoreRuns
    \/ \E i \in Mounts : HealthyArchiver(i) \/ HealthyCopy(i) \/ UploaderStep(i)

HealthyFairness ==
    /\ WF_vars(HealthyMain) /\ WF_vars(HealthyExit) /\ WF_vars(StartRun)
    /\ \A i \in Mounts :
        /\ WF_vars(HealthyArchiver(i)) /\ WF_vars(HealthyCopy(i))
        /\ WF_vars(UploaderStep(i))

HealthySpec == Init /\ [][HealthyNext]_vars /\ HealthyFairness

(* Absent objects are refused: no run without override can ever store one. *)
AbsentRefused == conf.kind = "azure" /\ ~conf.override

(* A run in which nothing fails succeeds: the archiver, the copy and the
   uploader of a mount never wait for one another for ever, end of file
   reaches storage, and Rebuild returns nil (rebuilder.go:55-95).  Only where
   Exists cannot tell that an object is absent it never does (azure.go:134). *)
HealthyRunsSucceed ==
    \A r \in Runs : run = r ~> IF AbsentRefused THEN outcome[r] = "err"
                              ELSE outcome[r] = "ok"
=============================================================================
