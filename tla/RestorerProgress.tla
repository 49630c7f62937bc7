-------------------------- MODULE RestorerProgress --------------------------
(***************************************************************************)
(* What the Go scheduler and the deadlines make of Restorer: a run that    *)
(* storage leaves hanging, and a run in which nothing fails.               *)
(***************************************************************************)
EXTENDS Restorer

(* A step of one goroutine of the process, storage left alone. *)
Step(A) == Running /\ A /\ UNCHANGED <<conf, store>>

(* A copy that finds its pipe closed goes on, and a copy that has nothing
   more to ask of storage ends. *)
CopyReleased(i) ==
    /\ WriteToPipeFails(i) \/ CloseGetErrCh(i)
    /\ UNCHANGED <<extVars, downVars, workVars, loopVars>>

(* Goroutines that can take a step take it and deadlines pass.  Nothing
   obliges storage to answer: there is no fairness on the steps of GetCopy
   that wait for storage. *)
HangingRestoreSpec ==
    /\ RestoreSpec
    /\ WF_allVars(Step(Loop))
    /\ \A i \in Mounts :
        /\ WF_allVars(Step(ExtractStep(i))) /\ WF_allVars(Step(Download(i)))
        /\ WF_allVars(Step(Work(i))) /\ WF_allVars(Step(GetTimeout(i)))
        /\ WF_allVars(Step(CopyReleased(i)))

(* Restore returns (or the process is killed) although storage may never
   answer: Get has a deadline, and its error ends the extraction that reads
   the pipe (main.go:304, storage.go:47-52, restorer.go:88-92). *)
RestoreReturns == rpc = "loop" ~> rpc # "loop"

-----------------------------------------------------------------------------
(* A run in which no file, no storage operation and no deadline fails, over
   whole archives or nothing at all. *)

NoGetFailure(i) == gpc[i] \notin GetSending

NoExtractFailure(i) == ~xerr[i]

(* To find no object is no failure of storage, nor is a footer that nobody
   reads any more. *)
HealthyGetCopy(i) ==
    /\ GetCopyStep(i)
    /\ \/ NoGetFailure(i)'
       \/ ~Present(store[i]) /\ OpenFails(i)
       \/ rclosed[i] /\ WriteToPipeFails(i)

(* The extraction fails only if its download has. *)
HealthyExtract(i) ==
    ExtractStep(i) /\ (NoExtractFailure(i)' \/ (werr[i] = "err" /\ StreamEnds(i)))

HealthyRestoreStep ==
    /\ Running
    /\ \/ Loop
       \/ rpc = "returned" /\ RestoreExit
       \/ \E i \in Mounts : \/ HealthyGetCopy(i) \/ HealthyExtract(i)
                            \/ Download(i) \/ Work(i)
=============================================================================
