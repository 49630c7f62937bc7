----------------------------- MODULE Rebuilder ------------------------------
(***************************************************************************)
(* Runs of the plugin in rebuild mode, one after the other, over the same  *)
(* storage: rebuilder.Rebuild and rebuilder.rebuild                        *)
(* (src/cache/rebuilder.go), storage.Put (src/storage/storage.go), the     *)
(* archiver goroutine (Archiver) and the backend (BackendPut).             *)
(*                                                                         *)
(* A run is one process.  Rebuild goes through the mounts and starts an    *)
(* uploader goroutine for each; each uploader starts an archiver and calls *)
(* Put, so that up to three goroutines work on one mount.  The process     *)
(* ends when Rebuild has returned, or is killed before that; storage is    *)
(* all that outlives it.                                                   *)
(***************************************************************************)
EXTENDS Archiver, BackendPut

CONSTANT MaxRuns    \* bound: runs of the plugin that are considered

ASSUME RunsAssumption == MaxRuns \in Nat \ {0}

VARIABLES
    mpc,        \* where Rebuild is
    idx,        \* the mount its loop is at
    upc,        \* upc[i]: where the uploader of mount i is
    ures,       \* ures[i]: what Put has returned to it
    errs,       \* mounts whose uploader has added an error
    run,        \* number of the current run
    outcome     \* outcome[r]: what Rebuild of run r has returned

mainVars == <<mpc, idx, run, outcome>>
upVars == <<upc, ures, errs>>
vars == <<conf, pipeVars, archVars, putVars, mainVars, upVars>>

Runs == 1..MaxRuns

UpPC == {"idle", "put", "cancel", "stats", "close", "addErr", "wg", "done"}

TypeOK ==
    /\ conf \in Configs
    /\ PipeTypeOK /\ ArchTypeOK /\ PutTypeOK
    /\ mpc \in {"loop", "returned", "exited"}
    /\ idx \in 1..(NumMounts + 1)
    /\ upc \in [Mounts -> UpPC]
    /\ ures \in [Mounts -> {"none", "ok", "err"}]
    /\ errs \subseteq Mounts
    /\ run \in Runs
    /\ outcome \in [Runs -> {"none", "ok", "err"}]

ProcessInit ==
    /\ PipeInit /\ ArchInit /\ PutInit
    /\ idx = 1
    /\ upc = AtAll("idle")
    /\ ures = AtAll("none")
    /\ errs = {}

Init ==
    /\ conf \in Configs
    /\ store = AtAll(NoObject)
    /\ mpc = "loop"
    /\ run = 1
    /\ outcome = [r \in Runs |-> "none"]
    /\ ProcessInit

-----------------------------------------------------------------------------
(* Rebuild: the loop over the mounts. *)

AtMount(i) == mpc = "loop" /\ idx = i

Return(res) ==
    /\ mpc' = "returned"
    /\ outcome' = [outcome EXCEPT ![run] = res]
    /\ UNCHANGED <<idx, run>>

NextMount ==
    /\ idx' = idx + 1
    /\ UNCHANGED <<mpc, run, outcome>>

(* wg.Add(1); go func(dst, src string) { ... }(dst, src) *)
StartUploader(i) ==
    /\ NextMount
    /\ StartArchiver(i)
    /\ StartPut(i, run)
    /\ upc' = [upc EXCEPT ![i] = "put"]
    /\ UNCHANGED <<ures, errs, pipeVars>>

(* os.Lstat(src) fails: Rebuild returns from within its loop, without waiting
   for the uploaders it has started. *)
SourceMissing(i) ==
    /\ AtMount(i)
    /\ Return("err")
    /\ UNCHANGED <<pipeVars, archVars, putVars, upVars>>

(* override is set: storage is not asked. *)
Override(i) ==
    /\ AtMount(i) /\ conf.override
    /\ StartUploader(i)

(* Exists answers that the object is there: the mount is skipped. *)
Skip(i) ==
    /\ AtMount(i) /\ ~conf.override
    /\ Present(store[i])
    /\ NextMount
    /\ UNCHANGED <<pipeVars, archVars, putVars, upVars>>

(* Mutant: an object that is there is uploaded again. *)
UploadAnyway(i) ==
    /\ AtMount(i) /\ ~conf.override
    /\ StartUploader(i)

(* Exists answers that the object is not there.  azure never does: its SDK
   reports a missing blob as an error. *)
Upload(i) ==
    /\ AtMount(i) /\ ~conf.override
    /\ ~Present(store[i]) /\ conf.kind # "azure"
    /\ StartUploader(i)

(* Exists returns an error: again Rebuild returns from within its loop. *)
ExistsFails(i) ==
    /\ AtMount(i) /\ ~conf.override
    /\ Return("err")
    /\ UNCHANGED <<pipeVars, archVars, putVars, upVars>>

(* The context of Exists is done: every backend but filesystem, which calls
   os.Stat, returns the context's error. *)
ExistsTimesOut(i) ==
    /\ conf.kind # "filesystem"
    /\ ExistsFails(i)

(* wg.Wait(), then errs.Err() *)
WaitAndReturn ==
    /\ mpc = "loop" /\ idx = NumMounts + 1
    /\ \A i \in Mounts : upc[i] \in {"idle", "done"}
    /\ Return(IF errs = {} THEN "ok" ELSE "err")
    /\ UNCHANGED <<pipeVars, archVars, putVars, upVars>>

Main ==
    \/ \E i \in Mounts : SourceMissing(i) \/ Override(i) \/ Skip(i)
                            \/ Upload(i) \/ ExistsFails(i)
    \/ WaitAndReturn

-----------------------------------------------------------------------------
(* rebuild: the uploader of one mount, from its call of Put on. *)

UpTo(i, pc) == upc' = [upc EXCEPT ![i] = pc]

(* The deadline of the Put's context passes. *)
Timeout(i) ==
    /\ upc[i] = "put" /\ ~ctxDone[i]
    /\ ctxDone' = [ctxDone EXCEPT ![i] = TRUE]
    /\ UNCHANGED <<store, pend, cpc, pipeVars, archVars, mainVars, upVars>>

(* Put returns to storage.Put. *)
PutReturns(i, res) ==
    /\ upc[i] = "put"
    /\ UpTo(i, "cancel")
    /\ ures' = [ures EXCEPT ![i] = res]
    /\ UNCHANGED <<errs, pipeVars, archVars, mainVars>>

(* case err := <-errCh, with an error that was sent *)
ReceiveError(i) ==
    /\ cpc[i] \in Sending
    /\ StepTo(i, AfterSend(cpc[i]))
    /\ PutReturns(i, "err")
    /\ UNCHANGED <<store, pend, ctxDone>>

(* case err := <-errCh, on the closed channel: nil *)
ReceiveClosed(i) ==
    /\ cpc[i] = "done"
    /\ PutReturns(i, "ok")
    /\ UNCHANGED putVars

(* Mutant: the select of Put returns nil when its context is done. *)
ReceiveDoneAsNil(i) ==
    /\ CopyGoroutine /\ ctxDone[i]
    /\ PutReturns(i, "ok")
    /\ UNCHANGED putVars

(* Mutant: Put waits for its goroutine, whatever the context says. *)
NoSelect(i) == FALSE

(* case <-ctx.Done(): the copy goroutine is left behind *)
ReceiveDone(i) ==
    /\ CopyGoroutine /\ ctxDone[i]
    /\ PutReturns(i, "err")
    /\ UNCHANGED putVars

(* storage.Put: defer cancel() *)
CancelContext(i) ==
    /\ upc[i] = "cancel"
    /\ ctxDone' = [ctxDone EXCEPT ![i] = TRUE]
    /\ UpTo(i, IF ures[i] = "ok" THEN "stats" ELSE "close")
    /\ UNCHANGED <<ures, errs, store, pend, cpc, pipeVars, archVars, mainVars>>

(* rebuild reads the byte counts, which the archiver writes. *)
ReadStats(i) ==
    /\ upc[i] = "stats"
    /\ UpTo(i, "close")
    /\ UNCHANGED <<ures, errs, pipeVars, archVars, putVars, mainVars>>

(* Mutant: the read end stays open when Put has failed. *)
KeepReadEnd(i) ==
    /\ upc[i] = "close"
    /\ IF ures[i] = "ok" THEN CloseReader(i) ELSE UNCHANGED pipeVars
    /\ UpTo(i, IF ures[i] = "ok" THEN "wg" ELSE "addErr")
    /\ UNCHANGED <<ures, errs, archVars, putVars, mainVars>>

(* pr.CloseWithError(err) and the deferred pr.Close() *)
CloseReadEnd(i) ==
    /\ upc[i] = "close"
    /\ CloseReader(i)
    /\ UpTo(i, IF ures[i] = "ok" THEN "wg" ELSE "addErr")
    /\ UNCHANGED <<ures, errs, archVars, putVars, mainVars>>

(* Mutant: the error is not added. *)
ForgetError(i) ==
    /\ upc[i] = "addErr"
    /\ UpTo(i, "wg")
    /\ UNCHANGED <<errs, ures, pipeVars, archVars, putVars, mainVars>>

(* errs.Add *)
AddError(i) ==
    /\ upc[i] = "addErr"
    /\ errs' = errs \cup {i}
    /\ UpTo(i, "wg")
    /\ UNCHANGED <<ures, pipeVars, archVars, putVars, mainVars>>

(* defer wg.Done() *)
WaitGroupDone(i) ==
    /\ upc[i] = "wg"
    /\ UpTo(i, "done")
    /\ UNCHANGED <<ures, errs, pipeVars, archVars, putVars, mainVars>>

Uploader(i) ==
    \/ ReceiveError(i) \/ ReceiveClosed(i) \/ ReceiveDone(i)
    \/ CancelContext(i) \/ ReadStats(i) \/ CloseReadEnd(i)
    \/ AddError(i) \/ WaitGroupDone(i)

-----------------------------------------------------------------------------
(* The process and its end. *)

Alive == mpc # "exited"

ArchiverStep(i) ==
    Alive /\ Archive(i) /\ UNCHANGED <<conf, putVars, mainVars, upVars>>

CopyStep(i) ==
    Alive /\ Copy(i, run) /\ UNCHANGED <<conf, archVars, mainVars, upVars>>

UploaderStep(i) == Alive /\ Uploader(i) /\ UNCHANGED conf

TimeoutStep(i) == Alive /\ Timeout(i) /\ UNCHANGED conf

MainStep == Main /\ UNCHANGED conf

(* The process ends, with every goroutine in it: main returns after Rebuild
   has, or the build is cancelled before that. *)
Exit ==
    /\ Alive
    /\ mpc' = "exited"
    /\ offer' = AtAll(NoChunk) /\ rclosed' = AtAll(FALSE) /\ werr' = AtAll("none")
    /\ apc' = AtAll("idle") /\ ent' = AtAll(0)
    /\ aerr' = AtAll(FALSE) /\ broken' = AtAll(FALSE)
    /\ pend' = AtAll(NoObject) /\ cpc' = AtAll("idle") /\ ctxDone' = AtAll(FALSE)
    /\ idx' = 1
    /\ upc' = AtAll("idle")
    /\ ures' = AtAll("none")
    /\ errs' = {}
    /\ UNCHANGED <<conf, store, run, outcome>>

(* A later build runs the plugin again. *)
StartRun ==
    /\ ~Alive /\ run < MaxRuns
    /\ run' = run + 1
    /\ mpc' = "loop"
    /\ UNCHANGED <<conf, pipeVars, archVars, putVars, upVars, idx, outcome>>

NoMoreRuns == ~Alive /\ run = MaxRuns /\ UNCHANGED vars

Next ==
    \/ MainStep
    \/ \E i \in Mounts : ArchiverStep(i) \/ CopyStep(i) \/ UploaderStep(i)
                            \/ TimeoutStep(i)
    \/ Exit \/ StartRun \/ NoMoreRuns

Spec == Init /\ [][Next]_vars

-----------------------------------------------------------------------------
(* What the runs guarantee. *)

(* What a run that succeeded leaves behind for one mount. *)
Whole(o) == Complete(o, conf.gzip) \/ (FilesMayShrink /\ Shrunk(o, conf.gzip))

(* An object written by a run whose Rebuild returned nil is a whole archive:
   an archiver error, a failed or partial write, a timeout or a cancelled copy
   of that run cannot have cut it, however its goroutines were interleaved
   (rebuilder.go:105-136 and the Put of every backend). *)
OkRunsLeaveWholeArchives ==
    \A i \in Mounts : 
        (Present(store[i]) /\ outcome[store[i].ver] = "ok") => Whole(store[i])

(* When Rebuild returns nil the cache of every mount is all that was asked for
   (README.md:35, archive.go:24).  It is not: see the README. *)
OkMeansComplete ==
    outcome[run] = "ok" => \A i \in Mounts : Complete(store[i], conf.gzip)

(* When Rebuild returns nil every mount has an object in storage, with override
   the object of this very run, and no goroutine is left that could still
   touch an object (rebuilder.go:55-95). *)
OkMeansCached ==
    outcome[run] = "ok" =>
        \A i \in Mounts :
            /\ Present(store[i])
            /\ conf.override => store[i].ver = run
            /\ apc[i] \in {"idle", "done"}
            /\ cpc[i] \in {"idle", "done"}

(* An error that a copy goroutine wants to report on its unbuffered channel
   when nobody receives any more belongs to a Put that has returned an error
   already: no failure turns into a success (the select of every Put). *)
NoErrorLost ==
    \A i \in Mounts :
        (cpc[i] \in Sending /\ upc[i] # "put") => ures[i] = "err"

(* The byte count that the uploader logs after a successful Put is not being
   written at that time by the archiver goroutine: the two share the variable
   `written` and no lock (rebuilder.go:108-145). *)
StatsAfterWrite ==
    \A i \in Mounts : upc[i] = "stats" => apc[i] = "done"

(* Without override an object that an earlier run has left is never changed,
   neither by the uploader nor by a goroutine that outlives its Put
   (rebuilder.go:62-72). *)
NoOverrideKeeps ==
    [][ \A i \in Mounts :
            (~conf.override /\ Present(store[i]) /\ store[i].ver < run)
                => UNCHANGED store[i] ]_vars
=============================================================================
