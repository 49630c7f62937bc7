------------------------------ MODULE Restorer ------------------------------
(***************************************************************************)
(* A run of the plugin in restore mode: restorer.Restore and restorer.     *)
(* restore (src/cache/restorer.go), storage.Get (src/storage/storage.go),  *)
(* the backend (BackendGet) and the extraction (Extractor).                *)
(*                                                                         *)
(* Restore starts a worker goroutine for every mount and waits for all of  *)
(* them.  A worker extracts what it reads from a pipe; a downloader that   *)
(* it has started calls Get, which copies the object into the pipe in a    *)
(* goroutine of its own.                                                   *)
(***************************************************************************)
EXTENDS Extractor, StoredObjects

VARIABLES
    rpc,        \* where Restore is
    next,       \* the mount its loop is at
    dpc,        \* dpc[i]: where the downloader of mount i is
    gres,       \* gres[i]: what Get has returned to it
    wpc,        \* wpc[i]: where the worker of mount i is
    rerrs,      \* mounts whose worker has added an error
    rres        \* what Restore has returned

downVars == <<dpc, gres>>
workVars == <<wpc, rerrs>>
loopVars == <<rpc, next, rres>>
restoreVars == <<pipeVars, getVars, extVars, downVars, workVars, loopVars>>
allVars == <<conf, store, restoreVars>>

RestoreTypeOK ==
    /\ conf \in Configs
    /\ GetTypeOK /\ ExtTypeOK
    /\ rpc \in {"loop", "returned", "exited"}
    /\ next \in 1..(NumMounts + 1)
    /\ dpc \in [Mounts -> {"idle", "get", "cancel", "fail", "close", "done"}]
    /\ gres \in [Mounts -> {"none", "ok", "err"}]
    /\ wpc \in [Mounts -> {"idle", "extract", "addErr", "wg", "done"}]
    /\ rerrs \subseteq Mounts
    /\ rres \in {"none", "ok", "err"}

RestoreInit ==
    /\ PipeInit /\ GetInit /\ ExtInit
    /\ rpc = "loop"
    /\ next = 1
    /\ dpc = AtAll("idle")
    /\ gres = AtAll("none")
    /\ wpc = AtAll("idle")
    /\ rerrs = {}
    /\ rres = "none"

-----------------------------------------------------------------------------
(* Restore: the loop over the mounts. *)

(* Mutant: the pipe is closed when the downloader starts, not by its defer. *)
StartWithoutDefer(i) ==
    /\ rpc = "loop" /\ next = i
    /\ next' = next + 1
    /\ wpc' = [wpc EXCEPT ![i] = "extract"]
    /\ dpc' = [dpc EXCEPT ![i] = "close"]
    /\ StartGet(i)
    /\ StartExtract(i)
    /\ UNCHANGED <<rpc, rres, rerrs, gres, pipeVars>>

(* wg.Add(1); go func(src, dst string) { ... }(src, dst): the worker makes the
   pipe, starts the downloader, which calls Get, and calls Extract. *)
StartWorker(i) ==
    /\ rpc = "loop" /\ next = i
    /\ next' = next + 1
    /\ wpc' = [wpc EXCEPT ![i] = "extract"]
    /\ dpc' = [dpc EXCEPT ![i] = "get"]
    /\ StartGet(i)
    /\ StartExtract(i)
    /\ UNCHANGED <<rpc, rres, rerrs, gres, pipeVars>>

(* Mutant: Restore does not wait. *)
ReturnBeforeWorkers ==
    /\ rpc = "loop" /\ next = NumMounts + 1
    /\ rpc' = "returned"
    /\ rres' = IF rerrs = {} THEN "ok" ELSE "err"
    /\ UNCHANGED <<next, pipeVars, getVars, extVars, downVars, workVars>>

(* Mutant: wg.Add(1) was called once for all workers. *)
WaitForOneWorker ==
    /\ rpc = "loop" /\ next = NumMounts + 1
    /\ \E i \in Mounts : wpc[i] = "done"
    /\ rpc' = "returned"
    /\ rres' = IF rerrs = {} THEN "ok" ELSE "err"
    /\ UNCHANGED <<next, pipeVars, getVars, extVars, downVars, workVars>>

(* wg.Wait(), then errs.Err() *)
WaitForWorkers ==
    /\ rpc = "loop" /\ next = NumMounts + 1
    /\ \A i \in Mounts : wpc[i] = "done"
    /\ rpc' = "returned"
    /\ rres' = IF rerrs = {} THEN "ok" ELSE "err"
    /\ UNCHANGED <<next, pipeVars, getVars, extVars, downVars, workVars>>

Loop == (\E i \in Mounts : StartWorker(i)) \/ WaitForWorkers

-----------------------------------------------------------------------------
(* The downloader of one mount. *)

DownTo(i, pc) == dpc' = [dpc EXCEPT ![i] = pc]

(* The deadline of the Get's context passes. *)
GetTimeout(i) ==
    /\ dpc[i] = "get" /\ ~getDone[i]
    /\ getDone' = [getDone EXCEPT ![i] = TRUE]
    /\ UNCHANGED <<gpc, opened, pos, pipeVars, extVars, downVars, workVars, loopVars>>

(* Get returns to storage.Get. *)
GetReturns(i, res) ==
    /\ dpc[i] = "get"
    /\ DownTo(i, "cancel")
    /\ gres' = [gres EXCEPT ![i] = res]
    /\ UNCHANGED <<opened, pos, getDone, pipeVars>>

(* case err := <-errCh, with an error that was sent; the goroutine is through
   after it. *)
ReceiveGetError(i) ==
    /\ gpc[i] \in GetSending
    /\ GetTo(i, "finish")
    /\ GetReturns(i, "err")

(* case err := <-errCh, on the closed channel: nil *)
ReceiveGetClosed(i) ==
    /\ gpc[i] = "done"
    /\ GetReturns(i, "ok")
    /\ UNCHANGED gpc

(* Mutant: Get waits for its goroutine, whatever the context says. *)
NoGetSelect(i) == FALSE

(* case <-ctx.Done(): the copy goroutine is left behind *)
ReceiveGetDone(i) ==
    /\ getDone[i]
    /\ GetReturns(i, "err")
    /\ UNCHANGED gpc

(* Mutant: the error of Get is only logged. *)
GetErrorDropped(i) ==
    /\ dpc[i] = "cancel"
    /\ getDone' = [getDone EXCEPT ![i] = TRUE]
    /\ DownTo(i, "close")
    /\ UNCHANGED <<gpc, opened, pos, gres, pipeVars>>

(* storage.Get: defer cancel() *)
CancelGet(i) ==
    /\ dpc[i] = "cancel"
    /\ getDone' = [getDone EXCEPT ![i] = TRUE]
    /\ DownTo(i, IF gres[i] = "ok" THEN "close" ELSE "fail")
    /\ UNCHANGED <<gpc, opened, pos, gres, pipeVars>>

(* pw.CloseWithError(err) *)
FailPipe(i) ==
    /\ dpc[i] = "fail"
    /\ CloseWriter(i, "err")
    /\ DownTo(i, "close")
    /\ UNCHANGED <<gres, getVars>>

(* The downloader's deferred pw.Close() *)
ClosePipeDown(i) ==
    /\ dpc[i] = "close"
    /\ CloseWriter(i, "eof")
    /\ DownTo(i, "done")
    /\ UNCHANGED <<gres, getVars>>

Download(i) ==
    /\ \/ ReceiveGetError(i) \/ ReceiveGetClosed(i) \/ ReceiveGetDone(i)
       \/ CancelGet(i) \/ FailPipe(i) \/ ClosePipeDown(i)
    /\ UNCHANGED <<extVars, workVars, loopVars>>

-----------------------------------------------------------------------------
(* The worker of one mount. *)

WorkTo(i, pc) == wpc' = [wpc EXCEPT ![i] = pc]

(* Mutant: the read end stays open. *)
KeepReadOpen(i) ==
    /\ wpc[i] = "extract" /\ xpc[i] = "close"
    /\ ExtTo(i, "done")
    /\ WorkTo(i, IF xerr[i] THEN "addErr" ELSE "wg")
    /\ UNCHANGED <<pipeVars, cur, xerr, local, rerrs>>

(* Extract has returned: pr.CloseWithError(err) and the deferred pr.Close() *)
CloseRead(i) ==
    /\ wpc[i] = "extract" /\ xpc[i] = "close"
    /\ CloseReader(i)
    /\ ExtTo(i, "done")
    /\ WorkTo(i, IF xerr[i] THEN "addErr" ELSE "wg")
    /\ UNCHANGED <<cur, xerr, local, rerrs>>

(* errs.Add *)
AddRestoreError(i) ==
    /\ wpc[i] = "addErr"
    /\ rerrs' = rerrs \cup {i}
    /\ WorkTo(i, "wg")
    /\ UNCHANGED <<pipeVars, extVars>>

(* defer wg.Done() *)
WorkerDone(i) ==
    /\ wpc[i] = "wg"
    /\ WorkTo(i, "done")
    /\ UNCHANGED <<rerrs, pipeVars, extVars>>

Work(i) ==
    /\ CloseRead(i) \/ AddRestoreError(i) \/ WorkerDone(i)
    /\ UNCHANGED <<getVars, downVars, loopVars>>

-----------------------------------------------------------------------------
(* The process and its end. *)

Running == rpc # "exited"

GetCopyStep(i) == GetCopy(i) /\ UNCHANGED <<extVars, downVars, workVars, loopVars>>

ExtractStep(i) == Extract(i) /\ UNCHANGED <<getVars, downVars, workVars, loopVars>>

(* The process ends after Restore has returned, or is killed before, with
   every goroutine in it; storage and the files on disk stay. *)
RestoreExit ==
    /\ rpc' = "exited" /\ next' = 1
    /\ offer' = AtAll(NoChunk) /\ rclosed' = AtAll(FALSE) /\ werr' = AtAll("none")
    /\ gpc' = AtAll("idle") /\ opened' = AtAll(NoObject) /\ pos' = AtAll(0)
    /\ getDone' = AtAll(FALSE)
    /\ xpc' = AtAll("idle") /\ cur' = AtAll(0) /\ xerr' = AtAll(FALSE)
    /\ dpc' = AtAll("idle") /\ gres' = AtAll("none")
    /\ wpc' = AtAll("idle") /\ rerrs' = {}
    /\ UNCHANGED <<local, rres>>

(* A step of the process. *)
RestoreStep ==
    /\ Running
    /\ \/ Loop \/ RestoreExit
       \/ \E i \in Mounts : \/ GetCopyStep(i) \/ ExtractStep(i)
                            \/ Download(i) \/ GetTimeout(i) \/ Work(i)

RestoreDone == ~Running /\ UNCHANGED restoreVars

(* One run over the objects that earlier runs have left; nobody writes to
   storage while it runs. *)
RestoreSpecInit ==
    /\ conf \in Configs
    /\ store \in [Mounts -> Leavings(1, TRUE)]
    /\ RestoreInit

RestoreNext == (RestoreStep \/ RestoreDone) /\ UNCHANGED <<conf, store>>

RestoreSpec == RestoreSpecInit /\ [][RestoreNext]_allVars

-----------------------------------------------------------------------------
(* What a restore guarantees. *)

(* Entry k of mount i is on disk as run v has archived it, but for the end of
   a longer file that was there. *)
InPlaceFrom(v, i, k) == local[i][k] \in [ver: {v}, state: {"extracted", "tail"}]

(* When Restore returns nil, every mount has all that its object holds, and
   its other files are as they were: no failed or late download, no refused
   write and no cut entry is taken for the end of the archive, however
   downloader, copy and extraction are interleaved (restorer.go:79-115). *)
OkMeansExtracted ==
    rres = "ok" =>
        \A i \in Mounts :
            /\ store[i].end \in {"trailer", "torn"} \/ (store[i].end = "open" /\ ~conf.gzip)
            /\ \A k \in 1..NumEntries :
                IF k <= store[i].entries THEN InPlaceFrom(store[i].ver, i, k)
                                         ELSE local[i][k] \in Before

(* Once Restore has returned, nothing is written to a mount any more, although
   downloaders and copies of the run may still be there (restorer.go:67). *)
QuietAfterReturn == [][rpc # "loop" => UNCHANGED local]_allVars
=============================================================================
