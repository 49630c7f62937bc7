--------------------------- MODULE RebuilderCache ---------------------------
(***************************************************************************)
(* With a backend whose SDK commits an object in one step, and only after  *)
(* end of file (s3, azure), the runs of Rebuilder implement AtomicCache.   *)
(***************************************************************************)
EXTENDS Rebuilder, StoredObjects

(* The run whose whole archive is the object o, 0 if there is no object; what
   is cut is no archive of any run. *)
ArchiveOf(o) ==
    IF ~Present(o) THEN 0
    ELSE IF Complete(o, conf.gzip) THEN o.ver ELSE MaxRuns + 1

Cache == INSTANCE AtomicCache WITH
    Paths <- Mounts,
    override <- conf.override,
    cached <- [i \in Mounts |-> ArchiveOf(store[i])],
    current <- run,
    succeeded <- {r \in Runs : outcome[r] = "ok"}

(* Uploads of runs that fail, time out, race their own cancellation or are
   killed never show a cut archive, and what a success reports is there
   (rebuilder.go:38-149 over s3.go:97-117 and azure.go:112-126). *)
ImplementsCache == Cache!CacheSpec

(* Whatever fails, is killed or runs on after its caller has left, storage
   holds nothing but what StoredObjects lists: what a restore must be ready
   for (filesystem.go:84-109, sftp.go:97-126, gcs.go:106-133, s3.go:97-117,
   azure.go:112-126). *)
ObjectsLeft == \A i \in Mounts : store[i] \in Leavings(store[i].ver, FilesMayShrink)
=============================================================================
