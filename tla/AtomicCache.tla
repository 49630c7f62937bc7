----------------------------- MODULE AtomicCache -----------------------------
(***************************************************************************)
(* What a cache promises to the builds that share it: under every path     *)
(* there is nothing or one whole archive, an archive appears in one step,  *)
(* without override it is then left alone, and a run that reports success  *)
(* has every one of its paths in the cache.                                *)
(***************************************************************************)
EXTENDS Naturals

CONSTANTS
    Paths,          \* the paths of the mounts
    MaxRuns         \* bound: runs that are considered

VARIABLES
    override,       \* runs replace what they find
    cached,         \* cached[p]: the run whose archive is there, 0 for none
    current,        \* number of the current run
    succeeded       \* runs that have reported success

cacheVars == <<override, cached, current, succeeded>>

CacheInit ==
    /\ override \in BOOLEAN
    /\ cached = [p \in Paths |-> 0]
    /\ current = 1
    /\ succeeded = {}

(* The archive of the current run for one path becomes visible. *)
Publish(p) ==
    /\ current \notin succeeded
    /\ override \/ cached[p] = 0
    /\ cached' = [cached EXCEPT ![p] = current]
    /\ UNCHANGED <<override, current, succeeded>>

(* The current run reports success. *)
Succeed ==
    /\ \A p \in Paths : cached[p] # 0 /\ (override => cached[p] = current)
    /\ succeeded' = succeeded \cup {current}
    /\ UNCHANGED <<override, cached, current>>

(* The current run is over, whatever it has reported. *)
NextRun ==
    /\ current < MaxRuns
    /\ current' = current + 1
    /\ UNCHANGED <<override, cached, succeeded>>

CacheNext == (\E p \in Paths : Publish(p)) \/ Succeed \/ NextRun

CacheSpec == CacheInit /\ [][CacheNext]_cacheVars
=============================================================================
