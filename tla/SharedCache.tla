----------------------------- MODULE SharedCache -----------------------------
(***************************************************************************)
(* What a cache promises to a build that restores from it while others     *)
(* fill it: under every path it gets one archive that was there at one     *)
(* moment of the restore, or the restore fails.                            *)
(***************************************************************************)
EXTENDS AtomicCache

VARIABLES
    fetched,        \* fetched[p]: the archive the restore has got hold of
    disk            \* disk[p]: the archive that was restored, 0 for none

sharedVars == <<cacheVars, fetched, disk>>

SharedInit ==
    /\ CacheInit
    /\ fetched = [p \in Paths |-> 0]
    /\ disk = [p \in Paths |-> 0]

(* The restore gets hold of what is cached now. *)
Fetch(p) ==
    /\ fetched[p] = 0 /\ cached[p] # 0
    /\ fetched' = [fetched EXCEPT ![p] = cached[p]]
    /\ UNCHANGED <<cacheVars, disk>>

(* The restore reports success: it has restored what it has fetched. *)
Deliver ==
    /\ \A p \in Paths : fetched[p] # 0
    /\ disk' = fetched
    /\ UNCHANGED <<cacheVars, fetched>>

(* The restore is over. *)
Forget ==
    /\ fetched' = [p \in Paths |-> 0]
    /\ UNCHANGED <<cacheVars, disk>>

SharedNext ==
    \/ CacheNext /\ UNCHANGED <<fetched, disk>>
    \/ \E p \in Paths : Fetch(p)
    \/ Deliver \/ Forget

SharedSpec == SharedInit /\ [][SharedNext]_sharedVars
=============================================================================
