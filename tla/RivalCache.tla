----------------------------- MODULE RivalCache ------------------------------
(***************************************************************************)
(* What a cache promises under one path to builds that rebuild and restore *)
(* it at the same time.  Where objects are committed, there is the archive *)
(* of one build at a time, and a restore gets one of those.  Where a file  *)
(* is written in place, the most that can be said is whose data there may  *)
(* be.  Without override only those builds write that have looked while    *)
(* nothing was there: not "nobody replaces what is there".                 *)
(***************************************************************************)
CONSTANT Builds

VARIABLES
    override,       \* builds replace what they find
    atomic,         \* an object is committed
    there,          \* something is cached
    cached,         \* builds whose data is cached
    leave,          \* builds that have looked while nothing was there, and
                    \* have not finished
    got,            \* got[b]: builds whose data build b has restored
    ok              \* builds that have reported success

rivalVars == <<override, atomic, there, cached, leave, got, ok>>

RivalInit ==
    /\ override \in BOOLEAN /\ atomic \in BOOLEAN
    /\ there = FALSE /\ cached = {}
    /\ leave = {}
    /\ got = [b \in Builds |-> {}]
    /\ ok = {}

Look(b) ==
    /\ ~there
    /\ leave' = leave \cup {b}
    /\ UNCHANGED <<override, atomic, there, cached, got, ok>>

(* An archive is published, or a file is created or written to. *)
Write(b) ==
    /\ override \/ b \in leave
    /\ b \notin ok
    /\ there' = TRUE
    /\ cached' \in SUBSET (IF atomic THEN {b} ELSE cached \cup {b})
    /\ leave' \in {leave, leave \ {b}}
    /\ UNCHANGED <<override, atomic, got, ok>>

Fetch(b) ==
    /\ there /\ b \notin ok
    /\ IF atomic THEN got[b] = {} /\ got' = [got EXCEPT ![b] = cached]
       ELSE \E s \in SUBSET cached : got' = [got EXCEPT ![b] = @ \cup s]
    /\ UNCHANGED <<override, atomic, there, cached, leave, ok>>

(* A build ends.  It reports success only if something is there. *)
Finish(b) ==
    /\ leave' = leave \ {b}
    /\ \/ ok' = ok
       \/ there /\ ok' = ok \cup {b}
    /\ UNCHANGED <<override, atomic, there, cached, got>>

RivalNext == \E b \in Builds : Look(b) \/ Write(b) \/ Fetch(b) \/ Finish(b)

RivalSpec == RivalInit /\ [][RivalNext]_rivalVars
=============================================================================
