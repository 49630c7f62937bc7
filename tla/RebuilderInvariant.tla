------------------------- MODULE RebuilderInvariant -------------------------
(***************************************************************************)
(* The inductive invariant of Rebuilder: what ties the archiver, the copy, *)
(* the uploader and the object of one mount together while a run is under  *)
(* way.                                                                    *)
(***************************************************************************)
EXTENDS Rebuilder

(* Where the bytes go while they are copied. *)
Target(i) == IF InPlace THEN store[i] ELSE pend[i]

(* The object o once the chunk c, if any, that is on offer has reached it. *)
Arrived(o, c) == IF c = NoChunk THEN o ELSE Received(o, c)

Obj(n, e, f) == [ver |-> run, entries |-> n, end |-> e, footer |-> f]

(* What an archiver without an error has written so far. *)
Written(i) ==
    CASE apc[i] = "body" -> Obj(ent[i] - 1, "torn", FALSE)
      [] apc[i] \in {"entry", "closeTar"} ->
            IF broken[i] THEN Obj(ent[i] - 1, "short", FALSE)
                         ELSE Obj(ent[i], "open", FALSE)
      [] OTHER ->
            IF broken[i] THEN Obj(NumEntries - 1, "short", conf.gzip /\ apc[i] # "closeGzip")
                         ELSE Obj(NumEntries, "trailer", conf.gzip /\ apc[i] # "closeGzip")

(* The archiver: how it ends is what its pipe is closed with. *)
ArchInv(i) ==
    /\ apc[i] \in {"count", "close", "done"} => offer[i] = NoChunk
    /\ werr[i] = IF apc[i] \in {"count", "close", "done"} /\ aerr[i] THEN "err"
                 ELSE IF apc[i] = "done" THEN "eof" ELSE "none"
    /\ (~aerr[i] /\ apc[i] \notin {"idle", "entry", "body"}) => ent[i] = NumEntries
    /\ apc[i] = "closeGzip" => conf.gzip
    /\ apc[i] = "body" => ent[i] > 0
    /\ (broken[i] /\ ~aerr[i]) => FilesMayShrink /\ ent[i] > 0 /\ apc[i] # "body"
    /\ apc[i] = "idle" =>
        /\ ent[i] = 0 /\ ~aerr[i] /\ ~broken[i]
        /\ offer[i] = NoChunk /\ ~rclosed[i]

(* The copy: as long as Put has not failed, what has arrived is what was
   written, and it goes on to the end only with a whole archive. *)
PutInv(i) ==
    /\ Present(pend[i]) => pend[i].ver = run /\ cpc[i] # "idle"
    /\ cpc[i] = "copy" => Target(i).ver = run
    /\ cpc[i] \in {"mkdir", "create"} => InPlace
    /\ (ures[i] # "err" /\ ~aerr[i] /\ ~rclosed[i]) =>
        /\ cpc[i] \in {"mkdir", "create"} => Arrived(EmptyObject(run), offer[i]) = Written(i)
        /\ cpc[i] = "copy" => Arrived(Target(i), offer[i]) = Written(i)
    /\ (ures[i] # "err" /\ cpc[i] \in {"close", "finish", "done"}) =>
        /\ apc[i] = "done"
        /\ LET o == IF cpc[i] = "close" THEN Target(i) ELSE store[i]
           IN  o.ver = run /\ Whole(o)

(* The uploader: it knows of every failure of its Put. *)
UpInv(i) ==
    /\ upc[i] = "idle" <=> cpc[i] = "idle"
    /\ upc[i] = "idle" <=> apc[i] = "idle"
    /\ upc[i] \in {"idle", "put"} <=> ures[i] = "none"
    /\ upc[i] = "stats" => ures[i] = "ok"
    /\ ures[i] = "ok" => cpc[i] = "done"
    /\ (ures[i] = "err" /\ upc[i] \in {"wg", "done"}) => i \in errs

(* The object in storage, seen from Rebuild. *)
StoreInv(i) ==
    /\ Present(store[i]) => store[i].ver \in 1..run
    /\ (upc[i] # "idle" /\ ~conf.override /\ Present(store[i])) => store[i].ver = run
    /\ mpc = "loop" =>
        IF upc[i] = "idle"
        THEN /\ Present(store[i]) => store[i].ver < run
             /\ i < idx => ~conf.override /\ Present(store[i])
        ELSE i < idx

MountInv(i) == ArchInv(i) /\ PutInv(i) /\ UpInv(i) /\ StoreInv(i)

(* Rebuild: it has an outcome once it has returned. *)
MainInv ==
    /\ mpc = "loop" => outcome[run] = "none"
    /\ \A r \in Runs : r > run => outcome[r] = "none"
    /\ mpc = "exited" => idx = 1 /\ \A i \in Mounts : upc[i] = "idle"

(* A run that has succeeded has cached its mounts and touches them no more. *)
QuietInv ==
    /\ OkMeansCached
    /\ outcome[run] = "ok" => \A i \in Mounts : upc[i] \in {"idle", "done"}

(* The inductive invariant of the proofs: it implies the invariants of
   Rebuilder and, with one step, NoOverrideKeeps. *)
IInv ==
    /\ TypeOK
    /\ MainInv /\ QuietInv
    /\ \A i \in Mounts : MountInv(i)
    /\ OkRunsLeaveWholeArchives
=============================================================================
