----------------------------- MODULE MCRestorer ------------------------------
(***************************************************************************)
(* Values of the constants of Restorer for the model checker.              *)
(***************************************************************************)
EXTENDS RestorerProgress, RestorerInvariant

(* Every backend and format; override does not matter to a restore. *)
RestoreConfigs == {c \in Config : ~c.override}

(* Nothing, or a file longer than the archived one. *)
SomeDisk == {f \in Before : f.state # "old"}
=============================================================================
