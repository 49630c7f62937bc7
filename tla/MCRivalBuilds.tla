--------------------------- MODULE MCRivalBuilds ----------------------------
(***************************************************************************)
(* Values of the constants of RivalBuilds for the model checker.           *)
(***************************************************************************)
EXTENDS RivalInvariant

CONSTANTS b1, b2, b3    \* the builds

(* An object is replaced in place, and not compressed. *)
ReplacedInPlace == [kind: {"filesystem"}, override: {TRUE}, gzip: {FALSE}]

(* Builds have no order. *)
AnyBuild == Permutations(Builds)
=============================================================================
