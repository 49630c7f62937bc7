-------------------------- MODULE MCCachePipeline ---------------------------
(***************************************************************************)
(* Values of the constants of CachePipeline for the model checker.         *)
(***************************************************************************)
EXTENDS CachePipeline

(* Nothing is on disk when the restore starts. *)
EmptyDisk == [ver: {0}, state: {"absent"}]

(* An object is committed in one step. *)
SDKTars == [kind: {"azure", "s3"}, override: BOOLEAN, gzip: {FALSE}]
=============================================================================
