----------------------------- MODULE MCRebuilder -----------------------------
(***************************************************************************)
(* Values of the constants of Rebuilder for the model checker.             *)
(***************************************************************************)
EXTENDS RebuilderCache, RebuilderProgress, RebuilderInvariant

(* Every backend, mode and format. *)
AllConfigs == Config

(* The configuration in which a doc is contradicted. *)
KeepOnFilesystem == [kind: {"filesystem"}, override: {FALSE}, gzip: {FALSE}]
=============================================================================
