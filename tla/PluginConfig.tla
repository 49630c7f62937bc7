---------------------------- MODULE PluginConfig ----------------------------
(***************************************************************************)
(* The part of plugin.Config (src/internal/plugin/config.go) that steers   *)
(* the transfer of a mount: the storage backend, whether an object already *)
(* in storage is overridden, and the archive format.  A configuration is   *)
(* chosen when the behaviour starts and no step changes it.                *)
(***************************************************************************)
EXTENDS Naturals

CONSTANTS
    Configs,        \* the configurations a run may be started with
    NumMounts       \* Config.Mount has this many entries, all different

(* The backends storage/backend/backend.go knows. *)
Backends == {"azure", "filesystem", "gcs", "s3", "sftp"}

Config == [kind: Backends, override: BOOLEAN, gzip: BOOLEAN]

ASSUME ConfigsAssumption == Configs \subseteq Config

ASSUME MountsAssumption == NumMounts \in Nat

(* Position of a mount in Config.Mount; also the remote path of its object,
   since different mounts have different remote paths. *)
Mounts == 1..NumMounts

(* The same value for every mount. *)
AtAll(x) == [i \in Mounts |-> x]

VARIABLE conf

(* Put writes the object at its final path, byte by byte. *)
InPlace == conf.kind \in {"filesystem", "sftp"}

(* Put runs the copy in a goroutine of its own and selects on ctx.Done();
   s3 and azure call their SDK, which watches the context itself. *)
CopyGoroutine == conf.kind \in {"filesystem", "sftp", "gcs"}
=============================================================================
