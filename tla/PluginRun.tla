----------------------------- MODULE PluginRun ------------------------------
(***************************************************************************)
(* Runs of the plugin, one after the other, by the builds of a repository  *)
(* (main.go:566-587, plugin.go): the checks, the mode, what the mode       *)
(* leaves in storage or on disk, and the exit status that the build sees.  *)
(*                                                                         *)
(* How a backend is made is in BackendSetup.  How a mode comes to succeed  *)
(* or fail is the matter of Rebuilder and Restorer; here it is one step,   *)
(* and an object is whole.                                                 *)
(***************************************************************************)
EXTENDS CacheKeys, BackendSetup

CONSTANTS
    Environments,   \* what keys are generated from
    CommandLines,   \* the settings a repository may run the plugin with
    Namespace,      \* Config.RemoteRoot, or the name of the repository
    MaxRuns         \* bound: runs that are considered

ASSUME RunsAssumption == MaxRuns \in Nat \ {0}

ASSUME EnvironmentsAssumption ==
    Environments \subseteq
        [branch: [elems: Seq(Element), md5: STRING], sum: STRING, time: STRING]

ASSUME CommandLinesAssumption ==
    CommandLines \subseteq
        [template: Templates, override: BOOLEAN, exitCode: BOOLEAN,
         mounts: SUBSET Path,
         kind: Kinds, given: SUBSET STRING]

ASSUME NamespaceAssumption == Namespace \in Path

VARIABLES
    template,       \* Config.CacheKeyTemplate
    override,       \* Config.Override
    exitCode,       \* the flag exit-code
    mounts,         \* Config.Mount
    mode,           \* the flags rebuild and restore of the run
    env,            \* the environment of the run
    run,            \* number of the run
    at,             \* where the run is
    err,            \* what Exec returns: nil, some error, or a plugin.Error
    status,         \* exit status of the run
    objects,        \* by remote path: the archive that is there
    restored,       \* by mount: the archive that the run has restored
    reported        \* environments in which a rebuild has exited with 0,
                    \* although exit-code was set

settings == <<template, override, exitCode, mounts>>

pluginVars == <<settings, setupVars, mode, env, run, at, err, status, objects, restored,
                reported>>

Modes == [rebuild: BOOLEAN, restore: BOOLEAN]

(* An archive: what was archived, under which key, by which run. *)
Archives == [mount: UNION {l.mounts : l \in CommandLines}, key: Seq(Element), run: 1..MaxRuns]

PluginTypeOK ==
    /\ [template |-> template, override |-> override, exitCode |-> exitCode,
        mounts |-> mounts, kind |-> kind, given |-> given] \in CommandLines
    /\ mode \in Modes
    /\ env \in Environments /\ run \in 1..MaxRuns
    /\ at \in {"exec", "setup", "mode", "returned", "over"}
    /\ built \in {"none", "ready", "error", "panic"}
    /\ at = "mode" => built = "ready"
    /\ calls # <<>> => at = "setup" /\ Head(calls) \in Calls
    /\ client \subseteq given
    /\ err \in {"nil", "error", "Error"}
    /\ status \in 0..2
    /\ \A p \in DOMAIN objects : objects[p] \in Archives
    /\ DOMAIN restored \subseteq mounts
    /\ \A m \in DOMAIN restored : restored[m] \in Archives
    /\ reported \subseteq Environments

NoArchives == [p \in {} |-> 0]

PluginInit ==
    /\ \E l \in CommandLines :
        /\ template = l.template /\ override = l.override /\ exitCode = l.exitCode
        /\ mounts = l.mounts /\ kind = l.kind /\ given = l.given
    /\ calls = <<>> /\ built = "none" /\ client = {}
    /\ mode \in Modes /\ env \in Environments
    /\ run = 1
    /\ at = "exec" /\ err = "nil" /\ status = 0
    /\ objects = NoArchives /\ restored = NoArchives
    /\ reported = {}

-----------------------------------------------------------------------------
(* Plugin.Exec *)

Returns(e) == at' = "returned" /\ err' = e

(* Both modes are set. *)
ModesExclude ==
    /\ at = "exec" /\ mode.rebuild /\ mode.restore
    /\ Returns("error")
    /\ UNCHANGED <<settings, setupVars, mode, env, run, status, objects, restored, reported>>

(* The working directory is unknown. *)
GetwdFails ==
    /\ at = "exec" /\ ~(mode.rebuild /\ mode.restore)
    /\ Returns("error")
    /\ UNCHANGED <<settings, setupVars, mode, env, run, status, objects, restored, reported>>

(* The template does not parse. *)
CheckFails ==
    /\ at = "exec" /\ ~(mode.rebuild /\ mode.restore)
    /\ ~Parses(template)
    /\ Returns("error")
    /\ UNCHANGED <<settings, setupVars, mode, env, run, status, objects, restored, reported>>

(* The backend is made. *)
Check ==
    /\ at = "exec" /\ ~(mode.rebuild /\ mode.restore)
    /\ Parses(template)
    /\ at' = "setup"
    /\ UNCHANGED <<settings, setupVars, mode, env, run, err, status, objects, restored, reported>>

(* A panic ends the process with status 2, whatever exit-code says. *)
Panics == at' = "over" /\ status' = 2 /\ UNCHANGED err

(* FromConfig makes the backend, and when it is made the cache. *)
SetUp ==
    /\ at = "setup" /\ SetupStep
    /\ CASE built' = "none"  -> UNCHANGED <<at, err, status>>
         [] built' = "ready" -> at' = "mode" /\ UNCHANGED <<err, status>>
         [] built' = "error" -> Returns("error") /\ UNCHANGED status
         [] built' = "panic" -> Panics
    /\ UNCHANGED <<settings, mode, env, run, objects, restored, reported>>

(* A failed mode is a plugin.Error. *)
ModeReturns(ok) == Returns(IF ok THEN "nil" ELSE "Error")

(* Rebuild has archived the mounts of done, or found them archived.  Of mounts
   with the same remote path, uploaded side by side, any may be the last. *)
Rebuilt(done, key) ==
    LET path(m) == RemotePath(Namespace, key, m)
        written == {p \in {path(m) : m \in done} : override \/ p \notin DOMAIN objects}
    IN  \E last \in [written -> done] :
            /\ \A p \in written : path(last[p]) = p
            /\ objects' = [p \in written \cup DOMAIN objects |->
                                IF p \in written THEN [mount |-> last[p], key |-> key, run |-> run]
                                ELSE objects[p]]

RebuildMode(done, ok, key) ==
    /\ at = "mode" /\ mode.rebuild
    /\ ok => done = mounts
    /\ Rebuilt(done, key)
    /\ ModeReturns(ok)
    /\ UNCHANGED <<settings, setupVars, mode, env, run, status, restored, reported>>

(* s3 reads the code of an error that is not the SDK's own, or the ETag of an
   answer that has none, while mounts before this one are being uploaded. *)
RebuildPanics(done, key) ==
    /\ at = "mode" /\ mode.rebuild
    /\ kind = "s3" /\ ~override /\ done # mounts
    /\ Rebuilt(done, key)
    /\ Panics
    /\ UNCHANGED <<settings, setupVars, mode, env, run, restored, reported>>

(* Restore has extracted the archives of the mounts of done. *)
RestoreMode(done, ok, key) ==
    LET path(m) == RemotePath(Namespace, key, m)
    IN  /\ at = "mode" /\ mode.restore
        /\ ok => done = mounts
        /\ \A m \in done : path(m) \in DOMAIN objects
        /\ restored' = [m \in done |-> objects[path(m)]]
        /\ ModeReturns(ok)
        /\ UNCHANGED <<settings, setupVars, mode, env, run, status, objects, reported>>

(* No mode is set. *)
NoMode ==
    /\ at = "mode" /\ ~mode.rebuild /\ ~mode.restore
    /\ Returns("nil")
    /\ UNCHANGED <<settings, setupVars, mode, env, run, status, objects, restored, reported>>

Exec ==
    \/ ModesExclude \/ GetwdFails \/ CheckFails \/ Check \/ SetUp \/ NoMode
    \/ \E done \in SUBSET mounts, ok \in BOOLEAN :
        \/ \E key \in RebuildKeys(template, env) :
            RebuildMode(done, ok, key) \/ RebuildPanics(done, key)
        \/ \E key \in RestoreKeys(template, env) : RestoreMode(done, ok, key)

-----------------------------------------------------------------------------
(* run, and the builds *)

(* Mutant: every error fails the build. *)
FailAlways(e, always) == IF e = "nil" THEN 0 ELSE 1

(* Mutant: known errors have a status of their own. *)
FailApart(e, always) ==
    CASE e = "nil" -> 0 [] e = "error" -> 1 [] e = "Error" -> IF always THEN 3 ELSE 0

(* A plugin.Error is logged and forgotten, unless exit-code is set. *)
ExitStatus(e, always) == IF e = "error" \/ (e = "Error" /\ always) THEN 1 ELSE 0

ExitPlugin ==
    /\ at = "returned"
    /\ at' = "over"
    /\ status' = ExitStatus(err, exitCode)
    /\ reported' = reported \cup
                    {e \in {env} : mode.rebuild /\ exitCode /\ status' = 0}
    /\ UNCHANGED <<settings, setupVars, mode, env, run, err, objects, restored>>

(* The next run of the same settings, in this build or another. *)
NextRun ==
    /\ at = "over" /\ run < MaxRuns
    /\ run' = run + 1
    /\ mode' \in Modes /\ env' \in Environments
    /\ at' = "exec" /\ err' = "nil" /\ status' = 0
    /\ calls' = <<>> /\ built' = "none" /\ client' = {}
    /\ restored' = NoArchives
    /\ UNCHANGED <<settings, kind, given, objects, reported>>

PluginDone == at = "over" /\ run = MaxRuns /\ UNCHANGED pluginVars

PluginNext == Exec \/ ExitPlugin \/ NextRun \/ PluginDone

(* The process runs on and deadlines pass; nobody has to answer. *)
PluginSpec ==
    /\ PluginInit /\ [][PluginNext]_pluginVars
    /\ WF_pluginVars(at = "exec" /\ Exec)
    /\ WF_pluginVars(SetUp /\ (New \/ CallTimesOut))

-----------------------------------------------------------------------------

(* Mounts are relative and do not leave the working directory, and a branch
   that is a key has no slash in its name. *)
FlatSettings(keys, paths) ==
    /\ \A m \in paths : ~m.abs /\ (m.elems # <<>> => m.elems[1] # "..")
    /\ keys = "branch" => \A e \in Environments : Len(e.branch.elems) = 1

Flat == FlatSettings(template, mounts)

(* No name in a key or in a mount of flat settings is "." or "..", and no mount
   begins with the digest of a file that is a key. *)
PlainNames ==
    /\ \A e \in Environments :
        Plain(e.branch.elems) /\ Plain(<<e.branch.md5, e.sum, e.time>>)
    /\ \A l \in CommandLines : FlatSettings(l.template, l.mounts) =>
        \A m \in l.mounts :
            /\ Plain(m.elems)
            /\ l.template = "checksum" /\ m.elems # <<>> =>
                    \A e \in Environments : m.elems[1] # e.sum

(* A restore gets, for each mount, an archive of that mount that was made under
   the key which it would itself use: neither another mount nor, unless the
   template says so, another branch (rebuilder.go:60, restorer.go:52, hash.go,
   metadata.go:47-71). *)
OwnArchives ==
    Flat => \A m \in DOMAIN restored :
                /\ restored[m].mount = m
                /\ restored[m].key \in RebuildKeys(template, env)
                /\ template \in {"unset", "failing"}
                        => restored[m].key = <<env.branch.md5>>

(* What the key of the settings is generated from is the same. *)
SameForKey(e, f) ==
    CASE template = "checksum" -> e.sum = f.sum
      [] template = "epoch"    -> e.time = f.time
      [] OTHER                 -> e.branch = f.branch

(* What a build with exit-code was told to be cached is there for every later
   restore, in any environment in which what the template asks for is the same
   (for epoch that is the second of the rebuild): no error on the way from
   Rebuild to the exit status is forgotten, and both modes ask for the same
   paths (main.go:566-587, plugin.go:124-138, rebuilder.go:153-169,
   restorer.go:119-135, metadata.go:36-71). *)
ReportedIsFound ==
    \A e \in reported : \A f \in {f \in Environments : SameForKey(e, f)} :
        \A key \in RestoreKeys(template, f) : \A m \in mounts :
            RemotePath(Namespace, key, m) \in DOMAIN objects

(* The process has panicked in the existence check of s3, when mounts before
   may have been stored (s3.go:128, 137). *)
CheckPanicked ==
    status = 2 /\ kind = "s3" /\ built = "ready" /\ mode.rebuild /\ ~override

(* A run that fails its build without being asked for it by exit-code, because
   of its settings, of a backend that cannot be made or of a panic, has stored
   and restored nothing.  The one exception is a panic in s3's existence check,
   which may leave mounts of this run stored (main.go:571-587, plugin.go:62-64, 89-91, 107-110). *)
FailedRunsDidNothing ==
    status # 0 /\ ~exitCode =>
        /\ restored = NoArchives
        /\ \A p \in DOMAIN objects : objects[p].run < run \/ CheckPanicked

(* Making a backend ends although the network does not answer, but for
   filesystem, and sftp once it is connected: each call of the others has a
   deadline (azure.go:61-64, gcs.go:49-52, 202-212; sftp.go:36-53 and
   filesystem.go:35 have none). *)
SetupReturns == at = "setup" /\ kind \notin {"filesystem", "sftp"} ~> at # "setup"
=============================================================================
