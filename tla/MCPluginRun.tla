----------------------------- MODULE MCPluginRun -----------------------------
(***************************************************************************)
(* Values of the constants of PluginRun for the model checker.             *)
(***************************************************************************)
EXTENDS PluginRun

(* The hypothesis of OwnArchivesAlways, for the values below. *)
ASSUME PlainNamesHere == PlainNames

Main == [elems |-> <<"main">>, md5 |-> "m1"]
Side == [elems |-> <<"side">>, md5 |-> "m3"]

(* Two branches, the file is there or not, another time. *)
At(branch, sum, time) == [branch |-> branch, sum |-> sum, time |-> time]
SomeEnvironments ==
    {At(Main, "s1", "t1"), At(Side, "s1", "t1"), At(Main, NoSum, "t1"), At(Main, "s1", "t2")}

A == Relative(<<"a">>)
AB == Relative(<<"a", "b">>)
B == Relative(<<"b">>)

(* One mount, two of them, and pairs that may share a path. *)
SomeMounts == {{A}, {B, AB}, {A, Absolute(<<"a">>)}, {B, Relative(<<"..", "b">>)}}

Repository == Relative(<<"repo">>)

(* Every setting of the plugin, with a backend that is made of one call. *)
OnFilesystem ==
    [template: Templates, override: BOOLEAN, exitCode: BOOLEAN, mounts: SomeMounts,
     kind: {"filesystem"}, given: {{}}]

(* No flag of a backend is given, or all but one, or all. *)
SomeFlags(k) == {{}, Flags(k)} \cup {Flags(k) \ {f} : f \in Flags(k)}

(* Every backend, with some of its flags. *)
OnBackends ==
    UNION {[template: {"unset"}, override: {FALSE}, exitCode: BOOLEAN, mounts: {{B, AB}},
            kind: {k}, given: SomeFlags(k)] : k \in Kinds \ {"filesystem"}}

SomeCommandLines == OnFilesystem \cup OnBackends

(* azure, as README.md:184-186 has it *)
OnAzure ==
    [template: {"unset"}, override: {TRUE}, exitCode: {TRUE}, mounts: {{A}},
     kind: {"azure"},
     given: {{"azure.account-name", "azure.account-key", "azure.blob-container-name"}}]
=============================================================================
