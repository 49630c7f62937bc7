----------------------------- MODULE CacheKeys ------------------------------
(***************************************************************************)
(* Where the archive of a mount is kept: the key a run generates           *)
(* (key/generator/*.go, plugin.go:84-95, rebuilder.go:153-169,             *)
(* restorer.go:119-135) and the remote path made of it (rebuilder.go:52,   *)
(* 60; restorer.go:48, 52).                                                *)
(*                                                                         *)
(* A key is a sequence of path elements, since it only ever becomes a part *)
(* of a path.                                                              *)
(***************************************************************************)
EXTENDS FilePath

(* What the cache key template is: there is none, it does not parse, it
   parses and fails when it is executed, or it asks for one thing. *)
Templates == {"unset", "unparsable", "failing", "branch", "checksum", "epoch"}

(* An environment is what a run generates its key from: branch, a record of
   the elements of its name and its md5; sum, the digest of the file that is
   named in the template; time. *)

(* The file cannot be read. *)
NoSum == ""

(* Mutant: the default parts of Hash are forgotten. *)
HashOfNothing(env) == {<<"md5">>}

(* Hash.Generate() with the branch as its default part *)
Hash(env) == {<<env.branch.md5>>}

(* Static.Generate() with the branch as its default part *)
Static(env) == {env.branch.elems}

(* Metadata.Generate: what it may return, nothing when it fails. *)
FromTemplate(template, env) ==
    CASE template = "branch"   -> {env.branch.elems}
      [] template = "checksum" -> {IF env.sum = NoSum THEN <<>> ELSE <<env.sum>>}
      [] template = "epoch"    -> {<<env.time>>}
      [] OTHER                 -> {}

(* Plugin.Exec: the generator and the fallback generator *)
Generator(template, env) ==
    IF template = "unset" THEN Hash(env) ELSE FromTemplate(template, env)

FallbackGenerator(template, env) ==
    IF template = "unset" THEN Static(env) ELSE Hash(env)

(* Generator.Check *)
Parses(template) == template # "unparsable"

(* rebuilder.generateKey *)
RebuildKeys(template, env) ==
    IF Generator(template, env) # {} THEN Generator(template, env)
    ELSE FallbackGenerator(template, env)

(* Mutant: a restore uses the other fallback. *)
StaticFallback(template, env) ==
    IF Generator(template, env) # {} THEN Generator(template, env)
    ELSE Static(env)

(* restorer.generateKey *)
RestoreKeys(template, env) ==
    IF Generator(template, env) # {} THEN Generator(template, env)
    ELSE FallbackGenerator(template, env)

(* Mutant: the key is left out. *)
PathWithoutKey(namespace, key, mount) == Join(Clean(namespace), mount)

(* filepath.Join(filepath.ToSlash(filepath.Clean(namespace)), key, mount) *)
RemotePath(namespace, key, mount) ==
    Join(Join(Clean(namespace), Relative(key)), mount)
=============================================================================
