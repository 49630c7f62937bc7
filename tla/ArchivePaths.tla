---------------------------- MODULE ArchivePaths ----------------------------
(***************************************************************************)
(* Where the files of a mount go: the name a file gets in the archive when *)
(* the mount is rebuilt (plugin.go, rebuilder.go, tar.go), and the place   *)
(* it is extracted to when the mount is restored, perhaps in another       *)
(* working directory.  A behaviour is the way of one file of one mount.    *)
(*                                                                         *)
(* Mounts are written as filepath.Clean would write them.                  *)
(***************************************************************************)
EXTENDS FilePath

CONSTANTS
    Dirs,           \* absolute paths that may be a working directory
    MountPaths,     \* what may be in Config.Mount
    Roots,          \* what Config.LocalRoot may be
    Files           \* relative paths that may be below a mount, and "."

ASSUME DirsAssumption == \A d \in Dirs : d \in Path /\ d.abs /\ Plain(d.elems)

ASSUME FilesAssumption == \A f \in Files : f \in Path /\ ~f.abs /\ Plain(f.elems)

(* As filepath.Clean writes a path: ".." comes first, and only in relative ones. *)
IsClean(p) ==
    \A k \in 1..Len(p.elems) :
        /\ p.elems[k] # "."
        /\ p.elems[k] = ".." => ~p.abs /\ \A j \in 1..k : p.elems[j] = ".."

ASSUME MountPathsAssumption == \A m \in MountPaths : m \in Path /\ IsClean(m)

Dot == Relative(<<>>)

(* Config.LocalRoot is empty. *)
Unset == [abs |-> FALSE, elems |-> <<"">>]

ASSUME RootsAssumption == \A r \in Roots : r = Unset \/ r \in Path

VARIABLES
    phase,      \* what has become of the file
    mount,      \* the element of Config.Mount
    file,       \* the file, relative to the mount
    home,       \* the working directory of the rebuild
    here,       \* the working directory of the restore
    root,       \* Archive.root of the rebuild
    name,       \* the name of the file in the archive
    target      \* what it was extracted to

pathVars == <<phase, mount, file, home, here, root, name, target>>

PathTypeOK ==
    /\ phase \in {"mounted", "archived", "extracted", "failed"}
    /\ mount \in MountPaths /\ file \in Files
    /\ home \in Dirs /\ here \in Dirs
    /\ root \in Path
    /\ name \in [abs : {FALSE}, elems : Seq(Element)]
    /\ target \in [abs : {phase = "extracted"}, elems : Seq(Element)]

(* Plugin.Exec: localRoot *)
LocalRoot(dir, configured) == IF configured = Unset THEN dir ELSE Clean(configured)

PathInit ==
    /\ phase = "mounted"
    /\ mount \in MountPaths /\ file \in Files
    /\ home \in Dirs /\ here = home
    /\ \E r \in Roots : root = LocalRoot(home, r)
    /\ name = Dot /\ target = Dot

-----------------------------------------------------------------------------

(* Mutant: no name is made. *)
KeepPath(parent, path) == {path}

(* Mutant: the name of a file is its last element. *)
BaseOnly(parent, path) == {Base(path)}

(* The loop over strings.HasPrefix(rel, "../"): leading ".." go as long as
   something follows them. *)
StripUps(elems) ==
    LET last == Len(elems)
        kept == CHOOSE k \in 1..last :
                    /\ \A j \in 1..(k - 1) : elems[j] = ".."
                    /\ k = last \/ elems[k] # ".."
    IN  IF elems = <<>> THEN elems ELSE SubSeq(elems, kept, last)

(* relative(parent, path): what it may return, nothing when it fails. *)
RelativeNames(parent, path) ==
    IF RelFails(parent, Dir(path)) THEN {}
    ELSE {Join(Clean(Relative(StripUps(rel))), Base(path)) : rel \in RelElems(parent, Dir(path))}

(* rebuilder.rebuild: Abs(Clean(src)); filepath.Walk comes to the file. *)
SourcePath(f) == Join(Abs(home, mount), f)

(* writeToArchive: h.Name *)
WriteName ==
    /\ phase = "mounted"
    /\ name' \in RelativeNames(root, SourcePath(file))
    /\ phase' = "archived"
    /\ UNCHANGED <<mount, file, home, here, root, target>>

(* The walk fails with the error of relative. *)
WriteNameFails ==
    /\ phase = "mounted"
    /\ RelativeNames(root, SourcePath(file)) = {}
    /\ phase' = "failed"
    /\ UNCHANGED <<mount, file, home, here, root, name, target>>

(* Mutant: the name is taken to be relative to the mount. *)
JoinName(dst, n) == {Join(dst, n)}

(* Archive.Extract: the target of a header. *)
Targets(dst, n) ==
    IF dst = n THEN {n} ELSE {Join(dst, rel) : rel \in RelativeNames(dst, n)}

(* Extract in a run that restores the mount in the working directory dir. *)
ExtractFile(dir) ==
    /\ phase = "archived"
    /\ here' = dir
    /\ target' \in {Abs(dir, t) : t \in Targets(mount, name)}
    /\ phase' = "extracted"
    /\ UNCHANGED <<mount, file, home, root, name>>

(* Extract fails with the error of relative. *)
ExtractFileFails ==
    /\ phase = "archived"
    /\ Targets(mount, name) = {}
    /\ phase' = "failed"
    /\ UNCHANGED <<mount, file, home, here, root, name, target>>

PathDone == phase \in {"extracted", "failed"} /\ UNCHANGED pathVars

PathNext ==
    \/ WriteName \/ WriteNameFails
    \/ (\E dir \in Dirs : ExtractFile(dir)) \/ ExtractFileFails
    \/ PathDone

PathSpec == PathInit /\ [][PathNext]_pathVars

-----------------------------------------------------------------------------

(* A file comes back to its place below the mount (README.md:158, 160, 208).
   For an absolute mount it does not: see the README. *)
RoundTrip ==
    /\ phase # "failed"
    /\ phase = "extracted" => target = Join(Abs(here, mount), file)

(* The mount is below the working directory, which is the root. *)
Below ==
    /\ root = home
    /\ ~mount.abs /\ mount # Dot /\ mount.elems[1] # ".."

(* The files of a mount below the working directory come back to their places,
   also in another working directory: the two uses of relative, on the absolute
   path of a file and on its name, undo each other (tar.go:87, tar.go:181-191,
   rebuilder.go:100). *)
MountsBelowReturn == Below => RoundTrip

(* No two files of a mount share a name, although relative drops "../",
   unless the root is inside the mount (tar.go:116-130). *)
NamesApart ==
    phase = "archived" =>
        \A f \in Files \ {file} :
            \/ IsStrictPrefix(SourcePath(Dot).elems, root.elems)
            \/ name \notin RelativeNames(root, SourcePath(f))
=============================================================================
