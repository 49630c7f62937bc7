# drone-cache in TLA+

`drone-cache` is a step of a build. In *rebuild* mode it packs each mounted
directory into an archive and stores it under a key; in *restore* mode it
fetches those archives and unpacks them. Everything between the disk and the
storage backend is streamed: an archive goroutine, a pipe, a copy goroutine and
a caller with a deadline work on every mount at the same time, and what is left
in storage when one of them fails, is late or is killed is what the next build
finds. These modules model that transfer, in both directions, together with the
way files and objects are named on it and what the build is told about it.

Paths below are relative to `src/`. In comments of the modules a bare file name
(`rebuilder.go:105`) is the file of that name in it.

## Inventory

| Part | Code | State it keeps | Operations | Hard behaviour |
|---|---|---|---|---|
| rebuilder | `cache/rebuilder.go`, `internal/errors.go` | wait group, shared error list, byte count shared by two goroutines | `Rebuild`, `rebuild` | early returns leave uploaders running; error and EOF on one pipe; a count read without a lock |
| restorer | `cache/restorer.go` | wait group, shared error list | `Restore`, `restore` | the extraction stops before the download does; the download is given up while it runs |
| archive formats | `archive/tar/tar.go`, `archive/gzip/gzip.go`, `internal/io.go` | position in the stream, the disk | `Create`, `Extract` | deferred `Close` calls write the end of the archive and only log their errors; files change while they are read; end of stream means end of archive; what is on disk is overwritten, replaced or kept |
| names and paths | `archive/tar/tar.go` (`relative`), `internal/plugin/plugin.go` | `Archive.root` | `relative`, target of `Extract` | two uses of one function must undo each other, in another process and directory |
| making a backend | `storage/backend/backend.go`, `New` in `storage/backend/*/*.go`, flags in `main.go` | the client | `FromConfig`, `New` | calls of network services before any mode starts; settings read by name, as text |
| storage | `storage/storage.go`, `storage/backend/*/*.go` | the objects | `Put`, `Get`, `Exists` with a deadline | unbuffered error channels; writes in place; commit racing cancellation; an answer that is lost or late |
| plugin and command line | `internal/plugin/*.go`, `main.go` | the configuration | `Exec`, `run` | one process is one mode; some errors do not fail the build |
| keys | `key/generator/*.go`, `generateKey` | none | `Generate`, `Check` | fallback to another generator; both modes must get the same key |
| flusher | `cache/flusher.go` | none | `Flush` | not called by anything |

How they interact: `Plugin.Exec` builds a backend, wraps it in `storage` (which
gives every operation a context with a timeout) and calls `Rebuild` or
`Restore`. For each mount `Rebuild` starts an *uploader* goroutine; the uploader
starts an *archiver* goroutine that writes the archive into an `io.Pipe`, and
calls `Put`, which on filesystem, sftp and gcs starts a *copy* goroutine that
reads the pipe, reports on an unbuffered channel and is abandoned when the
context is done. `Restore` starts a *worker* per mount; the worker starts a
*downloader* that calls `Get` (again with a copy goroutine) into a pipe, and
extracts from it. Builds share nothing but storage; nothing locks an object.

What makes each part correct:

* rebuilder: a `nil` means that every mount has a whole archive in storage; an
  error of any goroutine reaches the result; every goroutine is released.
* restorer: a `nil` means that every mount is as its archive has it; nothing is
  written after `Restore` has returned; it returns although storage hangs.
* backends: an object shows up whole or, where it is written in place, is never
  reported as stored unless it is; without override a stored object stays.
* archive: what is cut is told from what is whole; names and targets match.
* archive: the tree that was archived comes back, and nothing else on the disk is
  touched; mounts may lie inside one another.
* builds together: a restore gets one archive that was stored, or an error; two
  builds that store at once leave one whole archive.
* making a backend: what is given is used; it ends although nobody answers.
* keys and plugin: both modes ask for the same object; no archive of another mount
  or key is restored; a run that fails its build without `exit-code` has stored and
  restored nothing, but for a panic in s3's existence check; with `exit-code` a
  status of 0 can be relied on.

## Modules

| Module | What it is | Code |
|---|---|---|
| `PluginConfig` | configuration: backend, override, format, mounts | `internal/plugin/config.go` |
| `ArchiveStream` | an archive as the chunks a stream is made of, an object as what has arrived of it | `archive/tar/tar.go` |
| `Pipe` | `io.Pipe`, external | from its use in `rebuilder.go`, `restorer.go` |
| `Archiver` | the archiver goroutine: walk, header, body, trailer, footer, the deferred closes, the end of the pipe | `tar.go:38-160`, `gzip.go:28-38`, `rebuilder.go:105-123` |
| `BackendPut` | `Put` of the five backends | `storage/backend/*/*.go` |
| `Rebuilder` | `Rebuild` and `rebuild`, `Exists`, several runs over one storage; extends the three above | `cache/rebuilder.go` |
| `RebuilderProgress` | fairness, hanging storage, runs without a failure | |
| `RebuilderInvariant` | the inductive invariant `IInv` | |
| `RebuilderProofs` | types, `IInv` and what follows from it; what storage is left with, and that refinement | |
| `AtomicCache` | abstract: under a path there is nothing or a whole archive | |
| `RebuilderCache` | refinement mapping from `Rebuilder` to it; what storage can be left with | |
| `BackendGet` | `Get` of the five backends | `storage/backend/*/*.go` |
| `Extractor` | `Extract` of tar and gzip, files on disk | `tar.go:162-288`, `gzip.go:40-50` |
| `StoredObjects` | the objects a rebuild may leave | |
| `Restorer` | `Restore` and `restore`; extends the three above | `cache/restorer.go` |
| `RestorerProgress` | fairness, hanging storage, restores without a failure | |
| `RestorerInvariant` | the inductive invariant `RestoresInv`, and `ProcessInv`, the part that holds while others write | |
| `RestorerProofs` | theorems about a restore | |
| `SharedCache` | abstract: `AtomicCache` with a build that restores next to the others | |
| `CachePipeline` | builds one after the other, and a process that rebuilds (`RebuilderProgress`) next to one that restores (`RestorerProgress`, instantiated with a pipe of its own) over the same `store` | |
| `CachePipelineProofs` | builds one after the other, and a restore next to rebuilds | |
| `RivalBuilds` | any number of builds that rebuild or restore one path at the same time: the calls of `Exists`, `Put` and `Get` as each backend makes them, write by write where a file is written in place | `rebuilder.go:62-84`, `storage/backend/*/*.go` |
| `RivalCache` | abstract: what a cache promises to such builds; `RivalBuilds` is shown to implement it | |
| `RivalInvariant` | the inductive invariant `RivalsInv` | |
| `RivalProofs` | theorems about rivals, and that they implement `RivalCache` | |
| `ArchiveTree` | directories, files, links, pipes and sockets, from disk to archive and back onto a disk with something on it, in steps between which two workers can meet | `tar.go:38-160`, `193-288`, `restorer.go:51-75` |
| `ArchiveTreeProofs` | theorems about trees and disks, for any of them | |
| `FilePath` | `path/filepath`, external | from its use in `tar.go` |
| `ArchivePaths` | name in the archive and target of the extraction | `tar.go:87-92`, `116-130`, `181-191`, `plugin.go:66-76` |
| `FilePathProofs` | what `Join`, `Clean`, `Front`, `Last` return for paths of any length | |
| `ArchivePathsProofs` | that files come back and names differ | |
| `CacheKeys` | generators, fallback, remote paths | `key/generator/*.go`, `plugin.go:85-96`, `rebuilder.go:153-169`, `restorer.go:119-135` |
| `BackendSetup` | flags, configuration, `FromConfig` and the constructors, with the calls they wait for | `main.go:308-453`, `520-561`, `backend.go:60-92`, `New` of the five backends |
| `PluginRun` | `Exec` and the exit status, over runs of several builds; extends the two above; a mode is one step of it | `plugin.go:44-142`, `main.go:566-587` |
| `PluginProofs` | theorems about runs of the plugin | |
| `MC*` | constants for TLC | |

### State and code

* A stream is a sequence of *chunks*: `header` and `body` per entry, `trailer`
  (tar), `footer` (gzip), and `short` for the body of a file that got shorter
  after its header was written. One chunk stands for however many writes the
  code makes for it; a write that fails half way leaves a `torn` object. An
  entry without a body (directory, link) is given an empty one.
* An object (`store[i]`) records which run wrote it (`ver`), how many entries
  arrived whole, how it ends (`end`) and whether the gzip footer arrived. The
  mount number stands for the remote path, since different mounts have different
  ones.
* Each goroutine has a program counter per mount (`apc` archiver, `cpc` copy of
  `Put`, `upc` uploader; `gpc` copy of `Get`, `dpc` downloader, `xpc`/`wpc`
  worker inside and around `Extract`), and the loops have theirs (`mpc`/`idx`,
  `rpc`/`next`). A step of a counter is a point where another goroutine can see
  or change something: a pipe read or write, a channel send or receive, a call
  of storage, a change of shared data.
* `cpc = "send..."` lasts until the caller receives from the unbuffered channel;
  the caller's `select` is the choice between `ReceiveError`, `ReceiveClosed` and
  `ReceiveDone`. After it has taken `ReceiveDone` nobody receives any more.
* `Exit` (and `RestoreExit`) ends the process, after the mode has returned or at
  any moment before (a cancelled build): all but storage and the disk is gone.
  `StartRun` is the next build.
* `local[i][k]` is what is on disk where entry `k` of mount `i` belongs,
  including what was there before.
* In `PluginRun` storage is a function from remote paths to what was archived:
  mount, key and run. A mode succeeds, or fails after any part of its mounts. An
  *environment* (branch, digest of the file in the template, time) is what a key
  depends on and may be another one in every run.
* In `RivalBuilds` a build is one process with one program counter. An archive is a
  row of blocks; `object.blocks[k]` says whose block is at position `k` of what
  is there, `Nobody` for the zeros that are left where a truncated file is
  written behind its end. A build that has opened a file sees what others write
  to it; one that has asked s3, azure or gcs has `opened[b]`.
* In `ArchiveTree` a disk is a function from paths to nodes (kind, whether the
  mode lets its owner write, contents or target of a link). `Real` follows links, up to `MaxHops` of them.
  `done[m]` is the set of paths that the worker of mount `m` has extracted, and
  `Target(m)` the first of the others in the order of `filepath.Walk` (`Before`).
  The steps of `Extract` are `MkdirAll`, opening and filling a file, `Lstat`,
  `Remove` and `Symlink`; between them another worker can change the same
  directory. `MkdirAll` is one step, and so are opening and filling.
* In `BackendSetup` a setting is given or not, and `client` is the set of those
  that reach the client; `calls` are the network calls that `New` still waits for.
* A path of `ArchivePaths` is a flag and a sequence of elements; `Resolve`, applied to one
  element after the other, is what `Clean` and `Join` do.

Undefined or external outcomes are choices: which ready case a `select` takes,
whether a commit whose answer is lost has happened, whether a plain tar that
continues with the data of another build makes sense (`ReadBlock`), which of two
mounts with the same remote path is uploaded last (`Rebuilt`), whether `filepath.Rel` of `"."`
keeps that dot (`RelElems`).

## Runs

Only `rivals` and `replaced` use symmetry, of the builds: they check safety, and
nothing orders builds. `NumEntries = 2` distinguishes the first, the last and an
inner boundary of an archive.

| Run | Bounds | What it shows |
|---|---|---|
| `runs` | 5 backends, both modes and formats, 1 mount, 2 entries, 2 runs, files shrink, storage may hang | `TypeOK`; what a successful run leaves is whole (`OkRunsLeaveWholeArchives`), its mounts are cached and no goroutine is left (`OkMeansCached`), no error on a channel is lost (`NoErrorLost`), the shared count is read after it was written (`StatsAfterWrite`), storage holds only what `StoredObjects` lists (`ObjectsLeft`), without override an object stays (`NoOverrideKeeps`); `IInv` is an invariant; `RebuildReturns`, `ArchiverEnds` although storage never answers |
| `restore` | every backend and format, every object of `Leavings`, a file on disk or none, 1 mount, 2 entries | `RestoreTypeOK`; `RestoresInv` is an invariant; a `nil` means all of the object is on disk (`OkMeansExtracted`); nothing is written later (`QuietAfterReturn`); `RestoreReturns` although storage never answers |
| `roundTrip` | two rebuilds, then a restore, with no failure; every backend, mode and format; 2 mounts, 2 entries | `HealthyRunsSucceed`, `HealthyRestoreSucceeds`: nothing deadlocks, and azure without override alone is sure to fail; `WritesReleased`: no downloader stays blocked behind the trailer; `MountsComeBack`: when `Restore` returns `nil` every file of both mounts is back, from the run whose object is to be there |
| `shared` | s3 and azure, 2 rebuilds next to a restore, 2 entries | `ImplementsCache`: the rebuilds implement `AtomicCache`; `ImplementsSharedCache`: the restore gets one whole archive that was stored when it asked |
| `rivals` | 3 builds in any mode, archives of 1 or 2 blocks, every backend, mode and format; any failure, deadline or kill | `BuildsTypeOK`; `RivalsInv` is an invariant; `ImplementsRivalCache`: only builds that have found nothing, or override, write, a committed object is one build's, and success means something is there; `OkMeansStored`: after a successful rebuild to s3 or azure a whole archive stays there; `RestoresOneArchive`: a successful restore has one whole archive, but for a plain tar on filesystem, sftp and gcs; `NoHolesLeft`: files that several builds have written end up without gaps |
| `tree` | trees of 5 paths: a directory, file or link as the mount, a directory, file or link below it, something in that and next to it, modes with or without write permission; nothing on disk, or longer files, directories and links; mounts apart or one inside the other; root or not; links skipped or not | `TreeTypeOK`; `TreesComeBack`: on an empty disk a success gives the tree back and nothing else; `FreshRestoresSucceed`: the two reasons for which an extraction onto an empty disk may fail; `ArchivedIsThere`: over anything that is no link, a success means that what was archived is there; `KeepsTheRest`: nothing else is changed or removed |
| `paths` | any mount of up to 2 elements over 3 names, below, outside or absolute; 3 working directories; 15 roots | `PathTypeOK`; every file of a mount below the working directory comes back to its place (`MountsBelowReturn`); no two files of a mount share a name (`NamesApart`) |
| `plugin` | 3 runs in any mode, 6 kinds of template, 4 environments (2 branches, the file there or not, another time), 4 sets of mounts; every backend and an unknown one, with all of its flags, all but one, or none | `PluginTypeOK`; `OwnArchives`: a restore gets archives of its own mounts and key; `ReportedIsFound`: what a build was told to be cached under `exit-code` is where restores ask for it, in every environment that gives the template the same to make a key of; `FailedRunsDidNothing`: a run that fails its build without `exit-code` has stored and restored nothing, unless s3 has panicked in its existence check; `SetupReturns`: making a backend ends although nobody answers |
| `partial`, `replaced`, `paths_absolute`, `settings` | | violated, see below |

Three builds are the fewest in which two write while one reads, and two blocks the
fewest with which one of them can be behind the other. The trees have the depth at
which a directory is made, filled and replaced, and a second mount inside the first.
Two runs of the plugin are enough for what one run does to the object of an
earlier one; `plugin` has a third to restore after two rebuilds. Uploaders side
by side are in `roundTrip`, with no failure; that they do not disturb one
another when something fails is what the theorems below show, for any number of
mounts, entries and runs.

In `CachePipeline` the process that restores meets no failure in run `shared` but
that of finding nothing: any other could only end it with an error, which the run
`restore` covers and `SharedCache` ignores. `CHECK_DEADLOCK` is never switched off: a
process that has ended stutters.

### Fairness

`HangingSpec` and `HangingRestoreSpec` give weak fairness to each goroutine of
the process (the Go scheduler runs a runnable goroutine) and to the deadlines
(`context.WithTimeout` in `storage.go`), and to what an SDK does by itself once
its context is done. They give none to a step that waits for storage or for the
disk of filesystem and sftp: opening, reading, writing, committing, answering
`Exists`. `HealthySpec` and `RoundTripSpec` leave out every failure, expired
deadline and kill, and are fair to all that remains: they ask whether pipe,
channel and wait group can block one another. `PluginSpec` is fair to the steps of
`Exec` before the backend is made, to the start of `New` and to the deadlines of
its calls (`azure.go:61`, `gcs.go:49`, `gcs.go:202`, the dial of `sftp.go:36`), not
to the answers. No property uses strong fairness.

## Disagreements with docs and comments

Each of these is a run that TLC must find violated.

| Run | Property | What happens |
|---|---|---|
| `partial` | `OkMeansComplete` | filesystem, sftp: an object is created at its final path and `Exists` only asks whether the path is there. After a run that was killed while it copied, the next one without override skips the mount and reports success (`filesystem.go:94`, `126`) |
| `replaced` | `RestoresOneObject` | filesystem, sftp, plain tar, override: a file is rewritten under a restore that reads it, and entries of two runs are restored with success (`filesystem.go:94`, `62`) |
| `settings` | `GivenIsUsed` | `README.md:186` and `main.go:400` name the flag `azure.blob-container-name`; `main.go:537` reads `azure.container-name`, which no flag has, so the container is always the empty one |
| `paths_absolute` | `RoundTrip` | an absolute mount, as in `README.md:208`, can be rebuilt and never restored: `Extract` asks for a relative path from an absolute to a relative one (`tar.go:185`) |

The models contain these as well; the properties are stated so that they hold in
spite of them:

* The last file of the walk gets shorter between its header and its copy:
  `io.Copy` reports nothing, `tar.Writer.Close` refuses to write the trailer, its
  error is logged (`tar.go:41`) and the run reports success.
  `OkRunsLeaveWholeArchives` allows such an archive where `FilesMayShrink`.
* `azure.Exists` turns "not there" into an error (`azure.go:134`), although
  `storage.go:23` says that it checks if an object exists and the other backends
  do: without override no rebuild ever stores a first object. `HealthyRunsSucceed` and `HealthyRestoreSucceeds` say so (`AbsentRefused`).
* `filesystem.Exists` never looks at its context (`filesystem.go:126`), although
  each operation has a deadline (`main.go:304`): a file system that does not
  answer holds `Rebuild`. `RebuildReturns` leaves that configuration out.
  Nor is there a deadline for `os.Stat` when the backend is made, or for sftp once
  it is connected (`sftp.go:46-53`): `SetupReturns` leaves these two out.
* Nothing keeps two builds apart. Without override both may find nothing and both
  store (`rebuilder.go:62-84`); on filesystem and sftp they may write to one file at
  the same time and leave a mixture that a plain tar restores with success. This
  is why `RivalCache` promises little where `atomic` is false.
* A copy that fails leaves gcs with the beginning of an archive, which a plain tar
  restores with success (`gcs.go:119-124`, `tar.go:173`); `RestoresOneArchive`
  excludes it.
* A directory is made with its own mode before what is in it (`tar.go:234`): unless
  the user is root, what was archived from a directory without write permission
  is not restored. Of two workers that restore one link, the second to make it
  fails (`tar.go:258-262`). A directory around a mount may lose its mode
  (`tar.go:193`). `Harmless` and `TreesComeBack` exclude these. A link on disk is
  followed when a file is written there (`tar.go:242`), so that the file is written
  elsewhere (`NoLinksFound`).
* gcs never uses a key it is given: `setAuthenticationMethod` returns its options
  and `New` drops them (`gcs.go:47`); `gcs.json-key`, `gcs.acl` and
  `azure.blob-max-retry-requets` do not even reach the configuration
  (`main.go:375`, `411`, `558`). `s3.Exists` panics on an error that is not the
  SDK's own and on an answer without an ETag (`s3.go:128`, `137`), which ends the
  run with status 2 whatever `exit-code` says, while other mounts are stored
  (`RebuildPanics`). `FailedRunsDidNothing` names this case, `CheckPanicked`, as
  its one exception; a panic while the backend is made is none.
* A plain tar that is cut between two entries, or was closed after its walk had
  failed, is restored with success (`tar.go:173`, `tar.go:41`).
  `OkMeansExtracted` speaks of what the object holds, not of the directory it
  was made from.
* Files are opened without `O_TRUNC` (`tar.go:242`): a longer file keeps its
  end. `OkMeansExtracted` allows that tail.
* `local-root` does not base the mounts (`README.md:163`): it changes the names
  in the archive only, and `Extract` does not know it (`plugin.go:67`,
  `tar.go:87`). The files of the mount `../x` do not come back to it either, and
  the entry of the mount `.` itself is named `../<directory>` (`tar.go:125`), so
  that in a directory with another name a sibling of it is made. `Below` is the
  condition under which `MountsBelowReturn` promises the round trip.
* A remote path is joined and cleaned (`rebuilder.go:60`): the mount `../b` leaves
  its key, `/a` and `a` share an object, and with `{{ .Commit.Branch }}` as key the
  branch `main/a` and the mount `b` share one with the branch `main` and the mount
  `a/b`. `Flat` excludes these from `OwnArchives`.
* A template that does not parse fails the build, although the error says that it
  falls back (`plugin.go:89`); and the default key is the md5 of the branch, not
  the branch that `README.md:69` names.

## Proofs

TLAPS checks these theorems for every value of the constants: any number of mounts,
entries, runs, builds and blocks, any configurations, environments, command lines,
paths, trees and disks.

| Module | Theorem | Statement |
|---|---|---|
| `RebuilderProofs` | `TypeCorrect` | `Spec => []TypeOK` |
| | `Invariance` | `Spec => []IInv` |
| | `OkRunsLeaveWholeArchivesAlways` | `Spec => []OkRunsLeaveWholeArchives` |
| | `OkMeansCachedAlways` | `Spec => []OkMeansCached` |
| | `NoErrorLostAlways` | `Spec => []NoErrorLost` |
| | `StatsAfterWriteAlways` | `Spec => []StatsAfterWrite` |
| | `NoOverrideKeepsAlways` | `Spec => NoOverrideKeeps` |
| | `LeavingsInvariance` | `Spec => []LeavingsInv` |
| | `ObjectsLeftAlways` | `Spec => []ObjectsLeft` |
| | `ImplementsCacheAlways` | `Spec => ImplementsCache`, if `CommittedAtOnce` |
| `RestorerProofs` | `RestoresInvariance` | `RestoreSpec => []RestoresInv` |
| | `RestoreTypeCorrect` | `RestoreSpec => []RestoreTypeOK` |
| | `OkMeansExtractedAlways` | `RestoreSpec => []OkMeansExtracted` |
| | `QuietAfterReturnAlways` | `RestoreSpec => QuietAfterReturn` |
| `CachePipelineProofs` | `FetchInvariance` | `QuietRestoreSpec => []FetchInv`, if `CommittedAtOnce` |
| | `ImplementsSharedCacheAlways` | `QuietRestoreSpec => ImplementsSharedCache`, if `CommittedAtOnce` |
| | `RoundTripInvariance` | `RoundTripSpec => []RoundTripInv` |
| | `MountsComeBackAlways` | `RoundTripSpec => []MountsComeBack`, if `~FilesMayShrink` |
| `RivalProofs` | `RivalsInvariance` | `BuildsSpec => []RivalsInv` |
| | `BuildsTypeCorrect` | `BuildsSpec => []BuildsTypeOK` |
| | `RestoresOneArchiveAlways` | `BuildsSpec => []RestoresOneArchive` |
| | `OkMeansStoredAlways` | `BuildsSpec => []OkMeansStored` |
| | `NoHolesLeftAlways` | `BuildsSpec => []NoHolesLeft` |
| | `ImplementsRivalCacheAlways` | `BuildsSpec => ImplementsRivalCache` |
| `PluginProofs` | `PluginInvariance` | `PluginSpec => []PluginInv` |
| | `PluginTypeCorrect` | `PluginSpec => []PluginTypeOK` |
| | `ReportedIsFoundAlways` | `PluginSpec => []ReportedIsFound` |
| | `FailedRunsDidNothingAlways` | `PluginSpec => []FailedRunsDidNothing` |
| | `OwnArchivesAlways` | `PluginSpec => []OwnArchives`, if `PlainNames` |
| `ArchivePathsProofs` | `PathTypeCorrect` | `PathSpec => []PathTypeOK` |
| | `PathInvariance` | `PathSpec => []PathInv` |
| | `MountsBelowReturnAlways` | `PathSpec => []MountsBelowReturn` |
| | `NamesApartAlways` | `PathSpec => []NamesApart` |
| `ArchiveTreeProofs` | `TreeInvariance` | `TreeSpec => []TreeInv` |
| | `TreeTypeCorrect` | `TreeSpec => []TreeTypeOK` |
| | `ArchivedIsThereAlways` | `TreeSpec => []ArchivedIsThere` |
| | `TreesComeBackAlways` | `TreeSpec => []TreesComeBack` |
| | `FreshRestoresSucceedAlways` | `TreeSpec => []FreshRestoresSucceed` |
| | `KeepsTheRestAlways` | `TreeSpec => KeepsTheRest` |

### Assumptions

The named `ASSUME`s of the modules, which TLC evaluates in every run: the constants
have their types (`ConfigsAssumption`, `ShrinkAssumption`, `FoundAssumption`,
`EnvironmentsAssumption`, `CommandLinesAssumption`, `NamespaceAssumption`,
`RootsAssumption`), the counts are numbers and at least one where the code cannot
do without (`MountsAssumption`, `EntriesAssumption`, `RunsAssumption`,
`BlocksAssumption`, `BoundsAssumption`), `Nobody` is no build, working directories are absolute and
without "." and ".." (`DirsAssumption`: `os.Getwd`), files of a mount have no ".."
in them (`FilesAssumption`: `filepath.Walk`), what is archived and what is found on disk are
trees, in which only directories have something in them (`TreesAssumption`,
`DisksAssumption`; a tree that is archived is finite, so that its walk has a first
path, and a disk may have anything but pipes and sockets on it), and mounts are written in their clean
form (`MountPathsAssumption`).

Three theorems have a hypothesis of their own, which is true in the run that
checks the same property:

* `CommittedAtOnce`: the backends are s3 and azure, and files do not shrink. The
  other backends do not implement `AtomicCache`: that is what `partial` shows.
* `~FilesMayShrink`, without which a file need not be whole in its archive.
* `PlainNames`: no branch, digest, time or mount in use is "." or "..", and no mount
  begins with the digest that is a key. With a template that hashes a file which
  is not there the key is empty, and the mount `<digest>/x` under the empty key
  would share its path with `x` under the key `<digest>`.

### Arguments

*Rebuilder.* None of the properties is inductive: that a successful run leaves a
whole archive depends on what the pipe carries, which depends on where the
archiver is. `IInv` therefore says, for each mount, (`ArchInv`) how the end of
the archiver goroutine and what its pipe was closed with belong together: an
archiver with an error closes with that error *before* the deferred close could
put EOF in its place; (`PutInv`) as long as `Put` has not failed, what has
arrived at the backend plus the chunk in the pipe is exactly what the archiver
has written, and the copy goes on to its commit only when the archiver has ended
well, so that what is committed is whole; (`UpInv`) each failure of `Put` is
known to the uploader and, once it is through, is in the error list;
(`StoreInv`) an object of this run is there only if its uploader was started,
and without override only where nothing was before; (`MainInv`, `QuietInv`) an
outcome is recorded when `Rebuild` returns, and after a success nothing of the
run can touch an object. `Invariance` has one lemma per goroutine for its own
mount (`ArchiverKeeps`, `CopyKeeps`, `UploaderKeeps`), frame lemmas for all other
mounts, and one per step of `Rebuild` and of the process; the rest follows from
`IInv`, `NoOverrideKeeps` with one step of it.

*What storage is left with.* `IInv` says little of a `Put` that has failed, and
its copy may still be at work. `LeavingsInv` adds what holds then, too: as long as
the pipe is open, what has arrived and what is on offer is what the archiver has
written, or what an archiver with an error can still add to it (`FlowInv`); and
what is in storage or pending always has a shape of `Leavings` (`Fits`), a whole one
where it is committed in one step. The step to `AtomicCache` then is: a commit is
`Publish` of a whole archive, the end of a successful run is `Succeed`, the start of
the next build is `NextRun`, anything else stutters.

*Restorer.* `RestoresInv` follows one object down: the chunk on offer is the one
the copy has come to (`CopyInv`), `Get` succeeds only when all of it was read
(`DownInv`), the extraction has taken as many chunks as the entry it is at has
before it, entries before it are in place and those behind it untouched
(`ExtractInv`), and an error of the extraction is in the error list when the worker
is done (`WorkInv`). So an extraction that ends without an error has come to the
end of an object that may end there. `QuietAfterReturn` is a step of it: once
`Restore` has returned every worker is done, and only a worker writes.
`ProcessInv` is the part that does not need storage to stay as it is.

*Pipeline.* A step is one of a rebuild, under which `LeavingsInv` goes on, or one of
the restore, under which `ProcessInv` does (`RP == INSTANCE RestorerProofs`, so that
its lemmas serve here). `FetchInv` adds that what was opened is a whole archive
of one run: in one step, since nothing else is ever in storage. The fetched
archive of `SharedCache` is `opened`. For `MountsComeBack`, `HealthyInv` says that no
run fails unless it is refused and that without override the first run leaves
what all others keep; the restore begins after them (`RestoreWaits`) and then
`RestoresInv` holds of what they have left.

*Rivals.* `RivalsInv` says of each place in the program of a build what it may rely
on: where objects are committed, that storage shows nothing or one build's archive
(a part of one with gcs), also as the restores have it that have asked
(`Committed`); where files are written, that the one that has truncated it last has
its blocks in it up to where it is (`File`), whatever others have written
over them. `OneArchive` is the reason for `RestoresOneArchive`: data of a second
build makes a gzip stream fail. Each step is one of `RivalCache` or a stutter.

*Plugin.* `PluginInv`: under each path is what some run has archived for that very
path (`ObjectsInv`), what was restored was under a path of the run's own key
(`RestoredInv`), and until a mode has begun nothing is done (`OutcomeInv`). A
key is a function of template and environment (`KeysAreOne`). `OwnArchives` needs that
two pairs of key and mount with one path are the same: `NamesKeepApart`, since
flat names are only ever appended, and a path can be cut in one way. `ReportedIsFound`
follows from `ReportedInv`, its case of the rebuild's own environment, since
environments that agree for the template have one key.

*Paths.* `JoinPlain`: with names other than "." and "..", `Join` is concatenation.
`PathInv`: the name of a file is the way from the working directory to it
(`NameBelow`: relative of a directory and something below it is the way between
them), and joined to the mount what relative makes of the name is the name again
(`TargetIsName`). For `NamesApart`: the name of a file is what its path has more
than the root and the mount have in common (`NameInMount`), which two files do not
share; only the mount itself can get a name that begins with "..", which no other
file has then. `PathTypeOK` holds by itself: the loop of relative always leaves an
element of a path that has one (`StripUpsType`), and none of the functions makes a
relative path absolute.

*Trees.* `TreeInv`: the disk stays a tree (`DiskInv`), since what is made is made in a
directory (`MkdirAllProperties`, `PutKeepsTree`) and `os.Remove` spares a directory with
something in it. If no links were found, then all links are where links were archived
(`LinkInv`); what is above an archived path in its tree is a directory, so no link
leads away from a target (`NoLinksOnTheWay`: `Place` and, but for links, `Real` are
the path itself), and the directories above it, once made, stay (`WayInv`). Each step
then touches its target and the missing directories above it only (`StepEffect`), which
is `KeepsTheRest`. "What was extracted is there" is not inductive: a worker may
remove a link that another one has made. `StandInv` says that it is then about to make
it again, or has failed, and when all have succeeded nobody is. On a disk that was
empty all that is there was extracted as it was archived, or is a directory made around
a mount (`CleanInv`); a worker finds something in its way only if another one has made
it, from an entry of the same path, and what is made so does no harm unless it is
a link or forbids writing (`HarmlessInv`). That `Target` is what its `CHOOSE` says
rests on `FirstPath`: of finitely many paths one comes first.

*Induction.* `Join` goes through a path of any length, and the theorems of the
library about induction take the formula as a parameter, which the provers cannot
give them. `FilePathProofs` has it from well-foundedness instead: a set of numbers
has a least one (`LeastNatural`), so a set with 0 and with `n + 1` for each of its
`n` has all (`UpTo`); what is proved for each `n` is put in the form of a set. In the same
way `FollowDefinition` shows that a function exists which is what the recursive
`Follow` says, which `CHOOSE` alone does not give.

### Only model-checked

* Liveness, which needs fairness and ENABLED: `RebuildReturns`, `ArchiverEnds`,
  `RestoreReturns`, `HealthyRunsSucceed`, `HealthyRestoreSucceeds`, `WritesReleased`,
  `SetupReturns`. The safety part of the healthy runs is in `RoundTripInv`.
* What the runs that must be violated show.

## What is left out, and why

* In `Rebuilder`, `Restorer` and `CachePipeline`: contents, modes and kinds of
  files, which are in `ArchiveTree`; two mounts with the same remote path (`a` and
  `./a`), which are in `PluginRun`; and mounts one below the other on disk, which
  are in `ArchiveTree`.
* In `ArchiveTree`: hard links, since `tar.FileInfoHeader` makes a regular file of
  each name and no archive of `Create` holds one (`extractLink` is reached by
  foreign archives only); permission to read and to execute; owners and times, which
  `Extract` does not set; failures of the disk, which are in `Extractor`.
* In `RivalBuilds`: goroutines of one process, which are in `Rebuilder` and
  `Restorer`; more than one path, since nothing relates two of them.
* In `BackendSetup`: the values of settings, beyond being there, and settings an SDK
  takes from its own environment.
* Mounts not written in their clean form, in `ArchivePaths`: `Extract` compares
  the mount as a string with a name (`tar.go:182`), and what follows for `./a`
  depends on whether `filepath.Rel` cleans its result.
* Collisions of md5, and templates that combine several of the functions.
* `Flush`, `storage.List`, `storage.Delete`: nothing calls the first, the others
  are empty. The step of `gcs.Put` that sets an ACL: `main.go` never fills
  `gcs.Config.ACL`.
* Logging and build metadata (`metadata.Commit.Ref` is filled from `commit.sha`,
  `main.go:495`, which matters to a template that uses it): wording and copies.

Assumed of the libraries: `io.Pipe` keeps the first error it is closed with and
fails a blocked write when its reader is closed; `tar.Writer` refuses a header
or a trailer while bytes of the last body are missing; the uploads of s3, azure
and gcs show an object in one step, s3 and azure only after they have seen EOF,
gcs when its writer is closed and its context is not done; an answer to a read
of s3, azure and gcs is the object as it was when it was asked for; `GetProperties`
of azure fails for a blob that is not there; a gzip stream spliced from two
files does not decompress.

## Plan

Done, in this order, the most important behaviour first: `Rebuilder` with its
parts, runs and proofs; `Restorer`; `CachePipeline`; `ArchivePaths`; `CacheKeys`
and `PluginRun`; `RivalBuilds` with `RivalCache`; `ArchiveTree`; `BackendSetup`.

Proofs, done: types and the inductive invariants of `Rebuilder`, `Restorer`,
`RivalBuilds`, `PluginRun`, `ArchivePaths` and `ArchiveTree`; the refinements of
`AtomicCache`, `SharedCache` and `RivalCache`; `ObjectsLeft` and `MountsComeBack`.

Next: what `Healthy` runs owe to safety, that no step of them can block, as an
invariant from which `HealthyRunsSucceed` needs fairness only.
