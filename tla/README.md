# A TLA+ model of resurrent

resurrent keeps a tree of files whose contents may live in object storages.
A file is *uploaded* (its content becomes an object, named by the SHA-256 of
a nonce and the content), *evicted* (the local data is dropped, the metadata
stays) and *downloaded* again, on request or when it is opened.  This
directory holds the model of the package `resurrent` (`src/*.go`), of its
migration and of its FUSE adapter: modules, TLC configurations, and proofs for
TLAPS.

Contents: [the system](#the-system), [the modules](#the-modules),
[how state and actions correspond to the code](#state-and-actions),
[what is abstracted](#abstractions), [runs](#runs), [fairness](#fairness),
[the root directory](#the-root-directory),
[the tree of files](#the-tree-of-files), [the filter chain](#the-filter-chain),
[the FUSE adapter](#the-fuse-adapter),
[proofs](#proofs), [disagreements found](#disagreements-found),
[what is not modelled](#not-modelled-and-the-plan).

## The system

| component | code | state | operations |
|---|---|---|---|
| keyed locks | `objs.go:28-77` (`objectLocker`) | a map from key to channel, closed to wake the waiters | `lock`, `unlock` |
| downloads | `objs.go:225-553` | `fs.downloadTasks`: one task per destination and object | `Download`, `findOrNewDownloadTask`, `runDownloadTask` |
| uploads | `objs.go:555-972` | the locals of `runUploadTask` | `Upload`, `runUploadTask` |
| evictions | `objs.go:974-1081` | none beyond its locals | `Evict` |
| directories | `files.go` | `M.*`, `F.*` and `D.*`, a directory for each directory | `Mkdir`, `ensureDir`, `Remove`, `Rename`, `ReadDir`, `NodeLock` |
| files | `files.go` | `files/M.*` (metadata), `files/F.*` (data), the tree lock, open `File`s | `OpenFile`, `Remove`, `Rename`, `Mkdir`, `Node`, reads and writes of a `File` |
| opening and closing | `fs.go`, `fslock*.go` | the lock file, `resurrent.ver`, `resurrent.yaml` | `New`, `Close`, `Init` |
| command line | `cmd/resurrent` | which command runs, its workers | `upload`, `download`, `evict`, `touch`, `mv`, `rm`, `mount`, ... |
| filter chain | `objs.go:102-184`, `filter_*.go` | goroutines joined by pipes, an errgroup | `encode`, `decode` |
| host engine | `engine/host` | blobs on disk | `Upload`, `Download` |
| migration | `migrate` | `objs`, `objs-v2`, `resurrent.ver` | `Migrate` |
| FUSE adapter | `adapter/fusefs` | `fs.m`, from items of the tree lock to `Node`s; `inodeMtx`; references to items | `Lookup`, `Create`, `Mkdir`, `Unlink`, `Rmdir`, `Rename`, `Open`, `Release`, `OnForget` |
| other adapters | `adapter/iofs`, `adapter/winfspfs` | none | forward each call |

How they interact:

* `fs.mtx` is held for the section in which a call looks at the tree and
  locks its path in the tree lock.  `Upload`, `Download` and `OpenFile` give
  it back before they wait for anything; `Evict` keeps it, also while it
  waits for the lock of an object.
* the tree lock (the external package `treelock`) is only tried, never
  waited for.  `Download` and `Evict` hold the path for writing to their end,
  `OpenFile` for reading, and `Upload` not at all once it has been checked.
* a download runs in a task of its own, shared by all who need it; callers
  wait for `doneCh`.  The task takes the lock of the object (`fs.ol`) and of
  its bucket file (`fs.bl`), but neither `fs.mtx` nor the path.
* a download or an upload of an object that goes through filters starts a
  filter chain and waits for it, with the locks of the object.
* the FUSE adapter makes one call of the FS for each request of the kernel.
  Its `Node`s keep references to items of the tree lock, so that an inode
  follows its file through renames; what the kernel forgets comes at any time.
* an upload task takes `fs.ol` and `fs.bl` likewise, reads the file four
  times with no lock of it, then rewrites the bucket and the metadata.

What is hard about it, and which property watches it, is in `PROJECT.json`
under `hazards`.  In short: an upload without the lock of its file; a task
which is safe only through the locks of those who wait for it; a file that is
written where others see it; files rewritten in place; a change of the tree
that is several system calls; locks of four kinds taken in one call;
goroutines that wait for each other at pipes; references that are given back
by callbacks.

## The modules

| module | models | builds on |
|---|---|---|
| `KeyedMutex` | what a lock per key promises | |
| `ObjectLocker` | `objectLocker`, with its map and channels | refines `KeyedMutex` |
| `FileSystem` | the state calls share; the primitives of all calls | two `KeyedMutex` (`fs.ol`, `fs.bl`) |
| `Download`, `Upload`, `Evict`, `Files` | the calls, one action per step | `FileSystem` |
| `Resurrent` | any calls at any time: the package as a library | the four above |
| `Commands` | the calls the `resurrent` command makes | `Resurrent` |
| `Crashes` | the process dies at any step and the FS is opened again | `Resurrent` |
| `FileTree` | what the calls on names promise: each is one step on a tree | |
| `Directories` | `Mkdir`, `OpenFile`, `Remove`, `Rename` over a tree of paths, one system call at a time | refines `FileTree` |
| `FilterChain` | `encode` and `decode`: a goroutine per filter, pipes, the errgroup | |
| `Fuse` | the FUSE adapter's `Node`s, for one directory | |
| `Lifecycle` | the root directory: `Init`, `New`, `Close`, `Migrate`, crashes and failures | |
| `*Proofs` | theorems; `ResurrentProofs` is about `Resurrent` and `Crashes`, `PathLockProofs` goes on from it to the paths, `CommandProofs` from there to `Commands` | TLAPS |
| `MC*` | small instances for TLC | |

`ObjectLocker` is checked and proved to implement `KeyedMutex`; that is why the
other modules take a locker as one atomic step and use `KeyedMutex`.
`Directories` is checked and proved to implement `FileTree`; that is why the
calls in `Files.tla` take `Remove` and `Rename` as one step under `fs.mtx`.

A definition with the comment "Faulty variant of" is not used by any
specification: it is what the definition after it would be with a plausible
bug, and is kept to show that the properties notice.

## State and actions

`FileSystem`:

| variable | in the code |
|---|---|
| `meta[p]` | the file `files/M.<p>`: object and `ModifiedAt`; `TornMeta` while it is empty |
| `data[p]` | the file `files/F.<p>`: content and modification time; content `Torn` while it is written in place |
| `objs[id]` | the record of an object in its bucket file; `at[s]` is what storage `s` holds for it |
| `torn` | bucket files that do not load: truncated and not written yet, or never to be as the write has failed |
| `mtx` | who holds `fs.mtx` between steps (only `Evict` does) |
| `ol`, `bl` | who holds a key of `fs.ol`, `fs.bl` |
| `task` | `fs.downloadTasks` |
| `call[c]` | where goroutine `c` is in its call, and the locals that live on |
| `handle[c]` | the `File` that `c` has open: its node in the tree lock, and its inode |
| `now`, `left` | a coarse clock; the calls that may still be made |

Every section under `fs.mtx` that does not wait inside is one action
(`DownloadCall`, `UploadCall`, `EvictCall`, `OpenFile`, `Remove`, `Rename`);
everything after it is one action per access to shared state:

* `Download.tla`: a task goes `lock`, `bucket`, then `inline`, `inlineWrite`,
  `inlineTime` (the fast path of `downloadAndSetupFile`, which creates the
  destination itself, copies to it, and opens it again to set its time) or
  `fetch`, `move`, then `done`.  `done` is the moment between `close(doneCh)`
  and the deferred `delete`.  Each step that can fail has an action for the
  failure that says what stays behind.  A `File` opened on the destination
  of the fast path may write to it before the copy (`Copied`) or between the
  copy and the time.
* `Upload.tla`: `statClean`, hash, lock the object, lock and load the bucket
  (or go on to the next nonce), plan (inline or engine), encode, transfer,
  then the two writes, of two steps each as `os.WriteFile` truncates first.
  Each write may fail once the file is empty (`UploadWriteBucketFails`,
  `UploadWriteMetaFails`): the task returns, and the deferred unlocks give the
  object and the bucket back.  Any other error is `UploadQuits`, before the
  object is locked, or `UploadFails`, after.
* `Evict.tla`: lock the object, load the bucket without its lock, hash the
  data, remove it.
* `Files.tla`: `OpenFile` is `OpenFile` (the data is there or created), or
  `OpenFileDownloads` followed by `OpenFileAgain`, the second attempt.

Calls that change nothing (an error before anything was done, a lock of the
tree that is not available) are stuttering steps; so is a `Rename` of a path to
itself, which writes its name again and which `Directories` has in steps.

## Abstractions

In the modules of the calls (`FileSystem` to `Crashes`):

* Files stand directly under the root, so that the tree lock is a
  readers-writer lock per path. `Directories` has the tree.
* A content is a model value; a read of a file sees a whole version of it,
  except `Torn`, the inline destination while it is written.
* SHA-256 has no collisions: an object identifier is the pair of what was
  hashed, the nonce and the content.  Two files of one content, and one
  file whose size was taken before a write, still meet at one identifier.
* A storage URI names a blob that is written once (`engine/host` names it by
  a random identifier), so the record holds the content.
* `setModtime` cuts a time down to whole microseconds, and may fail.
* A write of a bucket or metadata file that fails, or that a crash cuts short,
  leaves a file that does not load, as an empty one does not.  A part of a
  bucket file that ends between two records, and so loads with fewer of them,
  is not modelled.
* Sections under `fs.mtx` are one step, although their disk operations are
  several; only a crash could tell, and `Directories` has those.
* A filter chain is one step, which succeeds or fails; `FilterChain` shows
  that it ends, and is right when it returns nil.
* The object locker does not serve waiters in turn; with the calls bounded,
  every waiter is served in the end.
* The type of a file, its permissions and its recorded size are left out.

In the others:

* `Directories` has no storages: a file that has an object may have no data,
  and data is an identity.  Calls that are refused at once are left out.
* `FilterChain` counts chunks.  A filter that encodes adds a chunk of its own
  at the end of its input, and must see it to decode.  Of a chain only the
  order of `flate` and `sio` matters: flate's reader does not look for the end
  of its input, the other's does.
* `Fuse` has one directory, and takes a call of the FS as one step.  The
  kernel and the bridge of go-fuse are external: which requests run side by
  side, when an inode is forgotten, and the children and the lookup counts of
  inodes.

## Runs

All runs are of small sets of model values; goroutines and processes are
symmetric, except where liveness is checked.  The contents are `empty`, which
goes inline, and `huge`, which goes to an engine; the instances also define
`small` and `large` (inline only when deflated) for wider runs.
`MaxNonce` is 1: a collision is met once, and the next nonce is
free; `TicksPerMicro` is 2, so that one time in two is changed by
`setModtime`; `MaxTime` is 1, enough for equal and for different times, but
0 in `api`, where no property is about times.
`MaxCalls` bounds the calls, of all goroutines together.

| run | instance | shows |
|---|---|---|
| `locker` | 3 goroutines, 2 keys, 5 channels | `ObjectLocker` is a mutex, forgets nobody, implements `KeyedMutex` |
| `api` | 3 goroutines, 2 files, 3 calls, any write may fail | locks are kept and nobody works with a lost bucket (`LockDiscipline`), references are backed, no save undoes another, a task always has a holder of its path, open files survive evict; the inductive invariant of the proofs; no deadlock |
| `commands` | 2 workers, 2 files, 2 engines, on demand, 4 calls | contents are kept and restored when one command runs at a time; opens wait and find their data, an open file keeps following its file |
| `crash` | 2 goroutines, 1 file, 2 buckets, a further nonce, 4 calls or crashes | a crash endangers only the bucket that was being written, and its loss is not covered up; every call returns |
| `lifecycle` | 2 processes, 3 objects in 2 buckets, 3 faults | one process at a root, which is open only in the present format and with its configuration; a migration survives one fault |
| `tree` | 2 directories or files with one path below each, 1 open file, 3 calls, each of whose system calls may fail or be the last | the calls implement `FileTree`; no data without metadata, open files follow their node, locked paths stay |
| `filters` | 4 chains, files of up to 2 chunks, encoded and decoded, whole or cut short | nil is returned only for all of the data, everything is closed, the caller gets an answer |
| `fuse` | 2 names, 2 goroutines, 3 items, 4 Nodes, 4 requests | references are accounted for, the map leads to holders, inodes hang under the names their items stand at unless a late call has hung them |
| `upload_race`, `stale_task`, `partial_open`, `migration_loss` | | counterexamples, [below](#disagreements-found) |

Three calls suffice for the races between calls: a race needs two calls under
way and at most one before them, and files start in any of the states that
earlier calls would have produced (`SeedKinds`: absent, written, uploaded,
evicted; `api` leaves `absent` to `Remove`).  `commands` has four, as a file
has to be opened, moved and opened again, and a content to be uploaded,
evicted and downloaded; `touch` opens files with `TouchFlags`, which may
truncate, a mount with `OpenFlags`, as the kernel truncates a file it knows by
a request of its own and not by `O_TRUNC`.
All objects share a bucket, the worst case for the bucket lock, except in
`crash`, where the contents have one each, so that the loss of one bucket
leaves one in use.

In `tree`, three calls on any initial tree are enough to remove or move what
a failed call has left behind and to make something in its place; two
directories of one entry each are enough for a node to move with the directory
above it.  In `filters` two chunks are one that is in a pipe and one behind it,
and the chain of two filters has a goroutine with neighbours on both sides.
In `fuse` four requests leave room to look up a file, rename it over another
while it is looked up once more, and look up or create what stands at the old
name, with the first inode forgotten at any point; a late call and one that
comes late through it are both reached.

The longest runs take about a minute each on two cores.

## Fairness

`Fairness` of `Resurrent`, which `Crashes` assumes too, is
`WF_vars(Progress)`: while some goroutine in a call, or some
task, can take a step, one eventually does.  Go's scheduler gives more
(each runnable goroutine runs), so the code justifies it; because calls are
bounded it is enough.  Nothing makes a client call, or close a file, or the
process die.

`ObjectLocker` has weak fairness of each goroutine's own steps, with the
same justification; a holder is assumed to unlock, as every `lock` in the
code has its `unlock` deferred at once.  `FilterChain` has weak fairness of
each goroutine's steps and of `Wait`; that a read or a write of the source or
the destination returns is part of it, that it fails (`Break`) is not.

## The root directory

`Lifecycle.tla` models what the calls above take for granted: the lock file,
the version and the configuration, and the migration from a file per object
to bucket files.

| variable | in the code |
|---|---|
| `lock` | `resurrent.lock` and who made it; `Stale` once that process is gone |
| `ver`, `config` | `resurrent.ver`, `resurrent.yaml`: none, empty (`Torn`), or written |
| `objs`, `objsV2` | the directories `objs` and `objs-v2`: object files and bucket files |
| `stored` | the objects ever stored (a history variable) |
| `proc[p]` | where process `p` is in `Init`, `New`...`Close` or `Migrate`; the locals of the walk |
| `faults` | what has gone wrong so far, in order: a crash, or a write, a removal or a rename that failed |

`Init`, `New` and `Migrate` are one action per file written or removed;
`RemoveAll` removes file by file, `os.WriteFile` truncates first.  An object
that a retried migration appends to a bucket a second time is read as one
(`format/bucket.go:47`), so a bucket is a set.  A crashed process leaves the
lock file; `RemoveStaleLock` is the user removing it by hand.

What a migration promises depends on how much goes wrong.  After one crash,
or one write or rename that fails, at any step, the retry converts every
object or leaves a root without `objs` (`MigrationSurvivesOneFault`), and a
root that `migrate` refuses from then on has all of them
(`RejectedIsComplete`).  After a removal that fails, or after two faults, it
does not; see [below](#disagreements-found).

## The tree of files

`Directories.tla` models the calls of `files.go` that make, remove and move
names, one system call at a time.

| variable | in the code |
|---|---|
| `meta[p]`, `file[p]`, `dir[p]` | `M.<name>`, `F.<name>` and `D.<name>` of a path, in the `D.` of its parent |
| `call` | the one call under `fs.mtx`: the system call it is at, its paths, the metadata it writes |
| `handle[u]` | an open `File`: the path its node in the tree lock stands at, and the data it has open |
| `lock[u]` | a `NodeLock` |
| `tree`, `emptied`, `spoilt` | history: what `Stat` and `ReadDir` showed after the last call, the metadata lost in place, whether anything has failed |

A call starts with `MkdirCall`, `OpenCall`, `RemoveCall`, `RenameCall` or
`RenameInPlace`; each step after that is a system call, which succeeds or
fails, and a step that fails goes to the deferred functions as the code does
(`Finish`, `Undo`).  `os.WriteFile` is two steps.  `Crash` ends the call
anywhere.  `FileTree` says what comes out of it: between two calls the tree
has changed by one step (`MakeDir`, `MakeFile`, `Delete`, `Move`) or not at
all.  Two weaker outcomes are allowed, since the code has them:
`LoseTarget`, a `Rename` of an evicted file over another, and `CutShort`, a
call whose system calls failed, or that died, which still changes nothing but
its own path (`to`) or, for a `Rename`, what is at or below its two paths (`from`
and `to`): `ImplementsFileTree` gives `FileTree` the paths of the call under way.

## The filter chain

`FilterChain.tla` models one `encode` or `decode`.  Goroutine `i` reads `pipe[i-1]`
(the first one the source) and writes `pipe[i]` (the last one the
destination); it is at a read, at a `Write` that waits for its reader, or at
one of its deferred closes, which come reader first, then writer.  A
goroutine that fails closes its pipe like one that is done, so the one below
meets a proper end of its input: that a short result is still an error rests
on the errgroup, and that an object cut short is one, on the last chunk every
decoder wants to see.

## The FUSE adapter

| variable of `Fuse.tla` | in the code |
|---|---|
| `item[i]` | an item of the tree lock: where it stands, and its count of references |
| `node[n]` | a `Node` and its inode: its item, whether it still holds it, the kernel's lookups |
| `m` | `fs.m` |
| `child` | the children of the directory's inode, which go-fuse keeps |
| `stale` | history: the names whose child a late call has hung there |
| `inodeMtx`, `call`, `handle` | the lock, requests on their way, open handles |
| `forget[n]` | `OnForget`: before `fs.m.Delete`, before `Free` |
| `leaked` | history: the references of `Create`'s attributes |

A request is `OpenFile`, then `StatName`, which reads the name the file has
now, `GetChild` under `inodeMtx`, `CreateNode` and `AddChild` under that name
if there is none, and the close of the file; a removal or a rename
is `LockInodes`, `Change` and `Relink` in one section of `inodeMtx`.
`Forget` takes no lock of the adapter and interleaves with all of these.

The kernel lets one of `Create`, `Mkdir`, `Unlink` and `Rename` at a time into
a directory (`Alone`).  A `Lookup` is not kept out: the mount gives entries no
time to live (`cmd/resurrent/mount_linux.go:39`), so a name is looked up again
whenever it is used, with no lock of the directory.  The file of a `Lookup` may
so be moved or removed after `StatName` and before `GetChild`; the call is then
*late*, and hangs the inode where its file no longer is (`stale`).  The same
comes of a file that is moved before `StatName`, as the bridge in the end hangs
the inode under the name that was asked for.  A name under which this is so
keeps that inode, and who looks there later is given it.  `ChildStandsAtName`
says that nothing else in the adapter does this.  An unlinked file has the
empty name; the model keeps what is hung there under `Exile`, and what go-fuse
makes of such a child is not in this repository.

## Proofs

TLAPS proves these for every value of the constants, under the assumptions
stated next to the constants (`ContentAssumption`, `BoundAssumption`,
`SetAssumption`, `DistinctAssumption`, `FlagAssumption`, `KindAssumption`,
`MountAssumption`, `DirectoriesAssumption`, the two `AbsenceAssumption`s,
`LifecycleAssumption`, `FilterChainAssumption`, `FuseAssumption`,
`NoChanAssumption`), which TLC evaluates in each run.  Most give a
constant its type, or say that `NoFile`, `NoLock` and the like are none of the
values they stand beside.  Those that say something of the code:
`MountAssumption` (the kernel truncates a file that is there by a request of
its own), `KindAssumption` (which commands there are) and
`DirectoriesAssumption` (what is above a path is a path).

Every invariant, every action property and both refinements that the runs
check are proved.  What is left to TLC alone is [liveness](#fairness).

| module | theorem | says |
|---|---|---|
| `ObjectLockerProofs` | `LockerMutualExclusion`, `LockerNoLostWakeup` | `objectLocker` is a mutex per key, and a blocked goroutine waits on a channel that will be closed |
| | `LockerImplementsKeyedMutex` | each of its steps is a step of `KeyedMutex` or leaves the holders alone |
| `ResurrentProofs` | `SpecIInv`, `TypeCorrect` | the inductive invariant of the calls, and the types in it |
| | `LocksAreExclusive` | `LockDiscipline`: who works on an object or a bucket is its only owner, and nobody works with a bucket that a failed write has emptied |
| | `ReferencesAreBacked` | `ReferencedObjectsBacked`: a file refers only to objects that some storage holds, unless the write of the bucket has failed |
| | `UploadsKeepRecords` | `RecordsOnlyGrow`: no save of a bucket drops or changes what another upload recorded, but for one that fails half way |
| | `CrashesTearOneBucket` | `BackedUnlessTorn`: the same with crashes at any step, but for objects of a bucket file lost in one |
| | `LostBucketsAreNoticed` | `UploadsLoadWholeBuckets`: nobody goes on from a bucket file that was lost |
| `PathLockProofs` | `TasksHavePathHolders` | `TaskHoldsPath`: a task that is not done has a caller who waits for it and holds its path |
| | `EvictsSpareOpenFiles` | `EvictSparesOpenFiles`: no `File` has the data open that `Evict` removes |
| `CommandProofs` | `StoragesHoldWhatWasHashed` | `ObjectIntegrity`: what a storage holds under an identifier is what was hashed |
| | `DownloadsComplete` | `DownloadedBeforeReopen`: who has waited for a download finds the data |
| | `FilesKeepTheirNode` | `FilesFollowTheirNode`: an open file and its node are at one path |
| | `UploadsSaveWhatIsThere` | `SnapshotIsCurrent`: the metadata saved is that of the data there |
| | `DownloadsRestore`, `EvictsKeepContent` | `DownloadRestores`, `EvictKeepsContent`: what is evicted is held by a storage, what is downloaded is what the object was named after and still refers to it (under a mount, the content of an inline one may have been written to meanwhile) |
| `LifecycleProofs` | `LockFileExcludes` | `InsideHoldsLock`: one process at a root |
| | `LifeTypes`, `OpensTheCurrentFormat` | `TypeOK`, `OpenIsCurrent`: an FS is open only in the present format and with its configuration, with no object left in the old one |
| | `OneFaultLosesNothing`, `RefusedHaveEverything` | `MigrationSurvivesOneFault`, `RejectedIsComplete` |
| `DirectoryProofs` | `TypeCorrect`, `NoDataIsLost` | `TypeOK`; `DataHasMetadata`: after any failure or crash, a path leads to all data |
| | `FilesStayWithTheirNode` | `FilesFollowTheirNode`: an open file has the data at its node, or data that is out of the tree |
| | `TreesStayWhole` | `WholeUntilSpoilt`: nothing is missing as long as nothing has failed |
| | `CallsImplementFileTree` | `ImplementsFileTree`: each call is one step on the tree or none, or is cut short at its own paths |
| | `LockedPathsAreKept` | `LockedPathsStay`: what is locked through a node stays where it is |
| `FilterChainProofs` | `NilIsComplete` | `NilMeansComplete`: nil is returned only when the destination has all of the data |
| | `AllClosedAtReturn` | `ClosedAtReturn`: every end of every pipe is closed, no goroutine is left |
| | `NoErrorWithoutCause` | `NothingFailsAlone`: a goroutine that is done early breaks none above it |
| `FuseProofs` | `RefsAreAccounted` | `RefsAccounted`: each reference to an item belongs to somebody, or was lost by `Create` |
| | `MapIsOfHolders` | `MapNamesHolders`: `fs.m` leads to Nodes that hold their items |
| | `ChildrenStandAtNames` | `ChildStandsAtName`: an inode hangs under the name its item stands at, unless a late call has hung it |

*The calls.*  `ResurrentProofs` rests on one inductive invariant, `IInv` of
`Resurrent.tla`, which the run `api` also checks.  A bucket file that a write
has emptied and not filled is lost for good, as nobody gets past the load of
it; `IInv` is that there is a set of such buckets without records (`Gone`),
but for which all the rest holds (`InvBut`).  None of the properties is
inductive alone:

* that a save keeps all records needs to know that the bucket in the memory
  of an upload has every record of the file (`UploadLocals`);
* this stays true only because nobody else saves the bucket meanwhile, which
  is `LockDiscipline`;
* that the metadata may then refer to the object needs that a storage has
  been recorded by the time the bucket is saved (`UploadLocals`), hence that
  what is transferred is something (`ClientLocals`), and that the record is
  still there when the metadata is written (`Backed` in `UploadLocals`);
* a task that has read the record relies on its bucket lock in the same way
  (`TaskLocals`).

The proof that steps keep `IInv` sorts them by what they may disturb.
*Outsiders* (`OutsideInv`, `OutsiderInv`) own no object and touch no record:
the file calls, the start of every call, the wake-up of waiters. *Workers*
(`WorkerInv`, `GoesOnInv`, `LeavesInv`, `PreparesInv`) move only locks that are
free or their own (`MovesOwnLocks`), so what others own is untouched
(`OthersKeepLocks`).  *Tasks* (`TaskInv`, `TaskGoesOnInv`, `FinishInv`) are the
same with the waiters woken at the end.  Two steps change records:
`UploadWriteBucket`, of which `WriteBucketExtends` says what it does to them,
and its failure.  Each action has a lemma of its own (`...Inv`), and `NextInv`
and `NextIInv` put them together.

*Failed writes and crashes.*  The steps keep `InvBut(lost)` for the set as it
is, but for `UploadWriteBucketFails`, which adds its bucket: nobody else has
that bucket in memory, since the upload owns it.  A crash adds all buckets that
were being written, and needs nothing else, as it ends all that the rest of
the invariant is about.  So `IInv` is also the invariant of `CrashSpec`.

*The paths of tasks and of open files.*  `PathLockProofs` adds two
invariants to that.  `TaskHoldsPath` is inductive with the types: who starts
a task or joins it holds the path, and only the end of the task wakes those
who wait.  For `EvictSparesOpenFiles`, what `Evict` checked at its start has
to hold until it removes the data (`Spared`): it keeps `fs.mtx`, so no call
that opens or moves a file gets in, and a `File` has open the data at its
node or data in exile.

*The commands.*  An upload reads a file that it has no lock of, so
`ObjectIntegrity` is false of `Resurrent` (see `upload_race`) and true of
`Commands` only because of which calls are made side by side.  That is
`OwnCallsOnly`: all calls under way are of the command that runs.  From it
`CommandInv` has, for each call, that what it has read is still so:
`UploadCurrent` (content, size and time of the file), `EvictCurrent` (the hash
of the data that will be removed), `TaskCurrent` (the destination, and what has
been fetched for it), `WaiterLocks` (the path of who waits) and `HandleLinked`
(the data of an open file).  It builds on `IInv` and `TaskHoldsPath`.

*The root directory.*  `LifeInv` says of each process what the steps before
have established for it (`Established`), of the files what their order of
writing gives (`FormatInv`: the version is raised last), and, while there was
at most one fault and not of a removal, where the objects are (`Located`): in
`objs`, unless it is being removed, when all are in `objs-v2` or with the
process that rewrites a bucket there.  `Located` is kept apart from the rest
because it is false after two faults.

*The tree of files.*  `DirInv` was proved in layers, of which each needs only
those below: the types; `DiskInv` (`CallShape`, `DiskShape`, `Rooted`: what a
call has made or emptied so far, and that what is there stands in
directories) with `DataHasMetadata`; `DataUnique`, that no data is in two
files; on it `NodesFollowed` for the open files and `WholeElsewhere` for the
rest of the tree; and `TreeShape` with `LocksKept` for the refinement.  A path
is a sequence of names, so a move of a directory is the map `Reroot`, and the
first lemmas say that it is one-to-one and takes what is below to what is
below.  `tree` changes only when a call returns.  `TreeShape` therefore
says at each system call how the disk differs from the tree: nowhere but at
the destination of the call and, once everything has been moved, at what is
below source and destination (`MovedEntry`).  Each way to return is then a
step of `FileTree` by a lemma of its own.  The same lemmas show which paths are
changed at all (`Spared`), and since the tree lock was seen free at the
start and no lock is given meanwhile (`LocksKept`), none of them is locked.

The proof found `FilesFollowTheirNode` of `Directories` false as it was stated
first, which said that without a path to its data a node is in exile: a removal
that fails half way leaves a node at a path, its data gone, and then the path
can be given to another file.  It takes four calls, one more than the run has;
TLC has the counterexample with `MaxCalls` 4.  The property now excepts such a
node only after a failure, and only while no path leads to its data.

*The filter chain.*  The invariant of `FilterChainProofs` relates, for each
goroutine, the chunks that have left it to those it has got (`Progress`).
Then by induction along the chain, which `GotAll` states for all of it, a
goroutine that has met the end with no error above it, or of its own, has got
everything; at `Wait` this is what nil means.  `PipeShape` says who may wait
at a pipe and that `rclosed` and `wclosed` follow the deferred closes;
without it, neither a `Write` that finds the reader closed nor an end of
input could be traced to its cause.

*The FUSE adapter.*  `FuseProofs` counts references: each step that changes a
count moves one owner in or out of one of the finite sets `NodeRefs`,
`HandleRefs` and `CallRefs` (`RefsMove`), and steps that look the same to all
three keep the sum (`SameRefsKeep`).  That `Free` never takes a count below
zero is a consequence (`ReferredTo`).  `NodeShape` has the order in
`OnForget`: out of the map before the reference is given back.
For `ChildStandsAtName` it adds what a request knows of names while it runs
(`NameShape`: its file has the name it read, or it is late) and of each child
(`ChildShape`): between `Change` and `Relink` of one call its two names are
excepted, and there is no other such call, as both are in one section of
`inodeMtx`.  `RelinkShape` says what holds in between: nothing stands at the
old name, and whoever has read it is late.  Every step but `Change` leaves the
items where they stand (`Kept`).

Checked by TLC only: liveness (`WaiterWoken`, `EveryCallReturns`,
`Terminates`), which is beyond TLAPS, and the four counterexamples.

## Disagreements found

Four runs end in a counterexample; `PROJECT.json` quotes the line each
contradicts.

* `upload_race`: `Upload` locks the path in `plock` but never hands the lock
  to the task (`objs.go:934`), which then reads the file several times.  A
  write in between stores the new content under the hash of the old one.
* `stale_task`: `doneCh` is closed before the task leaves `downloadTasks`
  (`objs.go:475`).  A caller in between, after another eviction, is told that
  the file has been downloaded.
* `partial_open`: the inline path writes the destination in place
  (`objs.go:363`); a second open finds it present and reads a partial file.
  A write through that second `File` before the time is set is taken for
  the content of the object until `Evict` hashes the file, so on the fast
  path under a mount `DownloadRestores` says only that the file still refers
  to the object.
* `migration_loss`: the deferred `RemoveAll(objs-v2)` also runs when `objs`
  has been removed in part; the next migration succeeds without the objects
  removed.

Seen while modelling, without a run of their own:

* Two crashes lose objects too: one in `RemoveAll(objs)`, one while the retry
  rewrites a bucket in `objs-v2` (TLC finds `LossIsNoticed` violated).  A crash
  between `RemoveAll(objs)` and the rename loses all, but leaves no `objs`.
* A crash between the rename and the version file leaves a root that `New`
  sends to `migrate` and that `migrate` refuses.
* `Remove` or `Rename` of a file during its upload: the upload writes the
  metadata back, and the path is a file without data.
* `Rename` of an evicted file fails, after it has removed the target.
* `Rename` of a path to itself rewrites the metadata in place: a crash or a
  failing write leaves data that no metadata leads to (`emptied` in
  `Directories`).  A file renamed to the path of a directory lost in this way
  takes the nodes below the directory along, and what was there is hidden.
* `Create` of the FUSE adapter derives a second `Node` for the attributes and
  never frees it (`leaked`): the item of a file that was created is never
  freed, and its `CurrentRefs` never gets back to what it was.
* A `Lookup` that is given an inode which the bridge forgets before the
  lookup is counted goes on with a `Node` that has let go of its item; whether
  that can happen depends on go-fuse.
* A `Lookup` beside a `Rename`, `Unlink` or `Create` may hang its inode under a
  name its file no longer has (`fusefs/node.go:40` reads the name before
  `inodeMtx` is taken); whoever is given a child under that name later, by a
  `Lookup` or a `Create`, gets the inode of the other file.
* A `Lookup` of a file that is unlinked meanwhile gives `AddChild` an empty
  name.
* A bucket or a metadata file whose write fails, for want of space say, stays
  empty: the objects of the whole bucket are lost, and uploads to it fail from
  then on, as they do after a crash.
* A `Lookup` holds `inodeMtx` only for the map, but `Unlink` and `Rename` open
  the file under it, and an open on demand waits for a download there.
* The first error of a filter chain is recorded when a goroutine returns,
  after its deferred closes; the one reported may be the `io.ErrClosedPipe`
  of a neighbour in place of the cause.
* An unknown filter is reported with `errors.Wrapf(nil, ...)`, which is nil:
  `parseFilters` (`objs.go:171`) returns no chain and no error.
* `Setattr` of an open file takes the access time for the modification time
  (`fusefs/file.go`).
* `O_CREATE` with `O_TRUNC` does not wait for a download under way, whose
  file then replaces the one opened.
* A file downloaded has its time cut to microseconds; `Evict` then takes it
  for modified.
* A metadata file left empty by a crash counts as no file for `statClean`,
  and as one for the `O_CREATE` of an open.
* The comment at `files.go:546` speaks of a write lock where `OpenFile` holds
  a read lock.

## Not modelled, and the plan

What could follow, in this order:

1. *An abstract FS* (a file has a content, whether it is evicted or not),
   implemented by `Commands`.
2. *FUSE*: renames between two directories, and attributes and writes through
   a handle while the file is evicted or moved.
3. *Metadata after a race of `Upload` with `Remove` or `Rename`*, and what a
   failed inline download leaves at its destination: both are in the model as
   steps, no property is about them (see `hazards` in `PROJECT.json`).

Left out for good: the `iofs` and `winfsp` adapters (they forward calls and
keep no state), how `Readdir` pages a listing, YAML and globs, encryption and
compression beyond the sizes and the order of chunks, the content of the
configuration, the Windows lock, logging and flags of the command line.
