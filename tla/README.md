# NTFSKit in TLA+

A model of NTFSKit, a macOS FSKit extension that mounts, checks and formats NTFS
volumes. Modules and the code they translate are tied together line by line in
the `map` of `PROJECT.json`; this file explains the system, the models, what the
model checker and the prover establish, and what is left.

## 1. The system

```
 kernel / FSKit daemon
   |  upcalls (concurrent)             |  direct sector writes (KOIO)
   v                                   v
 NTFSFileSystem -- NTFSVolume        block device
   | maintenance     | serial          ^        ^
   | queue           | engineQueue     |        | buffer cache or plain I/O
   v                 v                 |        |
 nk_fsck,        nk_* bridge ----> libntfs-3g --> devicePread / devicePwrite
 nk_format        (C, wr[] table)   (external)
   \--> mkntfs in process
```

| Part | Source | Model |
|---|---|---|
| Kernel-offloaded I/O: `nk_blockmap`, `nk_complete_write`, `nk_abort_write`, `nk_truncate`, the `wr[]` table | `ntfs_bridge.c`, `NTFSVolume.swift` | `Koio`, `KoioProofs` |
| Names: items, path-keyed caches, rename, enumeration | `NTFSVolume.swift`, `NTFSItem.swift` | `Paths`, `Namespace`, `NamespaceAbs`; proofs in `NamespaceTree`, `NamespaceLinks`, `NamespaceViews` |
| Name operations inside the bridge: create, delete, the steps of `nk_rename` | `ntfs_bridge.c` | `Bridge`, `EngineProofs` |
| Extended attributes | `NTFSVolume.swift`, `ntfs_bridge.c` | `Bridge` (set and remove) |
| Mounting, unmounting, the BitLocker chain | `ntfs_bridge.c`, `nk_bde.c`, `NTFSVolume.swift` | `Mount`, `Engine`, `EngineProofs` |
| Attributes and open: which files the kernel may map | `ntfs_bridge.c`, `NTFSVolume.swift` | `Mount` |
| Device I/O: read-modify-write, buffer cache, purges | `NTFSVolume.swift`, `NTFSFileSystem.swift` | `BufferCache`, `BufferCacheProofs` |
| Load, activate, mount, check and format tasks | `NTFSFileSystem.swift`, `NTFSVolume.swift` | `Lifecycle`, `LifecycleProofs` (labels and statistics left out) |
| Formatting | `nk_format`, `mkntfs/mkntfs.c` | `Mkntfs`, `MkntfsProofs` |
| Probing and label parser | `NTFSFileSystem.swift` | `Mkntfs` (as an operator on what was formatted) |
| File read and write by byte copy, symbolic link contents, volume name | `NTFSVolume.swift`, `ntfs_bridge.c` | not modelled, section 5 |
| mkntfs tables and utilities | `mkntfs/sd.c`, `attrdef.c`, `boot.c`, `utils.c` | tables by size only |
| Host app, entry point, `newfs_ntfskit`, build files, tests | | no driver state |

libntfs-3g, the kernel and FSKit are external. What the bridge relies on is
stated in the modules as actions or operators and marked external in the map.

How the parts meet: every bridge call runs on the serial `engineQueue`, so a
bridge call is one step of `Koio` and `Namespace`. Two modules look closer.
Inside a call the device accesses are not atomic with respect to the kernel's
direct writes; that finer grain is `BufferCache`. And `nk_rename` makes three
library calls, between which the process can die; that is `Bridge`. `Koio` and
`BufferCache` see the same `blockmapFile` and `completeIO`, `Koio` for what
becomes of the file, `BufferCache` for what becomes of cached blocks. `Koio` has
one file and the value of its mark; `Bridge` has all files and who owns which
entry of `wr[]`. `Engine` composes `Bridge` with `Mount`. `Lifecycle` decides which
engine has the device open; `Mkntfs` is what its format task runs.

Every module but `Lifecycle` has a constant `Env` (`MountEnv`, `BridgeEnv`; `Envs` in
`Namespace`, a set of such sets), flags naming what the environment may do. A run's
`Env` is therefore the list of what it covers. In `Lifecycle` everything may happen.

## 2. The models

### Koio: kernel-offloaded I/O of one file

The kernel asks for extents (`blockmapFile`), writes the sectors itself, and
reports in a later upcall (`completeIO`). The bridge must keep
`initialized_size` such that reads never see what the clusters held before,
without zeroing what the kernel has already written.

State: `na` is the `$DATA` attribute (form, size, initialized size, allocated
clusters, and for every byte on disk whether it is stale, zero or data); `hwm`
is the file's high-water mark in `wr[]`, 0 without an entry; `wins` are writes
mapped and not yet reported; `acked` the bytes a successful `completeIO`
acknowledged. `wins` beyond their extents, and `acked`, are history for the
properties.

Actions: `MapWrite`, `MapRest` (the extent packer was full), `MapWriteErr`
(growth, gap zeroing and hole fill may each stop half-way), `MapWriteLateErr`,
`MapRead`, `LandPart`, `FailWrite`, `CompleteWrite`, `CompleteWriteErr`,
`CompleteUnmapped`, `AbortWrite`, `AbortWriteErr`, `Truncate`, `TruncateErr`,
`Recreate` (delete and create), `Crash`.

Assumed of the kernel: outstanding writes do not overlap and are aligned to the
device block. The bridge's comment at `ntfs_bridge.c:931` names overlapping
retries as a limitation of its own.

### Namespace and NamespaceAbs

`fs` is the engine's tree (path to file), `objs` the `NTFSItem` objects,
`cache`, `ids` and `gen` the tables `itemByPath`, `idByPath` and `dirGen`. Create,
remove and lookup hold `stateLock` around one engine call and are one step. A
rename makes up to four engine calls and is a small process `op`: park the
victim, move, point the victim's object at the parked name, delete the victim,
re-key the caches, or fail and roll back. Enumeration (`rd`: sample, list,
pack) takes the lock only for parts and interleaves with it.

`NamespaceAbs` says what directory operations promise: names appear, vanish and
move in one step. The refinement maps the tree to the visible names, in which a
parked victim still has its old name until the move.

### Bridge: names, marks and streams on MFT records

`ntfs` is what the library keeps: an index from names to records, and records
with sequence number, link count, the name that has an 8.3 alias, and one named
stream. `wr` is the table, a sequence of MFT references, with the swap of
`wr_drop`. `nk_rename` is `RenameLink`, `RenameDelete`, `RenameRollback`; `nk_delete` reads
the link count before it deletes. A library call may fail without effect
(`fail`), or report a failure after its effect, which is what a failing inode
close amounts to (`late`). A replaced stream may be left at any stage of the
overwrite. Directories that hold the names stay; moving them is `Namespace`.

### Mount and Engine

A mount is a list of things to get, each with what the code frees when getting
it fails; `Reads` says what freeing an object reads, so that freeing in the wrong
order is an error of the model. `openEngine` tries read-write, then read-only.
`Inhibited`, `WriteOpenRefused` and `Mappable` are the three places that decide
whether a file's extents may go to the kernel: attributes, open and map. Two of them
depend on a call that can fail: `openItem` grants every open when its `nk_stat_path`
fails, and `nk_blockmap` refuses a resident file when the conversion to clusters fails.
Both are parameters of the operators (`statted`, `forced`), and `AdvertisedMappable` ranges
over both: an offered file is refused only for a failed conversion, and an unmappable
one opened for writing only after a failed stat.

`Engine` is one `nk_volume` from mount to unmount: steps of `Mount`, and, while it is
mounted read-write, operations of `Bridge`; `wr_set` allocates the table that
`nk_umount` frees.

### BufferCache

A copy of a sector is abstracted to whether it is older than the last write to
that sector: on disk, in a cached block, or in the scratch buffer of the running
`devicePread` or `devicePwrite`. Loads and stores of single blocks are steps, so
a kernel write can land between them. The granule choice, the switch from
plain to buffer-cache I/O and the purges of `blockmapFile` and `closeEngine`
are actions or parts of them.

### Lifecycle

Volumes with their engine (closed, read-only, read-write), what the kernel was
told, and the tasks of the maintenance queue from start to completion. A
started block may run at once, also before its upcall has returned, and volumes are
loaded, opened and closed at any time, also while a task runs. A task samples
`isEngineOpen` once, of the volume it captured when it was started. `missed`, a history
of each task, collects the volumes opened where that sample could not show it: after
the sample, or as another volume. `fault` records that a call of `nk_fsck` failed.

### Mkntfs

One `nk_format`: ownership of the device, volume parameters, the layout of the
positioned files, then `Script`, the sequence of attribute insertions of
`mkntfs_create_root_structures` with their sizes, each of which may allocate
clusters and write to the device; then the syncs, `mkntfs_cleanup` and the
return. The globals `g` live across formats of one process, as in the code.

Failures are of two kinds. A failing write, and most failing allocations (`NoMemory`), end
the format; a backup boot sector that cannot be written sets the dirty flag. Three
failing allocations go unnoticed and the format goes on: `bitmap_get_and_set` hands out
a cluster it could not mark (line 474; the clusters `u` of `AddValueOutside`), the same
happens to all of `$MFT` (line 4014; `n` of `InitializeRlMft`), and `initialize_quota` returns a
positive `errno` where its caller looks for a negative one, so that the rest of the
`$Extend` files is skipped (`QuotaNoMemory`). `job.lost` keeps the clusters left unmarked.

Sizes are in sectors of 512 bytes; `MaxClusters` stands for 2^32 and `MaxCsize`
for the largest cluster size, so that the change of cluster size at 16 TiB
happens at 4 MiB in the runs. The 1 MiB minimum and the `$LogFile` classes are
the code's own. Security descriptors, tables and names enter by their sizes.

`BootSector` is what mkntfs writes about the geometry, with its encodings, and
`ReadVolumeLabel` what `readVolumeLabel` makes of it: the cluster and record size, the
offset of `$Volume`, the walk over its attributes.

## 3. The runs

| Run | Question | Answer |
|---|---|---|
| `Koio_reorder` | Can stale bytes become readable, with completions in any order, failing writes, maps and truncations, truncation under outstanding writes, completions without a map? | only inside a write still outstanding, and only when a completion overtakes it |
| `Koio_durable` | Can acknowledged data be lost or written data be zeroed, with reordering, failures, truncation, failing aborts and crashes? | no |
| `Koio_overtaken` | Do stale bytes stay readable when a write fails after a higher one was completed? | **yes**, finding 1 |
| `Koio_truncfail` | Are bytes the kernel wrote zeroed when `ntfs_attr_truncate` fails? | **yes**, finding 2 |
| `Namespace_items` | Do objects follow files, do caches agree, does the tree look atomic, can a file be lost when any call of a rename fails, can a current verifier vouch for old entries? | they do; neither can |
| `Namespace_verifier` | The last question, with engine calls failing under an enumeration | **violated**, finding 3 |
| `Engine_ops` | With any call failing before or after its effect, and crashes: is anything leaked, freed twice or used after free; is an unmappable file offered; are link counts exact; is a file lost, a mark inherited or dropped, an attribute zeroed? | no; counts are exact |
| `BufferCache_koio` | Can an old copy overwrite, or shadow, a kernel write? | no |
| `Lifecycle_tasks` | Volumes opened and closed at any time around and under tasks: does an engine outlive its volume, when do two writers meet, is the mount mode honest, why does a check fail, does every task complete? | none does; only through an opening the task's sample missed; it is; for a broken volume or a failed call; it does |
| `Mkntfs_format` | Layout, bitmap, write order, ownership and success, over two formats with writes and allocations failing, noticed or not; does probing find the label? | holds; only clusters whose marking failed unnoticed are shared or missing in `$Bitmap` |
| `Mkntfs_resize` | The layout, when the second format has other clusters | **violated**, finding 4 |
| `Mkntfs_bigcluster` | The label, when a cluster has more than 128 sectors | **violated**, finding 5 |

Bounds. `Koio`: two outstanding writes, a lower and an upper one, in two
geometries. `Koio_reorder` has two clusters of two bytes with blocks of one, so
that windows begin and end inside a cluster and leave gaps there; `Koio_durable`
has six bytes with clusters and blocks of two: a gap, a hole and a window at once,
and the partial block a read map zeroes.
`Namespace`: two names, depth two, three files, four objects: enough for a
victim, a directory with an entry, and a rename into or out of it; `MaxGen` only
bounds the length of a behaviour, `MaxGenEnum` of one with enumerations. A
behaviour of `Namespace_items` starts in one of two environments: failing calls,
failing rollbacks, reclaims and nested moves; or enumerations with a victim that
cannot be deleted. `Engine`: three names (old, new and another), two records, two
sequence numbers (one reuse of a record), values of one and two bytes, a device
block of 4096 with clusters of 512 (not mappable) and 4096; a volume that was
written to is not mounted again. `BufferCache`:
six device blocks and clusters of one, two and three, that is smaller than, equal
to and no multiple of the cache block. `Lifecycle`: two volumes and two tasks.
`Mkntfs`: two formats (the interesting state is what one leaves to the next) of
devices just below and above the minimum size, at each `$LogFile` class that small
volumes have, and with the larger cluster size; labels of 4, 128 (the most) and
129 units; `MaxIgnored` is 2, so that of the failures that go unnoticed one may follow
another: a cluster that stayed unmarked is handed out again, also unmarked. The theorems of section 4 remove these bounds for all properties but those
listed at its end.

Fairness. Only `Lifecycle` has liveness: weak fairness of the maintenance
queue's step, which is what a dispatch queue guarantees a block it was handed.
Nothing is assumed of the host, which may stop sending upcalls. For the same
reason deadlock is not checked there, nor in `Mkntfs`, which ends after
`MaxFormats`, nor in `Engine`, where a volume is not mounted again after it was
written to.

Every property of a passing run has a mutant: a plausible slip in a mapped
definition, kept beside it in the module, that makes the property fail under
the same configuration.

### Findings

1. **A failed write under a completed one** (`ntfs_bridge.c:952`). `nk_abort_write`
   zeroes a failed window only above `initialized_size`. If an upper write was
   completed first, `initialized_size` is already past the window and its old
   bytes stay readable. The test at `test_bridge.c:337` states the opposite
   promise, and tests it for the abort-first order.
2. **A failed truncation clamps the mark** (`ntfs_bridge.c:553`). The mark is
   lowered although the file kept its size, and the next map zeroes bytes the
   kernel wrote above it.
3. **A verifier that vouches for a listing without the victim**
   (`NTFSVolume.swift:743`). A rename-over parks its victim; when the move fails, the
   victim is put back and no generation is bumped. A listing taken in between
   lacks the victim and keeps a current verifier, against the comment at
   `NTFSVolume.swift:550`.
4. **A second format with smaller clusters** (`mkntfs.c:3965`). `g_mft_lcn` is not
   among what `mkntfs_cleanup` resets. After a format of a device of 16 TiB or
   more, a smaller device gets `$MFT` on top of the MFT bitmap; the result of
   that allocation is ignored (line 4014) and the format reports success.
   `nk_format`'s comment advises one format per process, and `fskitd` normally
   follows it.
5. **The label of a volume with large clusters** (`NTFSFileSystem.swift:95`).
   `readVolumeLabel` takes the encoded cluster size (a byte above 0x80) for bytes;
   mkntfs writes it, and `pickCacheBlockSize` reads it, for sectors. Such a volume,
   with clusters above 64 KiB, is named "NTFS" instead of its label. `nk_format`
   itself makes such clusters only beyond 256 TiB; the run scales that down.

### Behaviours left out of the passing runs

These can be switched on with a flag, and TLC then gives a counterexample;
where no flag is named, the behaviour is outside the property.

- `regrow` (Koio): a file cut under an outstanding write grows before the late
  completion, which then stamps `initialized_size` over fresh clusters: their old
  bytes become readable. No data is lost (proved).
- `laterr`, `aborterr` (Koio): after a map failed late, or an abort could not
  zero, a later completion can expose stale bytes. `Koio_durable` includes both
  and shows that no data is lost.
- `nested` with `enum` (Namespace, needs `MaxDepth` 3): `dirGen` is keyed by path; a
  subdirectory that moved away with its parent, changed, and moved back reads its
  old generation. `Namespace_items` has the two flags in separate environments.
- `opfail` with `enum` (Namespace) is finding 3.
- After a failed rollback (`rollbackfail`, in the run) the victim stays cached under
  a name that is free: only `FileKept`, `AtomicNamespace` and `VerifierFresh` are claimed
  then.
- `HandlesSafe` excepts the victim between the move and the rewriting of its
  path, when its handle reaches the new file.
- `purgefail` (BufferCache): a failing purge at close leaves blocks of an old granule.
- `FileKept` of `Bridge` excepts one loss: deleting the old name took effect and
  reported a failure, so that the rollback of `nk_rename` deletes the last name.
- With `query` (Bridge, in the run) a failed existence query counts as "absent", and
  `mustCreate` then overwrites a value; no property claims otherwise.
- `statfail` (Mount): `nk_statvfs` fails in `activate`, `clusterSize` stays 0, and files of
  a volume with clusters smaller than a device block are offered to the kernel.
- A failed stat in `openItem` and a failed conversion in `nk_blockmap` (Mount, in the
  run) are what `AdvertisedMappable` leaves open, see section 2.
- An engine opened between a task's check that it is closed and the task's writes
  (Lifecycle, in the run) is what `OneWriter` leaves open. Nothing in the code rules this
  out; it relies on FSKit keeping tasks and mounts apart.
- Clusters that `bitmap_get_and_set` or `mkntfs_initialize_rl_mft` could not mark (Mkntfs, in
  the run) are what `LayoutDisjoint` and `BitmapTruthful` leave open: the format succeeds with
  them free in `$Bitmap`, and a later file may get them too, against the comment "Get the
  allocation status of a single cluster and mark as allocated" (`mkntfs.c:450`).
- After `QuotaNoMemory` (Mkntfs, in the run) the volume lacks `$ObjId` and `$Reparse`; no
  property claims otherwise.

## 4. What is proved

All theorems are checked by TLAPS and hold for every value of the constants,
under the named assumptions of the modules (positive sizes, finite sets) and
the hypotheses listed here. A hypothesis on `Env` excludes faults under which TLC
finds a property of the module violated; it is that of the invariant the proof
rests on, and some theorems hold without: `TypeOK`, `NoStaleExposed` and
`HandedOutOrZeroed` with `truncfail` in `Koio_reorder`.

| Module | Theorem | Statement | Hypothesis |
|---|---|---|---|
| `KoioProofs` | `TypeCorrect` | `[]TypeOK`, with `initialized_size <= data_size` | no `truncfail` |
| | `AcknowledgedWritesSurvive` | `[]AckedDurable` | no `truncfail` |
| | `MarkCovers` | `[]MarkCoversInFlight` | no `truncfail` |
| | `DataNeverZeroed` | `NeverZeroesData` | no `truncfail` |
| | `NothingStaleShown` | `[]NoStaleExposed` | `OnlyHandledFaults` |
| | `MarkedIsHandedOut` | `[]HandedOutOrZeroed` | `OnlyHandledFaults` |
| | `OnlyReordering` | `OnlyReorderingExposes` | `OnlyHandledFaults` |
| `NamespaceLinks` | `Types` | `[]TypeOK` | |
| | `Caches`, `Follows`, `Handles` | `[]CachesAgree`, `[]ItemFollowsFile`, `[]HandlesSafe` | |
| `NamespaceViews` | `FilesKept` | `FileKept` | |
| | `Atomic` | `AtomicNamespace`, that is, `Namespace` implements `NamespaceAbs` | |
| | `Verifiers` | `[]VerifierFresh` | `EnumAlone` |
| `EngineProofs` | `LinkCountsExact` | `[]BridgeTypeOK` | |
| | `MarksNotInherited` | `[]NoInheritedMark` | |
| | `FilesKept` | `FileKept` | |
| | `MarksFollowFiles` | `MarkFollowsFile` | |
| | `XattrsNeverZeroed` | `XattrNeverZeroed` | |
| | `EngineImplementsBridge` | `EngineSpec => BridgeSpec` | `crash` allowed |
| | `EngineTypes` | `[]EngineTypeOK` | `crash` allowed |
| | `OfferedFilesMap` | `[]AdvertisedMappable` | no `statfail` |
| | `HeapIsExact` | `[]HeapExact` | |
| `BufferCacheProofs` | `DirectWritesKept`, `CacheIsCurrent`, `GranuleIsOne`, `PlainOnlyBeforeMount` | the four safety properties of the run | no `purgefail` |
| | `CacheTypes` | `[]TypeOK` | |
| `LifecycleProofs` | `WritersExclude`, `EnginesClosed` | `[]OneWriter`, `[]NoEngineLeft` | |
| | `KernelAgrees`, `ReadOnlyKept` | `[]KernelModeAgrees`, `[]ReadOnlyRespected` | |
| | `ChecksNeverBlock` | `CheckNeverBlocks` | |
| `MkntfsProofs` | `DeviceOwnership`, `MftLast` | `[]DeviceFreedOnce`, `[]MftComesLast` | |

Most proof modules make Zenon the default prover with `USE ZenonT(40)`; steps with
arithmetic, records or sequences cite `SMTT(40)`. The 40 seconds are room for a slow
or busy machine: with four modules proved at once every leaf took 12 seconds or less.

**Data (`KoioProofs`).** The inductive invariant is `DataInv`. `AckedDurable` alone is
not inductive: a completion acknowledges a window, so one must know that a landed
window is all data on allocated clusters (`WinOK`); zeroing at a map could destroy
it, so all data must lie below `initialized_size` or the mark (`AttrOK`); a failing
write makes its own bytes stale, so windows must be disjoint (`Disjoint`); and what
a truncation cut off a window holds no data, even if the file grew again, or the
abort of that window could zero it (`WinOK`). The step lemmas, one per action, rest
on `Grows`: each attribute operation of a map only grows the attribute and neither
makes nor destroys data. That outstanding writes are disjoint is in the model.
The flags `regrow`, `overtaken`, `maperr` and `nomap` are covered by the theorems and
left out of `Koio_durable` only for its running time.

**Exposure (`KoioProofs`).** `OnlyHandledFaults` allows reordering, failing writes,
truncation, failing maps, completions without a map and completions that fail
before or after the stamp. A `crash` is excluded because a residual under an
outstanding write outlives it; the other excluded flags are in section 3.
`ExposureInv` adds to `DataInv`, in `ExposureOK`, that a stale byte
below `initialized_size` or below the mark lies in an outstanding write, that the
mark is inside the file, that a window which a truncation cut lies behind the end
of the file from there on, and that a failed write waiting for its abort has
nothing stale below `initialized_size`, where the abort would not zero it. `Clean` is the relation that the
operations of a map preserve: the new attribute shows no stale byte that the old one did not. `Explained` is the action
property behind `OnlyReordering`: a byte that becomes readable while stale lies in a
write that is outstanding before and after the step and ends at or below the new
`initialized_size`, which the step has raised. Every action lemma shows both,
`ExposureOK` afterwards and `Explained` of the step.

**Namespace.** Three layers, one per module.

- *Tree.* `Base` is inductive by itself, through failed calls and failed rollbacks: `fs`
  is a tree closed under parents, whose files are each linked once; objects, caches,
  identifiers and generations are tables over paths; and for a rename in progress
  `OpOK` says what the request relies on (`Request`), where the file is before the
  move (`Unmoved`) and where the victim is in each stage (`Victim`). Moving a
  subtree keeps a tree because re-basing paths is injective and commutes with
  `Parent` (`RebaseBack`, `RebaseParent`, `TreeMove`). `Types` follows.
- *Links.* `CachesAgree` and `ItemFollowsFile` speak of the state at rest, and are not
  inductive: in the middle of a rename objects and names disagree in a way that
  depends on the stage. `Where(i)` is the path at which the file of object `i` really
  is; `LinkOK` says that it is there, that every live object is cached under its own
  path, that identifiers are distinct and agree with the objects, that nothing but
  the victim is cached at or below the new name (`Clear`), and that the old one is free
  after the move (`Gone`). `Rekey` then gives every live object the path `Where` named.
  `Linked` claims this until a rollback has failed, as the properties do.
- *Views.* For `Atomic` the mapping hides names that are not `User` and shows a parked
  victim at its old name: parking, rolling back, pointing, deleting and re-keying
  are stutters, and the move, or the rollback that failed, is one `Rename` or `Unlink` of
  `NamespaceAbs`. For `Verifiers`, `VerOK` says of every list held that it is the
  directory's contents, or its generation is no longer the one sampled, or a
  request that will raise it has not finished (`Busy`). `EnumAlone` is what the run's
  environments satisfy: failing moves with enumerations are finding 3, and nested moves with
  enumerations break the property too (section 3), since `gen` is keyed by path. It
  also makes `Flat` hold, that a moved directory holds no directories.

**Bridge.** `BridgeInv` says that link counts are exact, that no two entries of
`wr` are equal, that every entry's sequence number is at most its record's, and
strictly below it for a free record (`MarksPast`), which is why an orphaned
entry is never found again; and for a rename in progress that both names belong to
one file, unless the old one is gone. `EngineImplementsBridge` then carries all five
theorems over to the composition: mounting, falling back and dying between two
steps of a rename are stutters or `Crash` of `Bridge`.

**Mount.** `MountInv` relates the remembered cluster size to the volume's: while the
volume is active it is known, and it is the volume's own if clusters do not fit the
device's blocks. A format under an active volume chooses clusters that do, so a
stale value can only inhibit. It also says that `readOnly` is how the engine is
mounted, which the refusals for resident files and tails need. For `HeapExact`,
`HeapInv` says in which state the heap is in each stage of a call. A call's list of
things to get is a `Plan` from one set of allocated objects to another: at every entry
the cleanup for a failure there `Cleans` what was got before it, each object once and
none after an object it reads. That is shown of each list of the bridge; that steps
along a plan keep the heap exact is then one argument for all of them.

**Buffer cache.** `CacheInv` says that no copy on disk or in the cache is old, and
that no cached block and no block of the running access shares a sector with a
cluster the kernel may be writing (`CachedOK`, `CallOK`). The arithmetic of granules
and clusters is in `DivMod`, `Less` and the lemmas after them. `TypeInv` needs none of
this and holds also when purges fail: that the blocks of an access cover sectors of the
device rests on the granule dividing the device (`PickDivides`).

**Lifecycle.** `LifecycleInv` says that only the volume loaded last is active and has an
engine, read-only exactly if the volume is for the kernel, and that tasks take turns.
`OneWriter` is not inductive: it speaks of running tasks, and whether one may write is
settled when it samples. `Alone` carries it from the start of a task to its end: a
volume that is open is one the task has missed, or the one it captured, and then the
task does not write.

**Mkntfs.** `DeviceInv` says who owns the device in each stage, and whether it is open.
For `MftLast`, `LastInv` counts how far a format is: while the script runs, the files
whose entries are done have their final contents, and `$MFT` does not until it is its
turn (`Reached`).
The script is a long constant sequence, `Opening` and then the four syncs; what the
proof needs of it, that `Opening` writes every file but those synced later and the
backup boot sector, and that `$MFT` is synced after the root and the bitmap, is shown
by going through the sequence entry by entry. A format that skips the rest of the
`$Extend` files lands on the syncs with the same: entries of `$Quota` stand only behind
`Front`, the part of `Opening` that has all the writes (`QuotaBehind`).

Only model-checked:

- `EveryTaskCompletes` of `Lifecycle`: liveness is outside what the prover does.
- Of `Mkntfs`: `TypeOK`, `LayoutDisjoint`, `BitmapTruthful`, `CleanFormatSucceeds`,
  `RecordsFit` and `ProbeFindsLabel`. They are about numbers that recursive functions
  compute (`TakeFree`, `FittingLog`, `AllocateRuns`, sums over runs and attributes), so
  they need induction over data. `LayoutDisjoint` is moreover a statement about real
  sizes: scaled down far enough, with a tiny `MaxClusters`, files do not fit.

## 5. What is not modelled

- File read and write by byte copy (`nk_read`, `nk_write`): one library call each, and
  no state of the driver depends on it. The same holds for the contents of
  symbolic links, the volume name and label, and statistics.
- `setAttributes` takes the engine twice, for the size and for the times; the size is
  `Truncate` of `Koio`, and between the two any other call can come.
- Extended attributes: empty values, several of one file, the conversion of names.
- The position that `seek` keeps in the engine's device, and libbde itself.
- In the parser of labels: update-sequence fixups, and records no mkntfs wrote; the
  UUID and the signature tests of `probeResource`.
- Contents and ordering of index entries, collation, and the contents of tables.
- In `Namespace` an engine call that fails leaves the tree as it was; calls that fail
  after their effect are in `Bridge`, and the two are not composed. A created node
  whose inode fails to close (`ntfs_bridge.c:440`) stays, with no item for it.
- Hard links; the volume refuses to create them. `Bridge` has those of Windows.
- Cookies of resumed enumerations: the check of the verifier and the listing
  are two steps (`NTFSVolume.swift:567`), so one batch may skip an entry.
- I/O through an item removed while open: it goes by path, and the code relies
  on the kernel not to send it.
- Kernel I/O smaller than a cache block inside one cluster.
- The byte-exact rounding of a read map at `initialized_size`.
- The order of a `Progress` that completes before its upcall returned, the
  decisions DiskArbitration takes on a failed check, and the write error at
  unmount, which FSKit's `unmount()` cannot return.
- mkntfs: bad blocks, the slow format, sector sizes other than 512, options
  (`nk_format` passes fixed ones), and one result it ignores: when `add_attr_std_info`
  fails (`mkntfs.c:4491`) a record lacks that attribute and the format goes on.
