# Verification of rust-fs-ext4

TLA+ models of the ext2/3/4 driver in `src/`, the TLC runs that check them on
small instances, and proofs TLAPS checks for every instance. `PROJECT.json`
lists the components, the runs, the source lines behind every definition, the
hazards of the code with the properties that watch them, and the theorems.

## The system

The driver has no process of its own. A `Filesystem` is a handle over a block
device; callers, one or several threads, invoke its operations, and each
operation runs to its end in the caller's thread. An operation stages its
changes in a `BlockBuffer` and hands that to `commit_block_buffer`, which
writes it through the journal or, without one, directly in flushed stages.

| Part | State | Operations that change it | Module |
|---|---|---|---|
| journal commit, log walk, replay (`journal_writer.rs`, `transaction.rs`, `journal.rs`, `jbd2.rs`, `journal_apply.rs`) | home blocks, log, journal superblock, cursor, `healthy`, RECOVER | `begin`, `commit`, `open`, `replay_if_dirty` | `Journal`, `AtomicStore` |
| buffer cache (`block_cache.rs`) | clean LRU entries, pinned blocks | `read_at`, `write_at`, `populate_cache`, `unpin_all`, `invalidate_cache` | `BlockCache` |
| allocation, buffered commits (`alloc.rs`, `fs.rs`) | bitmaps, descriptors, `AllocationState` | plan, mark used, free, `commit_block_buffer`, `write_direct` | `Alloc` |
| orphan recovery (`fs.rs`) | `s_last_orphan`, the chain in `i_dtime` | `recover_orphans` | `Orphans` |
| mount and release (`fs.rs`) | `s_state`, RECOVER, `replay_pending`, the writer | three kinds of mount, the replay hook, `fresh_read`, `flush`, `finish`, `Drop` | `Mount` |
| file content (`fs.rs`, `file_mut.rs`, `inline_mut.rs`) | the inode's map, blocks, size, `i_blocks` | pwrite, write_file, truncate, the three fallocate modes | `Content` |
| extent trees, block maps (`extent*.rs`, `indirect*.rs`) | tree and pointer blocks | insert, split, promote, shrink, punch, initialise | `Extents`, `IndirectMap` |
| directories (`dir.rs`, `htree*.rs`, `inline_mut.rs`, `fs.rs`) | directory blocks, the index, the directory's inode | add, remove, rename, split, grow, convert | `Directory`, `DirMap` |
| names (`fs.rs`, `path.rs`) | inodes, link counts, `..`, counters, generations | create, mknod, mkdir, symlink, link, unlink, rmdir, rename | `Namespace` |
| C interface (`capi.rs`, `error.rs`, `runtime.rs`) | the mount, iterators, handles, the last error of a thread | every exported call on a mount | `Capi` |
| attributes (`xattr.rs`, `inode.rs`, `fs.rs`) | the inode's area and block, reference counts, mode, owner, times, flags | setxattr, removexattr, chmod, chown, utimens, set_flags | `Xattr`, `Attributes` |
| checking (`fsck.rs`) | link counts, `..`, entries, checksums, counters | audit, each repair | `Fsck` |
| formatting (`mkfs.rs`, `verify.rs`, `superblock.rs`, `bgd.rs`) | a whole volume | format, label | `Mkfs` |

What is hard to get right here, and hard to test: a crash between any two
writes with the device free to reorder what was not flushed; a device error in
the middle of a commit, a replay or a release followed by a retry on the same
device; state decided at mount and used much later (writability, descriptors,
the log cursor, `s_state`); a cache whose lock does not cover the device;
planning from the device what an earlier step of the same transaction has
already staged otherwise; trees, indexes and areas at the exact point where
they are full; and link, reference and free counts that several parts of one
call change.

## Modules

**`AtomicStore`** is what the journal promises: a transaction takes effect at
one instant, whole, before `commit` returns Ok; an interrupted one stays in
doubt until the next mount and then is there whole or not at all. It is the
crash contract at the head of `journal_writer.rs`.

**`Journal`** is `JournalWriter::commit` and `open`, the mount-time walk and
replay, and the device. `vol` is what reads see and `disk` what a crash leaves;
a write changes `vol`, `flush` copies it, and `WritebackHome/Log/Jsb` let the
device write any block back at any time. Each device operation of a commit or
a replay is an action of its own, so `Crash`, `CommitIoError` and
`MountIoError` fall between any two. The RECOVER flag is part of the
superblock's block, so a logged copy carries it, as in the code. `StartMount`
covers the plain and the checked mount, `StartReplay` the replay hook.

The modules below take from it that a commit is one step, and so have one
action per commit. Where the code can run without a journal and order matters
(`Alloc`, `Orphans`), the stages of `write_direct` are steps.

**`BlockCache`** is `CachedDevice`. The mutex covers the maps only, so a miss
is look up, read, fill, and a write is device, then maps. A block has two
halves so that a partial write (the superblock, an inode) shows. The mount
drives it: pin the log on a read-only device, later replay through the cache,
unpin, write.

**`Alloc`** is planning, staging, commit and publication of blocks or inodes,
over groups whose uninit flag stands for a bitmap that is not on the device.
Callers interleave between the plan and the commit, as `&self` allows.

**`Orphans`** is `recover_orphans` and the functions it calls. The volume is
kept per block that is written as one unit, so that a cut direct commit can
leave any subset of a stage.

**`Mount`** is the life of a handle over a volume another owner left: what the
superblock and the journal superblock say, what the handle believes, and every
step of `mount`, `mount_lazy`, `mount_recovering`, `replay_journal_if_dirty`,
a write, `fresh_read`, `finish` and `Drop`, with errors and crashes between
them. What happens within a commit or a replay is `Journal`'s matter.

**`Extents`** and **`IndirectMap`** have no state of their own. They are the
planners and walks over a tree (or a pointer map) as operators on a stage: the
blocks as the transaction will leave them, the bitmap, the blocks taken, the
error met. Coding keeps what matters on disk: the length field that says a
range is uninitialised, the count of an entry, the depth of a node.

**`Content`** is one file, inline, with extents or with a map, and the
operations on it; the cell at position p is written with p + 1, so that a cell
in the wrong place or left from an earlier use of its block is told from a
right one. `ref` is what the file should read as. A long pwrite is a commit per
chunk, sized to the journal, and zero_range is a punch and a preallocation;
`Crash` cuts either between two commits.

**`Directory`** is one directory on disk and what its callers do to it. A
transaction is what the buffer would leave; a block read through the buffer is
read from it, one read from the device from `disk`, as the code does at each
place. Records have lengths, so that a free slot, a record grown over the one
behind it and the checksum tail are there. The index has the root's limit, the
nodes' limits, splits that never part two equal hashes, and is given up where
the code gives it up. It refines **`DirMap`**: `view` is
what lookups find.

**`Namespace`** has the operations on names over a volume whose directories
are the maps `DirMap` promises: what each stages besides names, or why it
refuses, in the order of the code's checks. **`Capi`** makes the calls, by path
and by handle, from several threads, and adds mounting, unmounting, iterators,
the last error, and the calls on content and attributes as far as they show in
counts and errors. A handle remembers the file it was made for, so that a
generation that comes round shows.

**`Xattr`** is attributes in the inode's tail and in a block that files may
share; an area is a sequence of units with entries from the front and values
from the back, so "does it fit" is the code's arithmetic. **`Attributes`** adds
mode, owner, times and flags of the same inodes: both change `i_extra_isize`
and the ctime.

**`Fsck`** is the audit's bounded walk and the repairs, one commit each, over a
volume that was damaged in named ways. The names in a finding are the lossy
strings the code makes of them. **`Mkfs`** is the geometry, the layout
and the device writes of a format in their order, what a mount asks of the
result, the opening of the journal included, and what the verifier finds in it;
a checksum is the value it was taken over. A label is written as
`commit_block_buffer` writes it: through the journal, or directly in stages.

`MC*` modules give the constants values. `JournalInvariant`, `JournalSafety`,
`AllocProofs`, `BlockCacheProofs`, `AttributesProofs`, `OrphansProofs`,
`NamespaceProofs` and `CapiProofs` hold the proofs.

Definitions marked "Mutation" are plausible bugs. Each is written before the
definition it would replace and nothing uses it: with it in place TLC finds
the property beside it in `PROJECT.json` violated, which shows that the
property depends on that piece of code.

## Runs

All with `tlc -config <cfg> <module>`. The longest, `c_interface`, takes under
three minutes with two workers; the others from seconds to a minute and a half.

| Run (cfg) | Shows | States |
|---|---|---|
| `commit_crash` (MCJournal) | `CommitIsAtomic` (refinement of `AtomicStore`); `PlanIsTransaction`: a replay takes the last transaction and nothing a longer one left behind; `RecoverGuardsLog`; `LogIsFree`: nothing is logged over a log still needed; `LogSettles`: a log left dirty is replayed and cleaned in the end | 325k |
| `cache_single_writer` (MCBlockCache) | `CleanMatchesDisk`, `ReadsAreCurrent`, `PinnedUntilDurable` for one thread | 24k |
| `orphans_cut` (MCOrphans) | `NothingStranded`, `NamedFileKept` with a journal and without; `ReclaimedOnce` with one; `RecoveryEnds` when every member can be read | 260k |
| `alloc_one_caller` (MCAlloc) | `NoDoubleAllocation`; `BitmapTruth` with a journal; `FlagVouches` over cut direct commits | 56k |
| `mount_lifecycle` (MCMount) | `TornIsNotClean`, `NothingOverwritten`, `MarkerHeld` | 23k |
| `content` (MCContent) | `ReadsBack`: a read returns what was written, holes and preallocated ranges as zeros; `BlocksAccounted`: the bitmap, `i_blocks` and the free count agree with the tree after every commit, and the tree is one no later operation refuses; `ChunkFits`: what a chunk really touches fits the journal | 173k |
| `directory` (MCDirectory) | `IsDirMap` (refinement of `DirMap`); `IndexFindsAll`: what is linked is found through the index; `BlocksSound`: records tile their blocks and no block is used twice | 12k |
| `directory_rename` (MCDirectoryRename) | the one violation, below | |
| `attributes` (MCAttributes) | `AttributesAsSet`, `RefsExact`, `StatAsSet` | 31k |
| `c_interface` (MCCapi) | `LinksExact`, `TreeShape`, `CountersExact`, `HandleExact`, `ListingComplete`; `UnreplayedUntouched`: no call changes a volume whose log is still to be replayed | 33k |
| `fsck` (MCFsck) | `NothingLost`, `NothingLaundered`, `Settles`, `NeverUndercounts` | 405k |
| `format` (MCMkfs) | `FormatSound`, `CopiesAgree`, `StructuresDisjoint` | 2k |

`directory_rename` shows a place where the code does other than a comment
says. The removal half of a rename maps the directory's blocks from the device
although the add half may just have moved them under a tree block that is only
staged; the comment says the parent is used "as the add above left it". The
rename then fails and nothing is committed, so `IsDirMap` still holds: a failed
call is a stutter there.

### Known limits of the code

Each of these configurations is a variant of a passing run with a restriction
lifted, or with a property that leaves out nothing where the one of the run names
an exception; TLC finds it violated. They are kept to document why the passing
run has the restriction, and are not runs of `PROJECT.json`.

Where a property of a passing run names an exception, the run reaches it: the
excepted states are in the state space, and the property still says the rest of
what it says in them, but for `BlocksAccounted`, which says nothing any more of
a tree that maps a block twice. A finding in `PROJECT.json` gives the lines of
the code and of the comment or document that says otherwise:

- `MarkerHeld`: `replay_journal_if_dirty` on a checked mount takes the marker down;
- `BlocksAccounted`: a keep_size over blocks preallocated before;
- `StatAsSet`: the ctime after a setxattr whose value stays in the inode;
- `HandleExact`: a generation of an earlier process that this one comes to;
- `NothingLost`: a directory whose first name is inside itself, a name that is
  not UTF-8 and whose replacement is the name of something else;
- `Settles`: `..` after the first of two runs, and a directory that keeps a
  second name because it is not UTF-8;
- `NeverUndercounts`: records past the point where a first block stops parsing.

`NothingStranded` and `ReclaimedOnce` have one that the code documents (`fs.rs`,
1610-1611): an interrupted truncate of a file mapped by pointers is given up on,
so its blocks stay.

| Configuration | Restriction lifted | What happens |
|---|---|---|
| MCJournalReopen | `Settled` | a plain mount after a failed commit applies a log that is only in the device's cache (`LogDurableBeforeApply`; `journal_apply.rs` says "after the journal is already on disk") |
| MCBlockCacheShared | one thread | a miss that raced a write caches the old bytes (`CleanMatchesDisk`) |
| MCOrphansLeak | journaled volume | a direct commit cut after the inode and before the bitmap leaks the blocks (`RetryFinishes`) |
| MCAllocShared | one caller | two threads are given the same unit (`NoDoubleAllocation`) |
| MCMountHook | `h.hooked` in `MarkerHeld` | the replay hook clears a checked mount's RECOVER (`MarkerAlways`) |
| MCMountRetry | hook succeeds at once | a failed and repeated hook leaves old descriptors or an old cursor (`ViewIsCurrent`) |
| MCContentOverlap | `met` in `BlocksAccounted` | keep_size does not see uninitialised extents: over a preallocated range the insertion reports a corrupt tree, and where the range runs on into the next leaf it is accepted and the tree maps a block twice (`OverlapRefused`) |
| MCFsckLoop | `Swallowed` and `Mistaken` in `NothingLost` | of a directory's names the repair keeps one that lies inside the directory, or removes another entry for one that is not UTF-8; a subtree or a file leaves the tree (`TreeKept`) |
| MCFsckAcross | the second run in `Settles` | a directory with names in two parents keeps the `..` of the one it lost, until a second run (`SettlesOnce`) |
| MCFsckFirst | the end of a first block in `NeverUndercounts` | a first block that stops parsing is taken as an end and counts are lowered (`CountsAll`) |

A further restriction is `Logged` in `MCBlockCache`, which names each block
once: a replay that stops between two logged copies of a block leaves the older
one pinned. Two properties one might expect of `Mount` are not stated, because
they are not so: a replay may put VALID_FS back under a mount that cleared it,
since a logged superblock carries the state of when it was staged; and a volume
with a journal can be written directly, when it was mounted on a read-only
device that became writable. `TornIsNotClean` holds in spite of both.

Behaviour that is modelled as the code has it and that a reader may not expect:

- zero_range is two commits; a crash between them leaves a hole, which reads as
  zeros too (`Content`, where a todo list carries the second);
- a listing by path refuses an ext2/3 directory that a lookup serves
  (`fs.rs`, 1928-1930);
- a 64 KiB block size for ext2 and ext3 is refused, because a record of a
  whole block does not fit `rec_len` (`mkfs.rs`, 489);
- `dir_next`, `dir_close` and `umount` leave the last error of the thread alone;
- a generation equal to `GEN_ANY` cannot be asked for by handle;
- a mount of a read-only device whose log is dirty refuses every change, also
  once the device turns writable, until `replay_journal_if_dirty` is called
  (`TurnsWritable` in `Capi` is that device);
- with `DIR_NLINK` a directory's count of 1 stands for any number of
  subdirectories, so `LinksExact` takes it in every case;
- a plain mount after a failed commit is left out of the passing journal run
  (`Settled`; `MCJournalReopen`), and of two threads there is one in
  `cache_single_writer` and in `alloc_one_caller`;
- a call that creates by handle may report a failure to read the new inode back
  after the create was committed.

### Bounds

- `Journal`: three blocks, one of them the superblock's, two tags a descriptor
  and a ring of six blocks: the larger transaction needs two descriptors and
  fills the ring, and its second descriptor is still in the log behind the next,
  shorter transaction. Two transactions per behaviour and two faults, so that a
  fault strikes in the recovery from another. The proofs lift all of this.
- `BlockCache`: three blocks, two values, two clean entries: the cache is full
  with one block outside, two blocks pinned, one of them the superblock's.
- `Orphans`: three inodes, two of them in one table block, every chain over
  them (cycles included), the second inode readable or not and mapped by extents
  or by pointers, two cuts. `OrphansProofs` lifts these bounds.
- `Alloc`: two groups of three units, one unit implied in use and one reserved,
  up to two units an operation, every initial combination of flags and bitmaps.
  `AllocProofs` lifts these bounds for one caller.
- `Mount`: no bound; the state space is finite.
- `Content`: files of up to seven blocks of two cells, four operations. The root
  holds two entries and a node three, over free space in one run, in single
  blocks and nearly exhausted, so that trees split, promote to depth two,
  shrink, and run out of blocks halfway; a map has one direct pointer and two
  per pointer block. The log allows chunks smaller than the longest write. Some
  files start with preallocated blocks across two leaves.
- `Directory`: five names, two of equal hash, one that fits no partly filled
  block; blocks of six units; starts that are full: linear in a full root,
  linear under a full leaf of the tree, block-mapped, inline, indexed with no,
  one and two levels, with and without checksum tails. Three operations reach a
  split, a lost index, a conversion and a promotion from them. No step
  reads the last call and its answer, so the view leaves them out; the refinement
  is checked on every step all the same.
- `Attributes`: three files, two sharing a block, the third an inode without
  extra fields, a small inode or one with a value in an inode of its own; areas
  that two attributes fill. Times of four bits and two of era, at every edge.
- `Capi`: eight inodes in two groups, two calls of one thread (calls are steps,
  so a second thread adds the last error of its own and nothing else), over a
  volume of two empty directories and one with a hard link, nested directories,
  a shared attribute block and a directory at the link limit, the last with
  generations of another process, one of them the next this one gives out; each
  as it is found, clean or with a log to replay.
- `Fsck`: two trees of six inodes, one with a hard link, an indexed directory and
  an uninitialised group, one with a directory whose child has a lower number and
  a name that a replaced name could be; damaged in up to three of the ways of
  `MCHarm`, walks bounded below and above its size, two runs.
- `Mkfs`: sizes scaled so that each limit of the code (a group's bitmap, the
  inode count, `rec_len`) is met by some request, and one block under and over
  it, and a journal that needs the doubly indirect block. A counter is cut to
  its width as in the code; no group the geometry allows is large enough to
  lose anything by it. A label goes through the journal where there is one.

### Fairness

`Journal.FairSpec` is weak fairness of the steps of a commit and of a mount,
`Orphans.FairSpec` of the steps of a recovery: a call that has begun runs in its
caller's thread without waiting for anyone. Both also assume an owner who comes
back: a volume found unmounted is mounted, and a handle whose journal failed is
released. Nothing forces any other call, a fault to happen or the device to
write back. Faults are bounded, which is what lets a mount end. The other
modules state safety only: their calls are single steps, or sequences of
commits that a crash may end at any point.

Deadlock is checked in the runs of `Journal`, `BlockCache`, `Orphans`, `Alloc`
and `Mount`, whose callers can always go on; the others stop at their bound on
operations.

## Proofs

`JournalInvariant`, and `JournalSafety` on it, prove about `Journal`, for every
volume, every set of transactions, every ring size, every number of tags a
descriptor holds and every number of faults:

- `TypeCorrect`: `Spec => []TypeOK`;
- `RecoverGuards`: `Spec => []RecoverGuardsLog`;
- `ReplayIsWhole`: `Spec => []PlanIsTransaction`;
- `LogStaysFree`: `Spec => []LogIsFree`;
- `JournalIsAtomic`: `Spec => CommitIsAtomic`, that is, `Journal` implements
  `AtomicStore`.

The assumptions are `JournalAssumption` and `TxsAssumption` in `Journal` (a
ring of at least one block, non-empty transactions in block order, `Starts` a
set of volumes) and, for all but the first, `Settled`: a plain mount or the
replay hook finds nothing left in the device's cache. Only the checked mount
flushes before it replays; `MCJournalReopen` shows what happens without the
assumption, and it is why `Settled` is a constant of the model and not left
implicit.

The argument. The safety properties speak of the durable image and are not
inductive: whether a write-back is harmless depends on the other image, on the
step the writer is at and on what the log holds. `IInv` in `JournalInvariant`
adds, in conjuncts of their own, that the transaction in doubt names a block
once and carries RECOVER in its superblock copy (`TxInv`); that both logs hold
it whole while either journal superblock is dirty, and no block of either has
a sequence above the durable one (`LogInv`), which is what keeps remains from
passing for the next transaction; which journal superblock is where
(`CursorInv`); how much of the transaction the walk has taken, descriptor by
descriptor (`WalkInv`); which home blocks agree (`HomeInv`); that RECOVER is
on both images before the journal is dirty on either (`RecoverInv`); and what
the caller knows (`OutcomeInv`).

`JournalInvariant` has the layout of the log (`SerializeDescriptor`,
`SerializeData`: where the k-th data block is and what each descriptor names,
arithmetic with division and no induction), type correctness, `InvInit`, what
the walk does to one block (`WalkBlockStep`, `WalkEndComplete`), and that
opening a journal keeps the invariant (`OpenKeeps`). `JournalSafety` has the
commit (`CommitKeeps`), the replay (`ReplayKeeps`), crashes, errors and
write-backs (`FaultsKeep`), `InvStep`, which puts them together, and the
theorems. The refinement maps
`store` to the durable home blocks with the transaction over them while the
durable journal is dirty: a device step changes that only when the dirty
journal superblock reaches the medium, and then by the whole transaction
(`DeviceStep`); every other step leaves it alone (`QuietStep`).

`AllocProofs` proves about `Alloc`, for every number of groups and of units in
one, every set of implied and of reserved units and every number of units an
operation takes:

- `NeverTwice`: `Spec => []NoDoubleAllocation`;
- `BitmapsAreTrue`: `Spec => []BitmapTruth`;
- `FlagsVouch`: `Spec => []FlagVouches`.

The assumptions are `AllocAssumption` in `Alloc` and `OneCaller`: callers do
not interleave, which nothing in the driver enforces and without which
`MCAllocShared` has a counterexample. None of the three is inductive: they speak
of the device, and what a commit makes of it depends on the caller's buffer.
`IInv` adds that the device is `Sound` for what is in use; that the mount's
cached flags, less the clears it has published, are the device's (`ViewInv`);
that the buffer, laid over the device, is right for what will be in use once the
caller commits, and wakes exactly the groups it says (`BufInv`); and that what
the caller was given or has planned is nobody's (`GotInv`). `CommitWhole` is the
fact that a whole buffer takes a sound volume to a sound one; `FailKeeps` that
any part of a stage does when nothing of the descriptors overtakes the bitmaps.

`BlockCacheProofs` proves about `BlockCache`, for every set of blocks, every
log, every capacity and any number of threads:

- `EntriesMatchDisk`: `Spec => []CleanMatchesDisk`, under `Exclusive`;
- `ReadsSeeTruth`: `Spec => []ReadsAreCurrent`, under `Exclusive` and `Once`;
- `PinsOutliveNeed`: `Spec => PinnedUntilDurable`, an action property, with no
  hypothesis.

The model assumes only that the log is a sequence of block images
(`CacheAssumption`). `Exclusive` says that no thread writes beside another. The
cache does not enforce it, and `MCBlockCacheShared` has the race it excludes: a
miss reads the device, a write goes by, and the miss fills the cache with what it
read. `Once` says that the log holds one copy of a block, which is so after one
transaction, all this driver leaves. With two, a replay that fails between them
leaves the older image pinned until it is retried. `CleanMatchesDisk` alone is
not inductive: what a call that missed is about to put must be what the device
holds (`CleanInv`), a call must not have missed a block that is pinned since
(`CallInv`), the two maps must be disjoint and the use order a permutation of
the first (`MapsInv`), and what is pinned, on the device and true of a block of
the log depends on how far the pinning and the replay have come (`PinInv`,
`DevInv`, `ViewInv`).

`AttributesProofs` proves about `Attributes`, and so about `Xattr`, for any
files, blocks, attributes and values, for every width of the time fields and of
the halves of an owner, and for inodes of every `i_extra_isize`:

- `RefsStayExact`: `AllSpec => []RefsExact`;
- `StatReadsBack`: `AllSpec => []StatAsSet`, the ctime of the files in `late`
  excepted.

The assumptions: finitely many files and blocks, and block 0 is none
(`XattrSets`); the volume found at mount has exact counts (`XattrStartsSound`)
and inodes with their fields (`InodesLaidOut`); callers pass integers of the
arguments' types (`Widths`, `Arguments`); and the clock gives a time the format
can store (`ClockStorable`), as the comment on `TimeUpdate::check` says it does.
`RefsExact` with the shape of the volume (`WellFormed`) is inductive, but a call
stages several changes in one step, so the proof follows the helpers: a reference
stays (`QuietExact`), is given up (`DroppedExact`), is gained (`GainedExact`) or
moves from a shared block to a copy (`MovedExact`), and each helper of setxattr and
removexattr does one of the four or stops. `StatAsSet` needs `StatInv`: which
inodes have the extra fields is said both by `vol` and by `i_extra_isize`, and a
time reads back only if the two agree when setxattr adds the fields. `PackExact`
and `BaseExact` are the arithmetic: the two words give back every time between
`MIN_ENCODABLE_TIME` and `MAX_ENCODABLE_TIME`, and the base alone every time it
can hold.

`OrphansProofs` proves about `Orphans`, for any number of inodes, any chain in
any order (one that never ends among them), any placing of inodes in blocks,
with and without a journal, and any number of cuts, each of which may leave any
part of a commit behind:

- `Stranding`: `Spec => []NothingStranded`;
- `NamedFiles`: `Spec => []NamedFileKept`;
- `Reclaiming`: `Spec => []ReclaimedOnce`.

`OrphansAssumption` says only what the constants are. The properties compare the
volume with the one first found, and what a cut does depends on the members
recovery has passed. `IInv` ties them together with one number k: the head is
the k-th member of the chain first found, the links behind it are the old ones,
the members before it are finished, and no other inode has changed (`Sound`); a
buffer being committed finishes k or k + 1 (`Staged`), and whichever of its
blocks a cut lets through, the volume is sound for one of the two
(`MergeSound`). A chain that never ends is never touched (`Cyclic`). The walk
that collects the chain is a recursive function: that it gives the chain and
ends at its end (`ChainOfPath`, `PathOfChain`) is proved without induction, by
the least place at which it would differ (`LeastNatural`), and again for the
chain that is left after a cut (`ChainOfRest`).

`NamespaceProofs`, and `CapiProofs` on it, prove about the C interface and the
operations on names under it, for any number of inodes, groups, threads, names
and calls, any tree of directories, any link limit, with and without `DIR_NLINK`:

- `LinkCounts`: `Spec => []LinksExact`.

The run makes two calls; the theorem is about histories of any length. The
assumptions are `NamespaceAssumption` (the root is an inode and not one of those
given out, a group has inodes) and `StartsAssumption`: the volumes found at mount
are `SoundVolume`s, a tree with finitely many entries in which the counts are
right. The driver does not check that of a volume; what it does to one where it
does not hold is `Fsck`'s matter. `SoundVolume` is the inductive invariant:
`LinksExact` alone does not survive a call, because the counts follow the names
only if a directory has one name, in the directory its `..` names, if what has
entries is a directory, and if an inode the allocator gives out had no name
(`AllocationFinds`: Orlov's choice and the linear search give a free inode, the
best of finitely many groups being a least counterexample again). A count is a
cardinality, so three lemmas carry the arithmetic: a name is added
(`NameAdded`), dropped with or without its inode (`NameDropped`), or moved
(`NameMoved`). Each operation then has a lemma that says what it stages, in the
order of the code's steps, and one that a volume in order stays in order; a
rename goes in three steps, the target vacated (`VacatedOne`), the name moved,
the counts of the two parents put right (`TallyRight`), and covers a file over a
file, a directory over an empty one, and a directory that changes parents.
`CapiProofs` shows that each call ends with the volume it found or the one an
operation staged.

Only model-checked:

- liveness, which is out of the prover's reach;
- `AttributesAsSet`: that decoding an area gives back the entries encoded in it
  is an induction over the area;
- what the recursive operators of `Extents`, `IndirectMap`, `Fsck` and the
  modules over them compute, because the provers lose arithmetic in a module
  that reaches a recursive operator: `Content`, `Directory`, `Fsck`, `Mkfs`;
- `Mount`, whose state is finite whatever its constants are: `MCMount` gives them
  their largest values and goes through all of it;
- of `Capi`, everything but the link counts: errors, handles, iterators, and the
  free counts of groups and superblock.

## Not modelled

- Logs of other drivers: revoke records, checksums, several transactions,
  sequence wrap at 2^32. The walk accepts them; this driver does not write them.
- The three block devices themselves. `Journal` has the device as its users see
  it; alignment and the read-modify-write of the aligned device are left out.
- The word scan of the bitmap search and runs of several units in `Alloc`
  (`Content` and `Directory` search for runs, by definition and not by words).
- Name hashing and case folding: pure arithmetic on strings. `Directory` takes
  the hash of a name as given, equal hashes included.
- Decoding, encoding and checksums of single structures, which have no state:
  they appear as guards, or as the value a checksum was taken over.
- Triple indirection beyond the shared step, attribute values in inodes of
  their own (the driver only reads them), ACL parsing.
- The command line, and the conversion of reports to C structures.
- Several callers inside one call of the C interface: a call is a step in
  `Capi`. What interleaving within calls does to the bitmaps is `Alloc`'s
  question, and `MCAllocShared` answers it.

Block writes are taken to be atomic. `PROJECT.json` gives the reason for each
component, and the hazards without a property say what they wait for.

## Plan

1. `Alloc` and `Orphans` over one volume, for the lazy mount that allocates
   before it recovers.
2. The walk as a pure algorithm over arbitrary logs (revokes, serial comparison
   modulo a small power of two, torn tails) against a reference definition.
3. The word scan of the bitmaps against a definition by bits, and the aligned
   device with two writers of one sector.
4. Proofs: the free counts of `Namespace`, and that a handle never outlives its
   generation.
