# Verification of fatsd

fatsd is a `no_std` Rust library that reads and writes FAT12, FAT16 and FAT32
volumes through a block device the application supplies.  This directory holds
TLA+ modules of its core, the TLC configurations that model-check them, and
proofs that TLAPS checks.

Line references are to the repository (`src/access.rs`, `src/write.rs`, ...).

## 1. The system

### Components

| Component | Code | State | Operations | Correct when |
|---|---|---|---|---|
| Block access | `access.rs` 59-211 | none (the device) | `read_device_at`, `write_device_at` split a range into blocks | every byte of the range is transferred once, no other is touched |
| FAT entries | `access.rs` 231-318, 888-960; `format.rs` 364-488 | the FATs, FSInfo | `read_fat_entry`, `write_fat_entry`, `next_cluster`, `cluster_at` | a write changes one entry, in every active copy; no walk leaves the volume |
| Cluster chains | `access.rs` 962-1139 | the FAT, cluster contents | `find_free_cluster`, `allocate_cluster`, `clear_cluster`, `ensure_chain_length`, `truncate_chain`, `free_chain` | chains do not cross, nothing leads to a free cluster, new clusters are clear, nothing is lost without an error |
| File writes | `write.rs` 523-687, `access.rs` 757-863 | `FileInfo` in the handle, size and first cluster in the entry | `write_file_at`, `truncate_file`, `persist_file_info`, `read_file_at` | a file shows what was written and zeroes in gaps, never other bytes; the entry never claims more than its chain holds |
| Directory entries | `write.rs` 40-400, 491-508; `access.rs` 398-644 | the slots of a directory | `create_file`, `create_directory`, `remove_file`, `remove_directory`, `rename`, `find_entry`, `read_next_directory_entry` | entries come and go whole, each is listed under a name of its own, no slot is lost, an end marker ends |
| Namespace | `access.rs` 647-683, `write.rs` 400-488 | `..` entries | path lookup, moves between directories, `directory_contains` | the directories form a tree |
| Names | `write.rs` 704-835, `format.rs` 332-351, 490-501 | none | `validate_name`, `canonical_short_name`, `short_alias`, checksum | an alias is a legal short name that only its entry answers to |
| Geometry | `volume.rs`, `format.rs` 29-149 | `Volume` | `Bpb::parse`, `Volume::from_bpb` | every cluster has a FAT entry and lies on the volume |
| Handles | `handle.rs` | copies of entry fields | none | they agree with the entry |
| MBR | `mbr.rs` | none | partition table parser | - |

### How they interact

Each component is a trait with default methods over the one below it: block
access, `ChainAccess`, `AllocationAccess`, `DirectoryAccess`/`DirectoryWrite`,
`FileAccess`/`FileWrite`.  Every method takes `&mut self`, so calls do not run
concurrently.  The state they share is the volume itself, and the handle the
application keeps between calls.  The async traits are generated from the same
source; every device access is an await point.

### What is hard

* There is no journal.  A call makes several device writes, and a device error,
  a power cut or a dropped future can end it between any two of them.  What is
  on the disk then must still be a volume that the next call can work with.
  `ARCHITECTURE.md` (allocation and consistency) promises an order of writes
  that harms no existing chain, and nothing more.
* Handles live on after a call failed, with fields changed or not.
* Errors occur in the middle: `NoSpace` after some clusters of an extension,
  or after an entry is visible.
* Sequences: deleted slots are reused, freed clusters are reused, aliases
  collide.
* Images come from elsewhere: the FAT may have cycles and crossing chains.

The full list, with the line where each bites and the properties that watch it,
is under "hazards" in `PROJECT.json`.

## 2. The modules

| Module | What it is |
|---|---|
| `Geometry` | `Bpb::parse`, `Bpb::serialize_into`, `Volume::from_bpb`: what is accepted, and where FATs and clusters lie |
| `FatTable` | extends `Geometry`: the bytes of the FATs, `read_fat_entry`, `write_fat_entry`, FSInfo, block-wise writes |
| `FatCells` | what `FatTable` promises: a table of entries, written one entry and one copy at a time |
| `FatChains` | the decoded FAT, the chain routines, one action per device write, and the calls that need one of them |
| `VolumeChains` | extends `FatChains`: all calls, with `create_directory`, its cleanup, and `rename` |
| `FileWrites` | extends `FatChains`: `write_file_at`, `truncate_file` and `remove_file`, with the bytes |
| `FileStore` | what `FileWrites` promises: contents in the handle's view and on the disk |
| `ShortName` | 8.3 names: `canonical_short_name`, `short_alias`, checksum, comparison |
| `Directory` | one directory, slot by slot, and the calls that change it |
| `DirectoryMap` | what `Directory` promises: a set of whole entries |
| `Namespace` | the tree of directories: `..`, paths, moves |
| `Geometry_proofs`, `FatTable_proofs`, `FatChains_proofs`, `VolumeChains_proofs`, `FileWrites_proofs`, `Directory_proofs`, `Namespace_proofs` | TLAPS proofs, section 4 |
| `NaturalSets` | two lemmas for the proofs: least elements and induction over a set of numbers |
| `MCFatTable`, `MCVolumeChains`, `MCFileWrites`, `MCDirectory`, `MCNamespace` | values and symmetry for TLC |

They stack as the code does: `FatTable` shows that FAT entries are cells, up to
the interruption inside `write_fat_entry`, which is what `FatChains` calls `fat`;
`VolumeChains` and `FileWrites` extend `FatChains`, one by the calls that are made
of several parts, the other by the bytes of files; `Directory` takes the allocation of a cluster
as a step, with the errors `FatChains` shows it can have; `Namespace` takes an
entry of a directory as a cell, as `DirectoryMap` describes it.

Definitions named `X_Something` under a comment "Mutant:" are plausible bugs of
`X`.  They are not used by the specifications; each shows that a property
depends on the code being as it is.

### FatChains

`fat` is the decoded active FAT (`read_fat_entry`, `next_cluster`); `Reserved`
stands for every value `next_cluster` refuses besides `Free` and `Bad`.
`dirty` holds the clusters with the bytes of a former owner: `free_chain` adds
to it, `clear_cluster` removes.  An owner is a directory entry with a first
cluster on disk (`entryFirst`) and in the open handle (`held`).  `pc` names the
routine that runs and `head`, `tail`, `cur`, `count`, `need` are its locals.

| Actions | Code |
|---|---|
| `EnsureChainLength`, `ChainTailAndLength` | `ensure_chain_length`: the bounded walk to the tail |
| `MarkAllocated`, `ClearCluster`, `LinkCluster`, `AllocationRefused` | the three writes of `allocate_cluster` and its two errors |
| `AdoptChain`, `PersistFileInfo` | `first` goes to the handle; `persist_file_info` |
| `BeginShrink`, `PersistShrink`, `ClusterAt`, `CutChain`, `FreeChain` | `truncate_file` to a shorter length, `truncate_chain`, `free_chain` |
| `BeginRemove`, `DeleteFoundEntry` | `remove_file`, `remove_directory` |
| `CallAborted` | a device error or a dropped future: locals are lost, handles stay |
| `Remount` | a power cut or unmount: handles are read again by `open_file` |

There are two specifications.  `Spec` starts from `Init`, every consistent volume:
chains that are disjoint and owned, bad clusters anywhere, old bytes in free
clusters.  `CorruptSpec` starts from every FAT image.  What is claimed of `Spec` is
claimed of the calls of this module: extensions, shrinks, removals.

### VolumeChains

`create_directory` and `rename` use chains in ways that `FatChains` does not have.
The first allocates a cluster, may make the parent grow for the entry, and frees the
cluster when `create_named_entry` failed, whether the entry is visible or not.
The second writes a second entry for a chain, and leaves it there when it ends
before the first is deleted.  `doing` and `subject` are the composed call,
`twin` the second entries on disk, and `pc` still the routine of `FatChains` that runs.

| Actions | Code |
|---|---|
| `PlainCall`, `RoutineStep` | a call of `FatChains` begins; a step of the routine that runs |
| `GrowDirectory` | `write_directory_at` past the end of the parent's chain |
| `CreateDirectory`, `PublishDirectory`, `DirectoryMade` | `create_directory`: the cluster, the short entry, the end |
| `UndoDirectory`, `GrowthFails` | its cleanup, after an error of `create_named_entry` or of the device below it |
| `Rename`, `PublishTwin`, `HideSource` | `rename`: the source is read, the new entry written, the old one deleted |
| `Abandon`, `RemountVolume` | a dropped future or an error nothing follows; a power cut |

Two steps free a chain that a visible entry still leads to: the cleanup of finding 2,
and the removal (or truncation to nothing) of one of two entries on one chain.
`spoilt` becomes true there, and the properties claim nothing afterwards: clusters
may then be handed out twice, and `free_chain` may report `CorruptChain`.  Up to
that step they hold at every device write.  `lost` remembers that clusters may be in
use for nobody: after an interruption, after the two steps of `LeavesClusters`, and after a
rename of a file whose handle has a chain that was not stored.

### FileWrites

Extends `FatChains`: a step that touches the FAT *is* a step of `FatChains`,
and the rest leaves its variables alone.  Added are `data`, the two
lengths `hlen` (handle) and `dlen` (entry), the call with its range, and the
phase of `write_file_at` or `truncate_file`: extend the chain, persist a new
first cluster, zero the gap, write the data, set and persist the length.
Every byte is its own device write.  `ReadFile` is `read_file_at`; `HandleView`
and `DiskView` read through the handle and, as `open_file` would after a
remount, through the entry.  `want` and `okFor` are history.

The refinement mapping to `FileStore` makes `HandleView` the view, `DiskView`
the disk and `call` the operation.

### Directory

`slots` is the sequence of 32-byte entries: end marker, deleted, piece of a long
name, short entry.  What the code computes from the characters of a name is
given by the constants `CanonicalShort`, `Aliases`, `Answers`, `LfnCount` and
`Checksum`; `MCDirectory` spells the names and lets `ShortName` compute them, so
that two names of the runs have the same aliases (`LETTER~1.TXT`), a third is
spelled like the alias, and two differ in the case of their letters only.  `EndIndex`, `HasLongName`, `Found`, `FreeEntries` and `NewSlots` are
`read_directory_entry`, `LfnSequence`, `find_entry`,
`find_free_directory_entries` and the writes of `create_named_entry`.  A
directory is the fixed root (`FixedRoot`) or a chain that grows by a cluster at a
time (`GrowDirectory`; its three writes are those of `FatChains`).  `DeviceError`
runs the cleanup of `create_directory`, `PowerCut` does not.

`ForeignInit` is a directory of another system, with stale entries behind the end
marker.  `Shown` is the name under which `read_next_directory_entry` lists an entry.
The refinement mapping to `DirectoryMap` makes that listing the set of entries.

### Namespace

`entries` gives for each directory and name, `..` included, a cluster, a file or
nothing.  `Ancestors` is the loop of `directory_contains`, `Opened` the
directories that some path leads to, `..` in it included.  `Rename`,
`RewriteDotDot` and `DeleteSource` are the three visible writes of `rename`;
`CreateDirectory`, `WriteDotEntries` and `NameDirectory` those of
`create_directory`; `RemoveDirectory` and `FreeChain` those of
`remove_directory`.  Loops in the code that follow edges until they find
something are least fixed points here ("in every set that is closed"), which is
the form the proofs can use.  `intact` turns false when a call ends early or a
source path ends in `..`: what holds only until then is claimed only until then.
The first state also has a volume with a directory that another program made,
with 0 in its `..` on FAT32 too.

### Geometry and FatTable

A boot sector is a record of the fields that the layout depends on.  The limits
of the format (4085, 65525, the largest `u16` and `u32`, the sector sizes) are
constants.  `Accepts` and `IsSound` are the checks of `parse` and `from_bpb`, in
unbounded arithmetic with the overflow checks where the code has them;
`RegionsInOrder` shows that the sums which the code does not check cannot
overflow.  `Mount` reads the sector, `Rewrite` writes the BPB back into it.

`fat` holds the bytes of each copy.  `WriteFatEntry` chooses the copies,
`ReadModify` reads, merges and keeps the bytes, `WriteBlock` writes the part that
lies in one block of the device, `InvalidateFsInfo` ends the call, `Interrupt`
cuts it anywhere.  `stored` and `cut` are history.  The refinement mapping to
`FatCells` decodes every entry of every copy; only an entry that lies across two
blocks may be seen half written (`Tear`).

## 3. The runs

| Run | States | What it shows |
|---|---|---|
| `volume_chains` | 591,680 | from every consistent volume, through all calls and interruptions, until a chain is freed under a visible entry: chains are disjoint (`NoCrossedChains`), nothing dangles (`NoDanglingEntry`), two entries share a chain only because of a rename (`OnlyRenameShares`), old bytes are unreachable (`NoStaleBytes`), only the calls known to leave clusters for nobody do so (`OnlyKnownLeaks`), walks end where the chain does (`WalksComplete`), other entries are untouched (`OtherChainsKept`); `VolumeInv`, with the types, is the inductive invariant of the proofs |
| `any_image` | 108,717 | from every image: each call returns (`CallReturns`), no routine leaves the volume (`TypeOK`), bad and reserved entries stay (`MarkersPreserved`) |
| `file_writes` | 1,231,565 | `StoreRefined`: reads never show a byte no call put there; `LengthCovered`: an entry never claims more bytes than its chain holds; `CallsDoWhatTheyAsk`: while nothing failed, contents are exactly what was asked; `StoreInv` (with the types) is the inductive invariant of the proofs |
| `two_files` | 413,202 | `StoreRefined` with two files on one volume; `ChainsRefined`: the chains of files obey `Spec` of `FatChains` |
| `file_retry` | violation | finding 1 |
| `directory_root` | 975,341 | `FitsRoot`: no write runs over the end of a fixed root; `StaleStaysHidden`: as long as no call failed, what another system left behind the end marker does not come back; `AdoptsLeftoversOnly`: with a file called like an alias, no entry is listed under another's long name as long as no call failed |
| `directory_chain` | 216,335 | `MapRefined`: whole entries come and go, a rename never loses the file, in a directory that grows, with the volume filling up; `ListedOnce`: no two entries under one name; `ShortNamesUnique`: no alias is given twice; `NothingBehindEnd`, `NothingLost`, `RemovalHidesFirst`; `DirInv` (with the types), `NamesInv` and `LostInv` are the inductive invariants of the proofs |
| `directory_no_space` | violation | finding 2 |
| `short_names` | violation | finding 4 |
| `namespace` | 49,700 | up to the first interruption, `Tree`: every directory has one entry, in the directory its `..` names, and no cluster is lost; `NeverDetached`: at every instant of every call, each directory is reachable; `WalkUpIsWalkDown`: `directory_contains` answers what the entries say |
| `namespace_dotdot` | violation | finding 3 |
| `fat_table` | 168,356 | `EveryClusterHasEntry`, `RegionsInOrder`, `SerializeParses` for a family of boot sectors; `NeighboursKept`: no bit outside the entry changes; `SettledBetweenCalls`: copies agree, FSInfo is not wrong; `CellsRefined` |

### Bounds, and why they are enough

* `volume_chains`: four clusters, two entries and a third that a rename makes, with
  chains of up to three clusters asked for.  Enough for two chains of two, an
  allocation that wraps round the end of the FAT, `NoSpace` in the middle of an
  extension and of a parent's growth, a cut with a tail of more than one cluster, and a
  rename that leaves two entries on one chain while calls on others go on.  The run
  stops where a chain is freed under a visible entry (`UntilSpoilt`).  The proofs
  remove the bounds.
* `any_image`: three clusters give self-loops, cycles with and without a tail,
  crossing chains and links to free, bad and reserved entries; four clusters
  asked for is more than the volume has.
* `file_writes`: three clusters of two bytes and files of up to three bytes:
  full and partial last clusters, gaps inside and across a cluster boundary, an
  extension that runs out of space (`MaxRequired` is 2, and bytes of a former
  content remain in the last cluster).
* `two_files`: one byte per cluster, two files of up to two bytes, three
  clusters, so that the files compete for the last one.
* `directory_root`: five slots, the end marker first and each later slot an end marker or a
  stale entry (81 directories); `letter.txt`, `letter to home.txt` (three slots) and
  `LETTER~1.TXT` are created, renamed and removed, so that the last slot and
  `DirectoryFull` occur.  `MaxFaults` = 2 interruptions.
* `directory_chain`: clusters of two slots and two free clusters, wanted both by
  new directories and by the directory itself, for `LETTER.TXT`, `letter.txt` (which
  needs a long name) and `letter to home.txt`, which has the aliases of the second, so that a
  long run of deleted slots and a run that ends at the end marker occur.
  `MaxFaults` = 1.  The directory has no more clusters than there are
  (`WithinClusters`); after the defect of finding 2 it could get one of them twice.

* `short_names`: two names, no interruption; the alias of one is enough.
* `namespace`: four directories and two names: a chain of four, siblings, a
  move to the grandparent, a move below a sibling, into a full and an empty
  directory; one interruption, at which the run stops (`UntilInterrupted`), since
  no property speaks of what comes after it.  FAT12/16 (the root is 0 in `..`) is checked;
  the proofs cover FAT32, where it has a number, and any number of both.
* `namespace_dotdot`: three directories, no interruption, and sources that end in
  `..`.
* `fat_table`: the limits of the format are scaled down (FAT16 from 5 clusters,
  FAT32 from 10, the largest `u16` 20 and `u32` 29, directory entries of 4 bytes)
  so that each check of `from_bpb` decides for some sector.  Every combination of
  the fields' values is mounted (73,728 sectors), and sectors that `parse` refuses (`Defects`); on four of them,
  FAT12, FAT16 and FAT32 with and without mirroring, two copies each, the entries
  of clusters 2 and 3 (`WrittenClusters`) are written, free, last or linked, in blocks of 4 bytes, so
  that FAT12 entries share a byte and one lies across two blocks.  Markers and
  masks are the real ones.  The proofs hold for the real limits.

In `FatChains`, `FileWrites` and `Directory` integers do not overflow within these
bounds; the `u32` and `u64` limits of the code there are early returns (a file of
4 GiB, an offset beyond `u64`) and are left out.

Symmetry is used for entries (`volume_chains`, `two_files`) and for clusters in
`Directory`, where their numbers do not matter.  No liveness property is checked
under symmetry of more than one element.  Deadlock is not checked in
`fat_table`: on a volume that was rejected there is nothing left to do.

### Fairness

`CallReturns` assumes `WF_vars(Step)`: a call that can make its next step
eventually makes it.  In the sync API the call runs until it returns and the
device answers every access; in the async API the executor keeps polling the
future or drops it (`CallAborted`).  Nothing is assumed of the application.

## 4. The proofs

`FatChains_proofs` holds for every `ClusterCount`, `MaxRequired` and `Owners`
under `ChainAssumption` (at least one cluster, and a value for "no call" that is
no owner).

The safety invariants are not inductive.  Take `NothingDangles`: while
`free_chain` runs, the cluster it is about to free must hang from nothing, and
while `allocate_cluster` runs, the cluster it has marked must be nobody's.
`ChainInv` adds what the running call relies on:

* `WalkInv`, which holds on *any* image: types, and which locals stand for
  clusters at which step.  `WalkInit`, `WalkNext` prove it inductive; `AnyImageTyped`
  and `MarkersKept` follow.
* `CallInv`, on a consistent volume: a cluster that is being allocated or freed
  has no predecessor and no reference, the chain under construction hangs from
  `head`, belongs to the call's entry alone and holds no old bytes.

`ChainInit` and `ChainNext` prove `ChainInv` inductive under the calls of `FatChains`,
with one step per action (`ChainInvariant`).  `TailIsLast` follows from `WalkInv`
alone: the check with which `allocate_cluster` begins cannot fail when
`ensure_chain_length` calls it, even on a damaged volume.  About whole chains
`ChainInv` says too little.  Three more invariants do:

* `WalkedInv`: the clusters a bounded walk has counted are that many different
  ones.  `NeverReportsCorrupt` is then the pigeonhole principle: once a walk has
  counted `ClusterCount` clusters, one more link would lead to a cluster that has a
  predecessor already, to the head, which has none, or to a free cluster, all of
  which `ChainInv` excludes.
* `PathInv`: the cluster a routine works at is reachable from `head`, and `head` is
  what the handle had when the call began.  `OthersAreUntouched` follows,
  since a cluster that is reachable from the head of one entry is not reachable
  from that of another.
* `EntryInv`: unless a call failed, entry and handle differ only while the running
  call makes them differ.

`NothingLeaks` is proved as an invariant of its own (`Covered`, `NoLeak` said of
all closed sets).  `Reach` is defined as the least closed set.  The proofs use it
in this form throughout, and `SetInduction` where they count.  These theorems are
about sequences of the calls of `FatChains`, and `FileWrites_proofs` uses them as
such; with `rename` among the calls they are false as they stand.

`VolumeChains_proofs` has all calls, for any number of `Twins`.  `LongInv` is
proved inductive there (`LongInvariant`).  One part holds always: the types, `WalkInv`
and `ComposedInv`, which says which routine runs for whom below a composed call.
The rest holds until `spoilt`: `ChainInv`, `TwinInv`, the walks and
the leaks.  `TwinInv` is the new idea: a second entry leads to the first cluster of a
chain in use, never to one that is being allocated or freed.  Each step of `FatChains`
keeps `ChainInv` by the lemmas of `FatChains_proofs` and `TwinInv` by lemmas here
(`TwinKept`), and the steps of the composed calls are taken one by one.  The
theorems `ChainsStayApart`, `NothingLeadsAstray`, `SharingIsRenames`,
`NoStaleByteShows`, `WalksReachTheEnd`, `LeaksAreKnown` and `OthersStayWhole` read the
properties of the run off it, `spoilt` included.

`FileWrites_proofs` shows `FilesUseChains`: every step of `FileWrites` is a step
of `FatChains` or leaves its variables alone, so that what is proved of
`FatChains` holds while files are written, for every cluster size, every bound
on lengths and any number of files (under `FileAssumption`: `MaxRequired`
clusters hold `MaxLength` bytes).  The step lemma, `StepUsesChains`, needs two
facts.  `RequiredRange`: the number of clusters for a length is within the
bound, and at least one for a byte.  And that the call in progress belongs to a
file, which is part of `FileInv`: types, and how far a call is (`CallProgress`:
the gap is filled below its end, data is written below the end of the range, a
longer truncation has a gap).  `FileInv` in turn needs the types of
`FatChains`, so `FilesInv` proves both invariants in one induction.  `FilesKeepChains`
carries the theorems of `FatChains_proofs` over; `create_directory` and `rename` are
not among the calls it speaks of.

`LengthsAreCovered` needs to know where in a chain the running call is.
`ExtentInv` says so: `PlaceInv` (the tail is the cluster at position `count - 1`, the
cut at `need - 1`), `RoutineInv` (which routine runs in which phase, for how many
clusters) and `CallCovered` (once the chain is extended, it holds the range).
Positions, `ClusterOf`, are a recursive function, so the lemmas (`PositionBelow`,
`PositionAgrees`, `PositionReached`) go through walks of a given length, by
induction over the set of lengths for which they hold (`SetInduction`), since
induction theorems that take a predicate are out of the provers' reach.  The two ends of the argument are that a chain that
`ensure_chain_length` extended has `Required` positions, and that a cut at
position `need - 1` or the release of a tail takes none below it, in this chain or
another.

From positions it is one step to bytes: `ReadFile(first, length)` is a function of
the positions that `length` takes and of what their clusters hold (`ReadKept`).
Two lemmas say what a device write does to what files show.  `SteadyStep`: a step
other than those of `write_zeros` and `write_file_data_at` changes no byte of any
file, taken with the chain and length its entry or its handle has, because what is
cleared, linked or freed hangs from no file (`OffFiles`) and a cut is made above the
positions a file takes (`CutKeepsPositions`).  `PutByteShows`: a byte that is
written shows at its position in the files on that chain, and nowhere else, because
two positions never share a cluster (`PositionsDiffer`) and two chains never do
(`ChainsApart`).

`StoreInv` completes `FileInv`, `RoutineInv` and `ExtentInv` with what the bytes are
worth.

* `WrittenInv`: up to the position `done`, the gap reads zero and the range reads the
  byte of the call, although neither shows yet; and a call is never before the
  end of what it has to fill.  Without it the step that sets the new length could show
  anything.
* `WantOK`: calls ask for bytes of the application and zeroes, never for `Stale`.
* `ContentsInv`, claimed while no call has failed: a file shows what was asked
  for, or what was asked for is what it shows with the range of the running call
  written over it (`Written`); and its entry says what its handle says, or the
  running call is about to store it.

`StoreInvariant` proves it inductive (`AllFilesKept`, with `ChainInv` and `PathInv`).
`StoreIsRefined` needs neither `WantOK` nor `ContentsInv`, and so nothing about failures:
`StepRefines` maps each step to one of `FileStore`.  A byte written below the length in
the handle is an `Overwrite`; one past it is a `Prepare`, which shows only where an
interrupted truncation left the entry longer than the handle; the last one of a
call that makes the file longer is its `Grow` (`GrownShows`, from `WrittenInv`); every
`persist_file_info` is a `Persist`, and all that happens to chains is invisible
(`QuietShows`).  `FilesShowWhatWasAsked` reads `ContentsInv` between two calls.

`Namespace_proofs` holds for every finite or infinite set of directories and
names, for FAT32 and the others (`NamespaceAssumption`: the values are different).
`Tree` alone is not inductive: in the middle of a rename a directory has two
entries and `..` names one parent, then the other.  `IInv` therefore has three
parts, claimed while `intact`: `Shape` (every directory that is not being moved
has exactly one entry, in the directory that `..` names, and the walk up comes to
the root), `MoveShape` (the one being moved has exactly the old and the new
entry, and the destination is not below it) and `Account` (every cluster is a
directory, free, or the one the call is about).  The heart is how `Ancestors`
changes when one `..` is rewritten: it is a least fixed point, so the proofs
exhibit closed sets instead of doing an induction along a path.
`WalkUpIsWalkDownHolds` then shows both directions by the same means.

`Geometry_proofs` is arithmetic about the conditions of `parse` and `from_bpb`:
`Packed12`, `Packed16` and `Packed32` show that the capacity check covers the
last byte of the last entry, the rounding of FAT12 included.  `Invariant` says
that a mounted volume is one that was accepted; the three properties follow.  The
assumption, `GeometryAssumption`, only says that the limits are numbers, so the
theorems hold with those of the code.

`FatTable_proofs`: `StoredIsRead` is the codec's round trip for all widths and any
old bytes.  `EntryIsReadBack` says of all entries that `serialize_into` accepts
which ones `parse` returns: all but a `Reserved` with a value that means something
else, which is accepted as well and read as what the value means (`Reserved(5)` as
`Data(5)`, `Reserved(0)` as `Free`).  `TableInv` adds to the
types what a running call holds in its hands: the bytes still to be written
differ from those on the device only in half bytes of the entry (`Writing`,
`Pending`).  `NeighboursKept` follows from it step by step: a block that is
written changes nothing else, wherever the block boundary is.  `FatSpecIsSpec`
carries the theorems about the geometry over to the table, which needs them: an
entry's bytes are in the FAT because `from_bpb` checked.

`StoredInv` relates bytes to history.  For every entry except the one being written,
each copy in use decodes to the value stored last; the copies that
`write_fat_entry` has passed decode to the new one; and in the copy at hand the
bytes on the device, completed with those still to be written, do (`RestStores`).
Decoding depends only on the half bytes of the entry (`EntrySame`), which is where
`NeighboursKept` comes in.  `SettledHolds` is what is left of it when the call
has returned.  `CellsAreRefined` maps every step: a block that completes an entry in one copy
is the write of a cell.  A block that does not can exist only when the entry
straddles two blocks (`TornInv`), and is a `Tear`.  All other steps leave the
cells alone.

`Directory_proofs` holds for every set of names, every table of aliases and
checksums, directories of any length with clusters of any size, any finite set
of clusters and any number of faults (`DirectoryAssumption`).  There are three
inductive invariants, each checked in `directory_chain` first.

* `DirInv` describes the slots and the running call.  `WriteInv`: the run still to be
  written is the rest of an entry whose first pieces stand right before it, and
  only deleted slots and the end are overwritten.  `SourceInv`: the slots a rename or a
  removal will delete are still its own.  `RefInv`: a cluster has two entries only in the
  middle of a rename.  `DirectoryInvariant` proves it together with
  `NothingBehindEnd`, `RemovalHidesFirst`, `ShortNamesUnique` and the types; none of
  them is inductive alone.
* `NamesInv` says whose each entry is: it is listed under a name (`Shows`), no other
  entry is listed under that one, and the name of a call in progress is still free.
  `NamesAreListedOnce` and `MapIsRefined` follow, the latter with one step of
  `DirectoryMap` for the write of the short entry, one for its deletion, and none
  for all others (`NamesStep`).
* `LostInv`, claimed while no call has failed: every piece of a long name belongs to
  an entry or to the running call (`WrittenPieces`, `OtherPieces`, `SourcePieces`), and
  the clusters in use balance with the entries, the clusters of the directory
  (`Grown`), one that waits for its entry or has lost it (`Pending`) and one that has two
  (`Twice`).  `LostInvariant` proves it, and `NothingIsLost` is its instance between calls.  The balance needs a
  finite set of clusters, which a volume has.

`NamesInvariant`, `NamesAreListedOnce` and `MapIsRefined` are about behaviours in which
`NoAdoption` holds at every step: no short entry is written behind pieces of
another long name that have its checksum.  This is a condition on what is in the slots,
not on the names: names that differ in case only, names that are spelled like an alias and
names whose checksums collide are all allowed.  It cannot be left out, since after a
failed call such pieces may be there (section 5).  `OnlyLeftoversAreAdopted` shows
that this is the only way: as long as no call failed, `NoAdoption` holds, because every piece
belongs to an entry or to the running call (`LostInv`).  So `NamesUntilAFailure` has no
condition at all.  In `directory_chain` TLC finds `MapRefined` true with
interruptions, since no short name there has the checksum of another's pieces.
The theorems on `DirInv` and `LostInv` do without it.  `WritesFitTheRoot` is an
invariant of its own: `check_directory_capacity` is asked for the whole entry, and for
the end marker apart.

### What is only model-checked

Every safety property and every refinement that a passing run checks is also a
theorem, the three about names for behaviours with `NoAdoption`, save these, which
are left to TLC:

* `CallReturns`, a liveness property, which the prover does not reach.
* `StaleStaysHidden`, for directories that another system wrote; `FitsRoot` and
  `AdoptsLeftoversOnly` are proved for directories that were empty at first, and checked for both.
* The names of `ShortName` are computed by TLC for the names of the runs.

## 5. Findings

1. **A repeated call returns `Ok` and does nothing** (`file_retry`).
   `truncate_file` and `write_file_at` change the handle's length before
   `persist_file_info`.  If that write fails, the same call made again sees the
   length it wants in the handle, skips the persist and returns `Ok`; the entry
   keeps the old length until the file's length changes again.
2. **`create_directory` frees the cluster of a visible entry**
   (`directory_no_space`).  `create_named_entry` reports an error when only the
   new end marker behind the entry could not be written, for want of a cluster.
   The entry is visible by then.  `create_directory` frees the cluster it leads
   to; `create_file` and `rename` report `NoSpace` for an entry that exists, and a
   rename leaves both.

3. **`rename` takes a source path that ends in `..`** (`namespace_dotdot`).  It
   then moves the dot entry itself: with `C` in `B` in `A`,
   `rename("/A/B/C/..", "/X")` lists `B` a second time as `/X` and deletes the
   `..` of `C`.  `rename("/A", "/X/D")` now walks up from `B` to the root without
   meeting `A`, and moves `A` below itself, which `ARCHITECTURE.md:222` rules out.
4. **An alias answers to another name** (`short_names`).  `short_alias` leaves
   spaces in front of the suffix when the base is short; the comparison stops
   at the first space.  The file `é`, with the alias `_     ~1`, is found as `_`:
   `create_file("_")` fails with `AlreadyExists` and `remove_file("_")` removes
   `é`.

`RemovalHidesFirst` excludes what finding 2 and an interrupted rename leave behind
(`spoilt`), and holds everywhere else.

Five things that no document rules out were seen and have no run of their own.

* A move that is cut before its old entry is deleted leaves two entries.  Moving the old
  parent below the new entry is then accepted (`Namespace` claims nothing after an
  interruption).
* After a rename that left two entries, removing one frees the chain of the other, and
  removing that one as well lets `free_chain` report `CorruptChain` on a volume only
  this library wrote (`spoilt` in `VolumeChains`).
* Pieces of a long name that an interrupted create leaves behind are adopted by a later
  8.3 entry that is spelled like the alias: after an interrupted create of `letter.txt`, a
  new `LETTER~1.TXT` can be listed as `letter.txt`.  `AdoptsLeftoversOnly` shows that a
  failed call is needed.
* Long names are compared with case (`access.rs:686`), short ones without
  (`format.rs:490`).  With `README.TXT` and `readme.txt` side by side, `readme.txt` finds
  both, and the one in the earlier slot is taken: create `A`, `readme.txt`, remove `A`,
  create `README.TXT`, and `remove_file("readme.txt")` removes `README.TXT`.  `ListedOnce`
  claims that the two are listed under different names, not that a lookup has one answer.
* In a directory of another system with stale entries behind the end marker, a call that ends
  between the new entry and the new end marker brings them back.

## 6. What is not modelled

* **MBR** (`mbr.rs`): a parser of one sector that keeps no state and that nothing
  else in the crate calls.  **Examples** and **`lib.rs`**: no logic of their own.
* **Several handles on one entry**, and handles kept over a removal or a rename: a
  handle is a copy the application keeps, and nothing says what it may do with
  two.  The hooks `resolve_file_cluster` and `file_chain_changed` are empty in the
  crate; a cache behind them would be the application's.
* **Reads in blocks**: `read_device_at` changes nothing and is one step.
  `write_device_at` is split for FAT entries, where an entry is small and shares
  bytes; elsewhere a device write is one step.
* **Cyclic directory chains**: the scans of a directory have no bound but the
  width of the index, see the hazard at `write.rs:119`.
* **Text**: `validate_name`, UTF-16 surrogates, the lowercase flags and the escape
  0x05 of short names; attributes, read-only files and volume labels (early
  returns); time stamps (never written).
* **Fields of the BPB** on which the layout does not depend.
* **After a chain was freed under a visible entry**: `VolumeChains` stops its claims there.  What
  still holds, on any image whatever, is in the run `any_image`.
