# A TLA+ model of vfs-nostd

`vfs-nostd` is a small `no_std` crate (about 1,900 lines of Rust): a mount table that maps absolute
paths to `&'static dyn Filesystem` handles, a `Vfs` that keeps open files and a working directory on
top of it, the path algorithms both use, and readers for partition tables with views of the
partitions. This directory holds TLA+ modules of its control logic, TLC configurations that check them
on small instances, and TLAPS proofs of the most important results for every instance. `PROJECT.json`
maps every definition to the source lines it models.

## 1. Inventory

| Component (source) | State | Operations | Correct when |
|---|---|---|---|
| Path algorithms (`src/src/path.rs`) | none | `components`, `normalize`, `join`, `parent`, `filename`, `extension`, `strip_prefix`, `equals` | `normalize` cancels exactly what `..` says; `join` composes; `parent` and `filename` are two halves of a path |
| Mount table (`src/src/mount.rs`) | vector of mount points, sorted by path length, longest first | `mount` (adds or replaces), `umount`, `resolve`, `list`, `count` | one mount per path; `resolve` is longest-prefix match by whole names; answers depend on the set of mounts alone |
| Open files (`src/src/vfs.rs`, `src/src/file.rs`) | `Vec<Option<OpenFile>>`, at most `MAX_OPEN_FILES` slots | `open`, `read`, `write`, `seek`, `close`, forced close in `umount` | the lowest free descriptor is handed out, never one in use; a file does not outlive its mount; read-only mounts are honoured; `seek` lands where it says |
| Working directory (`src/src/vfs.rs`) | one absolute path | `cd`, `pwd`, `resolve_path` | always absolute and normal |
| Directory and file calls (`src/src/vfs.rs`) | the filesystems | `mkdir`, `rmdir`, `rm`, `cp`, `mv`, `stat`, `readdir`, `sync_all` | no call changes a read-only mount; `cp` and `mv` lose no data; `sync_all` passes nothing over; every call returns |
| Filesystems (`src/src/fs_trait.rs`) | external crates | the `Filesystem` trait | the contract in the trait's comments |
| Block devices, GPT/MBR (`src/src/device.rs`) | none (parsers over a `BlockDevice`), `Partition` views | `detect_partition_scheme`, `parse_gpt`, `parse_mbr`, `Partition::new`, `read_bytes`, `write_bytes`, and `Vfs::detect_partitions` (`vfs.rs`) | a view never leaves its partition and serves all of it; detection and parsers agree; every used entry is listed |
| Data types (`src/src/dir.rs`, `lib.rs`) | none | constructors, `Display` | no behaviour of their own |

How they interact. `Vfs` owns the mount table and calls filesystems through it. Every path call first
resolves its argument against `cwd`, then against the table, then calls the filesystem with the
*relative* path. A descriptor stores its absolute path and the relative path of the moment it was
opened; `read` and `write` resolve the absolute path *again* and pair the filesystem they find with
the *stored* relative path. `umount` closes files by the text of their absolute path before the table
is asked to remove anything. `cp`, `mv` and `sync_all` are sequences of filesystem calls with no undo.
A `Vfs` is borrowed for the whole of a call, so its own tables do not change under it; the filesystems
and block devices are shared references (`&'static dyn`, with interior mutability), so another `Vfs`
or the embedding kernel may use them between two calls. The functions of `device.rs` read sectors and list
entries; the kernel calls them directly, or has `Vfs::detect_partitions` call `detect_partition_scheme` and then
the parser of the scheme it found, which reads the device again and touches nothing of the `Vfs`. The kernel
makes views of the entries that filesystem crates are put on. What is hard is
* long sequences of legal calls (mount, replace, umount while files are open),
* state that is stale when used (stored relative path, mount index, cached size, append position),
* partial failure (`open`, `cp`, `mv`, `umount` change something and then fail; one `sync` of several
  fails; a read of a partition table fails or stops short),
* other users of a filesystem or a device between two steps of `cp`, `mv`, `sync_all`, `parse_gpt` and
  the detection,
* limits and boundaries (the full descriptor table, prefix boundaries, `..` beyond the root),
* 64-bit arithmetic, wrapping or panicking as the build has it, in `seek`, in the entries of a
  partition table and in the views.

`PROJECT.json` lists these as hazards, each at the line where it bites and with the properties that
cover it.

## 2. Modules

| Module | Models | Composed from |
|---|---|---|
| `Paths` | `path.rs` as operators, `Vfs::resolve_path`, the trimming of mount arguments | |
| `PathCalls` | a caller that walks with `resolve_path` and `parent`; reference definition of `normalize` | `Paths` |
| `MountMap` | abstract: an unordered map from paths to filesystems | |
| `MountTable` | `MountTable` of `mount.rs` and the second matcher `Vfs::find_mount_index` | `Paths`, refines `MountMap` |
| `Words` | `u64` and `i64` arithmetic, words of any width | |
| `Filesystem` | the contract of the `Filesystem` trait: trees of files and directories (external) | `Paths` |
| `FdTable` | abstract: a map from descriptors to files that hands out the lowest free one | |
| `Vfs` | every method of `Vfs` that changes state, each as one step | `MountTable`, `Filesystem`, `Words`, refines `FdTable` |
| `SharedCalls` | `cp`, `mv` and `sync_all` one filesystem call at a time, beside another user | `Vfs`; compared with `Vfs` again through `Visible` |
| `Partitions` | detection, `parse_gpt`, `parse_mbr` and `Partition` on a shared device | `Words` |
| `MCPathCalls`, `MCMountTable`, `MCVfs`, `MCSharedCalls`, `MCPartitions` | instances for TLC | |
| `PathsProofs` | lemmas about the operators of `Paths`, and induction | `Paths`, `TLAPS` |
| `PathCallsProofs`, `MountTableProofs`, `VfsProofs`, `SharedCallsProofs`, `PartitionsProofs` | theorems and proofs | their component, `PathsProofs` where paths matter |
| `SharedAtomicProofs` | theorem `SharedAtomicWhenAlone` and its proof | `SharedCallsProofs` |

### How state and actions correspond to the code

*Texts.* A path is the non-empty sequence of its separator-free segments: `/a//b/` is
`<<"", "a", "", "b", "">>`, `/` is `<<"", "">>`, the empty string `<<"">>`. Every operation of `path.rs`
cuts its text at separators, so nothing is lost. Names are atoms; what the code can see of their
spelling is given by constants: `SegPrefix` (the text of one is a proper prefix of another's, needed
because `str::starts_with` may stop inside a name, the `/m` against `/mx` case), `Lower`
(`to_ascii_lowercase`, which leaves the empty text alone) and `ByteLen` (`str::len`, what the mount table sorts by).

*Mount table.* `mounts` is the vector. `Mount` removes the entry at the same path and re-inserts
where the stable sort puts it (`PushSorted`); `Umount` removes the first entry at the path. `resolve`
is `Resolve(ms, p)`: first match, boundary test, prefix stripping with the fallback to `/`.

*Words.* `Half` stands for 2^63: `U64`, `I64`, the cast `AsSigned`, the wrapping sum `AddSigned` and
`Wrapped` for every other result. A build with overflow checks panics where the result leaves the type.

*Vfs.* `open_files`, `cwd` and `fs` (the trees behind the handles). One action per method;
a method that returns an error after it has changed something has a second action: `OpenFails` (file
created or truncated, then an error or `TooManyOpen`), `CpFails` and `MvFails` (destination emptied or
copied, source still there). `VfsUmount` closes files first and covers the `NotMounted` result in the
same action. A call that fails without a change is a stuttering step. `mv` is two actions, because it
chooses `rename` or copy-and-delete by `find_mount_index`. `Seek` adds as the code does, in `i64`, to a
base cast from `u64` (`SeekTo`): a sum that wraps is negative and refused like any negative target; in
a build with checks it panics instead, and either way the descriptor is as before.

*FdTable.* `OpenDescriptors` maps each slot in use to what identifies its file (path, mount index,
relative path, flags). `ImplementsFdTable` says every step of `Vfs` opens the lowest free descriptor,
closes a set of them, or leaves the map alone.

*Filesystem.* A tree is a function from relative paths to nodes. `write_file` may write fewer bytes
than it was given when `ShortWrites` is set (the trait returns a count), and a failing call changes
nothing in the tree.

*SharedCalls.* `call` is the program counter and the locals of the call in progress. `BeginCopy` and
`BeginSync` start one; `StatSrc`, `ReadSrc`, `StatDst`, `TruncateDst` or `CreateDst`, `WriteDst`, `RmSrc`
are the filesystem calls of `cp` and of an `mv` across mounts in the order of the code, `RenameSrc` that
of an `mv` within one, `SyncMount` one turn of the loop of `sync_all`. `CopyFails` is the early return of `?` at any
of them, with or without a reason the model can see. `Others` is another user who writes, creates or
removes a file at any moment. A call's position is also where the machine can stop: a property of all
states of a call is one of every crash between two filesystem calls. The fields `touched`, `before`,
`held`, `failed` and `dirty` exist in the model only and are there for the properties. `Whole`
instantiates `Vfs` with the filesystems as a lone caller sees them (`Visible`: those at the beginning of the
call until it returns), which makes one step of `Vfs` out of the many of a call.

*Partitions.* `header`, `array` and `mbr` are what LBA 1, the sectors of the entry array and LBA 0
hold; `Rewrite` changes one of them at any moment, as another user of the device does. A call of the kernel starts from
`Idle`. `DetectPartitions` is the call of `Vfs::detect_partitions`: it runs the actions of the detection and then those
of a parser, and `nested` says that it is their caller; `Found` hands the scheme to the kernel, or to the parser, or
returns the empty list. A read may fail (`Refused`, or "no GPT" in the
detection), a signature may be missing when the parser reads (`Refused` too), and a read may stop short: `HeaderReads` and `CutSlots` are what the zeroed buffer then shows, as
the callers never look at the count. `parse_gpt` is two actions, because it reads twice; the second uses
the header of the first. The undisturbed detection keeps `quiet` through the parser that `detect_partitions` calls. Where the header does not point at the array, or cuts it into other pieces,
the slots are `Garbage`. `checked` is the build: with overflow checks, arithmetic that leaves `u64` goes to
`Stopped` (a panic halts a `no_std` kernel); without, it wraps. Slices past the end of a short entry
(`entry_size` below 56, below 16 for an empty one) panic in both. `returned` is what the last call gave
its caller; `NewView` and `Access` are `Partition::new` and the bounds check and addition shared by
`read_bytes` and `write_bytes`. `quiet` (no fault and no rewrite since the detection began), and `end` and `entry` within entries and views, exist in the
model only.

Bounds that exist only in the model: `MaxFileSize` (the largest file a filesystem holds; a write of any bytes past it fails),
`MaxDepth` (depth of the walked directory), `MaxSegments`, `Half` (2^63), `SectorSize` (bytes per sector) and the sets of arguments and of
table contents. `MAX_OPEN_FILES` is the constant `MaxOpenFiles`.

## 3. What the runs check

Runs that pass:

| Run | Instance | Question |
|---|---|---|
| `mount_table` | all tables over `/`, `//`, `/m`, `/m/`, `/M`, `/mx`, `/m/f` and the relative `m`; two filesystems; folding case or not; 8 lookup paths | Sorted, unique, longest match in every reachable table; the two matchers part only on paths matched in another case; relative path exact; refinement of `MountMap` |
| `paths` | every text of up to three segments over two names, `""`, `.` and `..`, and every join of two of them; depth 3 | `normalize` against a closed-form reference; walking composes; parent and filename are halves |
| `vfs_fds` | two slots, nested mounts `/`, `/m/` and the neighbour `/mx`, relative arguments, `cd`; opens that create the file and may fail then | No dangling descriptor, no redirection but by a mount just made; the slots implement `FdTable` |
| `vfs_files` | mounts `/m` and `/mx`, each read-only or not and remountable; one slot; every call of `Vfs`, short writes, seeks at both ends of `i64` (`Half` = 4), `cp` and `mv` in a mount and across | Types of all state; nothing changes through a read-only mount; without nesting the stored relative path is right; `seek` is exact |
| `calls` | mounts `/` and `/m`, each read-only or not; the other user on the file of one filesystem that `cp` and `mv` use, and on a neighbour of the other's; every filesystem call may fail | Alone, a call in pieces is the one step of `Vfs`; `mv` never loses the file; `sync_all` reaches every mount; every call returns |
| `partitions` | four headers, three arrays, four MBRs, all rewritable; five requests; sectors of 2 bytes on words of 4 bits (`Half` = 8), both builds | Types; a view stays in its partition and serves all of it; a valid GPT is listed in full; detection agrees with the parsers, and `detect_partitions` lists the table that is there |

The bounds suffice for the cases listed as hazards: three mount paths are needed for nested and
text-sharing mounts at once, two filesystems to tell where a call lands, two slots to have a free
one below one in use, both free, and the table at its limit. With `Half` = 4 and files of at most one byte, a seek by 3 (the
largest `i64`) is in range from 0 and overflows from anywhere else. In `calls` a source file of one
byte can be whole, empty or gone, which is what the steps tell apart, and the two sides differ in data in some initial
states. In `partitions` the tables hold an unused slot between used ones, a partition that ends before it starts,
one at the largest LBA, slots too small for their fields, an `entries_lba` whose byte offset overflows, an MBR whose first entry is
empty and a protective one; the requests end at the last byte, one past it, and wrap. All of them but one are also proved for every
size (section 4), so the runs serve to validate the model itself: each property is violated when a
definition is replaced by a plausible wrong one (the `mutant` operators in the modules).

Runs with a counterexample. Each states what a comment in the source says and shows that the code does
something else:

| Run | The comment | What happens |
|---|---|---|
| `mount_fold_relative` | relative path is "relative to the mount point's root" (`mount.rs:51`); case-insensitive comparison (`mount.rs:18`) | `/M/f` on a folding mount at `/m` resolves to the root of the filesystem, because the prefix is stripped with case |
| `vfs_append` | "Writes append to the end of the file" (`file.rs:28`) | `APPEND` sets the position once, at open; two appenders overwrite each other |
| `vfs_relative` | `OpenFile::relative_path` (`file.rs:161`) | after a mount below the file's mount, `read` and `write` pair the new filesystem with the old relative path |
| `vfs_umount_others` | "Close any open files on this mount" (`vfs.rs:106`) | `umount("/m")` also closes `/mx/f` and files of mounts below `/m` |
| `vfs_mv_alias` | "Move (rename) a file" (`vfs.rs:462`) | between two mounts of one filesystem `mv` copies a file onto itself and deletes it |
| `partitions_escape` | "A view of a block device restricted to a single partition" (`device.rs:146`) | without overflow checks the sum of offset and length wraps (`device.rs:179`), passes the check, and the access lands before the partition |

*Deadlock* is checked for `mount_table` and `paths`. It is not for the others: `Vfs` and the device
functions are passive libraries, a caller may stop, a bounded instance may have nothing left to call,
and a kernel that has panicked does stop.

*Fairness.* Only `SharedSpec` assumes any: `WF_sharedVars(CallStep)`. A call that has begun runs on its caller's
CPU to its end, nothing in the crate waits or retries, and each filesystem call it makes is a function
that returns, with a result or with an error; that is what weak fairness of the call's next step
says. Other users of the filesystems, and callers who might begin another call, have none. `CallsReturn` follows although
others may be busy for ever, because no step of a call waits for anything they do: the mutant that tries again
after a failure is livelocked. The rest of the crate has neither loops over calls nor
waiting, so no other liveness is stated.

Divergences met without a run of their own:
* `OpenFile::mount_index` (`file.rs:159`) is an index into a vector that every `mount` re-sorts; it is
  stale after the next one. Nothing reads it.
* `SeekWhence::End` starts from the size cached at the last open or write (`vfs.rs:326`), where `file.rs:74` says "Seek from
  the end of the file". `SeekIsExact` is about the cached size.
* `find_mount_index` never folds case (`vfs.rs:535`), `resolve` does: for a path matched in another case on a folding mount
  `mv` can see two mounts where there is one, or one where there are two, and then calls `rename` on the source's
  filesystem with a relative path of the other's (`vfs.rs:471`-`485`). `MatchersAgree` says that only such paths are concerned.
* `umount` of a path that is not mounted returns `NotMounted` after it has closed the files whose paths start with it
  (`vfs.rs:111`-`124`).
* `cp` drops the count that `write_file` returns (`vfs.rs:452`; "Returns the number of bytes written", `fs_trait.rs:106`): after a
  short write it reports success for a truncated copy (`vfs.rs:413` says it "writes it to the destination"), and `mv`
  then deletes the source. `Cp` has this result, and `MvKeepsData` excludes short writes.
* Files opened through another case on a folding mount stay open after `umount` (`vfs.rs:115`).
* `mount` over an existing path leaves files of the replaced filesystem open (`mount.rs:69`).
* `normalize` drops a leading `..` of a relative path (`path.rs:71`): `join("../a")` composes only
  because every caller starts from an absolute directory.
* `umount("")` closes every file, as the empty text is a prefix of all paths.
* The buffer of `cp` has the size that `stat` gave (`vfs.rs:428`): a file that another user shortens
  before the read is copied with zeros behind its end.
* What another user writes to the source between the copy and the delete of `mv` (`vfs.rs:490`) is deleted with it;
  `MvKeepsData` therefore speaks of files that others leave alone.
* In a build without overflow checks a view of an entry that ends before it starts, or of a device larger than `u64`
  counts, can leave its partition too (`device.rs:179`). This and the run `partitions_escape` are what the second disjunct of
  `ViewConfined` leaves out.
* A short read of the entry array lists a slot that was cut before its last field, with `last_lba` 0
  (`device.rs:278`), and a failed read of LBA 1 makes a GPT disk look like the MBR that protects it
  (`device.rs:221`).

## 4. What is proved

The results hold for every set of names, mount arguments, paths, filesystems,
options, flags, buffers and initial trees, every `MAX_OPEN_FILES`, width of words and sector size, every content of
a device, and sequences of calls of any length.

Paths. `components` and `normalize` are loops; `Components` and `Pushed` describe them by a recursive function, the
state after each turn. The library's induction theorems take an operator as a parameter, which the provers cannot
instantiate. `PathsProofs` therefore states induction for *sets*: `SetInduction` says that a set with 0 and the
successors of its numbers holds all numbers (otherwise the least number it misses has no predecessor), and
`SeqInduction` the same of sequences and appended elements. With them `RunExists` and `RunUnique` show that the
recursive functions exist and are what `CHOOSE` finds, so `ComponentsAppend` and `PushedAppend` say what one more segment
does; everything else is induction from these. The lemmas that callers cite are `NormalizeProperties` (the result is absolute
and normal if the text is absolute), `NormalizeNormal` (`normalize` leaves a normal path alone), `JoinRelative` (the components
of a join are those of its parts) and `ResolvePathProperties`.
* `WalkStaysNormal`, `WalkHalves` and `WalkInOneStep` follow from `WalkInv` (the directory is a normal text), the last because
  the stack absorbs (`PushedAbsorbs`): going on from a finished stack is going on from the components that made it.
* `NormalizeKeepsTheSurvivors` relates the loop to the closed form of `PathCalls`. The inductive statement is `Listing`: an
  ascending numbering of the surviving positions, the element of the stack at each number being the component at its position.
  One more name extends the numbering; one more `..` takes off its last position and no other, because behind that position
  the `..` and the names cancel exactly, and behind each earlier one the names are ahead.

Mount table. The inductive invariant is `WellFormed`: a sequence of mount points, no two with the same
path, lengths not increasing. Sortedness alone is not inductive: that re-inserting keeps one mount per
path needs uniqueness before (`Without` removes the *first* entry at the path only). The
lemmas `WithoutWellFormed` and `InsertWellFormed` say what removal and sorted insertion do to the
sequence and to the *set* of mounts; everything later uses the set. Results: `TableTypeCorrect`,
`TableUniquePaths`, `TableSorted`, `TableLongestMatch` (folding or not), `TableMatchersAgree` (folding or not: a mount that
covers a path also matches it with case folded, `FoldProperties`, so the first match is the first cover if it covers at all),
`TableResolvesAsMap`, `TableRelativeIsRest` (put back, the relative path has the components of the
looked-up path, by `ComponentsConcat`) and the refinement `TableImplementsMap`.

Vfs. The inductive invariant `Inv` has a part per variable. `StepKept` shows once, action by action,
that each call keeps the table well formed and `cwd` absolute, changes only filesystems that are
mounted writable (`FsStep`), and leaves in each slot what was there, nothing, or a freshly opened file
in the lowest slot that was free (`FdsStep`). From it follow
* `VfsTypeCorrect`, `VfsHonoursReadOnly`;
* `VfsImplementsFdTable`: the initial table maps to the empty map, and each kind of `FdsStep` to an
  `Open`, a `Close` or a stutter of `FdTable`;
* `VfsSeekIsExact`: positions and cached sizes stay below `Half`, because a file never grows beyond
  `MaxFileSize` and a seek lands on a non-negative `i64`; so the cast is the identity, and a wrapped sum of
  two `i64`, one of them not negative, is negative;
* `VfsNoDanglingFd`: by induction some mount covers the path of each open file. The point of the argument is
  `UmountKeepsCovering`: the mount that goes away is a textual prefix of all files it covers, so the
  text comparison of `umount` closes too many files but never too few;
* `VfsOnlyMountRedirects`: two tables with the same covering mounts resolve a path alike, because the
  longest covering mount is unique. `umount` closes the files its mount covers, so the others keep theirs. `mount` takes
  away at most the mount it replaces, so the longest covering mount of the new table is the old one or
  the one just made (`MountRedirectsToItself`);
* `VfsFlatKeepsRelative`: the stored relative path is the rest behind *some* covering mount path
  (`StoredRelative`, inductive), and without nesting there is only one.

SharedCalls. `SharedInv` is the `Inv` of `Vfs`, the types of a call's locals (`CallOK`), and that a running
call still finds its arguments on the mounts where it found them (`SituatedCall`): the borrow of the
`Vfs` is what makes it inductive.
* `SharedSyncReachesAll`: with `Synced`, which says the conclusion of all mounts before position `i` of the loop.
* `SharedMvKeepsData`: with `MovesAt`, a statement per program counter: `src` has the data until it is removed,
  the buffer has it from the read on, and `dst` has it before the `rm`. That emptying or
  writing `dst` leaves `src` alone needs that they lie on different filesystems; it follows from `NoFoldingMatchers`
  (different index of `find_mount_index`, so different mounts by `resolve`) and `NoAlias`, and the run `vfs_mv_alias` shows what
  happens without.
* `SharedAtomicWhenAlone`: with `UntouchedCall`, which says at each program counter of an undisturbed call what the
  filesystems are, as a function of those at its beginning (`call.before`): the same until `dst` is emptied, then the copy of
  no bytes, then the copy. `UndisturbedStep` shows that every step keeps this or returns with an `Outcome`, and
  `OutcomeIsOneStep` that each outcome is a step of `Whole`. The operators of `Whole` are those of an instance of `Vfs`; the lemmas
  `WholeNormalize` to `WholeSteps` show them equal to the ones of the module.

Partitions. `Inv` carries what wrapping has done to the numbers (`EntryOK`, `ViewOK`): the count of an entry is its
wrapped length, the offset and size of a view are the wrapped products, and with overflow checks none of them has
wrapped. `PartitionsTypeCorrect` and `PartitionsViewConfined` follow from it, `PartitionsViewServesAll` from the exactness of
the entry; `PartitionsDetectionAgrees` has an invariant of its own for the moment between the two reads, and
`PartitionsDetectionLists` another, which goes on through the parser: while `quiet` holds, the parser that is
to run is that of the table on the device, and the header that `parse_gpt` holds is the one on it.
`PartitionsValidGptIsListed` needs that an entry's index, the number of used slots before it, is a bijection from the used slots
to the numbers from 0 to one below their count (`BeforeNumbers`: it grows strictly from slot to slot, and an
injection between finite sets of one size is onto), and that none of the conditions for a panic holds of a valid array.

Assumptions, all named in the modules and evaluated by TLC in every run that extends them: `NamesAssumption`,
`InputsAssumption`, `MountAssumption`, `CallsAssumption`, `OtherAssumption` and `DeviceAssumption` (arguments and contents have their Rust
types), `HalfAssumption`, `BoundsAssumption` (in particular, no file reaches 2^63 bytes), `AbsPathsAssumption` (the lookup
paths are normal texts; that `normalize` leaves them alone is proved), and `ByteLenAssumption` (two prefixes of one path
with equal length are equal, true of strings). `Requests` have lengths below `Half`: a Rust slice is never longer than
`isize::MAX`. An action is enabled only for arguments whose resolved path is in `AbsPaths`.

Only model-checked: `CallsReturn`, since liveness under fairness is out of the prover's reach; every other property of a passing
run is a theorem. The counterexamples are TLC's.

## 5. Not modelled

* `stat`, `readdir`, `list`, `count` and `pwd`: they read and hand on; no state of the crate changes and none is computed.
* `extension` and `equals` of paths, which look into a name's characters, and the case flag of `Path`, which nothing in the
  crate sets.
* In `device.rs` the decoding of UTF-16 names, the filesystem hints of types, and formatting; nothing depends on their results. The
  entry array's allocation (`num_entries * entry_size`, on a 32-bit `usize` too) can exhaust memory for a malformed header;
  the model's arrays are as small as its contents.
* Filesystem and device implementations: other crates. What of a filesystem survives a power loss is theirs, so a crash in
  `SharedCalls` stops the call and loses nothing that a filesystem call had finished; caches behind `write_file` appear only as
  `dirty`. Permissions, timestamps and listings are left out.
* `Display` implementations, constructors, re-exports and logging.
* `Vfs` and `Partitions` are not composed: the one method of `Vfs` that reads devices, `detect_partitions`, neither reads nor
  changes any of its state (it is in `Partitions`), and the crate itself never puts a filesystem on a view, the crates that
  implement `Filesystem` do.
