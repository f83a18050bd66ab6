-------------------------------- MODULE Vfs --------------------------------
(***************************************************************************)
(* The Vfs of src/vfs.rs: the mount table, the open-file table and the     *)
(* working directory, and the filesystems behind them.  Every method that  *)
(* changes something is an action; a call that returns an error without    *)
(* having changed anything is a stuttering step and has none.  A call that *)
(* fails after it has changed something is an action of its own.           *)
(***************************************************************************)
EXTENDS MountTable, Filesystem, Words

CONSTANTS
  OpenArgs,     \* the paths that open is called with
  Args,         \* the paths that cd, mkdir, rmdir and rm are called with
  FlagSets,     \* the OpenFlags that open is called with
  Writes,       \* the buffers that write is called with
  ReadLens,     \* the buffer lengths that read is called with
  Seeks,        \* the pairs <<offset, whence>> that seek is called with
  CopyPairs,    \* the pairs <<src, dst>> that cp and mv are called with
  InitTrees,    \* what a filesystem may hold at the start
  MaxOpenFiles, \* MAX_OPEN_FILES
  ShortWrites,  \* may a filesystem write less than it was given?
  None          \* an empty slot of the open-file table

Flags == {"READ", "WRITE", "CREATE", "TRUNCATE", "APPEND"}

(* What a u64 cast to i64 leaves as it is. *)
Positions == 0..(Half - 1)

OpenFile ==
  [path : AbsPaths, mount_index : Nat, relative_path : Texts,
   position : Positions, flags : SUBSET Flags, size : Positions]

ASSUME CallsAssumption ==
  /\ OpenArgs \cup Args \subseteq Texts
  /\ FlagSets \subseteq SUBSET Flags
  /\ Writes \subseteq Seq(Bytes)
  /\ ReadLens \subseteq Nat
  /\ Seeks \subseteq I64 \X {"Start", "Current", "End"}
  /\ CopyPairs \subseteq Texts \X Texts

ASSUME BoundsAssumption ==
  /\ Root \in AbsPaths
  /\ \A t \in InitTrees : IsTree(t)
  /\ MaxOpenFiles \in Nat
  /\ MaxFileSize \in Positions
  /\ ShortWrites \in BOOLEAN
  /\ None \notin OpenFile

VARIABLES open_files, cwd, fs

vars == <<mounts, open_files, cwd, fs>>

IsOpen(fd) == fd \in DOMAIN open_files /\ open_files[fd] # None

Abs(arg) == ResolvePath(cwd, arg)

(* The path argument lands on a mount; where it lands. *)
Located(arg) == Abs(arg) \in AbsPaths /\ CanResolve(mounts, Abs(arg))

At(arg) == Resolve(mounts, Abs(arg))

TreeAt(arg) == fs[At(arg).filesystem]

-----------------------------------------------------------------------------
(* Mount operations.                                                       *)

VfsMount(arg, f, opts) ==
  Mount(arg, f, opts) /\ UNCHANGED <<open_files, cwd, fs>>

ClosesNothing(ofs, arg) == ofs      \* mutant: umount leaves files open

(* The slots after umount(arg): closed by the text of their paths alone.   *)
ForceClosed(ofs, arg) ==
  [fd \in DOMAIN ofs |->
     IF ofs[fd] # None /\ StartsWith(ofs[fd].path, MountPath(arg))
       THEN None ELSE ofs[fd]]

(* The files are closed before the mount table finds nothing to remove.    *)
VfsUmount(arg) ==
  /\ open_files' = ForceClosed(open_files, arg)
  /\ \/ Umount(arg)
     \/ ~ IsMounted(MountPath(arg)) /\ UNCHANGED mounts
  /\ UNCHANGED <<cwd, fs>>

Cd(arg) ==
  /\ Located(arg)
  /\ HasDir(TreeAt(arg), At(arg).relative_path)
  /\ cwd' = Abs(arg)
  /\ UNCHANGED <<mounts, open_files, fs>>

-----------------------------------------------------------------------------
(* Open files.                                                             *)

CanAllocOneMore(ofs) ==                          \* mutant: <= for <
  (\E fd \in DOMAIN ofs : ofs[fd] = None) \/ Len(ofs) <= MaxOpenFiles

CanAlloc(ofs) == (\E fd \in DOMAIN ofs : ofs[fd] = None) \/ Len(ofs) < MaxOpenFiles

AllocLast(ofs) == Max({1, Len(ofs)})   \* mutant: the last slot, free or not

(* The lowest free slot, or the one behind the last. *)
AllocFd(ofs) == Min({fd \in DOMAIN ofs : ofs[fd] = None} \cup {Len(ofs) + 1})

Store(ofs, fd, of) ==
  IF fd \in DOMAIN ofs THEN [ofs EXCEPT ![fd] = of] ELSE Append(ofs, of)

(* A read-only mount refuses to open a file for any kind of change. *)
MayOpen(r, flags) ==
  r.read_only => flags \cap {"WRITE", "CREATE", "TRUNCATE"} = {}

NeedsCreate(t, p, flags) == "CREATE" \in flags /\ p \notin DOMAIN t

AfterCreate(t, p, flags) ==
  IF NeedsCreate(t, p, flags) THEN Put(t, p, EmptyFile) ELSE t

AfterTruncate(t, p, flags) ==
  IF "TRUNCATE" \in flags THEN Truncated(t, p) ELSE t

OpenedAbsolute(arg, flags, node) ==  \* mutant: the prefix is not stripped
  [path          |-> Abs(arg),
   mount_index   |-> FindMountIndex(mounts, Abs(arg)),
   relative_path |-> Abs(arg),
   position      |-> IF "APPEND" \in flags THEN Size(node) ELSE 0,
   flags         |-> flags,
   size          |-> Size(node)]

(* The descriptor for a path at which open has found node.                 *)
Opened(arg, flags, node) ==
  [path          |-> Abs(arg),
   mount_index   |-> FindMountIndex(mounts, Abs(arg)),
   relative_path |-> At(arg).relative_path,
   position      |-> IF "APPEND" \in flags THEN Size(node) ELSE 0,
   flags         |-> flags,
   size          |-> Size(node)]

Open(arg, flags) ==
  LET f  == At(arg).filesystem
      p  == At(arg).relative_path
      t1 == AfterCreate(fs[f], p, flags)
      t2 == AfterTruncate(t1, p, flags)
  IN  /\ Located(arg)
      /\ MayOpen(At(arg), flags)
      /\ NeedsCreate(fs[f], p, flags) => CanAdd(fs[f], p)
      /\ "TRUNCATE" \in flags => HasFile(t1, p)
      /\ p \in DOMAIN t2
      /\ CanAlloc(open_files)
      /\ fs' = [fs EXCEPT ![f] = t2]
      /\ open_files' = Store(open_files, AllocFd(open_files),
                             Opened(arg, flags, t2[p]))
      /\ UNCHANGED <<mounts, cwd>>

(* open gets as far as creating or truncating the file and then fails: the *)
(* filesystem reports an error, or the open-file table is full.            *)
OpenFails(arg, flags) ==
  LET f  == At(arg).filesystem
      p  == At(arg).relative_path
      t1 == AfterCreate(fs[f], p, flags)
  IN  /\ Located(arg)
      /\ MayOpen(At(arg), flags)
      /\ NeedsCreate(fs[f], p, flags) => CanAdd(fs[f], p)
      /\ \/ fs' = [fs EXCEPT ![f] = t1]
         \/ /\ HasFile(t1, p)
            /\ fs' = [fs EXCEPT ![f] = AfterTruncate(t1, p, flags)]
      /\ UNCHANGED <<mounts, open_files, cwd>>

(* The filesystem that read and write turn to for a descriptor: found      *)
(* again through the absolute path at every call, while the path given to  *)
(* it is the one that open stored.                                         *)
FdResolves(fd) == CanResolve(mounts, open_files[fd].path)

FdMount(fd) == Resolve(mounts, open_files[fd].path)

Read(fd, len) ==
  LET of == open_files[fd]
      t  == fs[FdMount(fd).filesystem]
  IN  /\ IsOpen(fd)
      /\ "READ" \in of.flags
      /\ FdResolves(fd)
      /\ HasFile(t, of.relative_path)
      /\ open_files' =
           [open_files EXCEPT ![fd].position =
              @ + BytesRead(t[of.relative_path], of.position, len)]
      /\ UNCHANGED <<mounts, cwd, fs>>

(* How many of len bytes a filesystem may write without an error.          *)
WriteLens(len) == IF ShortWrites THEN 0..len ELSE {len}

MayWriteIfOpened(fd) ==              \* mutant: the mount is not asked again
  "WRITE" \in open_files[fd].flags

MayWrite(fd) == "WRITE" \in open_files[fd].flags /\ ~ FdMount(fd).read_only

(* A write of no bytes is not bounded: it can leave a cached size beyond   *)
(* any file's.                                                             *)
Write(fd, bytes) ==
  LET of == open_files[fd]
      f  == FdMount(fd).filesystem
  IN  /\ IsOpen(fd)
      /\ FdResolves(fd)
      /\ MayWrite(fd)
      /\ HasFile(fs[f], of.relative_path)
      /\ \E n \in WriteLens(Len(bytes)) :
           LET end == of.position + n
           IN  /\ n = 0 \/ end <= MaxFileSize
               /\ fs' = [fs EXCEPT ![f] =
                    Written(@, of.relative_path, of.position, SubSeq(bytes, 1, n))]
               /\ open_files' = [open_files EXCEPT ![fd].position = end,
                                                   ![fd].size = Max({@, end})]
      /\ UNCHANGED <<mounts, cwd>>

SeekBase(of, whence) ==
  CASE whence = "Start"   -> 0
    [] whence = "Current" -> of.position
    [] whence = "End"     -> of.size

SeekUnsigned(of, offset, whence) ==  \* mutant: the sum is taken as a u64
  Wrapped(SeekBase(of, whence) + offset)

(* Where seek would go: a sum of i64, negative when it wraps.              *)
SeekTo(of, offset, whence) == AddSigned(AsSigned(SeekBase(of, whence)), offset)

(* The sum, if it overflows, panics in a build with overflow checks and is *)
(* negative in any other: both ways the descriptor stays as it was.        *)
Seek(fd, offset, whence) ==
  /\ IsOpen(fd)
  /\ LET to == SeekTo(open_files[fd], offset, whence)
     IN  /\ to >= 0
         /\ open_files' = [open_files EXCEPT ![fd].position = to]
  /\ UNCHANGED <<mounts, cwd, fs>>

Close(fd) ==
  /\ IsOpen(fd)
  /\ open_files' = [open_files EXCEPT ![fd] = None]
  /\ UNCHANGED <<mounts, cwd, fs>>

-----------------------------------------------------------------------------
(* Directories, rm, cp and mv.                                             *)

Mkdir(arg) ==
  /\ Located(arg)
  /\ ~ At(arg).read_only
  /\ CanAdd(TreeAt(arg), At(arg).relative_path)
  /\ fs' = [fs EXCEPT ![At(arg).filesystem] = Put(@, At(arg).relative_path, EmptyDir)]
  /\ UNCHANGED <<mounts, open_files, cwd>>

Rmdir(arg) ==
  /\ Located(arg)
  /\ ~ At(arg).read_only
  /\ CanRemoveDir(TreeAt(arg), At(arg).relative_path)
  /\ fs' = [fs EXCEPT ![At(arg).filesystem] = Removed(@, At(arg).relative_path)]
  /\ UNCHANGED <<mounts, open_files, cwd>>

Rm(arg) ==
  /\ Located(arg)
  /\ ~ At(arg).read_only
  /\ HasFile(TreeAt(arg), At(arg).relative_path)
  /\ fs' = [fs EXCEPT ![At(arg).filesystem] = Removed(@, At(arg).relative_path)]
  /\ UNCHANGED <<mounts, open_files, cwd>>

DataAt(arg) == TreeAt(arg)[At(arg).relative_path].data

CanCopy(src, dst) ==
  /\ Located(src)
  /\ HasFile(TreeAt(src), At(src).relative_path)
  /\ Located(dst)
  /\ ~ At(dst).read_only
  /\ \/ HasFile(TreeAt(dst), At(dst).relative_path)
     \/ CanAdd(TreeAt(dst), At(dst).relative_path)

(* The filesystems when n bytes of src, which was read before, have been   *)
(* written to dst, emptied or created.                                     *)
Copied(src, dst, n) ==
  LET file == [type |-> "file", data |-> SubSeq(DataAt(src), 1, n)]
  IN  [fs EXCEPT ![At(dst).filesystem] = Put(@, At(dst).relative_path, file)]

(* Whatever write_file has written, cp succeeds.                           *)
Cp(src, dst) ==
  /\ CanCopy(src, dst)
  /\ \E n \in WriteLens(Len(DataAt(src))) : fs' = Copied(src, dst, n)
  /\ UNCHANGED <<mounts, open_files, cwd>>

(* write_file fails: the destination is left empty. *)
CpFails(src, dst) ==
  /\ CanCopy(src, dst)
  /\ fs' = Copied(src, dst, 0)
  /\ UNCHANGED <<mounts, open_files, cwd>>

SameMount(src, dst) ==
  FindMountIndex(mounts, Abs(src)) = FindMountIndex(mounts, Abs(dst))

(* mv within a mount: rename, on the filesystem of src. *)
MvRename(src, dst) ==
  /\ SameMount(src, dst)
  /\ Located(src)
  /\ ~ At(src).read_only
  /\ Located(dst)
  /\ CanRename(TreeAt(src), At(src).relative_path, At(dst).relative_path)
  /\ fs' = [fs EXCEPT ![At(src).filesystem] =
              Renamed(@, At(src).relative_path, At(dst).relative_path)]
  /\ UNCHANGED <<mounts, open_files, cwd>>

(* mv across mounts: cp, then rm of the source. *)
MvCopy(src, dst) ==
  /\ ~ SameMount(src, dst)
  /\ CanCopy(src, dst)
  /\ ~ At(src).read_only
  /\ \E n \in WriteLens(Len(DataAt(src))) :
       fs' = [Copied(src, dst, n) EXCEPT ![At(src).filesystem] =
                Removed(@, At(src).relative_path)]
  /\ UNCHANGED <<mounts, open_files, cwd>>

(* cp or rm fails, rm always when the mount of src is read-only: the       *)
(* destination is left behind beside the source.                           *)
MvFails(src, dst) ==
  /\ ~ SameMount(src, dst)
  /\ \/ CpFails(src, dst)
     \/ Cp(src, dst)

-----------------------------------------------------------------------------
VfsInit ==
  /\ TableInit
  /\ open_files = <<>>
  /\ cwd = Root
  /\ fs \in [Filesystems -> InitTrees]

MountCall ==
  \/ \E arg \in MountArgs, f \in Filesystems, opts \in Options :
       VfsMount(arg, f, opts)
  \/ \E arg \in MountArgs : VfsUmount(arg)

FdCall ==
  \/ \E arg \in OpenArgs, flags \in FlagSets :
       Open(arg, flags) \/ OpenFails(arg, flags)
  \/ \E fd \in 1..MaxOpenFiles :
       \/ \E len \in ReadLens : Read(fd, len)
       \/ \E bytes \in Writes : Write(fd, bytes)
       \/ \E seek \in Seeks : Seek(fd, seek[1], seek[2])
       \/ Close(fd)

PathCall ==
  \/ \E arg \in Args : Cd(arg) \/ Mkdir(arg) \/ Rmdir(arg) \/ Rm(arg)
  \/ \E pair \in CopyPairs :
       LET src == pair[1]
           dst == pair[2]
       IN  \/ Cp(src, dst)
           \/ CpFails(src, dst)
           \/ MvRename(src, dst)
           \/ MvCopy(src, dst)
           \/ MvFails(src, dst)

VfsNext == MountCall \/ FdCall \/ PathCall

VfsSpec == VfsInit /\ [][VfsNext]_vars

-----------------------------------------------------------------------------
(***************************************************************************)
(* Properties.                                                             *)
(***************************************************************************)

(* The tables hold what the methods put there, the open-file table never   *)
(* outgrows MAX_OPEN_FILES, and the filesystems remain trees of absolute   *)
(* relative paths.                                                         *)
VfsTypeOK ==
  /\ TableTypeOK
  /\ open_files \in Seq(OpenFile \cup {None})
  /\ Len(open_files) <= MaxOpenFiles
  /\ cwd \in AbsPaths
  /\ fs = [f \in Filesystems |-> fs[f]]
  /\ \A f \in Filesystems : IsTree(fs[f])

CaseSensitive == \A opts \in Options : ~ opts.case_insensitive

(* No descriptor outlives its mount: while no mount folds case, the path   *)
(* of every open file is on some mount, so read and write, which resolve   *)
(* it again, never find the file's mount gone.                             *)
NoDanglingFd ==
  CaseSensitive => \A fd \in DOMAIN open_files : IsOpen(fd) => FdResolves(fd)

(* A file that stays open is handed from one filesystem to another only by *)
(* a mount just made, below the old one or in its place: no other call, no *)
(* umount and no mount elsewhere ever uncovers a mount around it.  Options *)
(* that fold case are left out; the working directory is no open file.     *)
OnlyMountRedirects ==
  [][CaseSensitive =>
       \A fd \in DOMAIN open_files :
         LET path == open_files[fd].path
         IN  IsOpen(fd) /\ open_files'[fd] # None /\ CanResolve(mounts, path) =>
               /\ CanResolve(mounts', path)
               /\ \/ Resolve(mounts', path) = Resolve(mounts, path)
                  \/ mounts'[OwnerIndex(mounts', path)] \notin Range(mounts)]_vars

(* What identifies an open file; the rest of a slot is position and size.  *)
FileOf(of) ==
  [path |-> of.path, mount_index |-> of.mount_index,
   relative_path |-> of.relative_path, flags |-> of.flags]

OpenDescriptors ==
  [fd \in {i \in DOMAIN open_files : IsOpen(i)} |-> FileOf(open_files[fd])]

Fds == INSTANCE FdTable WITH files <- OpenDescriptors

(* The slots, reused by open, emptied by close and by umount, are a map    *)
(* from descriptors to files: open hands out the lowest free descriptor    *)
(* and never one in use, nothing but position and size changes while a     *)
(* descriptor is open, and no call opens and closes at once.               *)
ImplementsFdTable == Fds!Spec

(* A filesystem changes only through a mount that is not read-only, by no  *)
(* call and no descriptor, also one opened before a read-only mount took   *)
(* the place of a writable one.                                            *)
ReadOnlyHonoured ==
  [][\A f \in Filesystems :
       (\A i \in DOMAIN mounts :
          mounts[i].filesystem = f => mounts[i].options.read_only)
         => fs'[f] = fs[f]]_vars

(* A seek lands at its base plus its offset, or not at all: casts between  *)
(* u64 and i64 and a sum that wraps never make up a position, because no   *)
(* sequence of calls takes a position or a cached size to 2^63, as long as *)
(* no file is longer than MaxFileSize.  The base of SeekFrom::End is the   *)
(* size cached at the last open or write, not the file's.                  *)
SeekIsExact ==
  [][\A fd \in DOMAIN open_files, seek \in Seeks :
       Seek(fd, seek[1], seek[2]) =>
         open_files'[fd].position = SeekBase(open_files[fd], seek[2]) + seek[1]]_vars

(* No path is on two of the mounts that can be made. *)
Flat ==
  CaseSensitive /\ \A p \in AbsPaths : \A q, r \in MountPaths :
                      Covers(q, p) /\ Covers(r, p) => q = r

(* Where no mount can lie below another, the relative path that open       *)
(* stored is, at every later call, the one that resolving the file's path  *)
(* again gives, whatever was unmounted, replaced and mounted in between.   *)
FlatKeepsRelative ==
  Flat => \A fd \in DOMAIN open_files :
            IsOpen(fd) /\ FdResolves(fd) =>
              FdMount(fd).relative_path = open_files[fd].relative_path

(* No filesystem is mounted twice. *)
NoAlias ==
  \A i, j \in DOMAIN mounts : mounts[i].filesystem = mounts[j].filesystem => i = j

(* With the filesystems in state fsv, the file at arg holds data. *)
HasData(fsv, arg, data) ==
  /\ HasFile(fsv[At(arg).filesystem], At(arg).relative_path)
  /\ fsv[At(arg).filesystem][At(arg).relative_path].data = data

-----------------------------------------------------------------------------
(***************************************************************************)
(* What comments in the source say of the program, as properties.          *)
(***************************************************************************)

(* "Writes append to the end of the file" (APPEND): what the file held     *)
(* stays in front of what is written.                                      *)
AppendsAtEnd ==
  [][\A fd \in DOMAIN open_files, bytes \in Writes :
       IsOpen(fd) /\ "APPEND" \in open_files[fd].flags /\ Write(fd, bytes) =>
         LET f == FdMount(fd).filesystem
             p == open_files[fd].relative_path
         IN  IsPrefix(fs[f][p].data, fs'[f][p].data)]_vars

(* "The path relative to the mount point's root" (OpenFile::relative_path). *)
RelativeToMount ==
  \A fd \in DOMAIN open_files :
    IsOpen(fd) /\ FdResolves(fd) =>
      FdMount(fd).relative_path = open_files[fd].relative_path

(* The path of the mount an open file is on. *)
FdMountPath(fd) == mounts[OwnerIndex(mounts, open_files[fd].path)].path

(* "Close any open files on this mount" (umount), and no others.     *)
UmountClosesNoOthers ==
  [][\A arg \in MountArgs, fd \in DOMAIN open_files :
       /\ VfsUmount(arg) /\ mounts' # mounts
       /\ IsOpen(fd) /\ FdResolves(fd) /\ FdMountPath(fd) # MountPath(arg)
       => IsOpen(fd)']_vars

(* "Move (rename) a file or directory from src to dst" (mv): when mv       *)
(* succeeds, the data of src is at dst.                                    *)
MvArrives ==
  [][\A pair \in CopyPairs :
       LET src == pair[1]
           dst == pair[2]
       IN  /\ MvRename(src, dst) \/ MvCopy(src, dst)
           /\ HasFile(TreeAt(src), At(src).relative_path)
           => HasData(fs', dst, DataAt(src))]_vars
=============================================================================
