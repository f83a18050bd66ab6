---------------------------- MODULE SharedCalls ----------------------------
(***************************************************************************)
(* cp, mv and sync_all of src/vfs.rs, one filesystem call at a time.  The  *)
(* Vfs is borrowed for the whole call, so mounts and the working directory *)
(* stay as they are, but a filesystem is a shared reference: between two   *)
(* steps another user of it may write, create or remove files, and every   *)
(* filesystem call may fail.  Vfs has the same calls as single steps.      *)
(***************************************************************************)
EXTENDS Vfs

CONSTANTS
  OtherFiles,   \* the files that another user changes, <<filesystem, path>>
  OtherData     \* what another user puts there

ASSUME OtherAssumption ==
  /\ \A place \in OtherFiles :
       place \in Filesystems \X Texts /\ IsAbsolute(place[2])
  /\ OtherData \subseteq Data

(* What is left to do of a call.  The model's own fields: touched, the     *)
(* files that others have changed since the call began; before, the        *)
(* filesystems at its beginning, and held, the data of src then, both kept *)
(* until others make them useless; failed, the filesystems whose sync has  *)
(* failed.                                                                 *)
VARIABLE call

sharedVars == <<vars, call>>

Idle == [pc |-> "idle"]

Goto(pc) == call' = [call EXCEPT !.pc = pc]

Return == call' = Idle

Place(arg) == <<At(arg).filesystem, At(arg).relative_path>>

-----------------------------------------------------------------------------
(* cp and mv.                                                              *)

Begins(src, dst, mv) ==
  [pc      |-> IF mv /\ SameMount(src, dst) THEN "rename" ELSE "stat",
   mv      |-> mv,
   src     |-> src,
   dst     |-> dst,
   data    |-> <<>>,
   touched |-> {},
   before  |-> fs,
   held    |-> IF Located(src) /\ HasFile(TreeAt(src), At(src).relative_path)
                 THEN DataAt(src) ELSE None]

BeginCopy ==
  /\ call = Idle
  /\ \E pair \in CopyPairs, mv \in BOOLEAN : call' = Begins(pair[1], pair[2], mv)
  /\ UNCHANGED vars

(* The buffer has the size that stat reports, and is zero. *)
StatSrc ==
  /\ call.pc = "stat"
  /\ Located(call.src)
  /\ HasFile(TreeAt(call.src), At(call.src).relative_path)
  /\ LET size == Len(DataAt(call.src))
     IN  call' = [call EXCEPT !.pc = "read", !.data = [i \in 1..size |-> Zero]]
  /\ UNCHANGED vars

(* The file may have another size by now: what it has not, stays zero.     *)
ReadSrc ==
  /\ call.pc = "read"
  /\ HasFile(TreeAt(call.src), At(call.src).relative_path)
  /\ LET now == DataAt(call.src)
     IN  call' = [call EXCEPT !.pc = "probe",
                    !.data = [i \in DOMAIN @ |-> IF i <= Len(now) THEN now[i] ELSE Zero]]
  /\ UNCHANGED vars

StatDstUnchecked ==                  \* mutant: read_only is not looked at
  /\ call.pc = "probe"
  /\ Located(call.dst)
  /\ IF At(call.dst).relative_path \in DOMAIN TreeAt(call.dst)
       THEN Goto("truncate")
       ELSE Goto("create")
  /\ UNCHANGED vars

StatDst ==
  /\ call.pc = "probe"
  /\ Located(call.dst)
  /\ ~ At(call.dst).read_only
  /\ IF At(call.dst).relative_path \in DOMAIN TreeAt(call.dst)
       THEN Goto("truncate")
       ELSE Goto("create")
  /\ UNCHANGED vars

ChangesAt(arg, tree) ==
  /\ fs' = [fs EXCEPT ![At(arg).filesystem] = tree]
  /\ UNCHANGED <<mounts, open_files, cwd>>

TruncateDst ==
  LET p == At(call.dst).relative_path
  IN  /\ call.pc = "truncate"
      /\ HasFile(TreeAt(call.dst), p)
      /\ ChangesAt(call.dst, Truncated(TreeAt(call.dst), p))
      /\ Goto("write")

CreateDst ==
  LET p == At(call.dst).relative_path
  IN  /\ call.pc = "create"
      /\ CanAdd(TreeAt(call.dst), p)
      /\ ChangesAt(call.dst, Put(TreeAt(call.dst), p, EmptyFile))
      /\ Goto("write")

(* However much is written, cp goes on. *)
WriteDst ==
  LET p == At(call.dst).relative_path
  IN  /\ call.pc = "write"
      /\ HasFile(TreeAt(call.dst), p)
      /\ \E n \in WriteLens(Len(call.data)) :
           ChangesAt(call.dst, Written(TreeAt(call.dst), p, 0, SubSeq(call.data, 1, n)))
      /\ IF call.mv THEN Goto("rm") ELSE Return

RmSrc ==
  LET p == At(call.src).relative_path
  IN  /\ call.pc = "rm"
      /\ ~ At(call.src).read_only
      /\ HasFile(TreeAt(call.src), p)
      /\ ChangesAt(call.src, Removed(TreeAt(call.src), p))
      /\ Return

RenameSrc ==
  LET old == At(call.src).relative_path
      new == At(call.dst).relative_path
  IN  /\ call.pc = "rename"
      /\ Located(call.src) /\ Located(call.dst)
      /\ ~ At(call.src).read_only
      /\ CanRename(TreeAt(call.src), old, new)
      /\ ChangesAt(call.src, Renamed(TreeAt(call.src), old, new))
      /\ Return

RemovesAnyway ==                     \* mutant: rm after a failed write_file
  IF call.mv /\ call.pc = "write" THEN Goto("rm") ELSE Return

Retries == Goto("stat")                                  \* mutant: once more, for ever

(* The error of a filesystem or of the mount table is returned at once. *)
AfterFailure == Return

CopyFails ==
  /\ call.pc \in {"stat", "read", "probe", "truncate", "create", "write", "rm", "rename"}
  /\ AfterFailure
  /\ UNCHANGED vars

-----------------------------------------------------------------------------
(* sync_all: dirty are the filesystems that have something to flush.       *)

BeginSync ==
  /\ call = Idle
  /\ call' = [pc |-> "sync", i |-> 1, dirty |-> Filesystems, failed |-> {}, touched |-> {}]
  /\ UNCHANGED vars

LastMount(i) == Len(mounts) + 1      \* mutant: the first error ends the loop

NextMount(i) == i + 1

SyncMount ==
  /\ call.pc = "sync"
  /\ call.i <= Len(mounts)
  /\ LET f == mounts[call.i].filesystem
     IN  \/ call' = [call EXCEPT !.i = @ + 1, !.dirty = @ \ {f}]
         \/ call' = [call EXCEPT !.i = NextMount(@), !.failed = @ \cup {f}]
  /\ UNCHANGED vars

SyncReturns ==
  /\ call.pc = "sync"
  /\ call.i > Len(mounts)
  /\ Return
  /\ UNCHANGED vars

-----------------------------------------------------------------------------
(* Another user of filesystem f puts data into file p, or removes it.      *)
Others(f, p) ==
  /\ \/ /\ HasFile(fs[f], p) \/ CanAdd(fs[f], p)
        /\ \E data \in OtherData :
             fs' = [fs EXCEPT ![f] = Put(@, p, [type |-> "file", data |-> data])]
     \/ HasFile(fs[f], p) /\ fs' = [fs EXCEPT ![f] = Removed(@, p)]
  /\ CASE call.pc = "idle" -> UNCHANGED call
       [] call.pc = "sync" -> call' = [call EXCEPT !.touched = @ \cup {<<f, p>>},
                                                   !.dirty = @ \cup {f}]
       [] OTHER -> call' = [call EXCEPT !.touched = @ \cup {<<f, p>>}, !.before = None]
  /\ UNCHANGED <<mounts, open_files, cwd>>

CallStep ==
  \/ CopyFails
  \/ SyncMount \/ SyncReturns
  \/ StatSrc \/ ReadSrc \/ StatDst \/ TruncateDst \/ CreateDst \/ WriteDst
  \/ RmSrc \/ RenameSrc

SharedInit == VfsInit /\ call = Idle

SharedNext ==
  \/ call = Idle /\ MountCall /\ UNCHANGED call
  \/ BeginCopy \/ BeginSync
  \/ CallStep
  \/ \E place \in OtherFiles : Others(place[1], place[2])

(* A call that has begun keeps running, and the filesystems answer it.     *)
SharedSpec == SharedInit /\ [][SharedNext]_sharedVars /\ WF_sharedVars(CallStep)

-----------------------------------------------------------------------------
(***************************************************************************)
(* Properties.                                                             *)
(***************************************************************************)

Copying == call.pc \notin {"idle", "sync"}

Touched(c) == IF c.pc = "idle" THEN {} ELSE c.touched

(* The filesystems as a caller sees them who is alone with them: a call    *)
(* does all it does when it returns.                                       *)
Visible == IF Copying /\ call.touched = {} THEN call.before ELSE fs

Whole == INSTANCE Vfs WITH fs <- Visible

(* Alone with its filesystems a call is what Vfs has as one step of the    *)
(* same arguments: cp or mv as a whole, one of the failures that Vfs names *)
(* for it, or nothing.                                                     *)
AtomicWhenAlone ==
  [][Copying /\ Touched(call) = {} /\ Touched(call') = {} =>
       LET src == call.src
           dst == call.dst
       IN  \/ Visible' = Visible
           \/ ~ call.mv /\ (Whole!Cp(src, dst) \/ Whole!CpFails(src, dst))
           \/ call.mv /\ \/ Whole!MvRename(src, dst)
                         \/ Whole!MvCopy(src, dst)
                         \/ Whole!MvFails(src, dst)]_sharedVars

(* The files that the call is about. *)
OwnPlaces ==
  {Place(arg) : arg \in {a \in {call.src, call.dst} : Located(a)}}

(* At every moment of mv, and so also when the machine stops between two   *)
(* filesystem calls or one of them fails, what src held is at src or at    *)
(* dst: others may work beside it, if they leave these two files alone,    *)
(* no filesystem writes short and none is mounted twice.                   *)
MvKeepsData ==
  [][/\ CaseSensitive /\ ~ ShortWrites /\ NoAlias
     /\ Copying /\ call.mv /\ call.held # None
     /\ OwnPlaces \cap (Touched(call) \cup Touched(call')) = {}
     => HasData(fs', call.src, call.held) \/ HasData(fs', call.dst, call.held)]_sharedVars

(* When sync_all returns, every mounted filesystem is clean unless its own *)
(* sync failed or others have written to it since: one failure does not    *)
(* keep the other filesystems from being flushed.                          *)
SyncReachesAll ==
  [][call.pc = "sync" /\ call'.pc = "idle" =>
       \A i \in DOMAIN mounts :
         LET f == mounts[i].filesystem
         IN  f \in call.dirty =>
               f \in call.failed \cup {place[1] : place \in call.touched}]_sharedVars

(* Every call returns, whatever fails and however busy others are with the *)
(* filesystems.                                                            *)
CallsReturn == call.pc # "idle" ~> call.pc = "idle"
=============================================================================
