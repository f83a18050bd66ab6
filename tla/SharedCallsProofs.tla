------------------------- MODULE SharedCallsProofs -------------------------
(***************************************************************************)
(* Proofs about the calls of SharedCalls: for any filesystems and mounts,  *)
(* however many others use the filesystems between two of their steps.     *)
(***************************************************************************)
EXTENDS SharedCalls, VfsProofs

-----------------------------------------------------------------------------
(* What the filesystem calls leave at a path.                              *)

(* The tree t has a file at p that holds data. *)
Holds(t, p, data) == HasFile(t, p) /\ t[p].data = data

LEMMA TruncatedHolds ==
  ASSUME NEW t, IsTree(t), NEW p, HasFile(t, p)
  PROVE  Holds(Truncated(t, p), p, <<>>)
<1>1. p \in DOMAIN t /\ t[p] \in Node /\ t[p].type = "file"
  BY DEF HasFile, IsTree
<1> DEFINE node == [t[p] EXCEPT !.data = <<>>]
<1>2. node.type = "file" /\ node.data = <<>>
  BY <1>1 DEF Node
<1>3. Truncated(t, p) = [t EXCEPT ![p] = node]
  BY <1>1 DEF Truncated
<1> HIDE DEF node
<1>4. QED
  BY <1>1, <1>2, <1>3 DEF Holds, HasFile

LEMMA PutHolds ==
  ASSUME NEW t, NEW p, NEW data
  PROVE  Holds(Put(t, p, [type |-> "file", data |-> data]), p, data)
  BY DEF Holds, HasFile, Put

(* Written from the start of an empty file, the bytes are the file.        *)
LEMMA OverwriteEmpty ==
  ASSUME NEW data \in Data
  PROVE  Overwrite(<<>>, 0, data) = data
<1>0. data \in Seq(Bytes \cup {Zero}) /\ Len(data) \in Nat
  BY DataLength
<1>1. CASE data = <<>>
  BY <1>1 DEF Overwrite
<1>2. CASE data # <<>>
  <2> DEFINE n == Max({Len(<<>>), 0 + Len(data)})
  <2>1. n = Len(data)
    <3>1. Len(<<>>) = 0 /\ 0 + Len(data) = Len(data)
      BY <1>0
    <3>2. n \in {0, Len(data)} /\ 0 <= n /\ Len(data) <= n
      BY <1>0, <3>1, MaxOfTwo
    <3>3. QED
      BY <1>0, <3>2
  <2> HIDE DEF n
  <2>2. Overwrite(<<>>, 0, data) =
          [i \in 1..n |-> IF i \in (0 + 1)..(0 + Len(data)) THEN data[i - 0]
                          ELSE IF i <= Len(<<>>) THEN <<>>[i] ELSE Zero]
    BY <1>2 DEF Overwrite, n
  <2>3. \A i \in 1..n : i \in (0 + 1)..(0 + Len(data)) /\ i - 0 = i
    BY <1>0, <2>1
  <2>4. Overwrite(<<>>, 0, data) = [i \in 1..n |-> data[i]]
    BY <2>2, <2>3
  <2>5. [i \in 1..Len(data) |-> data[i]] = data
    BY <1>0
  <2>6. QED
    BY <2>1, <2>4, <2>5
<1>3. QED
  BY <1>1, <1>2

(* A write to an empty file leaves what was written. *)
LEMMA WrittenHolds ==
  ASSUME NEW t, IsTree(t), NEW p, Holds(t, p, <<>>), NEW data \in Data
  PROVE  Holds(Written(t, p, 0, data), p, data)
<1>1. p \in DOMAIN t /\ t[p] \in Node /\ t[p].type = "file" /\ t[p].data = <<>>
  BY DEF Holds, HasFile, IsTree
<1>3. Overwrite(<<>>, 0, data) = data
  BY OverwriteEmpty
<1> DEFINE node == [t[p] EXCEPT !.data = data]
<1>4. node.type = "file" /\ node.data = data
  BY <1>1 DEF Node
<1>5. Written(t, p, 0, data) = [t EXCEPT ![p] = node]
  BY <1>1, <1>3 DEF Written
<1> HIDE DEF node
<1>6. QED
  BY <1>1, <1>4, <1>5 DEF Holds, HasFile

(* What lies below a path is longer than it. *)
LEMMA BelowIsLonger ==
  ASSUME NEW p \in Seq(Segs), NEW q \in Seq(Segs), Below(p, q)
  PROVE  Len(p) < Len(q)
<1>1. /\ Len(p) <= Len(q) /\ p # q
      /\ SubSeq(p, 1, Len(p)) = SubSeq(q, 1, Len(p))
  BY DEF Below, IsStrictPrefix, IsPrefix
<1>2. Len(p) = Len(q) => p = q
  <2>1. SubSeq(p, 1, Len(p)) = p /\ SubSeq(q, 1, Len(q)) = q
    OBVIOUS
  <2>2. QED
    BY <1>1, <2>1
<1>3. QED
  BY <1>1, <1>2

(* rename carries a file's data to its new path, the old one included. *)
LEMMA RenamedHolds ==
  ASSUME NEW t, IsTree(t), NEW old, NEW new \in Texts, NEW data, Holds(t, old, data)
  PROVE  Holds(Renamed(t, old, new), new, data)
<1> DEFINE moved == {q \in DOMAIN t : q = old \/ Below(old, q)}
           To(q) == new \o SubSeq(q, Len(old) + 1, Len(q))
           kept == {q \in DOMAIN t \ moved : q # new}
           From(r) == CHOOSE q \in moved : To(q) = r
           result == [r \in kept \cup {To(q) : q \in moved} |->
                        IF r \in kept THEN t[r] ELSE t[From(r)]]
<1>1. Renamed(t, old, new) = result
  BY DEF Renamed
<1>2. old \in DOMAIN t /\ old \in Seq(Segs) /\ new \in Seq(Segs)
  BY DEF Holds, HasFile, IsTree, Texts
<1>3. old \in moved /\ new \notin kept
  BY <1>2
<1>4. To(old) = new
  <2>1. SubSeq(old, Len(old) + 1, Len(old)) = <<>>
    BY <1>2
  <2>2. new \o <<>> = new
    BY <1>2
  <2>3. QED
    BY <2>1, <2>2
<1>5. ASSUME NEW q \in moved, To(q) = new
      PROVE  q = old
  <2> SUFFICES ASSUME Below(old, q) PROVE FALSE
    OBVIOUS
  <2>1. q \in Seq(Segs) /\ Len(old) \in Nat /\ Len(q) \in Nat /\ Len(new) \in Nat
    BY <1>2 DEF IsTree, Texts
  <2>2. Len(old) < Len(q)
    BY <1>2, <2>1, BelowIsLonger
  <2> DEFINE rest == SubSeq(q, Len(old) + 1, Len(q))
  <2>3. rest \in Seq(Segs) /\ Len(rest) = Len(q) - Len(old)
    <3>1. \A i \in (Len(old) + 1)..Len(q) : q[i] \in Segs
      BY <2>1
    <3>2. QED
      BY <2>1, <2>2, <3>1, SubSeqProperties
  <2> HIDE DEF rest
  <2>4. Len(new \o rest) = Len(new) + Len(rest)
    BY <1>2, <2>3
  <2>5. new \o rest = new
    BY <1>5 DEF rest
  <2>6. QED
    BY <2>1, <2>2, <2>3, <2>4, <2>5
<1> HIDE DEF moved, kept, To
<1>6. From(new) = old
  BY <1>3, <1>4, <1>5
<1> HIDE DEF From
<1>7. new \in DOMAIN result /\ result[new] = t[old]
  BY <1>3, <1>4, <1>6
<1> HIDE DEF result
<1>8. QED
  BY <1>1, <1>7 DEF Holds, HasFile

(* Changing another path of the tree leaves a file as it is. *)
LEMMA OtherPathHolds ==
  ASSUME NEW t, NEW p, NEW data, Holds(t, p, data), NEW q, q # p, NEW node
  PROVE  Holds(Put(t, q, node), p, data) /\ Holds(Removed(t, q), p, data)
  BY DEF Holds, HasFile, Put, Removed
-----------------------------------------------------------------------------
(* The calls keep their types, and the filesystems stay trees.             *)

CopyPcs == {"stat", "read", "probe", "truncate", "create", "write", "rm", "rename"}

CopyCall(c) ==
  c \in [pc : CopyPcs, mv : BOOLEAN, src : Texts, dst : Texts, data : Data,
         touched : SUBSET OtherFiles, before : {c.before}, held : {c.held}]

SyncCall(c) ==
  c \in [pc : {"sync"}, i : Nat \ {0}, dirty : SUBSET Filesystems,
         failed : SUBSET Filesystems, touched : SUBSET OtherFiles]

CallOK == call = Idle \/ CopyCall(call) \/ SyncCall(call)

(* The part of the state that a running call only reads. *)
Borrowed == UNCHANGED <<mounts, open_files, cwd>>

(* What every step of a call keeps. *)
CallKept == Inv' /\ CallOK'

LEMMA TreesKept ==
  ASSUME Inv, Borrowed, TreesOK(fs')
  PROVE  Inv'
  BY DEF Inv, Borrowed

LEMMA FsKept ==
  ASSUME Inv, UNCHANGED vars
  PROVE  Inv'
  BY DEF Inv, vars

LEMMA TreeKept ==
  ASSUME Inv, Borrowed, NEW f \in Filesystems, NEW t, IsTree(t),
         fs' = [fs EXCEPT ![f] = t]
  PROVE  Inv'
<1>1. TreesOK(fs')
  BY DEF Inv, TreesOK
<1>2. QED
  BY <1>1, TreesKept

(* A step of a copy that goes on to pc, or returns. *)
LEMMA GoneTo ==
  ASSUME CopyCall(call), NEW pc \in CopyPcs, Goto(pc)
  PROVE  CopyCall(call)'
<1>1. call' = [call EXCEPT !.pc = pc]
  BY DEF Goto
<1>2. QED
  BY <1>1 DEF CopyCall

LEMMA CopyingIsCopy ==
  ASSUME CallOK
  PROVE  /\ call.pc \in CopyPcs <=> CopyCall(call)
         /\ call.pc = "sync" <=> SyncCall(call)
         /\ call.pc = "idle" <=> call = Idle
         /\ Copying <=> CopyCall(call)
  BY DEF CallOK, CopyCall, SyncCall, Idle, CopyPcs, Copying
(* A copy begins. *)
LEMMA BeginCopyKept ==
  ASSUME Inv, BeginCopy
  PROVE  CallKept
<1>1. PICK pair \in CopyPairs, mv \in BOOLEAN : call' = Begins(pair[1], pair[2], mv)
  BY DEF BeginCopy
<1>2. pair[1] \in Texts /\ pair[2] \in Texts
  BY CallsAssumption
<1>3. <<>> \in Data
  BY EmptyData
<1>4. CopyCall(call')
  BY <1>1, <1>2, <1>3 DEF Begins, CopyCall, CopyPcs
<1>5. CallOK'
  BY <1>4 DEF CallOK, CopyCall
<1>6. QED
  BY <1>5, FsKept DEF BeginCopy, CallKept

(* A buffer as long as a file can be a file. *)
LEMMA BufferType ==
  ASSUME NEW d \in Data, NEW b, b = [i \in 1..Len(d) |-> b[i]],
         \A i \in 1..Len(d) : b[i] \in Bytes \cup {Zero}
  PROVE  b \in Data
<1>1. Len(d) \in Nat /\ Len(d) <= MaxFileSize
  BY DataLength
<1> DEFINE n == Len(d)
<1>2. b \in Seq(Bytes \cup {Zero}) /\ Len(b) = n
  BY <1>1
<1>3. QED
  BY <1>1, <1>2 DEF Data

LEMMA StatSrcKept ==
  ASSUME Inv, CopyCall(call), StatSrc
  PROVE  CallKept
<1> DEFINE held == DataAt(call.src)
           buffer == [i \in 1..Len(held) |-> Zero]
<1>1. held \in Data
  BY DataAtType DEF StatSrc
<1>2. buffer \in Data
  BY <1>1, BufferType
<1>3. call' = [call EXCEPT !.pc = "read", !.data = buffer]
  BY DEF StatSrc
<1> HIDE DEF buffer
<1>4. CopyCall(call)'
  BY <1>2, <1>3 DEF CopyCall, CopyPcs
<1>5. QED
  BY <1>4, FsKept DEF StatSrc, CallKept, CallOK

LEMMA ReadSrcKept ==
  ASSUME Inv, CopyCall(call), Located(call.src), ReadSrc
  PROVE  CallKept
<1> DEFINE now == DataAt(call.src)
           e(i) == IF i <= Len(now) THEN now[i] ELSE Zero
           buffer == [i \in 1..Len(call.data) |-> e(i)]
<1>1. now \in Data /\ call.data \in Data
  BY DataAtType DEF ReadSrc, CopyCall
<1>2. /\ now \in Seq(Bytes \cup {Zero}) /\ Len(now) \in Nat
      /\ DOMAIN call.data = 1..Len(call.data)
  BY <1>1, DataLength
<1>3. call' = [call EXCEPT !.pc = "probe", !.data = buffer]
  BY <1>2 DEF ReadSrc, CopyCall
<1>4. buffer \in Data
  <2> HIDE DEF now
  <2>1. \A i \in 1..Len(call.data) : buffer[i] \in Bytes \cup {Zero}
    BY <1>2
  <2>2. buffer = [i \in 1..Len(call.data) |-> buffer[i]]
    OBVIOUS
  <2> HIDE DEF buffer
  <2>3. QED
    BY <1>1, <2>1, <2>2, BufferType
<1> HIDE DEF buffer
<1>5. CopyCall(call)'
  BY <1>3, <1>4 DEF CopyCall, CopyPcs
<1>6. QED
  BY <1>5, FsKept DEF ReadSrc, CallKept, CallOK
(* Steps that change no filesystem and go on to another step. *)
LEMMA GoesOn ==
  ASSUME Inv, CopyCall(call), NEW pc \in CopyPcs, Goto(pc), UNCHANGED vars
  PROVE  CallKept
<1>1. CopyCall(call)'
  BY GoneTo
<1>2. QED
  BY <1>1, FsKept DEF CallKept, CallOK

LEMMA Returns ==
  ASSUME Inv, Return, UNCHANGED vars
  PROVE  CallKept
  BY FsKept DEF Return, CallKept, CallOK

LEMMA StatDstKept ==
  ASSUME Inv, CopyCall(call), StatDst
  PROVE  CallKept
<1>1. Goto("truncate") \/ Goto("create")
  BY DEF StatDst
<1>2. "truncate" \in CopyPcs /\ "create" \in CopyPcs
  BY DEF CopyPcs
<1>3. UNCHANGED vars
  BY DEF StatDst
<1>4. QED
  BY <1>1, <1>2, <1>3, GoesOn

(* A tree changes at the place of an argument, and the copy goes on. *)
LEMMA ChangeKept ==
  ASSUME Inv, CopyCall(call), NEW arg, Located(arg), NEW t, IsTree(t), ChangesAt(arg, t),
         Return \/ \E pc \in CopyPcs : Goto(pc)
  PROVE  CallKept
<1>1. Inv'
  BY LocatedAt, TreeKept DEF ChangesAt, Borrowed
<1>2. CallOK'
  BY GoneTo DEF CallOK, Return
<1>3. QED
  BY <1>1, <1>2 DEF CallKept

LEMMA TreeAtIsTree ==
  ASSUME Inv, NEW arg, Located(arg)
  PROVE  IsTree(TreeAt(arg)) /\ RelativePath(At(arg).relative_path)
  BY LocatedAt DEF Inv, TreesOK, TreeAt

LEMMA TruncateDstKept ==
  ASSUME Inv, CopyCall(call), Located(call.dst), TruncateDst
  PROVE  CallKept
<1> DEFINE t == Truncated(TreeAt(call.dst), At(call.dst).relative_path)
<1>1. IsTree(t)
  BY TreeAtIsTree, TruncatedTree DEF TruncateDst, HasFile
<1>2. ChangesAt(call.dst, t) /\ Goto("write") /\ "write" \in CopyPcs
  BY DEF TruncateDst, CopyPcs
<1> HIDE DEF t
<1>3. QED
  BY <1>1, <1>2, ChangeKept

LEMMA EmptyFileIsNode == EmptyFile \in Node
  BY EmptyData, NodeType DEF EmptyFile

LEMMA CreateDstKept ==
  ASSUME Inv, CopyCall(call), Located(call.dst), CreateDst
  PROVE  CallKept
<1> DEFINE t == Put(TreeAt(call.dst), At(call.dst).relative_path, EmptyFile)
<1>1. IsTree(t)
  BY TreeAtIsTree, PutTree, EmptyFileIsNode
<1>2. ChangesAt(call.dst, t) /\ Goto("write") /\ "write" \in CopyPcs
  BY DEF CreateDst, CopyPcs
<1> HIDE DEF t
<1>3. QED
  BY <1>1, <1>2, ChangeKept

LEMMA WriteDstKept ==
  ASSUME Inv, CopyCall(call), Located(call.dst), WriteDst
  PROVE  CallKept
<1> DEFINE p == At(call.dst).relative_path
<1>1. call.data \in Data
  BY DEF CopyCall
<1>2. call.data \in Seq(Bytes \cup {Zero}) /\ Len(call.data) \in Nat /\ Len(call.data) <= MaxFileSize
  BY <1>1, DataLength
<1>3. PICK n \in WriteLens(Len(call.data)) :
        ChangesAt(call.dst, Written(TreeAt(call.dst), p, 0, SubSeq(call.data, 1, n)))
  BY DEF WriteDst
<1>4. n \in 0..Len(call.data)
  BY <1>2, WriteLensBound
<1>5. n \in Nat /\ n <= MaxFileSize
  BY <1>2, <1>4, BoundsAssumption DEF Positions
<1>6. SubSeq(call.data, 1, n) \in Data /\ Len(SubSeq(call.data, 1, n)) = n
  BY <1>2, <1>4, <1>5, PrefixIsData
<1> DEFINE bytes == SubSeq(call.data, 1, n)
           t == Written(TreeAt(call.dst), p, 0, bytes)
<1>7. p \in DOMAIN TreeAt(call.dst)
  BY DEF WriteDst, HasFile
<1>8. IsTree(t)
  <2> HIDE DEF bytes, p
  <2>1. bytes \in Data /\ 0 + Len(bytes) <= MaxFileSize
    BY <1>5, <1>6 DEF bytes
  <2>2. QED
    BY <1>7, <2>1, TreeAtIsTree, WrittenTree
<1>9. Return \/ \E pc \in CopyPcs : Goto(pc)
  BY DEF WriteDst, CopyPcs
<1>10. ChangesAt(call.dst, t)
  BY <1>3
<1> HIDE DEF t
<1>11. QED
  BY <1>8, <1>9, <1>10, ChangeKept

LEMMA RmSrcKept ==
  ASSUME Inv, CopyCall(call), Located(call.src), RmSrc
  PROVE  CallKept
<1> DEFINE t == Removed(TreeAt(call.src), At(call.src).relative_path)
<1>1. IsTree(t)
  BY TreeAtIsTree, RemovedTree
<1>2. ChangesAt(call.src, t) /\ Return
  BY DEF RmSrc
<1> HIDE DEF t
<1>3. QED
  BY <1>1, <1>2, ChangeKept

LEMMA RenameSrcKept ==
  ASSUME Inv, CopyCall(call), RenameSrc
  PROVE  CallKept
<1> DEFINE t == Renamed(TreeAt(call.src), At(call.src).relative_path,
                        At(call.dst).relative_path)
<1>1. Located(call.src) /\ Located(call.dst)
  BY DEF RenameSrc
<1>2. At(call.src).relative_path \in DOMAIN TreeAt(call.src)
  BY DEF RenameSrc, CanRename
<1>3. IsTree(t)
  BY <1>1, <1>2, TreeAtIsTree, RenamedTree
<1>4. ChangesAt(call.src, t) /\ Return
  BY DEF RenameSrc
<1> HIDE DEF t
<1>5. QED
  BY <1>1, <1>3, <1>4, ChangeKept
LEMMA BeginSyncKept ==
  ASSUME Inv, BeginSync
  PROVE  CallKept
<1>1. SyncCall(call)'
  BY DEF BeginSync, SyncCall
<1>2. QED
  BY <1>1, FsKept DEF BeginSync, CallKept, CallOK

LEMMA SyncMountKept ==
  ASSUME Inv, SyncCall(call), SyncMount
  PROVE  CallKept
<1>1. mounts[call.i].filesystem \in Filesystems
  <2>1. call.i \in 1..Len(mounts) /\ mounts \in Seq(MountPoint)
    BY DEF SyncMount, SyncCall, Inv, WellFormed
  <2>2. mounts[call.i] \in MountPoint
    BY <2>1
  <2>3. QED
    BY <2>2 DEF MountPoint
<1> DEFINE f == mounts[call.i].filesystem
<1>2. \/ call' = [call EXCEPT !.i = @ + 1, !.dirty = @ \ {f}]
      \/ call' = [call EXCEPT !.i = @ + 1, !.failed = @ \cup {f}]
  BY DEF SyncMount, NextMount
<1>3. f \in Filesystems
  BY <1>1
<1> HIDE DEF f
<1>4. SyncCall(call)'
  <2> DEFINE cleaned == call.dirty \ {f}
             missed == call.failed \cup {f}
  <2>1. /\ call.i + 1 \in Nat \ {0}
        /\ cleaned \in SUBSET Filesystems /\ missed \in SUBSET Filesystems
    BY <1>3 DEF SyncCall
  <2>2. \/ call' = [call EXCEPT !.i = call.i + 1, !.dirty = cleaned]
        \/ call' = [call EXCEPT !.i = call.i + 1, !.failed = missed]
    BY <1>2
  <2> HIDE DEF cleaned, missed
  <2>3. QED
    BY <2>1, <2>2 DEF SyncCall
<1>5. QED
  BY <1>4, FsKept DEF SyncMount, CallKept, CallOK

LEMMA OthersKept ==
  ASSUME Inv, CallOK, NEW place \in OtherFiles, Others(place[1], place[2])
  PROVE  CallKept
<1> DEFINE f == place[1]
           p == place[2]
<1>1. f \in Filesystems /\ RelativePath(p) /\ place = <<f, p>>
  BY OtherAssumption DEF RelativePath
<1> HIDE DEF f, p
<1>2. IsTree(fs[f])
  BY <1>1 DEF Inv, TreesOK
<1>3. \E t : IsTree(t) /\ fs' = [fs EXCEPT ![f] = t]
  <2>1. \A data \in OtherData : IsTree(Put(fs[f], p, [type |-> "file", data |-> data]))
    BY <1>1, <1>2, OtherAssumption, NodeType, PutTree
  <2>2. IsTree(Removed(fs[f], p))
    BY <1>2, RemovedTree
  <2>3. QED
    BY <2>1, <2>2 DEF Others, f, p
<1>4. Borrowed
  BY DEF Others, Borrowed
<1>5. Inv'
  BY <1>1, <1>3, <1>4, TreeKept
<1>6. CallOK'
  <2>1. CASE call = Idle
    BY <2>1 DEF Others, Idle, CallOK
  <2>2. CASE SyncCall(call)
    <3>1. call' = [call EXCEPT !.touched = @ \cup {<<f, p>>}, !.dirty = @ \cup {f}]
      BY <2>2 DEF Others, SyncCall, f, p
    <3>2. SyncCall(call)'
      BY <1>1, <2>2, <3>1 DEF SyncCall
    <3>3. QED
      BY <3>2 DEF CallOK
  <2>3. CASE CopyCall(call)
    <3>1. call' = [call EXCEPT !.touched = @ \cup {<<f, p>>}, !.before = None]
      BY <2>3 DEF Others, CopyCall, CopyPcs, f, p
    <3>2. CopyCall(call)'
      BY <1>1, <2>3, <3>1 DEF CopyCall
    <3>3. QED
      BY <3>2 DEF CallOK
  <2>4. QED
    BY <2>1, <2>2, <2>3 DEF CallOK
<1>7. QED
  BY <1>5, <1>6 DEF CallKept

-----------------------------------------------------------------------------
(* From the step of a copy on at which an argument has been resolved, it   *)
(* stays on a mount.                                                       *)
Situated(c) ==
  /\ c.pc \in {"read", "probe", "truncate", "create", "write", "rm"} => Located(c.src)
  /\ c.pc \in {"truncate", "create", "write", "rm"} => Located(c.dst)

SituatedCall == CopyCall(call) => Situated(call)

(* A running copy finds its arguments where they were. *)
LEMMA SamePlaces ==
  ASSUME Borrowed, CopyCall(call), call'.src = call.src, call'.dst = call.dst
  PROVE  /\ Located(call.src)' <=> Located(call.src)
         /\ Located(call.dst)' <=> Located(call.dst)
         /\ At(call.src)' = At(call.src) /\ At(call.dst)' = At(call.dst)
         /\ SameMount(call.src, call.dst)' <=> SameMount(call.src, call.dst)
  BY DEF Borrowed, Located, At, SameMount, Abs

(* The steps of a call, or others' steps, that leave its arguments alone. *)
LEMMA RunningStep ==
  ASSUME CopyCall(call), [SharedNext]_sharedVars, call' # Idle
  PROVE  Borrowed /\ call'.src = call.src /\ call'.dst = call.dst
         /\ call'.mv = call.mv /\ call'.held = call.held
<1>1. call # Idle /\ call.pc \notin {"idle", "sync"}
  BY DEF CopyCall, CopyPcs, Idle
<1>2. CASE UNCHANGED sharedVars
  BY <1>2 DEF sharedVars, vars, Borrowed
<1>3. CASE CallStep
  BY <1>1, <1>3 DEF CallStep, CopyFails, AfterFailure, Return, SyncMount, SyncReturns,
     StatSrc, ReadSrc, StatDst, TruncateDst, CreateDst, WriteDst, RmSrc, RenameSrc,
     ChangesAt, Goto, Borrowed, vars, CopyCall
<1>4. ASSUME NEW place \in OtherFiles, Others(place[1], place[2])
      PROVE  Borrowed /\ call'.src = call.src /\ call'.dst = call.dst
             /\ call'.mv = call.mv /\ call'.held = call.held
  BY <1>1, <1>4 DEF Others, Borrowed, CopyCall
<1>5. QED
  BY <1>1, <1>2, <1>3, <1>4 DEF SharedNext, BeginCopy, BeginSync

(* A call that was not a copy and is one now has just begun.               *)
LEMMA OnlyBegins ==
  ASSUME CallOK, ~ CopyCall(call), CopyCall(call)', [SharedNext]_sharedVars
  PROVE  BeginCopy
<1>1. call'.pc \in CopyPcs /\ call' # Idle
  BY DEF CopyCall, CopyPcs, Idle
<1>2. call = Idle \/ SyncCall(call)
  BY DEF CallOK
<1>3. call.pc \in {"idle", "sync"} /\ call' # call
  BY <1>1, <1>2 DEF SyncCall, CopyPcs, Idle
<1>4. ~ CallStep
  <2>1. ~ (StatSrc \/ ReadSrc \/ StatDst \/ TruncateDst \/ CreateDst \/ WriteDst)
    BY <1>3 DEF StatSrc, ReadSrc, StatDst, TruncateDst, CreateDst, WriteDst
  <2>2. ~ (RmSrc \/ RenameSrc \/ CopyFails)
    BY <1>3 DEF RmSrc, RenameSrc, CopyFails
  <2>3. SyncMount => call'.pc = "sync"
    BY <1>2 DEF SyncMount, SyncCall, Idle
  <2>4. SyncReturns => call' = Idle
    BY DEF SyncReturns, Return
  <2>5. QED
    BY <1>1, <2>1, <2>2, <2>3, <2>4 DEF CallStep, CopyPcs
<1>5. ASSUME NEW place \in OtherFiles, Others(place[1], place[2])
      PROVE  FALSE
  <2>1. CASE call = Idle
    BY <1>3, <1>5, <2>1 DEF Others, Idle
  <2>2. CASE SyncCall(call)
    BY <1>1, <1>5, <2>2 DEF Others, SyncCall, CopyPcs
  <2>3. QED
    BY <1>2, <2>1, <2>2
<1>6. ~ BeginSync
  BY <1>1 DEF BeginSync, CopyPcs
<1>7. call' # call => ~ UNCHANGED sharedVars
  BY DEF sharedVars
<1>8. QED
  BY <1>3, <1>4, <1>5, <1>6, <1>7 DEF SharedNext

LEMMA SituatedStep ==
  ASSUME CallOK, SituatedCall, [SharedNext]_sharedVars
  PROVE  SituatedCall'
<1> SUFFICES ASSUME CopyCall(call)'
             PROVE  Situated(call)'
  BY DEF SituatedCall
<1>1. call'.pc \in CopyPcs /\ call' # Idle
  BY DEF CopyCall, CopyPcs, Idle
<1>2. CASE ~ CopyCall(call)
  <2>2. BeginCopy
    BY <1>2, OnlyBegins
  <2>3. call'.pc \in {"rename", "stat"}
    BY <2>2 DEF BeginCopy, Begins
  <2>4. QED
    BY <2>3 DEF Situated
<1>3. CASE CopyCall(call)
  <2>1. Borrowed /\ call'.src = call.src /\ call'.dst = call.dst
    BY <1>1, <1>3, RunningStep
  <2>2. /\ Located(call.src)' <=> Located(call.src)
        /\ Located(call.dst)' <=> Located(call.dst)
    BY <1>3, <2>1, SamePlaces
  <2>3. Situated(call)
    BY <1>3 DEF SituatedCall
  <2> DEFINE Later == \/ call'.pc = call.pc
                      \/ call.pc = "stat" /\ call'.pc = "read" /\ Located(call.src)
                      \/ call.pc = "read" /\ call'.pc = "probe"
                      \/ /\ call.pc = "probe" /\ call'.pc \in {"truncate", "create"}
                         /\ Located(call.dst)
                      \/ call.pc \in {"truncate", "create"} /\ call'.pc = "write"
                      \/ call.pc = "write" /\ call'.pc = "rm"
  <2>4. Later
    <3>1. CASE UNCHANGED sharedVars
      BY <3>1 DEF sharedVars
    <3>2. CASE CallStep
      BY <1>1, <1>3, <3>2 DEF CallStep, CopyFails, AfterFailure, Return, SyncMount,
         SyncReturns, StatSrc, ReadSrc, StatDst, TruncateDst, CreateDst, WriteDst, RmSrc,
         RenameSrc, Goto, CopyCall, CopyPcs
    <3>3. ASSUME NEW place \in OtherFiles, Others(place[1], place[2])
          PROVE  call'.pc = call.pc
      BY <1>3, <3>3 DEF Others, CopyCall, CopyPcs
    <3>4. call # Idle
      BY <1>3 DEF CopyCall, CopyPcs, Idle
    <3>5. QED
      BY <3>1, <3>2, <3>3, <3>4 DEF SharedNext, BeginCopy, BeginSync
  <2>5. QED
    BY <2>2, <2>3, <2>4 DEF Situated
<1>4. QED
  BY <1>2, <1>3
-----------------------------------------------------------------------------
(* The inductive invariant.                                                *)

SharedInv == Inv /\ CallOK /\ SituatedCall

LEMMA SharedInitInv == SharedInit => SharedInv
  BY InitInv DEF SharedInit, SharedInv, CallOK, SituatedCall, CopyCall, CopyPcs, Idle

LEMMA CallStepKept ==
  ASSUME SharedInv, CallStep
  PROVE  CallKept
<1>1. CASE CopyFails
  BY <1>1, Returns DEF SharedInv, CopyFails, AfterFailure
<1>2. CASE SyncReturns
  BY <1>2, Returns DEF SharedInv, SyncReturns
<1>3. CASE SyncMount
  <2>1. SyncCall(call)
    BY <1>3, CopyingIsCopy DEF SyncMount, SharedInv
  <2>2. QED
    BY <1>3, <2>1, SyncMountKept DEF SharedInv
<1>4. CASE \/ StatSrc \/ ReadSrc \/ StatDst \/ TruncateDst \/ CreateDst \/ WriteDst
           \/ RmSrc \/ RenameSrc
  <2>1. call.pc \in CopyPcs
    BY <1>4 DEF StatSrc, ReadSrc, StatDst, TruncateDst, CreateDst, WriteDst, RmSrc,
       RenameSrc, CopyPcs
  <2>2. CopyCall(call) /\ Situated(call) /\ Inv
    BY <2>1, CopyingIsCopy DEF SharedInv, SituatedCall
  <2>3. /\ ReadSrc \/ RmSrc => Located(call.src)
        /\ TruncateDst \/ CreateDst \/ WriteDst => Located(call.dst)
    BY <2>2 DEF Situated, ReadSrc, RmSrc, TruncateDst, CreateDst, WriteDst
  <2>4. QED
    BY <1>4, <2>2, <2>3, StatSrcKept, ReadSrcKept, StatDstKept, TruncateDstKept,
       CreateDstKept, WriteDstKept, RmSrcKept, RenameSrcKept
<1>5. QED
  BY <1>1, <1>2, <1>3, <1>4 DEF CallStep

LEMMA SharedStep == SharedInv /\ [SharedNext]_sharedVars => SharedInv'
<1> SUFFICES ASSUME SharedInv, [SharedNext]_sharedVars PROVE SharedInv'
  OBVIOUS
<1>1. Inv /\ CallOK
  BY DEF SharedInv
<1>2. CASE call = Idle /\ MountCall /\ UNCHANGED call
  <2>1. Inv'
    BY <1>1, <1>2, InvStep DEF VfsNext
  <2>2. QED
    BY <1>2, <2>1 DEF SharedInv, CallOK, SituatedCall, CopyCall, CopyPcs, Idle
<1>3. CASE UNCHANGED sharedVars
  BY <1>1, <1>3 DEF sharedVars, vars, SharedInv, Inv, CallOK, SituatedCall, Situated,
     CopyCall, SyncCall, Located, Abs
<1>4. CASE BeginCopy \/ BeginSync \/ CallStep
           \/ \E place \in OtherFiles : Others(place[1], place[2])
  <2>1. CallKept
    BY <1>1, <1>4, BeginCopyKept, BeginSyncKept, CallStepKept, OthersKept
  <2>2. SituatedCall'
    BY <1>1, SituatedStep DEF SharedInv
  <2>3. QED
    BY <2>1, <2>2 DEF CallKept, SharedInv
<1>5. QED
  BY <1>2, <1>3, <1>4 DEF SharedNext

(* In every reachable state the tables and filesystems have their types,   *)
(* and a running call finds its arguments on a mount.                      *)
THEOREM SharedInvariant == SharedSpec => []SharedInv
<1>1. SharedInit /\ [][SharedNext]_sharedVars => []SharedInv
  BY SharedInitInv, SharedStep, PTL
<1>2. QED
  BY <1>1, PTL DEF SharedSpec

-----------------------------------------------------------------------------
(* sync_all.                                                               *)

(* The mounts that the loop has passed are clean, have failed, or have been *)
(* written to again.                                                       *)
Synced ==
  call.pc = "sync" =>
    \A j \in DOMAIN mounts :
      LET f == mounts[j].filesystem
      IN  j < call.i /\ f \in call.dirty =>
            f \in call.failed \cup {place[1] : place \in call.touched}

LEMMA SyncedStep ==
  ASSUME SharedInv, Synced, [SharedNext]_sharedVars
  PROVE  Synced'
<1> SUFFICES ASSUME call'.pc = "sync"
             PROVE  \A j \in DOMAIN mounts' :
                      LET f == mounts'[j].filesystem
                      IN  j < call'.i /\ f \in call'.dirty =>
                            f \in call'.failed \cup {place[1] : place \in call'.touched}
  BY DEF Synced
<1>1. CallOK /\ DOMAIN mounts = 1..Len(mounts)
  BY DEF SharedInv, Inv, WellFormed
<1>2. CASE BeginSync
  BY <1>1, <1>2 DEF BeginSync, vars
<1>3. CASE SyncCall(call) /\ SyncMount
  <2> DEFINE g == mounts[call.i].filesystem
  <2>1. /\ call.i \in Nat /\ mounts' = mounts /\ call.pc = "sync"
        /\ \/ call' = [call EXCEPT !.i = @ + 1, !.dirty = @ \ {g}]
           \/ call' = [call EXCEPT !.i = @ + 1, !.failed = @ \cup {g}]
    BY <1>3 DEF SyncCall, SyncMount, NextMount, vars
  <2> HIDE DEF g
  <2>2. /\ call'.i = call.i + 1 /\ call'.touched = call.touched
        /\ \/ call'.dirty = call.dirty \ {g} /\ call'.failed = call.failed
           \/ call'.dirty = call.dirty /\ call'.failed = call.failed \cup {g}
    BY <1>3, <2>1 DEF SyncCall
  <2> SUFFICES ASSUME NEW j \in DOMAIN mounts, j < call'.i,
                      mounts[j].filesystem \in call'.dirty
               PROVE  mounts[j].filesystem \in
                        call'.failed \cup {place[1] : place \in call'.touched}
    BY <2>1
  <2>3. CASE j = call.i
    BY <2>2, <2>3 DEF g
  <2>4. CASE j # call.i
    <3>1. j < call.i
      BY <1>1, <2>1, <2>2, <2>4
    <3>2. mounts[j].filesystem \in call.failed \cup {place[1] : place \in call.touched}
      BY <2>1, <2>2, <3>1 DEF Synced
    <3>3. QED
      BY <2>2, <3>2
  <2>5. QED
    BY <2>3, <2>4
<1>4. ASSUME SyncCall(call), NEW place \in OtherFiles, Others(place[1], place[2]),
             NEW j \in DOMAIN mounts', j < call'.i, mounts'[j].filesystem \in call'.dirty
      PROVE  mounts'[j].filesystem \in call'.failed \cup {q[1] : q \in call'.touched}
  <2> DEFINE here == <<place[1], place[2]>>
  <2>1. /\ mounts' = mounts /\ call.pc = "sync"
        /\ call' = [call EXCEPT !.touched = @ \cup {here}, !.dirty = @ \cup {place[1]}]
    BY <1>4 DEF Others, SyncCall
  <2>2. here[1] = place[1]
    OBVIOUS
  <2> HIDE DEF here
  <2>3. /\ call'.i = call.i /\ call'.touched = call.touched \cup {here}
        /\ call'.dirty = call.dirty \cup {place[1]} /\ call'.failed = call.failed
    BY <1>4, <2>1 DEF SyncCall
  <2>4. CASE mounts[j].filesystem = place[1]
    BY <2>1, <2>2, <2>3, <2>4
  <2>5. CASE mounts[j].filesystem \in call.dirty
    <3>1. mounts[j].filesystem \in call.failed \cup {q[1] : q \in call.touched}
      BY <1>4, <2>1, <2>3, <2>5 DEF Synced
    <3>2. QED
      BY <2>1, <2>3, <3>1
  <2>6. QED
    BY <1>4, <2>1, <2>3, <2>4, <2>5
<1>5. CASE UNCHANGED sharedVars
  BY <1>5 DEF sharedVars, vars, Synced
<1>6. QED
  <2>1. CASE SyncCall(call)
    <3>1. call # Idle /\ call.pc = "sync"
      BY <2>1 DEF SyncCall, Idle
    <3>2. CallStep => SyncMount
      <4>1. ~ (StatSrc \/ ReadSrc \/ StatDst \/ TruncateDst \/ CreateDst \/ WriteDst)
        BY <3>1 DEF StatSrc, ReadSrc, StatDst, TruncateDst, CreateDst, WriteDst
      <4>2. ~ (RmSrc \/ RenameSrc \/ CopyFails)
        BY <3>1 DEF RmSrc, RenameSrc, CopyFails
      <4>3. ~ SyncReturns
        BY DEF SyncReturns, Return, Idle
      <4>4. QED
        BY <4>1, <4>2, <4>3 DEF CallStep
    <3>3. QED
      BY <1>3, <1>4, <1>5, <2>1, <3>1, <3>2 DEF SharedNext, BeginCopy, BeginSync
  <2>2. CASE call = Idle
    <3>1. ~ CallStep
      <4>1. ~ (StatSrc \/ ReadSrc \/ StatDst \/ TruncateDst \/ CreateDst \/ WriteDst)
        BY <2>2 DEF StatSrc, ReadSrc, StatDst, TruncateDst, CreateDst, WriteDst, Idle
      <4>2. ~ (RmSrc \/ RenameSrc \/ CopyFails \/ SyncMount \/ SyncReturns)
        BY <2>2 DEF RmSrc, RenameSrc, CopyFails, SyncMount, SyncReturns, Idle
      <4>3. QED
        BY <4>1, <4>2 DEF CallStep
    <3>2. ~ BeginCopy
      BY DEF BeginCopy, Begins
    <3>3. \A place \in OtherFiles : ~ Others(place[1], place[2])
      BY <2>2 DEF Others, Idle
    <3>4. call' # Idle
      BY DEF Idle
    <3>5. QED
      BY <1>2, <1>5, <2>2, <3>1, <3>2, <3>3, <3>4 DEF SharedNext
  <2>3. CASE CopyCall(call)
    <3>1. call' # Idle /\ call # Idle
      BY <2>3 DEF Idle, CopyCall, CopyPcs
    <3>2. CASE UNCHANGED sharedVars
      BY <1>5, <3>2
    <3>3. ~ CallStep
      BY <2>3, <3>1 DEF CallStep, CopyFails, AfterFailure, Return, SyncMount, SyncReturns,
         StatSrc, ReadSrc, StatDst, TruncateDst, CreateDst, WriteDst, RmSrc, RenameSrc,
         Goto, CopyCall, CopyPcs
    <3>4. \A place \in OtherFiles : ~ Others(place[1], place[2])
      BY <2>3 DEF Others, CopyCall, CopyPcs
    <3>5. QED
      BY <3>1, <3>2, <3>3, <3>4 DEF SharedNext, BeginCopy, BeginSync
  <2>4. QED
    BY <1>1, <2>1, <2>2, <2>3 DEF CallOK
(* Of a call's steps, the last of sync_all alone takes it from there. *)
LEMMA SyncEnds ==
  ASSUME SharedInv, [SharedNext]_sharedVars, call.pc = "sync", call'.pc = "idle"
  PROVE  SyncReturns
<1>1. SyncCall(call) /\ call # Idle
  BY CopyingIsCopy DEF SharedInv, Idle
<1>2. ~ (StatSrc \/ ReadSrc \/ StatDst \/ TruncateDst \/ CreateDst \/ WriteDst)
  BY DEF StatSrc, ReadSrc, StatDst, TruncateDst, CreateDst, WriteDst
<1>3. ~ (RmSrc \/ RenameSrc \/ CopyFails)
  BY DEF RmSrc, RenameSrc, CopyFails
<1>4. ~ SyncMount
  BY <1>1 DEF SyncMount, SyncCall
<1>5. ASSUME NEW place \in OtherFiles, Others(place[1], place[2])
      PROVE  FALSE
  BY <1>1, <1>5 DEF Others, SyncCall
<1>6. ~ UNCHANGED sharedVars
  BY DEF sharedVars
<1>7. QED
  BY <1>1, <1>2, <1>3, <1>4, <1>5, <1>6 DEF SharedNext, CallStep, BeginCopy, BeginSync

(* When sync_all returns it has reached every mount: those filesystems are *)
(* clean whose sync did not fail and to which nobody has written since.    *)
THEOREM SharedSyncReachesAll == SharedSpec => SyncReachesAll
<1>1. SharedInit => Synced
  BY DEF SharedInit, Synced, Idle
<1>2. SharedInv /\ Synced /\ [SharedNext]_sharedVars => Synced'
  BY SyncedStep
<1>3. ASSUME SharedInv, Synced, [SharedNext]_sharedVars
      PROVE  [call.pc = "sync" /\ call'.pc = "idle" =>
                \A i \in DOMAIN mounts :
                  LET f == mounts[i].filesystem
                  IN  f \in call.dirty =>
                        f \in call.failed \cup {place[1] : place \in call.touched}]_sharedVars
  <2> SUFFICES ASSUME call.pc = "sync", call'.pc = "idle", NEW i \in DOMAIN mounts
               PROVE  LET f == mounts[i].filesystem
                      IN  f \in call.dirty =>
                            f \in call.failed \cup {place[1] : place \in call.touched}
    OBVIOUS
  <2>1. call.i > Len(mounts) /\ call.i \in Nat
    BY <1>3, SyncEnds, CopyingIsCopy DEF SyncReturns, SharedInv, SyncCall
  <2>2. i \in 1..Len(mounts) /\ Len(mounts) \in Nat
    BY <1>3 DEF SharedInv, Inv, WellFormed
  <2>3. i < call.i
    BY <2>1, <2>2
  <2>4. QED
    BY <1>3, <2>3 DEF Synced
<1>4. SharedInit /\ [][SharedNext]_sharedVars /\ []SharedInv => SyncReachesAll
  BY <1>1, <1>2, <1>3, PTL DEF SyncReachesAll
<1>5. QED
  BY <1>4, SharedInvariant, PTL DEF SharedSpec

-----------------------------------------------------------------------------
(* mv.                                                                     *)

(* While no mount folds case, mv decides by the mounts that resolve() uses. *)
LEMMA MountsOfPlaces ==
  ASSUME Inv, CaseSensitive, NEW src, NEW dst, Located(src), Located(dst)
  PROVE  /\ SameMount(src, dst) => At(src).filesystem = At(dst).filesystem
         /\ NoAlias /\ ~ SameMount(src, dst) => At(src).filesystem # At(dst).filesystem
<1>1. mounts \in Seq(MountPoint)
  BY DEF Inv, WellFormed
<1>2. NoFolding
  BY <1>1, CaseSensitiveTables DEF NoFolding
<1>3. /\ Abs(src) \in AbsPaths /\ CanResolve(mounts, Abs(src))
      /\ Abs(dst) \in AbsPaths /\ CanResolve(mounts, Abs(dst))
  BY DEF Located
<1>4. /\ FindMountIndex(mounts, Abs(src)) = OwnerIndex(mounts, Abs(src))
      /\ FindMountIndex(mounts, Abs(dst)) = OwnerIndex(mounts, Abs(dst))
  BY <1>1, <1>2, <1>3, NoFoldingMatchers
<1>5. /\ OwnerIndex(mounts, Abs(src)) \in DOMAIN mounts
      /\ OwnerIndex(mounts, Abs(dst)) \in DOMAIN mounts
  BY <1>1, <1>3, OwnerIndexProperties
<1>6. /\ At(src).filesystem = mounts[OwnerIndex(mounts, Abs(src))].filesystem
      /\ At(dst).filesystem = mounts[OwnerIndex(mounts, Abs(dst))].filesystem
  BY DEF At, Resolve
<1>7. QED
  BY <1>4, <1>5, <1>6 DEF SameMount, NoAlias

(* How far mv has come, and where the data of src is by then. *)
MovesAt(c, fsv) ==
  /\ Located(c.src)
  /\ HasData(fsv, c.src, c.held)
  /\ c.pc = "rename" <=> SameMount(c.src, c.dst)
  /\ c.pc = "read" => Len(c.data) = Len(c.held)
  /\ c.pc \in {"probe", "truncate", "create", "write", "rm"} => c.data = c.held
  /\ c.pc = "write" => HasData(fsv, c.dst, <<>>)
  /\ c.pc = "rm" => HasData(fsv, c.dst, c.held)

Moves == MovesAt(call, fs)

Alone == NoAlias /\ call.mv /\ call.held # None /\ OwnPlaces \cap call.touched = {}

MvSafe == CopyCall(call) /\ Alone => Moves

LEMMA HasDataHolds ==
  ASSUME NEW fsv, NEW arg, NEW data
  PROVE  HasData(fsv, arg, data)
           <=> Holds(fsv[At(arg).filesystem], At(arg).relative_path, data)
  BY DEF HasData, Holds

(* Changing one filesystem leaves the files of the others as they are. *)
LEMMA OtherFsHolds ==
  ASSUME Inv, NEW arg, NEW data, HasData(fs, arg, data), Located(arg),
         NEW g, g # At(arg).filesystem, NEW t, fs' = [fs EXCEPT ![g] = t]
  PROVE  HasData(fs', arg, data)
<1>1. At(arg).filesystem \in Filesystems
  BY LocatedAt
<1>2. fs'[At(arg).filesystem] = fs[At(arg).filesystem]
  BY <1>1 DEF Inv, TreesOK
<1>3. QED
  BY <1>2 DEF HasData

LEMMA ThisFsHolds ==
  ASSUME Inv, NEW arg, NEW data, Located(arg), NEW t, fs' = [fs EXCEPT ![At(arg).filesystem] = t],
         Holds(t, At(arg).relative_path, data)
  PROVE  HasData(fs', arg, data)
<1>1. At(arg).filesystem \in Filesystems
  BY LocatedAt
<1>2. fs'[At(arg).filesystem] = t
  BY <1>1 DEF Inv, TreesOK
<1>3. QED
  BY <1>2, HasDataHolds

(* Others who work on another file leave this one as it is. *)
LEMMA OthersHold ==
  ASSUME Inv, NEW arg, NEW data, HasData(fs, arg, data), Located(arg),
         NEW place \in OtherFiles, Others(place[1], place[2]),
         Place(arg) # <<place[1], place[2]>>
  PROVE  HasData(fs', arg, data)
<1> DEFINE f == place[1]
           p == place[2]
           g == At(arg).filesystem
           q == At(arg).relative_path
<1>1. CASE f # g
  <2>1. \E t : fs' = [fs EXCEPT ![f] = t]
    BY DEF Others
  <2>2. QED
    BY <1>1, <2>1, OtherFsHolds
<1>2. CASE f = g
  <2>1. p # q
    BY <1>2 DEF Place
  <2>2. Holds(fs[f], q, data)
    BY <1>2, HasDataHolds
  <2>3. \E t : Holds(t, q, data) /\ fs' = [fs EXCEPT ![f] = t]
    <3>1. Holds(Removed(fs[f], p), q, data)
      BY <2>1, <2>2, OtherPathHolds
    <3>2. \A node : Holds(Put(fs[f], p, node), q, data)
      BY <2>1, <2>2, OtherPathHolds
    <3>3. QED
      BY <3>1, <3>2 DEF Others
  <2>4. QED
    BY <1>2, <2>3, ThisFsHolds
<1>3. QED
  BY <1>1, <1>2
LEMMA MovesNext ==
  ASSUME Borrowed, MovesAt(call', fs')
  PROVE  Moves'
  BY DEF Borrowed, Moves, MovesAt, HasData, Located, At, SameMount, Abs

(* What mv has reached when it goes on to pc with its file system changed. *)
Safe == \/ call' = Idle /\ (HasData(fs', call.src, call.held) \/ HasData(fs', call.dst, call.held))
        \/ call'.held = call.held /\ call'.src = call.src /\ MovesAt(call', fs')

LEMMA HeldIsData ==
  ASSUME Inv, Moves
  PROVE  /\ call.held = DataAt(call.src) /\ call.held \in Data
         /\ call.held \in Seq(Bytes \cup {Zero}) /\ Len(call.held) \in Nat
  BY DataAtType DEF Moves, MovesAt, HasData, DataAt, TreeAt

LEMMA StatSrcSafe ==
  ASSUME Inv, CopyCall(call), Moves, StatSrc
  PROVE  Safe
<1> DEFINE buffer == [i \in 1..Len(call.held) |-> Zero]
<1>1. call' = [call EXCEPT !.pc = "read", !.data = buffer] /\ fs' = fs
  BY HeldIsData DEF StatSrc, vars
<1>2. Len(buffer) = Len(call.held)
  BY HeldIsData
<1> HIDE DEF buffer
<1>3. /\ call'.pc = "read" /\ call'.data = buffer /\ call'.held = call.held
      /\ call'.src = call.src /\ call'.dst = call.dst
  BY <1>1 DEF CopyCall
<1>4. call.pc = "stat"
  BY DEF StatSrc
<1>5. QED
  BY <1>1, <1>2, <1>3, <1>4 DEF Safe, Moves, MovesAt

LEMMA ReadSrcSafe ==
  ASSUME Inv, CopyCall(call), Moves, ReadSrc
  PROVE  Safe
<1> DEFINE held == call.held
           buffer == [i \in DOMAIN call.data |-> IF i <= Len(held) THEN held[i] ELSE Zero]
<1>1. call.pc = "read" /\ Len(call.data) = Len(held)
  BY DEF ReadSrc, Moves, MovesAt
<1>2. call' = [call EXCEPT !.pc = "probe", !.data = buffer] /\ fs' = fs
  BY HeldIsData DEF ReadSrc, vars, CopyCall
<1>3. buffer = held
  <2>1. DOMAIN call.data = 1..Len(held)
    <3>1. call.data \in Data
      BY DEF CopyCall
    <3>2. QED
      BY <1>1, <3>1, DataLength
  <2>2. held \in Seq(Bytes \cup {Zero}) /\ Len(held) \in Nat
    BY HeldIsData
  <2> HIDE DEF held
  <2>3. buffer = [i \in 1..Len(held) |-> held[i]]
    BY <2>1, <2>2
  <2>4. QED
    BY <2>2, <2>3
<1> HIDE DEF buffer
<1>4. /\ call'.pc = "probe" /\ call'.data = held /\ call'.held = held
      /\ call'.src = call.src /\ call'.dst = call.dst
  BY <1>2, <1>3 DEF CopyCall
<1>5. QED
  BY <1>1, <1>2, <1>4 DEF Safe, Moves, MovesAt

(* The steps that go on and change nothing but pc in the call. *)
LEMMA GoneToFields ==
  ASSUME CopyCall(call), NEW pc, Goto(pc)
  PROVE  /\ call'.pc = pc /\ call'.data = call.data /\ call'.held = call.held
         /\ call'.src = call.src /\ call'.dst = call.dst
  BY DEF CopyCall, Goto

LEMMA StatDstSafe ==
  ASSUME CopyCall(call), Moves, StatDst
  PROVE  Safe
<1>1. PICK pc \in {"truncate", "create"} : Goto(pc)
  BY DEF StatDst
<1>2. call.pc = "probe" /\ fs' = fs
  BY DEF StatDst, vars
<1>3. /\ call'.pc = pc /\ call'.data = call.data /\ call'.held = call.held
      /\ call'.src = call.src /\ call'.dst = call.dst
  BY <1>1, GoneToFields
<1>4. QED
  BY <1>1, <1>2, <1>3 DEF Safe, Moves, MovesAt

(* While the destination is worked on, it is not on the filesystem of src. *)
LEMMA Apart ==
  ASSUME Inv, CaseSensitive, NoAlias, Moves, Situated(call),
         call.pc \in {"truncate", "create", "write", "rm"}
  PROVE  /\ Located(call.src) /\ Located(call.dst)
         /\ At(call.src).filesystem # At(call.dst).filesystem
  BY MountsOfPlaces DEF Moves, MovesAt, Situated

LEMMA DstChanges ==
  ASSUME Inv, CopyCall(call), CaseSensitive, NoAlias, Moves, Situated(call),
         call.pc \in {"truncate", "create", "write"},
         NEW t, ChangesAt(call.dst, t), NEW data, Holds(t, At(call.dst).relative_path, data)
  PROVE  HasData(fs', call.src, call.held) /\ HasData(fs', call.dst, data)
<1>1. /\ Located(call.src) /\ Located(call.dst)
      /\ At(call.src).filesystem # At(call.dst).filesystem
  BY Apart
<1>2. fs' = [fs EXCEPT ![At(call.dst).filesystem] = t]
  BY DEF ChangesAt
<1>3. HasData(fs, call.src, call.held)
  BY DEF Moves, MovesAt
<1>4. HasData(fs', call.src, call.held)
  BY <1>1, <1>2, <1>3, OtherFsHolds
<1>5. HasData(fs', call.dst, data)
  BY <1>1, <1>2, ThisFsHolds
<1>6. QED
  BY <1>4, <1>5

LEMMA EmptyDstSafe ==
  ASSUME Inv, CopyCall(call), CaseSensitive, NoAlias, Moves, Situated(call),
         TruncateDst \/ CreateDst
  PROVE  Safe
<1> DEFINE p == At(call.dst).relative_path
           tree == TreeAt(call.dst)
<1>1. call.pc \in {"truncate", "create"} /\ Goto("write")
  BY DEF TruncateDst, CreateDst
<1>2. IsTree(tree)
  BY <1>1, Apart, TreeAtIsTree
<1>3. \E t : ChangesAt(call.dst, t) /\ Holds(t, p, <<>>)
  <2>1. CASE TruncateDst
    <3>1. HasFile(tree, p) /\ ChangesAt(call.dst, Truncated(tree, p))
      BY <2>1 DEF TruncateDst
    <3> HIDE DEF p, tree
    <3>2. QED
      BY <1>2, <3>1, TruncatedHolds
  <2>2. CASE CreateDst
    <3>1. ChangesAt(call.dst, Put(tree, p, EmptyFile))
      BY <2>2 DEF CreateDst
    <3> HIDE DEF p, tree
    <3>2. QED
      BY <3>1, PutHolds DEF EmptyFile
  <2>3. QED
    BY <2>1, <2>2
<1>4. HasData(fs', call.src, call.held) /\ HasData(fs', call.dst, <<>>)
  BY <1>1, <1>3, DstChanges
<1>5. /\ call'.pc = "write" /\ call'.data = call.data /\ call'.held = call.held
      /\ call'.src = call.src /\ call'.dst = call.dst
  BY <1>1, GoneToFields
<1>6. QED
  BY <1>1, <1>4, <1>5 DEF Safe, Moves, MovesAt
LEMMA WriteDstSafe ==
  ASSUME Inv, CopyCall(call), CaseSensitive, ~ ShortWrites, NoAlias, call.mv, Moves,
         Situated(call), WriteDst
  PROVE  Safe
<1> DEFINE p == At(call.dst).relative_path
           tree == TreeAt(call.dst)
           t == Written(tree, p, 0, call.data)
<1>1. call.pc = "write" /\ Goto("rm")
  BY DEF WriteDst
<1>2. call.data = call.held /\ HasData(fs, call.dst, <<>>)
  BY <1>1 DEF Moves, MovesAt
<1>3. IsTree(tree) /\ Holds(tree, p, <<>>)
  BY <1>1, <1>2, Apart, TreeAtIsTree, HasDataHolds DEF TreeAt
<1>4. /\ call.data \in Data /\ call.data \in Seq(Bytes \cup {Zero})
      /\ Len(call.data) \in Nat
  BY <1>2, HeldIsData
<1>5. ChangesAt(call.dst, t)
  <2>1. PICK n \in WriteLens(Len(call.data)) :
          ChangesAt(call.dst, Written(tree, p, 0, SubSeq(call.data, 1, n)))
    BY DEF WriteDst
  <2>2. n = Len(call.data)
    BY DEF WriteLens
  <2>3. SubSeq(call.data, 1, n) = call.data
    BY <1>4, <2>2
  <2>4. QED
    BY <2>1, <2>3
<1>6. Holds(t, p, call.data)
  <2> HIDE DEF tree, p
  <2>1. QED
    BY <1>3, <1>4, WrittenHolds
<1> HIDE DEF t
<1>7. HasData(fs', call.src, call.held) /\ HasData(fs', call.dst, call.held)
  BY <1>1, <1>2, <1>5, <1>6, DstChanges
<1>8. /\ call'.pc = "rm" /\ call'.data = call.data /\ call'.held = call.held
      /\ call'.src = call.src /\ call'.dst = call.dst
  BY <1>1, GoneToFields
<1>9. QED
  BY <1>1, <1>2, <1>7, <1>8 DEF Safe, Moves, MovesAt

LEMMA RmSrcSafe ==
  ASSUME Inv, CopyCall(call), CaseSensitive, NoAlias, Moves, Situated(call), RmSrc
  PROVE  Safe
<1>1. call.pc = "rm" /\ call' = Idle
  BY DEF RmSrc, Return
<1>2. /\ Located(call.src) /\ Located(call.dst)
      /\ At(call.src).filesystem # At(call.dst).filesystem
  BY <1>1, Apart
<1>3. \E t : fs' = [fs EXCEPT ![At(call.src).filesystem] = t]
  BY DEF RmSrc, ChangesAt
<1>4. HasData(fs, call.dst, call.held)
  BY <1>1 DEF Moves, MovesAt
<1>5. HasData(fs', call.dst, call.held)
  BY <1>2, <1>3, <1>4, OtherFsHolds
<1>6. QED
  BY <1>1, <1>5 DEF Safe

LEMMA RenameSrcSafe ==
  ASSUME Inv, CopyCall(call), CaseSensitive, NoAlias, Moves, RenameSrc
  PROVE  Safe
<1> DEFINE old == At(call.src).relative_path
           new == At(call.dst).relative_path
           tree == TreeAt(call.src)
           t == Renamed(tree, old, new)
<1>1. call.pc = "rename" /\ call' = Idle /\ Located(call.src) /\ Located(call.dst)
  BY DEF RenameSrc, Return
<1>2. At(call.src).filesystem = At(call.dst).filesystem
  BY <1>1, MountsOfPlaces DEF Moves, MovesAt
<1>3. IsTree(tree) /\ new \in Texts
  BY <1>1, TreeAtIsTree DEF RelativePath
<1>4. Holds(tree, old, call.held)
  BY HasDataHolds DEF Moves, MovesAt, TreeAt
<1>5. Holds(t, new, call.held)
  <2> HIDE DEF tree, old, new
  <2>1. QED
    BY <1>3, <1>4, RenamedHolds
<1>6. fs' = [fs EXCEPT ![At(call.src).filesystem] = t]
  BY DEF RenameSrc, ChangesAt
<1> HIDE DEF t
<1>7. HasData(fs', call.dst, call.held)
  BY <1>1, <1>2, <1>5, <1>6, ThisFsHolds
<1>8. QED
  BY <1>1, <1>7 DEF Safe

LEMMA OthersSafe ==
  ASSUME Inv, CopyCall(call), Situated(call), Moves,
         NEW place \in OtherFiles, Others(place[1], place[2]),
         OwnPlaces \cap call'.touched = {}
  PROVE  Safe
<1> DEFINE here == <<place[1], place[2]>>
<1>1. call' = [call EXCEPT !.touched = @ \cup {here}, !.before = None]
  BY DEF Others, CopyCall, CopyPcs
<1>2. here \in call'.touched
  BY <1>1 DEF CopyCall
<1>3. /\ Located(call.src) => Place(call.src) # here
      /\ Located(call.dst) => Place(call.dst) # here
  BY <1>2 DEF OwnPlaces
<1>4. /\ call'.pc = call.pc /\ call'.data = call.data /\ call'.held = call.held
      /\ call'.src = call.src /\ call'.dst = call.dst
  BY <1>1 DEF CopyCall
<1>5. HasData(fs', call.src, call.held)
  BY <1>3, OthersHold DEF Moves, MovesAt
<1>6. /\ call.pc = "write" => HasData(fs', call.dst, <<>>)
      /\ call.pc = "rm" => HasData(fs', call.dst, call.held)
  BY <1>3, OthersHold DEF Moves, MovesAt, Situated
<1>7. QED
  BY <1>4, <1>5, <1>6 DEF Safe, Moves, MovesAt

LEMMA CopyFailsSafe ==
  ASSUME Moves, CopyFails
  PROVE  Safe
  BY DEF Moves, MovesAt, CopyFails, AfterFailure, Return, vars, Safe

(* Every step of mv, alone with its two files, keeps the data somewhere. *)
LEMMA MvStepSafe ==
  ASSUME SharedInv, CopyCall(call), CaseSensitive, ~ ShortWrites, NoAlias, call.mv, Moves,
         SharedNext, call' # Idle => OwnPlaces \cap call'.touched = {}
  PROVE  Safe
<1>1. Inv /\ Situated(call)
  BY DEF SharedInv, SituatedCall
<1>2. call # Idle /\ call.pc \notin {"idle", "sync"}
  BY DEF CopyCall, CopyPcs, Idle
<1>3. CASE CallStep
  <2>1. ~ SyncMount /\ ~ SyncReturns
    BY <1>2 DEF SyncMount, SyncReturns
  <2>2. QED
    BY <1>1, <1>3, <2>1, CopyFailsSafe, StatSrcSafe, ReadSrcSafe, StatDstSafe, EmptyDstSafe,
       WriteDstSafe, RmSrcSafe, RenameSrcSafe DEF CallStep
<1>4. ASSUME NEW place \in OtherFiles, Others(place[1], place[2])
      PROVE  Safe
  <2>1. call' # Idle
    BY <1>2, <1>4 DEF Others, CopyCall, Idle, CopyPcs
  <2>2. QED
    BY <1>1, <1>4, <2>1, OthersSafe
<1>5. QED
  BY <1>2, <1>3, <1>4 DEF SharedNext, BeginCopy, BeginSync
LEMMA BeginsSafe ==
  ASSUME BeginCopy, Alone'
  PROVE  Moves'
<1>1. PICK pair \in CopyPairs, mv \in BOOLEAN : call' = Begins(pair[1], pair[2], mv)
  BY DEF BeginCopy
<1> DEFINE src == pair[1]
           dst == pair[2]
<1>2. Borrowed /\ fs' = fs
  BY DEF BeginCopy, vars, Borrowed
<1>3. call'.mv /\ call'.held # None
  BY DEF Alone
<1>4. /\ call'.mv = mv /\ call'.src = src /\ call'.dst = dst
      /\ call'.pc = IF mv /\ SameMount(src, dst) THEN "rename" ELSE "stat"
      /\ call'.held = IF Located(src) /\ HasFile(TreeAt(src), At(src).relative_path)
                        THEN DataAt(src) ELSE None
  BY <1>1 DEF Begins
<1> HIDE DEF src, dst
<1>5. Located(src) /\ HasFile(TreeAt(src), At(src).relative_path) /\ call'.held = DataAt(src)
  BY <1>3, <1>4
<1>6. HasData(fs, src, call'.held)
  BY <1>5 DEF HasData, DataAt, TreeAt
<1>7. call'.pc = IF SameMount(src, dst) THEN "rename" ELSE "stat"
  BY <1>3, <1>4
<1>8. MovesAt(call', fs')
  BY <1>2, <1>4, <1>5, <1>6, <1>7 DEF MovesAt
<1>9. QED
  BY <1>2, <1>8, MovesNext

(* Others' changes add up. *)
LEMMA TouchedGrows ==
  ASSUME CopyCall(call), [SharedNext]_sharedVars, call' # Idle
  PROVE  call.touched \subseteq call'.touched
<1>1. call # Idle /\ call.pc \notin {"idle", "sync"}
  BY DEF CopyCall, CopyPcs, Idle
<1>2. CASE UNCHANGED sharedVars
  BY <1>2 DEF sharedVars
<1>3. CASE CallStep
  BY <1>1, <1>3 DEF CallStep, CopyFails, AfterFailure, Return, SyncMount, SyncReturns,
     StatSrc, ReadSrc, StatDst, TruncateDst, CreateDst, WriteDst, RmSrc, RenameSrc,
     Goto, CopyCall
<1>4. ASSUME NEW place \in OtherFiles, Others(place[1], place[2])
      PROVE  call.touched \subseteq call'.touched
  BY <1>1, <1>4 DEF Others, CopyCall
<1>5. QED
  BY <1>1, <1>2, <1>3, <1>4 DEF SharedNext, BeginCopy, BeginSync

LEMMA OwnPlacesKept ==
  ASSUME Borrowed, CopyCall(call), call'.src = call.src, call'.dst = call.dst
  PROVE  OwnPlaces' = OwnPlaces
  BY DEF Borrowed, OwnPlaces, Place, At, Located, Abs

LEMMA MvSafeStep ==
  ASSUME SharedInv, MvSafe, CaseSensitive, ~ ShortWrites, [SharedNext]_sharedVars
  PROVE  MvSafe'
<1> SUFFICES ASSUME CopyCall(call)', Alone' PROVE Moves'
  BY DEF MvSafe
<1>1. call'.pc \in CopyPcs /\ call' # Idle
  BY DEF CopyCall, CopyPcs, Idle
<1>2. CASE ~ CopyCall(call)
  BY <1>2, OnlyBegins, BeginsSafe DEF SharedInv
<1>3. CASE CopyCall(call)
  <2>1. /\ Borrowed /\ call'.src = call.src /\ call'.dst = call.dst
        /\ call'.mv = call.mv /\ call'.held = call.held
    BY <1>1, <1>3, RunningStep
  <2>2. OwnPlaces' = OwnPlaces /\ call.touched \subseteq call'.touched
    BY <1>1, <1>3, <2>1, OwnPlacesKept, TouchedGrows
  <2>3. OwnPlaces \cap call'.touched = {}
    BY <2>2 DEF Alone
  <2>4. Alone
    <3>1. NoAlias
      BY <2>1 DEF Alone, NoAlias, Borrowed
    <3>2. call.mv /\ call.held # None
      BY <2>1 DEF Alone
    <3>3. QED
      BY <2>2, <2>3, <3>1, <3>2 DEF Alone
  <2>5. Moves
    BY <1>3, <2>4 DEF MvSafe
  <2>6. CASE UNCHANGED sharedVars
    BY <2>1, <2>5, <2>6, MovesNext DEF sharedVars, vars, Moves
  <2>7. CASE SharedNext
    <3>1. Safe
      BY <1>3, <2>3, <2>4, <2>5, <2>7, MvStepSafe DEF Alone
    <3>2. MovesAt(call', fs')
      BY <1>1, <3>1 DEF Safe
    <3>3. QED
      BY <2>1, <3>2, MovesNext
  <2>8. QED
    BY <2>6, <2>7
<1>4. QED
  BY <1>2, <1>3

(* mv of a file never loses it: between any two of its filesystem calls, and *)
(* when one of them fails, the data of src is still at src or already at dst. *)
THEOREM SharedMvKeepsData == SharedSpec => MvKeepsData
<1> DEFINE DataKept == /\ CaseSensitive /\ ~ ShortWrites /\ NoAlias
                    /\ Copying /\ call.mv /\ call.held # None
                    /\ OwnPlaces \cap (Touched(call) \cup Touched(call')) = {}
                    => HasData(fs', call.src, call.held) \/ HasData(fs', call.dst, call.held)
<1>1. SharedInit => (CaseSensitive /\ ~ ShortWrites => MvSafe)
  BY DEF SharedInit, MvSafe, CopyCall, CopyPcs, Idle
<1>2. SharedInv /\ (CaseSensitive /\ ~ ShortWrites => MvSafe) /\ [SharedNext]_sharedVars
        => (CaseSensitive /\ ~ ShortWrites => MvSafe)'
  BY MvSafeStep
<1>3. ASSUME SharedInv, CaseSensitive /\ ~ ShortWrites => MvSafe, [SharedNext]_sharedVars
      PROVE  [DataKept]_sharedVars
  <2> SUFFICES ASSUME CaseSensitive, ~ ShortWrites, NoAlias, Copying, call.mv,
                      call.held # None, SharedNext,
                      OwnPlaces \cap (Touched(call) \cup Touched(call')) = {}
               PROVE  HasData(fs', call.src, call.held) \/ HasData(fs', call.dst, call.held)
    BY <1>3
  <2>1. CopyCall(call) /\ call.pc # "idle"
    BY <1>3, CopyingIsCopy DEF SharedInv, Copying
  <2>2. OwnPlaces \cap call.touched = {}
    BY <2>1 DEF Touched
  <2>3. Moves
    BY <1>3, <2>1, <2>2 DEF MvSafe, Alone
  <2>4. call' # Idle => OwnPlaces \cap call'.touched = {}
    <3> SUFFICES ASSUME call' # Idle PROVE OwnPlaces \cap call'.touched = {}
      OBVIOUS
    <3>1. call'.pc # "idle"
      BY <1>3, SharedStep, CopyingIsCopy DEF SharedInv, CallOK, CopyCall, SyncCall, CopyPcs
    <3>2. QED
      BY <3>1 DEF Touched
  <2>5. Safe
    BY <1>3, <2>1, <2>3, <2>4, MvStepSafe
  <2>6. QED
    BY <2>5 DEF Safe, MovesAt
<1> HIDE DEF DataKept
<1>4. SharedInit /\ [][SharedNext]_sharedVars /\ []SharedInv => [][DataKept]_sharedVars
  BY <1>1, <1>2, <1>3, PTL
<1>5. QED
  BY <1>4, SharedInvariant, PTL DEF SharedSpec, MvKeepsData, DataKept
=============================================================================
