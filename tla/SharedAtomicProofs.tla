------------------------- MODULE SharedAtomicProofs -------------------------
(***************************************************************************)
(* A call that nobody disturbs is one step of Vfs: AtomicWhenAlone, for    *)
(* any mounts, filesystems and arguments.  Whole is Vfs with the           *)
(* filesystems as a caller sees them; its operators on paths, mounts and   *)
(* trees are those of Vfs itself.                                          *)
(***************************************************************************)
EXTENDS SharedCallsProofs

-----------------------------------------------------------------------------
(* The operators of Whole.                                                 *)

(* The lexical operators do not depend on the filesystems.                 *)
LEMMA WholeNormalize ==
  ASSUME NEW p
  PROVE  Whole!Normalize(p) = Normalize(p)
  BY Zenon DEF Normalize, Components, Pushed, PushComponent, Front, IsAbsolute, Root,
     Whole!Normalize, Whole!Components, Whole!Pushed, Whole!PushComponent, Whole!Front,
     Whole!IsAbsolute, Whole!Root

(* An argument means the same path to Whole.                               *)
LEMMA WholeAbs ==
  ASSUME NEW arg
  PROVE  Whole!Abs(arg) = Abs(arg)
<1>1. Whole!Join(cwd, arg) = Join(cwd, arg) /\ (Whole!IsAbsolute(arg) <=> IsAbsolute(arg))
  BY Zenon DEF Join, Last, Front, IsAbsolute, 
     Whole!Join, Whole!Last, Whole!Front, Whole!IsAbsolute
<1>2. QED
  BY <1>1, WholeNormalize, Zenon DEF Abs, ResolvePath, Whole!Abs, Whole!ResolvePath

(* The mount table is the same to Whole.                                   *)
LEMMA WholeResolve ==
  ASSUME NEW p
  PROVE  /\ Whole!CanResolve(mounts, p) <=> CanResolve(mounts, p)
         /\ Whole!Resolve(mounts, p) = Resolve(mounts, p)
         /\ Whole!FindMountIndex(mounts, p) = FindMountIndex(mounts, p)
<1>1. ASSUME NEW q, NEW r
      PROVE  Whole!StartsWith(q, r) <=> StartsWith(q, r)
  BY Zenon DEF StartsWith, Whole!StartsWith
<1>2. \A S : Whole!Min(S) = Min(S)
  BY Zenon DEF Min, Whole!Min
<1>3. ASSUME NEW m, NEW q
      PROVE  Whole!Matches(m, q) <=> Matches(m, q)
  BY Zenon DEF Matches, StartsWith, EndsAtBoundary, IsPrefix, Fold, Root,
     Whole!Matches, Whole!StartsWith, Whole!EndsAtBoundary, Whole!IsPrefix, Whole!Fold, Whole!Root
<1>4. ASSUME NEW q, NEW r
      PROVE  Whole!StripPrefix(q, r) = StripPrefix(q, r)
  BY Zenon DEF StripPrefix, StartsWith, NoPath, Root, Min, 
     Whole!StripPrefix, Whole!StartsWith, Whole!NoPath, Whole!Root, Whole!Min
<1>5. Whole!Owners(mounts, p) = Owners(mounts, p)
  <2>1. \A i \in DOMAIN mounts :
          Whole!Matches(mounts[i], Normalize(p)) <=> Matches(mounts[i], Normalize(p))
    BY <1>3
  <2>2. QED
    BY <2>1, WholeNormalize DEF Owners, Whole!Owners
<1>6. Whole!FindMountIndex(mounts, p) = FindMountIndex(mounts, p)
  BY Zenon DEF FindMountIndex, Covers, StartsWith, EndsAtBoundary, IsPrefix, Root, NoIndex, Min,
     Whole!FindMountIndex, Whole!Covers, Whole!StartsWith, Whole!EndsAtBoundary, Whole!IsPrefix,
     Whole!Root, Whole!NoIndex, Whole!Min
<1>7. Whole!OwnerIndex(mounts, p) = OwnerIndex(mounts, p)
  BY <1>2, <1>5, Zenon DEF OwnerIndex, Whole!OwnerIndex
<1>8. ASSUME NEW m, NEW q
      PROVE  Whole!RelativeTo(m, q) = RelativeTo(m, q)
  BY <1>4, Zenon DEF RelativeTo, Root, NoPath, Whole!RelativeTo, Whole!Root, Whole!NoPath
<1>9. Whole!Resolve(mounts, p) = Resolve(mounts, p)
  BY <1>7, <1>8, WholeNormalize, Zenon DEF Resolve, Whole!Resolve
<1>10. QED
  BY <1>5, <1>6, <1>9, Zenon DEF CanResolve, Whole!CanResolve

(* An argument lies at the same place, in the tree that the caller sees.   *)
LEMMA WholeAt ==
  ASSUME NEW arg
  PROVE  /\ Whole!Located(arg) <=> Located(arg)
         /\ Whole!At(arg) = At(arg)
         /\ \A other : Whole!SameMount(arg, other) <=> SameMount(arg, other)
         /\ Whole!TreeAt(arg) = Visible[At(arg).filesystem]
  BY WholeAbs, WholeResolve, Zenon DEF Located, At, SameMount,
     Whole!Located, Whole!At, Whole!SameMount, Whole!TreeAt

(* What a filesystem call makes of a tree is the same to Whole.            *)
LEMMA WholeTrees ==
  ASSUME NEW t, NEW p
  PROVE  /\ Whole!HasFile(t, p) <=> HasFile(t, p)
         /\ Whole!CanAdd(t, p) <=> CanAdd(t, p)
         /\ \A q : Whole!CanRename(t, p, q) <=> CanRename(t, p, q)
         /\ \A q : Whole!Renamed(t, p, q) = Renamed(t, p, q)
         /\ \A node : Whole!Put(t, p, node) = Put(t, p, node)
         /\ Whole!Removed(t, p) = Removed(t, p)
         /\ \A n : Whole!WriteLens(n) = WriteLens(n)
<1>1. ASSUME NEW q
      PROVE  Whole!Parent(q) = Parent(q)
  BY Zenon DEF Parent, NoPath, Normalize, Components, Pushed, PushComponent, Front,
     IsAbsolute, Root,
     Whole!Parent, Whole!NoPath, Whole!Normalize, Whole!Components, Whole!Pushed,
     Whole!PushComponent, Whole!Front, Whole!IsAbsolute, Whole!Root
<1>2. ASSUME NEW q PROVE Whole!CanAdd(t, q) <=> CanAdd(t, q)
  BY <1>1, Zenon DEF CanAdd, HasDir, Whole!CanAdd, Whole!HasDir
<1>3. \A q : Whole!CanRename(t, p, q) <=> CanRename(t, p, q)
  BY <1>2, Zenon DEF CanRename, Whole!CanRename, HasFile, Whole!HasFile, Root, Whole!Root,
    Below, Whole!Below, IsStrictPrefix, Whole!IsStrictPrefix, IsPrefix, Whole!IsPrefix
<1>4. \A q : Whole!Renamed(t, p, q) = Renamed(t, p, q)
  BY Zenon DEF Renamed, Whole!Renamed, 
    Below, Whole!Below, IsStrictPrefix, Whole!IsStrictPrefix, IsPrefix, Whole!IsPrefix
<1>5. QED
  BY <1>2, <1>3, <1>4, Zenon DEF HasFile, Whole!HasFile, Put, Whole!Put, Removed, Whole!Removed,
    WriteLens, Whole!WriteLens

-----------------------------------------------------------------------------
(* The filesystems b as cp and mv see them: the file at an argument, what  *)
(* cp needs to go ahead, and what it leaves after n bytes.                 *)
HasIn(b, arg) == HasFile(b[At(arg).filesystem], At(arg).relative_path)

DataIn(b, arg) == b[At(arg).filesystem][At(arg).relative_path].data

CanCopyIn(b, src, dst) ==
  /\ Located(src)
  /\ HasIn(b, src)
  /\ Located(dst)
  /\ ~ At(dst).read_only
  /\ HasIn(b, dst) \/ CanAdd(b[At(dst).filesystem], At(dst).relative_path)

FileOfBytes(data) == [type |-> "file", data |-> data]

CopiedIn(b, src, dst, n) ==
  [b EXCEPT ![At(dst).filesystem] =
     Put(@, At(dst).relative_path, FileOfBytes(SubSeq(DataIn(b, src), 1, n)))]

MovedIn(b, src, dst, n) ==
  [CopiedIn(b, src, dst, n) EXCEPT ![At(src).filesystem] =
     Removed(@, At(src).relative_path)]

CanRenameIn(b, src, dst) ==
  /\ Located(src)
  /\ ~ At(src).read_only
  /\ Located(dst)
  /\ CanRename(b[At(src).filesystem], At(src).relative_path, At(dst).relative_path)

RenamedIn(b, src, dst) ==
  [b EXCEPT ![At(src).filesystem] =
     Renamed(@, At(src).relative_path, At(dst).relative_path)]

(* How far a call has come whose filesystems nobody else has touched since *)
(* it began: what it has read and what it has done to them by then.        *)
UntouchedAt(c, fsv) ==
  LET b == c.before
  IN  /\ TreesOK(b)
      /\ c.pc = "rename" <=> c.mv /\ SameMount(c.src, c.dst)
      /\ c.pc \notin {"write", "rm"} => fsv = b
      /\ c.pc \notin {"stat", "rename"} => Located(c.src) /\ HasIn(b, c.src)
      /\ c.pc = "read" => Len(c.data) = Len(DataIn(b, c.src))
      /\ c.pc \in {"probe", "truncate", "create", "write", "rm"} =>
           c.data = DataIn(b, c.src)
      /\ c.pc \in {"truncate", "create"} => Located(c.dst) /\ ~ At(c.dst).read_only
      /\ c.pc \in {"write", "rm"} => CanCopyIn(b, c.src, c.dst)
      /\ c.pc = "write" => fsv = CopiedIn(b, c.src, c.dst, 0)
      /\ c.pc = "rm" =>
           c.mv /\ \E n \in WriteLens(Len(c.data)) : fsv = CopiedIn(b, c.src, c.dst, n)

UntouchedCall == CopyCall(call) /\ call.touched = {} => UntouchedAt(call, fs)

(* The steps of Whole, as what they do to the filesystems that a caller    *)
(* sees.                                                                   *)
LEMMA WholeSteps ==
  ASSUME NEW src, NEW dst
  PROVE  /\ Whole!Cp(src, dst) <=>
              /\ CanCopyIn(Visible, src, dst)
              /\ \E n \in WriteLens(Len(DataIn(Visible, src))) :
                   Visible' = CopiedIn(Visible, src, dst, n)
              /\ Borrowed
         /\ Whole!CpFails(src, dst) <=>
              /\ CanCopyIn(Visible, src, dst)
              /\ Visible' = CopiedIn(Visible, src, dst, 0)
              /\ Borrowed
         /\ Whole!MvRename(src, dst) <=>
              /\ SameMount(src, dst) /\ CanRenameIn(Visible, src, dst)
              /\ Visible' = RenamedIn(Visible, src, dst)
              /\ Borrowed
         /\ Whole!MvCopy(src, dst) <=>
              /\ ~ SameMount(src, dst) /\ CanCopyIn(Visible, src, dst)
              /\ ~ At(src).read_only
              /\ \E n \in WriteLens(Len(DataIn(Visible, src))) :
                   Visible' = MovedIn(Visible, src, dst, n)
              /\ Borrowed
         /\ Whole!MvFails(src, dst) <=>
              ~ SameMount(src, dst) /\ (Whole!CpFails(src, dst) \/ Whole!Cp(src, dst))
<1>1. Whole!CanCopy(src, dst) <=> CanCopyIn(Visible, src, dst)
  BY WholeAt, WholeTrees, Zenon DEF Whole!CanCopy, CanCopyIn, HasIn
<1>2. Whole!DataAt(src) = DataIn(Visible, src)
  BY WholeAt, Zenon DEF Whole!DataAt, DataIn
<1>3. ASSUME NEW n
      PROVE  Whole!Copied(src, dst, n) = CopiedIn(Visible, src, dst, n)
  BY <1>2, WholeAt, WholeTrees, Zenon DEF Whole!Copied, CopiedIn, FileOfBytes
<1>4. \A n : Whole!WriteLens(n) = WriteLens(n)
  BY WholeTrees, Zenon
<1>5. (UNCHANGED <<mounts, open_files, cwd>>) <=> Borrowed
  BY DEF Borrowed
<1>6. Whole!Cp(src, dst) <=>
        /\ CanCopyIn(Visible, src, dst)
        /\ \E n \in WriteLens(Len(DataIn(Visible, src))) :
             Visible' = CopiedIn(Visible, src, dst, n)
        /\ Borrowed
  BY <1>1, <1>2, <1>3, <1>4, <1>5, Zenon DEF Whole!Cp
<1>7. Whole!CpFails(src, dst) <=>
        /\ CanCopyIn(Visible, src, dst)
        /\ Visible' = CopiedIn(Visible, src, dst, 0)
        /\ Borrowed
  BY <1>1, <1>3, <1>5, Zenon DEF Whole!CpFails
<1>8. Whole!MvRename(src, dst) <=>
        /\ SameMount(src, dst) /\ CanRenameIn(Visible, src, dst)
        /\ Visible' = RenamedIn(Visible, src, dst)
        /\ Borrowed
  <2>1. Whole!At(src) = At(src) /\ Whole!At(dst) = At(dst)
    BY WholeAt, Zenon
  <2>2. ASSUME NEW t, NEW p, NEW q
        PROVE  Whole!Renamed(t, p, q) = Renamed(t, p, q)
    BY WholeTrees, Zenon
  <2>3. [Visible EXCEPT ![Whole!At(src).filesystem] =
            Whole!Renamed(@, Whole!At(src).relative_path, Whole!At(dst).relative_path)]
          = RenamedIn(Visible, src, dst)
    BY <2>1, <2>2, Zenon DEF RenamedIn
  <2>4. Whole!CanRename(Whole!TreeAt(src), Whole!At(src).relative_path,
                        Whole!At(dst).relative_path)
          <=> CanRename(Visible[At(src).filesystem], At(src).relative_path,
                        At(dst).relative_path)
    BY <2>1, WholeAt, WholeTrees, Zenon
  <2>5. /\ Whole!SameMount(src, dst) <=> SameMount(src, dst)
        /\ Whole!Located(src) <=> Located(src)
        /\ Whole!Located(dst) <=> Located(dst)
    BY WholeAt, Zenon
  <2>6. QED
    BY <1>5, <2>1, <2>3, <2>4, <2>5, Zenon DEF Whole!MvRename, CanRenameIn
<1>9. Whole!MvCopy(src, dst) <=>
        /\ ~ SameMount(src, dst) /\ CanCopyIn(Visible, src, dst)
        /\ ~ At(src).read_only
        /\ \E n \in WriteLens(Len(DataIn(Visible, src))) :
             Visible' = MovedIn(Visible, src, dst, n)
        /\ Borrowed
  <2>1. Whole!At(src) = At(src)
    BY WholeAt, Zenon
  <2>2. ASSUME NEW t, NEW p
        PROVE  Whole!Removed(t, p) = Removed(t, p)
    BY WholeTrees, Zenon
  <2>3. ASSUME NEW n
        PROVE  [Whole!Copied(src, dst, n) EXCEPT ![Whole!At(src).filesystem] =
                  Whole!Removed(@, Whole!At(src).relative_path)]
                 = MovedIn(Visible, src, dst, n)
    BY <1>3, <2>1, <2>2, Zenon DEF MovedIn
  <2>4. Whole!SameMount(src, dst) <=> SameMount(src, dst)
    BY WholeAt, Zenon
  <2>5. QED
    BY <1>1, <1>2, <1>4, <1>5, <2>1, <2>3, <2>4, Zenon DEF Whole!MvCopy
<1>10. Whole!MvFails(src, dst) <=>
         ~ SameMount(src, dst) /\ (Whole!CpFails(src, dst) \/ Whole!Cp(src, dst))
  BY WholeAt, Zenon DEF Whole!MvFails
<1>11. QED
  BY <1>6, <1>7, <1>8, <1>9, <1>10, Zenon

-----------------------------------------------------------------------------
(* What the filesystem calls of a copy do to a tree.                       *)

(* A file truncated is a new empty file at its path.                       *)
LEMMA TruncatedIsPut ==
  ASSUME NEW t, IsTree(t), NEW p, HasFile(t, p)
  PROVE  Truncated(t, p) = Put(t, p, FileOfBytes(<<>>))
<1>1. t = [q \in DOMAIN t |-> t[q]] /\ p \in DOMAIN t /\ t[p] \in Node /\ t[p].type = "file"
  BY DEF HasFile, IsTree
<1>2. [t[p] EXCEPT !.data = <<>>] = FileOfBytes(<<>>)
  BY <1>1 DEF Node, FileOfBytes
<1>3. Truncated(t, p) = [t EXCEPT ![p] = FileOfBytes(<<>>)]
  BY <1>1, <1>2 DEF Truncated
<1> DEFINE e == FileOfBytes(<<>>)
<1> HIDE DEF e
<1>4. DOMAIN t \cup {p} = DOMAIN t
  BY <1>1
<1>5. [t EXCEPT ![p] = e] = [q \in DOMAIN t |-> IF q = p THEN e ELSE t[q]]
  BY <1>1
<1>6. QED
  BY <1>3, <1>4, <1>5 DEF Put, e

(* A write at the start of an empty file makes the file of those bytes.    *)
LEMMA WrittenIsPut ==
  ASSUME NEW t, NEW p, NEW bytes \in Data
  PROVE  Written(Put(t, p, FileOfBytes(<<>>)), p, 0, bytes) = Put(t, p, FileOfBytes(bytes))
<1> DEFINE e == FileOfBytes(<<>>)
           u == Put(t, p, e)
           g == FileOfBytes(bytes)
<1>1. [e EXCEPT !.data = Overwrite(e.data, 0, bytes)] = g
  BY OverwriteEmpty DEF FileOfBytes
<1> HIDE DEF e, g
<1>2. u = [q \in DOMAIN t \cup {p} |-> IF q = p THEN e ELSE t[q]]
  BY DEF Put
<1>3. p \in DOMAIN u /\ u[p] = e
  BY <1>2
<1>4. Written(u, p, 0, bytes) = [u EXCEPT ![p] = g]
  BY <1>1, <1>3 DEF Written
<1>5. [u EXCEPT ![p] = g] = [q \in DOMAIN t \cup {p} |-> IF q = p THEN g ELSE t[q]]
  BY <1>2
<1>6. QED
  BY <1>4, <1>5 DEF Put, e, g

(* The data of a file in well-formed trees is data, and fits into a file.  *)
LEMMA DataInType ==
  ASSUME Inv, NEW b, TreesOK(b), NEW arg, Located(arg), HasIn(b, arg)
  PROVE  /\ DataIn(b, arg) \in Data
         /\ DataIn(b, arg) \in Seq(Bytes \cup {Zero})
         /\ Len(DataIn(b, arg)) \in Nat /\ Len(DataIn(b, arg)) <= MaxFileSize
<1>1. At(arg).filesystem \in Filesystems
  BY LocatedAt
<1>2. IsTree(b[At(arg).filesystem])
  BY <1>1 DEF TreesOK
<1>3. DataIn(b, arg) \in Data
  BY <1>2 DEF HasIn, HasFile, IsTree, DataIn, Node
<1>4. QED
  BY <1>3, DataLength

(* Nothing is copied of a file yet: the destination is there and is empty. *)
LEMMA NothingCopied ==
  ASSUME Inv, NEW b, TreesOK(b), NEW src, Located(src), HasIn(b, src), NEW dst
  PROVE  CopiedIn(b, src, dst, 0) =
           [b EXCEPT ![At(dst).filesystem] =
              Put(@, At(dst).relative_path, FileOfBytes(<<>>))]
<1>1. SubSeq(DataIn(b, src), 1, 0) = <<>>
  BY DataInType
<1>2. QED
  BY <1>1 DEF CopiedIn

(* Writing n bytes into the empty destination.                             *)
LEMMA WrittenIsCopied ==
  ASSUME Inv, NEW b, TreesOK(b), NEW src, Located(src), HasIn(b, src),
         NEW dst, Located(dst),
         NEW n \in WriteLens(Len(DataIn(b, src))),
         NEW c, c = CopiedIn(b, src, dst, 0)
  PROVE  [c EXCEPT ![At(dst).filesystem] =
            Written(@, At(dst).relative_path, 0, SubSeq(DataIn(b, src), 1, n))]
           = CopiedIn(b, src, dst, n)
<1> DEFINE f == At(dst).filesystem
           p == At(dst).relative_path
           bytes == SubSeq(DataIn(b, src), 1, n)
           empty == Put(b[f], p, FileOfBytes(<<>>))
           full == Put(b[f], p, FileOfBytes(bytes))
<1>1. f \in Filesystems /\ f \in DOMAIN b
  BY LocatedAt DEF TreesOK
<1>2. bytes \in Data
  <2>1. /\ DataIn(b, src) \in Seq(Bytes \cup {Zero}) /\ Len(DataIn(b, src)) \in Nat
        /\ Len(DataIn(b, src)) <= MaxFileSize
    BY DataInType
  <2>2. n \in 0..Len(DataIn(b, src))
    BY <2>1, WriteLensBound
  <2>3. n <= MaxFileSize
    BY <2>1, <2>2, BoundsAssumption DEF Positions
  <2>4. QED
    BY <2>1, <2>2, <2>3, PrefixIsData
<1>3. c = [b EXCEPT ![f] = empty]
  BY NothingCopied
<1>4. CopiedIn(b, src, dst, n) = [b EXCEPT ![f] = full]
  BY DEF CopiedIn
<1> HIDE DEF f, p, bytes
<1>5. Written(empty, p, 0, bytes) = full
  BY <1>2, WrittenIsPut
<1> HIDE DEF empty, full
<1>6. c[f] = empty
  BY <1>1, <1>3
<1>7. [c EXCEPT ![f] = Written(@, p, 0, bytes)] = [c EXCEPT ![f] = full]
  BY <1>5, <1>6
<1>8. [c EXCEPT ![f] = full] = [b EXCEPT ![f] = full]
  BY <1>3
<1>9. QED
  BY <1>4, <1>7, <1>8 DEF f, p, bytes

-----------------------------------------------------------------------------
(* The steps of a call.                                                    *)

(* A copy goes on; the fields that every step of it leaves as they are.    *)
SameCall ==
  /\ call'.src = call.src /\ call'.dst = call.dst /\ call'.mv = call.mv
  /\ call'.before = call.before /\ call'.touched = call.touched
  /\ call'.pc \in CopyPcs

(* A call that only goes on keeps its arguments and its buffer.            *)
LEMMA GoneToSame ==
  ASSUME CopyCall(call), NEW pc \in CopyPcs, Goto(pc)
  PROVE  SameCall /\ call'.pc = pc /\ call'.data = call.data
  BY DEF CopyCall, Goto, SameCall

(* stat of src: the buffer has the length of the file that was there       *)
(* before.                                                                 *)
LEMMA StatSrcUntouched ==
  ASSUME Inv, CopyCall(call), UntouchedAt(call, fs), StatSrc
  PROVE  SameCall /\ UntouchedAt(call', fs')
<1> DEFINE buffer == [i \in 1..Len(DataAt(call.src)) |-> Zero]
<1>1. /\ call.pc = "stat" /\ Located(call.src)
      /\ HasFile(TreeAt(call.src), At(call.src).relative_path)
      /\ call' = [call EXCEPT !.pc = "read", !.data = buffer] /\ fs' = fs
  BY DEF StatSrc, vars
<1>2. Len(DataAt(call.src)) \in Nat
  BY <1>1, DataAtType
<1>3. Len(buffer) = Len(DataAt(call.src))
  BY <1>2
<1> HIDE DEF buffer
<1>4. SameCall /\ call'.pc = "read" /\ call'.data = buffer
  BY <1>1 DEF CopyCall, SameCall, CopyPcs
<1>5. fs = call.before /\ TreesOK(call.before)
  BY <1>1 DEF UntouchedAt
<1>6. ~ (call.mv /\ SameMount(call.src, call.dst))
  BY <1>1 DEF UntouchedAt
<1>7. HasIn(call.before, call.src) /\ DataAt(call.src) = DataIn(call.before, call.src)
  BY <1>1, <1>5 DEF HasIn, DataAt, DataIn, TreeAt
<1>8. QED
  BY <1>1, <1>3, <1>4, <1>5, <1>6, <1>7 DEF UntouchedAt, SameCall

(* read of src: the buffer is the file that was there before.              *)
LEMMA ReadSrcUntouched ==
  ASSUME Inv, CopyCall(call), UntouchedAt(call, fs), ReadSrc
  PROVE  SameCall /\ UntouchedAt(call', fs')
<1> DEFINE now == DataAt(call.src)
           buffer == [i \in DOMAIN call.data |-> IF i <= Len(now) THEN now[i] ELSE Zero]
<1>1. /\ call.pc = "read" /\ call' = [call EXCEPT !.pc = "probe", !.data = buffer]
      /\ fs' = fs
  BY DEF ReadSrc, vars, CopyCall
<1>2. /\ fs = call.before /\ TreesOK(call.before) /\ Located(call.src)
      /\ HasIn(call.before, call.src) /\ Len(call.data) = Len(DataIn(call.before, call.src))
      /\ ~ (call.mv /\ SameMount(call.src, call.dst))
  BY <1>1 DEF UntouchedAt
<1>3. now = DataIn(call.before, call.src)
  BY <1>2 DEF DataAt, DataIn, TreeAt
<1>4. now \in Seq(Bytes \cup {Zero}) /\ Len(now) \in Nat
  BY <1>2, <1>3, DataInType
<1>5. DOMAIN call.data = 1..Len(now)
  <2>1. call.data \in Data
    BY DEF CopyCall
  <2>2. QED
    BY <1>2, <1>3, <2>1, DataLength
<1> HIDE DEF now
<1>6. buffer = now
  <2>1. buffer = [i \in 1..Len(now) |-> now[i]]
    BY <1>4, <1>5
  <2>2. QED
    BY <1>4, <2>1
<1> HIDE DEF buffer
<1>7. SameCall /\ call'.pc = "probe" /\ call'.data = now
  BY <1>1, <1>6 DEF CopyCall, SameCall, CopyPcs
<1>8. QED
  BY <1>1, <1>2, <1>3, <1>7 DEF UntouchedAt, SameCall

(* stat of dst changes nothing but the step that comes next.               *)
LEMMA StatDstUntouched ==
  ASSUME CopyCall(call), UntouchedAt(call, fs), StatDst
  PROVE  SameCall /\ UntouchedAt(call', fs')
<1>1. PICK pc \in {"truncate", "create"} : Goto(pc)
  BY DEF StatDst
<1>2. call.pc = "probe" /\ fs' = fs /\ Located(call.dst) /\ ~ At(call.dst).read_only
  BY DEF StatDst, vars
<1>3. SameCall /\ call'.pc = pc /\ call'.data = call.data
  BY <1>1, GoneToSame DEF CopyPcs
<1>4. QED
  BY <1>1, <1>2, <1>3 DEF UntouchedAt, SameCall

(* Truncated or created, dst is an empty file: the trees before, with      *)
(* nothing copied yet.                                                     *)
LEMMA EmptyDstUntouched ==
  ASSUME Inv, CopyCall(call), UntouchedAt(call, fs), TruncateDst \/ CreateDst
  PROVE  SameCall /\ UntouchedAt(call', fs')
<1> DEFINE b == call.before
           f == At(call.dst).filesystem
           p == At(call.dst).relative_path
<1>1. call.pc \in {"truncate", "create"} /\ Goto("write")
  BY DEF TruncateDst, CreateDst
<1>2. SameCall /\ call'.pc = "write" /\ call'.data = call.data
  BY <1>1, GoneToSame DEF CopyPcs
<1>3. /\ fs = b /\ TreesOK(b) /\ Located(call.src) /\ HasIn(b, call.src)
      /\ call.data = DataIn(b, call.src) /\ Located(call.dst) /\ ~ At(call.dst).read_only
      /\ ~ (call.mv /\ SameMount(call.src, call.dst))
  BY <1>1 DEF UntouchedAt
<1>4. IsTree(b[f])
  BY <1>3, LocatedAt DEF TreesOK
<1>5. /\ HasIn(b, call.dst) \/ CanAdd(b[f], p)
      /\ fs' = [b EXCEPT ![f] = Put(@, p, FileOfBytes(<<>>))]
  <2>1. CASE TruncateDst
    <3>1. HasFile(b[f], p) /\ fs' = [b EXCEPT ![f] = Truncated(b[f], p)]
      BY <1>3, <2>1 DEF TruncateDst, ChangesAt, TreeAt
    <3> HIDE DEF b, f, p
    <3>2. Truncated(b[f], p) = Put(b[f], p, FileOfBytes(<<>>))
      BY <1>4, <3>1, TruncatedIsPut
    <3>3. QED
      BY <3>1, <3>2 DEF HasIn, f, p
  <2>2. CASE CreateDst
    BY <1>3, <2>2 DEF CreateDst, ChangesAt, TreeAt, EmptyFile, FileOfBytes
  <2>3. QED
    BY <2>1, <2>2
<1>6. fs' = CopiedIn(b, call.src, call.dst, 0)
  BY <1>3, <1>5, NothingCopied
<1>7. CanCopyIn(b, call.src, call.dst)
  BY <1>3, <1>5 DEF CanCopyIn
<1>8. QED
  BY <1>2, <1>3, <1>6, <1>7 DEF UntouchedAt, SameCall

(* What an undisturbed call has done when it returns.                      *)
Outcome ==
  LET b == call.before
      src == call.src
      dst == call.dst
  IN  \/ fs' = b
      \/ /\ CanCopyIn(b, src, dst)
         /\ call.mv => ~ SameMount(src, dst)
         /\ \/ fs' = CopiedIn(b, src, dst, 0)
            \/ \E n \in WriteLens(Len(DataIn(b, src))) : fs' = CopiedIn(b, src, dst, n)
      \/ /\ call.mv /\ ~ SameMount(src, dst) /\ CanCopyIn(b, src, dst)
         /\ ~ At(src).read_only
         /\ \E n \in WriteLens(Len(DataIn(b, src))) : fs' = MovedIn(b, src, dst, n)
      \/ /\ call.mv /\ SameMount(src, dst) /\ CanRenameIn(b, src, dst)
         /\ fs' = RenamedIn(b, src, dst)

(* The write makes dst the copy: cp returns with the outcome of one step,  *)
(* mv goes on to its rm.                                                   *)
LEMMA WriteDstUntouched ==
  ASSUME Inv, CopyCall(call), UntouchedAt(call, fs), WriteDst
  PROVE  \/ SameCall /\ UntouchedAt(call', fs')
         \/ call' = Idle /\ Outcome
<1> DEFINE b == call.before
           src == call.src
           dst == call.dst
<1>1. call.pc = "write"
  BY DEF WriteDst
<1>2. /\ TreesOK(b) /\ Located(src) /\ HasIn(b, src) /\ call.data = DataIn(b, src)
      /\ CanCopyIn(b, src, dst) /\ fs = CopiedIn(b, src, dst, 0)
      /\ ~ (call.mv /\ SameMount(src, dst))
  BY <1>1 DEF UntouchedAt
<1>3. Located(dst)
  BY <1>2 DEF CanCopyIn
<1>4. PICK n \in WriteLens(Len(DataIn(b, src))) :
        fs' = [fs EXCEPT ![At(dst).filesystem] =
                 Written(@, At(dst).relative_path, 0, SubSeq(DataIn(b, src), 1, n))]
  BY <1>2 DEF WriteDst, ChangesAt, TreeAt
<1>5. fs' = CopiedIn(b, src, dst, n)
  BY <1>2, <1>3, <1>4, WrittenIsCopied
<1>6. CASE call.mv
  <2>1. Goto("rm")
    BY <1>6 DEF WriteDst
  <2>2. SameCall /\ call'.pc = "rm" /\ call'.data = call.data
    BY <2>1, GoneToSame DEF CopyPcs
  <2>3. QED
    BY <1>2, <1>5, <1>6, <2>2 DEF UntouchedAt, SameCall
<1>7. CASE ~ call.mv
  <2>1. call' = Idle
    BY <1>7 DEF WriteDst, Return
  <2>2. QED
    BY <1>2, <1>5, <1>7, <2>1 DEF Outcome
<1>8. QED
  BY <1>6, <1>7

(* The rm of mv returns with the outcome of one step: copied and removed.  *)
LEMMA RmSrcOutcome ==
  ASSUME CopyCall(call), UntouchedAt(call, fs), RmSrc
  PROVE  call' = Idle /\ Outcome
<1> DEFINE b == call.before
           src == call.src
           dst == call.dst
<1>1. call.pc = "rm" /\ call' = Idle /\ ~ At(src).read_only
  BY DEF RmSrc, Return
<1>2. /\ call.mv /\ ~ SameMount(src, dst) /\ CanCopyIn(b, src, dst)
      /\ call.data = DataIn(b, src)
      /\ \E n \in WriteLens(Len(call.data)) : fs = CopiedIn(b, src, dst, n)
  BY <1>1 DEF UntouchedAt
<1>3. PICK n \in WriteLens(Len(DataIn(b, src))) : fs = CopiedIn(b, src, dst, n)
  BY <1>2
<1>4. fs' = MovedIn(b, src, dst, n)
  BY <1>3 DEF RmSrc, ChangesAt, TreeAt, MovedIn
<1>5. QED
  BY <1>1, <1>2, <1>4 DEF Outcome

(* So does the rename of mv within a mount.                                *)
LEMMA RenameSrcOutcome ==
  ASSUME CopyCall(call), UntouchedAt(call, fs), RenameSrc
  PROVE  call' = Idle /\ Outcome
<1>1. call.pc = "rename" /\ call' = Idle
  BY DEF RenameSrc, Return
<1>2. fs = call.before /\ call.mv /\ SameMount(call.src, call.dst)
  BY <1>1 DEF UntouchedAt
<1>3. /\ CanRenameIn(call.before, call.src, call.dst)
      /\ fs' = RenamedIn(call.before, call.src, call.dst)
  BY <1>2 DEF RenameSrc, ChangesAt, TreeAt, CanRenameIn, RenamedIn
<1>4. QED
  BY <1>1, <1>2, <1>3 DEF Outcome

(* A failure ends the call with what it has done by then.                  *)
LEMMA CopyFailsOutcome ==
  ASSUME CopyCall(call), UntouchedAt(call, fs), CopyFails
  PROVE  call' = Idle /\ Outcome
<1>1. call' = Idle /\ fs' = fs
  BY DEF CopyFails, AfterFailure, Return, vars
<1>2. CASE call.pc \notin {"write", "rm"}
  BY <1>1, <1>2 DEF UntouchedAt, Outcome
<1>3. CASE call.pc = "write"
  BY <1>1, <1>3 DEF UntouchedAt, Outcome
<1>4. CASE call.pc = "rm"
  <2>1. /\ call.data = DataIn(call.before, call.src) /\ ~ SameMount(call.src, call.dst)
        /\ CanCopyIn(call.before, call.src, call.dst)
        /\ \E n \in WriteLens(Len(call.data)) :
             fs = CopiedIn(call.before, call.src, call.dst, n)
    BY <1>4 DEF UntouchedAt
  <2>2. QED
    BY <1>1, <2>1 DEF Outcome
<1>5. QED
  BY <1>2, <1>3, <1>4

(* A step of an undisturbed call goes on as UntouchedAt says or ends it.   *)
LEMMA UndisturbedStep ==
  ASSUME Inv, CopyCall(call), UntouchedAt(call, fs), CallStep
  PROVE  \/ SameCall /\ UntouchedAt(call', fs')
         \/ call' = Idle /\ Outcome
<1>1. call.pc \notin {"idle", "sync"}
  BY DEF CopyCall, CopyPcs
<1>2. ~ SyncMount /\ ~ SyncReturns
  BY <1>1 DEF SyncMount, SyncReturns
<1>3. QED
  BY <1>2, StatSrcUntouched, ReadSrcUntouched, StatDstUntouched, EmptyDstUntouched,
     WriteDstUntouched, RmSrcOutcome, RenameSrcOutcome, CopyFailsOutcome DEF CallStep

-----------------------------------------------------------------------------
(* The inductive invariant of an undisturbed call, and what follows.       *)

(* A borrowed Vfs reads the same trees the same way after a step.          *)
LEMMA UntouchedNext ==
  ASSUME Borrowed, UntouchedAt(call', fs')
  PROVE  UntouchedAt(call, fs)'
  BY DEF Borrowed, UntouchedAt, HasIn, DataIn, CanCopyIn, CopiedIn, Located, At, SameMount, Abs

(* A call begins with the trees that it remembers.                         *)
LEMMA BeginsUntouched ==
  ASSUME Inv, BeginCopy
  PROVE  UntouchedAt(call, fs)'
<1>1. PICK pair \in CopyPairs, mv \in BOOLEAN : call' = Begins(pair[1], pair[2], mv)
  BY DEF BeginCopy
<1>2. Borrowed /\ fs' = fs
  BY DEF BeginCopy, vars, Borrowed
<1>3. /\ call'.before = fs /\ call'.mv = mv /\ call'.src = pair[1] /\ call'.dst = pair[2]
      /\ call'.pc = IF mv /\ SameMount(pair[1], pair[2]) THEN "rename" ELSE "stat"
  BY <1>1 DEF Begins
<1>4. TreesOK(fs)
  BY DEF Inv
<1>5. UntouchedAt(call', fs')
  BY <1>2, <1>3, <1>4 DEF UntouchedAt
<1>6. QED
  BY <1>2, <1>5, UntouchedNext

(* A step that another user takes shows in touched.                        *)
LEMMA OthersTouch ==
  ASSUME CopyCall(call), NEW place \in OtherFiles, Others(place[1], place[2])
  PROVE  call' # Idle /\ call'.touched # {} /\ call'.pc = call.pc
<1>1. call' = [call EXCEPT !.touched = @ \cup {<<place[1], place[2]>>}, !.before = None]
  BY DEF Others, CopyCall, CopyPcs
<1>2. QED
  BY <1>1 DEF CopyCall, CopyPcs, Idle

(* Every step keeps UntouchedCall, those of other users included: they     *)
(* mark the call.                                                          *)
LEMMA UntouchedStep ==
  ASSUME SharedInv, UntouchedCall, [SharedNext]_sharedVars
  PROVE  UntouchedCall'
<1> SUFFICES ASSUME CopyCall(call)', call'.touched = {}
             PROVE  UntouchedAt(call, fs)'
  BY DEF UntouchedCall
<1>1. Inv /\ CallOK /\ call' # Idle
  BY DEF SharedInv, CopyCall, CopyPcs, Idle
<1>2. CASE ~ CopyCall(call)
  BY <1>1, <1>2, OnlyBegins, BeginsUntouched
<1>3. CASE CopyCall(call)
  <2>1. Borrowed /\ call.touched = {}
    BY <1>1, <1>3, RunningStep, TouchedGrows
  <2>2. UntouchedAt(call, fs)
    BY <1>3, <2>1 DEF UntouchedCall
  <2>3. CASE UNCHANGED sharedVars
    BY <2>1, <2>2, <2>3, UntouchedNext DEF sharedVars, vars
  <2>4. CASE CallStep
    BY <1>1, <1>3, <2>1, <2>2, <2>4, UndisturbedStep, UntouchedNext
  <2>5. ~ \E place \in OtherFiles : Others(place[1], place[2])
    BY <1>3, OthersTouch
  <2>6. call # Idle
    BY <1>3 DEF CopyCall, CopyPcs, Idle
  <2>7. QED
    BY <2>3, <2>4, <2>5, <2>6 DEF SharedNext, BeginCopy, BeginSync
<1>4. QED
  BY <1>2, <1>3

(* What the property says of a step. *)
OneStep ==
  LET src == call.src
      dst == call.dst
  IN  \/ Visible' = Visible
      \/ ~ call.mv /\ (Whole!Cp(src, dst) \/ Whole!CpFails(src, dst))
      \/ call.mv /\ \/ Whole!MvRename(src, dst)
                    \/ Whole!MvCopy(src, dst)
                    \/ Whole!MvFails(src, dst)

(* Each of the outcomes is a step of Whole.                                *)
LEMMA OutcomeIsOneStep ==
  ASSUME Borrowed, call.mv \in BOOLEAN, Visible = call.before, Visible' = fs', Outcome
  PROVE  OneStep
<1> DEFINE src == call.src
           dst == call.dst
<1>1. CASE Visible' = Visible
  BY <1>1 DEF OneStep
<1>2. CASE /\ CanCopyIn(Visible, src, dst)
           /\ call.mv => ~ SameMount(src, dst)
           /\ \/ Visible' = CopiedIn(Visible, src, dst, 0)
              \/ \E n \in WriteLens(Len(DataIn(Visible, src))) :
                   Visible' = CopiedIn(Visible, src, dst, n)
  <2>1. Whole!Cp(src, dst) \/ Whole!CpFails(src, dst)
    BY <1>2, WholeSteps
  <2>2. call.mv => Whole!MvFails(src, dst)
    BY <1>2, <2>1, WholeSteps
  <2>3. QED
    BY <2>1, <2>2 DEF OneStep
<1>3. CASE /\ call.mv /\ ~ SameMount(src, dst) /\ CanCopyIn(Visible, src, dst)
           /\ ~ At(src).read_only
           /\ \E n \in WriteLens(Len(DataIn(Visible, src))) :
                Visible' = MovedIn(Visible, src, dst, n)
  <2>1. Whole!MvCopy(src, dst)
    BY <1>3, WholeSteps
  <2>2. QED
    BY <1>3, <2>1 DEF OneStep
<1>4. CASE /\ call.mv /\ SameMount(src, dst) /\ CanRenameIn(Visible, src, dst)
           /\ Visible' = RenamedIn(Visible, src, dst)
  <2>1. Whole!MvRename(src, dst)
    BY <1>4, WholeSteps
  <2>2. QED
    BY <1>4, <2>1 DEF OneStep
<1>5. QED
  BY <1>1, <1>2, <1>3, <1>4 DEF Outcome

(* No step of a call changes the tables of the Vfs.                        *)
LEMMA CallStepBorrows ==
  ASSUME CallStep
  PROVE  Borrowed
  BY DEF CallStep, CopyFails, SyncMount, SyncReturns, StatSrc, ReadSrc, StatDst, TruncateDst,
     CreateDst, WriteDst, RmSrc, RenameSrc, ChangesAt, Borrowed, vars

(* A step of an undisturbed call is a stutter of Whole or the whole of the *)
(* call.                                                                   *)
LEMMA AloneIsOneStep ==
  ASSUME SharedInv, UntouchedCall, [SharedNext]_sharedVars,
         Copying, Touched(call) = {}, Touched(call') = {}
  PROVE  OneStep
<1>1. Inv /\ CallOK /\ CopyCall(call)
  BY CopyingIsCopy DEF SharedInv
<1>2. call.pc \in CopyPcs /\ call.mv \in BOOLEAN /\ call # Idle
  BY <1>1 DEF CopyCall, CopyPcs, Idle
<1>3. call.touched = {}
  BY <1>2 DEF Touched, CopyPcs
<1>4. UntouchedAt(call, fs) /\ Visible = call.before
  BY <1>1, <1>3 DEF UntouchedCall, Visible
<1>5. CASE UNCHANGED sharedVars
  BY <1>5 DEF sharedVars, vars, Visible, Copying, OneStep
<1>6. CASE CallStep
  <2>1. CASE SameCall
    <3>1. Copying' /\ call'.touched = {} /\ call'.before = call.before
      BY <1>3, <2>1 DEF SameCall, Copying, CopyPcs
    <3>2. QED
      BY <1>4, <3>1 DEF Visible, OneStep
  <2>2. CASE call' = Idle /\ Outcome
    <3>1. Visible' = fs'
      BY <2>2 DEF Visible, Copying, Idle
    <3>2. QED
      BY <1>2, <1>4, <1>6, <2>2, <3>1, CallStepBorrows, OutcomeIsOneStep
  <2>3. QED
    BY <1>1, <1>4, <1>6, <2>1, <2>2, UndisturbedStep
<1>7. ~ \E place \in OtherFiles : Others(place[1], place[2])
  <2> SUFFICES ASSUME NEW place \in OtherFiles, Others(place[1], place[2])
               PROVE  FALSE
    OBVIOUS
  <2>1. call'.touched # {} /\ call'.pc = call.pc
    BY <1>1, OthersTouch
  <2>2. QED
    BY <1>2, <2>1 DEF Touched, CopyPcs
<1>8. QED
  BY <1>2, <1>5, <1>6, <1>7 DEF SharedNext, BeginCopy, BeginSync

(* cp and mv, filesystem call by filesystem call, are to a caller who is   *)
(* alone with the filesystems exactly the single steps of Vfs: all of the  *)
(* call, or one of the failures that Vfs names for it.                     *)
THEOREM SharedAtomicWhenAlone == SharedSpec => AtomicWhenAlone
<1> DEFINE Atomic == Copying /\ Touched(call) = {} /\ Touched(call') = {} => OneStep
<1>1. SharedInit => UntouchedCall
  BY DEF SharedInit, UntouchedCall, CopyCall, CopyPcs, Idle
<1>2. SharedInv /\ UntouchedCall /\ [SharedNext]_sharedVars => UntouchedCall'
  BY UntouchedStep
<1>3. ASSUME SharedInv, UntouchedCall, [SharedNext]_sharedVars
      PROVE  [Atomic]_sharedVars
  BY <1>3, AloneIsOneStep
<1> HIDE DEF Atomic
<1>4. SharedInit /\ [][SharedNext]_sharedVars /\ []SharedInv => [][Atomic]_sharedVars
  BY <1>1, <1>2, <1>3, PTL
<1>5. QED
  BY <1>4, SharedInvariant, PTL DEF SharedSpec, AtomicWhenAlone, Atomic, OneStep
=============================================================================
