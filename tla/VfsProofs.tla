----------------------------- MODULE VfsProofs -----------------------------
(***************************************************************************)
(* Proofs about the Vfs: for any filesystems, any calls, any limit on open *)
(* files and any sequence of calls.                                        *)
(***************************************************************************)
EXTENDS Vfs, MountTableProofs, FiniteSetTheorems

-----------------------------------------------------------------------------
(* Paths.                                                                  *)

(* A path that a filesystem can be given. *)
RelativePath(p) == p \in Texts /\ IsAbsolute(p)

LEMMA RootIsRelativePath == RelativePath(Root)
<1>1. ASSUME NEW c \in Segs
      PROVE  /\ <<c, c>> \in Seq(Segs) /\ <<c, c>> # <<>>
             /\ Len(<<c, c>>) > 1 /\ <<c, c>>[1] = c
  OBVIOUS
<1>2. "" \in Segs
  BY DEF Segs
<1>3. QED
  BY <1>1, <1>2, Zenon DEF Root, RelativePath, Texts, IsAbsolute

LEMMA AbsPathsAreRelativePaths ==
  ASSUME NEW p \in AbsPaths PROVE RelativePath(p)
  BY AbsPathsAssumption, RootIsRelativePath DEF IsNormal, RelativePath, IsAbsolute

(* A separator in front of a text that is not empty. *)
LEMMA SeparatedIsRelativePath ==
  ASSUME NEW s \in Seq(Segs), s # <<>>
  PROVE  RelativePath(<<"">> \o s)
<1>1. ASSUME NEW c \in Segs
      PROVE  /\ <<c>> \o s \in Seq(Segs) /\ <<c>> \o s # <<>>
             /\ Len(<<c>> \o s) > 1 /\ (<<c>> \o s)[1] = c
  <2> DEFINE sep == <<c>>
  <2>1. sep \in Seq(Segs) /\ Len(sep) = 1 /\ sep[1] = c
    OBVIOUS
  <2>2. Len(s) \in Nat /\ Len(s) > 0
    OBVIOUS
  <2> HIDE DEF sep
  <2>3. /\ sep \o s \in Seq(Segs) /\ Len(sep \o s) = 1 + Len(s)
        /\ \A i \in 1..(Len(sep) + Len(s)) :
             (sep \o s)[i] = IF i <= Len(sep) THEN sep[i] ELSE s[i - Len(sep)]
    BY <2>1, ConcatProperties
  <2>4. Len(sep \o s) > 1 /\ (sep \o s)[1] = c
    BY <2>1, <2>2, <2>3
  <2>5. sep \o s # <<>>
    BY <2>3, <2>4
  <2>6. QED
    BY <2>3, <2>4, <2>5 DEF sep
<1>2. "" \in Segs
  BY DEF Segs
<1>3. QED
  BY <1>1, <1>2, Zenon DEF RelativePath, Texts, IsAbsolute

(* What is left of a path behind the path of a mount starts with a separator. *)
LEMMA RelativeToIsRelativePath ==
  ASSUME NEW p \in AbsPaths, NEW m, m.path \in MountPaths
  PROVE  RelativePath(RelativeTo(m, p))
<1> DEFINE q == m.path
           rest == SubSeq(p, Len(q) + 1, Len(p))
           kept == {i \in DOMAIN rest : rest[i] # ""}
           tail == SubSeq(rest, Min(kept), Len(rest))
<1>1. CASE q = Root \/ ~ StartsWith(p, q) \/ kept = {}
  BY <1>1, RootIsRelativePath, AbsPathsAreRelativePaths DEF RelativeTo, StripPrefix, NoPath
<1>2. CASE q # Root /\ StartsWith(p, q) /\ kept # {}
  <2>1. p \in Seq(Segs) /\ Len(p) \in Nat
    BY AbsPathsAssumption DEF Texts
  <2>2. Len(q) \in Nat /\ Len(q) <= Len(p)
    <3>1. q \in Seq(Segs)
      BY MountPathsAreTexts DEF Texts
    <3>2. Len(q) \in Nat
      BY <3>1
    <3>3. QED
      BY <1>2, <3>2 DEF StartsWith
  <2>3. rest \in Seq(Segs)
    <3>1. \A i \in (Len(q) + 1)..Len(p) : p[i] \in Segs
      BY <2>1, <2>2
    <3>2. QED
      BY <2>1, <2>2, <3>1, SubSeqProperties
  <2> HIDE DEF rest
  <2>4. DOMAIN rest = 1..Len(rest) /\ Len(rest) \in Nat
    BY <2>3
  <2>5. Min(kept) \in 1..Len(rest)
    <3>1. kept \subseteq 1..Len(rest)
      BY <2>4
    <3> HIDE DEF kept
    <3>2. kept \subseteq Nat
      BY <3>1
    <3>3. Min(kept) \in kept
      BY <1>2, <3>2, MinProperties
    <3>4. QED
      BY <3>1, <3>3
  <2> HIDE DEF kept
  <2>6. tail \in Seq(Segs) /\ tail # <<>>
    <3>1. \A i \in 1..Len(rest) : /\ SubSeq(rest, i, Len(rest)) \in Seq(Segs)
                                  /\ Len(SubSeq(rest, i, Len(rest))) = Len(rest) - i + 1
      BY <2>3
    <3>2. tail \in Seq(Segs) /\ Len(tail) = Len(rest) - Min(kept) + 1
      BY <2>5, <3>1
    <3>3. Len(tail) > 0
      BY <2>4, <2>5, <3>2
    <3> HIDE DEF tail
    <3>4. tail # <<>>
      BY <3>2, <3>3
    <3>5. QED
      BY <3>2, <3>4
  <2> HIDE DEF tail
  <2>7. RelativePath(<<"">> \o tail)
    BY <2>6, SeparatedIsRelativePath
  <2>8. <<"">> \o tail # NoPath
    BY <2>7 DEF RelativePath, Texts, NoPath
  <2>9. RelativeTo(m, p) = <<"">> \o tail
    BY <1>2, <2>8 DEF RelativeTo, StripPrefix, tail, kept, rest
  <2>10. QED
    BY <2>7, <2>9
<1>3. QED
  BY <1>1, <1>2

-----------------------------------------------------------------------------
(* Filesystems: every change of a tree leaves a tree.                      *)

LEMMA DataLength ==
  ASSUME NEW d \in Data
  PROVE  d \in Seq(Bytes \cup {Zero}) /\ Len(d) \in Nat /\ Len(d) <= MaxFileSize
  BY DEF Data

(* The empty file fits. *)
LEMMA EmptyData == <<>> \in Data
  BY BoundsAssumption DEF Data, Positions

LEMMA NodeType ==
  ASSUME NEW type \in {"file", "dir"}, NEW data \in Data
  PROVE  [type |-> type, data |-> data] \in Node
  BY DEF Node, Data

LEMMA PutTree ==
  ASSUME NEW t, IsTree(t), NEW p, RelativePath(p), NEW node \in Node
  PROVE  IsTree(Put(t, p, node))
  BY DEF IsTree, Put, RelativePath

LEMMA RemovedTree ==
  ASSUME NEW t, IsTree(t), NEW p
  PROVE  IsTree(Removed(t, p))
  BY DEF IsTree, Removed

(* Giving a file other data leaves a tree. *)
LEMMA WithDataTree ==
  ASSUME NEW t, IsTree(t), NEW p \in DOMAIN t, NEW data \in Data
  PROVE  IsTree([t EXCEPT ![p].data = data])
<1> DEFINE node == [t[p] EXCEPT !.data = data]
<1>1. node \in Node
  BY DEF IsTree, Node, Data
<1> HIDE DEF node
<1>2. [t EXCEPT ![p].data = data] = [t EXCEPT ![p] = node]
  BY DEF node
<1>3. IsTree([t EXCEPT ![p] = node])
  BY <1>1 DEF IsTree
<1>4. QED
  BY <1>2, <1>3

LEMMA TruncatedTree ==
  ASSUME NEW t, IsTree(t), NEW p \in DOMAIN t
  PROVE  IsTree(Truncated(t, p))
<1>1. <<>> \in Data
  BY EmptyData
<1>2. QED
  BY <1>1, WithDataTree DEF Truncated

(* The larger of two naturals. *)
LEMMA MaxOfTwo ==
  ASSUME NEW a \in Nat, NEW b \in Nat
  PROVE  /\ Max({a, b}) \in Nat /\ Max({a, b}) \in {a, b}
         /\ a <= Max({a, b}) /\ b <= Max({a, b})
<1> DEFINE S == {a, b}
<1>1. S \subseteq 0..(a + b) /\ S # {} /\ a \in S /\ b \in S /\ a + b \in Nat
  OBVIOUS
<1> HIDE DEF S
<1>2. Max(S) \in S /\ \A y \in S : y <= Max(S)
  BY <1>1, MaxProperties
<1>3. QED
  BY <1>1, <1>2 DEF S

(* The smaller of two naturals. *)
LEMMA MinOfTwo ==
  ASSUME NEW a \in Nat, NEW b \in Nat
  PROVE  Min({a, b}) \in Nat /\ Min({a, b}) <= a /\ Min({a, b}) <= b
<1> DEFINE S == {a, b}
<1>1. S \subseteq Nat /\ S # {}
  OBVIOUS
<1> HIDE DEF S
<1>2. Min(S) \in S /\ \A y \in S : Min(S) <= y
  BY <1>1, MinProperties
<1>3. QED
  BY <1>1, <1>2 DEF S

LEMMA OverwriteType ==
  ASSUME NEW data \in Data, NEW offset \in Nat, NEW bytes \in Data,
         bytes = <<>> \/ offset + Len(bytes) <= MaxFileSize
  PROVE  Overwrite(data, offset, bytes) \in Data
<1> SUFFICES ASSUME bytes # <<>>, offset + Len(bytes) <= MaxFileSize
             PROVE  Overwrite(data, offset, bytes) \in Data
  BY DEF Overwrite
<1> DEFINE n == Max({Len(data), offset + Len(bytes)})
           at(i) == IF i \in (offset + 1)..(offset + Len(bytes)) THEN bytes[i - offset]
                    ELSE IF i <= Len(data) THEN data[i] ELSE Zero
<1>1. /\ Len(data) \in Nat /\ Len(bytes) \in Nat /\ Len(data) <= MaxFileSize
  BY DataLength
<1>2. n \in Nat /\ n <= MaxFileSize
  BY <1>1, MaxOfTwo
<1>3. ASSUME NEW i \in 1..n
      PROVE  at(i) \in Bytes \cup {Zero}
  <2> HIDE DEF n
  <2>1. i \in Nat /\ i >= 1
    BY <1>2
  <2>2. CASE i \in (offset + 1)..(offset + Len(bytes))
    <3>1. i - offset \in 1..Len(bytes)
      BY <1>1, <2>1, <2>2
    <3>2. bytes[i - offset] \in Bytes \cup {Zero}
      BY <3>1 DEF Data
    <3>3. QED
      BY <2>2, <3>2
  <2>3. CASE i \notin (offset + 1)..(offset + Len(bytes)) /\ i <= Len(data)
    <3>1. i \in 1..Len(data)
      BY <1>1, <2>1, <2>3
    <3>2. data[i] \in Bytes \cup {Zero}
      BY <3>1 DEF Data
    <3>3. QED
      BY <2>3, <3>2
  <2>4. CASE i \notin (offset + 1)..(offset + Len(bytes)) /\ ~ (i <= Len(data))
    BY <2>4
  <2>5. QED
    BY <2>2, <2>3, <2>4
<1> HIDE DEF n, at
<1>4. [i \in 1..n |-> at(i)] \in Data
  <2>1. [i \in 1..n |-> at(i)] \in Seq(Bytes \cup {Zero})
    BY <1>2, <1>3
  <2>2. Len([i \in 1..n |-> at(i)]) = n
    BY <1>2
  <2>3. QED
    BY <1>2, <2>1, <2>2 DEF Data
<1>5. Overwrite(data, offset, bytes) = IF bytes = <<>> THEN data ELSE [i \in 1..n |-> at(i)]
  BY DEF Overwrite, n, at
<1>6. QED
  BY <1>4, <1>5

LEMMA WrittenTree ==
  ASSUME NEW t, IsTree(t), NEW p \in DOMAIN t,
         NEW offset \in Nat, NEW bytes \in Data,
         bytes = <<>> \/ offset + Len(bytes) <= MaxFileSize
  PROVE  IsTree(Written(t, p, offset, bytes))
<1>1. t[p].data \in Data
  BY DEF IsTree, Node
<1> DEFINE data == Overwrite(t[p].data, offset, bytes)
<1>2. data \in Data
  BY <1>1, OverwriteType
<1>3. Written(t, p, offset, bytes) = [t EXCEPT ![p].data = data]
  BY DEF Written
<1> HIDE DEF data
<1>4. IsTree([t EXCEPT ![p].data = data])
  BY <1>2, WithDataTree
<1>5. QED
  BY <1>3, <1>4

(* Behind a path given to a filesystem more names may follow. *)
LEMMA ExtendedRelativePath ==
  ASSUME NEW p, RelativePath(p), NEW s \in Seq(Segs)
  PROVE  RelativePath(p \o s)
<1>1. p \in Seq(Segs) /\ Len(p) > 1
  BY Zenon DEF RelativePath, Texts, IsAbsolute
<1>2. p[1] = ""
  BY Zenon DEF RelativePath, IsAbsolute
<1>3. Len(p) \in Nat /\ Len(s) \in Nat
  BY <1>1
<1>4. /\ p \o s \in Seq(Segs) /\ Len(p \o s) = Len(p) + Len(s)
      /\ \A i \in 1..(Len(p) + Len(s)) :
           (p \o s)[i] = IF i <= Len(p) THEN p[i] ELSE s[i - Len(p)]
  BY <1>1, ConcatProperties
<1>5. Len(p \o s) > 1 /\ (p \o s)[1] = p[1]
  BY <1>1, <1>3, <1>4
<1>6. p \o s # <<>>
  BY <1>4, <1>5
<1>7. QED
  BY <1>2, <1>4, <1>5, <1>6, Zenon DEF RelativePath, Texts, IsAbsolute

LEMMA RenamedTree ==
  ASSUME NEW t, IsTree(t), NEW old \in DOMAIN t, NEW new, RelativePath(new)
  PROVE  IsTree(Renamed(t, old, new))
<1> DEFINE moved == {q \in DOMAIN t : q = old \/ Below(old, q)}
           To(q) == new \o SubSeq(q, Len(old) + 1, Len(q))
           kept == {q \in DOMAIN t \ moved : q # new}
           From(r) == CHOOSE q \in moved : To(q) = r
           result == [r \in kept \cup {To(q) : q \in moved} |->
                        IF r \in kept THEN t[r] ELSE t[From(r)]]
<1>1. Renamed(t, old, new) = result
  BY DEF Renamed
<1>2. ASSUME NEW q \in moved
      PROVE  RelativePath(To(q))
  <2>1. q \in Seq(Segs) /\ Len(q) \in Nat
    BY DEF IsTree, Texts
  <2>2. Len(old) \in Nat
    <3>1. old \in Seq(Segs)
      BY DEF IsTree, Texts
    <3>2. QED
      BY <3>1
  <2>3. SubSeq(q, Len(old) + 1, Len(q)) \in Seq(Segs)
    <3>1. \A i \in (Len(old) + 1)..Len(q) : q[i] \in Segs
      BY <2>1, <2>2
    <3>2. QED
      BY <2>1, <2>2, <3>1, SubSeqProperties
  <2>4. QED
    BY <2>3, ExtendedRelativePath
<1>3. \A r \in {To(q) : q \in moved} : From(r) \in moved
  OBVIOUS
<1>4. moved \subseteq DOMAIN t /\ kept \subseteq DOMAIN t
  OBVIOUS
<1> HIDE DEF moved, kept, To, From
<1>5. ASSUME NEW r \in kept \cup {To(q) : q \in moved}
      PROVE  RelativePath(r) /\ (IF r \in kept THEN t[r] ELSE t[From(r)]) \in Node
  <2>1. CASE r \in kept
    BY <1>4, <2>1 DEF IsTree, RelativePath
  <2>2. CASE r \notin kept
    <3>1. From(r) \in DOMAIN t
      BY <1>3, <1>4, <2>2
    <3>2. RelativePath(r)
      BY <1>2, <2>2
    <3>3. QED
      BY <2>2, <3>1, <3>2 DEF IsTree
  <2>3. QED
    BY <2>1, <2>2
<1>6. IsTree(result)
  BY <1>5 DEF IsTree, RelativePath
<1>7. QED
  BY <1>1, <1>6

-----------------------------------------------------------------------------
(* The inductive invariant, part by part.                                  *)

TreesOK(fsv) ==
  /\ fsv = [f \in Filesystems |-> fsv[f]]
  /\ \A f \in Filesystems : IsTree(fsv[f])

FdsOK(ofs) ==
  /\ ofs \in Seq(OpenFile \cup {None})
  /\ Len(ofs) <= MaxOpenFiles

Inv ==
  /\ WellFormed(mounts)
  /\ FdsOK(open_files)
  /\ cwd \in AbsPaths
  /\ TreesOK(fs)

LEMMA InvImpliesTypeOK == Inv => VfsTypeOK
  BY DEF Inv, VfsTypeOK, WellFormed, TableTypeOK, FdsOK, TreesOK

-----------------------------------------------------------------------------
(* What a path resolves to.                                                *)

(* Through some mount the filesystem f can be changed. *)
Writable(f) ==
  \E i \in DOMAIN mounts : mounts[i].filesystem = f /\ ~ mounts[i].options.read_only

LEMMA ResolveProperties ==
  ASSUME WellFormed(mounts), NEW p \in AbsPaths, CanResolve(mounts, p)
  PROVE  /\ Resolve(mounts, p).filesystem \in Filesystems
         /\ RelativePath(Resolve(mounts, p).relative_path)
         /\ Resolve(mounts, p).read_only \in BOOLEAN
         /\ ~ Resolve(mounts, p).read_only => Writable(Resolve(mounts, p).filesystem)
<1> DEFINE o == OwnerIndex(mounts, p)
           m == mounts[o]
<1>1. mounts \in Seq(MountPoint) /\ DOMAIN mounts = 1..Len(mounts)
  BY DEF WellFormed
<1>2. o \in DOMAIN mounts
  BY <1>1, OwnerIndexProperties
<1> HIDE DEF o
<1>3. m \in MountPoint
  BY <1>1, <1>2
<1>4. Normalize(p) = p
  BY AbsPathsAreNormal
<1>5. m.path \in MountPaths /\ m.filesystem \in Filesystems /\ m.options \in Options
  BY <1>3 DEF MountPoint
<1>6. m.options.read_only \in BOOLEAN
  BY <1>5, MountAssumption
<1>7. RelativePath(RelativeTo(m, p))
  BY <1>5, RelativeToIsRelativePath
<1>8. Resolve(mounts, p) = [filesystem    |-> m.filesystem,
                            relative_path |-> RelativeTo(m, p),
                            read_only     |-> m.options.read_only]
  BY <1>4 DEF Resolve, o
<1>9. /\ Resolve(mounts, p).filesystem = m.filesystem
      /\ Resolve(mounts, p).relative_path = RelativeTo(m, p)
      /\ Resolve(mounts, p).read_only = m.options.read_only
  BY <1>8
<1>10. ~ m.options.read_only => Writable(m.filesystem)
  BY <1>2 DEF Writable
<1>11. QED
  BY <1>5, <1>6, <1>7, <1>9, <1>10

LEMMA LocatedAt ==
  ASSUME Inv, NEW arg, Located(arg)
  PROVE  /\ Abs(arg) \in AbsPaths
         /\ At(arg).filesystem \in Filesystems
         /\ RelativePath(At(arg).relative_path)
         /\ At(arg).read_only \in BOOLEAN
         /\ ~ At(arg).read_only => Writable(At(arg).filesystem)
  BY ResolveProperties DEF Located, At, Inv

LEMMA FindMountIndexType ==
  ASSUME WellFormed(mounts), NEW p
  PROVE  FindMountIndex(mounts, p) \in Nat
<1> DEFINE hits == {i \in DOMAIN mounts : Covers(mounts[i].path, p)}
<1>1. DOMAIN mounts = 1..Len(mounts)
  BY DEF WellFormed
<1>2. hits \subseteq Nat
  BY <1>1
<1> HIDE DEF hits
<1>3. CASE hits = {}
  BY <1>3 DEF FindMountIndex, NoIndex, hits
<1>4. CASE hits # {}
  <2>1. Min(hits) \in hits
    BY <1>2, <1>4, MinProperties
  <2>2. QED
    BY <1>2, <1>4, <2>1 DEF FindMountIndex, hits
<1>5. QED
  BY <1>3, <1>4

-----------------------------------------------------------------------------
(* How the filesystems change.                                             *)

(* They stay trees, and only those that are mounted writable change. *)
FsStepTo(fsv) ==
  /\ TreesOK(fsv)
  /\ \A f \in Filesystems : Writable(f) \/ fsv[f] = fs[f]

FsStep == FsStepTo(fs')

LEMMA FsUnchanged ==
  ASSUME Inv, UNCHANGED fs PROVE FsStep
  BY DEF Inv, FsStep, FsStepTo

LEMMA OneMoreTree ==
  ASSUME NEW fsv, FsStepTo(fsv), NEW f \in Filesystems, Writable(f), NEW t, IsTree(t)
  PROVE  FsStepTo([fsv EXCEPT ![f] = t])
  BY DEF TreesOK, FsStepTo

(* One filesystem that is mounted writable holds another tree. *)
LEMMA OneTree ==
  ASSUME Inv, NEW f \in Filesystems, Writable(f), NEW t, IsTree(t),
         fs' = [fs EXCEPT ![f] = t]
  PROVE  FsStep
<1>1. FsStepTo(fs)
  BY DEF Inv, FsStepTo
<1>2. QED
  BY <1>1, OneMoreTree DEF FsStep

LEMMA AfterCreateTree ==
  ASSUME NEW t, IsTree(t), NEW p, RelativePath(p), NEW flags
  PROVE  IsTree(AfterCreate(t, p, flags))
<1>1. EmptyFile \in Node
  <2>1. <<>> \in Data
    BY EmptyData
  <2>2. QED
    BY <2>1, NodeType DEF EmptyFile
<1>2. QED
  BY <1>1, PutTree DEF AfterCreate

LEMMA AfterTruncateTree ==
  ASSUME NEW t, IsTree(t), NEW p, NEW flags, "TRUNCATE" \in flags => HasFile(t, p)
  PROVE  IsTree(AfterTruncate(t, p, flags))
  BY TruncatedTree DEF AfterTruncate, HasFile

(* open(), whether it succeeds or fails half way: where it may not change   *)
(* the filesystem its flags keep it from doing so.                          *)
LEMMA OpenFsStep ==
  ASSUME Inv, NEW arg, NEW flags, Located(arg), MayOpen(At(arg), flags),
         NEW t, IsTree(t),
         flags \cap {"CREATE", "TRUNCATE"} = {} => t = fs[At(arg).filesystem],
         fs' = [fs EXCEPT ![At(arg).filesystem] = t]
  PROVE  FsStep
<1>1. At(arg).filesystem \in Filesystems
  BY LocatedAt
<1>2. At(arg).read_only \in BOOLEAN /\ (~ At(arg).read_only => Writable(At(arg).filesystem))
  BY LocatedAt
<1>3. CASE ~ At(arg).read_only
  BY <1>1, <1>2, <1>3, OneTree
<1>4. CASE At(arg).read_only
  <2>1. flags \cap {"CREATE", "TRUNCATE"} = {}
    BY <1>4 DEF MayOpen
  <2>2. fs' = fs
    BY <1>1, <2>1 DEF Inv, TreesOK
  <2>3. QED
    BY <2>2, FsUnchanged
<1>5. QED
  BY <1>2, <1>3, <1>4

(* The trees that open() goes through. *)
LEMMA OpenTrees ==
  ASSUME Inv, NEW arg, Located(arg), NEW flags
  PROVE  LET f  == At(arg).filesystem
             p  == At(arg).relative_path
             t1 == AfterCreate(fs[f], p, flags)
         IN  /\ IsTree(t1)
             /\ "TRUNCATE" \in flags => (HasFile(t1, p) => IsTree(AfterTruncate(t1, p, flags)))
             /\ "TRUNCATE" \notin flags => IsTree(AfterTruncate(t1, p, flags))
             /\ "CREATE" \notin flags => t1 = fs[f]
             /\ "TRUNCATE" \notin flags => AfterTruncate(t1, p, flags) = t1
<1> DEFINE f  == At(arg).filesystem
           p  == At(arg).relative_path
           t1 == AfterCreate(fs[f], p, flags)
<1>1. f \in Filesystems /\ RelativePath(p)
  BY LocatedAt
<1>2. IsTree(fs[f])
  BY <1>1 DEF Inv, TreesOK
<1> HIDE DEF f, p
<1>3. IsTree(t1)
  BY <1>1, <1>2, AfterCreateTree
<1>4. "CREATE" \notin flags => t1 = fs[f]
  BY DEF AfterCreate, NeedsCreate
<1> HIDE DEF t1
<1>5. "TRUNCATE" \notin flags => AfterTruncate(t1, p, flags) = t1
  BY DEF AfterTruncate
<1>6. "TRUNCATE" \in flags => (HasFile(t1, p) => IsTree(AfterTruncate(t1, p, flags)))
  BY <1>3, AfterTruncateTree
<1>7. QED
  BY <1>3, <1>4, <1>5, <1>6 DEF t1, f, p

LEMMA OpenChangesFs ==
  ASSUME Inv, NEW arg, NEW flags, Open(arg, flags)
  PROVE  FsStep
<1> DEFINE f  == At(arg).filesystem
           p  == At(arg).relative_path
           t1 == AfterCreate(fs[f], p, flags)
           t2 == AfterTruncate(t1, p, flags)
<1>1. /\ Located(arg) /\ MayOpen(At(arg), flags)
      /\ "TRUNCATE" \in flags => HasFile(t1, p)
      /\ fs' = [fs EXCEPT ![f] = t2]
  BY DEF Open
<1>2. IsTree(t2) /\ (flags \cap {"CREATE", "TRUNCATE"} = {} => t2 = fs[f])
  BY <1>1, OpenTrees
<1> HIDE DEF t2
<1>3. QED
  BY <1>1, <1>2, OpenFsStep

LEMMA OpenFailsChangesFs ==
  ASSUME Inv, NEW arg, NEW flags, OpenFails(arg, flags)
  PROVE  FsStep
<1> DEFINE f  == At(arg).filesystem
           p  == At(arg).relative_path
           t1 == AfterCreate(fs[f], p, flags)
           t2 == AfterTruncate(t1, p, flags)
<1>1. /\ Located(arg) /\ MayOpen(At(arg), flags)
      /\ \/ fs' = [fs EXCEPT ![f] = t1]
         \/ HasFile(t1, p) /\ fs' = [fs EXCEPT ![f] = t2]
  BY DEF OpenFails
<1>2. IsTree(t1) /\ (flags \cap {"CREATE", "TRUNCATE"} = {} => t1 = fs[f])
  BY <1>1, OpenTrees
<1>3. /\ HasFile(t1, p) => IsTree(t2)
      /\ flags \cap {"CREATE", "TRUNCATE"} = {} => t2 = fs[f]
  BY <1>1, OpenTrees
<1> HIDE DEF t1, t2
<1>4. QED
  BY <1>1, <1>2, <1>3, OpenFsStep

(* A short write takes fewer bytes than it is given, never more. *)
LEMMA WriteLensBound ==
  ASSUME NEW len \in Nat
  PROVE  WriteLens(len) \subseteq 0..len
  BY DEF WriteLens

(* The first n bytes of some data. *)
LEMMA PrefixIsData ==
  ASSUME NEW bytes \in Seq(Bytes \cup {Zero}), NEW n \in 0..Len(bytes), n <= MaxFileSize
  PROVE  n \in Nat /\ SubSeq(bytes, 1, n) \in Data /\ Len(SubSeq(bytes, 1, n)) = n
<1>1. bytes \in Seq(Bytes \cup {Zero}) /\ Len(bytes) \in Nat
  OBVIOUS
<1>2. n \in Nat /\ \A i \in 1..n : bytes[i] \in Bytes \cup {Zero}
  BY <1>1
<1>3. QED
  BY <1>1, <1>2, SubSeqProperties DEF Data

(* What write() passes on of bytes. *)
LEMMA WrittenBytes ==
  ASSUME NEW bytes \in Writes, NEW n \in WriteLens(Len(bytes)),
         NEW position \in Nat, n = 0 \/ position + n <= MaxFileSize
  PROVE  n \in Nat /\ SubSeq(bytes, 1, n) \in Data /\ Len(SubSeq(bytes, 1, n)) = n
<1>1. bytes \in Seq(Bytes \cup {Zero}) /\ Len(bytes) \in Nat
  BY CallsAssumption
<1>2. n \in 0..Len(bytes) /\ n <= MaxFileSize
  BY <1>1, WriteLensBound, BoundsAssumption DEF Positions
<1>3. QED
  BY <1>1, <1>2, PrefixIsData

(* A descriptor that read and write may use. *)
LEMMA FdProperties ==
  ASSUME Inv, NEW fd, IsOpen(fd)
  PROVE  fd \in 1..Len(open_files) /\ open_files[fd] \in OpenFile
  BY DEF Inv, FdsOK, IsOpen

LEMMA WriteChangesFs ==
  ASSUME Inv, NEW fd, NEW bytes \in Writes, Write(fd, bytes)
  PROVE  FsStep
<1> DEFINE of == open_files[fd]
           f == FdMount(fd).filesystem
<1>1. of \in OpenFile /\ FdResolves(fd) /\ MayWrite(fd) /\ HasFile(fs[f], of.relative_path)
  BY FdProperties DEF Write
<1>2. of.path \in AbsPaths /\ of.position \in Nat
  BY <1>1 DEF OpenFile, Positions
<1>3. f \in Filesystems /\ Writable(f)
  BY <1>1, <1>2, ResolveProperties DEF FdResolves, FdMount, MayWrite, Inv
<1>4. PICK n \in WriteLens(Len(bytes)) :
        /\ fs' = [fs EXCEPT ![f] =
                 Written(fs[f], of.relative_path, of.position, SubSeq(bytes, 1, n))]
        /\ (n = 0 \/ of.position + n <= MaxFileSize)
  <2>1. fs = [g \in Filesystems |-> fs[g]]
    BY DEF Inv, TreesOK
  <2>2. QED
    BY <1>3, <2>1 DEF Write
<1> DEFINE t == Written(fs[f], of.relative_path, of.position, SubSeq(bytes, 1, n))
<1>5. /\ SubSeq(bytes, 1, n) \in Data
      /\ \/ SubSeq(bytes, 1, n) = <<>>
         \/ of.position + Len(SubSeq(bytes, 1, n)) <= MaxFileSize
  <2>1. SubSeq(bytes, 1, n) \in Data /\ Len(SubSeq(bytes, 1, n)) = n
    BY <1>2, <1>4, WrittenBytes
  <2>2. n = 0 => SubSeq(bytes, 1, n) = <<>>
    BY <2>1 DEF Data
  <2>3. QED
    BY <1>4, <2>1, <2>2
<1>6. IsTree(fs[f]) /\ of.relative_path \in DOMAIN fs[f]
  BY <1>1, <1>3 DEF Inv, TreesOK, HasFile
<1> HIDE DEF f, of
<1>7. IsTree(t)
  BY <1>2, <1>5, <1>6, WrittenTree
<1> HIDE DEF t
<1>8. fs' = [fs EXCEPT ![f] = t]
  BY <1>4 DEF t
<1>9. QED
  BY <1>3, <1>7, <1>8, OneTree

LEMMA DirectoryCallsChangeFs ==
  ASSUME Inv, NEW arg, Mkdir(arg) \/ Rmdir(arg) \/ Rm(arg)
  PROVE  FsStep
<1> DEFINE f == At(arg).filesystem
           p == At(arg).relative_path
<1>1. Located(arg) /\ ~ At(arg).read_only
  BY DEF Mkdir, Rmdir, Rm
<1>2. f \in Filesystems /\ RelativePath(p) /\ Writable(f)
  BY <1>1, LocatedAt
<1>3. IsTree(fs[f])
  BY <1>2 DEF Inv, TreesOK
<1>4. EmptyDir \in Node
  <2>1. <<>> \in Data
    BY EmptyData
  <2>2. QED
    BY <2>1, NodeType DEF EmptyDir
<1>5. IsTree(Put(fs[f], p, EmptyDir)) /\ IsTree(Removed(fs[f], p))
  BY <1>2, <1>3, <1>4, PutTree, RemovedTree
<1>6. fs = [g \in Filesystems |-> fs[g]]
  BY DEF Inv, TreesOK
<1>7. \/ fs' = [fs EXCEPT ![f] = Put(fs[f], p, EmptyDir)]
      \/ fs' = [fs EXCEPT ![f] = Removed(fs[f], p)]
  BY <1>2, <1>6 DEF Mkdir, Rmdir, Rm
<1> HIDE DEF f, p
<1>8. QED
  BY <1>2, <1>5, <1>7, OneTree

LEMMA DataAtType ==
  ASSUME Inv, NEW src, Located(src), HasFile(TreeAt(src), At(src).relative_path)
  PROVE  /\ DataAt(src) \in Data
         /\ DataAt(src) \in Seq(Bytes \cup {Zero})
         /\ Len(DataAt(src)) \in Nat /\ Len(DataAt(src)) <= MaxFileSize
<1>1. At(src).filesystem \in Filesystems
  BY LocatedAt
<1>2. IsTree(TreeAt(src))
  BY <1>1 DEF TreeAt, Inv, TreesOK
<1>3. DataAt(src) \in Data
  BY <1>2 DEF HasFile, IsTree, DataAt, Node
<1>4. QED
  BY <1>3, DataLength

(* After a copy, of n bytes, only the destination has changed. *)
LEMMA CopiedStep ==
  ASSUME Inv, NEW src, NEW dst, CanCopy(src, dst), NEW n \in 0..Len(DataAt(src))
  PROVE  FsStepTo(Copied(src, dst, n))
<1> DEFINE f == At(dst).filesystem
           p == At(dst).relative_path
           file == [type |-> "file", data |-> SubSeq(DataAt(src), 1, n)]
<1>1. Located(src) /\ Located(dst) /\ ~ At(dst).read_only
      /\ HasFile(TreeAt(src), At(src).relative_path)
  BY DEF CanCopy
<1>2. f \in Filesystems /\ RelativePath(p) /\ Writable(f)
  BY <1>1, LocatedAt
<1>3. file \in Node
  <2>1. n <= MaxFileSize
    BY <1>1, DataAtType, BoundsAssumption DEF Positions
  <2>2. QED
    BY <1>1, <2>1, DataAtType, PrefixIsData, NodeType
<1>4. IsTree(fs[f]) /\ FsStepTo(fs)
  BY <1>2 DEF Inv, TreesOK, FsStepTo
<1> HIDE DEF f, p, file
<1>5. IsTree(Put(fs[f], p, file))
  BY <1>2, <1>3, <1>4, PutTree
<1>6. FsStepTo([fs EXCEPT ![f] = Put(fs[f], p, file)])
  BY <1>2, <1>4, <1>5, OneMoreTree
<1>7. Copied(src, dst, n) = [fs EXCEPT ![f] = Put(fs[f], p, file)]
  BY DEF Copied, f, p, file
<1>8. QED
  BY <1>6, <1>7

(* What write_file may have written, nothing included. *)
LEMMA CopyLengths ==
  ASSUME Inv, NEW src, NEW dst, CanCopy(src, dst)
  PROVE  /\ 0 \in 0..Len(DataAt(src))
         /\ WriteLens(Len(DataAt(src))) \subseteq 0..Len(DataAt(src))
<1>1. Len(DataAt(src)) \in Nat
  BY DataAtType DEF CanCopy
<1>2. QED
  BY <1>1, WriteLensBound

LEMMA CopyCallsChangeFs ==
  ASSUME Inv, NEW src, NEW dst, Cp(src, dst) \/ CpFails(src, dst)
  PROVE  FsStep
<1>1. CanCopy(src, dst)
  BY DEF Cp, CpFails
<1>2. PICK n \in 0..Len(DataAt(src)) : fs' = Copied(src, dst, n)
  BY <1>1, CopyLengths DEF Cp, CpFails
<1>3. QED
  BY <1>1, <1>2, CopiedStep DEF FsStep

LEMMA MvRenameChangesFs ==
  ASSUME Inv, NEW src, NEW dst, MvRename(src, dst)
  PROVE  FsStep
<1> DEFINE f == At(src).filesystem
           old == At(src).relative_path
           new == At(dst).relative_path
<1>1. /\ Located(src) /\ Located(dst) /\ ~ At(src).read_only
      /\ CanRename(fs[f], old, new)
  BY DEF MvRename, TreeAt
<1>2. f \in Filesystems /\ Writable(f) /\ RelativePath(new)
  BY <1>1, LocatedAt
<1>3. IsTree(fs[f]) /\ fs = [g \in Filesystems |-> fs[g]]
  BY <1>2 DEF Inv, TreesOK
<1>4. fs' = [fs EXCEPT ![f] = Renamed(fs[f], old, new)]
  BY <1>2, <1>3 DEF MvRename
<1>5. old \in DOMAIN fs[f]
  BY <1>1 DEF CanRename
<1> HIDE DEF f, old, new
<1>6. IsTree(Renamed(fs[f], old, new))
  BY <1>2, <1>3, <1>5, RenamedTree
<1>7. QED
  BY <1>2, <1>4, <1>6, OneTree

LEMMA MvCopyChangesFs ==
  ASSUME Inv, NEW src, NEW dst, MvCopy(src, dst)
  PROVE  FsStep
<1>1. CanCopy(src, dst) /\ ~ At(src).read_only /\ Located(src)
  BY DEF MvCopy, CanCopy
<1>2. PICK n \in WriteLens(Len(DataAt(src))) :
        fs' = [Copied(src, dst, n) EXCEPT ![At(src).filesystem] =
                 Removed(@, At(src).relative_path)]
  BY DEF MvCopy
<1> DEFINE f == At(src).filesystem
           p == At(src).relative_path
           fsv == Copied(src, dst, n)
<1>3. FsStepTo(fsv)
  BY <1>1, CopyLengths, CopiedStep
<1>4. f \in Filesystems /\ Writable(f)
  BY <1>1, LocatedAt
<1> HIDE DEF f, p, fsv
<1>5. IsTree(Removed(fsv[f], p))
  BY <1>3, <1>4, RemovedTree DEF FsStepTo, TreesOK
<1>6. fs' = [fsv EXCEPT ![f] = Removed(fsv[f], p)]
  <2>1. fsv = [g \in Filesystems |-> fsv[g]]
    BY <1>3 DEF FsStepTo, TreesOK
  <2>2. QED
    BY <1>2, <1>4, <2>1 DEF f, p, fsv
<1>7. QED
  BY <1>3, <1>4, <1>5, <1>6, OneMoreTree DEF FsStep

-----------------------------------------------------------------------------
(* How the open-file table changes.                                        *)

SameFile(old, new) ==
  /\ new.path = old.path
  /\ new.mount_index = old.mount_index
  /\ new.relative_path = old.relative_path
  /\ new.flags = old.flags

(* Descriptor fd has just been opened. *)
FreshFile(fd) ==
  /\ ~ IsOpen(fd)
  /\ UNCHANGED mounts
  /\ \E arg \in OpenArgs :
       /\ Located(arg)
       /\ open_files'[fd].path = Abs(arg)
       /\ open_files'[fd].relative_path = At(arg).relative_path
  /\ \A i \in 1..(fd - 1) : IsOpen(i)
  /\ \A i \in DOMAIN open_files : IsOpen(i) => open_files'[i] = open_files[i]

(* Slots are kept, and what is in a slot was there before or is fresh. *)
FdsStep ==
  /\ FdsOK(open_files')
  /\ DOMAIN open_files \subseteq DOMAIN open_files'
  /\ \A fd \in DOMAIN open_files' :
       open_files'[fd] # None =>
         \/ IsOpen(fd) /\ SameFile(open_files[fd], open_files'[fd])
         \/ FreshFile(fd)

LEMMA FdsUnchanged ==
  ASSUME Inv, UNCHANGED open_files PROVE FdsStep
  BY DEF Inv, FdsStep, SameFile, IsOpen

(* One open file gets another position or cached size. *)
LEMMA OneFile ==
  ASSUME Inv, NEW fd, IsOpen(fd), NEW new \in OpenFile,
         SameFile(open_files[fd], new), open_files' = [open_files EXCEPT ![fd] = new]
  PROVE  FdsStep
<1>1. open_files \in Seq(OpenFile \cup {None}) /\ fd \in 1..Len(open_files)
  BY FdProperties DEF Inv, FdsOK
<1>2. /\ open_files' \in Seq(OpenFile \cup {None})
      /\ Len(open_files') = Len(open_files)
      /\ \A i \in 1..Len(open_files) :
           open_files'[i] = IF i = fd THEN new ELSE open_files[i]
  BY <1>1
<1>3. FdsOK(open_files') /\ DOMAIN open_files' = DOMAIN open_files
  BY <1>1, <1>2 DEF Inv, FdsOK
<1>4. QED
  BY <1>1, <1>2, <1>3 DEF FdsStep, SameFile, IsOpen

(* Slots are emptied. *)
LEMMA SlotsEmptied ==
  ASSUME Inv, NEW S,
         open_files' = [fd \in DOMAIN open_files |->
                          IF fd \in S THEN None ELSE open_files[fd]]
  PROVE  FdsStep
<1>1. open_files \in Seq(OpenFile \cup {None}) /\ DOMAIN open_files = 1..Len(open_files)
  BY DEF Inv, FdsOK
<1>2. /\ open_files' \in Seq(OpenFile \cup {None})
      /\ Len(open_files') = Len(open_files)
      /\ DOMAIN open_files' = DOMAIN open_files
  BY <1>1
<1>3. QED
  BY <1>1, <1>2 DEF FdsStep, Inv, FdsOK, SameFile, IsOpen

(* The slot that alloc_fd chooses is free or behind the last one. *)
LEMMA AllocFdProperties ==
  ASSUME NEW ofs \in Seq(OpenFile \cup {None})
  PROVE  /\ AllocFd(ofs) \in 1..(Len(ofs) + 1)
         /\ AllocFd(ofs) \in DOMAIN ofs => ofs[AllocFd(ofs)] = None
         /\ AllocFd(ofs) \notin DOMAIN ofs => \A fd \in DOMAIN ofs : ofs[fd] # None
         /\ \A fd \in 1..(AllocFd(ofs) - 1) : fd \in DOMAIN ofs /\ ofs[fd] # None
<1> DEFINE S == {fd \in DOMAIN ofs : ofs[fd] = None} \cup {Len(ofs) + 1}
<1>1. DOMAIN ofs = 1..Len(ofs) /\ Len(ofs) \in Nat
  OBVIOUS
<1>2. S \subseteq 1..(Len(ofs) + 1) /\ S # {}
  BY <1>1
<1>3. \A fd \in S : fd \in DOMAIN ofs => ofs[fd] = None
  BY <1>1
<1>4. \A fd \in DOMAIN ofs : ofs[fd] = None => fd \in S
  OBVIOUS
<1> HIDE DEF S
<1>5. S \subseteq Nat
  BY <1>2
<1>6. Min(S) \in S /\ \A fd \in S : Min(S) <= fd
  BY <1>2, <1>5, MinProperties
<1>7. AllocFd(ofs) = Min(S)
  BY DEF AllocFd, S
<1>8. Min(S) \notin DOMAIN ofs => \A fd \in DOMAIN ofs : ofs[fd] # None
  <2> SUFFICES ASSUME Min(S) \notin DOMAIN ofs, NEW fd \in DOMAIN ofs, ofs[fd] = None
               PROVE  FALSE
    OBVIOUS
  <2>1. Min(S) <= fd
    BY <1>4, <1>6
  <2>2. Min(S) \in 1..Len(ofs)
    <3>1. Min(S) \in 1..(Len(ofs) + 1)
      BY <1>2, <1>6
    <3>2. fd \in 1..Len(ofs)
      BY <1>1
    <3>3. QED
      BY <1>1, <2>1, <3>1, <3>2
  <2>3. QED
    BY <1>1, <2>2
<1>9. ASSUME NEW fd \in 1..(Min(S) - 1)
      PROVE  fd \in DOMAIN ofs /\ ofs[fd] # None
  <2>1. Min(S) \in 1..(Len(ofs) + 1)
    BY <1>2, <1>6
  <2>2. fd \in 1..Len(ofs) /\ fd < Min(S)
    BY <1>1, <2>1
  <2>3. fd \notin S
    BY <1>6, <2>1, <2>2
  <2>4. QED
    BY <1>1, <1>4, <2>2, <2>3
<1>10. QED
  BY <1>2, <1>3, <1>6, <1>7, <1>8, <1>9

LEMMA StoreProperties ==
  ASSUME Inv, CanAlloc(open_files), NEW new \in OpenFile
  PROVE  LET fd == AllocFd(open_files)
             after == Store(open_files, fd, new)
         IN  /\ FdsOK(after)
             /\ ~ IsOpen(fd)
             /\ DOMAIN open_files \subseteq DOMAIN after
             /\ \A i \in DOMAIN after :
                  \/ i = fd /\ after[i] = new
                  \/ i \in DOMAIN open_files /\ after[i] = open_files[i]
             /\ \A i \in DOMAIN open_files : IsOpen(i) => after[i] = open_files[i]
             /\ \A i \in 1..(fd - 1) : IsOpen(i)
<1> DEFINE fd == AllocFd(open_files)
           after == Store(open_files, fd, new)
<1>1. /\ open_files \in Seq(OpenFile \cup {None}) /\ DOMAIN open_files = 1..Len(open_files)
      /\ Len(open_files) \in Nat /\ Len(open_files) <= MaxOpenFiles
  BY DEF Inv, FdsOK
<1>2. /\ fd \in 1..(Len(open_files) + 1)
      /\ fd \in DOMAIN open_files => open_files[fd] = None
      /\ fd \notin DOMAIN open_files => \A i \in DOMAIN open_files : open_files[i] # None
      /\ \A i \in 1..(fd - 1) : IsOpen(i)
  BY <1>1, AllocFdProperties DEF IsOpen
<1> HIDE DEF fd
<1>3. CASE fd \in DOMAIN open_files
  <2>1. after = [open_files EXCEPT ![fd] = new]
    BY <1>3 DEF Store
  <2>2. after \in Seq(OpenFile \cup {None}) /\ Len(after) = Len(open_files)
        /\ DOMAIN after = DOMAIN open_files
        /\ \A i \in DOMAIN after : after[i] = IF i = fd THEN new ELSE open_files[i]
    BY <1>1, <1>3, <2>1
  <2>3. QED
    BY <1>1, <1>2, <1>3, <2>2 DEF FdsOK, IsOpen, fd
<1>4. CASE fd \notin DOMAIN open_files
  <2>0. fd = Len(open_files) + 1
    <3>1. fd \in 1..(Len(open_files) + 1) /\ fd \notin 1..Len(open_files)
      BY <1>1, <1>2, <1>4
    <3>2. QED
      BY <1>1, <3>1
  <2>1. after = Append(open_files, new) /\ fd = Len(open_files) + 1
    BY <1>4, <2>0 DEF Store
  <2>2. Len(open_files) < MaxOpenFiles
    BY <1>2, <1>4 DEF CanAlloc
  <2>3. after \in Seq(OpenFile \cup {None}) /\ Len(after) = Len(open_files) + 1
        /\ DOMAIN after = 1..(Len(open_files) + 1)
        /\ after[Len(open_files) + 1] = new
        /\ \A i \in 1..Len(open_files) : after[i] = open_files[i]
    BY <1>1, <2>1
  <2>4. Len(after) <= MaxOpenFiles
    BY <1>1, <2>2, <2>3, BoundsAssumption
  <2>5. \A i \in DOMAIN after : i = fd \/ i \in DOMAIN open_files
    BY <1>1, <2>1, <2>3
  <2>6. \A i \in DOMAIN open_files : after[i] = open_files[i]
    BY <1>1, <2>3
  <2> HIDE DEF after
  <2>7. FdsOK(after) /\ ~ IsOpen(fd) /\ DOMAIN open_files \subseteq DOMAIN after
    BY <1>1, <1>4, <2>3, <2>4 DEF FdsOK, IsOpen
  <2>8. \A i \in DOMAIN after :
          \/ i = fd /\ after[i] = new
          \/ i \in DOMAIN open_files /\ after[i] = open_files[i]
    BY <2>0, <2>3, <2>5, <2>6
  <2>9. QED
    BY <1>2, <2>6, <2>7, <2>8 DEF fd, after
<1>5. QED
  BY <1>3, <1>4

(* open() fills one free slot. *)
LEMMA OpenStep ==
  ASSUME Inv, NEW arg \in OpenArgs, NEW flags \in FlagSets, Open(arg, flags)
  PROVE  FdsStep
<1> DEFINE f  == At(arg).filesystem
           p  == At(arg).relative_path
           t1 == AfterCreate(fs[f], p, flags)
           t2 == AfterTruncate(t1, p, flags)
           new == Opened(arg, flags, t2[p])
           fd == AllocFd(open_files)
           after == Store(open_files, fd, new)
<1>1. /\ Located(arg) /\ CanAlloc(open_files) /\ p \in DOMAIN t2
      /\ "TRUNCATE" \in flags => HasFile(t1, p)
      /\ open_files' = after /\ UNCHANGED mounts
  BY DEF Open
<1>2. Abs(arg) \in AbsPaths /\ p \in Texts
  BY <1>1, LocatedAt DEF RelativePath
<1>3. IsTree(t2)
  BY <1>1, OpenTrees
<1> HIDE DEF t2
<1>4. Size(t2[p]) \in Positions /\ 0 \in Positions
  <2>1. t2[p].data \in Data
    BY <1>1, <1>3 DEF IsTree, Node
  <2>2. QED
    BY <2>1, DataLength, BoundsAssumption, HalfAssumption DEF Size, Positions
<1>5. new \in OpenFile /\ new.path = Abs(arg) /\ new.relative_path = p
  <2>1. FindMountIndex(mounts, Abs(arg)) \in Nat
    BY FindMountIndexType DEF Inv
  <2>2. flags \in SUBSET Flags
    BY CallsAssumption
  <2>3. QED
    BY <1>2, <1>4, <2>1, <2>2 DEF Opened, OpenFile
<1> HIDE DEF new
<1>6. /\ FdsOK(after) /\ ~ IsOpen(fd)
      /\ DOMAIN open_files \subseteq DOMAIN after
      /\ \A i \in DOMAIN after :
           \/ i = fd /\ after[i] = new
           \/ i \in DOMAIN open_files /\ after[i] = open_files[i]
      /\ \A i \in DOMAIN open_files : IsOpen(i) => after[i] = open_files[i]
      /\ \A i \in 1..(fd - 1) : IsOpen(i)
  BY <1>1, <1>5, StoreProperties
<1> HIDE DEF fd, after
<1>7. ASSUME NEW i \in DOMAIN after, after[i] # None
      PROVE  \/ IsOpen(i) /\ SameFile(open_files[i], after[i])
             \/ FreshFile(i)
  <2>1. CASE i = fd /\ after[i] = new
    BY <1>1, <1>5, <1>6, <2>1 DEF FreshFile
  <2>2. CASE i \in DOMAIN open_files /\ after[i] = open_files[i]
    BY <1>7, <2>2 DEF IsOpen, SameFile
  <2>3. QED
    BY <1>6, <2>1, <2>2
<1>8. QED
  BY <1>1, <1>6, <1>7 DEF FdsStep

LEMMA ReadStep ==
  ASSUME Inv, NEW fd, NEW len \in ReadLens, Read(fd, len)
  PROVE  FdsStep
<1> DEFINE of == open_files[fd]
           f == FdMount(fd).filesystem
           n == BytesRead(fs[f][of.relative_path], of.position, len)
           new == [of EXCEPT !.position = of.position + n]
<1>1. /\ IsOpen(fd) /\ of \in OpenFile /\ FdResolves(fd)
      /\ HasFile(fs[f], of.relative_path)
  BY FdProperties DEF Read
<1>2. of.path \in AbsPaths /\ of.position \in Nat
  BY <1>1 DEF OpenFile, Positions
<1>3. f \in Filesystems
  BY <1>1, <1>2, ResolveProperties DEF FdResolves, FdMount, Inv
<1>4. fs[f][of.relative_path].data \in Data
  BY <1>1, <1>3 DEF Inv, TreesOK, HasFile, IsTree, Node
<1> DEFINE size == Size(fs[f][of.relative_path])
<1>5. size \in Nat /\ size <= MaxFileSize
  BY <1>4, DataLength DEF Size
<1>6. n \in Nat /\ (n = 0 \/ of.position + n <= size)
  <2>1. len \in Nat
    BY CallsAssumption
  <2> HIDE DEF size
  <2>2. CASE of.position >= size
    BY <2>2 DEF BytesRead, size
  <2>3. CASE ~ (of.position >= size)
    <3>1. size - of.position \in Nat
      BY <1>2, <1>5, <2>3
    <3> DEFINE m == Min({len, size - of.position})
    <3>2. m \in Nat /\ m <= size - of.position
      BY <2>1, <3>1, MinOfTwo
    <3>3. n = m
      BY <2>3 DEF BytesRead, size
    <3> HIDE DEF m, n
    <3>4. QED
      BY <1>2, <1>5, <3>2, <3>3
  <2>4. QED
    BY <2>2, <2>3
<1> HIDE DEF n, size
<1>7. new \in OpenFile /\ SameFile(of, new)
  <2>1. of.position + n \in Positions
    BY <1>1, <1>2, <1>5, <1>6, BoundsAssumption, HalfAssumption DEF OpenFile, Positions
  <2>2. QED
    BY <1>1, <2>1 DEF OpenFile, SameFile
<1>8. open_files' = [open_files EXCEPT ![fd] = new]
  BY DEF Read, n
<1> HIDE DEF new
<1>9. QED
  BY <1>1, <1>7, <1>8, OneFile

LEMMA WriteStep ==
  ASSUME Inv, NEW fd, NEW bytes \in Writes, Write(fd, bytes)
  PROVE  FdsStep
<1> DEFINE of == open_files[fd]
<1>1. IsOpen(fd) /\ of \in OpenFile
  BY FdProperties DEF Write
<1>2. /\ of.position \in Positions /\ of.position \in Nat
      /\ of.size \in Positions /\ of.size \in Nat
  BY <1>1 DEF OpenFile, Positions
<1>3. PICK n \in WriteLens(Len(bytes)) :
        /\ (n = 0 \/ of.position + n <= MaxFileSize)
        /\ open_files' = [open_files EXCEPT ![fd].position = of.position + n,
                                            ![fd].size = Max({@, of.position + n})]
  BY DEF Write
<1>4. n \in Nat
  BY <1>2, <1>3, WrittenBytes
<1> DEFINE end == of.position + n
           size == Max({of.size, end})
           new == [of EXCEPT !.position = end, !.size = size]
<1>5. end \in Positions /\ size \in Positions
  <2>1. end \in Positions /\ end \in Nat
    BY <1>2, <1>3, <1>4, BoundsAssumption, HalfAssumption DEF Positions
  <2>2. size \in {of.size, end}
    BY <1>2, <2>1, MaxOfTwo
  <2>3. QED
    BY <1>2, <2>1, <2>2
<1>6. open_files' = [open_files EXCEPT ![fd] = new]
  <2>1. open_files \in Seq(OpenFile \cup {None}) /\ fd \in DOMAIN open_files
    BY <1>1 DEF Inv, FdsOK, IsOpen
  <2>2. QED
    BY <1>1, <1>3, <2>1 DEF OpenFile
<1> HIDE DEF size, end
<1>7. new \in OpenFile /\ SameFile(of, new)
  BY <1>1, <1>5 DEF OpenFile, SameFile
<1> HIDE DEF new
<1>8. QED
  BY <1>1, <1>6, <1>7, OneFile

(* A wrapping sum of i64 that is not negative has not wrapped.             *)
LEMMA AddSignedExact ==
  ASSUME NEW a \in Positions, NEW b \in I64, AddSigned(a, b) >= 0
  PROVE  AddSigned(a, b) = a + b /\ a + b \in Positions
  BY HalfAssumption DEF AddSigned, Positions, I64, Word

LEMMA SeekToProperties ==
  ASSUME NEW of \in OpenFile, NEW offset \in I64,
         NEW whence \in {"Start", "Current", "End"}, SeekTo(of, offset, whence) >= 0
  PROVE  /\ SeekTo(of, offset, whence) \in Positions
         /\ SeekTo(of, offset, whence) = SeekBase(of, whence) + offset
<1> DEFINE base == SeekBase(of, whence)
<1>1. base \in Positions
  BY HalfAssumption DEF SeekBase, OpenFile, Positions
<1> HIDE DEF base
<1>2. AsSigned(base) = base
  BY <1>1, HalfAssumption DEF AsSigned, Positions
<1>3. SeekTo(of, offset, whence) = AddSigned(base, offset)
  BY <1>2 DEF SeekTo, base
<1>4. QED
  BY <1>1, <1>3, AddSignedExact DEF base

LEMMA SeekStep ==
  ASSUME Inv, NEW fd, NEW offset \in I64, NEW whence \in {"Start", "Current", "End"},
         Seek(fd, offset, whence)
  PROVE  FdsStep
<1> DEFINE of == open_files[fd]
           to == SeekTo(of, offset, whence)
           new == [of EXCEPT !.position = to]
<1>1. IsOpen(fd) /\ of \in OpenFile
  BY FdProperties DEF Seek
<1>2. to >= 0 /\ open_files' = [open_files EXCEPT ![fd] = new]
  BY DEF Seek
<1>3. to \in Positions
  BY <1>1, <1>2, SeekToProperties
<1> HIDE DEF to
<1>4. new \in OpenFile /\ SameFile(of, new)
  BY <1>1, <1>3 DEF OpenFile, SameFile
<1> HIDE DEF new
<1>5. QED
  BY <1>1, <1>2, <1>4, OneFile

LEMMA CloseStep ==
  ASSUME Inv, NEW fd, Close(fd)
  PROVE  FdsStep
<1>1. open_files' = [i \in DOMAIN open_files |->
                       IF i \in {fd} THEN None ELSE open_files[i]]
  BY DEF Close
<1>2. QED
  BY <1>1, SlotsEmptied

LEMMA VfsUmountStep ==
  ASSUME Inv, NEW arg, VfsUmount(arg)
  PROVE  FdsStep
<1> DEFINE S == {fd \in DOMAIN open_files :
                   open_files[fd] # None /\ StartsWith(open_files[fd].path, MountPath(arg))}
<1>1. open_files' = [fd \in DOMAIN open_files |->
                       IF fd \in S THEN None ELSE open_files[fd]]
  BY DEF VfsUmount, ForceClosed
<1> HIDE DEF S
<1>2. QED
  BY <1>1, SlotsEmptied

-----------------------------------------------------------------------------
(* Every step.                                                             *)

Kept == WellFormed(mounts') /\ cwd' \in AbsPaths /\ FdsStep /\ FsStep

LEMMA StepKept ==
  ASSUME Inv, [VfsNext]_vars
  PROVE  Kept
<1>1. ASSUME NEW arg \in MountArgs, NEW f \in Filesystems, NEW opts \in Options,
             VfsMount(arg, f, opts)
      PROVE  Kept
  <2>1. WellFormed(mounts')
    BY <1>1, MountStep DEF VfsMount, Inv
  <2>2. QED
    BY <1>1, <2>1, FdsUnchanged, FsUnchanged DEF VfsMount, Inv, Kept
<1>2. ASSUME NEW arg \in MountArgs, VfsUmount(arg)
      PROVE  Kept
  <2>1. WellFormed(mounts')
    BY <1>2, UmountStep DEF VfsUmount, Inv
  <2>2. QED
    BY <1>2, <2>1, VfsUmountStep, FsUnchanged DEF VfsUmount, Inv, Kept
<1>3. ASSUME NEW arg \in OpenArgs, NEW flags \in FlagSets,
             Open(arg, flags) \/ OpenFails(arg, flags)
      PROVE  Kept
  <2>1. CASE Open(arg, flags)
    BY <2>1, OpenStep, OpenChangesFs DEF Open, Inv, Kept
  <2>2. CASE OpenFails(arg, flags)
    BY <2>2, FdsUnchanged, OpenFailsChangesFs DEF OpenFails, Inv, Kept
  <2>3. QED
    BY <1>3, <2>1, <2>2
<1>4. ASSUME NEW fd, NEW len \in ReadLens, Read(fd, len)
      PROVE  Kept
  BY <1>4, ReadStep, FsUnchanged DEF Read, Inv, Kept
<1>5. ASSUME NEW fd, NEW bytes \in Writes, Write(fd, bytes)
      PROVE  Kept
  BY <1>5, WriteStep, WriteChangesFs DEF Write, Inv, Kept
<1>6. ASSUME NEW fd, NEW offset \in I64, NEW whence \in {"Start", "Current", "End"},
             Seek(fd, offset, whence)
      PROVE  Kept
  BY <1>6, SeekStep, FsUnchanged DEF Seek, Inv, Kept
<1>7. ASSUME NEW fd, Close(fd)
      PROVE  Kept
  BY <1>7, CloseStep, FsUnchanged DEF Close, Inv, Kept
<1>8. ASSUME NEW arg \in Args, Cd(arg) \/ Mkdir(arg) \/ Rmdir(arg) \/ Rm(arg)
      PROVE  Kept
  <2>1. CASE Cd(arg)
    <3>1. cwd' \in AbsPaths
      BY <2>1 DEF Cd, Located
    <3>2. QED
      BY <2>1, <3>1, FdsUnchanged, FsUnchanged DEF Cd, Inv, Kept
  <2>2. CASE Mkdir(arg) \/ Rmdir(arg) \/ Rm(arg)
    BY <2>2, FdsUnchanged, DirectoryCallsChangeFs DEF Mkdir, Rmdir, Rm, Inv, Kept
  <2>3. QED
    BY <1>8, <2>1, <2>2
<1>9. ASSUME NEW src, NEW dst,
             \/ Cp(src, dst) \/ CpFails(src, dst)
             \/ MvRename(src, dst) \/ MvCopy(src, dst) \/ MvFails(src, dst)
      PROVE  Kept
  <2>1. FsStep
    BY <1>9, CopyCallsChangeFs, MvRenameChangesFs, MvCopyChangesFs DEF MvFails
  <2>2. UNCHANGED <<mounts, open_files, cwd>>
    BY <1>9 DEF Cp, CpFails, MvRename, MvCopy, MvFails
  <2>3. QED
    BY <2>1, <2>2, FdsUnchanged DEF Inv, Kept
<1>10. CASE UNCHANGED vars
  BY <1>10, FdsUnchanged, FsUnchanged DEF vars, Inv, Kept
<1>11. CASE MountCall
  BY <1>1, <1>2, <1>11 DEF MountCall
<1>12. CASE FdCall
  <2>1. ASSUME NEW fd, NEW seek \in Seeks, Seek(fd, seek[1], seek[2])
        PROVE  Kept
    BY <1>6, <2>1, CallsAssumption
  <2>2. QED
    BY <1>3, <1>4, <1>5, <1>7, <1>12, <2>1 DEF FdCall
<1>13. CASE PathCall
  BY <1>8, <1>9, <1>13 DEF PathCall
<1>14. QED
  BY <1>10, <1>11, <1>12, <1>13 DEF VfsNext

LEMMA InitInv == VfsInit => Inv
<1> SUFFICES ASSUME VfsInit PROVE Inv
  OBVIOUS
<1>1. WellFormed(mounts)
  BY InitWellFormed DEF VfsInit, TableInit
<1>2. FdsOK(open_files)
  BY BoundsAssumption DEF VfsInit, FdsOK
<1>3. cwd \in AbsPaths
  BY BoundsAssumption DEF VfsInit
<1>4. TreesOK(fs)
  BY BoundsAssumption DEF VfsInit, TreesOK
<1>5. QED
  BY <1>1, <1>2, <1>3, <1>4 DEF Inv

LEMMA InvStep == Inv /\ [VfsNext]_vars => Inv'
<1> SUFFICES ASSUME Inv, [VfsNext]_vars PROVE Inv'
  OBVIOUS
<1>1. Kept
  BY StepKept
<1>2. QED
  BY <1>1 DEF Kept, Inv, FdsStep, FsStep, FsStepTo

(* Every reachable state has the inductive invariant. *)
THEOREM VfsInvariant == VfsSpec => []Inv
  BY InitInv, InvStep, PTL DEF VfsSpec

-----------------------------------------------------------------------------
(* The properties.                                                         *)

(* The tables hold what the methods put there, the open-file table never    *)
(* outgrows MAX_OPEN_FILES and the filesystems remain trees, whatever calls *)
(* are made and whichever of them fail half way.                            *)
THEOREM VfsTypeCorrect == VfsSpec => []VfsTypeOK
  BY VfsInvariant, InvImpliesTypeOK, PTL

(* A filesystem that no mount shows as writable never changes: no call, and *)
(* no descriptor, gets around a read-only mount.                            *)
THEOREM VfsHonoursReadOnly == VfsSpec => ReadOnlyHonoured
<1>1. ASSUME Inv, [VfsNext]_vars
      PROVE  [\A f \in Filesystems :
                (\A i \in DOMAIN mounts :
                   mounts[i].filesystem = f => mounts[i].options.read_only)
                  => fs'[f] = fs[f]]_vars
  <2>1. FsStep
    BY <1>1, StepKept DEF Kept
  <2>2. QED
    BY <2>1 DEF FsStep, FsStepTo, Writable
<1>2. QED
  BY <1>1, VfsInvariant, PTL DEF VfsSpec, ReadOnlyHonoured

(* FdsStep, seen as a step of the map from descriptors to files. *)
LEMMA FdsStepImplementsFdTable ==
  ASSUME Inv, FdsStep
  PROVE  [Fds!Next]_OpenDescriptors
<1> DEFINE open == {i \in DOMAIN open_files : IsOpen(i)}
           opened == {i \in DOMAIN open_files' : open_files'[i] # None}
           before == OpenDescriptors
           after == OpenDescriptors'
<1>1. /\ DOMAIN before = open
      /\ \A i \in open : before[i] = FileOf(open_files[i])
  BY DEF OpenDescriptors
<1>2. /\ after = [i \in opened |-> FileOf(open_files'[i])]
      /\ DOMAIN after = opened
      /\ \A i \in opened : after[i] = FileOf(open_files'[i])
  BY DEF OpenDescriptors, IsOpen
<1>3. \A i \in opened : \/ i \in open /\ SameFile(open_files[i], open_files'[i])
                        \/ FreshFile(i)
  BY DEF FdsStep, IsOpen
<1>4. \A i \in open \cap opened : after[i] = before[i]
  BY <1>1, <1>2, <1>3 DEF SameFile, FileOf, FreshFile, IsOpen
<1>5. opened \subseteq 1..MaxOpenFiles /\ MaxOpenFiles \in Nat
  <2>1. FdsOK(open_files')
    BY DEF FdsStep
  <2>2. Len(open_files') \in Nat /\ DOMAIN open_files' = 1..Len(open_files')
        /\ Len(open_files') <= MaxOpenFiles /\ MaxOpenFiles \in Nat
    BY <2>1, BoundsAssumption DEF FdsOK
  <2>3. QED
    BY <2>2
<1>6. after = [i \in opened |-> after[i]] /\ before = [i \in open |-> before[i]]
  BY <1>1, <1>2 DEF OpenDescriptors
<1>7. CASE opened \subseteq open
  <2>1. after = [i \in DOMAIN before \ (open \ opened) |-> before[i]]
    <3>1. DOMAIN before \ (open \ opened) = opened
      BY <1>1, <1>7
    <3> HIDE DEF open, opened, before, after
    <3>2. \A i \in opened : after[i] = before[i]
      BY <1>4, <1>7
    <3>3. QED
      BY <1>6, <3>1, <3>2
  <2>2. Fds!Close(open \ opened)
    BY <2>1 DEF Fds!Close
  <2>3. open \ opened \in SUBSET DOMAIN before
    BY <1>1
  <2>4. QED
    BY <2>2, <2>3 DEF Fds!Next
<1>8. CASE ~ (opened \subseteq open)
  <2>1. PICK fd \in opened : fd \notin open
    BY <1>8
  <2>2. FreshFile(fd)
    BY <1>3, <2>1
  <2>3. \A i \in open : i \in opened
    BY <2>2 DEF FreshFile, IsOpen, FdsStep
  <2>4. \A i \in opened : i \in open \/ i = fd
    <3> SUFFICES ASSUME NEW i \in opened, i \notin open, i # fd
                 PROVE  FALSE
      OBVIOUS
    <3>1. FreshFile(i)
      BY <1>3
    <3>2. i \in 1..MaxOpenFiles /\ fd \in 1..MaxOpenFiles
      BY <1>5
    <3>3. i \in 1..(fd - 1) \/ fd \in 1..(i - 1)
      BY <1>5, <3>2
    <3>4. QED
      BY <2>2, <3>1, <3>3 DEF FreshFile, IsOpen
  <2>5. opened = open \cup {fd}
    BY <2>1, <2>3, <2>4
  <2>6. Fds!LowestFree(fd)
    <3>1. 1..(fd - 1) \subseteq open
      BY <2>2 DEF FreshFile, IsOpen
    <3>2. QED
      BY <1>1, <1>5, <2>1, <3>1 DEF Fds!LowestFree
  <2>7. Fds!Open(fd)
    <3> HIDE DEF open, opened, before, after
    <3>1. DOMAIN after = DOMAIN before \cup {fd}
      BY <1>1, <1>2, <2>5
    <3>2. \A i \in opened : after[i] = IF i = fd THEN after[fd] ELSE before[i]
      BY <1>4, <2>4
    <3>3. after = [i \in DOMAIN after |-> IF i = fd THEN after[fd] ELSE before[i]]
      BY <1>2, <1>6, <3>2
    <3>4. QED
      BY <2>6, <3>1, <3>3 DEF Fds!Open, before, after
  <2>8. QED
    BY <1>5, <2>1, <2>7 DEF Fds!Next
<1>9. QED
  BY <1>7, <1>8

(* The open-file table implements a map from descriptors to files in which  *)
(* open takes the lowest free descriptor, never one in use, and nothing     *)
(* else disturbs a descriptor that stays open.                              *)
THEOREM VfsImplementsFdTable == VfsSpec => ImplementsFdTable
<1>1. VfsInit => Fds!Init
  BY DEF VfsInit, Fds!Init, OpenDescriptors, IsOpen
<1>2. ASSUME Inv, [VfsNext]_vars
      PROVE  [Fds!Next]_OpenDescriptors
  BY <1>2, StepKept, FdsStepImplementsFdTable DEF Kept
<1>3. QED
  BY <1>1, <1>2, VfsInvariant, PTL DEF VfsSpec, ImplementsFdTable, Fds!Spec

-----------------------------------------------------------------------------
(* Descriptors and the mounts they are on, while no mount folds case.      *)

LEMMA CaseSensitiveTables ==
  ASSUME CaseSensitive, NEW ms \in Seq(MountPoint)
  PROVE  \A i \in DOMAIN ms : ms[i] \in MountPoint /\ ~ ms[i].options.case_insensitive
<1>1. \A i \in DOMAIN ms : ms[i] \in MountPoint
  OBVIOUS
<1>2. QED
  BY <1>1 DEF CaseSensitive, MountPoint

(* The mounts that a path is on, as a set. *)
Covering(ms, p) == {m \in MountSet(ms) : Covers(m.path, p)}

LEMMA ResolvesByCovering ==
  ASSUME CaseSensitive, NEW ms, WellFormed(ms), NEW p \in AbsPaths
  PROVE  /\ Owners(ms, p) = {i \in DOMAIN ms : Covers(ms[i].path, p)}
         /\ CanResolve(ms, p) <=> Covering(ms, p) # {}
<1>1. ms \in Seq(MountPoint) /\ DOMAIN ms = 1..Len(ms)
  BY DEF WellFormed
<1>2. \A i \in DOMAIN ms : Matches(ms[i], Normalize(p)) <=> Covers(ms[i].path, p)
  BY <1>1, CaseSensitiveTables, MatchesIsCovers
<1>3. Owners(ms, p) = {i \in DOMAIN ms : Covers(ms[i].path, p)}
  BY <1>2 DEF Owners
<1>4. CanResolve(ms, p) <=> Covering(ms, p) # {}
  BY <1>1, <1>3 DEF CanResolve, Covering, MountSet
<1>5. QED
  BY <1>3, <1>4

(* The owner of a path is the longest of the mounts it is on. *)
LEMMA OwnerIsLongest ==
  ASSUME CaseSensitive, NEW ms, WellFormed(ms), NEW p \in AbsPaths, CanResolve(ms, p)
  PROVE  /\ ms[OwnerIndex(ms, p)] \in Covering(ms, p)
         /\ \A m \in Covering(ms, p) : ByteLen(m.path) <= ByteLen(ms[OwnerIndex(ms, p)].path)
<1> DEFINE o == OwnerIndex(ms, p)
<1>1. ms \in Seq(MountPoint) /\ DOMAIN ms = 1..Len(ms)
  BY DEF WellFormed
<1>2. Owners(ms, p) = {i \in DOMAIN ms : Covers(ms[i].path, p)}
  BY ResolvesByCovering
<1>3. /\ o \in Owners(ms, p) /\ o \in 1..Len(ms)
      /\ \A i \in Owners(ms, p) : i \in 1..Len(ms) /\ o <= i
  BY <1>1, OwnerIndexProperties
<1> HIDE DEF o
<1>4. ms[o] \in Covering(ms, p)
  BY <1>2, <1>3 DEF Covering, MountSet
<1>5. ASSUME NEW m \in Covering(ms, p)
      PROVE  ByteLen(m.path) <= ByteLen(ms[o].path)
  <2>1. PICK i \in 1..Len(ms) : ms[i] = m
    BY DEF Covering, MountSet
  <2>2. i \in Owners(ms, p)
    BY <1>1, <1>2, <2>1 DEF Covering
  <2>3. o <= i
    BY <1>3, <2>2
  <2>4. ByteLen(ms[i].path) \in Nat /\ ByteLen(ms[o].path) \in Nat
    BY <1>1, <1>3, LengthsAreNaturals
  <2>5. CASE o = i
    BY <2>1, <2>4, <2>5
  <2>6. CASE o < i
    BY <1>3, <2>1, <2>6 DEF WellFormed
  <2>7. QED
    BY <1>3, <2>3, <2>5, <2>6
<1>6. QED
  BY <1>4, <1>5 DEF o

(* So two tables that agree on those mounts resolve the path alike. *)
LEMMA SameCoveringSameResolve ==
  ASSUME CaseSensitive, NEW ms, WellFormed(ms), NEW mt, WellFormed(mt),
         NEW p \in AbsPaths, CanResolve(ms, p), Covering(ms, p) = Covering(mt, p)
  PROVE  CanResolve(mt, p) /\ Resolve(mt, p) = Resolve(ms, p)
<1>1. CanResolve(mt, p)
  BY ResolvesByCovering
<1> DEFINE m == ms[OwnerIndex(ms, p)]
           n == mt[OwnerIndex(mt, p)]
<1>2. /\ m \in Covering(ms, p)
      /\ \A x \in Covering(ms, p) : ByteLen(x.path) <= ByteLen(m.path)
  BY OwnerIsLongest
<1>3. /\ n \in Covering(mt, p)
      /\ \A x \in Covering(mt, p) : ByteLen(x.path) <= ByteLen(n.path)
  BY <1>1, OwnerIsLongest
<1>4. m.path \in MountPaths /\ n.path \in MountPaths
  <2>1. \A x \in MountSet(ms) : x \in MountPoint
    BY DEF WellFormed, MountSet
  <2>2. \A x \in MountSet(mt) : x \in MountPoint
    BY DEF WellFormed, MountSet
  <2> HIDE DEF m, n
  <2>3. QED
    BY <1>2, <1>3, <2>1, <2>2 DEF Covering, MountPoint
<1> HIDE DEF m, n
<1>5. Covers(m.path, p) /\ Covers(n.path, p)
  BY <1>2, <1>3 DEF Covering
<1>6. ByteLen(m.path) = ByteLen(n.path)
  <2>1. ByteLen(m.path) \in Nat /\ ByteLen(n.path) \in Nat
    BY <1>4, ByteLenAssumption
  <2>2. QED
    BY <1>2, <1>3, <2>1
<1>7. m.path = n.path
  BY <1>4, <1>5, <1>6, ByteLenAssumption
<1>8. m = n
  <2>1. m \in MountSet(mt) /\ n \in MountSet(mt)
    BY <1>2, <1>3 DEF Covering
  <2>2. QED
    BY <1>7, <2>1 DEF WellFormed, MountSet
<1>9. QED
  BY <1>1, <1>8 DEF Resolve, m, n

(* mount() and umount() alone change the table. *)
LEMMA TableCases ==
  ASSUME [VfsNext]_vars
  PROVE  \/ UNCHANGED mounts
         \/ \E arg \in MountArgs, f \in Filesystems, opts \in Options :
              VfsMount(arg, f, opts)
         \/ \E arg \in MountArgs : VfsUmount(arg)
<1>1. CASE FdCall
  BY <1>1 DEF FdCall, Open, OpenFails, Read, Write, Seek, Close
<1>2. CASE PathCall
  BY <1>2 DEF PathCall, Cd, Mkdir, Rmdir, Rm, Cp, CpFails, MvRename, MvCopy, MvFails
<1>3. CASE MountCall
  BY <1>3 DEF MountCall
<1>4. CASE UNCHANGED vars
  BY <1>4 DEF vars
<1>5. QED
  BY <1>1, <1>2, <1>3, <1>4 DEF VfsNext

(* A mount replaces a mount at the same path or is added to the others. *)
LEMMA MountKeepsCovering ==
  ASSUME Inv, NEW arg \in MountArgs, NEW f \in Filesystems, NEW opts \in Options,
         VfsMount(arg, f, opts), NEW p, Covering(mounts, p) # {}
  PROVE  Covering(mounts', p) # {}
<1> DEFINE new == [path |-> MountPath(arg), filesystem |-> f, options |-> opts]
<1>1. MountSet(mounts') = {m \in MountSet(mounts) : m.path # MountPath(arg)} \cup {new}
  BY MountStep DEF VfsMount, Inv
<1>2. new.path = MountPath(arg)
  OBVIOUS
<1> HIDE DEF new
<1>3. PICK m \in MountSet(mounts) : Covers(m.path, p)
  BY DEF Covering
<1>4. CASE m.path # MountPath(arg)
  BY <1>1, <1>3, <1>4 DEF Covering
<1>5. CASE m.path = MountPath(arg)
  BY <1>1, <1>2, <1>3, <1>5 DEF Covering
<1>6. QED
  BY <1>4, <1>5

(* A file that umount() leaves open keeps every mount it is on: the mount   *)
(* that goes away would be a prefix of its path.                            *)
LEMMA UmountKeepsCovering ==
  ASSUME Inv, NEW arg, VfsUmount(arg), NEW fd \in DOMAIN open_files,
         IsOpen(fd), open_files'[fd] # None
  PROVE  Covering(mounts', open_files[fd].path) = Covering(mounts, open_files[fd].path)
<1> DEFINE p == open_files[fd].path
<1>1. ~ StartsWith(p, MountPath(arg))
  BY DEF VfsUmount, ForceClosed, IsOpen
<1>2. CASE Umount(arg)
  <2>1. MountSet(mounts') = {m \in MountSet(mounts) : m.path # MountPath(arg)}
    BY <1>2, UmountStep DEF Inv
  <2>2. \A m \in MountSet(mounts) : Covers(m.path, p) => m.path # MountPath(arg)
    BY <1>1 DEF Covers
  <2> HIDE DEF p
  <2>3. Covering(mounts', p) = Covering(mounts, p)
    BY <2>1, <2>2 DEF Covering
  <2>4. QED
    BY <2>3 DEF p
<1>3. CASE UNCHANGED mounts
  BY <1>3 DEF Covering
<1>4. QED
  BY <1>2, <1>3 DEF VfsUmount

(* Every open file is on a mount. *)
OnMount ==
  \A fd \in DOMAIN open_files : IsOpen(fd) => Covering(mounts, open_files[fd].path) # {}

LEMMA OnMountStep ==
  ASSUME CaseSensitive, Inv, OnMount, [VfsNext]_vars
  PROVE  OnMount'
<1>1. Kept /\ FdsStep
  BY StepKept DEF Kept
<1> SUFFICES ASSUME NEW fd \in DOMAIN open_files', open_files'[fd] # None
             PROVE  Covering(mounts', open_files'[fd].path) # {}
  BY DEF OnMount, IsOpen
<1>2. CASE FreshFile(fd)
  <2>1. PICK arg \in OpenArgs : Located(arg) /\ open_files'[fd].path = Abs(arg)
    BY <1>2 DEF FreshFile
  <2>2. Covering(mounts, Abs(arg)) # {}
    BY <2>1, ResolvesByCovering DEF Located, Inv
  <2>3. QED
    BY <1>2, <2>1, <2>2 DEF FreshFile
<1>3. CASE IsOpen(fd) /\ SameFile(open_files[fd], open_files'[fd])
  <2>1. fd \in DOMAIN open_files /\ open_files'[fd].path = open_files[fd].path
    BY <1>3 DEF IsOpen, SameFile
  <2>2. Covering(mounts, open_files[fd].path) # {}
    BY <1>3, <2>1 DEF OnMount
  <2>3. CASE UNCHANGED mounts
    BY <2>1, <2>2, <2>3
  <2>4. ASSUME NEW arg \in MountArgs, NEW f \in Filesystems, NEW opts \in Options,
               VfsMount(arg, f, opts)
        PROVE  Covering(mounts', open_files'[fd].path) # {}
    BY <2>1, <2>2, <2>4, MountKeepsCovering
  <2>5. ASSUME NEW arg \in MountArgs, VfsUmount(arg)
        PROVE  Covering(mounts', open_files'[fd].path) # {}
    BY <1>3, <2>1, <2>2, <2>5, UmountKeepsCovering
  <2>6. QED
    BY <2>3, <2>4, <2>5, TableCases
<1>4. QED
  BY <1>1, <1>2, <1>3 DEF FdsStep

(* While no mount folds case, no open file ever loses its last mount.       *)
THEOREM VfsNoDanglingFd == VfsSpec => []NoDanglingFd
<1>1. VfsInit => OnMount
  BY DEF VfsInit, OnMount
<1>2. CaseSensitive /\ Inv /\ OnMount /\ [VfsNext]_vars => OnMount'
  BY OnMountStep
<1>3. ASSUME CaseSensitive, Inv, OnMount, NEW fd \in DOMAIN open_files, IsOpen(fd)
      PROVE  FdResolves(fd)
  <2>1. open_files[fd].path \in AbsPaths
    BY <1>3, FdProperties DEF OpenFile
  <2>2. QED
    BY <1>3, <2>1, ResolvesByCovering DEF OnMount, FdResolves, Inv
<1>4. Inv /\ (CaseSensitive => OnMount) => NoDanglingFd
  BY <1>3 DEF NoDanglingFd
<1> DEFINE Ind == Inv /\ (CaseSensitive => OnMount)
<1>5. VfsInit => Ind
  BY <1>1, InitInv
<1>6. Ind /\ [VfsNext]_vars => Ind'
  <2> SUFFICES ASSUME Ind, [VfsNext]_vars PROVE Ind'
    OBVIOUS
  <2>1. Inv'
    BY InvStep
  <2>2. CaseSensitive' = CaseSensitive
    BY DEF CaseSensitive
  <2>3. QED
    BY <1>2, <2>1, <2>2
<1>7. Ind => NoDanglingFd
  BY <1>4
<1> HIDE DEF Ind
<1>8. QED
  BY <1>5, <1>6, <1>7, PTL DEF VfsSpec

(* The mount that a path has moved to, if it was there before, is the one   *)
(* the path was on: mount() takes away at most the mount it puts another    *)
(* in the place of.                                                         *)
LEMMA MountRedirectsToItself ==
  ASSUME CaseSensitive, Inv, WellFormed(mounts'),
         NEW arg \in MountArgs, NEW f \in Filesystems, NEW opts \in Options,
         VfsMount(arg, f, opts), NEW p \in AbsPaths,
         CanResolve(mounts, p), CanResolve(mounts', p),
         mounts'[OwnerIndex(mounts', p)] \in MountSet(mounts)
  PROVE  Resolve(mounts', p) = Resolve(mounts, p)
<1> DEFINE new == [path |-> MountPath(arg), filesystem |-> f, options |-> opts]
           m == mounts[OwnerIndex(mounts, p)]
           n == mounts'[OwnerIndex(mounts', p)]
<1>1. MountSet(mounts') = {x \in MountSet(mounts) : x.path # MountPath(arg)} \cup {new}
  BY MountStep DEF VfsMount, Inv
<1>2. new.path = MountPath(arg)
  OBVIOUS
<1>3. WellFormed(mounts)
  BY DEF Inv
<1>4. /\ m \in Covering(mounts, p)
      /\ \A x \in Covering(mounts, p) : ByteLen(x.path) <= ByteLen(m.path)
  BY <1>3, OwnerIsLongest
<1>5. /\ n \in Covering(mounts', p)
      /\ \A x \in Covering(mounts', p) : ByteLen(x.path) <= ByteLen(n.path)
  BY OwnerIsLongest
<1> HIDE DEF m, n, new
<1>6. n \in Covering(mounts, p)
  BY <1>5 DEF Covering, n
<1>7. m.path \in MountPaths /\ n.path \in MountPaths
  <2>1. \A x \in MountSet(mounts) : x \in MountPoint
    BY <1>3 DEF WellFormed, MountSet
  <2>2. QED
    BY <1>4, <1>6, <2>1 DEF Covering, MountPoint
<1>8. ByteLen(m.path) <= ByteLen(n.path)
  <2>1. CASE m.path = MountPath(arg)
    <3>1. new \in Covering(mounts', p)
      BY <1>1, <1>2, <1>4, <2>1 DEF Covering
    <3>2. QED
      BY <1>2, <1>5, <2>1, <3>1
  <2>2. CASE m.path # MountPath(arg)
    <3>1. m \in Covering(mounts', p)
      BY <1>1, <1>4, <2>2 DEF Covering
    <3>2. QED
      BY <1>5, <3>1
  <2>3. QED
    BY <2>1, <2>2
<1>9. m.path = n.path
  <2>1. ByteLen(m.path) = ByteLen(n.path)
    <3>1. ByteLen(m.path) \in Nat /\ ByteLen(n.path) \in Nat
      BY <1>7, ByteLenAssumption
    <3>2. ByteLen(n.path) <= ByteLen(m.path)
      BY <1>4, <1>6
    <3>3. QED
      BY <1>8, <3>1, <3>2
  <2>2. Covers(m.path, p) /\ Covers(n.path, p)
    BY <1>4, <1>6 DEF Covering
  <2>3. QED
    BY <1>7, <2>1, <2>2, ByteLenAssumption
<1>10. m = n
  <2>1. m \in MountSet(mounts) /\ n \in MountSet(mounts)
    BY <1>4, <1>6 DEF Covering
  <2>2. QED
    BY <1>3, <1>9, <2>1 DEF WellFormed, MountSet
<1>11. QED
  BY <1>10 DEF Resolve, m, n

(* A file that stays open moves to another mount only when that mount is    *)
(* made: no umount, and no mount elsewhere, uncovers the mount around it.   *)
THEOREM VfsOnlyMountRedirects == VfsSpec => OnlyMountRedirects
<1>1. ASSUME Inv, [VfsNext]_vars, CaseSensitive,
             NEW fd \in DOMAIN open_files, IsOpen(fd), open_files'[fd] # None,
             CanResolve(mounts, open_files[fd].path)
      PROVE  LET path == open_files[fd].path
             IN  /\ CanResolve(mounts', path)
                 /\ \/ Resolve(mounts', path) = Resolve(mounts, path)
                    \/ mounts'[OwnerIndex(mounts', path)] \notin Range(mounts)
  <2> DEFINE p == open_files[fd].path
  <2>1. WellFormed(mounts) /\ WellFormed(mounts')
    BY <1>1, StepKept DEF Kept, Inv
  <2>2. p \in AbsPaths
    BY <1>1, FdProperties DEF OpenFile
  <2>3. Covering(mounts, p) # {}
    BY <1>1, <2>1, <2>2, ResolvesByCovering
  <2>4. Range(mounts) = MountSet(mounts)
    BY <2>1 DEF Range, MountSet, WellFormed
  <2>5. Covering(mounts', p) = Covering(mounts, p) =>
          CanResolve(mounts', p) /\ Resolve(mounts', p) = Resolve(mounts, p)
    BY <1>1, <2>1, <2>2, SameCoveringSameResolve
  <2> HIDE DEF p
  <2>6. CASE UNCHANGED mounts
    BY <2>5, <2>6 DEF p
  <2>7. ASSUME NEW arg \in MountArgs, VfsUmount(arg)
        PROVE  Covering(mounts', p) = Covering(mounts, p)
    BY <1>1, <2>7, UmountKeepsCovering DEF p
  <2>8. ASSUME NEW arg \in MountArgs, NEW f \in Filesystems, NEW opts \in Options,
               VfsMount(arg, f, opts)
        PROVE  /\ CanResolve(mounts', p)
               /\ \/ Resolve(mounts', p) = Resolve(mounts, p)
                  \/ mounts'[OwnerIndex(mounts', p)] \notin Range(mounts)
    <3>1. Covering(mounts', p) # {}
      BY <1>1, <2>3, <2>8, MountKeepsCovering
    <3>2. CanResolve(mounts', p)
      BY <1>1, <2>1, <2>2, <3>1, ResolvesByCovering
    <3>3. CanResolve(mounts, p)
      BY <1>1 DEF p
    <3>4. QED
      BY <1>1, <2>1, <2>2, <2>4, <2>8, <3>2, <3>3, MountRedirectsToItself
  <2>9. QED
    BY <1>1, <2>5, <2>6, <2>7, <2>8, TableCases DEF p
<1>2. ASSUME Inv, [VfsNext]_vars
      PROVE  [CaseSensitive =>
                \A fd \in DOMAIN open_files :
                  LET path == open_files[fd].path
                  IN  IsOpen(fd) /\ open_files'[fd] # None /\ CanResolve(mounts, path) =>
                        /\ CanResolve(mounts', path)
                        /\ \/ Resolve(mounts', path) = Resolve(mounts, path)
                           \/ mounts'[OwnerIndex(mounts', path)] \notin Range(mounts)]_vars
  BY <1>1, <1>2
<1>3. QED
  BY <1>2, VfsInvariant, PTL DEF VfsSpec, OnlyMountRedirects

(* The relative path of an open file is what its path has behind a mount    *)
(* path that covers it.                                                     *)
StoredRelative ==
  \A fd \in DOMAIN open_files :
    IsOpen(fd) =>
      \E q \in MountPaths :
        /\ Covers(q, open_files[fd].path)
        /\ open_files[fd].relative_path = RelativeTo([path |-> q], open_files[fd].path)

LEMMA ResolvedRelative ==
  ASSUME CaseSensitive, WellFormed(mounts), NEW p \in AbsPaths, CanResolve(mounts, p)
  PROVE  \E q \in MountPaths :
           /\ Covers(q, p)
           /\ Resolve(mounts, p).relative_path = RelativeTo([path |-> q], p)
<1> DEFINE m == mounts[OwnerIndex(mounts, p)]
<1>1. m \in Covering(mounts, p)
  BY OwnerIsLongest
<1>2. Resolve(mounts, p).relative_path = RelativeTo(m, p)
  BY AbsPathsAreNormal DEF Resolve
<1> HIDE DEF m
<1>3. Covers(m.path, p) /\ m.path \in MountPaths
  <2>1. \A x \in MountSet(mounts) : x \in MountPoint
    BY DEF MountSet, WellFormed
  <2>2. QED
    BY <1>1, <2>1 DEF Covering, MountPoint
<1>4. RelativeTo([path |-> m.path], p) = RelativeTo(m, p)
  BY DEF RelativeTo
<1>5. QED
  BY <1>2, <1>3, <1>4

LEMMA StoredRelativeStep ==
  ASSUME CaseSensitive, Inv, StoredRelative, [VfsNext]_vars
  PROVE  StoredRelative'
<1>1. FdsStep
  BY StepKept DEF Kept
<1> SUFFICES ASSUME NEW fd \in DOMAIN open_files', open_files'[fd] # None
             PROVE  \E q \in MountPaths :
                      /\ Covers(q, open_files'[fd].path)
                      /\ open_files'[fd].relative_path =
                           RelativeTo([path |-> q], open_files'[fd].path)
  BY DEF StoredRelative, IsOpen
<1>2. CASE FreshFile(fd)
  BY <1>2, ResolvedRelative DEF FreshFile, Located, At, Inv
<1>3. CASE IsOpen(fd) /\ SameFile(open_files[fd], open_files'[fd])
  BY <1>3 DEF IsOpen, SameFile, StoredRelative
<1>4. QED
  BY <1>1, <1>2, <1>3 DEF FdsStep

(* Where no mount can lie below another, the relative path stored at open   *)
(* is the one that resolving the file's path again gives.                   *)
THEOREM VfsFlatKeepsRelative == VfsSpec => []FlatKeepsRelative
<1> DEFINE Ind == Inv /\ (CaseSensitive => StoredRelative)
<1>1. VfsInit => Ind
  BY InitInv DEF VfsInit, StoredRelative
<1>2. Ind /\ [VfsNext]_vars => Ind'
  <2> SUFFICES ASSUME Ind, [VfsNext]_vars PROVE Ind'
    OBVIOUS
  <2>1. Inv'
    BY InvStep
  <2>2. CaseSensitive' = CaseSensitive
    BY DEF CaseSensitive
  <2>3. QED
    BY <2>1, <2>2, StoredRelativeStep
<1>3. Ind => FlatKeepsRelative
  <2> SUFFICES ASSUME Ind, Flat, NEW fd \in DOMAIN open_files, IsOpen(fd), FdResolves(fd)
               PROVE  FdMount(fd).relative_path = open_files[fd].relative_path
    BY DEF FlatKeepsRelative
  <2> DEFINE p == open_files[fd].path
  <2>1. CaseSensitive /\ \A q, r \in MountPaths : Covers(q, p) /\ Covers(r, p) => q = r
    BY FdProperties DEF Flat, OpenFile
  <2>2. PICK q \in MountPaths :
          Covers(q, p) /\ open_files[fd].relative_path = RelativeTo([path |-> q], p)
    BY <2>1 DEF StoredRelative
  <2>3. p \in AbsPaths
    BY FdProperties DEF OpenFile
  <2>4. PICK r \in MountPaths :
          Covers(r, p) /\ FdMount(fd).relative_path = RelativeTo([path |-> r], p)
    BY <2>1, <2>3, ResolvedRelative DEF Inv, FdMount, FdResolves
  <2>5. QED
    BY <2>1, <2>2, <2>4
<1> HIDE DEF Ind
<1>4. QED
  BY <1>1, <1>2, <1>3, PTL DEF VfsSpec
-----------------------------------------------------------------------------
(* A seek lands at its base plus its offset, or not at all: no sequence of  *)
(* calls takes a position or a cached size to where u64 and i64 disagree.   *)
THEOREM VfsSeekIsExact == VfsSpec => SeekIsExact
<1>1. ASSUME Inv, NEW fd \in DOMAIN open_files, NEW seek \in Seeks,
             Seek(fd, seek[1], seek[2])
      PROVE  open_files'[fd].position = SeekBase(open_files[fd], seek[2]) + seek[1]
  <2> DEFINE of == open_files[fd]
             to == SeekTo(of, seek[1], seek[2])
  <2>1. /\ of \in OpenFile /\ to >= 0
        /\ open_files' = [open_files EXCEPT ![fd].position = to]
    BY <1>1, FdProperties DEF Seek
  <2>2. seek[1] \in I64 /\ seek[2] \in {"Start", "Current", "End"}
    BY CallsAssumption
  <2>3. to = SeekBase(of, seek[2]) + seek[1]
    BY <2>1, <2>2, SeekToProperties
  <2> HIDE DEF to
  <2>4. open_files'[fd].position = to
    BY <2>1 DEF OpenFile
  <2>5. QED
    BY <2>3, <2>4
<1>2. Inv /\ [VfsNext]_vars =>
        [\A fd \in DOMAIN open_files, seek \in Seeks :
           Seek(fd, seek[1], seek[2]) =>
             open_files'[fd].position = SeekBase(open_files[fd], seek[2]) + seek[1]]_vars
  BY <1>1
<1>3. QED
  BY <1>2, VfsInvariant, PTL DEF VfsSpec, SeekIsExact
=============================================================================
