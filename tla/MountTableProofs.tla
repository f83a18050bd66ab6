-------------------------- MODULE MountTableProofs --------------------------
(***************************************************************************)
(* Proofs about the mount table, for every set of mount arguments, every   *)
(* set of paths, any number of filesystems and any sequence of calls.      *)
(***************************************************************************)
EXTENDS MountTable, PathsProofs

-----------------------------------------------------------------------------
(* Lemmas about mount paths and about the sequence operators of the table. *)

LEMMA MountPathsAreTexts == MountPaths \subseteq Texts
  BY MountPathType, MountAssumption DEF MountPaths

(* Removing position i shifts the positions behind it by one. *)
LEMMA RemoveAtProperties ==
  ASSUME NEW S, NEW s \in Seq(S), NEW i \in 1..Len(s)
  PROVE  /\ RemoveAt(s, i) \in Seq(S)
         /\ Len(RemoveAt(s, i)) = Len(s) - 1
         /\ \A j \in 1..(Len(s) - 1) :
              RemoveAt(s, i)[j] = IF j < i THEN s[j] ELSE s[j + 1]
<1> DEFINE front == SubSeq(s, 1, i - 1)
           back == SubSeq(s, i + 1, Len(s))
<1>1. /\ front \in Seq(S) /\ Len(front) = i - 1
      /\ \A j \in 1..(i - 1) : front[j] = s[j]
  OBVIOUS
<1>2. /\ back \in Seq(S) /\ Len(back) = Len(s) - i
      /\ \A j \in 1..(Len(s) - i) : back[j] = s[i + j]
  OBVIOUS
<1> HIDE DEF front, back
<1>3. RemoveAt(s, i) = front \o back
  BY DEF RemoveAt, front, back
<1>4. /\ front \o back \in Seq(S) /\ Len(front \o back) = Len(front) + Len(back)
      /\ \A j \in 1..(Len(front) + Len(back)) :
           (front \o back)[j] =
             IF j <= Len(front) THEN front[j] ELSE back[j - Len(front)]
  BY <1>1, <1>2, ConcatProperties
<1>5. QED
  BY <1>1, <1>2, <1>3, <1>4

(* Inserting at position k shifts the positions from k on by one. *)
LEMMA InsertAtProperties ==
  ASSUME NEW S, NEW s \in Seq(S), NEW k \in 1..(Len(s) + 1), NEW e \in S
  PROVE  /\ InsertAt(s, k, e) \in Seq(S)
         /\ Len(InsertAt(s, k, e)) = Len(s) + 1
         /\ \A j \in 1..(Len(s) + 1) :
              InsertAt(s, k, e)[j] =
                IF j < k THEN s[j] ELSE IF j = k THEN e ELSE s[j - 1]
<1> DEFINE front == SubSeq(s, 1, k - 1)
           back == SubSeq(s, k, Len(s))
           mid == <<e>>
<1>1. /\ front \in Seq(S) /\ Len(front) = k - 1
      /\ \A j \in 1..(k - 1) : front[j] = s[j]
  OBVIOUS
<1>2. /\ back \in Seq(S) /\ Len(back) = Len(s) - k + 1
      /\ \A j \in 1..(Len(s) - k + 1) : back[j] = s[k + j - 1]
  <2>1. \A j \in k..Len(s) : s[j] \in S
    OBVIOUS
  <2>2. QED
    BY <2>1, SubSeqProperties
<1>3. mid \in Seq(S) /\ Len(mid) = 1 /\ mid[1] = e
  OBVIOUS
<1> HIDE DEF front, back, mid
<1>4. InsertAt(s, k, e) = (front \o mid) \o back
  BY DEF InsertAt, front, back, mid
<1> DEFINE head == front \o mid
<1>5. /\ head \in Seq(S) /\ Len(head) = k
      /\ \A j \in 1..k : head[j] = IF j < k THEN s[j] ELSE e
  <2>1. /\ front \o mid \in Seq(S)
        /\ Len(front \o mid) = Len(front) + Len(mid)
        /\ \A j \in 1..(Len(front) + Len(mid)) :
             (front \o mid)[j] =
               IF j <= Len(front) THEN front[j] ELSE mid[j - Len(front)]
    BY <1>1, <1>3, ConcatProperties
  <2>2. \A j \in 1..k : (front \o mid)[j] = IF j < k THEN s[j] ELSE e
    <3> SUFFICES ASSUME NEW j \in 1..k
                 PROVE (front \o mid)[j] = IF j < k THEN s[j] ELSE e
      OBVIOUS
    <3>1. CASE j < k
      BY <1>1, <1>3, <2>1, <3>1
    <3>2. CASE j = k
      <4>1. j - Len(front) = 1
        BY <1>1, <3>2
      <4>2. (front \o mid)[j] = mid[1]
        BY <1>1, <1>3, <2>1, <3>2, <4>1
      <4>3. QED
        BY <1>3, <3>2, <4>2
    <3>3. j < k \/ j = k
      <4>1. Len(s) \in Nat
        OBVIOUS
      <4>2. QED
        BY <4>1
    <3>4. QED
      BY <3>1, <3>2, <3>3
  <2>3. QED
    BY <1>1, <1>3, <2>1, <2>2
<1> HIDE DEF head
<1>6. /\ head \o back \in Seq(S) /\ Len(head \o back) = Len(head) + Len(back)
      /\ \A j \in 1..(Len(head) + Len(back)) :
           (head \o back)[j] =
             IF j <= Len(head) THEN head[j] ELSE back[j - Len(head)]
  BY <1>5, <1>2, ConcatProperties
<1>7. InsertAt(s, k, e) = head \o back
  BY <1>4 DEF head
<1>8. QED
  BY <1>2, <1>5, <1>6, <1>7

(* The first entry at p goes, if there is one; nothing else changes. *)
LEMMA WithoutCases ==
  ASSUME NEW ms \in Seq(MountPoint), NEW p
  PROVE  \/ /\ \A i \in 1..Len(ms) : ms[i].path # p
            /\ Without(ms, p) = ms
         \/ \E i \in 1..Len(ms) :
              ms[i].path = p /\ Without(ms, p) = RemoveAt(ms, i)
<1> DEFINE hits == {i \in 1..Len(ms) : ms[i].path = p}
<1>1. CASE hits = {}
  BY <1>1 DEF Without, RemoveFirstMatch
<1>2. CASE hits # {}
  <2>1. Min(hits) \in hits
    <3>1. hits \subseteq Nat
      OBVIOUS
    <3> HIDE DEF hits
    <3>2. QED
      BY <1>2, <3>1, MinProperties
  <2>2. Without(ms, p) = RemoveAt(ms, Min(hits))
    BY <1>2 DEF Without, RemoveFirstMatch, SelectInSeq
  <2>3. QED
    BY <2>1, <2>2
<1>3. QED
  BY <1>1, <1>2

-----------------------------------------------------------------------------
(* The inductive invariant, as a predicate on tables.                      *)

WellFormed(ms) ==
  /\ ms \in Seq(MountPoint)
  /\ \A i, j \in 1..Len(ms) : ms[i].path = ms[j].path => i = j
  /\ \A i, j \in 1..Len(ms) : i < j => ByteLen(ms[i].path) >= ByteLen(ms[j].path)

MountSet(ms) == {ms[i] : i \in 1..Len(ms)}

(* Every length the sort compares is a natural number. *)
LEMMA LengthsAreNaturals ==
  ASSUME NEW ms \in Seq(MountPoint), NEW i \in 1..Len(ms)
  PROVE  ms[i] \in MountPoint /\ ByteLen(ms[i].path) \in Nat
<1>1. ms[i] \in MountPoint
  OBVIOUS
<1>2. QED
  BY <1>1, ByteLenAssumption DEF MountPoint

(* Removing the entry at p keeps a table well formed and removes p alone. *)
LEMMA WithoutWellFormed ==
  ASSUME NEW ms, WellFormed(ms), NEW p
  PROVE  /\ WellFormed(Without(ms, p))
         /\ MountSet(Without(ms, p)) = {m \in MountSet(ms) : m.path # p}
<1>0. ms \in Seq(MountPoint)
  BY DEF WellFormed
<1>1. CASE /\ \A i \in 1..Len(ms) : ms[i].path # p
           /\ Without(ms, p) = ms
  BY <1>1 DEF MountSet
<1>2. CASE \E i \in 1..Len(ms) : ms[i].path = p /\ Without(ms, p) = RemoveAt(ms, i)
  <2>1. PICK i \in 1..Len(ms) : ms[i].path = p /\ Without(ms, p) = RemoveAt(ms, i)
    BY <1>2
  <2> DEFINE r == RemoveAt(ms, i)
             old(j) == IF j < i THEN j ELSE j + 1
  <2>2. /\ r \in Seq(MountPoint) /\ Len(r) = Len(ms) - 1
        /\ \A j \in 1..(Len(ms) - 1) : r[j] = IF j < i THEN ms[j] ELSE ms[j + 1]
    BY <1>0, RemoveAtProperties
  <2> HIDE DEF r
  <2>3. Len(ms) \in Nat /\ i \in Nat
    BY <1>0
  <2>4. \A j \in 1..Len(r) : /\ old(j) \in 1..Len(ms) /\ old(j) # i
                             /\ r[j] = ms[old(j)]
    BY <2>2, <2>3
  <2>5. \A j, k \in 1..Len(r) : (old(j) = old(k) => j = k) /\ (j < k => old(j) < old(k))
    BY <2>2, <2>3
  <2>6. \A k \in 1..Len(ms) : k # i => \E j \in 1..Len(r) : old(j) = k
    <3> SUFFICES ASSUME NEW k \in 1..Len(ms), k # i
                 PROVE  \E j \in 1..Len(r) : old(j) = k
      OBVIOUS
    <3>1. CASE k < i
      <4>1. k \in 1..Len(r) /\ old(k) = k
        BY <2>2, <2>3, <3>1
      <4>2. QED
        BY <4>1
    <3>2. CASE k > i
      <4>1. (k - 1) \in 1..Len(r) /\ old(k - 1) = k
        BY <2>2, <2>3, <3>2
      <4>2. QED
        BY <4>1
    <3>3. QED
      BY <2>3, <3>1, <3>2
  <2> HIDE DEF old
  <2>7. WellFormed(r)
    <3>1. \A j, k \in 1..Len(r) : r[j].path = r[k].path => j = k
      BY <2>4, <2>5 DEF WellFormed
    <3>2. \A j, k \in 1..Len(r) : j < k => ByteLen(r[j].path) >= ByteLen(r[k].path)
      BY <2>4, <2>5 DEF WellFormed
    <3>3. QED
      BY <2>2, <3>1, <3>2 DEF WellFormed
  <2>8. \A k \in 1..Len(ms) : ms[k].path = p => k = i
    BY <2>1 DEF WellFormed
  <2>9. MountSet(r) = {m \in MountSet(ms) : m.path # p}
    <3>1. \A x \in MountSet(r) : x \in MountSet(ms) /\ x.path # p
      BY <2>4, <2>8 DEF MountSet
    <3>2. \A x \in MountSet(ms) : x.path # p => x \in MountSet(r)
      <4> SUFFICES ASSUME NEW k \in 1..Len(ms), ms[k].path # p
                   PROVE  \E j \in 1..Len(r) : r[j] = ms[k]
        BY DEF MountSet
      <4>1. k # i
        BY <2>1
      <4>2. PICK j \in 1..Len(r) : old(j) = k
        BY <2>6, <4>1
      <4>3. QED
        BY <2>4, <4>2
    <3>3. QED
      BY <3>1, <3>2
  <2>10. QED
    BY <2>1, <2>7, <2>9 DEF r
<1>3. QED
  BY <1>0, <1>1, <1>2, WithoutCases

(* Inserting a mount where the sort puts it keeps a table well formed. *)
LEMMA InsertWellFormed ==
  ASSUME NEW rest, WellFormed(rest), NEW m \in MountPoint,
         \A x \in MountSet(rest) : x.path # m.path,
         NEW k \in 1..(Len(rest) + 1),
         \A i \in 1..(k - 1) : ByteLen(rest[i].path) >= ByteLen(m.path),
         \A i \in k..Len(rest) : ByteLen(rest[i].path) < ByteLen(m.path)
  PROVE  /\ WellFormed(InsertAt(rest, k, m))
         /\ MountSet(InsertAt(rest, k, m)) = MountSet(rest) \cup {m}
<1> DEFINE r == InsertAt(rest, k, m)
           old(j) == IF j < k THEN j ELSE j - 1
<1>0. rest \in Seq(MountPoint)
  BY DEF WellFormed
<1> HIDE DEF r
<1>1. /\ r \in Seq(MountPoint) /\ Len(r) = Len(rest) + 1
      /\ \A j \in 1..(Len(rest) + 1) :
           r[j] = IF j < k THEN rest[j] ELSE IF j = k THEN m ELSE rest[j - 1]
  <2>1. \A e \in MountPoint, i \in 1..(Len(rest) + 1) :
          /\ InsertAt(rest, i, e) \in Seq(MountPoint)
          /\ Len(InsertAt(rest, i, e)) = Len(rest) + 1
          /\ \A j \in 1..(Len(rest) + 1) :
               InsertAt(rest, i, e)[j] =
                 IF j < i THEN rest[j] ELSE IF j = i THEN e ELSE rest[j - 1]
    BY ONLY <1>0, InsertAtProperties
  <2>2. QED
    BY <2>1 DEF r
<1>2. Len(rest) \in Nat /\ k \in Nat
  <2>1. Len(rest) \in Nat
    BY <1>0
  <2>2. QED
    BY <2>1
<1>3. k \in 1..Len(r) /\ r[k] = m
  BY <1>1, <1>2
<1>4. \A j \in 1..Len(r) : j # k => old(j) \in 1..Len(rest) /\ r[j] = rest[old(j)]
  BY <1>1, <1>2
<1>5. \A i, j \in 1..Len(r) : i # k /\ j # k =>
        (old(i) = old(j) => i = j) /\ (i < j => old(i) < old(j))
  BY <1>1, <1>2
<1>6. \A i \in 1..Len(rest) : \E j \in 1..Len(r) : j # k /\ old(j) = i
  <2> SUFFICES ASSUME NEW i \in 1..Len(rest)
               PROVE  \E j \in 1..Len(r) : j # k /\ old(j) = i
    OBVIOUS
  <2>1. CASE i < k
    <3>1. i \in 1..Len(r) /\ old(i) = i /\ i # k
      BY <1>1, <1>2, <2>1
    <3>2. QED
      BY <3>1
  <2>2. CASE i >= k
    <3>1. (i + 1) \in 1..Len(r) /\ old(i + 1) = i /\ i + 1 # k
      BY <1>1, <1>2, <2>2
    <3>2. QED
      BY <3>1
  <2>3. QED
    BY <1>2, <2>1, <2>2
<1>7. \A j \in 1..Len(r) : (j < k => old(j) \in 1..(k - 1)) /\ (k < j => old(j) \in k..Len(rest))
  BY <1>1, <1>2
<1> HIDE DEF old
<1>8. \A j \in 1..Len(r) : j # k => r[j].path # m.path
  BY <1>4 DEF MountSet
<1>9. \A i, j \in 1..Len(r) : r[i].path = r[j].path => i = j
  BY <1>3, <1>4, <1>5, <1>8 DEF WellFormed
<1>10. \A i, j \in 1..Len(r) : i < j => ByteLen(r[i].path) >= ByteLen(r[j].path)
  <2> SUFFICES ASSUME NEW i \in 1..Len(r), NEW j \in 1..Len(r), i < j
               PROVE  ByteLen(r[i].path) >= ByteLen(r[j].path)
    OBVIOUS
  <2>0. i \in Nat /\ j \in Nat /\ Len(r) \in Nat
    BY <1>1, <1>2
  <2>1. CASE i = k
    <3>1. old(j) \in k..Len(rest) /\ j # k
      BY <1>7, <2>0, <2>1
    <3>2. old(j) \in 1..Len(rest) /\ r[j] = rest[old(j)]
      BY <1>4, <3>1
    <3>3. ByteLen(rest[old(j)].path) \in Nat /\ ByteLen(m.path) \in Nat
      BY <1>0, <3>2, LengthsAreNaturals, ByteLenAssumption DEF MountPoint
    <3>4. QED
      BY <1>3, <2>1, <3>1, <3>2, <3>3
  <2>2. CASE j = k
    <3>1. old(i) \in 1..(k - 1) /\ i # k
      BY <1>7, <2>0, <2>2
    <3>2. r[i] = rest[old(i)]
      BY <1>4, <3>1
    <3>3. QED
      BY <1>3, <2>2, <3>1, <3>2
  <2>3. CASE i # k /\ j # k
    BY <1>4, <1>5, <2>3 DEF WellFormed
  <2>4. QED
    BY <2>1, <2>2, <2>3
<1>11. MountSet(r) = MountSet(rest) \cup {m}
  <2>1. \A x \in MountSet(r) : x \in MountSet(rest) \/ x = m
    BY <1>3, <1>4 DEF MountSet
  <2>2. m \in MountSet(r)
    BY <1>3 DEF MountSet
  <2>3. \A x \in MountSet(rest) : x \in MountSet(r)
    <3> SUFFICES ASSUME NEW i \in 1..Len(rest)
                 PROVE  \E j \in 1..Len(r) : r[j] = rest[i]
      BY DEF MountSet
    <3>1. QED
      BY <1>4, <1>6
  <2>4. QED
    BY <2>1, <2>2, <2>3
<1>12. QED
  BY <1>1, <1>9, <1>10, <1>11 DEF WellFormed, r

(* Mount and Umount keep the table well formed and change the set of mounts *)
(* as the two calls promise, whoever performs them.                         *)
LEMMA MountStep ==
  ASSUME WellFormed(mounts),
         NEW path \in MountArgs, NEW fs \in Filesystems, NEW opts \in Options,
         Mount(path, fs, opts)
  PROVE  /\ WellFormed(mounts')
         /\ MountPath(path) \in MountPaths
         /\ MountSet(mounts') =
              {m \in MountSet(mounts) : m.path # MountPath(path)}
                \cup {[path |-> MountPath(path), filesystem |-> fs, options |-> opts]}
<1> DEFINE q == MountPath(path)
           m == [path |-> q, filesystem |-> fs, options |-> opts]
           rest == Without(mounts, q)
<1>1. q \in MountPaths
  BY DEF Mount, MountPaths
<1>2. m \in MountPoint /\ m.path = q
  BY <1>1 DEF MountPoint
<1>3. /\ WellFormed(rest)
      /\ MountSet(rest) = {x \in MountSet(mounts) : x.path # q}
  BY WithoutWellFormed
<1>4. PushSorted(rest, m)
  BY DEF Mount
<1> HIDE DEF q, m, rest
<1>5. PICK k \in 1..(Len(rest) + 1) :
        /\ \A i \in 1..(k - 1) : ByteLen(rest[i].path) >= ByteLen(m.path)
        /\ \A i \in k..Len(rest) : ByteLen(rest[i].path) < ByteLen(m.path)
        /\ mounts' = InsertAt(rest, k, m)
  BY <1>4 DEF PushSorted
<1>6. \A x \in MountSet(rest) : x.path # m.path
  BY <1>2, <1>3
<1>7. /\ WellFormed(InsertAt(rest, k, m))
      /\ MountSet(InsertAt(rest, k, m)) = MountSet(rest) \cup {m}
  BY <1>2, <1>3, <1>5, <1>6, InsertWellFormed
<1>8. QED
  BY <1>1, <1>3, <1>5, <1>7 DEF q, m

LEMMA UmountStep ==
  ASSUME WellFormed(mounts), NEW path, Umount(path)
  PROVE  /\ WellFormed(mounts')
         /\ MountSet(mounts') = {m \in MountSet(mounts) : m.path # MountPath(path)}
         /\ \E m \in MountSet(mounts) : m.path = MountPath(path)
<1>1. mounts \in Seq(MountPoint)
  BY DEF WellFormed
<1>2. DOMAIN mounts = 1..Len(mounts)
  BY <1>1
<1>3. \E m \in MountSet(mounts) : m.path = MountPath(path)
  BY <1>2 DEF Umount, IsMounted, MountSet
<1>4. QED
  BY <1>3, WithoutWellFormed DEF Umount

-----------------------------------------------------------------------------
(* What a well-formed table answers.                                       *)

(* The paths resolve() is asked about are those normalize() leaves alone.  *)
LEMMA AbsPathsAreNormal ==
  ASSUME NEW p \in AbsPaths
  PROVE  p \in Texts /\ IsNormal(p) /\ IsAbsolute(p) /\ Normalize(p) = p
  BY AbsPathsAssumption, NormalizeNormal, NormalShape

(* On a normal path, resolve() of a table that folds no case tests cover.  *)
LEMMA MatchesIsCovers ==
  ASSUME NEW p \in AbsPaths, NEW m \in MountPoint, ~ m.options.case_insensitive
  PROVE  Matches(m, Normalize(p)) <=> Covers(m.path, p)
<1>1. Normalize(p) = p
  BY AbsPathsAreNormal
<1>2. QED
  BY <1>1 DEF Matches, Covers

(* The first match is a match, and no match comes before it. *)
LEMMA OwnerIndexProperties ==
  ASSUME NEW ms \in Seq(MountPoint), NEW p, CanResolve(ms, p)
  PROVE  /\ OwnerIndex(ms, p) \in Owners(ms, p)
         /\ OwnerIndex(ms, p) \in 1..Len(ms)
         /\ \A i \in Owners(ms, p) : i \in 1..Len(ms) /\ OwnerIndex(ms, p) <= i
<1>1. DOMAIN ms = 1..Len(ms)
  OBVIOUS
<1>2. Owners(ms, p) \subseteq 1..Len(ms)
  BY <1>1 DEF Owners
<1>3. Owners(ms, p) \subseteq Nat
  BY <1>2
<1>4. /\ Min(Owners(ms, p)) \in Owners(ms, p)
      /\ \A i \in Owners(ms, p) : Min(Owners(ms, p)) <= i
  BY <1>3, MinProperties DEF CanResolve
<1>5. QED
  BY <1>2, <1>4 DEF OwnerIndex

(* On a well-formed table the first match is the longest one. *)
LEMMA WellFormedLongestMatch == WellFormed(mounts) => LongestMatch
<1> SUFFICES ASSUME WellFormed(mounts), NEW p \in AbsPaths, NEW i \in Owners(mounts, p)
             PROVE  ByteLen(mounts[i].path)
                      <= ByteLen(mounts[OwnerIndex(mounts, p)].path)
  BY DEF LongestMatch
<1>1. mounts \in Seq(MountPoint)
  BY DEF WellFormed
<1>2. CanResolve(mounts, p)
  BY DEF CanResolve
<1> DEFINE o == OwnerIndex(mounts, p)
<1>3. o \in 1..Len(mounts) /\ i \in 1..Len(mounts) /\ o <= i
  BY <1>1, <1>2, OwnerIndexProperties
<1> HIDE DEF o
<1>4. ByteLen(mounts[i].path) \in Nat /\ ByteLen(mounts[o].path) \in Nat
  BY <1>1, <1>3, LengthsAreNaturals
<1>5. o < i => ByteLen(mounts[o].path) >= ByteLen(mounts[i].path)
  BY <1>3 DEF WellFormed
<1>6. QED
  BY <1>3, <1>4, <1>5 DEF o

(* Without case folding the mounts that match a path are those that cover it. *)
LEMMA NoFoldingOwners ==
  ASSUME mounts \in Seq(MountPoint), NoFolding, NEW p \in AbsPaths
  PROVE  Owners(mounts, p) = {i \in DOMAIN mounts : Covers(mounts[i].path, p)}
<1>1. \A i \in DOMAIN mounts : Matches(mounts[i], Normalize(p)) <=> Covers(mounts[i].path, p)
  <2> SUFFICES ASSUME NEW i \in DOMAIN mounts
               PROVE  Matches(mounts[i], Normalize(p)) <=> Covers(mounts[i].path, p)
    OBVIOUS
  <2>1. mounts[i] \in MountPoint
    OBVIOUS
  <2>2. QED
    BY <2>1, MatchesIsCovers DEF NoFolding
<1>2. QED
  BY <1>1 DEF Owners

(* Folding a text folds its segments one by one. *)
LEMMA FoldProperties ==
  ASSUME NEW p \in Seq(Segs)
  PROVE  /\ Fold(p) \in Seq(Segs) /\ Len(Fold(p)) = Len(p)
         /\ \A i \in 1..Len(p) : Fold(p)[i] = Lower[p[i]]
<1>1. Lower \in [Segs -> Segs]
  BY NamesAssumption
<1>2. /\ Len(p) \in Nat /\ DOMAIN p = 1..Len(p)
      /\ \A i \in 1..Len(p) : p[i] \in Segs
  OBVIOUS
<1>3. Fold(p) = [i \in 1..Len(p) |-> Lower[p[i]]]
  BY <1>2 DEF Fold
<1>4. \A i \in 1..Len(p) : Lower[p[i]] \in Segs
  BY <1>1, <1>2
<1>5. QED
  BY <1>2, <1>3, <1>4

(* A prefix stays one when both texts are folded. *)
LEMMA FoldPrefix ==
  ASSUME NEW p \in Texts, NEW q \in Texts, IsPrefix(q, p)
  PROVE  IsPrefix(Fold(q), Fold(p)) /\ StartsWith(Fold(p), Fold(q))
<1>1. /\ p \in Seq(Segs) /\ q \in Seq(Segs)
      /\ Len(p) \in Nat /\ Len(q) \in Nat /\ Len(q) >= 1
  BY EmptySeq DEF Texts
<1>2. Len(q) <= Len(p) /\ \A i \in 1..Len(q) : q[i] = p[i]
  <2>1. Len(q) <= Len(p) /\ SubSeq(q, 1, Len(q)) = SubSeq(p, 1, Len(q))
    BY DEF IsPrefix
  <2>2. ASSUME NEW i \in 1..Len(q)
        PROVE  q[i] = p[i]
    <3>1. SubSeq(q, 1, Len(q))[i] = q[i] /\ SubSeq(p, 1, Len(q))[i] = p[i]
      BY <1>1, <2>1
    <3>2. QED
      BY <2>1, <3>1
  <2>3. QED
    BY <2>1, <2>2
<1>3. /\ Fold(p) \in Seq(Segs) /\ Len(Fold(p)) = Len(p)
      /\ Fold(q) \in Seq(Segs) /\ Len(Fold(q)) = Len(q)
      /\ \A i \in 1..Len(p) : Fold(p)[i] = Lower[p[i]]
      /\ \A i \in 1..Len(q) : Fold(q)[i] = Lower[q[i]]
  BY <1>1, FoldProperties
<1>4. \A i \in 1..Len(q) : Fold(q)[i] = Fold(p)[i]
  BY <1>1, <1>2, <1>3
<1>5. SubSeq(Fold(q), 1, Len(q)) = SubSeq(Fold(p), 1, Len(q))
  BY <1>1, <1>2, <1>3, <1>4
<1>6. IsPrefix(Fold(q), Fold(p))
  BY <1>2, <1>3, <1>5 DEF IsPrefix
<1>7. StartsWith(Fold(p), Fold(q))
  <2>1. Fold(q)[Len(Fold(q))] = Fold(p)[Len(Fold(q))]
    BY <1>1, <1>3, <1>4
  <2>2. \A i \in 1..(Len(Fold(q)) - 1) : Fold(p)[i] = Fold(q)[i]
    BY <1>1, <1>3, <1>4
  <2>3. QED
    BY <1>2, <1>3, <2>1, <2>2 DEF StartsWith
<1>8. QED
  BY <1>6, <1>7

(* The same for what every absolute path starts with. *)
LEMMA FoldRoot ==
  ASSUME NEW p \in AbsPaths
  PROVE  StartsWith(Fold(p), Fold(Root))
<1>1. p \in Seq(Segs) /\ Len(p) \in Nat /\ Len(p) > 1 /\ p[1] = Blank
  BY AbsPathsAreNormal, AbsoluteMeans DEF Texts
<1>2. Lower[Blank] = Blank
  BY NamesAssumption DEF Blank
<1>3. Root \in Seq(Segs) /\ Len(Root) = 2 /\ Root[1] = Blank /\ Root[2] = Blank
  BY RootMeans, BlankSegment
<1>4. /\ Len(Fold(p)) = Len(p) /\ Fold(p)[1] = Blank
      /\ Len(Fold(Root)) = 2 /\ Fold(Root)[1] = Blank /\ Fold(Root)[2] = Blank
  BY <1>1, <1>2, <1>3, FoldProperties
<1>5. \A i \in 1..(Len(Fold(Root)) - 1) : Fold(p)[i] = Fold(Root)[i]
  BY <1>4
<1>6. Fold(Root)[Len(Fold(Root))] = ""
  BY <1>4 DEF Blank
<1>7. Len(Fold(Root)) <= Len(Fold(p))
  BY <1>1, <1>4
<1>8. QED
  BY <1>5, <1>6, <1>7, Zenon DEF StartsWith

(* A mount that covers a path matches it, whether it folds case or not.    *)
LEMMA CoversMatches ==
  ASSUME NEW p \in AbsPaths, NEW m \in MountPoint, Covers(m.path, p)
  PROVE  Matches(m, Normalize(p))
<1>1. p \in Texts /\ Normalize(p) = p /\ m.path \in Texts
  BY AbsPathsAreNormal, MountPathsAreTexts DEF MountPoint
<1>2. CASE ~ m.options.case_insensitive
  BY <1>2, MatchesIsCovers
<1>3. CASE m.options.case_insensitive /\ m.path = Root
  BY <1>1, <1>3, FoldRoot DEF Matches
<1>4. CASE m.options.case_insensitive /\ m.path # Root
  <2>1. IsPrefix(m.path, p)
    BY <1>4 DEF Covers, EndsAtBoundary
  <2>2. IsPrefix(Fold(m.path), Fold(p)) /\ StartsWith(Fold(p), Fold(m.path))
    BY <1>1, <2>1, FoldPrefix
  <2>3. QED
    BY <1>1, <1>4, <2>2 DEF Matches, EndsAtBoundary
<1>5. QED
  BY <1>2, <1>3, <1>4

(* What find_mount_index() looks for is found by resolve() too, which may  *)
(* only have stopped earlier.                                              *)
LEMMA WellFormedMatchersAgree == mounts \in Seq(MountPoint) => MatchersAgree
<1> SUFFICES ASSUME mounts \in Seq(MountPoint), NEW p \in AbsPaths
             PROVE  IF CanResolve(mounts, p)
                      THEN Covers(mounts[OwnerIndex(mounts, p)].path, p) =>
                             FindMountIndex(mounts, p) = OwnerIndex(mounts, p)
                      ELSE FindMountIndex(mounts, p) = NoIndex
  BY DEF MatchersAgree
<1> DEFINE hits == {i \in DOMAIN mounts : Covers(mounts[i].path, p)}
           o == OwnerIndex(mounts, p)
<1>1. DOMAIN mounts = 1..Len(mounts) /\ \A i \in DOMAIN mounts : mounts[i] \in MountPoint
  OBVIOUS
<1>2. hits \subseteq Owners(mounts, p)
  BY <1>1, CoversMatches DEF Owners
<1>3. FindMountIndex(mounts, p) = IF hits = {} THEN NoIndex ELSE Min(hits)
  BY DEF FindMountIndex
<1>4. CASE ~ CanResolve(mounts, p)
  BY <1>2, <1>3, <1>4 DEF CanResolve
<1>5. ASSUME CanResolve(mounts, p), Covers(mounts[o].path, p)
      PROVE  Min(hits) = o /\ hits # {}
  <2>1. o \in 1..Len(mounts) /\ \A i \in Owners(mounts, p) : o <= i
    BY <1>5, OwnerIndexProperties
  <2> HIDE DEF o
  <2>2. o \in hits /\ hits \subseteq Nat /\ \A i \in hits : o <= i
    BY <1>1, <1>2, <1>5, <2>1
  <2> HIDE DEF hits
  <2>3. Min(hits) \in hits /\ \A i \in hits : Min(hits) <= i
    BY <2>2, MinProperties
  <2>4. Min(hits) \in Nat /\ o \in Nat /\ Min(hits) <= o /\ o <= Min(hits)
    BY <2>2, <2>3
  <2>5. QED
    BY <2>2, <2>4
<1>6. QED
  BY <1>3, <1>4, <1>5

(* Without case folding a mount is matched in its own case. *)
LEMMA NoFoldingMatchers ==
  ASSUME mounts \in Seq(MountPoint), NoFolding, NEW p \in AbsPaths, CanResolve(mounts, p)
  PROVE  FindMountIndex(mounts, p) = OwnerIndex(mounts, p)
<1>1. OwnerIndex(mounts, p) \in Owners(mounts, p)
  BY OwnerIndexProperties
<1>2. Covers(mounts[OwnerIndex(mounts, p)].path, p)
  BY <1>1, NoFoldingOwners
<1>3. QED
  BY <1>2, WellFormedMatchersAgree DEF MatchersAgree

(* What RelativeTo leaves of a normal path behind a mount path has the     *)
(* components that follow the mount path's, and starts with a separator.   *)
LEMMA RelativeToComponents ==
  ASSUME NEW p \in AbsPaths, NEW m, m.path \in MountPaths, m.path # Root,
         Covers(m.path, p)
  PROVE  /\ RelativeTo(m, p) \in Texts
         /\ Components(m.path \o RelativeTo(m, p)) = Components(p)
<1>1. PICK q \in Seq(Segs) : q = m.path /\ q # <<>> /\ q # Root
  BY MountPathsAreTexts DEF Texts
<1>2. PICK n \in Nat : n = Len(q) /\ n >= 1
  BY <1>1, EmptySeq
<1>3. p \in Texts /\ p \in Seq(Segs) /\ Len(p) \in Nat
  BY AbsPathsAreNormal, TextProperties
<1>4. n <= Len(p) /\ q = SubSeq(p, 1, n)
  <2>1. EndsAtBoundary(p, q)
    BY <1>1 DEF Covers
  <2>2. n <= Len(p) /\ SubSeq(q, 1, Len(q)) = SubSeq(p, 1, Len(q))
    BY <1>2, <2>1 DEF EndsAtBoundary, IsPrefix
  <2>3. SubSeq(q, 1, Len(q)) = q
    BY SubSeqFull
  <2>4. QED
    BY <1>2, <2>1, <2>2, <2>3
<1>5. PICK rest \in Seq(Segs) :
        /\ rest = SubSeq(p, n + 1, Len(p))
        /\ Len(rest) = Len(p) - n
        /\ \A i \in 1..Len(rest) : rest[i] = p[n + i]
        /\ q \o rest = p
  <2> DEFINE cut == SubSeq(p, n + 1, Len(p))
  <2>1. PICK k \in Nat : k = Len(p) - n
    BY <1>3, <1>4
  <2>2. /\ cut \in Seq(Segs)
        /\ Len(cut) = k
        /\ \A i \in 1..k : cut[i] = p[n + i]
        /\ q \o cut = p
    BY <1>3, <1>4, <2>1, CutSeq
  <2>3. \A i \in 1..Len(cut) : cut[i] = p[n + i]
    BY <2>2
  <2> HIDE DEF cut
  <2>4. QED
    BY <2>1, <2>2, <2>3 DEF cut
<1> DEFINE kept == {i \in DOMAIN rest : rest[i] # Blank}
<1>6. RelativeTo(m, p) = IF kept = {} THEN Root
                         ELSE <<Blank>> \o SubSeq(rest, Min(kept), Len(rest))
  <2> DEFINE tail == SubSeq(rest, Min(kept), Len(rest))
  <2>1. StripPrefix(p, q) = IF kept = {} THEN Root ELSE <<Blank>> \o tail
    <3>1. StartsWith(p, q)
      BY <1>1 DEF Covers
    <3>2. QED
      BY <1>2, <1>5, <3>1 DEF StripPrefix, Blank
  <2>2. StripPrefix(p, q) # NoPath
    <3>1. Root # <<>>
      BY EmptySegment DEF Texts
    <3>2. kept # {} => <<Blank>> \o tail # <<>>
      <4> SUFFICES ASSUME kept # {} PROVE <<Blank>> \o tail # <<>>
        OBVIOUS
      <4>1. kept \subseteq Nat /\ kept \subseteq 1..Len(rest)
        <5>1. DOMAIN rest = 1..Len(rest) /\ 1..Len(rest) \subseteq Nat
          BY <1>5, LenProperties
        <5>2. QED
          BY <5>1
      <4>2. Min(kept) \in 1..Len(rest)
        <5> HIDE DEF kept
        <5>1. QED
          BY <4>1, MinProperties
      <4>3. \A i \in 1..Len(rest) : SubSeq(rest, i, Len(rest)) \in Seq(Segs)
        BY <1>5
      <4>4. tail \in Seq(Segs)
        BY <4>2, <4>3
      <4> HIDE DEF tail
      <4>5. QED
        BY <4>4, EmptySegment, ConcatEqualIffEmpty DEF Texts
    <3>3. QED
      BY <2>1, <3>1, <3>2 DEF NoPath
  <2>3. QED
    BY <1>1, <2>1, <2>2 DEF RelativeTo
<1>7. /\ RelativeTo(m, p) \in Texts
      /\ Components(RelativeTo(m, p)) = Components(rest)
  <2>1. CASE p = Root
    <3>1. Len(p) = 2 /\ p[2] = Blank
      BY <2>1, RootMeans
    <3>2. n = 1
      <4>1. n # 2
        <5>1. SubSeq(p, 1, Len(p)) = p
          BY <1>3, SubSeqFull
        <5>2. QED
          BY <1>1, <1>4, <2>1, <3>1, <5>1
      <4>2. n >= 1 /\ n <= Len(p) /\ Len(p) = 2
        BY <1>2, <1>4, <3>1, Zenon
      <4>3. QED
        BY <4>1, <4>2
    <3>3. Len(rest) = 1 /\ rest[1] = Blank
      BY <1>5, <3>1, <3>2
    <3>4. rest = <<Blank>>
      BY <3>3, EmptySegment, SeqEqual
    <3>5. kept = {}
      BY <3>3, LenProperties
    <3>6. QED
      BY <1>6, <3>4, <3>5, EmptySegment
  <2>2. CASE p # Root
    <3>1. \A i \in 2..Len(p) : p[i] \in Names
      BY <2>2, AbsPathsAreNormal, NormalMeans
    <3>2. \A i \in 1..Len(rest) : rest[i] \in Names /\ rest[i] # Blank
      <4> SUFFICES ASSUME NEW i \in 1..Len(rest)
                   PROVE  rest[i] \in Names /\ rest[i] # Blank
        OBVIOUS
      <4>1. n + i \in 2..Len(p) /\ rest[i] = p[n + i]
        BY <1>2, <1>3, <1>5
      <4>2. QED
        BY <3>1, <4>1, BlankSegment
    <3>3. DOMAIN rest = 1..Len(rest) /\ rest \in Seq(Names)
      BY <3>2
    <3>4. CASE rest = <<>>
      <4>1. kept = {}
        BY <3>4
      <4>2. QED
        BY <1>6, <3>4, <4>1, EmptySegment, ComponentsEmpty
    <3>5. CASE rest # <<>>
      <4>1. kept = 1..Len(rest)
        BY <3>2, <3>3
      <4>2. Len(rest) >= 1 /\ Len(rest) \in Nat
        BY <3>5, EmptySeq
      <4>3. Min(kept) = 1
        <5>1. kept \subseteq Nat /\ 1 \in kept /\ \A i \in kept : 1 <= i
          BY <4>1, <4>2
        <5> HIDE DEF kept
        <5>2. Min(kept) \in kept /\ \A y \in kept : Min(kept) <= y
          BY <5>1, MinProperties
        <5>3. Min(kept) \in Nat /\ Min(kept) <= 1 /\ 1 <= Min(kept)
          BY <5>1, <5>2
        <5>4. QED
          BY <5>3
      <4>4. SubSeq(rest, 1, Len(rest)) = rest
        BY SubSeqFull
      <4>5. RelativeTo(m, p) = <<Blank>> \o rest
        <5>1. kept # {}
          BY <4>1, <4>2
        <5> HIDE DEF kept
        <5>2. QED
          BY <1>6, <4>3, <4>4, <5>1
      <4>6. Components(rest) = rest
        BY <3>3, NamesAreSolid
      <4>7. QED
        BY <3>3, <3>5, <4>5, <4>6, SlashNames
    <3>6. QED
      BY <3>4, <3>5
  <2>3. QED
    BY <2>1, <2>2
<1>8. RelativeTo(m, p) \in Seq(Segs)
  BY <1>7 DEF Texts
<1>9. Components(q \o RelativeTo(m, p)) = Components(q) \o Components(rest)
  BY <1>7, <1>8, ComponentsConcat
<1>10. Components(p) = Components(q) \o Components(rest)
  BY <1>5, ComponentsConcat
<1>11. QED
  BY <1>1, <1>7, <1>9, <1>10

(* Put back behind the path of its mount, the relative path is the path.   *)
LEMMA RelativeToPutsBack ==
  ASSUME NEW p \in AbsPaths, NEW m, m.path \in MountPaths, Covers(m.path, p)
  PROVE  Normalize(m.path \o RelativeTo(m, p)) = p
<1>1. /\ p \in Texts /\ IsAbsolute(p) /\ Normalize(p) = p
      /\ p \in Seq(Segs) /\ Len(p) \in Nat
  BY AbsPathsAreNormal, TextProperties
<1>2. PICK q \in Seq(Segs) : q = m.path /\ q # <<>> /\ q \in Texts
  BY MountPathsAreTexts DEF Texts
<1>3. PICK rel \in Seq(Segs) :
        /\ rel = RelativeTo(m, p)
        /\ rel # <<>>
        /\ Components(q \o rel) = Components(p)
  <2>1. CASE q = Root
    <3>1. RelativeTo(m, p) = p
      BY <1>2, <2>1 DEF RelativeTo
    <3>2. Components(q \o p) = <<>> \o Components(p)
      BY <1>1, <2>1, EmptySegment, RootMeans, ComponentsConcat
    <3>3. Components(p) \in Seq(Segs)
      BY <1>1, TextProperties, SolidText
    <3>4. Components(q \o p) = Components(p)
      BY <3>2, <3>3, ConcatEmptySeq
    <3>5. QED
      BY <1>1, <3>1, <3>4 DEF Texts
  <2>2. CASE q # Root
    BY <1>2, <2>2, RelativeToComponents DEF Texts
  <2>3. QED
    BY <2>1, <2>2
<1>4. q[1] = Blank
  <2>1. CASE q = Root
    BY <2>1, RootMeans
  <2>2. CASE q # Root
    <3>1. EndsAtBoundary(p, q)
      BY <1>2, <2>2 DEF Covers
    <3>2. Len(q) <= Len(p) /\ SubSeq(q, 1, Len(q)) = SubSeq(p, 1, Len(q))
      BY <3>1 DEF EndsAtBoundary, IsPrefix
    <3>3. 1 \in 1..Len(q) /\ Len(q) \in 1..Len(p)
      BY <1>1, <1>2, <3>2, EmptySeq
    <3>4. SubSeq(q, 1, Len(q))[1] = q[1] /\ SubSeq(p, 1, Len(q))[1] = p[1]
      BY <1>1, <3>3
    <3>5. p[1] = Blank
      BY <1>1, AbsoluteMeans
    <3>6. QED
      BY <3>2, <3>4, <3>5
  <2>3. QED
    BY <2>1, <2>2
<1>5. IsAbsolute(q \o rel)
  <2>1. PICK j \in Nat, k \in Nat : j = Len(q) /\ k = Len(rel) /\ j >= 1 /\ k >= 1
    BY <1>2, <1>3, EmptySeq
  <2>2. Len(q \o rel) = j + k /\ (q \o rel)[1] = q[1]
    BY <2>1, ConcatProperties
  <2>3. Len(q \o rel) > 1
    BY <2>1, <2>2
  <2>4. QED
    BY <1>4, <2>2, <2>3, AbsoluteMeans
<1>6. Normalize(q \o rel) = Normalize(p)
  BY <1>1, <1>3, <1>5, NormalizeByStack
<1>7. QED
  BY <1>1, <1>2, <1>3, <1>6

(* Where no mount folds case the relative path is the rest behind the      *)
(* mount.                                                                  *)
LEMMA WellFormedRelativeIsRest == mounts \in Seq(MountPoint) => RelativeIsRest
<1> SUFFICES ASSUME mounts \in Seq(MountPoint), NoFolding,
                    NEW p \in AbsPaths, CanResolve(mounts, p)
             PROVE  Rejoined(p) = p
  BY DEF RelativeIsRest
<1> DEFINE o == OwnerIndex(mounts, p)
<1>1. o \in Owners(mounts, p) /\ o \in 1..Len(mounts)
  BY OwnerIndexProperties
<1>2. Covers(mounts[o].path, p)
  BY <1>1, NoFoldingOwners
<1>3. mounts[o] \in MountPoint
  BY <1>1
<1> HIDE DEF o
<1>4. mounts[o].path \in MountPaths
  BY <1>3 DEF MountPoint
<1>5. Resolve(mounts, p).relative_path = RelativeTo(mounts[o], p)
  BY AbsPathsAreNormal DEF Resolve, o
<1>6. Normalize(mounts[o].path \o Resolve(mounts, p).relative_path) = p
  BY <1>2, <1>4, <1>5, RelativeToPutsBack
<1>7. QED
  BY <1>6 DEF Rejoined, o

-----------------------------------------------------------------------------
(* The table as a state machine.                                           *)

LEMMA InitWellFormed == mounts = <<>> => WellFormed(mounts)
  BY DEF WellFormed

LEMMA TableNextWellFormed ==
  ASSUME WellFormed(mounts), [TableNext]_mounts
  PROVE  WellFormed(mounts')
<1>1. ASSUME NEW path \in MountArgs, NEW fs \in Filesystems, NEW opts \in Options,
             Mount(path, fs, opts)
      PROVE  WellFormed(mounts')
  BY <1>1, MountStep
<1>2. ASSUME NEW path \in MountArgs, Umount(path)
      PROVE  WellFormed(mounts')
  BY <1>2, UmountStep
<1>3. CASE UNCHANGED mounts
  BY <1>3
<1>4. QED
  BY <1>1, <1>2, <1>3 DEF TableNext

(* Every reachable table is well formed. *)
THEOREM TableWellFormed == TableSpec => []WellFormed(mounts)
<1>1. TableInit => WellFormed(mounts)
  BY InitWellFormed DEF TableInit
<1>2. WellFormed(mounts) /\ [TableNext]_mounts => WellFormed(mounts)'
  BY TableNextWellFormed
<1>3. QED
  BY <1>1, <1>2, PTL DEF TableSpec

(* The table always holds mount points as mount() builds them. *)
THEOREM TableTypeCorrect == TableSpec => []TableTypeOK
<1>1. WellFormed(mounts) => TableTypeOK
  BY DEF WellFormed, TableTypeOK
<1>2. QED
  BY <1>1, TableWellFormed, PTL

(* No sequence of mount, replacement and umount leaves two mounts at one path. *)
THEOREM TableUniquePaths == TableSpec => []UniquePaths
<1>1. WellFormed(mounts) => UniquePaths
  BY DEF WellFormed, UniquePaths
<1>2. QED
  BY <1>1, TableWellFormed, PTL

(* Longer paths always stand before shorter ones, as resolve() relies on. *)
THEOREM TableSorted == TableSpec => []SortedByLength
<1>1. WellFormed(mounts) => SortedByLength
  BY DEF WellFormed, SortedByLength
<1>2. QED
  BY <1>1, TableWellFormed, PTL

(* resolve() always returns a longest mount that matches, folding or not. *)
THEOREM TableLongestMatch == TableSpec => []LongestMatch
  BY WellFormedLongestMatch, TableWellFormed, PTL

(* find_mount_index finds what resolve() uses, unless that was matched in  *)
(* another case.                                                           *)
THEOREM TableMatchersAgree == TableSpec => []MatchersAgree
<1>1. WellFormed(mounts) => MatchersAgree
  BY WellFormedMatchersAgree DEF WellFormed
<1>2. QED
  BY <1>1, TableWellFormed, PTL

(* While no mount folds case, the relative path that resolve() hands over  *)
(* is what follows the mount path, with whatever separators it was mounted.*)
THEOREM TableRelativeIsRest == TableSpec => []RelativeIsRest
<1>1. WellFormed(mounts) => RelativeIsRest
  BY WellFormedRelativeIsRest DEF WellFormed
<1>2. QED
  BY <1>1, TableWellFormed, PTL

-----------------------------------------------------------------------------
(* The table implements the map.                                           *)

(* The map that a table stands for: MountTable's AbstractTable, of any table. *)
MapOf(ms) ==
  [q \in {ms[i].path : i \in DOMAIN ms} |->
     LET i == CHOOSE i \in DOMAIN ms : ms[i].path = q
     IN  [filesystem |-> ms[i].filesystem, options |-> ms[i].options]]

(* A well-formed table stands for the map of its mount points. *)
LEMMA MapOfProperties ==
  ASSUME NEW ms, WellFormed(ms)
  PROVE  /\ DOMAIN MapOf(ms) = {m.path : m \in MountSet(ms)}
         /\ \A m \in MountSet(ms) :
              MapOf(ms)[m.path] = [filesystem |-> m.filesystem, options |-> m.options]
<1>1. DOMAIN ms = 1..Len(ms)
  BY DEF WellFormed
<1>2. DOMAIN MapOf(ms) = {m.path : m \in MountSet(ms)}
  BY <1>1 DEF MapOf, MountSet
<1>3. ASSUME NEW k \in 1..Len(ms)
      PROVE  MapOf(ms)[ms[k].path] =
               [filesystem |-> ms[k].filesystem, options |-> ms[k].options]
  <2> DEFINE c == CHOOSE i \in DOMAIN ms : ms[i].path = ms[k].path
  <2>1. c \in 1..Len(ms) /\ ms[c].path = ms[k].path
    BY <1>1
  <2>2. c = k
    BY <2>1 DEF WellFormed
  <2>3. ms[k].path \in {ms[i].path : i \in DOMAIN ms}
    BY <1>1
  <2>4. MapOf(ms)[ms[k].path] = [filesystem |-> ms[c].filesystem, options |-> ms[c].options]
    BY <2>3 DEF MapOf
  <2>5. QED
    BY <2>2, <2>4
<1>4. QED
  BY <1>2, <1>3 DEF MountSet

(* mount() and umount() change the map as Map's actions say. *)
LEMMA MountImplementsMap ==
  ASSUME WellFormed(mounts),
         NEW path \in MountArgs, NEW fs \in Filesystems, NEW opts \in Options,
         Mount(path, fs, opts)
  PROVE  Map!Mount(MountPath(path), fs, opts)
<1> DEFINE q == MountPath(path)
           new == [path |-> q, filesystem |-> fs, options |-> opts]
           old == MapOf(mounts)
           after == [r \in DOMAIN old \cup {q} |->
                       IF r = q THEN [filesystem |-> fs, options |-> opts] ELSE old[r]]
<1>1. /\ WellFormed(mounts')
      /\ MountSet(mounts') = {m \in MountSet(mounts) : m.path # q} \cup {new}
  BY MountStep
<1>2. new.path = q /\ new.filesystem = fs /\ new.options = opts
  OBVIOUS
<1>3. /\ DOMAIN old = {m.path : m \in MountSet(mounts)}
      /\ \A m \in MountSet(mounts) :
           old[m.path] = [filesystem |-> m.filesystem, options |-> m.options]
  BY MapOfProperties
<1>4. /\ DOMAIN MapOf(mounts') = {m.path : m \in MountSet(mounts')}
      /\ \A m \in MountSet(mounts') :
           MapOf(mounts')[m.path] = [filesystem |-> m.filesystem, options |-> m.options]
  BY <1>1, MapOfProperties
<1> HIDE DEF q, new, old
<1>5. DOMAIN MapOf(mounts') = DOMAIN after
  BY <1>1, <1>2, <1>3, <1>4
<1>6. ASSUME NEW r \in DOMAIN after
      PROVE  MapOf(mounts')[r] = after[r]
  <2>1. CASE r = q
    BY <1>1, <1>2, <1>4, <2>1
  <2>2. CASE r # q
    <3>1. PICK m \in MountSet(mounts) : m.path = r
      BY <1>3, <2>2
    <3>2. m \in MountSet(mounts')
      BY <1>1, <2>2, <3>1
    <3>3. QED
      BY <1>3, <1>4, <2>2, <3>1, <3>2
  <2>3. QED
    BY <2>1, <2>2
<1>7. MapOf(mounts') = after
  <2>1. MapOf(mounts') = [r \in DOMAIN MapOf(mounts') |-> MapOf(mounts')[r]]
    BY DEF MapOf
  <2>2. QED
    BY <1>5, <1>6, <2>1
<1>8. AbstractTable = MapOf(mounts) /\ AbstractTable' = MapOf(mounts')
  BY DEF AbstractTable, MapOf
<1>9. QED
  BY <1>7, <1>8 DEF Map!Mount, q, old

LEMMA UmountImplementsMap ==
  ASSUME WellFormed(mounts), NEW path, Umount(path)
  PROVE  Map!Umount(MountPath(path)) /\ MountPath(path) \in MountPaths
<1> DEFINE q == MountPath(path)
           old == MapOf(mounts)
           after == [r \in DOMAIN old \ {q} |-> old[r]]
<1>1. /\ WellFormed(mounts')
      /\ MountSet(mounts') = {m \in MountSet(mounts) : m.path # q}
      /\ \E m \in MountSet(mounts) : m.path = q
  BY UmountStep
<1>2. q \in MountPaths
  <2>1. PICK m \in MountSet(mounts) : m.path = q
    BY <1>1
  <2>2. m \in MountPoint
    BY DEF WellFormed, MountSet
  <2>3. QED
    BY <2>1, <2>2 DEF MountPoint
<1>3. /\ DOMAIN old = {m.path : m \in MountSet(mounts)}
      /\ \A m \in MountSet(mounts) :
           old[m.path] = [filesystem |-> m.filesystem, options |-> m.options]
  BY MapOfProperties
<1>4. /\ DOMAIN MapOf(mounts') = {m.path : m \in MountSet(mounts')}
      /\ \A m \in MountSet(mounts') :
           MapOf(mounts')[m.path] = [filesystem |-> m.filesystem, options |-> m.options]
  BY <1>1, MapOfProperties
<1> HIDE DEF q, old
<1>5. DOMAIN MapOf(mounts') = DOMAIN after
  BY <1>1, <1>3, <1>4
<1>6. ASSUME NEW r \in DOMAIN after
      PROVE  MapOf(mounts')[r] = after[r]
  <2>1. PICK m \in MountSet(mounts) : m.path = r
    BY <1>3
  <2>2. r # q
    OBVIOUS
  <2>3. m \in MountSet(mounts')
    BY <1>1, <2>1, <2>2
  <2>4. QED
    BY <1>3, <1>4, <2>1, <2>3
<1>7. MapOf(mounts') = after
  <2>1. MapOf(mounts') = [r \in DOMAIN MapOf(mounts') |-> MapOf(mounts')[r]]
    BY DEF MapOf
  <2>2. QED
    BY <1>5, <1>6, <2>1
<1>8. AbstractTable = MapOf(mounts) /\ AbstractTable' = MapOf(mounts')
  BY DEF AbstractTable, MapOf
<1>9. QED
  BY <1>1, <1>2, <1>3, <1>7, <1>8 DEF Map!Umount, q, old

(* The vector implements the map from mount paths to filesystems: the empty *)
(* vector is the empty map, and every mount, replacement and umount changes *)
(* the map at its own path and nowhere else.                                *)
THEOREM TableImplementsMap == TableSpec => ImplementsMap
<1>1. TableInit => Map!Init
  BY DEF TableInit, Map!Init, AbstractTable
<1>2. ASSUME WellFormed(mounts), [TableNext]_mounts
      PROVE  [Map!Next]_AbstractTable
  <2>1. ASSUME NEW path \in MountArgs, NEW fs \in Filesystems, NEW opts \in Options,
               Mount(path, fs, opts)
        PROVE  Map!Next
    <3>1. MountPath(path) \in MountPaths
      BY <1>2, <2>1, MountStep
    <3>2. Map!Mount(MountPath(path), fs, opts)
      BY <1>2, <2>1, MountImplementsMap
    <3>3. QED
      BY <3>1, <3>2 DEF Map!Next
  <2>2. ASSUME NEW path \in MountArgs, Umount(path)
        PROVE  Map!Next
    BY <1>2, <2>2, UmountImplementsMap DEF Map!Next
  <2>3. CASE UNCHANGED mounts
    BY <2>3 DEF AbstractTable
  <2>4. QED
    BY <1>2, <2>1, <2>2, <2>3 DEF TableNext
<1>3. QED
  BY <1>1, <1>2, TableWellFormed, PTL DEF TableSpec, ImplementsMap, Map!Spec

(* On a well-formed table that folds no case resolve() finds the mount that *)
(* the map's Owner names.                                                   *)
LEMMA WellFormedResolvesAsMap == WellFormed(mounts) => ResolvesAsMap
<1> SUFFICES ASSUME WellFormed(mounts), NoFolding, NEW p \in AbsPaths
             PROVE  /\ CanResolve(mounts, p) <=> Map!Owned(p)
                    /\ CanResolve(mounts, p) =>
                         mounts[OwnerIndex(mounts, p)].path = Map!Owner(p)
  BY DEF ResolvesAsMap
<1> DEFINE paths == {mounts[i].path : i \in DOMAIN mounts}
<1>1. mounts \in Seq(MountPoint) /\ DOMAIN mounts = 1..Len(mounts)
  BY DEF WellFormed
<1>2. DOMAIN AbstractTable = paths
  BY DEF AbstractTable
<1>3. Owners(mounts, p) = {i \in DOMAIN mounts : Covers(mounts[i].path, p)}
  BY <1>1, NoFoldingOwners
<1>4. CanResolve(mounts, p) <=> Map!Owned(p)
  BY <1>2, <1>3 DEF CanResolve, Map!Owned
<1>5. ASSUME CanResolve(mounts, p)
      PROVE  mounts[OwnerIndex(mounts, p)].path = Map!Owner(p)
  <2> DEFINE o == OwnerIndex(mounts, p)
             q == mounts[o].path
             Longest(x) == /\ Covers(x, p)
                           /\ \A r \in paths : Covers(r, p) => ByteLen(r) <= ByteLen(x)
  <2>1. o \in Owners(mounts, p) /\ o \in 1..Len(mounts)
    BY <1>1, <1>5, OwnerIndexProperties
  <2>2. q \in paths /\ Covers(q, p)
    BY <1>1, <1>3, <2>1
  <2>3. \A r \in paths : Covers(r, p) => ByteLen(r) <= ByteLen(q)
    <3>1. LongestMatch
      BY WellFormedLongestMatch
    <3>2. QED
      BY <1>3, <3>1 DEF LongestMatch
  <2>4. paths \subseteq MountPaths
    <3>1. \A i \in DOMAIN mounts : mounts[i] \in MountPoint
      BY <1>1
    <3>2. QED
      BY <3>1 DEF MountPoint
  <2>5. \A r \in paths : Longest(r) => r = q
    BY <2>2, <2>3, <2>4, ByteLenAssumption
  <2>6. q \in paths /\ Longest(q)
    BY <2>2, <2>3
  <2>7. Map!Owner(p) = CHOOSE x \in paths : Longest(x)
    BY <1>2 DEF Map!Owner
  <2> HIDE DEF q, paths, Longest
  <2>8. (CHOOSE x \in paths : Longest(x)) = q
    BY <2>5, <2>6
  <2>9. QED
    BY <2>7, <2>8 DEF q
<1>6. QED
  BY <1>4, <1>5

(* While no mount folds case, a path belongs to the mount that the map      *)
(* gives it, in every reachable table: the order of the calls is forgotten. *)
THEOREM TableResolvesAsMap == TableSpec => []ResolvesAsMap
  BY WellFormedResolvesAsMap, TableWellFormed, PTL
=============================================================================
