----------------------------- MODULE MountTable -----------------------------
(***************************************************************************)
(* The mount table of src/mount.rs: a vector of mount points kept sorted   *)
(* by path length, longest first, so that the first mount point that       *)
(* matches a path is the longest one.  The operators take the table as an  *)
(* argument; the state machine at the end is the table on its own.         *)
(***************************************************************************)
EXTENDS Paths

CONSTANTS
  Filesystems,  \* the &'static dyn Filesystem handles
  MountArgs,    \* the texts callers pass to mount and umount
  Options,      \* the MountOptions callers pass
  AbsPaths,     \* the normal absolute paths that resolve is asked about
  ByteLen(_)    \* str::len of a path's text

MountPaths == {MountPath(a) : a \in {b \in MountArgs : IsAbsolute(b)}}

(* Mount path q is a prefix of p that ends where a name of p ends. *)
Covers(q, p) == StartsWith(p, q) /\ (EndsAtBoundary(p, q) \/ q = Root)

ASSUME MountAssumption ==
  /\ MountArgs \subseteq Texts
  /\ Options \subseteq [read_only : BOOLEAN, case_insensitive : BOOLEAN]

ASSUME AbsPathsAssumption ==
  AbsPaths \subseteq Texts /\ \A p \in AbsPaths : IsNormal(p)

(* Two different prefixes of one path differ in length. *)
ASSUME ByteLenAssumption ==
  /\ \A q \in MountPaths : ByteLen(q) \in Nat
  /\ \A p \in AbsPaths : \A q, r \in MountPaths :
       Covers(q, p) /\ Covers(r, p) /\ ByteLen(q) = ByteLen(r) => q = r

MountPoint ==
  [path : MountPaths, filesystem : Filesystems, options : Options]

-----------------------------------------------------------------------------
(* resolve() and find_mount_index(), over a table ms.                      *)

MatchesAnyPrefix(m, p) ==           \* mutant: no boundary check
  IF m.options.case_insensitive
    THEN StartsWith(Fold(p), Fold(m.path))
    ELSE StartsWith(p, m.path)

(* The test resolve() makes of a mount point m for a normalised path p. *)
Matches(m, p) ==
  LET Text(t) == IF m.options.case_insensitive THEN Fold(t) ELSE t
  IN  /\ StartsWith(Text(p), Text(m.path))
      /\ EndsAtBoundary(Text(p), Text(m.path)) \/ m.path = Root

(* The mount points that match p; the loop of resolve() stops at the first. *)
Owners(ms, p) ==
  LET lookup == Normalize(p)
  IN  {i \in DOMAIN ms : Matches(ms[i], lookup)}

CanResolve(ms, p) == Owners(ms, p) # {}

LastOwner(ms, p) == Max(Owners(ms, p))     \* mutant: the last match wins

OwnerIndex(ms, p) == Min(Owners(ms, p))

(***************************************************************************)
(* The path handed to the filesystem.  strip_prefix compares with case     *)
(* even when the match was made without it; the fallback is then "/".      *)
(***************************************************************************)
RelativeNeverStrips(m, p) == p             \* mutant: the prefix is left on

RelativeTo(m, p) ==
  LET stripped == StripPrefix(p, m.path)
  IN  IF m.path = Root THEN p
      ELSE IF stripped = NoPath THEN Root ELSE stripped

Resolve(ms, p) ==
  LET m == ms[OwnerIndex(ms, p)]
  IN  [filesystem    |-> m.filesystem,
       relative_path |-> RelativeTo(m, Normalize(p)),
       read_only     |-> m.options.read_only]

NoIndex == 0                               \* usize::MAX

IndexAtRootOnly(ms, p) ==                  \* mutant: the index of "/" only
  LET hits == {i \in DOMAIN ms : ms[i].path = Root}
  IN  IF hits = {} THEN NoIndex ELSE Min(hits)

(* Vfs::find_mount_index, a second matcher: it never folds the case. *)
FindMountIndex(ms, p) ==
  LET hits == {i \in DOMAIN ms : Covers(ms[i].path, p)}
  IN  IF hits = {} THEN NoIndex ELSE Min(hits)

-----------------------------------------------------------------------------
VARIABLE mounts

(* The table ms without the first mount point at p, if there is one. *)
Without(ms, p) == RemoveFirstMatch(ms, LAMBDA m : m.path = p)

IsMounted(p) == \E i \in DOMAIN mounts : mounts[i].path = p

PushUnsorted(rest, m) == mounts' = Append(rest, m)   \* mutant: no sort

(***************************************************************************)
(* Pushing m on the sorted table rest and sorting again, stably, by        *)
(* decreasing length leaves m behind every path at least as long as its    *)
(* own and before every shorter one.                                       *)
(***************************************************************************)
PushSorted(rest, m) ==
  \E k \in 1..(Len(rest) + 1) :
    /\ \A i \in 1..(k - 1) : ByteLen(rest[i].path) >= ByteLen(m.path)
    /\ \A i \in k..Len(rest) : ByteLen(rest[i].path) < ByteLen(m.path)
    /\ mounts' = InsertAt(rest, k, m)

MountKeepsOld(path, fs, opts) ==    \* mutant: an existing entry stays behind
  /\ IsAbsolute(path)
  /\ PushSorted(mounts, [path |-> MountPath(path), filesystem |-> fs,
                         options |-> opts])

MountAnyText(path, fs, opts) ==     \* mutant: relative texts are accepted
  PushSorted(Without(mounts, MountPath(path)),
             [path |-> MountPath(path), filesystem |-> fs, options |-> opts])

(* MountTable::mount; a text that is not absolute is refused. *)
Mount(path, fs, opts) ==
  /\ IsAbsolute(path)
  /\ PushSorted(Without(mounts, MountPath(path)),
                [path |-> MountPath(path), filesystem |-> fs, options |-> opts])

UmountAllBelow(path) ==             \* mutant: what is mounted below goes too
  /\ IsMounted(MountPath(path))
  /\ mounts' = SelectSeq(mounts, LAMBDA m : ~ Covers(MountPath(path), m.path))

(* MountTable::umount; a path where nothing is mounted is refused. *)
Umount(path) ==
  /\ IsMounted(MountPath(path))
  /\ mounts' = Without(mounts, MountPath(path))

TableInit == mounts = <<>>

TableNext ==
  \/ \E path \in MountArgs, fs \in Filesystems, opts \in Options :
       Mount(path, fs, opts)
  \/ \E path \in MountArgs : Umount(path)

TableSpec == TableInit /\ [][TableNext]_mounts

-----------------------------------------------------------------------------
(***************************************************************************)
(* Properties.                                                             *)
(***************************************************************************)

(* The table holds mount points as mount() builds them. *)
TableTypeOK == mounts \in Seq(MountPoint)

(* One mount per path, and longer paths first: what mount() re-establishes *)
(* after replacing an entry, and what resolve() relies on.                 *)
UniquePaths ==
  \A i, j \in DOMAIN mounts : mounts[i].path = mounts[j].path => i = j

SortedByLength ==
  \A i, j \in DOMAIN mounts :
    i < j => ByteLen(mounts[i].path) >= ByteLen(mounts[j].path)

(* Longest-prefix match, whatever was mounted, replaced and unmounted      *)
(* before: no mount point that matches a path is longer than the one       *)
(* resolve() returns, with or without case folding.                        *)
LongestMatch ==
  \A p \in AbsPaths : \A i \in Owners(mounts, p) :
    ByteLen(mounts[i].path) <= ByteLen(mounts[OwnerIndex(mounts, p)].path)

NoFolding == \A i \in DOMAIN mounts : ~ mounts[i].options.case_insensitive

(* The two matchers, of which only resolve() folds case, part on one kind  *)
(* of path alone: one whose mount has been matched in another case.  On    *)
(* every other path, in a table with mounts that fold as in one without,   *)
(* mv and the open-file table see the mount that resolve() uses.           *)
MatchersAgree ==
  \A p \in AbsPaths :
    LET found == FindMountIndex(mounts, p)
        owner == OwnerIndex(mounts, p)
    IN  IF CanResolve(mounts, p)
          THEN Covers(mounts[owner].path, p) => found = owner
          ELSE found = NoIndex

(* The relative path of p, put back behind the path of its mount. *)
Rejoined(p) ==
  Normalize(mounts[OwnerIndex(mounts, p)].path \o Resolve(mounts, p).relative_path)

(* While no mount folds case, the relative path handed to the filesystem   *)
(* is exactly what follows the mount path, for every text a mount path can *)
(* have, with and without trailing separators and for the root: put back,  *)
(* it gives the path.                                                      *)
RelativeIsRest ==
  NoFolding => \A p \in AbsPaths : CanResolve(mounts, p) => Rejoined(p) = p

(* "The path relative to the mount point's root" (ResolvedMount), also on  *)
(* a mount whose "path comparisons are case-insensitive" (MountOptions):   *)
(* put back, it gives the path that was resolved, up to case.              *)
RelativeToItsMount ==
  \A p \in AbsPaths : CanResolve(mounts, p) => Fold(Rejoined(p)) = Fold(p)

(***************************************************************************)
(* The table implements the map from mount paths to filesystems, and, as   *)
(* long as no mount folds case, resolve() answers as the map does: by the  *)
(* set of mounts alone, never by the order in which they were made.        *)
(***************************************************************************)
AbstractTable ==
  [q \in {mounts[i].path : i \in DOMAIN mounts} |->
     LET i == CHOOSE i \in DOMAIN mounts : mounts[i].path = q
     IN  [filesystem |-> mounts[i].filesystem, options |-> mounts[i].options]]

Map == INSTANCE MountMap WITH table <- AbstractTable

ImplementsMap == Map!Spec

ResolvesAsMap ==
  NoFolding =>
    \A p \in AbsPaths :
      /\ CanResolve(mounts, p) <=> Map!Owned(p)
      /\ CanResolve(mounts, p) =>
           mounts[OwnerIndex(mounts, p)].path = Map!Owner(p)
=============================================================================
