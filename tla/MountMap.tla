------------------------------ MODULE MountMap ------------------------------
(***************************************************************************)
(* What a mount table promises, without its order: a map from mount paths  *)
(* to filesystems in which a path belongs to the longest mount path that   *)
(* covers it.                                                              *)
(***************************************************************************)
EXTENDS Integers

CONSTANTS
  Filesystems,
  Options,
  MountPaths,     \* the paths at which something can be mounted
  Covers(_, _),   \* Covers(q, p): mount path q is a prefix of p, by whole names
  ByteLen(_)      \* the length that "longest" is about

VARIABLE table    \* from mounted paths to [filesystem, options]

Init == table = [q \in {} |-> 0]

Mount(q, fs, opts) ==
  table' = [r \in DOMAIN table \cup {q} |->
              IF r = q THEN [filesystem |-> fs, options |-> opts] ELSE table[r]]

Umount(q) ==
  /\ q \in DOMAIN table
  /\ table' = [r \in DOMAIN table \ {q} |-> table[r]]

Next ==
  \E q \in MountPaths :
    \/ \E fs \in Filesystems, opts \in Options : Mount(q, fs, opts)
    \/ Umount(q)

Spec == Init /\ [][Next]_table

(* The mount path a path belongs to, for a path that has one. *)
Owned(p) == \E q \in DOMAIN table : Covers(q, p)

Owner(p) ==
  CHOOSE q \in DOMAIN table :
    /\ Covers(q, p)
    /\ \A r \in DOMAIN table : Covers(r, p) => ByteLen(r) <= ByteLen(q)
=============================================================================
