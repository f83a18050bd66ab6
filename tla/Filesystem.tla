----------------------------- MODULE Filesystem -----------------------------
(***************************************************************************)
(* What src/vfs.rs expects of an implementation of the Filesystem trait of *)
(* src/fs_trait.rs.  The implementations are other crates; they are        *)
(* modelled here by the contract that the trait's comments state and that  *)
(* the calls in vfs.rs rely on.  A filesystem is a tree: a function from   *)
(* the paths it holds, relative to its own root, to files and directories. *)
(***************************************************************************)
EXTENDS Paths

CONSTANTS
  Bytes,        \* the bytes callers write
  Zero,         \* what a gap left by a write past the end reads as
  MaxFileSize   \* the largest file that a filesystem holds

Data == {d \in Seq(Bytes \cup {Zero}) : Len(d) <= MaxFileSize}

Node == [type : {"file", "dir"}, data : Data]

EmptyFile == [type |-> "file", data |-> <<>>]
EmptyDir == [type |-> "dir", data |-> <<>>]

(* Paths given to a filesystem always start with a separator. *)
IsTree(t) ==
  /\ t = [p \in DOMAIN t |-> t[p]]
  /\ \A p \in DOMAIN t : p \in Texts /\ IsAbsolute(p) /\ t[p] \in Node

HasFile(t, p) == p \in DOMAIN t /\ t[p].type = "file"

HasDir(t, p) == p \in DOMAIN t /\ t[p].type = "dir"

Size(node) == Len(node.data)

(* create_file and mkdir: the path is free and its parent is a directory.  *)
CanAdd(t, p) == p \notin DOMAIN t /\ HasDir(t, Parent(p))

Put(t, p, node) == [q \in DOMAIN t \cup {p} |-> IF q = p THEN node ELSE t[q]]

(* truncate to size 0. *)
Truncated(t, p) == [t EXCEPT ![p].data = <<>>]

(* write_file: the file is extended when the write ends past its end.      *)
Overwrite(data, offset, bytes) ==
  IF bytes = <<>> THEN data
  ELSE [i \in 1..Max({Len(data), offset + Len(bytes)}) |->
          IF i \in (offset + 1)..(offset + Len(bytes)) THEN bytes[i - offset]
          ELSE IF i <= Len(data) THEN data[i] ELSE Zero]

Written(t, p, offset, bytes) ==
  [t EXCEPT ![p].data = Overwrite(@, offset, bytes)]

(* read_file: fewer bytes than asked for at the end of the file only.      *)
BytesRead(node, offset, len) ==
  IF offset >= Size(node) THEN 0 ELSE Min({len, Size(node) - offset})

Below(p, q) == IsStrictPrefix(p, q)

(* delete_file, and rmdir of an empty directory other than the root.       *)
CanRemoveDir(t, p) ==
  HasDir(t, p) /\ p # Root /\ \A q \in DOMAIN t : ~ Below(p, q)

Removed(t, p) == [q \in DOMAIN t \ {p} |-> t[q]]

(* rename: what is at or below old moves to new; a file there is replaced. *)
CanRename(t, old, new) ==
  /\ old \in DOMAIN t \ {Root}
  /\ \/ new = old
     \/ HasFile(t, new) /\ HasFile(t, old)
     \/ CanAdd(t, new)
  /\ ~ Below(old, new)

Renamed(t, old, new) ==
  LET Moves(q) == q = old \/ Below(old, q)
      moved == {q \in DOMAIN t : Moves(q)}
      To(q) == new \o SubSeq(q, Len(old) + 1, Len(q))
      kept == {q \in DOMAIN t \ moved : q # new}
      From(r) == CHOOSE q \in moved : To(q) = r
  IN  [r \in kept \cup {To(q) : q \in moved} |->
         IF r \in kept THEN t[r] ELSE t[From(r)]]
=============================================================================
