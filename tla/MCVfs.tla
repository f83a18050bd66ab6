------------------------------- MODULE MCVfs -------------------------------
(***************************************************************************)
(* Instances of Vfs.  "m" is a proper prefix of "mx".                      *)
(***************************************************************************)
EXTENDS Vfs, TLC

MCSegPrefix == {<<"m", "mx">>, <<".", "..">>}

MCLower == [s \in Segs |-> s]

MCSegLen(s) ==
  CASE s = ""             -> 0
    [] s \in {"mx", ".."} -> 2
    [] OTHER              -> 1

MCByteLen(p) == Len(p) - 1 + SumFunction([i \in DOMAIN p |-> MCSegLen(p[i])])

M == <<"", "m">>
MX == <<"", "mx">>
F == <<"", "f">>
MF == <<"", "m", "f">>
MXF == <<"", "mx", "f">>

RW == [read_only |-> FALSE, case_insensitive |-> FALSE]
RO == [read_only |-> TRUE, case_insensitive |-> FALSE]
JustRW == {RW}
WritableOrNot == {RW, RO}

FilesystemSymmetry == Permutations(Filesystems)

(* A filesystem with files at /f and /m/f, and room for one at /mx/f.      *)
File(data) == [type |-> "file", data |-> data]

RoomyTree == (Root :> EmptyDir) @@ (F :> EmptyFile)
               @@ (M :> EmptyDir) @@ (MF :> EmptyFile) @@ (MX :> EmptyDir)
RoomyTrees == {RoomyTree}

-----------------------------------------------------------------------------
(* Descriptors and mounts that come and go: nested mounts, a neighbour     *)
(* that shares text, files that open finds or creates, no data.            *)
NestedArgs == {Root, <<"", "m", "">>, MX}
NestedPaths == {Root, F, M, MF, MX, MXF}
FdArgs == {<<"f">>, MXF}
CdArgs == {M, <<"..">>}
CreateFlags == {{"READ", "CREATE"}}

-----------------------------------------------------------------------------
(* Two mounts that cannot nest, read-only or not, and every call that      *)
(* changes a filesystem or a descriptor.  Half is 4: the offset 3 is the   *)
(* largest i64, and a seek by 3 from any position but 0 overflows.         *)
FlatArgs == {M, MX}
FlatPaths == {Root, M, MF, MX, MXF}
FlatOpens == {MF}
FlatTree == (Root :> EmptyDir) @@ (F :> File(<<"a">>))
FlatTrees == {FlatTree}
FileFlags == {{"READ", "WRITE"}, {"WRITE", "APPEND"}, {"READ", "CREATE", "TRUNCATE"}}
FileSeeks == {<<0, "End">>, <<-1, "Current">>, <<3, "Start">>, <<3, "Current">>}
FilePairs == {<<MXF, MF>>, <<MF, MF>>}
FileArgs == {MF}
OneWrite == {<<"a">>}

-----------------------------------------------------------------------------
(* cp and mv between two mounts, with different data on the two sides.     *)
MoveTree == (Root :> EmptyDir) @@ (F :> File(<<"a", "b">>))
MoveTrees == {MoveTree, [MoveTree EXCEPT ![F] = File(<<"b">>)]}
G == <<"", "g">>
PairArgs == {Root, M}
MovePaths == {Root, F, G, M, MF}
MovePairs == {<<F, MF>>, <<MF, F>>, <<F, G>>}

-----------------------------------------------------------------------------
(* Small instances for what the comments say.                              *)
OneMount == {M}
OneFile == {MF}
TwoWrites == {<<"a">>, <<"b">>}
AppendFlags == {{"WRITE", "APPEND"}}
=============================================================================
