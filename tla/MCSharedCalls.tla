--------------------------- MODULE MCSharedCalls ---------------------------
(***************************************************************************)
(* An instance of SharedCalls: two mounts, one of them read-only or not, a *)
(* file on each filesystem, and another user who works on the same files.  *)
(***************************************************************************)
EXTENDS MCVfs, SharedCalls

CallTree == (Root :> EmptyDir) @@ (F :> File(<<"a">>))
CallTrees == {CallTree, [CallTree EXCEPT ![F] = File(<<"b">>)]}
CallPaths == {Root, F, M, MF}
CallPairs == {<<F, MF>>, <<F, F>>}

(* Others work on the file of one filesystem, and on another file of the   *)
(* other one.                                                              *)
OneFs == CHOOSE f \in Filesystems : TRUE
CallOthers == {<<OneFs, F>>} \cup {<<f, G>> : f \in Filesystems \ {OneFs}}
OtherContents == {<<>>}
=============================================================================
