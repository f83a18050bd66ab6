---------------------------- MODULE MCPathCalls ----------------------------
(***************************************************************************)
(* All texts of at most MaxSegments segments over two names, "", "." and   *)
(* "..": doubled, leading and trailing separators and every mixture of ".."*)
(* with names occur.                                                       *)
(***************************************************************************)
EXTENDS PathCalls

CONSTANT MaxSegments

MCInputs == UNION {[1..n -> Segs] : n \in 1..MaxSegments}

MCSegPrefix == {}
MCLower == [s \in Segs |-> s]
=============================================================================
