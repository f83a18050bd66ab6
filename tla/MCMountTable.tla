---------------------------- MODULE MCMountTable ----------------------------
(***************************************************************************)
(* Instances of MountTable: "m" is a proper prefix of "mx" and "M" folds   *)
(* to "m", so that neighbours that share text and mounts that differ only  *)
(* in case both occur.                                                     *)
(***************************************************************************)
EXTENDS MountTable, TLC

MCSegPrefix == {<<"m", "mx">>, <<".", "..">>}

MCLower == [s \in Segs |-> IF s = "M" THEN "m" ELSE s]

MCSegLen(s) ==
  CASE s = ""            -> 0
    [] s \in {"mx", ".."} -> 2
    [] OTHER             -> 1

MCByteLen(p) == Len(p) - 1 + SumFunction([i \in DOMAIN p |-> MCSegLen(p[i])])

MCAbsPaths ==
  {Root} \cup {<<"", x>> : x \in {"m", "mx", "M", "f"}}
         \cup {<<"", "m", "f">>, <<"", "M", "f">>, <<"", "mx", "f">>}

(* "/", "//", "/m", "/m/", "/M", "/mx", "/m/f" and the relative *)
(* "m": trailing separators, two mounts of one length that fold alike, a   *)
(* neighbour that shares text and a nested mount.                          *)
MCMountArgs ==
  {Root, <<"", "", "">>, <<"", "m">>, <<"", "m", "">>, <<"", "M">>,
   <<"", "mx">>, <<"", "m", "f">>, <<"m">>}

(* "/", "/m", "/M" and "/m/f", for the counterexample.                     *)
MCFoldMountArgs == {Root, <<"", "m">>, <<"", "M">>, <<"", "m", "f">>}

MCOptions ==
  {[read_only |-> FALSE, case_insensitive |-> c] : c \in BOOLEAN}

FilesystemSymmetry == Permutations(Filesystems)
=============================================================================
