----------------------------- MODULE PathCalls -----------------------------
(***************************************************************************)
(* A caller of path.rs who walks: a directory, kept as an absolute path,   *)
(* resolved against one argument after another as Vfs::resolve_path does,  *)
(* or replaced by its parent.  The properties compare what the loops of    *)
(* path.rs compute with what the operations mean.                          *)
(***************************************************************************)
EXTENDS Paths, FiniteSets

CONSTANTS
  Inputs,     \* the texts the caller resolves
  MaxDepth    \* bound: the directory has at most so many components

ASSUME InputsAssumption == Inputs \subseteq Texts /\ MaxDepth \in Nat

VARIABLES dir, input

Walk ==
  /\ dir' = ResolvePath(dir, input)
  /\ Len(Components(dir')) <= MaxDepth
  /\ input' \in Inputs

Up ==
  /\ Parent(dir) # NoPath
  /\ dir' = Parent(dir)
  /\ UNCHANGED input

PathInit == dir = Root /\ input \in Inputs

PathNext == Walk \/ Up

PathSpec == PathInit /\ [][PathNext]_<<dir, input>>

-----------------------------------------------------------------------------
(* The reference definitions.                                              *)

(* Component i of c survives unless some later ".." is left to cancel it:  *)
(* from i on, the ".." never outnumber the names up to it.                 *)
Survives(c, i) ==
  /\ c[i] \notin {".", ".."}
  /\ \A j \in (i + 1)..Len(c) :
       Cardinality({k \in (i + 1)..j : c[k] = ".."})
         <= Cardinality({k \in (i + 1)..j : c[k] \notin {".", ".."}})

Surviving(p) ==
  LET c == Components(p)
      kept == {i \in DOMAIN c : Survives(c, i)}
  IN  [n \in 1..Cardinality(kept) |->
         c[CHOOSE i \in kept : Cardinality({k \in kept : k <= i}) = n]]

-----------------------------------------------------------------------------
(***************************************************************************)
(* Properties.                                                             *)
(***************************************************************************)

(* The stack of normalize() keeps exactly the components that no later     *)
(* ".." cancels, in their order, for absolute and relative texts alike.    *)
NormalizeKeepsSurvivors ==
  \A next \in Inputs :
    LET text == Join(input, next)
    IN  Components(Normalize(text)) = Surviving(text)

(* The working directory stays absolute and normal, however many texts     *)
(* with "..", "." and doubled separators are resolved against it.          *)
DirStaysNormal == IsNormal(dir) /\ IsNormal(ResolvePath(dir, input))

(* Two steps are one: resolving a text and then a second one is resolving  *)
(* the two joined, the identity that lets callers build paths with join(). *)
WalkComposes ==
  \A next \in Inputs :
    ResolvePath(ResolvePath(dir, input), next) = ResolvePath(dir, Join(input, next))

(* The parent and the filename are the two halves of a path: joined, they  *)
(* give it back.                                                           *)
ParentAndFilename ==
  dir # Root => Join(Parent(dir), <<Filename(dir)>>) = dir
=============================================================================
