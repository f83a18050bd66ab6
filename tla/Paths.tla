------------------------------- MODULE Paths -------------------------------
(***************************************************************************)
(* The path algorithms of src/path.rs, with the two path computations the  *)
(* rest of the crate does inline: Vfs::resolve_path and the trimming of a  *)
(* mount argument.                                                         *)
(*                                                                         *)
(* A path is a text, and every operation of path.rs cuts that text at its  *)
(* separators, so a path is represented by the non-empty sequence of its   *)
(* separator-free segments: "/a//b/" is <<"", "a", "", "b", "">>, "/" is   *)
(* <<"", "">> and the empty text is <<"">>.  Nothing is lost by this.      *)
(* Names are atoms; what the code can observe of their spelling is given   *)
(* by two constants, a relation and a function.                            *)
(***************************************************************************)
EXTENDS Integers, SequencesExt

CONSTANTS
  Names,      \* the ordinary segments: neither empty, nor ".", nor ".."
  SegPrefix,  \* pairs <<q, s>>: the text of q is a proper prefix of that of s
  Lower       \* to_ascii_lowercase, segment by segment

Segs == Names \cup {"", ".", ".."}

ASSUME NamesAssumption ==
  /\ {"", ".", ".."} \cap Names = {}
  /\ SegPrefix \subseteq Segs \X Segs
  /\ Lower \in [Segs -> Segs]
  /\ Lower[""] = ""

Texts == Seq(Segs) \ {<<>>}

Root == <<"", "">>

IsAbsolute(p) == Len(p) > 1 /\ p[1] = ""

(* The absolute paths that normalisation leaves as they are. *)
IsNormal(p) ==
  \/ p = Root
  \/ Len(p) > 1 /\ p[1] = "" /\ \A i \in 2..Len(p) : p[i] \in Names

(* The segments that are not empty. *)
Components(p) ==
  LET kept[i \in 0..Len(p)] ==
        IF i = 0 THEN <<>>
        ELSE IF p[i] = "" THEN kept[i - 1] ELSE Append(kept[i - 1], p[i])
  IN  kept[Len(p)]

PushKeepsDotDot(stack, c) ==        \* mutant: ".." never pops
  IF c = "." THEN stack ELSE Append(stack, c)

(* One turn of the loop of normalize(): what a component does to the stack. *)
PushComponent(stack, c) ==
  CASE c = "."  -> stack
    [] c = ".." -> IF stack = <<>> THEN stack ELSE Front(stack)
    [] OTHER    -> Append(stack, c)

(* The stack after all turns. *)
Pushed(comps) ==
  LET pushed[i \in 0..Len(comps)] ==
        IF i = 0 THEN <<>> ELSE PushComponent(pushed[i - 1], comps[i])
  IN  pushed[Len(comps)]

Normalize(p) ==
  LET stack == Pushed(Components(p))
  IN  IF IsAbsolute(p)
        THEN IF stack = <<>> THEN Root ELSE <<"">> \o stack
        ELSE IF stack = <<>> THEN <<"">> ELSE stack

JoinKeepsBase(base, other) ==       \* mutant: an absolute path is appended too
  IF Last(base) = "" THEN Front(base) \o other ELSE base \o other

JoinAlwaysSeparates(base, other) == \* mutant: a separator even after one
  IF IsAbsolute(other) THEN other ELSE base \o other

Join(base, other) ==
  IF IsAbsolute(other) THEN other
  ELSE IF Last(base) = "" THEN Front(base) \o other ELSE base \o other

(* None stands for Option::None; no text is the empty sequence. *)
NoPath == <<>>

Parent(p) ==
  LET n == Normalize(p)
  IN  IF n \in {Root, <<"">>} THEN NoPath
      ELSE CASE Len(n) = 1              -> <<"">>
             [] n[1] = "" /\ Len(n) = 2 -> Root
             [] OTHER                   -> Front(n)

(* trim_end_matches('/') on a text. *)
TrimEnd(p) == SubSeq(p, 1, Max({1} \cup {i \in DOMAIN p : p[i] # ""}))

Filename(p) == Last(TrimEnd(p))     \* "" stands for None

(* str::starts_with: the last segment of q may end inside a segment of p. *)
StartsWith(p, q) ==
  /\ Len(q) <= Len(p)
  /\ \A i \in 1..(Len(q) - 1) : p[i] = q[i]
  /\ LET s == p[Len(q)]
         t == q[Len(q)]
     IN  t = "" \/ t = s \/ <<t, s>> \in SegPrefix

(* What follows prefix q in p is empty or starts with a separator. *)
EndsAtBoundary(p, q) == IsPrefix(q, p)

Fold(p) == [i \in DOMAIN p |-> Lower[p[i]]]

(***************************************************************************)
(* strip_prefix() for a prefix that ends at a boundary of p, the only case *)
(* its caller lets through: the separators at the front of the remainder   *)
(* are trimmed and one is put back.                                        *)
(***************************************************************************)
StripPrefix(p, q) ==
  IF ~ StartsWith(p, q)
    THEN NoPath
    ELSE LET rest == SubSeq(p, Len(q) + 1, Len(p))
             kept == {i \in DOMAIN rest : rest[i] # ""}
         IN  IF kept = {} THEN Root
             ELSE <<"">> \o SubSeq(rest, Min(kept), Len(rest))

(* Vfs::resolve_path. *)
ResolvePath(cwd, p) == Normalize(IF IsAbsolute(p) THEN p ELSE Join(cwd, p))

(* The argument of mount and umount, as both normalise it. *)
MountPath(p) == IF p = Root THEN p ELSE TrimEnd(p)
=============================================================================
