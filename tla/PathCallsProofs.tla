-------------------------- MODULE PathCallsProofs --------------------------
(***************************************************************************)
(* The properties of PathCalls, for every set of names and of inputs and   *)
(* for walks of every length.                                              *)
(***************************************************************************)
EXTENDS PathCalls, PathsProofs, FiniteSetTheorems

-----------------------------------------------------------------------------
(* A walk.                                                                 *)

(* Inductive: the directory is a text that normalize() leaves as it is.    *)
WalkInv ==
  /\ dir \in Texts
  /\ IsNormal(dir)
  /\ input \in Inputs

(* The two halves of a normal path other than the root.                    *)
LEMMA NormalHalves ==
  ASSUME NEW p \in Texts, IsNormal(p), p # Root
  PROVE  /\ Parent(p) \in Texts /\ IsNormal(Parent(p))
         /\ Filename(p) \in Names
         /\ Join(Parent(p), <<Filename(p)>>) = p
<1>1. PICK s \in Seq(Names) : s # <<>> /\ p = <<Blank>> \o s
  BY NormalShape
<1>2. PICK t \in Seq(Names), e \in Names : s = Append(t, e)
  BY <1>1, SequenceEmptyOrAppend
<1>3. s \in Seq(Segs) /\ t \in Seq(Segs) /\ e \in Segs /\ <<Blank>> \in Seq(Segs)
  BY NamesAreSolid, EmptySegment DEF Segs
<1>4. PICK front \in Seq(Segs) : front = <<Blank>> \o t
  BY <1>3, ConcatProperties
<1>5. p = Append(front, e)
  BY <1>1, <1>2, <1>3, <1>4, ConcatAppend
<1>6. Front(p) = front /\ Last(p) = e
  BY <1>3, <1>5, FrontOfAppend
<1>7. PICK n \in Nat : n = Len(t)
  BY LenProperties
<1>8. Len(front) = n + 1
  BY <1>3, <1>4, <1>7, ConcatProperties
<1>9. Len(p) = n + 2 /\ p[n + 2] = e
  BY <1>3, <1>5, <1>8, AppendProperties
<1>10. p[1] = Blank
  BY <1>9, NormalMeans
<1>11. Normalize(p) = p
  BY NormalizeNormal
<1>12. p # <<Blank>>
  <2>1. Len(p) # 1
    BY <1>9
  <2>2. Len(<<Blank>>) = 1
    OBVIOUS
  <2>3. QED
    BY <2>1, <2>2, Zenon
<1>13. Parent(p) = IF n = 0 THEN Root ELSE front
  <2>1. Len(p) # 1 /\ (Len(p) = 2 <=> n = 0)
    BY <1>9
  <2>2. Parent(p) = CASE Len(p) = 1                  -> <<Blank>>
                      [] p[1] = Blank /\ Len(p) = 2 -> Root
                      [] OTHER                       -> Front(p)
    BY <1>11, <1>12 DEF Parent, Blank
  <2>3. CASE n = 0
    BY <1>10, <2>1, <2>2, <2>3
  <2>4. CASE n # 0
    BY <1>6, <1>10, <2>1, <2>2, <2>4
  <2>5. QED
    BY <2>3, <2>4
<1>14. Filename(p) = e
  <2>1. e # Blank
    BY BlankSegment
  <2>2. DOMAIN p = 1..(n + 2)
    BY <1>9, TextProperties, LenProperties
  <2> DEFINE S == {1} \cup {i \in DOMAIN p : p[i] # Blank}
  <2>3. n + 2 \in S /\ \A y \in S : n + 2 >= y
    BY <1>9, <2>1, <2>2
  <2>4. S \subseteq Int
    BY <2>2
  <2>5. Max(S) = n + 2
    <3> HIDE DEF S
    <3>1. \A x \in S : (\A y \in S : x >= y) => x = n + 2
      BY <2>3, <2>4
    <3>2. QED
      BY <2>3, <3>1 DEF Max
  <2>6. TrimEnd(p) = SubSeq(p, 1, Len(p))
    BY <1>9, <2>5 DEF TrimEnd, Blank
  <2>7. TrimEnd(p) = p
    BY <2>6, TextProperties, SubSeqFull
  <2>8. QED
    BY <1>6, <2>7 DEF Filename
<1>15. ~ IsAbsolute(<<e>>)
  <2>1. ~ (Len(<<e>>) > 1)
    OBVIOUS
  <2>2. QED
    BY <2>1, AbsoluteMeans, Zenon
<1>16. CASE n = 0
  <2>1. t = <<>>
    BY <1>7, <1>16, EmptySeq
  <2>2. p = Append(<<Blank>>, e)
    BY <1>3, <1>4, <1>5, <2>1, ConcatEmptySeq
  <2>3. Last(Root) = Blank /\ Front(Root) = <<Blank>>
    <3>1. Root = Append(<<Blank>>, Blank)
      BY RootMeans
    <3>2. QED
      BY <1>3, <3>1, BlankSegment, FrontOfAppend
  <2>4. Join(Root, <<e>>) = <<Blank>> \o <<e>>
    BY <1>15, <2>3, JoinMeans
  <2>5. <<Blank>> \o <<e>> = Append(<<Blank>>, e)
    BY <1>3, AppendIsConcat
  <2>6. Join(Root, <<e>>) = p
    BY <2>2, <2>4, <2>5
  <2>7. QED
    BY <1>13, <1>14, <1>16, <2>6, EmptySegment
<1>17. CASE n # 0
  <2>1. t # <<>>
    BY <1>7, <1>17
  <2>2. front \in Texts /\ IsNormal(front)
    BY <1>4, <2>1, SlashNames
  <2>3. Last(front) # Blank
    <3>1. PICK u \in Seq(Names), f \in Names : t = Append(u, f)
      BY <2>1, SequenceEmptyOrAppend
    <3>2. u \in Seq(Segs) /\ f \in Segs /\ f # Blank
      BY NamesAreSolid, BlankSegment DEF Segs
    <3>3. <<Blank>> \o u \in Seq(Segs) /\ front = Append(<<Blank>> \o u, f)
      BY <1>3, <1>4, <3>1, <3>2, ConcatAppend, ConcatProperties
    <3>4. QED
      BY <3>2, <3>3, FrontOfAppend
  <2>4. Join(front, <<e>>) = front \o <<e>>
    BY <1>15, <2>3, JoinMeans
  <2>5. front \o <<e>> = p
    BY <1>3, <1>5, AppendIsConcat
  <2>6. QED
    BY <1>13, <1>14, <1>17, <2>2, <2>4, <2>5
<1>18. QED
  BY <1>16, <1>17

(* The parent of the root is None, and that of no other normal path.       *)
LEMMA ParentOfRoot == Parent(Root) = NoPath
<1>1. Normalize(Root) = Root
  BY EmptySegment, NormalizeNormal
<1>2. QED
  BY <1>1 DEF Parent

(* Whatever a caller feeds to resolve_path, and however often it goes to   *)
(* the parent, the directory is a text that normalize() leaves alone.      *)
THEOREM WalkInvariant == PathSpec => []WalkInv
<1>1. PathInit => WalkInv
  BY EmptySegment DEF PathInit, WalkInv
<1>2. WalkInv /\ [PathNext]_<<dir, input>> => WalkInv'
  <2> SUFFICES ASSUME WalkInv, [PathNext]_<<dir, input>>
               PROVE  WalkInv'
    OBVIOUS
  <2>1. CASE Walk
    <3>1. input \in Texts /\ dir \in Texts /\ IsAbsolute(dir)
      BY InputsAssumption, NormalShape DEF WalkInv
    <3>2. ResolvePath(dir, input) \in Texts /\ IsNormal(ResolvePath(dir, input))
      BY <3>1, ResolvePathProperties
    <3>3. QED
      BY <2>1, <3>2 DEF WalkInv, Walk
  <2>2. CASE Up
    <3>1. dir # Root
      BY <2>2, ParentOfRoot DEF Up
    <3>2. Parent(dir) \in Texts /\ IsNormal(Parent(dir))
      BY <3>1, NormalHalves DEF WalkInv
    <3>3. QED
      BY <2>2, <3>2 DEF WalkInv, Up
  <2>3. CASE UNCHANGED <<dir, input>>
    BY <2>3 DEF WalkInv
  <2>4. QED
    BY <2>1, <2>2, <2>3 DEF PathNext
<1>3. QED
  BY <1>1, <1>2, PTL DEF PathSpec

(* For any number of steps and any arguments, the directory a caller walks *)
(* is absolute and normal, and so is what a further text resolves to.      *)
THEOREM WalkStaysNormal == PathSpec => []DirStaysNormal
<1>1. WalkInv => DirStaysNormal
  <2> SUFFICES ASSUME WalkInv PROVE DirStaysNormal
    OBVIOUS
  <2>1. dir \in Texts /\ IsNormal(dir) /\ input \in Texts
    BY InputsAssumption DEF WalkInv
  <2>2. IsAbsolute(dir)
    BY <2>1, NormalShape
  <2>3. IsNormal(ResolvePath(dir, input))
    BY <2>1, <2>2, ResolvePathProperties
  <2>4. QED
    BY <2>1, <2>3 DEF DirStaysNormal
<1>2. QED
  BY <1>1, WalkInvariant, PTL

(* Parent and filename always are the two halves of the directory.         *)
THEOREM WalkHalves == PathSpec => []ParentAndFilename
<1>1. WalkInv => ParentAndFilename
  BY NormalHalves DEF WalkInv, ParentAndFilename
<1>2. QED
  BY <1>1, WalkInvariant, PTL

(* Resolving one text after another is resolving the two joined.           *)
LEMMA ResolveTwice ==
  ASSUME NEW cwd \in Texts, IsAbsolute(cwd), NEW x \in Texts, NEW y \in Texts
  PROVE  ResolvePath(ResolvePath(cwd, x), y) = ResolvePath(cwd, Join(x, y))
<1>1. /\ ResolvePath(cwd, x) = Normalize(Join(cwd, x))
      /\ Join(cwd, x) \in Texts /\ IsAbsolute(Join(cwd, x))
      /\ ResolvePath(cwd, x) \in Texts /\ IsAbsolute(ResolvePath(cwd, x))
  BY ResolvePathProperties
<1>2. CASE IsAbsolute(y)
  <2>1. Join(x, y) = y
    BY <1>2, JoinMeans
  <2>2. \A c : ResolvePath(c, y) = Normalize(y)
    BY <1>2, Zenon DEF ResolvePath
  <2>3. QED
    BY <2>1, <2>2
<1>3. CASE ~ IsAbsolute(y)
  <2>1. /\ Join(x, y) \in Texts
        /\ Components(Join(x, y)) = Components(x) \o Components(y)
        /\ IsAbsolute(Join(x, y)) <=> IsAbsolute(x)
    BY <1>3, JoinRelative
  <2> DEFINE left == Join(ResolvePath(cwd, x), y)
             right == Join(cwd, Join(x, y))
  <2>2. /\ ResolvePath(ResolvePath(cwd, x), y) = Normalize(left)
        /\ IsAbsolute(left)
    BY <1>1, ResolvePathProperties
  <2>3. /\ ResolvePath(cwd, Join(x, y)) = Normalize(right)
        /\ IsAbsolute(right)
    BY <2>1, ResolvePathProperties
  <2>4. Pushed(Components(left))
          = Pushed(Components(Join(cwd, x)) \o Components(y))
    <3>1. Components(Join(Join(cwd, x), y))
            = Components(Join(cwd, x)) \o Components(y)
      BY <1>1, <1>3, JoinRelative
    <3>2. QED
      BY <1>1, <1>3, <3>1, ResolvePathStack
  <2>5. Components(Join(cwd, x)) \o Components(y) = Components(right)
    <3>1. CASE IsAbsolute(x)
      <4>1. Join(cwd, x) = x /\ right = Join(x, y)
        BY <2>1, <3>1, JoinMeans
      <4>2. QED
        BY <2>1, <4>1
    <3>2. CASE ~ IsAbsolute(x)
      <4>1. Components(Join(cwd, x)) = Components(cwd) \o Components(x)
        BY <3>2, JoinRelative
      <4>2. ~ IsAbsolute(Join(x, y))
        BY <2>1, <3>2, Zenon
      <4>3. Components(right)
              = Components(cwd) \o (Components(x) \o Components(y))
        <5>1. \A t \in Texts : ~ IsAbsolute(t) =>
                Components(Join(cwd, t)) = Components(cwd) \o Components(t)
          BY JoinRelative
        <5>2. Components(right) = Components(cwd) \o Components(Join(x, y))
          BY <2>1, <4>2, <5>1, Zenon
        <5>3. QED
          BY <2>1, <5>2
      <4>4. \A t \in Texts : Components(t) \in Seq(Segs)
        BY TextProperties, SolidText
      <4>5. (Components(cwd) \o Components(x)) \o Components(y)
              = Components(cwd) \o (Components(x) \o Components(y))
        <5>1. PICK k \in Seq(Segs), l \in Seq(Segs), m \in Seq(Segs) :
                k = Components(cwd) /\ l = Components(x) /\ m = Components(y)
          BY <4>4
        <5>2. QED
          BY <5>1, ConcatAssociative
      <4>6. QED
        BY <4>1, <4>3, <4>5
    <3>3. QED
      BY <3>1, <3>2
  <2>6. Normalize(left) = Normalize(right)
    <3> HIDE DEF left, right
    <3>1. QED
      BY <2>2, <2>3, <2>4, <2>5, NormalizeByStack
  <2>7. QED
    BY <2>2, <2>3, <2>6
<1>4. QED
  BY <1>2, <1>3

(* Resolving one path and then another from there is resolving their join: *)
(* cd(x); cd(y) ends where cd(join(x, y)) does.                            *)
THEOREM WalkInOneStep == PathSpec => []WalkComposes
<1>1. WalkInv => WalkComposes
  <2> SUFFICES ASSUME WalkInv, NEW next \in Inputs
               PROVE  ResolvePath(ResolvePath(dir, input), next)
                        = ResolvePath(dir, Join(input, next))
    BY DEF WalkComposes
  <2>1. dir \in Texts /\ IsAbsolute(dir) /\ input \in Texts /\ next \in Texts
    BY InputsAssumption, NormalShape DEF WalkInv
  <2>2. QED
    BY <2>1, ResolveTwice
<1>2. QED
  BY <1>1, WalkInvariant, PTL

-----------------------------------------------------------------------------
(* What normalize() keeps.                                                 *)

Dot == "."
DotDot == ".."

(* The ".." and the names of c behind position i, up to position j.        *)
Ups(c, i, j) == Cardinality({k \in (i + 1)..j : c[k] = DotDot})
Downs(c, i, j) == Cardinality({k \in (i + 1)..j : c[k] \notin {Dot, DotDot}})

Kept(c) == {i \in DOMAIN c : Survives(c, i)}

(* The survivors of c, by counts of what follows them.                     *)
LEMMA KeptMeans ==
  ASSUME NEW c \in Seq(Solid), NEW n \in Nat, Len(c) = n
  PROVE  Kept(c) = {i \in 1..n : /\ c[i] \notin {Dot, DotDot}
                                 /\ \A j \in (i + 1)..n : Ups(c, i, j) <= Downs(c, i, j)}
<1>1. DOMAIN c = 1..n
  BY LenProperties
<1>2. \A i \in 1..n :
        Survives(c, i) <=> /\ c[i] \notin {Dot, DotDot}
                           /\ \A j \in (i + 1)..n : Ups(c, i, j) <= Downs(c, i, j)
  BY DEF Survives, Ups, Downs, Dot, DotDot
<1>3. QED
  BY <1>1, <1>2 DEF Kept

(* The elements of S behind i, up to j.                                    *)
Count(S, i, j) == Cardinality({k \in (i + 1)..j : k \in S})

(* A count grows by the element that ends its interval.                    *)
LEMMA CountNext ==
  ASSUME NEW i \in Nat, NEW n \in Nat, i <= n, NEW S
  PROVE  /\ Count(S, i, n) \in Nat
         /\ Count(S, i, n + 1) = Count(S, i, n) + (IF n + 1 \in S THEN 1 ELSE 0)
<1> DEFINE Upto(m) == {k \in (i + 1)..m : k \in S}
<1>1. IsFiniteSet(Upto(n)) /\ Cardinality(Upto(n)) \in Nat
  <2>1. IsFiniteSet((i + 1)..n)
    BY FS_Interval
  <2>2. Upto(n) \subseteq (i + 1)..n
    OBVIOUS
  <2> HIDE DEF Upto
  <2>3. QED
    BY <2>1, <2>2, FS_Subset, FS_CardinalityType
<1>2. CASE n + 1 \in S
  <2>1. Upto(n + 1) = Upto(n) \cup {n + 1} /\ n + 1 \notin Upto(n)
    BY <1>2
  <2> HIDE DEF Upto
  <2>2. Cardinality(Upto(n + 1)) = Cardinality(Upto(n)) + 1
    BY <1>1, <2>1, FS_AddElement
  <2>3. QED
    BY <1>1, <1>2, <2>2 DEF Upto, Count
<1>3. CASE n + 1 \notin S
  <2>1. Upto(n + 1) = Upto(n)
    <3>1. \A k \in (i + 1)..(n + 1) : k \in S => k \in (i + 1)..n
      <4> SUFFICES ASSUME NEW k \in (i + 1)..(n + 1), k \in S
                   PROVE  k \in (i + 1)..n
        OBVIOUS
      <4>1. k # n + 1
        BY <1>3
      <4>2. QED
        BY <4>1
    <3>2. (i + 1)..n \subseteq (i + 1)..(n + 1)
      OBVIOUS
    <3>3. QED
      BY <3>1, <3>2
  <2> HIDE DEF Upto
  <2>2. QED
    BY <1>1, <1>3, <2>1 DEF Upto, Count
<1>4. QED
  BY <1>2, <1>3

(* What a component at the end adds to the counts in front of it.          *)
LEMMA CountsOfAppend ==
  ASSUME NEW c \in Seq(Solid), NEW e \in Solid,
         NEW n \in Nat, n = Len(c)
  PROVE  /\ \A i \in 0..n : /\ Ups(c, i, n) \in Nat /\ Downs(c, i, n) \in Nat
                            /\ Ups(Append(c, e), i, n + 1) = Ups(c, i, n) + (IF e = DotDot THEN 1 ELSE 0)
                            /\ Downs(Append(c, e), i, n + 1)
                                 = Downs(c, i, n) + (IF e \in {Dot, DotDot} THEN 0 ELSE 1)
         /\ \A i, j \in 0..n : /\ Ups(Append(c, e), i, j) = Ups(c, i, j)
                                        /\ Downs(Append(c, e), i, j) = Downs(c, i, j)
<1>0. PICK d : d = Append(c, e)
  OBVIOUS
<1>1. d \in Seq(Solid) /\ Len(d) = n + 1 /\ d[n + 1] = e /\ \A k \in 1..n : d[k] = c[k]
  BY <1>0, AppendProperties
<1>2. ASSUME NEW i \in 0..n, NEW j \in 0..n
      PROVE  /\ {k \in (i + 1)..j : d[k] = DotDot} = {k \in (i + 1)..j : c[k] = DotDot}
             /\ {k \in (i + 1)..j : d[k] \notin {Dot, DotDot}}
                  = {k \in (i + 1)..j : c[k] \notin {Dot, DotDot}}
  <2>1. \A k \in (i + 1)..j : d[k] = c[k]
    BY <1>1
  <2>2. QED
    BY <2>1
<1>3. \A i, j \in 0..n : /\ Ups(d, i, j) = Ups(c, i, j)
                                  /\ Downs(d, i, j) = Downs(c, i, j)
  <2> SUFFICES ASSUME NEW i \in 0..n, NEW j \in 0..n
               PROVE  Ups(d, i, j) = Ups(c, i, j) /\ Downs(d, i, j) = Downs(c, i, j)
    OBVIOUS
  <2>1. /\ {k \in (i + 1)..j : d[k] = DotDot} = {k \in (i + 1)..j : c[k] = DotDot}
        /\ {k \in (i + 1)..j : d[k] \notin {Dot, DotDot}}
             = {k \in (i + 1)..j : c[k] \notin {Dot, DotDot}}
    BY <1>2
  <2>2. QED
    BY <2>1, Zenon DEF Ups, Downs
<1> DEFINE U == {k \in 1..(n + 1) : d[k] = DotDot}
           D == {k \in 1..(n + 1) : d[k] \notin {Dot, DotDot}}
<1>4. ASSUME NEW i \in 0..n, NEW m \in 0..(n + 1)
      PROVE  /\ Ups(d, i, m) = Count(U, i, m)
             /\ Downs(d, i, m) = Count(D, i, m)
  <2>1. \A k \in (i + 1)..m : k \in 1..(n + 1)
    OBVIOUS
  <2>2. {k \in (i + 1)..m : k \in U} = {k \in (i + 1)..m : d[k] = DotDot}
    BY <2>1
  <2>3. {k \in (i + 1)..m : k \in D} = {k \in (i + 1)..m : d[k] \notin {Dot, DotDot}}
    BY <2>1
  <2>4. QED
    BY <2>2, <2>3 DEF Ups, Downs, Count
<1>5. (n + 1 \in U <=> e = DotDot) /\ (n + 1 \in D <=> e \notin {Dot, DotDot})
  BY <1>1
<1> HIDE DEF U, D
<1>6. ASSUME NEW i \in 0..n
      PROVE  /\ Ups(d, i, n) \in Nat /\ Downs(d, i, n) \in Nat
             /\ Ups(d, i, n + 1) = Ups(d, i, n) + (IF n + 1 \in U THEN 1 ELSE 0)
             /\ Downs(d, i, n + 1) = Downs(d, i, n) + (IF n + 1 \in D THEN 1 ELSE 0)
  <2>1. /\ Ups(d, i, n) = Count(U, i, n)
        /\ Ups(d, i, n + 1) = Count(U, i, n + 1)
        /\ Downs(d, i, n) = Count(D, i, n)
        /\ Downs(d, i, n + 1) = Count(D, i, n + 1)
    <3>1. n \in 0..(n + 1) /\ n + 1 \in 0..(n + 1)
      OBVIOUS
    <3>2. QED
      BY <1>4, <3>1, Zenon
  <2>2. i \in Nat /\ i <= n
    OBVIOUS
  <2>3. ASSUME NEW S
        PROVE  /\ Count(S, i, n) \in Nat
               /\ Count(S, i, n + 1) = Count(S, i, n) + (IF n + 1 \in S THEN 1 ELSE 0)
    BY <2>2, CountNext
  <2>4. QED
    BY <2>1, <2>3
<1>7. /\ \A i \in 0..n : /\ Ups(c, i, n) \in Nat /\ Downs(c, i, n) \in Nat
                         /\ Ups(d, i, n + 1) = Ups(c, i, n) + (IF e = DotDot THEN 1 ELSE 0)
                         /\ Downs(d, i, n + 1)
                              = Downs(c, i, n) + (IF e \in {Dot, DotDot} THEN 0 ELSE 1)
      /\ \A i, j \in 0..n : Ups(d, i, j) = Ups(c, i, j) /\ Downs(d, i, j) = Downs(c, i, j)
  BY <1>3, <1>5, <1>6
<1>8. QED
  BY <1>0, <1>7

(* What survives when a component is added: what survived before and has   *)
(* a name left behind it for every "..", and the component if it is a name.*)
LEMMA KeptOfAppend ==
  ASSUME NEW c \in Seq(Solid), NEW e \in Solid,
         NEW n \in Nat, n = Len(c)
  PROVE  Kept(Append(c, e)) = {i \in Kept(c) : Ups(Append(c, e), i, n + 1) <= Downs(Append(c, e), i, n + 1)}
                     \cup (IF e \in {Dot, DotDot} THEN {} ELSE {n + 1})
<1>0. PICK d : d = Append(c, e)
  OBVIOUS
<1>1. d \in Seq(Solid) /\ Len(d) = n + 1 /\ d[n + 1] = e /\ \A k \in 1..n : d[k] = c[k]
  BY <1>0, AppendProperties
<1>2. Kept(c) = {i \in 1..n : /\ c[i] \notin {Dot, DotDot}
                              /\ \A j \in (i + 1)..n : Ups(c, i, j) <= Downs(c, i, j)}
  BY KeptMeans
<1>3. Kept(d) = {i \in 1..(n + 1) :
                   /\ d[i] \notin {Dot, DotDot}
                   /\ \A j \in (i + 1)..(n + 1) : Ups(d, i, j) <= Downs(d, i, j)}
  <2>1. PICK k \in Nat : k = n + 1
    OBVIOUS
  <2>2. Kept(d) = {i \in 1..k : /\ d[i] \notin {Dot, DotDot}
                                /\ \A j \in (i + 1)..k : Ups(d, i, j) <= Downs(d, i, j)}
    BY <1>1, <2>1, KeptMeans
  <2>3. QED
    BY <2>1, <2>2
<1>4. ASSUME NEW i \in 1..n
      PROVE  i \in Kept(d) <=>
               i \in Kept(c) /\ Ups(d, i, n + 1) <= Downs(d, i, n + 1)
  <2>1. \A j \in (i + 1)..n : Ups(d, i, j) = Ups(c, i, j) /\ Downs(d, i, j) = Downs(c, i, j)
    <3>1. \A k, j \in 0..n : /\ Ups(d, k, j) = Ups(c, k, j)
                             /\ Downs(d, k, j) = Downs(c, k, j)
      BY <1>0, CountsOfAppend
    <3>2. i \in 0..n /\ \A j \in (i + 1)..n : j \in 0..n
      OBVIOUS
    <3>3. QED
      BY <3>1, <3>2
  <2>2. d[i] = c[i]
    BY <1>1
  <2>3. i \in Kept(c) <=> /\ c[i] \notin {Dot, DotDot}
                          /\ \A j \in (i + 1)..n : Ups(d, i, j) <= Downs(d, i, j)
    BY <1>2, <2>1
  <2>4. i \in Kept(d) <=> /\ c[i] \notin {Dot, DotDot}
                          /\ \A j \in (i + 1)..(n + 1) : Ups(d, i, j) <= Downs(d, i, j)
    BY <1>3, <2>2
  <2>5. (\A j \in (i + 1)..(n + 1) : Ups(d, i, j) <= Downs(d, i, j))
          <=> /\ \A j \in (i + 1)..n : Ups(d, i, j) <= Downs(d, i, j)
              /\ Ups(d, i, n + 1) <= Downs(d, i, n + 1)
    <3>1. \A j : j \in (i + 1)..(n + 1) <=> j \in (i + 1)..n \/ j = n + 1
      OBVIOUS
    <3>2. QED
      BY <3>1, Zenon
  <2>6. QED
    BY <2>3, <2>4, <2>5, Zenon
<1>5. n + 1 \in Kept(d) <=> e \notin {Dot, DotDot}
  BY <1>1, <1>3
<1>6. Kept(c) \subseteq 1..n /\ Kept(d) \subseteq 1..(n + 1)
  BY <1>2, <1>3
<1>7. \A i : i \in 1..(n + 1) <=> i \in 1..n \/ i = n + 1
  OBVIOUS
<1>8. n + 1 \notin 1..n
  OBVIOUS
<1>9. Kept(d) = {i \in Kept(c) : Ups(d, i, n + 1) <= Downs(d, i, n + 1)}
                  \cup (IF e \in {Dot, DotDot} THEN {} ELSE {n + 1})
  BY <1>4, <1>5, <1>6, <1>7, <1>8, Zenon
<1>10. QED
  BY <1>0, <1>9

(* The stack of c lists the components that survive: idx[a] is the         *)
(* position of the one at place a, and behind it the names outnumber the   *)
(* ".." by as many as the stack holds above it.                            *)
Listing(c, n, m, idx) ==
  /\ m \in Nat
  /\ idx \in [1..m -> 1..n]
  /\ \A a, b \in 1..m : a < b => idx[a] < idx[b]
  /\ Kept(c) = {idx[a] : a \in 1..m}
  /\ Len(Pushed(c)) = m
  /\ \A a \in 1..m : Pushed(c)[a] = c[idx[a]]
  /\ \A a \in 1..m : Downs(c, idx[a], n) = Ups(c, idx[a], n) + (m - a)

(* One more component keeps the survivors listed: a name goes to the end   *)
(* of the list, a ".." takes the last place away, and "." changes nothing. *)
LEMMA ListingStep ==
  ASSUME NEW c \in Seq(Solid), NEW e \in Solid, NEW n \in Nat, Len(c) = n,
         NEW m, NEW idx, Listing(c, n, m, idx)
  PROVE  \E k, jdx : Listing(Append(c, e), n + 1, k, jdx)
<1>1. PICK d \in Seq(Solid) : d = Append(c, e)
  BY AppendProperties
<1>2. \A k \in 1..n : d[k] = c[k]
  BY <1>1, AppendProperties
<1>3. d[n + 1] = e
  BY <1>1, AppendProperties
<1>4. m \in Nat /\ idx \in [1..m -> 1..n]
  BY Zenon DEF Listing
<1>ascends. \A a, b \in 1..m : a < b => idx[a] < idx[b]
  BY Zenon DEF Listing
<1>kept. Kept(c) = {idx[a] : a \in 1..m}
  BY Zenon DEF Listing
<1>stack. Len(Pushed(c)) = m /\ \A a \in 1..m : Pushed(c)[a] = c[idx[a]]
  BY Zenon DEF Listing
<1>surplus. \A a \in 1..m : Downs(c, idx[a], n) = Ups(c, idx[a], n) + (m - a)
  BY Zenon DEF Listing
<1>5. Pushed(c) \in Seq(Names) /\ Pushed(d) = PushComponent(Pushed(c), e)
  BY <1>1, PushedType, PushedAppend, SolidText DEF Solid
<1>6. PICK st \in Seq(Names) : st = Pushed(c)
  BY <1>5
<1>7. Kept(d) = {i \in Kept(c) : Ups(d, i, n + 1) <= Downs(d, i, n + 1)}
                  \cup (IF e \in {Dot, DotDot} THEN {} ELSE {n + 1})
  BY <1>1, KeptOfAppend
<1>8. PICK u \in 0..1, v \in 0..1 :
        /\ u = IF e = DotDot THEN 1 ELSE 0
        /\ v = IF e \in {Dot, DotDot} THEN 0 ELSE 1
  OBVIOUS
<1>9. ASSUME NEW a \in 1..m
      PROVE  /\ idx[a] \in 1..n /\ d[idx[a]] = c[idx[a]] /\ idx[a] \in Kept(c)
             /\ st[a] = c[idx[a]]
             /\ Downs(d, idx[a], n + 1) = Ups(d, idx[a], n + 1) + ((m - a) + (v - u))
             /\ Ups(d, idx[a], n + 1) \in Nat
  <2>1. PICK i \in 1..n : i = idx[a]
    BY <1>4
  <2>2. d[i] = c[i] /\ idx[a] \in Kept(c) /\ st[a] = c[idx[a]]
    BY <1>2, <1>6, <1>kept, <1>stack
  <2>3. Downs(c, i, n) = Ups(c, i, n) + (m - a)
    BY <1>surplus, <2>1
  <2>4. /\ Ups(c, i, n) \in Nat
        /\ Ups(d, i, n + 1) = Ups(c, i, n) + u
        /\ Downs(d, i, n + 1) = Downs(c, i, n) + v
    <3>1. i \in 0..n
      OBVIOUS
    <3>2. \A j \in 0..n : /\ Ups(c, j, n) \in Nat /\ Downs(c, j, n) \in Nat
                          /\ Ups(d, j, n + 1) = Ups(c, j, n) + (IF e = DotDot THEN 1 ELSE 0)
                          /\ Downs(d, j, n + 1)
                               = Downs(c, j, n) + (IF e \in {Dot, DotDot} THEN 0 ELSE 1)
      BY <1>1, CountsOfAppend
    <3>3. QED
      BY <1>8, <3>1, <3>2, Zenon
  <2>5. PICK x \in Nat : x = Ups(c, i, n)
    BY <2>4
  <2>6. Ups(d, i, n + 1) = x + u /\ Downs(d, i, n + 1) = x + (m - a) + v
    BY <2>3, <2>4, <2>5
  <2>7. x + (m - a) + v = (x + u) + ((m - a) + (v - u)) /\ x + u \in Nat
    BY <1>4
  <2>8. QED
    BY <2>1, <2>2, <2>6, <2>7
<1>10. CASE e = Dot
  <2>1. Pushed(d) = st /\ e # DotDot
    BY <1>5, <1>6, <1>10 DEF PushComponent, Dot, DotDot
  <2>2. v - u = 0
    BY <1>8, <1>10, <2>1
  <2>3. \A a \in 1..m : Downs(d, idx[a], n + 1) = Ups(d, idx[a], n + 1) + (m - a)
    BY <1>4, <1>9, <2>2
  <2>4. \A a \in 1..m : Ups(d, idx[a], n + 1) <= Downs(d, idx[a], n + 1)
    BY <1>4, <1>9, <2>3
  <2>5. Kept(d) = Kept(c)
    BY <1>kept, <1>7, <1>10, <2>4
  <2>6. idx \in [1..m -> 1..(n + 1)]
    BY <1>4
  <2>7. Len(Pushed(d)) = m /\ \A a \in 1..m : Pushed(d)[a] = d[idx[a]]
    BY <1>6, <1>9, <1>stack, <2>1
  <2>8. Listing(d, n + 1, m, idx)
    BY <1>4, <1>ascends, <1>kept, <2>3, <2>5, <2>6, <2>7, Zenon DEF Listing
  <2>9. QED
    BY <1>1, <2>8
<1>11. CASE e = DotDot /\ m = 0
  <2>1. st = <<>>
    BY <1>6, <1>11, <1>stack, EmptySeq
  <2>2. Pushed(d) = st
    BY <1>5, <1>6, <1>11, <2>1 DEF PushComponent, DotDot
  <2>3. 1..m = {}
    BY <1>11
  <2>4. Kept(d) = {} /\ {idx[a] : a \in 1..m} = {}
    BY <1>7, <1>11, <1>kept, <2>3
  <2>5. idx \in [1..m -> 1..(n + 1)]
    BY <1>4
  <2>6. Listing(d, n + 1, m, idx)
    BY <1>4, <1>6, <1>ascends, <1>stack, <2>2, <2>3, <2>4, <2>5 DEF Listing
  <2>7. QED
    BY <1>1, <2>6
<1>12. CASE e = DotDot /\ m # 0
  <2>1. PICK k \in Nat : m = k + 1
    <3>1. m \in Nat /\ m # 0
      BY <1>4, <1>12, Zenon
    <3>2. m = (m - 1) + 1 /\ m - 1 \in Nat
      BY <3>1
    <3>3. QED
      BY <3>2
  <2>2. st # <<>> /\ Len(st) = k + 1
    BY <1>6, <1>12, <1>stack, <2>1, EmptySeq
  <2>3. Pushed(d) = Front(st)
    BY <1>5, <1>6, <1>12, <2>2 DEF PushComponent, DotDot
  <2>4. Len(Front(st)) = k /\ \A a \in 1..k : Front(st)[a] = st[a]
    <3>1. Len(st) - 1 = k
      BY <2>2
    <3>2. QED
      BY <2>2, <3>1, FrontProperties
  <2> DEFINE jdx == [a \in 1..k |-> idx[a]]
  <2>5. \A a \in 1..k : a \in 1..m
    BY <2>1
  <2>6. e # Dot
    BY <1>12 DEF Dot, DotDot
  <2>7. \A a \in 1..m : Downs(d, idx[a], n + 1) = Ups(d, idx[a], n + 1) + (k - a)
    <3>1. v - u = -1
      BY <1>8, <1>12
    <3>2. \A a \in 1..m : (m - a) + (v - u) = k - a
      BY <1>4, <2>1, <3>1
    <3>3. QED
      BY <1>9, <3>2
  <2>8. \A a \in 1..m : Ups(d, idx[a], n + 1) <= Downs(d, idx[a], n + 1) <=> a \in 1..k
    <3> SUFFICES ASSUME NEW a \in 1..m
                 PROVE  Ups(d, idx[a], n + 1) <= Downs(d, idx[a], n + 1) <=> a \in 1..k
      OBVIOUS
    <3>1. PICK x \in Nat : x = Ups(d, idx[a], n + 1)
      BY <1>9
    <3>2. Downs(d, idx[a], n + 1) = x + (k - a)
      BY <2>7, <3>1
    <3>3. x <= x + (k - a) <=> a \in 1..k
      BY <1>4
    <3>4. QED
      BY <3>1, <3>2, <3>3
  <2>9. Kept(d) = {i \in Kept(c) : Ups(d, i, n + 1) <= Downs(d, i, n + 1)}
    BY <1>7, <1>12
  <2>10. Kept(d) = {idx[a] : a \in 1..k}
    BY <1>kept, <2>5, <2>8, <2>9
  <2>11. jdx \in [1..k -> 1..(n + 1)]
    BY <1>9, <2>5
  <2>12. Listing(d, n + 1, k, jdx)
    <3>1. \A a \in 1..k : jdx[a] = idx[a]
      OBVIOUS
    <3> HIDE DEF jdx
    <3>2. \A a, b \in 1..k : a < b => jdx[a] < jdx[b]
      BY <1>ascends, <2>5, <3>1
    <3>3. Kept(d) = {jdx[a] : a \in 1..k}
      BY <2>10, <3>1
    <3>4. \A a \in 1..k : Pushed(d)[a] = d[jdx[a]]
      <4> SUFFICES ASSUME NEW a \in 1..k PROVE Pushed(d)[a] = d[jdx[a]]
        OBVIOUS
      <4>1. jdx[a] = idx[a] /\ Front(st)[a] = st[a]
        BY <2>4, <3>1
      <4>2. d[idx[a]] = c[idx[a]] /\ st[a] = c[idx[a]]
        BY <1>9, <2>5
      <4>3. QED
        BY <2>3, <4>1, <4>2
    <3>5. \A a \in 1..k : Downs(d, jdx[a], n + 1) = Ups(d, jdx[a], n + 1) + (k - a)
      BY <2>5, <2>7, <3>1
    <3>6. QED
      BY <2>3, <2>4, <2>11, <3>2, <3>3, <3>4, <3>5, Zenon DEF Listing
  <2>13. QED
    BY <1>1, <2>12
<1>13. CASE e \notin {Dot, DotDot}
  <2>1. e \in Names
    BY <1>13 DEF Solid, Segs, Dot, DotDot
  <2>2. Pushed(d) = Append(st, e)
    BY <1>5, <1>6, <1>13 DEF PushComponent, Dot, DotDot
  <2>3. /\ Len(Append(st, e)) = m + 1 /\ Append(st, e)[m + 1] = e
        /\ \A a \in 1..m : Append(st, e)[a] = st[a]
    BY <1>6, <1>stack, <2>1, AppendProperties
  <2> DEFINE jdx == [a \in 1..(m + 1) |-> IF a = m + 1 THEN n + 1 ELSE idx[a]]
  <2>4. /\ \A a : a \in 1..(m + 1) <=> a \in 1..m \/ a = m + 1
        /\ m + 1 \notin 1..m /\ m + 1 \in 1..(m + 1)
    BY <1>4
  <2>5. jdx[m + 1] = n + 1 /\ \A a \in 1..m : jdx[a] = idx[a]
    BY <2>4
  <2>6. jdx \in [1..(m + 1) -> 1..(n + 1)]
    BY <1>9, <2>4
  <2> HIDE DEF jdx
  <2>7. \A a, b \in 1..(m + 1) : a < b => jdx[a] < jdx[b]
    <3> SUFFICES ASSUME NEW a \in 1..(m + 1), NEW b \in 1..(m + 1), a < b
                 PROVE  jdx[a] < jdx[b]
      OBVIOUS
    <3>1. a \in 1..m
      BY <1>4
    <3>2. CASE b = m + 1
      BY <1>9, <2>5, <3>1, <3>2
    <3>3. CASE b \in 1..m
      BY <1>ascends, <2>5, <3>1, <3>3
    <3>4. QED
      BY <2>4, <3>2, <3>3
  <2>8. \A a \in 1..m : Downs(d, idx[a], n + 1) = Ups(d, idx[a], n + 1) + (m + 1 - a)
    <3>1. v - u = 1
      BY <1>8, <1>13
    <3>2. \A a \in 1..m : (m - a) + (v - u) = m + 1 - a
      BY <1>4, <3>1
    <3>3. QED
      BY <1>9, <3>2
  <2>9. \A a \in 1..m : Ups(d, idx[a], n + 1) <= Downs(d, idx[a], n + 1)
    <3> SUFFICES ASSUME NEW a \in 1..m
                 PROVE  Ups(d, idx[a], n + 1) <= Downs(d, idx[a], n + 1)
      OBVIOUS
    <3>1. PICK x \in Nat : x = Ups(d, idx[a], n + 1)
      BY <1>9
    <3>2. Downs(d, idx[a], n + 1) = x + (m + 1 - a)
      BY <2>8, <3>1
    <3>3. x <= x + (m + 1 - a)
      BY <1>4
    <3>4. QED
      BY <3>1, <3>2, <3>3
  <2>10. Kept(d) = Kept(c) \cup {n + 1}
    BY <1>7, <1>13, <1>kept, <2>9
  <2>11. Kept(d) = {jdx[a] : a \in 1..(m + 1)}
    BY <1>kept, <2>4, <2>5, <2>10
  <2>12. Downs(d, n + 1, n + 1) = 0 /\ Ups(d, n + 1, n + 1) = 0
    <3>1. (n + 1 + 1)..(n + 1) = {}
      OBVIOUS
    <3>2. QED
      BY <3>1, FS_EmptySet DEF Ups, Downs
  <2>13. \A a \in 1..(m + 1) : Pushed(d)[a] = d[jdx[a]]
    <3> SUFFICES ASSUME NEW a \in 1..(m + 1)
                 PROVE  Pushed(d)[a] = d[jdx[a]]
      OBVIOUS
    <3>1. CASE a = m + 1
      BY <1>3, <2>2, <2>3, <2>5, <3>1
    <3>2. CASE a \in 1..m
      BY <1>9, <2>2, <2>3, <2>5, <3>2
    <3>3. QED
      BY <2>4, <3>1, <3>2
  <2>14. \A a \in 1..(m + 1) :
           Downs(d, jdx[a], n + 1) = Ups(d, jdx[a], n + 1) + (m + 1 - a)
    <3> SUFFICES ASSUME NEW a \in 1..(m + 1)
                 PROVE  Downs(d, jdx[a], n + 1) = Ups(d, jdx[a], n + 1) + (m + 1 - a)
      OBVIOUS
    <3>1. CASE a = m + 1
      <4>1. m + 1 - a = 0
        BY <1>4, <3>1
      <4>2. QED
        BY <2>5, <2>12, <3>1, <4>1
    <3>2. CASE a \in 1..m
      BY <2>5, <2>8, <3>2
    <3>3. QED
      BY <2>4, <3>1, <3>2
  <2>15. Listing(d, n + 1, m + 1, jdx)
    <3>1. PICK k \in Nat : k = m + 1
      BY <1>4
    <3>2. k \in Nat /\ Len(Pushed(d)) = k
      BY <2>2, <2>3, <3>1
    <3>3. jdx \in [1..k -> 1..(n + 1)]
      BY <2>6, <3>1, Zenon
    <3>4. \A a, b \in 1..k : a < b => jdx[a] < jdx[b]
      BY <2>7, <3>1, Zenon
    <3>5. Kept(d) = {jdx[a] : a \in 1..k}
      BY <2>11, <3>1, Zenon
    <3>6. \A a \in 1..k : Pushed(d)[a] = d[jdx[a]]
      BY <2>13, <3>1, Zenon
    <3>7. \A a \in 1..k : Downs(d, jdx[a], n + 1) = Ups(d, jdx[a], n + 1) + (k - a)
      <4> SUFFICES ASSUME NEW a \in 1..k
                   PROVE  Downs(d, jdx[a], n + 1) = Ups(d, jdx[a], n + 1) + (k - a)
        OBVIOUS
      <4>1. Downs(d, jdx[a], n + 1) = Ups(d, jdx[a], n + 1) + (m + 1 - a)
        BY <2>14, <3>1, Zenon
      <4>2. m + 1 - a = k - a
        BY <1>4, <3>1
      <4>3. QED
        BY <4>1, <4>2, Zenon
    <3>8. Listing(d, n + 1, k, jdx)
      BY <3>2, <3>3, <3>4, <3>5, <3>6, <3>7, Zenon DEF Listing
    <3>9. QED
      BY <3>1, <3>8, Zenon
  <2>16. QED
    BY <1>1, <2>15
<1>14. QED
  BY <1>10, <1>11, <1>12, <1>13

(* The survivors of every sequence of components are listed by the stack.  *)
LEMMA ListingExists ==
  ASSUME NEW c \in Seq(Solid)
  PROVE  \E m, idx : Listing(c, Len(c), m, idx)
<1> DEFINE H == {s \in Seq(Solid) : \E m, idx : Listing(s, Len(s), m, idx)}
<1>1. <<>> \in H
  <2>1. Len(<<>>) = 0 /\ <<>> \in Seq(Solid) /\ DOMAIN <<>> = {} /\ 1..0 = {}
    BY EmptySeq
  <2>2. Kept(<<>>) = {}
    BY <2>1 DEF Kept
  <2>3. PICK idx : idx = [a \in 1..0 |-> a]
    OBVIOUS
  <2>4. idx \in [1..0 -> 1..0]
    BY <2>3
  <2>5. Kept(<<>>) = {idx[a] : a \in 1..0}
    BY <2>1, <2>2
  <2>6. Len(Pushed(<<>>)) = 0
    BY <2>1, PushedEmpty
  <2>7. Listing(<<>>, 0, 0, idx)
    BY <2>1, <2>5, <2>6, <2>4 DEF Listing
  <2>8. QED
    BY <2>1, <2>7
<1>2. \A s \in H, e \in Solid : Append(s, e) \in H
  <2> SUFFICES ASSUME NEW s \in H, NEW e \in Solid
               PROVE  Append(s, e) \in H
    OBVIOUS
  <2>1. s \in Seq(Solid) /\ \E m, idx : Listing(s, Len(s), m, idx)
    OBVIOUS
  <2>2. PICK n \in Nat : n = Len(s)
    BY <2>1, LenProperties
  <2>3. PICK m, idx : Listing(s, n, m, idx)
    BY <2>1, <2>2
  <2>4. \E k, jdx : Listing(Append(s, e), n + 1, k, jdx)
    BY <2>1, <2>2, <2>3, ListingStep
  <2>5. Append(s, e) \in Seq(Solid) /\ Len(Append(s, e)) = n + 1
    BY <2>1, <2>2, AppendProperties
  <2>6. QED
    BY <2>4, <2>5
<1>3. H \subseteq Seq(Solid)
  OBVIOUS
<1>4. c \in H
  <2> HIDE DEF H
  <2>1. QED
    BY <1>1, <1>2, <1>3, SeqInduction
<1>5. QED
  BY <1>4

Rank(P, x) == Cardinality({k \in P : k <= x})

(* The places of an ascending numbering: as many of the numbered positions *)
(* lie at or below position a as a says.                                   *)
LEMMA RankOfPlace ==
  ASSUME NEW m \in Nat, NEW n \in Nat, NEW idx \in [1..m -> 1..n],
         \A a, b \in 1..m : a < b => idx[a] < idx[b],
         NEW P, P = {idx[a] : a \in 1..m}
  PROVE  Cardinality(P) = m /\ \A a \in 1..m : Rank(P, idx[a]) = a
<1> DEFINE Places(r) == {idx[b] : b \in 1..r}
           H == {r \in Nat : r <= m => /\ IsFiniteSet(Places(r))
                                        /\ Cardinality(Places(r)) = r}
<1>1. 0 \in H
  <2>1. Places(0) = {}
    OBVIOUS
  <2>2. QED
    BY <2>1, FS_EmptySet
<1>2. ASSUME NEW r \in Nat, r \in H PROVE r + 1 \in H
  <2> SUFFICES ASSUME r + 1 <= m
               PROVE  IsFiniteSet(Places(r + 1)) /\ Cardinality(Places(r + 1)) = r + 1
    OBVIOUS
  <2>1. IsFiniteSet(Places(r)) /\ Cardinality(Places(r)) = r
    <3>1. r <= m
      OBVIOUS
    <3> HIDE DEF Places
    <3>2. QED
      BY <1>2, <3>1
  <2>2. Places(r + 1) = Places(r) \cup {idx[r + 1]}
    <3>1. \A b : b \in 1..(r + 1) <=> b \in 1..r \/ b = r + 1
      OBVIOUS
    <3>2. QED
      BY <3>1
  <2>3. idx[r + 1] \notin Places(r)
    <3> SUFFICES ASSUME NEW b \in 1..r PROVE idx[b] # idx[r + 1]
      OBVIOUS
    <3>1. b \in 1..m /\ r + 1 \in 1..m /\ b < r + 1
      OBVIOUS
    <3>2. idx[b] < idx[r + 1] /\ idx[b] \in 1..n /\ idx[r + 1] \in 1..n
      BY <3>1
    <3>3. QED
      BY <3>2
  <2> HIDE DEF Places
  <2>4. ASSUME NEW S, IsFiniteSet(S), NEW x, x \notin S
        PROVE  IsFiniteSet(S \cup {x}) /\ Cardinality(S \cup {x}) = Cardinality(S) + 1
    BY <2>4, FS_AddElement
  <2>5. /\ IsFiniteSet(Places(r) \cup {idx[r + 1]})
        /\ Cardinality(Places(r) \cup {idx[r + 1]}) = Cardinality(Places(r)) + 1
    BY <2>1, <2>3, <2>4, Zenon
  <2>6. QED
    BY <2>1, <2>2, <2>5
<1>3. Nat \subseteq H
  <2> HIDE DEF H
  <2>1. QED
    BY <1>1, <1>2, SetInduction
<1>4. \A r \in 0..m : Cardinality(Places(r)) = r
  <2>1. \A r \in 0..m : r \in Nat /\ r <= m
    OBVIOUS
  <2> HIDE DEF Places
  <2>2. QED
    BY <1>3, <2>1
<1>5. ASSUME NEW a \in 1..m
      PROVE  {k \in Places(m) : k <= idx[a]} = Places(a)
  <2>1. ASSUME NEW b \in 1..m PROVE idx[b] <= idx[a] <=> b <= a
    <3>1. idx[a] \in 1..n /\ idx[b] \in 1..n
      OBVIOUS
    <3>2. (a < b => idx[a] < idx[b]) /\ (b < a => idx[b] < idx[a])
      OBVIOUS
    <3>3. QED
      BY <3>1, <3>2
  <2>2. \A b : b \in 1..a <=> b \in 1..m /\ b <= a
    OBVIOUS
  <2>3. QED
    BY <2>1, <2>2
<1>6. m \in 0..m /\ \A a \in 1..m : a \in 0..m
  OBVIOUS
<1>7. P = Places(m)
  OBVIOUS
<1> HIDE DEF Places
<1>8. QED
  BY <1>4, <1>5, <1>6, <1>7 DEF Rank

(* The stack is the sequence of the survivors.                             *)
LEMMA StackIsSurvivors ==
  ASSUME NEW c \in Seq(Solid)
  PROVE  Pushed(c) = [n \in 1..Cardinality(Kept(c)) |->
           c[CHOOSE i \in Kept(c) : Cardinality({k \in Kept(c) : k <= i}) = n]]
<1>1. PICK len \in Nat : len = Len(c)
  BY LenProperties
<1>2. PICK m \in Nat : \E idx \in [1..m -> 1..len] : Listing(c, Len(c), m, idx)
  <2>1. PICK m, idx : Listing(c, Len(c), m, idx)
    BY ListingExists
  <2>2. m \in Nat /\ idx \in [1..m -> 1..len]
    BY <1>1, <2>1, Zenon DEF Listing
  <2>3. QED
    BY <2>1, <2>2
<1>3. PICK idx \in [1..m -> 1..len] : Listing(c, Len(c), m, idx)
  BY <1>2
<1>4. \A a, b \in 1..m : a < b => idx[a] < idx[b]
  BY <1>3, Zenon DEF Listing
<1>5. Kept(c) = {idx[a] : a \in 1..m}
  BY <1>3, Zenon DEF Listing
<1>6. Len(Pushed(c)) = m /\ \A a \in 1..m : Pushed(c)[a] = c[idx[a]]
  BY <1>3, Zenon DEF Listing
<1>7. Cardinality(Kept(c)) = m /\ \A a \in 1..m : Rank(Kept(c), idx[a]) = a
  BY <1>4, <1>5, RankOfPlace
<1>8. ASSUME NEW n \in 1..m
      PROVE  (CHOOSE i \in Kept(c) : Cardinality({k \in Kept(c) : k <= i}) = n) = idx[n]
  <2>1. idx[n] \in Kept(c) /\ Cardinality({k \in Kept(c) : k <= idx[n]}) = n
    BY <1>5, <1>7, Zenon DEF Rank
  <2>2. ASSUME NEW i \in Kept(c), Cardinality({k \in Kept(c) : k <= i}) = n
        PROVE  i = idx[n]
    <3>1. PICK a \in 1..m : i = idx[a]
      BY <1>5
    <3>2. a = n
      BY <1>7, <2>2, <3>1, Zenon DEF Rank
    <3>3. QED
      BY <3>1, <3>2
  <2>3. QED
    BY <2>1, <2>2, Zenon
<1>9. PICK st \in Seq(Names) : st = Pushed(c)
  BY PushedType
<1>10. st = [n \in 1..m |-> st[n]]
  BY <1>6, <1>9
<1>11. \A n \in 1..m :
         st[n] = c[CHOOSE i \in Kept(c) : Cardinality({k \in Kept(c) : k <= i}) = n]
  BY <1>6, <1>8, <1>9, Zenon
<1>12. QED
  BY <1>7, <1>9, <1>10, <1>11, Zenon

(* The components of a normalized text are its survivors.                  *)
LEMMA NormalizeIsSurvivors ==
  ASSUME NEW p \in Texts
  PROVE  Components(Normalize(p)) = Surviving(p)
<1>1. PICK c \in Seq(Solid) : c = Components(p)
  BY TextProperties, ComponentsType
<1>2. Pushed(c) = Surviving(p)
  BY <1>1, StackIsSurvivors, Zenon DEF Surviving, Kept
<1>3. Components(Normalize(p)) = Pushed(Components(p))
  BY NormalizeProperties
<1>4. QED
  BY <1>1, <1>2, <1>3

(* On every pair of inputs, joined, normalize() keeps the components that  *)
(* no later ".." cancels, in their order, and nothing else.                *)
THEOREM NormalizeKeepsTheSurvivors == PathSpec => []NormalizeKeepsSurvivors
<1>1. WalkInv => NormalizeKeepsSurvivors
  <2> SUFFICES ASSUME WalkInv, NEW next \in Inputs
               PROVE  LET text == Join(input, next)
                      IN  Components(Normalize(text)) = Surviving(text)
    BY DEF NormalizeKeepsSurvivors
  <2>1. input \in Texts /\ next \in Texts
    BY InputsAssumption DEF WalkInv
  <2>2. Join(input, next) \in Texts
    BY <2>1, JoinMeans, JoinRelative
  <2>3. QED
    BY <2>2, NormalizeIsSurvivors
<1>2. QED
  BY <1>1, WalkInvariant, PTL
=============================================================================
