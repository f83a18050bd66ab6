---------------------------- MODULE PathsProofs ----------------------------
(***************************************************************************)
(* What the path algorithms compute, for every text over every set of      *)
(* names: the laws of components(), normalize() and join() that the proofs *)
(* about their callers cite.                                               *)
(***************************************************************************)
EXTENDS Paths, SequenceTheorems, WellFoundedInduction, TLAPS

-----------------------------------------------------------------------------
(* Minima and induction, over naturals and over sequences.  The principles *)
(* are stated for sets, those of the numbers or sequences of which the     *)
(* statement holds.                                                        *)

(* Min is what its name says on a non-empty set of naturals. *)
LEMMA MinProperties ==
  ASSUME NEW S, S \subseteq Nat, S # {}
  PROVE  Min(S) \in S /\ \A y \in S : Min(S) <= y
<1>1. IsWellFoundedOn(OpToRel(<, Nat), Nat)
  BY NatLessThanWellFounded
<1>2. PICK x \in S : \A y \in S : ~ (<<y, x>> \in OpToRel(<, Nat))
  BY <1>1, WFMin
<1>3. \A y \in S : x <= y
  <2> SUFFICES ASSUME NEW y \in S PROVE x <= y
    OBVIOUS
  <2>1. x \in Nat /\ y \in Nat
    BY <1>2
  <2>2. y < x => <<y, x>> \in OpToRel(<, Nat)
    BY <2>1 DEF OpToRel
  <2>3. ~ (y < x)
    BY <1>2, <2>2
  <2>4. QED
    BY <2>1, <2>3
<1>4. QED
  BY <1>2, <1>3 DEF Min

(* Max is what its name says on a non-empty set of naturals up to n. *)
LEMMA MaxProperties ==
  ASSUME NEW n \in Nat, NEW S, S \subseteq 0..n, S # {}
  PROVE  Max(S) \in S /\ \A y \in S : y <= Max(S)
<1> DEFINE T == {n - x : x \in S}
<1>1. T \subseteq Nat /\ T # {}
  <2>1. \A x \in S : x \in Nat /\ n - x \in Nat
    OBVIOUS
  <2>2. QED
    BY <2>1
<1> HIDE DEF T
<1>2. Min(T) \in T /\ \A y \in T : Min(T) <= y
  BY <1>1, MinProperties
<1>3. PICK x \in S : Min(T) = n - x
  BY <1>2 DEF T
<1>4. \A y \in S : y <= x
  <2> SUFFICES ASSUME NEW y \in S PROVE y <= x
    OBVIOUS
  <2>1. n - y \in T
    BY DEF T
  <2>2. n - x <= n - y
    BY <1>2, <1>3, <2>1
  <2>3. QED
    BY <2>2
<1>5. QED
  BY <1>4 DEF Max

(* Induction: a set that holds 0 and the successor of each of its numbers  *)
(* holds all.                                                              *)
LEMMA SetInduction ==
  ASSUME NEW H, 0 \in H, \A n \in Nat : n \in H => n + 1 \in H
  PROVE  Nat \subseteq H
<1> DEFINE Misses == Nat \ H
<1> SUFFICES ASSUME Misses # {} PROVE FALSE
  OBVIOUS
<1>1. Min(Misses) \in Misses /\ \A y \in Misses : Min(Misses) <= y
  BY MinProperties
<1>2. PICK n \in Nat : n \notin H /\ \A y \in Misses : n <= y
  BY <1>1
<1>3. n # 0
  BY <1>2
<1>4. n - 1 \in Nat /\ n - 1 \notin Misses
  BY <1>2, <1>3
<1>5. QED
  BY <1>2, <1>4

(* Induction over sequences, by the element appended last.                 *)
LEMMA SeqInduction ==
  ASSUME NEW S, NEW H, <<>> \in H,
         \A s \in Seq(S) : \A e \in S : s \in H => Append(s, e) \in H
  PROVE  Seq(S) \subseteq H
<1> DEFINE L == {n \in Nat : \A s \in Seq(S) : Len(s) = n => s \in H}
<1>1. 0 \in L
  BY EmptySeq
<1>2. ASSUME NEW n \in Nat, n \in L PROVE n + 1 \in L
  <2> SUFFICES ASSUME NEW s \in Seq(S), Len(s) = n + 1 PROVE s \in H
    OBVIOUS
  <2>1. s # <<>>
    OBVIOUS
  <2>2. PICK t \in Seq(S), e \in S : s = Append(t, e)
    BY <2>1, SequenceEmptyOrAppend
  <2>3. Len(t) = n
    BY <2>2
  <2>4. QED
    BY <1>2, <2>2, <2>3
<1>3. Nat \subseteq L
  <2> HIDE DEF L
  <2>1. QED
    BY <1>1, <1>2, SetInduction
<1>4. QED
  BY <1>3, LenProperties

-----------------------------------------------------------------------------
(* Loops.  g[i] is what a loop that starts with the empty sequence has     *)
(* built after i elements of s, when step says what one turn does.         *)

Stacks == Seq(Segs)

Steps == [Stacks \X Segs -> Stacks]

Run(step, s, g) ==
  /\ g \in [0..Len(s) -> Stacks]
  /\ g[0] = <<>>
  /\ \A i \in 0..(Len(s) - 1) : g[i + 1] = step[<<g[i], s[i + 1]>>]

(* A run over s extends to one over s and one more element.                *)
LEMMA RunExtends ==
  ASSUME NEW step \in Steps, NEW s \in Seq(Segs), NEW e \in Segs,
         NEW g, Run(step, s, g)
  PROVE  \E h : /\ Run(step, Append(s, e), h)
                /\ h[Len(s) + 1] = step[<<g[Len(s)], e>>]
<1>1. PICK n \in Nat : n = Len(s)
  OBVIOUS
<1>2. PICK q \in Seq(Segs) : q = Append(s, e)
  BY AppendProperties
<1>3. Len(q) = n + 1 /\ q[n + 1] = e /\ \A i \in 1..n : q[i] = s[i]
  BY <1>1, <1>2, AppendProperties
<1>4. /\ g \in [0..n -> Stacks] /\ g[0] = <<>>
      /\ \A i \in 0..(n - 1) : g[i + 1] = step[<<g[i], s[i + 1]>>]
  BY <1>1 DEF Run
<1>5. PICK last \in Stacks : last = step[<<g[n], e>>]
  BY <1>4 DEF Steps
<1> DEFINE h == [i \in 0..(n + 1) |-> IF i <= n THEN g[i] ELSE last]
<1>6. h \in [0..(n + 1) -> Stacks] /\ h[0] = <<>> /\ h[n + 1] = last
  BY <1>4
<1>7. ASSUME NEW i \in 0..n
      PROVE  h[i + 1] = step[<<h[i], q[i + 1]>>]
  <2>1. CASE i < n
    <3>1. i + 1 \in 1..n /\ i \in 0..(n - 1)
      BY <2>1
    <3>2. h[i] = g[i] /\ h[i + 1] = g[i + 1] /\ q[i + 1] = s[i + 1]
      BY <1>3, <3>1
    <3>3. QED
      BY <1>4, <3>1, <3>2
  <2>2. CASE i = n
    <3>1. h[n] = g[n] /\ h[n + 1] = last
      BY <1>6
    <3>2. QED
      BY <1>3, <1>5, <2>2, <3>1
  <2>3. QED
    BY <2>1, <2>2
<1>8. Run(step, q, h)
  <2> HIDE DEF h
  <2>1. 0..Len(q) = 0..(n + 1) /\ 0..(Len(q) - 1) = 0..n
    BY <1>3
  <2>2. QED
    BY <1>6, <1>7, <2>1 DEF Run
<1>9. QED
  BY <1>1, <1>2, <1>5, <1>6, <1>8

(* Every sequence has a run.                                               *)
LEMMA RunExists ==
  ASSUME NEW step \in Steps, NEW s \in Seq(Segs)
  PROVE  \E g : Run(step, s, g)
<1> DEFINE H == {t \in Seq(Segs) : \E g : Run(step, t, g)}
<1>1. <<>> \in H
  <2>1. Run(step, <<>>, [i \in 0..0 |-> <<>>])
    BY DEF Run, Stacks
  <2>2. QED
    BY <2>1
<1>2. \A t \in Seq(Segs) : \A e \in Segs : t \in H => Append(t, e) \in H
  BY RunExtends, AppendProperties
<1>3. Seq(Segs) \subseteq H
  <2> HIDE DEF H
  <2>1. QED
    BY <1>1, <1>2, SeqInduction
<1>4. QED
  BY <1>3

(* A sequence has one run only, so CHOOSE finds that one.                  *)
LEMMA RunUnique ==
  ASSUME NEW step \in Steps, NEW s \in Seq(Segs),
         NEW g, NEW h, Run(step, s, g), Run(step, s, h)
  PROVE  g = h
<1>1. PICK n \in Nat : n = Len(s)
  OBVIOUS
<1>2. /\ g \in [0..n -> Stacks] /\ h \in [0..n -> Stacks] /\ g[0] = h[0]
      /\ \A i \in 0..(n - 1) : g[i + 1] = step[<<g[i], s[i + 1]>>]
      /\ \A i \in 0..(n - 1) : h[i + 1] = step[<<h[i], s[i + 1]>>]
  BY <1>1 DEF Run
<1> DEFINE H == {i \in Nat : i <= n => g[i] = h[i]}
<1>3. 0 \in H
  BY <1>2
<1>4. ASSUME NEW i \in Nat, i \in H PROVE i + 1 \in H
  <2>1. CASE i + 1 <= n
    <3>1. i \in 0..(n - 1) /\ g[i] = h[i]
      BY <1>4, <2>1
    <3>2. g[i + 1] = h[i + 1]
      BY <1>2, <3>1
    <3>3. QED
      BY <3>2
  <2>2. QED
    BY <2>1
<1>5. Nat \subseteq H
  <2> HIDE DEF H
  <2>1. QED
    BY <1>3, <1>4, SetInduction
<1>6. \A i \in 0..n : g[i] = h[i]
  BY <1>5
<1>7. QED
  BY <1>2, <1>6

-----------------------------------------------------------------------------
(* components().                                                           *)

KeptNext(kept, e) == IF e = "" THEN kept ELSE Append(kept, e)

KeptStep == [pair \in Stacks \X Segs |-> KeptNext(pair[1], pair[2])]

(* A turn of the loop of components() keeps a stack of segments one.       *)
LEMMA KeptStepType == KeptStep \in Steps
  BY AppendProperties DEF KeptStep, Steps, KeptNext, Stacks

KeptLoop(p, g) ==
  g = [i \in 0..Len(p) |->
         IF i = 0 THEN <<>>
         ELSE IF p[i] = "" THEN g[i - 1] ELSE Append(g[i - 1], p[i])]

(* The equation of the loop has one solution, the run.                     *)
LEMMA KeptLoopIsRun ==
  ASSUME NEW p \in Seq(Segs), NEW g
  PROVE  KeptLoop(p, g) <=> Run(KeptStep, p, g)
<1>1. PICK n \in Nat : n = Len(p) /\ p \in [1..n -> Segs]
  BY LenProperties
<1>2. ASSUME Run(KeptStep, p, g)
      PROVE  KeptLoop(p, g)
  <2>1. /\ g \in [0..n -> Stacks] /\ g[0] = <<>>
        /\ \A i \in 0..(n - 1) : g[i + 1] = KeptStep[<<g[i], p[i + 1]>>]
    BY <1>1, <1>2 DEF Run
  <2>2. ASSUME NEW i \in 0..n, i # 0
        PROVE  g[i] = IF p[i] = "" THEN g[i - 1] ELSE Append(g[i - 1], p[i])
    <3>1. PICK j \in 0..(n - 1) : j = i - 1 /\ i = j + 1
      BY <2>2
    <3>2. g[j] \in Stacks /\ p[i] \in Segs
      BY <1>1, <2>1, <2>2
    <3>3. g[i] = KeptStep[<<g[j], p[i]>>]
      BY <2>1, <3>1
    <3>4. g[i] = KeptNext(g[j], p[i])
      BY <3>2, <3>3 DEF KeptStep
    <3>5. QED
      BY <3>1, <3>4 DEF KeptNext
  <2>3. \A i \in 0..n : g[i] = IF i = 0 THEN <<>>
           ELSE IF p[i] = "" THEN g[i - 1] ELSE Append(g[i - 1], p[i])
    BY <2>1, <2>2
  <2>4. g = [i \in 0..n |-> g[i]]
    BY <2>1
  <2>5. QED
    BY <1>1, <2>3, <2>4 DEF KeptLoop
<1>3. ASSUME KeptLoop(p, g)
      PROVE  Run(KeptStep, p, g)
  <2>1. g = [i \in 0..n |->
               IF i = 0 THEN <<>>
               ELSE IF p[i] = "" THEN g[i - 1] ELSE Append(g[i - 1], p[i])]
    BY <1>1, <1>3 DEF KeptLoop
  <2>2. DOMAIN g = 0..n /\ g[0] = <<>>
    <3>1. 0 \in 0..n
      OBVIOUS
    <3>2. \A i \in 0..n : i = 0 => g[i] = <<>>
      BY <2>1
    <3>3. DOMAIN g = 0..n
      BY <2>1
    <3>4. QED
      BY <3>1, <3>2, <3>3
  <2>3. ASSUME NEW i \in 0..(n - 1)
        PROVE  g[i + 1] = KeptNext(g[i], p[i + 1])
    <3>1. i + 1 \in 0..n /\ i + 1 # 0 /\ (i + 1) - 1 = i
      OBVIOUS
    <3>2. g[i + 1] = IF p[i + 1] = "" THEN g[(i + 1) - 1]
                                       ELSE Append(g[(i + 1) - 1], p[i + 1])
      BY <2>1, <3>1
    <3>3. QED
      BY <3>1, <3>2 DEF KeptNext
  <2> DEFINE H == {i \in Nat : i <= n => g[i] \in Stacks}
  <2>4. 0 \in H
    BY <2>2, EmptySeq DEF Stacks
  <2>5. ASSUME NEW i \in Nat, i \in H PROVE i + 1 \in H
    <3>1. CASE i + 1 <= n
      <4>1. i \in 0..(n - 1) /\ g[i] \in Stacks /\ p[i + 1] \in Segs
        BY <1>1, <2>5, <3>1
      <4>2. g[i + 1] = KeptStep[<<g[i], p[i + 1]>>]
        BY <2>3, <4>1 DEF KeptStep
      <4>3. g[i + 1] \in Stacks
        BY <4>1, <4>2, KeptStepType DEF Steps
      <4>4. QED
        BY <4>3
    <3>2. QED
      BY <3>1
  <2>6. Nat \subseteq H
    <3> HIDE DEF H
    <3>1. QED
      BY <2>4, <2>5, SetInduction
  <2>7. \A i \in 0..n : g[i] \in Stacks
    BY <2>6
  <2>8. g \in [0..n -> Stacks]
    <3>1. g = [i \in 0..n |-> g[i]]
      BY <2>1
    <3>2. QED
      BY <2>7, <3>1
  <2>9. ASSUME NEW i \in 0..(n - 1)
        PROVE  g[i + 1] = KeptStep[<<g[i], p[i + 1]>>]
    <3>1. g[i] \in Stacks /\ p[i + 1] \in Segs
      BY <1>1, <2>7
    <3>2. QED
      BY <2>3, <3>1 DEF KeptStep
  <2>10. QED
    BY <1>1, <2>2, <2>8, <2>9 DEF Run
<1>4. QED
  BY <1>2, <1>3

(* Components is where the run of its loop ends.                           *)
LEMMA ComponentsOfRun ==
  ASSUME NEW p \in Seq(Segs), NEW g, Run(KeptStep, p, g)
  PROVE  Components(p) = g[Len(p)]
<1> DEFINE c == CHOOSE h : KeptLoop(p, h)
<1>1. KeptLoop(p, g)
  BY KeptLoopIsRun
<1>2. KeptLoop(p, c)
  BY <1>1
<1>3. c = g
  BY <1>2, KeptLoopIsRun, KeptStepType, RunUnique
<1>4. Components(p) = c[Len(p)]
  BY DEF Components, KeptLoop
<1>5. QED
  BY <1>3, <1>4

(* The text without segments has no components.                            *)
LEMMA ComponentsEmpty == Components(<<>>) = <<>>
<1>1. Run(KeptStep, <<>>, [i \in 0..0 |-> <<>>])
  BY DEF Run, Stacks
<1>2. QED
  BY <1>1, ComponentsOfRun, EmptySeq

(* One more segment is one more component, or none if it is empty.         *)
LEMMA ComponentsAppend ==
  ASSUME NEW p \in Seq(Segs), NEW e \in Segs
  PROVE  /\ Components(p) \in Seq(Segs)
         /\ Components(Append(p, e)) = KeptNext(Components(p), e)
<1>1. PICK g : Run(KeptStep, p, g)
  BY KeptStepType, RunExists
<1>2. PICK h : /\ Run(KeptStep, Append(p, e), h)
               /\ h[Len(p) + 1] = KeptStep[<<g[Len(p)], e>>]
  BY <1>1, KeptStepType, RunExtends
<1>3. Append(p, e) \in Seq(Segs) /\ Len(Append(p, e)) = Len(p) + 1 /\ Len(p) \in Nat
  BY AppendProperties
<1>4. g[Len(p)] \in Stacks
  BY <1>1, <1>3 DEF Run
<1>5. Components(p) = g[Len(p)] /\ Components(Append(p, e)) = h[Len(p) + 1]
  BY <1>1, <1>2, <1>3, ComponentsOfRun
<1>6. QED
  BY <1>2, <1>4, <1>5 DEF KeptStep, Stacks

Solid == Segs \ {""}

(* No component is empty.                                                  *)
LEMMA ComponentsType ==
  ASSUME NEW p \in Seq(Segs)
  PROVE  Components(p) \in Seq(Solid)
<1> DEFINE H == {q \in Seq(Segs) : Components(q) \in Seq(Solid)}
<1>1. <<>> \in H
  BY ComponentsEmpty, EmptySeq
<1>2. ASSUME NEW q \in Seq(Segs), NEW e \in Segs, q \in H
      PROVE  Append(q, e) \in H
  <2>1. Append(q, e) \in Seq(Segs)
    BY AppendProperties
  <2>2. CASE e = ""
    BY <1>2, <2>1, <2>2, ComponentsAppend DEF KeptNext
  <2>3. CASE e # ""
    <3>1. e \in Solid
      BY <2>3 DEF Solid
    <3>2. Append(Components(q), e) \in Seq(Solid)
      BY <1>2, <3>1, AppendProperties
    <3>3. QED
      BY <2>1, <2>3, <3>2, ComponentsAppend DEF KeptNext
  <2>4. QED
    BY <2>2, <2>3
<1>3. Seq(Segs) \subseteq H
  <2> HIDE DEF H
  <2>1. QED
    BY <1>1, <1>2, SeqInduction
<1>4. QED
  BY <1>3

(* Components are segments.                                                *)
LEMMA SolidText ==
  ASSUME NEW c \in Seq(Solid)
  PROVE  c \in Seq(Segs)
<1>1. Solid \subseteq Segs
  BY DEF Solid
<1>2. QED
  BY <1>1, SeqMonotonic

(* A text without empty segments is its own sequence of components.        *)
LEMMA ComponentsOfSolid ==
  ASSUME NEW c \in Seq(Solid)
  PROVE  Components(c) = c
<1> DEFINE H == {q \in Seq(Solid) : Components(q) = q}
<1>1. <<>> \in H
  BY ComponentsEmpty, EmptySeq
<1>2. ASSUME NEW q \in Seq(Solid), NEW e \in Solid, q \in H
      PROVE  Append(q, e) \in H
  <2>1. q \in Seq(Segs) /\ e \in Segs /\ e # ""
    BY SolidText DEF Solid
  <2>2. Components(Append(q, e)) = Append(q, e)
    BY <1>2, <2>1, ComponentsAppend DEF KeptNext
  <2>3. QED
    BY <2>2, AppendProperties
<1>3. Seq(Solid) \subseteq H
  <2> HIDE DEF H
  <2>1. QED
    BY <1>1, <1>2, SeqInduction
<1>4. QED
  BY <1>3

(* Appending to the second of two sequences appends to their               *)
(* concatenation.                                                          *)
LEMMA ConcatAppend ==
  ASSUME NEW S, NEW a \in Seq(S), NEW b \in Seq(S), NEW e \in S
  PROVE  a \o Append(b, e) = Append(a \o b, e)
<1>1. /\ <<e>> \in Seq(S)
      /\ a \o b \in Seq(S)
  BY ConcatProperties
<1>2. Append(b, e) = b \o <<e>> /\ Append(a \o b, e) = (a \o b) \o <<e>>
  BY <1>1, AppendIsConcat
<1>3. QED
  BY <1>1, <1>2, ConcatAssociative

(* The components of a text glued from two are those of the first, then    *)
(* those of the second.                                                    *)
LEMMA ComponentsConcat ==
  ASSUME NEW a \in Seq(Segs), NEW b \in Seq(Segs)
  PROVE  Components(a \o b) = Components(a) \o Components(b)
<1> DEFINE H == {q \in Seq(Segs) :
                   Components(a \o q) = Components(a) \o Components(q)}
<1>1. Components(a) \in Seq(Segs)
  BY ComponentsType, SolidText
<1>2. <<>> \in H
  BY <1>1, ComponentsEmpty, EmptySeq, ConcatEmptySeq
<1>3. ASSUME NEW q \in Seq(Segs), NEW e \in Segs, q \in H
      PROVE  Append(q, e) \in H
  <2>1. a \o q \in Seq(Segs) /\ Components(q) \in Seq(Segs)
    BY ConcatProperties, ComponentsAppend
  <2>2. Components(a \o Append(q, e)) = KeptNext(Components(a \o q), e)
    <3>1. a \o Append(q, e) = Append(a \o q, e)
      BY ConcatAppend
    <3>2. Components(Append(a \o q, e)) = KeptNext(Components(a \o q), e)
      BY <2>1, ComponentsAppend
    <3>3. QED
      BY <3>1, <3>2
  <2>3. Components(Append(q, e)) = KeptNext(Components(q), e)
    BY ComponentsAppend
  <2>4. Components(a) \o KeptNext(Components(q), e)
          = KeptNext(Components(a) \o Components(q), e)
    <3>1. Components(a) \o Append(Components(q), e)
            = Append(Components(a) \o Components(q), e)
      BY <1>1, <2>1, ConcatAppend
    <3>2. QED
      BY <3>1 DEF KeptNext
  <2>5. QED
    BY <1>3, <2>2, <2>3, <2>4, AppendProperties
<1>4. Seq(Segs) \subseteq H
  <2> HIDE DEF H
  <2>1. QED
    BY <1>2, <1>3, SeqInduction
<1>5. QED
  BY <1>4

-----------------------------------------------------------------------------
(* The loop of normalize().                                                *)

(* A non-empty sequence is its front and its last element.                 *)
LEMMA FrontProperties ==
  ASSUME NEW S, NEW s \in Seq(S), s # <<>>
  PROVE  /\ Front(s) \in Seq(S)
         /\ Len(Front(s)) = Len(s) - 1
         /\ \A i \in 1..(Len(s) - 1) : Front(s)[i] = s[i]
         /\ Last(s) \in S
         /\ Append(Front(s), Last(s)) = s
         /\ Front(s) \o <<Last(s)>> = s
<1>1. PICK t \in Seq(S), e \in S : s = Append(t, e)
  BY SequenceEmptyOrAppend
<1>2. PICK n \in Nat : n = Len(t)
  OBVIOUS
<1>3. Len(s) = n + 1 /\ s[n + 1] = e /\ \A i \in 1..n : s[i] = t[i] /\ s[i] \in S
  BY <1>1, <1>2, AppendProperties, ElementOfSeq
<1>4. /\ SubSeq(s, 1, n) \in Seq(S)
      /\ Len(SubSeq(s, 1, n)) = n
      /\ \A i \in 1..n : SubSeq(s, 1, n)[i] = s[i]
  BY <1>3, SubSeqProperties
<1>5. SubSeq(s, 1, n) = t
  BY <1>2, <1>3, <1>4, SeqEqual
<1>6. Front(s) = t /\ Last(s) = e
  BY <1>3, <1>5 DEF Front, Last
<1>7. QED
  BY <1>1, <1>2, <1>3, <1>6, AppendIsConcat

(* Front and Last undo Append.                                             *)
LEMMA FrontOfAppend ==
  ASSUME NEW S, NEW s \in Seq(S), NEW e \in S
  PROVE  Front(Append(s, e)) = s /\ Last(Append(s, e)) = e
<1>1. Append(s, e) \in Seq(S) /\ Append(s, e) # <<>>
  BY AppendProperties
<1>2. /\ Front(Append(s, e)) \in Seq(S) /\ Last(Append(s, e)) \in S
      /\ Append(Front(Append(s, e)), Last(Append(s, e))) = Append(s, e)
  BY <1>1, FrontProperties
<1>3. QED
  BY <1>2, AppendInjective

(* A sequence cut in two after n elements.                                 *)
LEMMA CutSeq ==
  ASSUME NEW S, NEW s \in Seq(S), NEW n \in Nat, n <= Len(s)
  PROVE  /\ SubSeq(s, n + 1, Len(s)) \in Seq(S)
         /\ Len(SubSeq(s, n + 1, Len(s))) = Len(s) - n
         /\ \A i \in 1..(Len(s) - n) : SubSeq(s, n + 1, Len(s))[i] = s[n + i]
         /\ SubSeq(s, 1, n) \o SubSeq(s, n + 1, Len(s)) = s
<1>1. PICK k \in Nat : k = Len(s)
  OBVIOUS
<1>2. \A i \in (n + 1)..k : s[i] \in S
  BY <1>1, ElementOfSeq
<1>3. /\ SubSeq(s, n + 1, k) \in Seq(S)
      /\ Len(SubSeq(s, n + 1, k)) = k - n
  BY <1>1, <1>2, SubSeqProperties
<1>4. \A i \in 1..(k - (n + 1) + 1) : SubSeq(s, n + 1, k)[i] = s[(n + 1) + i - 1]
  BY <1>1, <1>2, SubSeqProperties
<1>5. \A i \in 1..(k - n) : SubSeq(s, n + 1, k)[i] = s[n + i]
  BY <1>4
<1>6. SubSeq(s, 1, n) \o SubSeq(s, n + 1, k) = SubSeq(s, 1, k)
  <2>1. /\ 1 \in 1..(Len(s) + 1) /\ n \in (1 - 1)..Len(s)
        /\ Len(s) \in n..Len(s)
    BY <1>1
  <2>2. SubSeq(s, 1, n) \o SubSeq(s, n + 1, Len(s)) = SubSeq(s, 1, Len(s))
    BY <2>1, ConcatAdjacentSubSeq
  <2>3. QED
    BY <1>1, <2>2
<1>7. QED
  BY <1>1, <1>3, <1>5, <1>6, SubSeqFull

PushStep == [pair \in Stacks \X Segs |-> PushComponent(pair[1], pair[2])]

(* A turn of the loop of normalize() keeps a stack of segments one.        *)
LEMMA PushStepType == PushStep \in Steps
<1>1. ASSUME NEW st \in Stacks, NEW c \in Segs
      PROVE  PushComponent(st, c) \in Stacks
  <2>1. CASE c = "."
    BY <2>1 DEF PushComponent
  <2>2. CASE c = ".."
    BY <2>2, FrontProperties DEF PushComponent, Stacks
  <2>3. CASE c # "." /\ c # ".."
    BY <2>3, AppendProperties DEF PushComponent, Stacks
  <2>4. QED
    BY <2>1, <2>2, <2>3
<1>2. QED
  BY <1>1 DEF PushStep, Steps

PushLoop(c, g) ==
  g = [i \in 0..Len(c) |->
         IF i = 0 THEN <<>> ELSE PushComponent(g[i - 1], c[i])]

(* The equation of the loop has one solution, the run.                     *)
LEMMA PushLoopIsRun ==
  ASSUME NEW c \in Seq(Segs), NEW g
  PROVE  PushLoop(c, g) <=> Run(PushStep, c, g)
<1>1. PICK n \in Nat : n = Len(c) /\ c \in [1..n -> Segs]
  BY LenProperties
<1>2. ASSUME Run(PushStep, c, g)
      PROVE  PushLoop(c, g)
  <2>1. /\ g \in [0..n -> Stacks] /\ g[0] = <<>>
        /\ \A i \in 0..(n - 1) : g[i + 1] = PushStep[<<g[i], c[i + 1]>>]
    BY <1>1, <1>2 DEF Run
  <2>2. ASSUME NEW i \in 0..n, i # 0
        PROVE  g[i] = PushComponent(g[i - 1], c[i])
    <3>1. PICK j \in 0..(n - 1) : j = i - 1 /\ i = j + 1
      BY <2>2
    <3>2. g[j] \in Stacks /\ c[i] \in Segs
      BY <1>1, <2>1, <2>2
    <3>3. g[i] = PushStep[<<g[j], c[i]>>]
      BY <2>1, <3>1
    <3>4. g[i] = PushComponent(g[j], c[i])
      BY <3>2, <3>3 DEF PushStep
    <3>5. QED
      BY <3>1, <3>4
  <2>3. \A i \in 0..n : g[i] = IF i = 0 THEN <<>>
           ELSE PushComponent(g[i - 1], c[i])
    BY <2>1, <2>2
  <2>4. g = [i \in 0..n |-> g[i]]
    BY <2>1
  <2>5. QED
    BY <1>1, <2>3, <2>4 DEF PushLoop
<1>3. ASSUME PushLoop(c, g)
      PROVE  Run(PushStep, c, g)
  <2>1. g = [i \in 0..n |->
               IF i = 0 THEN <<>>
               ELSE PushComponent(g[i - 1], c[i])]
    BY <1>1, <1>3 DEF PushLoop
  <2>2. DOMAIN g = 0..n /\ g[0] = <<>>
    <3>1. 0 \in 0..n
      OBVIOUS
    <3>2. \A i \in 0..n : i = 0 => g[i] = <<>>
      BY <2>1
    <3>3. DOMAIN g = 0..n
      BY <2>1
    <3>4. QED
      BY <3>1, <3>2, <3>3
  <2>3. ASSUME NEW i \in 0..(n - 1)
        PROVE  g[i + 1] = PushComponent(g[i], c[i + 1])
    <3>1. i + 1 \in 0..n /\ i + 1 # 0 /\ (i + 1) - 1 = i
      OBVIOUS
    <3>2. g[i + 1] = PushComponent(g[(i + 1) - 1], c[i + 1])
      BY <2>1, <3>1
    <3>3. QED
      BY <3>1, <3>2
  <2> DEFINE H == {i \in Nat : i <= n => g[i] \in Stacks}
  <2>4. 0 \in H
    BY <2>2, EmptySeq DEF Stacks
  <2>5. ASSUME NEW i \in Nat, i \in H PROVE i + 1 \in H
    <3>1. CASE i + 1 <= n
      <4>1. i \in 0..(n - 1) /\ g[i] \in Stacks /\ c[i + 1] \in Segs
        BY <1>1, <2>5, <3>1
      <4>2. g[i + 1] = PushStep[<<g[i], c[i + 1]>>]
        BY <2>3, <4>1 DEF PushStep
      <4>3. g[i + 1] \in Stacks
        BY <4>1, <4>2, PushStepType DEF Steps
      <4>4. QED
        BY <4>3
    <3>2. QED
      BY <3>1
  <2>6. Nat \subseteq H
    <3> HIDE DEF H
    <3>1. QED
      BY <2>4, <2>5, SetInduction
  <2>7. \A i \in 0..n : g[i] \in Stacks
    BY <2>6
  <2>8. g \in [0..n -> Stacks]
    <3>1. g = [i \in 0..n |-> g[i]]
      BY <2>1
    <3>2. QED
      BY <2>7, <3>1
  <2>9. ASSUME NEW i \in 0..(n - 1)
        PROVE  g[i + 1] = PushStep[<<g[i], c[i + 1]>>]
    <3>1. g[i] \in Stacks /\ c[i + 1] \in Segs
      BY <1>1, <2>7
    <3>2. QED
      BY <2>3, <3>1 DEF PushStep
  <2>10. QED
    BY <1>1, <2>2, <2>8, <2>9 DEF Run
<1>4. QED
  BY <1>2, <1>3

(* Pushed is where the run of its loop ends.                               *)
LEMMA PushedOfRun ==
  ASSUME NEW c \in Seq(Segs), NEW g, Run(PushStep, c, g)
  PROVE  Pushed(c) = g[Len(c)]
<1> DEFINE k == CHOOSE h : PushLoop(c, h)
<1>1. PushLoop(c, g)
  BY PushLoopIsRun
<1>2. PushLoop(c, k)
  BY <1>1
<1>3. k = g
  BY <1>2, PushLoopIsRun, PushStepType, RunUnique
<1>4. Pushed(c) = k[Len(c)]
  BY DEF Pushed, PushLoop
<1>5. QED
  BY <1>3, <1>4

(* Without components the stack stays empty.                               *)
LEMMA PushedEmpty == Pushed(<<>>) = <<>>
<1>1. Run(PushStep, <<>>, [i \in 0..0 |-> <<>>])
  BY DEF Run, Stacks
<1>2. QED
  BY <1>1, PushedOfRun, EmptySeq

(* One more component is one more turn of the loop.                        *)
LEMMA PushedAppend ==
  ASSUME NEW c \in Seq(Segs), NEW e \in Segs
  PROVE  /\ Pushed(c) \in Seq(Segs)
         /\ Pushed(Append(c, e)) = PushComponent(Pushed(c), e)
<1>1. PICK g : Run(PushStep, c, g)
  BY PushStepType, RunExists
<1>2. PICK h : /\ Run(PushStep, Append(c, e), h)
               /\ h[Len(c) + 1] = PushStep[<<g[Len(c)], e>>]
  BY <1>1, PushStepType, RunExtends
<1>3. Append(c, e) \in Seq(Segs) /\ Len(Append(c, e)) = Len(c) + 1 /\ Len(c) \in Nat
  BY AppendProperties
<1>4. g[Len(c)] \in Stacks
  BY <1>1, <1>3 DEF Run
<1>5. Pushed(c) = g[Len(c)] /\ Pushed(Append(c, e)) = h[Len(c) + 1]
  BY <1>1, <1>2, <1>3, PushedOfRun
<1>6. QED
  BY <1>2, <1>4, <1>5 DEF PushStep, Stacks

(* The stack holds names only: neither "." nor ".." is ever pushed.        *)
LEMMA PushedType ==
  ASSUME NEW c \in Seq(Solid)
  PROVE  Pushed(c) \in Seq(Names)
<1> DEFINE H == {q \in Seq(Solid) : Pushed(q) \in Seq(Names)}
<1>1. <<>> \in H
  BY PushedEmpty, EmptySeq
<1>2. ASSUME NEW q \in Seq(Solid), NEW e \in Solid, q \in H
      PROVE  Append(q, e) \in H
  <2>1. /\ Append(q, e) \in Seq(Solid) /\ q \in Seq(Segs) /\ e \in Segs
        /\ Pushed(q) \in Seq(Names)
    BY <1>2, AppendProperties, SolidText DEF Solid
  <2>2. Pushed(Append(q, e)) = PushComponent(Pushed(q), e)
    BY <2>1, PushedAppend
  <2>3. CASE e = "."
    BY <2>1, <2>2, <2>3 DEF PushComponent
  <2>4. CASE e = ".."
    <3>1. Pushed(q) # <<>> => Front(Pushed(q)) \in Seq(Names)
      BY <2>1, FrontProperties
    <3>2. PushComponent(Pushed(q), e) \in Seq(Names)
      BY <2>1, <2>4, <3>1 DEF PushComponent
    <3>3. QED
      BY <2>1, <2>2, <3>2
  <2>5. CASE e # "." /\ e # ".."
    <3>1. e \in Names
      BY <2>5 DEF Solid, Segs
    <3>2. QED
      BY <2>1, <2>2, <2>5, <3>1, AppendProperties DEF PushComponent
  <2>6. QED
    BY <2>3, <2>4, <2>5
<1>3. Seq(Solid) \subseteq H
  <2> HIDE DEF H
  <2>1. QED
    BY <1>1, <1>2, SeqInduction
<1>4. QED
  BY <1>3

(* Names are components, and a text of names has them all.                 *)
LEMMA NamesAreSolid ==
  ASSUME NEW s \in Seq(Names)
  PROVE  s \in Seq(Solid) /\ s \in Seq(Segs) /\ Components(s) = s
<1>1. Names \subseteq Solid
  BY NamesAssumption DEF Solid, Segs
<1>2. s \in Seq(Solid)
  BY <1>1, SeqMonotonic
<1>3. QED
  BY <1>2, SolidText, ComponentsOfSolid

(* A stack of names is what pushing its names builds.                      *)
LEMMA PushedOfNames ==
  ASSUME NEW s \in Seq(Names)
  PROVE  Pushed(s) = s
<1> DEFINE H == {q \in Seq(Names) : Pushed(q) = q}
<1>1. <<>> \in H
  BY PushedEmpty, EmptySeq
<1>2. ASSUME NEW q \in Seq(Names), NEW e \in Names, q \in H
      PROVE  Append(q, e) \in H
  <2>1. q \in Seq(Segs) /\ e \in Segs /\ e \notin {".", ".."}
    BY NamesAreSolid, NamesAssumption DEF Segs
  <2>2. Pushed(Append(q, e)) = Append(q, e)
    BY <1>2, <2>1, PushedAppend DEF PushComponent
  <2>3. QED
    BY <2>2, AppendProperties
<1>3. Seq(Names) \subseteq H
  <2> HIDE DEF H
  <2>1. QED
    BY <1>1, <1>2, SeqInduction
<1>4. QED
  BY <1>3

(* What the loop does with d after c depends on c through the stack alone. *)
LEMMA PushedAbsorbs ==
  ASSUME NEW c \in Seq(Solid), NEW d \in Seq(Solid)
  PROVE  Pushed(Pushed(c) \o d) = Pushed(c \o d)
<1> DEFINE H == {q \in Seq(Solid) : Pushed(Pushed(c) \o q) = Pushed(c \o q)}
<1>1. /\ Pushed(c) \in Seq(Names) /\ Pushed(c) \in Seq(Solid)
      /\ Pushed(Pushed(c)) = Pushed(c)
  BY PushedType, NamesAreSolid, PushedOfNames
<1>2. <<>> \in H
  BY <1>1, EmptySeq, ConcatEmptySeq
<1>3. ASSUME NEW q \in Seq(Solid), NEW e \in Solid, q \in H
      PROVE  Append(q, e) \in H
  <2>1. /\ c \o q \in Seq(Segs) /\ Pushed(c) \o q \in Seq(Segs) /\ e \in Segs
    BY <1>1, ConcatProperties, SolidText DEF Solid
  <2>2. Pushed(c \o Append(q, e)) = PushComponent(Pushed(c \o q), e)
    <3>1. c \o Append(q, e) = Append(c \o q, e)
      BY ConcatAppend
    <3>2. Pushed(Append(c \o q, e)) = PushComponent(Pushed(c \o q), e)
      BY <2>1, PushedAppend
    <3>3. QED
      BY <3>1, <3>2
  <2>3. Pushed(Pushed(c) \o Append(q, e))
          = PushComponent(Pushed(Pushed(c) \o q), e)
    <3>1. Pushed(c) \o Append(q, e) = Append(Pushed(c) \o q, e)
      BY <1>1, ConcatAppend
    <3>2. Pushed(Append(Pushed(c) \o q, e))
            = PushComponent(Pushed(Pushed(c) \o q), e)
      BY <2>1, PushedAppend
    <3>3. QED
      BY <3>1, <3>2
  <2>4. QED
    BY <1>3, <2>2, <2>3, AppendProperties
<1>4. Seq(Solid) \subseteq H
  <2> HIDE DEF H
  <2>1. QED
    BY <1>2, <1>3, SeqInduction
<1>5. QED
  BY <1>4

-----------------------------------------------------------------------------
(* normalize().                                                            *)

(* The provers follow p[1] = "" better when the literal has a name.        *)
Blank == ""

(* The empty segment is not a name.                                        *)
LEMMA BlankSegment == Blank \in Segs /\ Blank \notin Names
  BY NamesAssumption DEF Blank, Segs

(* IsAbsolute, with the empty segment named.                               *)
LEMMA AbsoluteMeans ==
  ASSUME NEW p
  PROVE  IsAbsolute(p) <=> Len(p) > 1 /\ p[1] = Blank
  BY DEF IsAbsolute, Blank

(* IsNormal, with the empty segment named.                                 *)
LEMMA NormalMeans ==
  ASSUME NEW p
  PROVE  IsNormal(p) <=>
           \/ p = Root
           \/ Len(p) > 1 /\ p[1] = Blank /\ \A i \in 2..Len(p) : p[i] \in Names
  BY DEF IsNormal, Blank

(* The root is two empty segments.                                         *)
LEMMA RootMeans ==
  /\ Root = <<Blank, Blank>> /\ Len(Root) = 2 /\ Root[1] = Blank /\ Root[2] = Blank
  /\ Root \in Seq(Segs)
<1>1. Root = <<Blank, Blank>>
  BY DEF Root, Blank
<1>2. QED
  BY <1>1, BlankSegment

(* The four results of normalize().                                        *)
LEMMA NormalizeMeans ==
  ASSUME NEW p, NEW st, st = Pushed(Components(p))
  PROVE  /\ IsAbsolute(p) /\ st = <<>> => Normalize(p) = Root
         /\ IsAbsolute(p) /\ st # <<>> => Normalize(p) = <<Blank>> \o st
         /\ ~ IsAbsolute(p) /\ st = <<>> => Normalize(p) = <<Blank>>
         /\ ~ IsAbsolute(p) /\ st # <<>> => Normalize(p) = st
  BY Zenon DEF Normalize, Blank

(* The three results of join().                                            *)
LEMMA JoinMeans ==
  ASSUME NEW base, NEW other
  PROVE  /\ IsAbsolute(other) => Join(base, other) = other
         /\ ~ IsAbsolute(other) /\ Last(base) = Blank
              => Join(base, other) = Front(base) \o other
         /\ ~ IsAbsolute(other) /\ Last(base) # Blank
              => Join(base, other) = base \o other
<1>1. Join(base, other) =
        IF IsAbsolute(other) THEN other
        ELSE IF Last(base) = Blank THEN Front(base) \o other ELSE base \o other
  BY DEF Join, Blank
<1>2. CASE IsAbsolute(other)
  <2>1. Join(base, other) = other
    BY <1>1, <1>2
  <2>2. QED
    BY <1>2, <2>1, Zenon
<1>3. CASE ~ IsAbsolute(other) /\ Last(base) = Blank
  BY <1>1, <1>3
<1>4. CASE ~ IsAbsolute(other) /\ Last(base) # Blank
  BY <1>1, <1>4
<1>5. QED
  BY <1>2, <1>3, <1>4

(* The types of a text, of its components and of its stack.                *)
LEMMA TextProperties ==
  ASSUME NEW p \in Texts
  PROVE  /\ p \in Seq(Segs) /\ p # <<>> /\ Len(p) \in Nat /\ Len(p) >= 1
         /\ \A i \in 1..Len(p) : p[i] \in Segs
         /\ Components(p) \in Seq(Solid)
         /\ Pushed(Components(p)) \in Seq(Names)
<1>1. p \in Seq(Segs) /\ p # <<>>
  BY DEF Texts
<1>2. Len(p) \in Nat /\ Len(p) # 0 /\ \A i \in 1..Len(p) : p[i] \in Segs
  BY <1>1, EmptySeq, ElementOfSeq
<1>3. QED
  BY <1>1, <1>2, ComponentsType, PushedType

(* The empty text is relative and has no components; the root is absolute  *)
(* and has none either.                                                    *)
LEMMA EmptySegment ==
  /\ <<Blank>> \in Seq(Segs) /\ Components(<<Blank>>) = <<>>
  /\ <<Blank>> \in Texts /\ ~ IsAbsolute(<<Blank>>)
  /\ Root \in Texts /\ Components(Root) = <<>> /\ IsAbsolute(Root)
  /\ IsNormal(Root)
<1>1. ASSUME NEW p \in Seq(Segs), Components(p) = <<>>
      PROVE  Components(Append(p, Blank)) = <<>>
  BY <1>1, BlankSegment, ComponentsAppend DEF KeptNext, Blank
<1>2. <<Blank>> = Append(<<>>, Blank) /\ Root = Append(<<Blank>>, Blank)
  BY RootMeans
<1>3. <<Blank>> \in Seq(Segs) /\ Root \in Seq(Segs) /\ Root # <<>>
  BY BlankSegment, RootMeans
<1>4. Components(<<Blank>>) = <<>>
  BY <1>1, <1>2, EmptySeq, ComponentsEmpty
<1>5. Components(Root) = <<>>
  BY <1>1, <1>2, <1>3, <1>4
<1>6. ~ IsAbsolute(<<Blank>>) /\ IsAbsolute(Root)
  <2>1. Len(<<Blank>>) = 1 /\ Len(Root) = 2 /\ Root[1] = Blank
    BY RootMeans
  <2>2. ~ (Len(<<Blank>>) > 1) /\ Len(Root) > 1
    BY <2>1
  <2>3. QED
    BY <2>1, <2>2, AbsoluteMeans, Zenon
<1>7. <<Blank>> \in Texts /\ Root \in Texts
  BY <1>3 DEF Texts
<1>8. IsNormal(Root)
  BY NormalMeans
<1>9. QED
  BY <1>3, <1>4, <1>5, <1>6, <1>7, <1>8

(* A separator and then at least one name.                                 *)
LEMMA SlashNames ==
  ASSUME NEW s \in Seq(Names), s # <<>>
  PROVE  /\ <<Blank>> \o s \in Texts
         /\ IsAbsolute(<<Blank>> \o s) /\ IsNormal(<<Blank>> \o s)
         /\ <<Blank>> \o s # Root
         /\ Components(<<Blank>> \o s) = s
<1>1. s \in Seq(Segs) /\ Components(s) = s
  BY NamesAreSolid
<1>2. PICK n \in Nat : n = Len(s) /\ n >= 1
  BY EmptySeq
<1>3. PICK p \in Seq(Segs) : p = <<Blank>> \o s
  BY <1>1, EmptySegment, ConcatProperties
<1>4. /\ Len(p) = n + 1
      /\ p[1] = Blank
      /\ \A i \in 2..Len(p) : p[i] = s[i - 1]
  BY <1>1, <1>2, <1>3, EmptySegment, ConcatProperties
<1>5. \A i \in 2..Len(p) : p[i] \in Names
  BY <1>2, <1>4, ElementOfSeq
<1>6. p # Root
  <2>1. p[2] \in Names
    BY <1>2, <1>4, <1>5
  <2>2. QED
    BY <2>1, BlankSegment, RootMeans
<1>7. p # <<>>
  BY <1>2, <1>4
<1>8. Components(p) = <<>> \o s
  BY <1>1, <1>3, EmptySegment, ComponentsConcat
<1>9. <<>> \o s = s
  BY ConcatEmptySeq
<1>10. Len(p) > 1 /\ p[1] = Blank
  BY <1>2, <1>4
<1>11. IsAbsolute(p) /\ IsNormal(p)
  BY <1>5, <1>10, AbsoluteMeans, NormalMeans
<1>12. p \in Texts
  BY <1>3, <1>7 DEF Texts
<1>13. QED
  BY <1>3, <1>6, <1>8, <1>9, <1>11, <1>12

(* A normal path is the root, or a separator and then names.               *)
LEMMA NormalShape ==
  ASSUME NEW p \in Texts, IsNormal(p)
  PROVE  /\ IsAbsolute(p)
         /\ p # Root => \E s \in Seq(Names) : s # <<>> /\ p = <<Blank>> \o s
<1>1. CASE p = Root
  BY <1>1, EmptySegment
<1>2. CASE p # Root
  <2>1. /\ p \in Seq(Segs) /\ Len(p) > 1 /\ p[1] = Blank /\ Len(p) \in Nat
        /\ \A i \in 2..Len(p) : p[i] \in Names
    <3>1. p \in Seq(Segs) /\ Len(p) \in Nat
      BY TextProperties
    <3>2. Len(p) > 1 /\ p[1] = Blank /\ \A i \in 2..Len(p) : p[i] \in Names
      BY <1>2, NormalMeans
    <3>3. QED
      BY <3>1, <3>2
  <2>2. PICK s \in Seq(Names) : s = SubSeq(p, 2, Len(p)) /\ s # <<>>
    <3>1. SubSeq(p, 2, Len(p)) \in Seq(Names)
      BY <2>1, SubSeqProperties
    <3>2. Len(SubSeq(p, 2, Len(p))) = Len(p) - 1
      BY <2>1, SubSeqProperties
    <3>3. SubSeq(p, 2, Len(p)) # <<>>
      <4>1. Len(p) > 1 /\ Len(p) \in Nat
        BY <2>1
      <4>2. Len(SubSeq(p, 2, Len(p))) # 0
        BY <3>2, <4>1
      <4>3. QED
        BY <4>2, EmptySeq, Zenon
    <3>4. QED
      BY <3>1, <3>3
  <2>3. SubSeq(p, 1, Len(p)) = <<p[1]>> \o SubSeq(p, 2, Len(p))
    BY <2>1, SubSeqRecursiveFirst
  <2>4. p = <<Blank>> \o s
    BY <2>1, <2>2, <2>3, SubSeqFull
  <2>5. QED
    BY <2>1, <2>2, <2>4, AbsoluteMeans
<1>3. QED
  BY <1>1, <1>2

(* The components of a normalised text are the stack, and an absolute text *)
(* stays absolute and becomes normal.                                      *)
LEMMA NormalizeProperties ==
  ASSUME NEW p \in Texts
  PROVE  /\ Normalize(p) \in Texts
         /\ Components(Normalize(p)) = Pushed(Components(p))
         /\ IsAbsolute(p) => IsNormal(Normalize(p)) /\ IsAbsolute(Normalize(p))
<1>1. PICK st \in Seq(Names) : st = Pushed(Components(p))
  BY TextProperties
<1>2. st \in Seq(Segs) /\ Components(st) = st /\ (st # <<>> => st \in Texts)
  BY NamesAreSolid DEF Texts
<1>3. CASE IsAbsolute(p) /\ st = <<>>
  BY <1>1, <1>3, NormalizeMeans, EmptySegment
<1>4. CASE IsAbsolute(p) /\ st # <<>>
  <2>1. Normalize(p) = <<Blank>> \o st
    BY <1>1, <1>4, NormalizeMeans
  <2>2. /\ <<Blank>> \o st \in Texts
        /\ IsAbsolute(<<Blank>> \o st) /\ IsNormal(<<Blank>> \o st)
        /\ Components(<<Blank>> \o st) = st
    BY <1>4, SlashNames
  <2>3. QED
    BY <1>1, <2>1, <2>2
<1>5. CASE ~ IsAbsolute(p) /\ st = <<>>
  BY <1>1, <1>5, NormalizeMeans, EmptySegment
<1>6. CASE ~ IsAbsolute(p) /\ st # <<>>
  BY <1>1, <1>2, <1>6, NormalizeMeans
<1>7. QED
  BY <1>3, <1>4, <1>5, <1>6

(* Normalising leaves a normal path as it is.                              *)
LEMMA NormalizeNormal ==
  ASSUME NEW p \in Texts, IsNormal(p)
  PROVE  Normalize(p) = p
<1>1. IsAbsolute(p)
  BY NormalShape
<1>2. CASE p = Root
  <2>1. Pushed(Components(p)) = <<>>
    BY <1>2, EmptySegment, PushedEmpty
  <2>2. QED
    BY <1>1, <1>2, <2>1, NormalizeMeans
<1>3. CASE p # Root
  <2>1. PICK s \in Seq(Names) : s # <<>> /\ p = <<Blank>> \o s
    BY <1>3, NormalShape
  <2>2. Pushed(Components(p)) = s
    BY <2>1, SlashNames, PushedOfNames
  <2>3. QED
    BY <1>1, <2>1, <2>2, NormalizeMeans
<1>4. QED
  BY <1>2, <1>3

(* Absolute texts that leave the same stack are the same path.             *)
LEMMA NormalizeByStack ==
  ASSUME NEW p, NEW q, IsAbsolute(p), IsAbsolute(q),
         Pushed(Components(p)) = Pushed(Components(q))
  PROVE  Normalize(p) = Normalize(q)
  BY DEF Normalize

-----------------------------------------------------------------------------
(* join() and resolve_path().                                              *)

(* The elements of a concatenation, with the lengths given.                *)
LEMMA ConcatAt ==
  ASSUME NEW S, NEW s \in Seq(S), NEW t \in Seq(S), NEW a \in Nat, NEW b \in Nat,
         Len(s) = a, Len(t) = b
  PROVE  /\ s \o t \in Seq(S)
         /\ Len(s \o t) = a + b
         /\ \A i \in 1..(a + b) :
              (s \o t)[i] = IF i <= a THEN s[i] ELSE t[i - a]
  BY ConcatProperties

(* A text joined to another is followed by its components; and what is     *)
(* joined to an absolute text is absolute, to a relative one relative.     *)
LEMMA JoinRelative ==
  ASSUME NEW base \in Texts, NEW other \in Texts, ~ IsAbsolute(other)
  PROVE  /\ Join(base, other) \in Texts
         /\ Components(Join(base, other))
              = Components(base) \o Components(other)
         /\ IsAbsolute(Join(base, other)) <=> IsAbsolute(base)
<1>1. PICK b \in Nat, o \in Nat :
        /\ b = Len(base) /\ b >= 1 /\ o = Len(other) /\ o >= 1
        /\ base \in Seq(Segs) /\ base # <<>> /\ other \in Seq(Segs)
  BY TextProperties
<1> DEFINE Slashed(n, t) == n > 1 /\ t[1] = Blank
<1>5. ~ Slashed(o, other)
  BY <1>1, AbsoluteMeans
<1>6. ASSUME NEW n, NEW t, n = Len(t)
      PROVE  IsAbsolute(t) <=> Slashed(n, t)
  BY <1>6, AbsoluteMeans
<1>2. CASE Last(base) = Blank
  <2>1. PICK f \in Seq(Segs) : f = Front(base)
    BY <1>1, FrontProperties
  <2>2. /\ Len(f) = b - 1
        /\ \A i \in 1..(b - 1) : f[i] = base[i]
        /\ f \o <<Blank>> = base
    BY <1>1, <1>2, <2>1, FrontProperties
  <2>3. Join(base, other) = f \o other
    BY <1>2, <2>1, JoinMeans
  <2>4. /\ f \o other \in Seq(Segs)
        /\ Len(f \o other) = (b - 1) + o
        /\ \A i \in 1..((b - 1) + o) :
             (f \o other)[i] = IF i <= b - 1 THEN f[i] ELSE other[i - (b - 1)]
    <3>1. PICK a \in Nat : a = b - 1 /\ Len(f) = a
      <4>1. Len(f) = b - 1 /\ b >= 1
        BY <1>1, <2>2, Zenon
      <4>2. QED
        BY <4>1
    <3>2. ASSUME NEW t \in Seq(Segs), Len(t) = o
          PROVE  /\ f \o t \in Seq(Segs)
                 /\ Len(f \o t) = a + o
                 /\ \A i \in 1..(a + o) :
                      (f \o t)[i] = IF i <= a THEN f[i] ELSE t[i - a]
      BY <3>1, <3>2, ConcatAt
    <3> HIDE DEF Slashed
    <3>4. Len(other) = o /\ other \in Seq(Segs)
      BY <1>1, Zenon
    <3>5. /\ f \o other \in Seq(Segs)
          /\ Len(f \o other) = a + o
          /\ \A i \in 1..(a + o) :
               (f \o other)[i] = IF i <= a THEN f[i] ELSE other[i - a]
      BY <3>2, <3>4, Zenon
    <3>6. QED
      BY <3>1, <3>5
  <2>5. f \o other \in Texts
    BY <1>1, <2>4 DEF Texts
  <2>6. Components(f) = Components(base)
    <3>1. Components(f) \in Seq(Segs)
      BY ComponentsType, SolidText
    <3>2. Components(base) = Components(f) \o <<>>
      BY <2>2, EmptySegment, ComponentsConcat
    <3>3. QED
      BY <3>1, <3>2, ConcatEmptySeq
  <2>7. Components(f \o other) = Components(base) \o Components(other)
    BY <1>1, <2>6, ComponentsConcat
  <2>8. Slashed((b - 1) + o, f \o other) <=> Slashed(b, base)
    <3>1. CASE b = 1
      BY <1>1, <1>5, <2>4, <3>1
    <3>2. CASE b > 1
      <4>1. (f \o other)[1] = base[1]
        BY <1>1, <2>2, <2>4, <3>2
      <4>2. QED
        BY <1>1, <3>2, <4>1
    <3>3. QED
      BY <1>1, <3>1, <3>2
  <2>9. IsAbsolute(f \o other) <=> IsAbsolute(base)
    <3>1. IsAbsolute(f \o other) <=> Slashed((b - 1) + o, f \o other)
      BY <1>6, <2>4
    <3>2. IsAbsolute(base) <=> Slashed(b, base)
      BY <1>1, <1>6
    <3>3. QED
      BY <2>8, <3>1, <3>2, Zenon
  <2>10. QED
    BY <2>3, <2>5, <2>7, <2>9
<1>3. CASE Last(base) # Blank
  <2>1. Join(base, other) = base \o other
    BY <1>3, JoinMeans
  <2>2. /\ base \o other \in Seq(Segs)
        /\ Len(base \o other) = b + o
        /\ (base \o other)[1] = base[1]
    BY <1>1, ConcatProperties
  <2>3. base \o other \in Texts
    BY <1>1, <2>2 DEF Texts
  <2>4. Slashed(b + o, base \o other) <=> Slashed(b, base)
    <3>1. CASE b = 1
      BY <1>1, <1>3, <2>2, <3>1 DEF Last
    <3>2. CASE b > 1
      BY <1>1, <2>2, <3>2
    <3>3. QED
      BY <1>1, <3>1, <3>2
  <2>5. IsAbsolute(base \o other) <=> IsAbsolute(base)
    <3>1. IsAbsolute(base \o other) <=> Slashed(b + o, base \o other)
      BY <1>6, <2>2
    <3>2. IsAbsolute(base) <=> Slashed(b, base)
      BY <1>1, <1>6
    <3>3. QED
      BY <2>4, <3>1, <3>2, Zenon
  <2>6. Components(base \o other) = Components(base) \o Components(other)
    BY <1>1, ComponentsConcat
  <2>7. QED
    BY <2>1, <2>3, <2>5, <2>6
<1>4. QED
  BY <1>2, <1>3

(* A path resolved against an absolute directory is absolute and normal.   *)
LEMMA ResolvePathProperties ==
  ASSUME NEW cwd \in Texts, IsAbsolute(cwd), NEW p \in Texts
  PROVE  /\ ResolvePath(cwd, p) = Normalize(Join(cwd, p))
         /\ Join(cwd, p) \in Texts /\ IsAbsolute(Join(cwd, p))
         /\ ResolvePath(cwd, p) \in Texts
         /\ IsNormal(ResolvePath(cwd, p)) /\ IsAbsolute(ResolvePath(cwd, p))
<1>1. Join(cwd, p) \in Texts /\ IsAbsolute(Join(cwd, p))
  <2>1. CASE IsAbsolute(p)
    BY <2>1, JoinMeans
  <2>2. CASE ~ IsAbsolute(p)
    BY <2>2, JoinRelative
  <2>3. QED
    BY <2>1, <2>2
<1>2. ResolvePath(cwd, p) = Normalize(Join(cwd, p))
  BY Zenon, JoinMeans DEF ResolvePath
<1>3. QED
  BY <1>1, <1>2, NormalizeProperties

(* The stack a resolved path leaves: that of the directory's components    *)
(* and then the path's.                                                    *)
LEMMA ResolvePathStack ==
  ASSUME NEW cwd \in Texts, NEW p \in Texts, ~ IsAbsolute(p)
  PROVE  Pushed(Components(Join(Normalize(cwd), p)))
           = Pushed(Components(Join(cwd, p)))
<1>1. /\ Normalize(cwd) \in Texts
      /\ Components(Normalize(cwd)) = Pushed(Components(cwd))
  BY NormalizeProperties
<1>2. Components(Join(Normalize(cwd), p))
        = Pushed(Components(cwd)) \o Components(p)
  BY <1>1, JoinRelative
<1>3. Components(Join(cwd, p)) = Components(cwd) \o Components(p)
  BY JoinRelative
<1>4. QED
  BY <1>2, <1>3, TextProperties, PushedAbsorbs

-----------------------------------------------------------------------------
(* The argument of mount and umount.                                       *)

(* Trimming a text at its end leaves a text. *)
LEMMA MountPathType ==
  ASSUME NEW a \in Texts
  PROVE  MountPath(a) \in Texts
<1>1. a \in Seq(Segs) /\ Len(a) \in Nat /\ Len(a) >= 1 /\ DOMAIN a = 1..Len(a)
  BY DEF Texts
<1> DEFINE ends == {1} \cup {i \in DOMAIN a : a[i] # ""}
<1>2. ends \subseteq 0..Len(a) /\ ends # {} /\ ends \subseteq 1..Len(a)
  <2>1. 1 \in 1..Len(a)
    BY <1>1
  <2>2. ends \subseteq 1..Len(a) /\ ends # {}
    BY <1>1, <2>1
  <2> HIDE DEF ends
  <2>3. ends \subseteq 0..Len(a)
    BY <2>2
  <2>4. QED
    BY <2>2, <2>3
<1>3. Max(ends) \in 1..Len(a)
  <2> HIDE DEF ends
  <2>1. Max(ends) \in ends
    BY <1>1, <1>2, MaxProperties
  <2>2. QED
    BY <1>2, <2>1
<1> HIDE DEF ends
<1>4. SubSeq(a, 1, Max(ends)) \in Seq(Segs) /\ Len(SubSeq(a, 1, Max(ends))) = Max(ends)
  <2>1. \A n \in 1..Len(a) : SubSeq(a, 1, n) \in Seq(Segs) /\ Len(SubSeq(a, 1, n)) = n
    BY <1>1
  <2>2. QED
    BY <1>3, <2>1
<1>5. TrimEnd(a) \in Texts
  <2>1. SubSeq(a, 1, Max(ends)) # <<>>
    BY <1>3, <1>4
  <2>2. QED
    BY <1>4, <2>1 DEF TrimEnd, Texts, ends
<1>6. QED
  BY <1>5 DEF MountPath
=============================================================================
