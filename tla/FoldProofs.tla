----------------------------- MODULE FoldProofs -----------------------------
(***************************************************************************)
(* What FoldLeft computes, for any operator: every value on the way, from  *)
(* the base, is the operator's of the one before and the next element.     *)
(* The proofs about folds instantiate it with their operators.             *)
(***************************************************************************)
EXTENDS WellFoundedInduction, TLAPS

CONSTANT Op(_, _, _)   \* with a parameter of the fold in front

(* The values that a fold of the elements of seq goes through.             *)
Folding(a, it, base, seq, n) ==
  /\ it[0] = base
  /\ \A k \in 1 .. n : it[k] = Op(a, it[k - 1], seq[k])

(* The function of sets of indices that FoldLeft is defined with, and what *)
(* FoldLeft is for a sequence of n elements.                               *)
Iter(a, g, base, seq, n) ==
  g = [s \in SUBSET (1 .. n) |->
         IF s = {} THEN base
         ELSE LET x == CHOOSE z \in s : \A y \in s : z >= y IN Op(a, g[s \ {x}], seq[x])]

Folded(a, base, seq, n) ==
  LET iter == CHOOSE g : Iter(a, g, base, seq, n) IN iter[1 .. n]

Largest(s) == CHOOSE z \in s : \A y \in s : z >= y

(* A set that has 0, and the successors of its numbers, has every number.  *)
LEMMA Induction ==
  ASSUME NEW S, 0 \in S, \A n \in Nat : n \in S => n + 1 \in S
  PROVE  Nat \subseteq S
<1> DEFINE R == OpToRel(<, Nat)
<1>1. IsWellFoundedOn(R, Nat)
  BY NatLessThanWellFounded
<1>2. \A x, y \in Nat : x < y => <<x, y>> \in R
  BY DEF OpToRel
<1> HIDE DEF R
<1> SUFFICES ASSUME Nat \ S # {} PROVE FALSE
  OBVIOUS
<1>3. PICK x \in Nat \ S : \A y \in Nat \ S : <<y, x>> \notin R
  BY <1>1, WFMin
<1>4. x # 0 /\ x - 1 \in Nat
  BY <1>3
<1>5. x - 1 \in Nat \ S
  BY <1>3, <1>4
<1>6. <<x - 1, x>> \in R
  BY <1>2, <1>3, <1>4
<1> QED  BY <1>3, <1>5, <1>6

LEMMA LargestIn ==
  ASSUME NEW n \in Nat, NEW s \in SUBSET (1 .. n)
  PROVE  /\ n \in s => Largest(s) = n
         /\ s # {} => Largest(s) \in s
<1>1. n \in s => Largest(s) = n
  <2> SUFFICES ASSUME n \in s PROVE Largest(s) = n
    OBVIOUS
  <2>1. \A y \in s : n >= y
    OBVIOUS
  <2>2. \E x \in s : \A y \in s : x >= y
    BY <2>1
  <2> DEFINE m == CHOOSE x \in s : \A y \in s : x >= y
  <2>3. m \in s /\ \A y \in s : m >= y
    BY <2>2
  <2>4. Largest(s) = m
    BY DEF Largest
  <2> HIDE DEF m
  <2>5. m \in 1 .. n
    BY <2>3
  <2>6. n >= Largest(s) /\ Largest(s) >= n /\ Largest(s) \in Nat
    BY <2>3, <2>4, <2>5
  <2> QED  BY <2>6
<1>2. s # {} => \E x \in s : \A y \in s : x >= y
  <2> DEFINE T == {m \in Nat : \A t \in SUBSET (1 .. m) :
                                 t # {} => \E x \in t : \A y \in t : x >= y}
  <2>1. 0 \in T
    <3>1. \A t \in SUBSET (1 .. 0) : t = {}
      OBVIOUS
    <3> QED  BY <3>1
  <2>2. ASSUME NEW m \in Nat, m \in T PROVE m + 1 \in T
    <3> SUFFICES ASSUME NEW t \in SUBSET (1 .. m + 1), t # {}
                 PROVE  \E x \in t : \A y \in t : x >= y
      OBVIOUS
    <3>1. CASE m + 1 \in t
      <4>1. \A y \in t : m + 1 >= y
        OBVIOUS
      <4> QED  BY <3>1, <4>1
    <3>2. CASE m + 1 \notin t
      <4>1. t \in SUBSET (1 .. m)
        BY <3>2
      <4> QED  BY <2>2, <4>1
    <3> QED  BY <3>1, <3>2
  <2>3. n \in T
    <3> HIDE DEF T
    <3> QED  BY <2>1, <2>2, Induction
  <2> QED  BY <2>3
<1>3. s # {} => Largest(s) \in s
  BY <1>2 DEF Largest
<1> QED  BY <1>1, <1>3

LEMMA IterExists ==
  ASSUME NEW a, NEW base, NEW seq
  PROVE  \A n \in Nat : \E g : Iter(a, g, base, seq, n)
<1> DEFINE S == {n \in Nat : \E g : Iter(a, g, base, seq, n)}
<1>1. 0 \in S
  <2>1. Iter(a, [s \in SUBSET (1 .. 0) |-> base], base, seq, 0)
    <3>1. \A s \in SUBSET (1 .. 0) : s = {}
      OBVIOUS
    <3> QED  BY <3>1 DEF Iter, Largest
  <2> QED  BY <2>1
<1>2. ASSUME NEW n \in Nat, n \in S PROVE n + 1 \in S
  <2>1. PICK g : Iter(a, g, base, seq, n)
    BY <1>2
  <2> DEFINE h == [s \in SUBSET (1 .. n + 1) |->
                     IF n + 1 \in s THEN Op(a, g[s \ {n + 1}], seq[n + 1]) ELSE g[s]]
  <2>2. \A s \in SUBSET (1 .. n + 1) : n + 1 \notin s => s \in SUBSET (1 .. n) /\ h[s] = g[s]
    OBVIOUS
  <2>3. ASSUME NEW s \in SUBSET (1 .. n + 1)
        PROVE  h[s] = IF s = {} THEN base ELSE Op(a, h[s \ {Largest(s)}], seq[Largest(s)])
    <3>1. CASE n + 1 \in s
      <4>1. Largest(s) = n + 1
        BY <3>1, LargestIn
      <4>2. h[s \ {n + 1}] = g[s \ {n + 1}]
        BY <2>2
      <4>3. h[s] = Op(a, g[s \ {n + 1}], seq[n + 1])
        BY <3>1
      <4> HIDE DEF h
      <4> QED  BY <3>1, <4>1, <4>2, <4>3
    <3>2. CASE n + 1 \notin s
      <4>1. s \in SUBSET (1 .. n) /\ h[s] = g[s]
        BY <2>2, <3>2
      <4>2. g[s] = IF s = {} THEN base ELSE Op(a, g[s \ {Largest(s)}], seq[Largest(s)])
        BY <2>1, <4>1 DEF Iter, Largest
      <4>3. h[s \ {Largest(s)}] = g[s \ {Largest(s)}]
        BY <2>2, <3>2
      <4> HIDE DEF h
      <4> QED  BY <4>1, <4>2, <4>3
    <3> QED  BY <3>1, <3>2
  <2>4. h = [s \in SUBSET (1 .. n + 1) |->
               IF s = {} THEN base ELSE Op(a, h[s \ {Largest(s)}], seq[Largest(s)])]
    <3>1. h = [s \in SUBSET (1 .. n + 1) |-> h[s]]
      OBVIOUS
    <3> HIDE DEF h
    <3> QED  BY <2>3, <3>1
  <2>5. Iter(a, h, base, seq, n + 1)
    <3> HIDE DEF h
    <3> QED  BY <2>4 DEF Iter, Largest
  <2> QED  BY <2>5
<1>3. Nat \subseteq S
  <2> HIDE DEF S
  <2> QED  BY <1>1, <1>2, Induction
<1> QED  BY <1>3

(* A fold of n elements is the last of the values it goes through.         *)
LEMMA FoldGoesThrough ==
  \A a, base, seq : \A n \in Nat :
    \E it : Folding(a, it, base, seq, n) /\ Folded(a, base, seq, n) = it[n]
<1> SUFFICES ASSUME NEW a, NEW base, NEW seq, NEW n \in Nat
             PROVE  \E it : Folding(a, it, base, seq, n) /\ Folded(a, base, seq, n) = it[n]
  OBVIOUS
<1> DEFINE g == CHOOSE h : Iter(a, h, base, seq, n)
           it == [k \in 0 .. n |-> g[1 .. k]]
<1>1. Iter(a, g, base, seq, n)
  BY IterExists
<1>2. Folded(a, base, seq, n) = g[1 .. n]
  BY DEF Folded
<1> HIDE DEF g
<1>3. it[0] = base
  <2>1. 1 .. 0 = {}
    OBVIOUS
  <2> QED  BY <1>1, <2>1 DEF Iter, Largest
<1>4. ASSUME NEW k \in 1 .. n PROVE it[k] = Op(a, it[k - 1], seq[k])
  <2>1. 1 .. k \in SUBSET (1 .. n) /\ 1 .. k # {} /\ k \in 1 .. k
    OBVIOUS
  <2>2. Largest(1 .. k) = k
    BY <2>1 DEF Largest
  <2>3. (1 .. k) \ {k} = 1 .. k - 1
    OBVIOUS
  <2>4. g[1 .. k] = Op(a, g[1 .. k - 1], seq[k])
    BY <1>1, <2>1, <2>2, <2>3 DEF Iter, Largest
  <2>5. it[k] = g[1 .. k] /\ it[k - 1] = g[1 .. k - 1]
    OBVIOUS
  <2> HIDE DEF it
  <2> QED  BY <2>4, <2>5
<1>5. Folding(a, it, base, seq, n)
  <2> HIDE DEF it
  <2> QED  BY <1>3, <1>4 DEF Folding
<1>6. it[n] = g[1 .. n]
  OBVIOUS
<1> HIDE DEF it
<1> QED  BY <1>2, <1>5, <1>6
=============================================================================
