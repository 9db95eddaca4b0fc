----------------------------- MODULE FoldProofs -----------------------------
(***************************************************************************)
(* What FoldLeft computes, for every step Op and every sequence, and        *)
(* induction over sequences.  A module that proves something of a fold      *)
(* takes an instance of this one with the fold's step as Op: the facts      *)
(* below are then facts about its own definitions.                          *)
(***************************************************************************)
EXTENDS Integers, Sequences, SequencesExt, SequenceTheorems, WellFoundedInduction, TLAPS

CONSTANTS
  Op(_, _),  \* the step: what was computed so far, and the next element
  Base       \* what the empty sequence gives

-----------------------------------------------------------------------------
(* Induction over numbers: a set that holds 0, and n + 1 with every n, holds *)
(* every number, because the least one outside has a predecessor inside.    *)
LEMMA NumberInduction ==
  ASSUME NEW S, 0 \in S, \A n \in Nat : n \in S => n + 1 \in S
  PROVE  \A n \in Nat : n \in S
<1> DEFINE Outside == Nat \ S
           Less == {ss \in Nat \X Nat : ss[1] < ss[2]}
<1> SUFFICES ASSUME Outside # {}
             PROVE  FALSE
  OBVIOUS
<1>1. IsWellFoundedOn(Less, Nat)
  BY NatLessThanWellFounded DEF OpToRel
<1>2. PICK x \in Outside : \A y \in Outside : ~ (<< y, x >> \in Less)
  <2> HIDE DEF Less
  <2> QED
    BY <1>1, WFMin, Outside \subseteq Nat
<1>3. \A y \in Nat : y \notin S => ~ (y < x)
  BY <1>2
<1>4. x - 1 \in Nat /\ x - 1 \notin S
  BY <1>2
<1> QED
  BY <1>3, <1>4

(* Induction over sequences: a set that holds the empty sequence, and with  *)
(* every sequence the ones that have an element more, holds all of them.    *)
LEMMA SequenceInduction ==
  ASSUME NEW E, NEW S, << >> \in S,
         \A s \in Seq(E), x \in E : s \in S => Append(s, x) \in S
  PROVE  \A s \in Seq(E) : s \in S
<1> DEFINE Numbers == {n \in Nat : \A s \in Seq(E) : Len(s) = n => s \in S}
<1>1. 0 \in Numbers
  OBVIOUS
<1>2. ASSUME NEW n \in Nat, n \in Numbers
      PROVE  n + 1 \in Numbers
  <2> SUFFICES ASSUME NEW s \in Seq(E), Len(s) = n + 1
               PROVE  s \in S
    OBVIOUS
  <2>1. PICK f \in Seq(E), x \in E : s = Append(f, x)
    BY SequenceEmptyOrAppend
  <2>2. Len(f) = n
    BY <2>1
  <2> QED
    BY <1>2, <2>1, <2>2
<1>3. \A n \in Nat : n \in Numbers
  <2> HIDE DEF Numbers
  <2> QED
    BY <1>1, <1>2, NumberInduction
<1> QED
  BY <1>3

-----------------------------------------------------------------------------
(* FoldLeft is defined by a recursive function on the sets of positions: it *)
(* takes the largest position away, folds the rest, and applies the step.   *)
Recursion(seq, n, f) ==
  f = [p \in SUBSET (1..n) |->
         IF p = {} THEN Base ELSE Op(f[p \ {Max(p)}], seq[Max(p)])]

(* The largest position of a set that holds the last one.                   *)
LEMMA LargestPosition ==
  ASSUME NEW n \in Nat, NEW p \in SUBSET (1..(n + 1)), n + 1 \in p
  PROVE  Max(p) = n + 1
<1>1. n + 1 \in p /\ \A y \in p : n + 1 >= y
  OBVIOUS
<1>2. \A x \in p : (\A y \in p : x >= y) => x = n + 1
  OBVIOUS
<1> QED
  BY <1>1, <1>2 DEF Max

(* A set of positions without the last one is one of the others.            *)
LEMMA EarlierPositions ==
  ASSUME NEW n \in Nat, NEW p \in SUBSET (1..(n + 1))
  PROVE  /\ n + 1 \notin p => p \in SUBSET (1..n)
         /\ p \ {n + 1} \in SUBSET (1..n)
OBVIOUS

(* A non-empty set of positions has a largest one.                          *)
LEMMA LargestExists ==
  ASSUME NEW n \in Nat
  PROVE  \A p \in SUBSET (1..n) : p # {} => Max(p) \in p
<1> DEFINE Numbers == {m \in Nat : \A p \in SUBSET (1..m) : p # {} => Max(p) \in p}
<1>1. 0 \in Numbers
  BY 1..0 = {}
<1>2. ASSUME NEW m \in Nat, m \in Numbers
      PROVE  m + 1 \in Numbers
  <2> SUFFICES ASSUME NEW p \in SUBSET (1..(m + 1)), p # {}
               PROVE  Max(p) \in p
    OBVIOUS
  <2>1. CASE m + 1 \in p
    BY <2>1, LargestPosition
  <2>2. CASE m + 1 \notin p
    BY <1>2, <2>2, EarlierPositions
  <2> QED
    BY <2>1, <2>2
<1>3. \A m \in Nat : m \in Numbers
  <2> HIDE DEF Numbers
  <2> QED
    BY <1>1, <1>2, NumberInduction
<1> QED
  BY <1>3

(* There is such a function.                                                *)
LEMMA RecursionExists ==
  ASSUME NEW seq
  PROVE  \A n \in Nat : \E f : Recursion(seq, n, f)
<1> DEFINE Numbers == {n \in Nat : \E f : Recursion(seq, n, f)}
<1>1. 0 \in Numbers
  <2>1. Recursion(seq, 0, [p \in SUBSET (1..0) |-> Base])
    BY SUBSET (1..0) = {{}} DEF Recursion
  <2> QED
    BY <2>1
<1>2. ASSUME NEW n \in Nat, n \in Numbers
      PROVE  n + 1 \in Numbers
  <2>1. PICK f : Recursion(seq, n, f)
    BY <1>2
  <2> DEFINE g == [p \in SUBSET (1..(n + 1)) |->
                     IF n + 1 \in p THEN Op(f[p \ {n + 1}], seq[n + 1]) ELSE f[p]]
  <2>2. \A p \in SUBSET (1..n) : g[p] = f[p]
    <3> TAKE p \in SUBSET (1..n)
    <3>1. n + 1 \notin p /\ p \in SUBSET (1..(n + 1))
      OBVIOUS
    <3> QED
      BY <3>1
  <2>3. ASSUME NEW p \in SUBSET (1..(n + 1))
        PROVE  g[p] = IF p = {} THEN Base ELSE Op(g[p \ {Max(p)}], seq[Max(p)])
    <3>1. CASE n + 1 \in p
      <4>1. Max(p) = n + 1 /\ p \ {n + 1} \in SUBSET (1..n) /\ p # {}
        BY <3>1, LargestPosition, EarlierPositions
      <4>2. g[p \ {n + 1}] = f[p \ {n + 1}]
        BY <2>2, <4>1
      <4>3. g[p] = Op(f[p \ {n + 1}], seq[n + 1])
        BY <3>1
      <4> QED
        BY <4>1, <4>2, <4>3
    <3>2. CASE n + 1 \notin p
      <4>1. p \in SUBSET (1..n) /\ p \ {Max(p)} \in SUBSET (1..n)
        BY <3>2, EarlierPositions
      <4>2. f[p] = IF p = {} THEN Base ELSE Op(f[p \ {Max(p)}], seq[Max(p)])
        BY <2>1, <4>1 DEF Recursion
      <4> HIDE DEF g
      <4> QED
        BY <2>2, <4>1, <4>2
    <3> QED
      BY <3>1, <3>2
  <2>4. Recursion(seq, n + 1, g)
    BY <2>3 DEF Recursion
  <2> QED
    BY <2>4
<1> HIDE DEF Numbers
<1>3. \A n \in Nat : n \in Numbers
  BY <1>1, <1>2, NumberInduction
<1> QED
  BY <1>3 DEF Numbers

(* There is only one, and what it gives for the first positions depends on  *)
(* the first elements alone.                                                *)
LEMMA RecursionIsUnique ==
  ASSUME NEW s, NEW t, NEW n \in Nat, NEW m \in Nat, NEW f, NEW g,
         Recursion(s, n, f), Recursion(t, m, g)
  PROVE  \A k \in Nat :
           k <= n /\ k <= m /\ (\A i \in 1..k : s[i] = t[i]) => f[1..k] = g[1..k]
<1> DEFINE Same(k) == \A i \in 1..k : s[i] = t[i]
           Numbers == {k \in Nat : k <= n /\ k <= m /\ Same(k) =>
                                      \A p \in SUBSET (1..k) : f[p] = g[p]}
<1>1. 0 \in Numbers
  <2>1. f[{}] = Base /\ g[{}] = Base
    <3>1. {} \in SUBSET (1..n) /\ {} \in SUBSET (1..m)
      OBVIOUS
    <3> QED
      BY <3>1 DEF Recursion
  <2>2. SUBSET (1..0) = {{}}
    OBVIOUS
  <2> QED
    BY <2>1, <2>2
<1>2. ASSUME NEW k \in Nat, k \in Numbers
      PROVE  k + 1 \in Numbers
  <2> SUFFICES ASSUME k + 1 <= n, k + 1 <= m, Same(k + 1),
                      NEW p \in SUBSET (1..(k + 1))
               PROVE  f[p] = g[p]
    OBVIOUS
  <2>1. \A q \in SUBSET (1..k) : f[q] = g[q]
    BY <1>2
  <2>2. CASE k + 1 \in p
    <3>1. Max(p) = k + 1 /\ p \ {k + 1} \in SUBSET (1..k) /\ p # {}
      BY <2>2, LargestPosition, EarlierPositions
    <3>2. p \in SUBSET (1..n) /\ p \in SUBSET (1..m)
      OBVIOUS
    <3>3. f[p] = Op(f[p \ {k + 1}], s[k + 1])
      BY <3>1, <3>2 DEF Recursion
    <3>4. g[p] = Op(g[p \ {k + 1}], t[k + 1])
      BY <3>1, <3>2 DEF Recursion
    <3>5. s[k + 1] = t[k + 1]
      OBVIOUS
    <3> QED
      BY <2>1, <3>1, <3>3, <3>4, <3>5
  <2>3. CASE k + 1 \notin p
    BY <2>1, <2>3, EarlierPositions
  <2> QED
    BY <2>2, <2>3
<1>3. \A k \in Nat : k \in Numbers
  <2> HIDE DEF Numbers
  <2> QED
    BY <1>1, <1>2, NumberInduction
<1>4. \A k \in Nat : (1..k) \in SUBSET (1..k)
  OBVIOUS
<1> QED
  BY <1>3, <1>4

(* The fold this module is about.                                           *)
Folded(s) == FoldLeft(Op, Base, s)

(* FoldLeft is the value of that function for all positions.                *)
LEMMA FoldIsRecursion ==
  ASSUME NEW seq, NEW n \in Nat, DOMAIN seq = 1..n
  PROVE  \E f : Recursion(seq, n, f) /\ Folded(seq) = f[1..n]
<1> DEFINE f == CHOOSE g : Recursion(seq, n, g)
<1>1. Recursion(seq, n, f)
  BY RecursionExists
<1>2. Folded(seq) = f[1..n]
  BY DEF Folded, FoldLeft, MapThenFoldSet, Recursion
<1> QED
  BY <1>1, <1>2

-----------------------------------------------------------------------------
(* The two equations of a left fold.                                        *)
LEMMA FoldOfNone == Folded(<< >>) = Base
<1>1. PICK f : Recursion(<< >>, 0, f) /\ Folded(<< >>) = f[1..0]
  BY FoldIsRecursion, DOMAIN << >> = 1..0
<1>2. 1..0 = {} /\ {} \in SUBSET (1..0)
  OBVIOUS
<1> QED
  BY <1>1, <1>2 DEF Recursion

(* An element more is one step more.                                        *)
LEMMA FoldOfAppend ==
  ASSUME NEW E, NEW s \in Seq(E), NEW x
  PROVE  Folded(Append(s, x)) = Op(Folded(s), x)
<1> DEFINE n == Len(s)
           t == Append(s, x)
<1>1. /\ n \in Nat /\ DOMAIN s = 1..n /\ DOMAIN t = 1..(n + 1)
      /\ t[n + 1] = x /\ \A i \in 1..n : s[i] = t[i]
  <2>1. s \in Seq(E \cup {x})
    OBVIOUS
  <2> QED
    BY <2>1, AppendProperties, LenProperties
<1> HIDE DEF n, t
<1>2. PICK f : Recursion(s, n, f) /\ Folded(s) = f[1..n]
  BY <1>1, FoldIsRecursion
<1>3. PICK g : Recursion(t, n + 1, g) /\ Folded(t) = g[1..(n + 1)]
  BY <1>1, FoldIsRecursion
<1>4. f[1..n] = g[1..n]
  BY <1>1, <1>2, <1>3, RecursionIsUnique
<1>5. g[1..(n + 1)] = Op(g[1..n], t[n + 1])
  <2> DEFINE p == 1..(n + 1)
  <2>1. p \in SUBSET (1..(n + 1)) /\ n + 1 \in p /\ p # {} /\ p \ {n + 1} = 1..n
    <3>1. n \in Nat
      BY <1>1
    <3> QED
      BY <3>1
  <2>2. Max(p) = n + 1
    <3> HIDE DEF p
    <3> QED
      BY <1>1, <2>1, LargestPosition
  <2>3. g[p] = Op(g[p \ {n + 1}], t[n + 1])
    <3> HIDE DEF p
    <3> QED
      BY <1>3, <2>1, <2>2 DEF Recursion
  <2> QED
    BY <2>1, <2>3
<1> QED
  BY <1>1, <1>2, <1>3, <1>4, <1>5 DEF t

(* What the step keeps, the fold keeps.                                     *)
LEMMA FoldKeeps ==
  ASSUME NEW E, NEW T, Base \in T, \A a \in T, x \in E : Op(a, x) \in T
  PROVE  \A s \in Seq(E) : Folded(s) \in T
<1> DEFINE Kept == {s \in Seq(E) : Folded(s) \in T}
<1>1. << >> \in Kept
  BY FoldOfNone
<1>2. ASSUME NEW s \in Seq(E), NEW x \in E, s \in Kept
      PROVE  Append(s, x) \in Kept
  <2>1. Folded(Append(s, x)) = Op(Folded(s), x)
    BY FoldOfAppend
  <2> QED
    BY <1>2, <2>1
<1>3. \A s \in Seq(E) : s \in Kept
  <2> HIDE DEF Kept
  <2> QED
    BY <1>1, <1>2, SequenceInduction
<1> QED
  BY <1>3
=============================================================================
