---------------------------- MODULE InductionFacts ----------------------------
(***************************************************************************)
(* Induction over the naturals, and functions defined by recursion, stated *)
(* for sets and functions rather than for predicates, so that any prover   *)
(* can use them: what a loop of the code leaves, modelled as a recursive   *)
(* function over the passes of the loop, is proved by these.  They rest on *)
(* the inclusion of finite sets being well-founded.                        *)
(***************************************************************************)
EXTENDS Naturals, Integers, FiniteSetTheorems, TLAPS

(* Every non-empty set of naturals has a least element: the intervals 0..n *)
(* of its members are finite sets, ordered by inclusion.                   *)
LEMMA LeastNatural ==
    ASSUME NEW T, T \subseteq Nat, T # {}
    PROVE  \E x \in T : \A y \in T : x <= y
<1> DEFINE F == {0 .. n : n \in T}
<1>1. F \subseteq FiniteSubsetsOf(Nat)
  <2> SUFFICES ASSUME NEW n \in T
               PROVE  0 .. n \in FiniteSubsetsOf(Nat)
    BY DEF FiniteSubsetsOf
  <2>1. IsFiniteSet(0 .. n)
    BY FS_Interval
  <2>2. QED
    BY <2>1 DEF FiniteSubsetsOf
<1>2. F # {}
  OBVIOUS
<1> HIDE DEF F
<1>3. PICK X \in F : \A Y \in F : <<Y, X>> \notin StrictSubsetOrdering(Nat)
  BY <1>1, <1>2, FS_StrictSubsetOrderingWellFounded, WFMin
<1>4. PICK x \in T : X = 0 .. x
  BY DEF F
<1>5. ASSUME NEW y \in T, y < x
      PROVE  FALSE
  <2>1. /\ 0 .. y \in F
        /\ 0 .. y \in SUBSET Nat
        /\ X \in SUBSET Nat
    BY <1>4 DEF F
  <2>2. 0 .. y \subseteq X /\ 0 .. y # X
    BY <1>4, <1>5
  <2>3. <<0 .. y, X>> \in StrictSubsetOrdering(Nat)
    BY <2>1, <2>2 DEF StrictSubsetOrdering
  <2>4. QED
    BY <1>3, <2>1, <2>3
<1>6. QED
  BY <1>5

(* Induction over the passes of a loop. *)
LEMMA IntervalInduction ==
    ASSUME NEW N \in Nat, NEW S, 0 \in S, \A n \in 1 .. N : n - 1 \in S => n \in S
    PROVE  \A n \in 0 .. N : n \in S
<1> DEFINE Rest == {n \in 0 .. N : n \notin S}
<1>1. SUFFICES ASSUME Rest # {}
               PROVE  FALSE
  OBVIOUS
<1>2. PICK n \in Rest : \A k \in Rest : n <= k
  <2>1. Rest \subseteq Nat
    OBVIOUS
  <2> HIDE DEF Rest
  <2>2. QED
    BY <1>1, <2>1, LeastNatural
<1>3. n # 0 /\ n \in 1 .. N
  OBVIOUS
<1>4. n - 1 \notin Rest
  BY <1>2, <1>3
<1>5. QED
  BY <1>3, <1>4

(* What a loop of N passes leaves after each pass is a function. *)
Loop(f, base, step, N) ==
    f[0] = base /\ \A n \in 1 .. N : f[n] = step[n][f[n - 1]]

LEMMA LoopIsFunction ==
    ASSUME NEW V, NEW base \in V, NEW N \in Nat, NEW step \in [1 .. N -> [V -> V]]
    PROVE  \E f \in [0 .. N -> V] : Loop(f, base, step, N)
<1> DEFINE Good == {n \in 0 .. N : \E f \in [0 .. n -> V] : Loop(f, base, step, n)}
<1>1. 0 \in Good
  <2>1. [i \in 0 .. 0 |-> base] \in [0 .. 0 -> V]
    OBVIOUS
  <2>2. Loop([i \in 0 .. 0 |-> base], base, step, 0)
    BY DEF Loop
  <2>3. QED
    BY <2>1, <2>2
<1>2. ASSUME NEW n \in 1 .. N, n - 1 \in Good
      PROVE  n \in Good
  <2>1. PICK f \in [0 .. n - 1 -> V] : Loop(f, base, step, n - 1)
    BY <1>2
  <2> DEFINE g == [i \in 0 .. n |-> IF i = n THEN step[n][f[n - 1]] ELSE f[i]]
  <2>2. f[n - 1] \in V
    OBVIOUS
  <2>3. step[n][f[n - 1]] \in V
    BY <2>2
  <2>4. g \in [0 .. n -> V]
    BY <2>3
  <2>5. Loop(g, base, step, n)
    <3>1. g[0] = base
      BY <2>1 DEF Loop
    <3>2. \A i \in 1 .. n - 1 : g[i] = f[i] /\ g[i - 1] = f[i - 1]
      OBVIOUS
    <3>3. g[n] = step[n][g[n - 1]]
      OBVIOUS
    <3>4. QED
      BY <2>1, <3>1, <3>2, <3>3 DEF Loop
  <2>6. QED
    BY <2>4, <2>5
<1>3. \A n \in 0 .. N : n \in Good
  <2> HIDE DEF Good
  <2> QED
    BY <1>1, <1>2, IntervalInduction
<1>4. QED
  BY <1>3
=============================================================================
