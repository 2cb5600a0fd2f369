--------------------------- MODULE InductionLemmas ---------------------------
(***************************************************************************)
(* Induction for the proofs about tables and the loops over them: least    *)
(* elements, and what a loop with a fixed number of turns computes.  A     *)
(* property is given as the set of the values that have it.                *)
(***************************************************************************)
EXTENDS Naturals, WellFoundedInduction, TLAPS

(* A non-empty set of natural numbers has a least element.                 *)
LEMMA NatMin ==
  ASSUME NEW T \in SUBSET Nat, T # {}
  PROVE  \E x \in T : \A y \in T : x <= y
<1>1. PICK x \in T : \A y \in T : ~(<<y, x>> \in OpToRel(<, Nat))
  BY NatLessThanWellFounded, WFMin, Zenon
<1>2. \A y \in T : ~(y < x)
  BY <1>1 DEF OpToRel
<1> QED BY <1>2

(* Induction up to L: a set that holds 0 and with each number below L the  *)
(* next one holds all.                                                     *)
LEMMA UpTo ==
  ASSUME NEW L \in Nat, NEW P, 0 \in P,
         \A n \in 1 .. L : n - 1 \in P => n \in P
  PROVE  \A n \in 0 .. L : n \in P
<1> DEFINE T == {n \in 0 .. L : n \notin P}
<1> SUFFICES ASSUME T # {} PROVE FALSE
  OBVIOUS
<1>1. T \in SUBSET Nat
  OBVIOUS
<1>2. PICK x \in T : \A y \in T : x <= y
  BY <1>1, NatMin
<1>3. x \in 0 .. L /\ x \notin P /\ x # 0
  OBVIOUS
<1>4. x \in 1 .. L /\ x - 1 \in 0 .. L /\ x - 1 < x
  BY <1>3
<1>5. x - 1 \notin T
  BY <1>2, <1>4
<1> QED BY <1>3, <1>4, <1>5

(* An invariant of a loop: what each turn preserves holds at every turn.   *)
LEMMA LoopInvariant ==
  ASSUME NEW L \in Nat, NEW S, NEW f,
         f[0] \in S, \A n \in 1 .. L : f[n - 1] \in S => f[n] \in S
  PROVE  \A n \in 0 .. L : f[n] \in S
<1> DEFINE P == {n \in 0 .. L : f[n] \in S}
<1>1. 0 \in P
  OBVIOUS
<1>2. \A n \in 1 .. L : n - 1 \in P => n \in P
  OBVIOUS
<1> HIDE DEF P
<1>3. \A n \in 0 .. L : n \in P
  BY <1>1, <1>2, UpTo
<1> QED BY <1>3 DEF P

(* The turns of a loop of length L over values in S, as a function of the  *)
(* number of the turn and the value before it.                             *)
Turns(L, S) == [(1 .. L) \X S -> S]

(* f lists the values of the loop that starts with t and takes the turns g. *)
LoopOf(L, S, t, g, f) ==
  /\ f \in [0 .. L -> S] /\ f[0] = t
  /\ \A n \in 1 .. L : f[n] = g[<<n, f[n - 1]>>]

(* The values of a loop exist.                                             *)
LEMMA LoopExists ==
  ASSUME NEW L \in Nat, NEW S, NEW t \in S, NEW g \in Turns(L, S)
  PROVE  \E f : LoopOf(L, S, t, g, f)
<1> DEFINE Upto(m, f) == /\ f \in [0 .. m -> S] /\ f[0] = t
                         /\ \A n \in 1 .. m : f[n] = g[<<n, f[n - 1]>>]
           P == {m \in 0 .. L : \E f : Upto(m, f)}
<1>1. 0 \in P
  <2>1. Upto(0, [n \in 0 .. 0 |-> t])
    OBVIOUS
  <2>2. \E f : Upto(0, f)
    BY <2>1
  <2>3. 0 \in 0 .. L
    OBVIOUS
  <2> HIDE DEF Upto
  <2> QED BY <2>2, <2>3
<1>2. ASSUME NEW m \in 1 .. L, m - 1 \in P
      PROVE  m \in P
  <2>1. PICK f : Upto(m - 1, f)
    BY <1>2
  <2> DEFINE h == [n \in 0 .. m |-> IF n = m THEN g[<<m, f[m - 1]>>] ELSE f[n]]
  <2>2. f[m - 1] \in S /\ g[<<m, f[m - 1]>>] \in S
    <3>1. m - 1 \in 0 .. m - 1
      OBVIOUS
    <3>2. f[m - 1] \in S
      BY <2>1, <3>1
    <3>3. <<m, f[m - 1]>> \in (1 .. L) \X S
      BY <3>2
    <3> QED BY <3>2, <3>3 DEF Turns
  <2>3. \A n \in 0 .. m : n # m => n \in 0 .. m - 1
    OBVIOUS
  <2>4. h \in [0 .. m -> S]
    BY <2>1, <2>2, <2>3
  <2>5. h[0] = t
    BY <2>1
  <2>6. \A n \in 1 .. m : h[n] = g[<<n, h[n - 1]>>]
    <3> SUFFICES ASSUME NEW n \in 1 .. m PROVE h[n] = g[<<n, h[n - 1]>>]
      OBVIOUS
    <3>1. n - 1 \in 0 .. m /\ n - 1 # m /\ h[n - 1] = f[n - 1]
      OBVIOUS
    <3>2. CASE n = m
      BY <3>1, <3>2
    <3>3. CASE n # m
      <4>1. n \in 1 .. m - 1 /\ h[n] = f[n]
        BY <3>3
      <4> QED BY <2>1, <3>1, <4>1
    <3> QED BY <3>2, <3>3
  <2> HIDE DEF h
  <2>7. Upto(m, h)
    BY <2>4, <2>5, <2>6
  <2> QED BY <2>7
<1> HIDE DEF P
<1>3. L \in P
  BY <1>1, <1>2, UpTo
<1>4. PICK f : Upto(L, f)
  BY <1>3 DEF P
<1> QED BY <1>4 DEF LoopOf

=============================================================================
