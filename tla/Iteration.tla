----------------------------- MODULE Iteration -----------------------------
(***************************************************************************)
(* Induction over the natural numbers and the existence of functions that  *)
(* are defined by iterating a step.  Both rest on the well-foundedness of  *)
(* strict inclusion among finite sets: a number stands for the numbers up  *)
(* to it.                                                                  *)
(***************************************************************************)
EXTENDS FiniteSetTheorems, WellFoundedInduction, TLAPS

\* A set of natural numbers that is not empty has a least element.
LEMMA LeastNumber ==
    ASSUME NEW T \in SUBSET Nat, T # {}
    PROVE  \E m \in T : \A k \in T : m <= k
<1> DEFINE Below == {0..k : k \in T}
<1>1. Below \subseteq FiniteSubsetsOf(Nat)
    <2> SUFFICES ASSUME NEW k \in T PROVE 0..k \in FiniteSubsetsOf(Nat)
        OBVIOUS
    <2>1. IsFiniteSet(0..k)
        BY FS_Interval
    <2> QED
        BY <2>1 DEF FiniteSubsetsOf
<1>2. Below # {}
    OBVIOUS
<1>3. IsWellFoundedOn(StrictSubsetOrdering(Nat), FiniteSubsetsOf(Nat))
    BY FS_StrictSubsetOrderingWellFounded
<1>4. PICK b \in Below : \A c \in Below : ~(<<c, b>> \in StrictSubsetOrdering(Nat))
    <2> HIDE DEF Below
    <2> QED
        BY <1>1, <1>2, <1>3, WFMin
<1>5. PICK m \in T : b = 0..m
    OBVIOUS
<1>6. ASSUME NEW k \in T, k < m PROVE FALSE
    <2>1. <<0..k, 0..m>> \in StrictSubsetOrdering(Nat)
        BY <1>6 DEF StrictSubsetOrdering
    <2> QED
        BY <1>4, <1>5, <2>1
<1> QED
    BY <1>6

\* Induction: what a set has of zero and of every successor, it has of all numbers.
LEMMA Induction ==
    ASSUME NEW S \in SUBSET Nat, 0 \in S, \A n \in S : n + 1 \in S
    PROVE  S = Nat
<1> SUFFICES ASSUME Nat \ S # {} PROVE FALSE
    OBVIOUS
<1>1. PICK m \in Nat \ S : \A k \in Nat \ S : m <= k
    BY LeastNumber
<1>2. m # 0 /\ m - 1 \in Nat /\ m - 1 \notin Nat \ S
    BY <1>1
<1> QED
    BY <1>1, <1>2

\* g is what L applications of a step make of base.
Iterated(g, Step, base, L) ==
    /\ g[0] = base
    /\ \A n \in 1..L : g[n] = Step[n][g[n - 1]]

\* A step can be iterated any number of times.
LEMMA Iterates ==
    ASSUME NEW T, NEW base \in T, NEW L \in Nat, NEW Step \in [1..L -> [T -> T]]
    PROVE  \E g \in [0..L -> T] : Iterated(g, Step, base, L)
<1> DEFINE Reached == {k \in Nat : k <= L => \E g \in [0..k -> T] : Iterated(g, Step, base, k)}
<1>1. 0 \in Reached
    <2>1. Iterated([n \in 0..0 |-> base], Step, base, 0)
        BY DEF Iterated
    <2> QED
        BY <2>1
<1>2. ASSUME NEW k \in Reached PROVE k + 1 \in Reached
    <2> SUFFICES ASSUME k + 1 <= L
                 PROVE  \E g \in [0..k + 1 -> T] : Iterated(g, Step, base, k + 1)
        OBVIOUS
    <2>1. PICK g \in [0..k -> T] : Iterated(g, Step, base, k)
        OBVIOUS
    <2>2. Step[k + 1][g[k]] \in T
        BY <2>1
    <2> DEFINE h == [n \in 0..k + 1 |-> IF n = k + 1 THEN Step[k + 1][g[k]] ELSE g[n]]
    <2>3. h \in [0..k + 1 -> T] /\ h[0] = base
        BY <2>1, <2>2 DEF Iterated
    <2>4. ASSUME NEW n \in 1..k + 1 PROVE h[n] = Step[n][h[n - 1]]
        <3>1. CASE n = k + 1
            BY <3>1
        <3>2. CASE n \in 1..k
            BY <3>2, <2>1 DEF Iterated
        <3> QED
            BY <3>1, <3>2
    <2> HIDE DEF h
    <2> QED
        BY <2>3, <2>4 DEF Iterated
<1>3. Reached = Nat
    <2>1. Reached \subseteq Nat
        OBVIOUS
    <2> HIDE DEF Reached
    <2> QED
        BY <1>1, <1>2, <2>1, Induction
<1>4. L \in Reached
    BY <1>3
<1> QED
    BY <1>4

=============================================================================
