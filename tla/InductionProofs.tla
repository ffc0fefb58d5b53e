---------------------------- MODULE InductionProofs ----------------------------
(***************************************************************************)
(* Induction over the natural numbers, as a fact about sets: what holds    *)
(* for every number is the set of the numbers for which it holds.  The     *)
(* proofs about functions that the models define by recursion use it, and  *)
(* that the functions so defined exist.                                    *)
(***************************************************************************)
EXTENDS Naturals, WellFoundedInduction, TLAPS

\* Less-than leaves no set of natural numbers without a least one.
LEMMA NatWellFounded == IsWellFoundedOn({ss \in Nat \X Nat : ss[1] < ss[2]}, Nat)
BY NatLessThanWellFounded DEF OpToRel

\* A set with 0 and the successors of its elements holds every natural number.
LEMMA SetInduction ==
    ASSUME NEW S, 0 \in S, \A n \in Nat : n \in S => n + 1 \in S
    PROVE  Nat \subseteq S
<1> DEFINE R == {ss \in Nat \X Nat : ss[1] < ss[2]}
           T == Nat \ S
<1>1. SUFFICES ASSUME T # {} PROVE FALSE
  OBVIOUS
<1>2. IsWellFoundedOn(R, Nat)
  BY NatWellFounded
<1>3. T \subseteq Nat
  OBVIOUS
<1>4. PICK x \in T : \A y \in T : <<y, x>> \notin R
  <2> HIDE DEF R
  <2>. QED  BY <1>1, <1>2, <1>3, WFMin
<1>5. x \in Nat /\ x # 0 /\ x - 1 \in Nat
  OBVIOUS
<1>6. <<x - 1, x>> \in R
  BY <1>5
<1>7. x - 1 \in S
  BY <1>4, <1>5, <1>6
<1>8. (x - 1) + 1 = x
  BY <1>5
<1>. QED  BY <1>5, <1>7, <1>8

\* A recursion over the numbers up to n, whose steps stay in a set of states, is
\* the recursion of a function.
Recursion(f, n, States, first, step) ==
    /\ f \in [0..n -> States]
    /\ f[0] = first /\ \A i \in 1..n : f[i] = step[i][f[i - 1]]

\* There is such a function.
LEMMA RecursionDefines ==
    ASSUME NEW n \in Nat, NEW States, NEW first \in States,
           NEW step \in [1..n -> [States -> States]]
    PROVE  \E f : Recursion(f, n, States, first, step)
<1> DEFINE Upto(f, k) == f[0] = first /\ \A i \in 1..k : f[i] = step[i][f[i - 1]]
           S == {k \in Nat : k <= n => \E f \in [0..k -> States] : Upto(f, k)}
<1>1. 0 \in S
  <2>1. [i \in 0..0 |-> first] \in [0..0 -> States] /\ Upto([i \in 0..0 |-> first], 0)
    OBVIOUS
  <2>. QED  BY <2>1
<1>2. ASSUME NEW k \in Nat, k \in S PROVE k + 1 \in S
  <2>1. SUFFICES ASSUME k + 1 <= n PROVE \E f \in [0..(k + 1) -> States] : Upto(f, k + 1)
    OBVIOUS
  <2>2. PICK f \in [0..k -> States] : Upto(f, k)
    BY <1>2, <2>1
  <2> DEFINE next == step[k + 1][f[k]]
             g    == [i \in 0..(k + 1) |-> IF i <= k THEN f[i] ELSE next]
  <2>3. next \in States
    <3>1. k + 1 \in 1..n /\ k \in 0..k
      BY <2>1
    <3>2. step[k + 1] \in [States -> States] /\ f[k] \in States
      BY <3>1
    <3>. QED  BY <3>2
  <2>4. g \in [0..(k + 1) -> States]
    <3> HIDE DEF next
    <3>. QED  BY <2>3
  <2>5. ASSUME NEW i \in 1..(k + 1) PROVE g[i] = step[i][g[i - 1]]
    <3>1. i - 1 \in 0..(k + 1) /\ i - 1 <= k /\ g[i - 1] = f[i - 1]
      OBVIOUS
    <3>2. CASE i <= k
      <4>1. i \in 1..k /\ g[i] = f[i]
        BY <3>2
      <4>. QED  BY <2>2, <3>1, <4>1
    <3>3. CASE i = k + 1
      <4>1. g[i] = next /\ i - 1 = k
        BY <3>3
      <4>. QED  BY <3>1, <3>3, <4>1
    <3>. QED  BY <3>2, <3>3
  <2>6. g[0] = first
    BY <2>2
  <2> HIDE DEF g
  <2>. QED  BY <2>4, <2>5, <2>6
<1>3. n \in S
  <2> HIDE DEF S
  <2>1. Nat \subseteq S
    BY <1>1, <1>2, SetInduction
  <2>. QED  BY <2>1
<1>4. PICK f \in [0..n -> States] : Upto(f, n)
  BY <1>3
<1>5. Recursion(f, n, States, first, step)
  BY <1>4 DEF Recursion
<1>. QED  BY <1>5
=============================================================================
