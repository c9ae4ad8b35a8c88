----------------------------- MODULE Recursion -----------------------------
(***************************************************************************)
(* Induction over numbers, and with it that a function may be defined by   *)
(* recursion over the first of them: what the loops of the program that    *)
(* are modelled as recursive functions need to be reasoned about.          *)
(***************************************************************************)
EXTENDS Integers, WellFoundedInduction, TLAPS

\* A set of numbers has a least one.
LEMMA Least ==
  ASSUME NEW T, T \subseteq Nat, T # {}
  PROVE  \E n \in T : \A m \in T : n <= m
<1> DEFINE less == {p \in Nat \X Nat : p[1] < p[2]}
<1>1. IsWellFoundedOn(less, Nat)
  BY NatLessThanWellFounded, Zenon DEF OpToRel
<1>2. PICK n \in T : \A m \in T : <<m, n>> \notin less
  <2> HIDE DEF less
  <2> QED BY <1>1, WFMin
<1>3. ASSUME NEW m \in T PROVE n <= m
  <2>1. n \in Nat /\ m \in Nat /\ <<m, n>> \in Nat \X Nat
    OBVIOUS
  <2>2. ~(m < n)
    BY <1>2, <2>1
  <2> QED BY <2>1, <2>2
<1> QED BY <1>3

\* What holds of 0 and passes from each number to the next holds of all.
LEMMA Induction ==
  ASSUME NEW T, 0 \in T, \A n \in Nat : n \in T => n + 1 \in T
  PROVE  Nat \subseteq T
<1> SUFFICES ASSUME Nat \ T # {} PROVE FALSE
  OBVIOUS
<1>1. PICK n \in Nat \ T : \A m \in Nat \ T : n <= m
  BY Least
<1>2. n # 0 /\ n - 1 \in Nat /\ n - 1 \in T /\ (n - 1) + 1 = n
  BY <1>1
<1> QED BY <1>1, <1>2

\* The same up to a bound.
LEMMA InductionUpTo ==
  ASSUME NEW b \in Nat, NEW T, 0 \in T, \A n \in 1 .. b : n - 1 \in T => n \in T
  PROVE  0 .. b \subseteq T
<1> DEFINE U == {n \in Nat : n \in 0 .. b => n \in T}
<1>1. 0 \in U
  OBVIOUS
<1>2. ASSUME NEW n \in Nat, n \in U PROVE n + 1 \in U
  <2> SUFFICES ASSUME n + 1 \in 0 .. b PROVE n + 1 \in T
    OBVIOUS
  <2>1. n \in T /\ n + 1 \in 1 .. b /\ (n + 1) - 1 = n
    BY <1>2
  <2> QED BY <2>1
<1> HIDE DEF U
<1>3. Nat \subseteq U
  BY <1>1, <1>2, Induction
<1> QED BY <1>3 DEF U

\* What the rounds of a loop may do to a value, and the values that a loop of b
\* such rounds leaves behind each of them when it starts with x.
Bodies(b, X) == [1 .. b -> [X -> X]]
Loops(b, X, x, round) ==
  \E f \in [0 .. b -> X] :
    f[0] = x /\ \A n \in 1 .. b : f[n] = round[n][f[n - 1]]

\* There are such values for every loop.
LEMMA Rounds ==
  ASSUME NEW b \in Nat, NEW X, NEW x \in X, NEW round \in Bodies(b, X)
  PROVE  Loops(b, X, x, round)
<1> USE DEF Bodies, Loops
<1> DEFINE Runs(f, k) ==
      f[0] = x /\ \A n \in 1 .. k : f[n] = round[n][f[n - 1]]
           T == {k \in 0 .. b : \E f \in [0 .. k -> X] : Runs(f, k)}
<1>1. 0 \in T
  <2> DEFINE g == [n \in 0 .. 0 |-> x]
  <2>1. g \in [0 .. 0 -> X] /\ Runs(g, 0) /\ 0 \in 0 .. b
    OBVIOUS
  <2> HIDE DEF Runs, g
  <2> QED BY <2>1
<1>2. ASSUME NEW k \in 1 .. b, k - 1 \in T PROVE k \in T
  <2>1. PICK f \in [0 .. k - 1 -> X] : Runs(f, k - 1)
    BY <1>2
  <2> DEFINE g == [n \in 0 .. k |-> IF n = k THEN round[k][f[k - 1]] ELSE f[n]]
  <2>2. k - 1 \in 0 .. k - 1 /\ f[k - 1] \in X /\ round[k][f[k - 1]] \in X
    OBVIOUS
  <2>3. g \in [0 .. k -> X]
    BY <2>2
  <2>4. g[0] = x
    BY <2>1
  <2>5. ASSUME NEW n \in 1 .. k PROVE g[n] = round[n][g[n - 1]]
    <3>1. n - 1 \in 0 .. k /\ n - 1 # k /\ g[n - 1] = f[n - 1]
      OBVIOUS
    <3>2. CASE n = k
      BY <3>1, <3>2
    <3>3. CASE n # k
      <4>1. n \in 1 .. k - 1 /\ g[n] = f[n]
        BY <3>3
      <4> QED BY <2>1, <3>1, <4>1
    <3> QED BY <3>2, <3>3
  <2> HIDE DEF g
  <2>6. Runs(g, k) /\ k \in 0 .. b
    BY <2>4, <2>5
  <2> HIDE DEF Runs
  <2> QED BY <2>3, <2>6
<1>3. b \in T
  <2> HIDE DEF T
  <2>1. 0 .. b \subseteq T
    BY <1>1, <1>2, InductionUpTo
  <2> QED BY <2>1
<1> QED BY <1>3

=============================================================================
