-------------------------- MODULE RecursionProofs --------------------------
(***************************************************************************)
(* Induction over the naturals and the existence of recursively defined    *)
(* functions, stated for sets and functions instead of operators, so that  *)
(* a proof can cite them for what the models' loops over data compute.     *)
(***************************************************************************)
EXTENDS Integers, WellFoundedInduction, TLAPS

\* What holds of 0 and passes from n to n + 1 holds of every natural number.
LEMMA SetInduction ==
    ASSUME NEW S, 0 \in S, \A n \in Nat : n \in S => n + 1 \in S
    PROVE  Nat \subseteq S
<1> DEFINE T == Nat \ S
<1> SUFFICES ASSUME T # {} PROVE FALSE
  OBVIOUS
<1>1. PICK x \in T : \A y \in T : ~(<<y, x>> \in OpToRel(<, Nat))
  <2>1. T \subseteq Nat
    OBVIOUS
  <2> HIDE DEF T
  <2> QED BY <2>1, NatLessThanWellFounded, WFMin
<1>2. x - 1 \in T /\ x - 1 < x
  <2>1. x \in Nat /\ x # 0 /\ x \notin S
    OBVIOUS
  <2>2. x - 1 \in Nat /\ (x - 1) + 1 = x
    BY <2>1
  <2> QED BY <2>1, <2>2
<1>3. <<x - 1, x>> \in OpToRel(<, Nat)
  BY <1>1, <1>2 DEF OpToRel
<1> QED BY <1>1, <1>2, <1>3

\* The same for the numbers up to a bound.
LEMMA BoundedSetInduction ==
    ASSUME NEW N \in Nat, NEW S, 0 \in S, \A n \in 1..N : n - 1 \in S => n \in S
    PROVE  0..N \subseteq S
<1> DEFINE T == {n \in Nat : n <= N => n \in S}
<1>1. 0 \in T
  OBVIOUS
<1>2. \A n \in Nat : n \in T => n + 1 \in T
  <2> SUFFICES ASSUME NEW n \in Nat, n <= N => n \in S, n + 1 <= N PROVE n + 1 \in S
    OBVIOUS
  <2>1. n + 1 \in 1..N /\ (n + 1) - 1 = n
    OBVIOUS
  <2> QED BY <2>1
<1>3. Nat \subseteq T
  <2> HIDE DEF T
  <2> QED BY <1>1, <1>2, SetInduction
<1> QED BY <1>3

-----------------------------------------------------------------------------
\* The first n + 1 values of the sequence that step computes from base.
Unfoldings(n, T, base, step) ==
    {g \in [0..n -> T] : g[0] = base /\ \A i \in 1..n : g[i] = step[i][g[i - 1]]}

\* Unfoldings agree where they are both defined.
LEMMA UnfoldingsAgree ==
    ASSUME NEW T, NEW base, NEW step, NEW m \in Nat, NEW n \in Nat, m <= n,
           NEW g \in Unfoldings(m, T, base, step), NEW h \in Unfoldings(n, T, base, step)
    PROVE  \A i \in 0..m : g[i] = h[i]
<1> DEFINE S == {i \in 0..m : g[i] = h[i]}
<1>1. 0 \in S
  BY DEF Unfoldings
<1>2. \A i \in 1..m : i - 1 \in S => i \in S
  BY DEF Unfoldings
<1>3. 0..m \subseteq S
  <2> HIDE DEF S
  <2> QED BY <1>1, <1>2, BoundedSetInduction
<1> QED BY <1>3

\* There is one of every length.
LEMMA UnfoldingsExist ==
    ASSUME NEW T, NEW base \in T, NEW step \in [Nat -> [T -> T]]
    PROVE  \A n \in Nat : Unfoldings(n, T, base, step) # {}
<1> DEFINE S == {n \in Nat : Unfoldings(n, T, base, step) # {}}
<1>1. 0 \in S
  <2>1. [i \in 0..0 |-> base] \in Unfoldings(0, T, base, step)
    BY DEF Unfoldings
  <2> QED BY <2>1
<1>2. ASSUME NEW n \in Nat, n \in S PROVE n + 1 \in S
  <2>1. PICK g \in Unfoldings(n, T, base, step) : TRUE
    BY <1>2
  <2> DEFINE h == [i \in 0..(n + 1) |-> IF i = n + 1 THEN step[n + 1][g[n]] ELSE g[i]]
  <2>2. g \in [0..n -> T] /\ g[n] \in T /\ step[n + 1] \in [T -> T]
    BY <2>1 DEF Unfoldings
  <2>3. h \in [0..(n + 1) -> T]
    BY <2>2
  <2>4. h[0] = base
    BY <2>1 DEF Unfoldings
  <2>5. ASSUME NEW i \in 1..(n + 1) PROVE h[i] = step[i][h[i - 1]]
    <3>1. CASE i = n + 1
      BY <3>1
    <3>2. CASE i # n + 1
      <4>1. i \in 1..n /\ i - 1 \in 0..n
        BY <3>2
      <4>2. h[i] = g[i] /\ h[i - 1] = g[i - 1]
        BY <4>1
      <4> HIDE DEF h
      <4> QED BY <2>1, <4>1, <4>2 DEF Unfoldings
    <3> QED BY <3>1, <3>2
  <2>6. h \in Unfoldings(n + 1, T, base, step)
    <3> HIDE DEF h
    <3> QED BY <2>3, <2>4, <2>5 DEF Unfoldings
  <2> QED BY <2>6
<1>3. Nat \subseteq S
  <2> HIDE DEF S
  <2> QED BY <1>1, <1>2, SetInduction
<1> QED BY <1>3

\* What a recursive definition f[0] = base, f[n] = step[n][f[n - 1]] needs to
\* define a function: one that satisfies it.
THEOREM RecursionIsDefined ==
    ASSUME NEW T, NEW base \in T, NEW step \in [Nat -> [T -> T]]
    PROVE  \E f \in [Nat -> T] :
              f[0] = base /\ \A n \in Nat : n > 0 => f[n] = step[n][f[n - 1]]
<1> DEFINE U(n) == Unfoldings(n, T, base, step)
           u == [n \in Nat |-> CHOOSE g \in U(n) : TRUE]
           f == [n \in Nat |-> u[n][n]]
<1>1. ASSUME NEW n \in Nat PROVE u[n] \in U(n)
  BY UnfoldingsExist
<1>2. f \in [Nat -> T]
  <2> HIDE DEF u
  <2>1. ASSUME NEW n \in Nat PROVE u[n][n] \in T
    <3>1. u[n] \in [0..n -> T] /\ n \in 0..n
      BY <1>1 DEF Unfoldings
    <3> QED BY <3>1
  <2> QED BY <2>1
<1>3. f[0] = base
  <2>1. u[0][0] = base
    BY <1>1 DEF Unfoldings
  <2> HIDE DEF u
  <2> QED BY <2>1
<1>4. ASSUME NEW n \in Nat, n > 0 PROVE f[n] = step[n][f[n - 1]]
  <2>1. n - 1 \in Nat /\ n - 1 <= n /\ n - 1 \in 0..(n - 1) /\ n \in 1..n
    BY <1>4
  <2>2. u[n] \in U(n) /\ u[n - 1] \in U(n - 1)
    BY <1>1, <2>1
  <2> HIDE DEF u
  <2>3. u[n - 1][n - 1] = u[n][n - 1]
    BY <2>1, <2>2, UnfoldingsAgree
  <2>4. u[n][n] = step[n][u[n][n - 1]]
    BY <2>1, <2>2 DEF Unfoldings
  <2> QED BY <2>1, <2>3, <2>4
<1> HIDE DEF f
<1> QED BY <1>2, <1>3, <1>4

\* The same with names for the two sets, which provers match more easily.
Steps(T) == [Nat -> [T -> T]]

Recursive(T, base, step) ==
    {f \in [Nat -> T] : f[0] = base /\ \A n \in Nat : n > 0 => f[n] = step[n][f[n - 1]]}

\* Such functions exist.
LEMMA RecursiveExists ==
    ASSUME NEW T, NEW base \in T, NEW step \in Steps(T)
    PROVE  Recursive(T, base, step) # {}
BY RecursionIsDefined DEF Steps, Recursive
=============================================================================
