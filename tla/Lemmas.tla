-------------------------------- MODULE Lemmas --------------------------------
(***************************************************************************)
(* What several of the proofs rest on: induction over the natural numbers, *)
(* definitions by recursion over 0..N, and unsigned subtraction.           *)
(*                                                                         *)
(* The library's induction theorems take the formula to be proved as an    *)
(* operator.  Here it is the set of the numbers it is true of, and a       *)
(* recursive definition a function of the previous value.                  *)
(***************************************************************************)
EXTENDS Counters, Integers, TLAPS, WellFoundedInduction

-----------------------------------------------------------------------------
(* Induction and recursion.                                                *)

\* A set with 0 that holds with a number the next one holds all of them: there
\* would be a least one missing.
LEMMA SetInduction ==
    ASSUME NEW S, 0 \in S, \A n \in Nat : n \in S => n + 1 \in S
    PROVE  Nat \subseteq S
<1> DEFINE Missing == Nat \ S
<1> DEFINE Below == OpToRel(<, Nat)
<1> SUFFICES ASSUME Missing # {} PROVE FALSE
    OBVIOUS
<1>1. IsWellFoundedOn(Below, Nat) /\ Missing \subseteq Nat
    BY NatLessThanWellFounded
<1>2. \A a, b \in Nat : a < b => <<a, b>> \in Below
    BY DEF OpToRel
<1> HIDE DEF Below, Missing
<1>3. PICK least \in Missing : \A m \in Missing : ~(<<m, least>> \in Below)
    BY <1>1, WFMin
<1>4. least \in Nat /\ least \notin S
    BY <1>3 DEF Missing
<1>5. least - 1 \in Nat /\ least - 1 < least /\ (least - 1) + 1 = least
    BY <1>4
<1>6. <<least - 1, least>> \in Below
    BY <1>2, <1>4, <1>5
<1>7. least - 1 \in S
    BY <1>3, <1>5, <1>6 DEF Missing
<1> QED
    BY <1>4, <1>5, <1>7

\* The n-th step leads from one value in X to the next.
Steps(N, X) == [1..N -> [X -> X]]

\* f is what the steps make of the first value.
IsRecursion(f, N, X, first, step) ==
    f \in [0..N -> X] /\ f[0] = first /\ \A n \in 1..N : f[n] = step[n][f[n - 1]]

\* A first value and a step to each next one define a function on 0..N.
LEMMA BoundedRecursion ==
    ASSUME NEW N \in Nat, NEW X, NEW first \in X, NEW step \in Steps(N, X)
    PROVE  \E f : IsRecursion(f, N, X, first, step)
<1> USE DEF Steps
<1> DEFINE Defined(m, f) ==
        f \in [0..m -> X] /\ f[0] = first /\ \A n \in 1..m : f[n] = step[n][f[n - 1]]
<1> DEFINE S == {m \in Nat : m <= N => \E f : Defined(m, f)}
<1>1. 0 \in S
  <2>1. Defined(0, [n \in 0..0 |-> first])
      OBVIOUS
  <2> QED
      BY <2>1
<1>2. ASSUME NEW m \in Nat, m \in S PROVE m + 1 \in S
  <2> SUFFICES ASSUME m + 1 <= N PROVE \E f : Defined(m + 1, f)
      OBVIOUS
  <2>1. PICK f : Defined(m, f)
      BY <1>2
  <2> DEFINE g == [n \in 0..(m + 1) |-> IF n = m + 1 THEN step[m + 1][f[m]] ELSE f[n]]
  <2>2. step[m + 1][f[m]] \in X
      BY <2>1
  <2>3. g \in [0..(m + 1) -> X] /\ g[0] = first
      BY <2>1, <2>2
  <2>4. ASSUME NEW n \in 1..(m + 1) PROVE g[n] = step[n][g[n - 1]]
    <3>1. CASE n = m + 1
        BY <3>1
    <3>2. CASE n \in 1..m
        BY <2>1, <3>2
    <3> QED
        BY <3>1, <3>2
  <2>5. Defined(m + 1, g)
      BY <2>3, <2>4
  <2> QED
      BY <2>5
<1>3. Nat \subseteq S
  <2> HIDE DEF S
  <2> QED
      BY <1>1, <1>2, SetInduction
<1>4. PICK f : Defined(N, f)
    BY <1>3
<1> QED
    BY <1>4 DEF IsRecursion

\* h takes all the steps that f and then g take.
Joined(f, g, h, N, M, X, first, head, tail, both) ==
    /\ N \in Nat /\ M \in Nat /\ first \in X
    /\ head \in Steps(N, X) /\ tail \in Steps(M, X) /\ both \in Steps(N + M, X)
    /\ IsRecursion(f, N, X, first, head) /\ IsRecursion(g, M, X, f[N], tail)
    /\ IsRecursion(h, N + M, X, first, both)
    /\ \A n \in 1..N : head[n] = both[n]
    /\ \A n \in 1..M : tail[n] = both[N + n]

\* Some steps and then others make what all of them make in a row.
LEMMA JoinedRecursion ==
    ASSUME NEW N, NEW M, NEW X, NEW first, NEW head, NEW tail, NEW both, NEW f, NEW g, NEW h,
           Joined(f, g, h, N, M, X, first, head, tail, both)
    PROVE  h[N + M] = g[M]
<1> USE DEF Joined
<1> USE DEF IsRecursion
<1> DEFINE S == {n \in Nat : n <= N => h[n] = f[n]}
<1>1. Nat \subseteq S
  <2>1. 0 \in S
      OBVIOUS
  <2>2. ASSUME NEW n \in Nat, n \in S PROVE n + 1 \in S
    <3> SUFFICES ASSUME n + 1 <= N PROVE h[n + 1] = f[n + 1]
        OBVIOUS
    <3>1. n + 1 \in 1..N /\ n + 1 \in 1..(N + M) /\ (n + 1) - 1 = n /\ h[n] = f[n]
        BY <2>2
    <3>2. h[n + 1] = both[n + 1][h[n]] /\ f[n + 1] = head[n + 1][f[n]]
        BY <3>1
    <3> QED
        BY <3>1, <3>2
  <2> HIDE DEF S
  <2> QED
      BY <2>1, <2>2, SetInduction
<1> DEFINE T == {n \in Nat : n <= M => h[N + n] = g[n]}
<1>2. Nat \subseteq T
  <2>1. 0 \in T
      BY <1>1
  <2>2. ASSUME NEW n \in Nat, n \in T PROVE n + 1 \in T
    <3> SUFFICES ASSUME n + 1 <= M PROVE h[N + (n + 1)] = g[n + 1]
        OBVIOUS
    <3>1. /\ n + 1 \in 1..M /\ N + (n + 1) \in 1..(N + M)
          /\ (n + 1) - 1 = n /\ (N + (n + 1)) - 1 = N + n /\ h[N + n] = g[n]
        BY <2>2
    <3>2. h[N + (n + 1)] = both[N + (n + 1)][h[N + n]] /\ g[n + 1] = tail[n + 1][g[n]]
        BY <3>1
    <3> QED
        BY <3>1, <3>2
  <2> HIDE DEF T
  <2> QED
      BY <2>1, <2>2, SetInduction
<1> QED
    BY <1>2

-----------------------------------------------------------------------------
(* Unsigned subtraction.                                                   *)

\* Unsigned subtraction stays in the range of the counters.
LEMMA MinusType ==
    ASSUME NEW a \in Unsigned, NEW b \in Unsigned
    PROVE  Minus(a, b) \in Unsigned
BY WordAssumption DEF Minus, Unsigned

\* It is exact as long as the counter did not go back.
LEMMA MinusExact ==
    ASSUME NEW a \in Unsigned, NEW b \in 0..a
    PROVE  Minus(a, b) = a - b
<1>1. a + (Word - b) = (a - b) + Word /\ a - b \in Unsigned
    BY WordAssumption DEF Unsigned
<1>2. \A x \in Unsigned : (x + Word) % Word = x
    BY WordAssumption DEF Unsigned
<1> QED
    BY <1>1, <1>2 DEF Minus

\* Adding to the older reading what the difference says yields the newer one,
\* modulo the width: also after a counter went back.
LEMMA MinusInverts ==
    ASSUME NEW a \in Unsigned, NEW b \in Unsigned
    PROVE  (b + Minus(a, b)) % Word = a
<1>1. CASE b <= a
  <2>1. b + Minus(a, b) = a
      BY <1>1, MinusExact, WordAssumption DEF Unsigned
  <2> QED
      BY <2>1, WordAssumption DEF Unsigned
<1>2. CASE a < b
  <2>1. a + (Word - b) \in Unsigned
      BY <1>2, WordAssumption DEF Unsigned
  <2>2. Minus(a, b) = a + (Word - b)
      BY <2>1, WordAssumption DEF Minus, Unsigned
  <2>3. b + Minus(a, b) = a + Word
      BY <2>2, WordAssumption DEF Unsigned
  <2>4. \A x \in Unsigned : (x + Word) % Word = x
      BY WordAssumption DEF Unsigned
  <2> QED
      BY <2>3, <2>4
<1> QED
    BY <1>1, <1>2, WordAssumption DEF Unsigned

=============================================================================
