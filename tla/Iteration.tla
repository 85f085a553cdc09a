----------------------------- MODULE Iteration -----------------------------
(***************************************************************************)
(* What the proofs need of functions that are defined by recursion on a    *)
(* number: that there is one, and induction over its values.  Sets stand   *)
(* where a textbook has predicates, and functions where it has operators.  *)
(***************************************************************************)
EXTENDS NaturalsInduction, WellFoundedInduction, TLAPS

\* Induction: a set with 0 and with n + 1 whenever it has n holds every number.
LEMMA NatSetInduction ==
    ASSUME NEW S, 0 \in S, \A n \in Nat : n \in S => n + 1 \in S
    PROVE  \A n \in Nat : n \in S
<1> DEFINE R == {p \in Nat \X Nat : p[1] < p[2]}
           T == {n \in Nat : n \notin S}
<1> SUFFICES ASSUME T # {} PROVE FALSE
  OBVIOUS
<1>1. IsWellFoundedOn(R, Nat)
  BY NatLessThanWellFounded DEF OpToRel
<1>2. PICK x \in T : \A y \in T : ~ (<<y, x>> \in R)
  <2>1. T \subseteq Nat
    OBVIOUS
  <2> HIDE DEF R, T
  <2> QED BY <1>1, <2>1, WFMin
<1>3. x \in Nat /\ x \notin S /\ x # 0
  BY <1>2
<1>4. x - 1 \in Nat /\ x - 1 < x /\ (x - 1) + 1 = x
  BY <1>3
<1>5. x - 1 \notin S
  BY <1>3, <1>4
<1>6. <<x - 1, x>> \in R
  BY <1>3, <1>4
<1>7. x - 1 \in T
  BY <1>4, <1>5
<1> QED BY <1>2, <1>6, <1>7

\* g holds the first n + 1 members of the iteration of F from x; F may differ
\* from step to step.
Trace(X, F, x, n) ==
    {g \in [0 .. n -> X] : g[0] = x /\ \A i \in 0 .. n - 1 : g[i + 1] = F[i][g[i]]}

LEMMA TraceExists ==
    ASSUME NEW X, NEW F \in [Nat -> [X -> X]], NEW x \in X
    PROVE  \A n \in Nat : Trace(X, F, x, n) # {}
<1> DEFINE S == {n \in Nat : Trace(X, F, x, n) # {}}
<1>1. 0 \in S
  <2>1. [i \in 0 .. 0 |-> x] \in Trace(X, F, x, 0)
    BY DEF Trace
  <2> QED BY <2>1
<1>2. ASSUME NEW n \in Nat, n \in S PROVE n + 1 \in S
  <2>1. PICK g : g \in Trace(X, F, x, n)
    BY <1>2
  <2>2. g \in [0 .. n -> X] /\ g[0] = x /\ \A i \in 0 .. n - 1 : g[i + 1] = F[i][g[i]]
    BY <2>1 DEF Trace
  <2> DEFINE h == [i \in 0 .. n + 1 |-> IF i = n + 1 THEN F[n][g[n]] ELSE g[i]]
  <2>3. h \in [0 .. n + 1 -> X] /\ h[0] = x
    BY <2>2
  <2>4. \A i \in 0 .. (n + 1) - 1 : h[i + 1] = F[i][h[i]]
    BY <2>2
  <2>5. h \in Trace(X, F, x, n + 1)
    <3> HIDE DEF h
    <3> QED BY <2>3, <2>4 DEF Trace
  <2> QED BY <2>5
<1> HIDE DEF S
<1>3. \A n \in Nat : n \in S
  BY <1>1, <1>2, NatSetInduction
<1> QED BY <1>3 DEF S

LEMMA TraceUnique ==
    ASSUME NEW X, NEW F \in [Nat -> [X -> X]], NEW x \in X, NEW n \in Nat, NEW m \in Nat,
           NEW g \in Trace(X, F, x, n), NEW h \in Trace(X, F, x, m)
    PROVE  \A i \in Nat : i <= n /\ i <= m => g[i] = h[i]
<1> DEFINE S == {i \in Nat : i <= n /\ i <= m => g[i] = h[i]}
<1>1. 0 \in S
  BY DEF Trace
<1>2. ASSUME NEW i \in Nat, i \in S PROVE i + 1 \in S
  <2> SUFFICES ASSUME i + 1 <= n, i + 1 <= m PROVE g[i + 1] = h[i + 1]
    OBVIOUS
  <2>1. g[i] = h[i] /\ i \in 0 .. n - 1 /\ i \in 0 .. m - 1
    BY <1>2
  <2> QED BY <2>1 DEF Trace
<1> HIDE DEF S
<1>3. \A i \in Nat : i \in S
  BY <1>1, <1>2, NatSetInduction
<1> QED BY <1>3 DEF S

\* The whole of it.
Iterations(X, F, x) ==
    {f \in [Nat -> X] : f[0] = x /\ \A n \in Nat : f[n + 1] = F[n][f[n]]}

LEMMA Iteration ==
    ASSUME NEW X, NEW F \in [Nat -> [X -> X]], NEW x \in X
    PROVE  Iterations(X, F, x) # {}
<1> DEFINE tr(n) == CHOOSE g \in Trace(X, F, x, n) : TRUE
           f == [n \in Nat |-> tr(n)[n]]
<1>1. \A n \in Nat : tr(n) \in Trace(X, F, x, n)
  BY TraceExists
<1> HIDE DEF tr
<1>2. \A n \in Nat : tr(n)[n] \in X
  BY <1>1 DEF Trace
<1>3. f \in [Nat -> X] /\ f[0] = x
  BY <1>1, <1>2 DEF Trace
<1>4. ASSUME NEW n \in Nat PROVE f[n + 1] = F[n][f[n]]
  <2>1. tr(n + 1)[n] = tr(n)[n]
    BY <1>1, TraceUnique
  <2>2. tr(n + 1)[n + 1] = F[n][tr(n + 1)[n]]
    BY <1>1 DEF Trace
  <2> QED BY <2>1, <2>2
<1> HIDE DEF f
<1>5. f \in Iterations(X, F, x)
  BY <1>3, <1>4 DEF Iterations
<1> QED BY <1>5

\* Its first n steps: what a recursive function on 0 .. n is compared with.
Unrollings(X, F, x, n) ==
    {g \in [0 .. n -> X] : g[0] = x /\ \A i \in 1 .. n : g[i] = F[i - 1][g[i - 1]]}

LEMMA Unrolling ==
    ASSUME NEW X, NEW F \in [Nat -> [X -> X]], NEW x \in X, NEW n \in Nat
    PROVE  Unrollings(X, F, x, n) # {}
<1>1. PICK g : g \in Trace(X, F, x, n)
  BY TraceExists
<1>2. g \in [0 .. n -> X] /\ g[0] = x /\ \A i \in 0 .. n - 1 : g[i + 1] = F[i][g[i]]
  BY <1>1 DEF Trace
<1>3. ASSUME NEW i \in 1 .. n PROVE g[i] = F[i - 1][g[i - 1]]
  <2>1. i - 1 \in 0 .. n - 1 /\ (i - 1) + 1 = i
    OBVIOUS
  <2> QED BY <1>2, <2>1
<1>4. g \in Unrollings(X, F, x, n)
  BY <1>2, <1>3 DEF Unrollings
<1> QED BY <1>4

\* A number that satisfies something: there is a least one.
LEMMA NatLeast ==
    ASSUME NEW S, S \subseteq Nat, S # {}
    PROVE  \E x \in S : \A y \in S : x <= y
<1> DEFINE R == {p \in Nat \X Nat : p[1] < p[2]}
<1>1. IsWellFoundedOn(R, Nat)
  BY NatLessThanWellFounded DEF OpToRel
<1>2. PICK x \in S : \A y \in S : ~ (<<y, x>> \in R)
  <2> HIDE DEF R
  <2> QED BY <1>1, WFMin
<1>3. ASSUME NEW y \in S PROVE x <= y
  <2>1. ~ (<<y, x>> \in R) /\ y \in Nat /\ x \in Nat
    BY <1>2
  <2> QED BY <2>1
<1> QED BY <1>3

=============================================================================
