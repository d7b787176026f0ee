-------------------------- MODULE SummationProofs --------------------------
(***************************************************************************)
(* Facts about sums, and the induction they need: over a set of numbers    *)
(* instead of a predicate.                                                 *)
(***************************************************************************)
EXTENDS Summation, WellFoundedInduction, TLAPS

-----------------------------------------------------------------------------
(* Induction up to a number, over a set.                                    *)

LEMMA LeastExists ==
  ASSUME NEW S, S \subseteq Nat, S # {}
  PROVE  \E u \in S : \A v \in S : u <= v
<1> DEFINE Less == {p \in Nat \X Nat : p[1] < p[2]}
<1>1. IsWellFoundedOn(Less, Nat)
  BY NatLessThanWellFounded DEF OpToRel
<1> HIDE DEF Less
<1>2. PICK u \in S : \A v \in S : ~ (<<v, u>> \in Less)
  BY <1>1, WFMin
<1>3. \A v \in S : ~ (v < u)
  BY <1>2 DEF Less
<1> QED
  BY <1>2, <1>3

LEMMA Upto ==
  ASSUME NEW n \in Nat, NEW S, 0 \in S,
         \A k \in 1 .. n : k - 1 \in S => k \in S
  PROVE  \A k \in 0 .. n : k \in S
<1> DEFINE Bad == {k \in 0 .. n : k \notin S}
<1> SUFFICES ASSUME Bad # {} PROVE FALSE
  OBVIOUS
<1>0. Bad \subseteq Nat
  OBVIOUS
<1> HIDE DEF Bad
<1>1. PICK k \in Bad : \A j \in Bad : k <= j
  BY <1>0, LeastExists
<1> USE DEF Bad
<1>2. k \in 1 .. n /\ k - 1 \in 0 .. n
  OBVIOUS
<1>3. k - 1 \in S
  BY <1>1, <1>2
<1> QED
  BY <1>2, <1>3

\* What a loop has after each of its first n rounds: it starts with c, and F
\* says what round k makes of what there was before.
Loop(n, T, c, F, s) ==
  /\ s \in [0 .. n -> T]
  /\ s[0] = c
  /\ \A k \in 1 .. n : s[k] = F[k][s[k - 1]]

LEMMA LoopExists ==
  ASSUME NEW n \in Nat, NEW T, NEW c \in T, NEW F \in [1 .. n -> [T -> T]]
  PROVE  \E s : Loop(n, T, c, F, s)
<1> DEFINE Good == {k \in 0 .. n : \E s : Loop(k, T, c, F, s)}
<1>1. 0 \in Good
  <2>1. Loop(0, T, c, F, [k \in 0 .. 0 |-> c])
    BY DEF Loop
  <2> QED
    BY <2>1
<1>2. ASSUME NEW k \in 1 .. n, k - 1 \in Good
      PROVE  k \in Good
  <2>1. PICK s : Loop(k - 1, T, c, F, s)
    BY <1>2
  <2> DEFINE t == [j \in 0 .. k |-> IF j = k THEN F[k][s[k - 1]] ELSE s[j]]
  <2>2. s[k - 1] \in T /\ F[k][s[k - 1]] \in T
    BY <2>1 DEF Loop
  <2>3. Loop(k, T, c, F, t)
    BY <2>1, <2>2 DEF Loop
  <2> QED
    BY <2>3
<1> HIDE DEF Good
<1>3. \A k \in 0 .. n : k \in Good
  BY <1>1, <1>2, Upto
<1> QED
  BY <1>3 DEF Good

-----------------------------------------------------------------------------
(* Sums.                                                                    *)

Sums(n, f, s) ==
  /\ s \in [0 .. n -> Int]
  /\ s[0] = 0
  /\ \A k \in 1 .. n : s[k] = s[k - 1] + f[k]

\* The sums of the first k terms exist ...
LEMMA SumsExist ==
  ASSUME NEW n \in Nat, NEW f, \A k \in 1 .. n : f[k] \in Int
  PROVE  \E s : Sums(n, f, s)
<1> DEFINE Good == {k \in 0 .. n : \E s : Sums(k, f, s)}
<1>1. 0 \in Good
  <2>1. Sums(0, f, [k \in 0 .. 0 |-> 0])
    BY DEF Sums
  <2> QED
    BY <2>1
<1>2. ASSUME NEW k \in 1 .. n, k - 1 \in Good
      PROVE  k \in Good
  <2>1. PICK s : Sums(k - 1, f, s)
    BY <1>2
  <2> DEFINE t == [j \in 0 .. k |-> IF j = k THEN s[k - 1] + f[k] ELSE s[j]]
  <2>2. s[k - 1] \in Int /\ s[k - 1] + f[k] \in Int
    BY <2>1 DEF Sums
  <2>3. Sums(k, f, t)
    BY <2>1, <2>2 DEF Sums
  <2> QED
    BY <2>3
<1> HIDE DEF Good
<1>3. \A k \in 0 .. n : k \in Good
  BY <1>1, <1>2, Upto
<1> QED
  BY <1>3 DEF Good

\* ... and Total is the last of them.
LEMMA TotalIsLast ==
  ASSUME NEW n \in Nat, NEW f, \A k \in 1 .. n : f[k] \in Int
  PROVE  \E s : Sums(n, f, s) /\ Total(n, f) = s[n]
<1>1. PICK s : Sums(n, f, s)
  BY SumsExist
<1>2. s = [k \in 0 .. n |-> IF k = 0 THEN 0 ELSE s[k - 1] + f[k]]
  BY <1>1 DEF Sums
<1>3. PICK t : /\ t = [k \in 0 .. n |-> IF k = 0 THEN 0 ELSE t[k - 1] + f[k]]
               /\ Total(n, f) = t[n]
  BY <1>2 DEF Total
<1> DEFINE Good == {k \in 0 .. n : t[k] \in Int}
<1>4. 0 \in Good
  BY <1>3
<1>5. ASSUME NEW k \in 1 .. n, k - 1 \in Good
      PROVE  k \in Good
  BY <1>3, <1>5
<1> HIDE DEF Good
<1>6. \A k \in 0 .. n : k \in Good
  BY <1>4, <1>5, Upto
<1>7. Sums(n, f, t)
  BY <1>3, <1>6 DEF Sums, Good
<1> QED
  BY <1>3, <1>7

LEMMA TotalType ==
  ASSUME NEW n \in Nat, NEW f, \A k \in 1 .. n : f[k] \in Int
  PROVE  Total(n, f) \in Int
BY TotalIsLast DEF Sums

\* The sum of the sums.
LEMMA TotalAdd ==
  ASSUME NEW n \in Nat, NEW f, NEW g, NEW h,
         \A k \in 1 .. n : f[k] \in Int /\ g[k] \in Int /\ h[k] = f[k] + g[k]
  PROVE  Total(n, h) = Total(n, f) + Total(n, g)
<1>1. PICK s : Sums(n, f, s) /\ Total(n, f) = s[n]
  BY TotalIsLast
<1>2. PICK t : Sums(n, g, t) /\ Total(n, g) = t[n]
  BY TotalIsLast
<1>3. PICK u : Sums(n, h, u) /\ Total(n, h) = u[n]
  BY TotalIsLast
<1> DEFINE Good == {k \in 0 .. n : u[k] = s[k] + t[k]}
<1>4. 0 \in Good
  BY <1>1, <1>2, <1>3 DEF Sums
<1>5. ASSUME NEW k \in 1 .. n, k - 1 \in Good
      PROVE  k \in Good
  <2>1. /\ s[k - 1] \in Int /\ t[k - 1] \in Int /\ u[k - 1] = s[k - 1] + t[k - 1]
        /\ f[k] \in Int /\ g[k] \in Int /\ h[k] = f[k] + g[k]
    BY <1>1, <1>2, <1>5 DEF Sums
  <2>2. s[k] = s[k - 1] + f[k] /\ t[k] = t[k - 1] + g[k] /\ u[k] = u[k - 1] + h[k]
    BY <1>1, <1>2, <1>3 DEF Sums
  <2> QED
    BY <2>1, <2>2
<1> HIDE DEF Good
<1>6. \A k \in 0 .. n : k \in Good
  BY <1>4, <1>5, Upto
<1> QED
  BY <1>1, <1>2, <1>3, <1>6 DEF Good

LEMMA TotalScale ==
  ASSUME NEW n \in Nat, NEW f, NEW c \in Int, NEW g,
         \A k \in 1 .. n : f[k] \in Int /\ g[k] = c * f[k]
  PROVE  Total(n, g) = c * Total(n, f)
<1>1. PICK s : Sums(n, f, s) /\ Total(n, f) = s[n]
  BY TotalIsLast
<1>2. \A k \in 1 .. n : g[k] \in Int
  OBVIOUS
<1>3. PICK u : Sums(n, g, u) /\ Total(n, g) = u[n]
  BY <1>2, TotalIsLast
<1> DEFINE Good == {k \in 0 .. n : u[k] = c * s[k]}
<1>4. 0 \in Good
  BY <1>1, <1>3 DEF Sums
<1>5. ASSUME NEW k \in 1 .. n, k - 1 \in Good
      PROVE  k \in Good
  <2>1. /\ s[k - 1] \in Int /\ f[k] \in Int /\ u[k - 1] = c * s[k - 1]
        /\ s[k] = s[k - 1] + f[k] /\ u[k] = u[k - 1] + c * f[k]
    BY <1>1, <1>3, <1>5 DEF Sums
  <2>2. c * (s[k - 1] + f[k]) = c * s[k - 1] + c * f[k]
    BY <2>1
  <2> QED
    BY <2>1, <2>2
<1> HIDE DEF Good
<1>6. \A k \in 0 .. n : k \in Good
  BY <1>4, <1>5, Upto
<1> QED
  BY <1>1, <1>3, <1>6 DEF Good

LEMMA TotalMonotonic ==
  ASSUME NEW n \in Nat, NEW f, NEW g,
         \A k \in 1 .. n : f[k] \in Int /\ g[k] \in Int /\ f[k] <= g[k]
  PROVE  Total(n, f) <= Total(n, g)
<1>1. PICK s : Sums(n, f, s) /\ Total(n, f) = s[n]
  BY TotalIsLast
<1>2. PICK t : Sums(n, g, t) /\ Total(n, g) = t[n]
  BY TotalIsLast
<1> DEFINE Good == {k \in 0 .. n : s[k] <= t[k]}
<1>3. 0 \in Good
  BY <1>1, <1>2 DEF Sums
<1>4. ASSUME NEW k \in 1 .. n, k - 1 \in Good
      PROVE  k \in Good
  <2>1. /\ s[k - 1] \in Int /\ t[k - 1] \in Int /\ s[k - 1] <= t[k - 1]
        /\ f[k] \in Int /\ g[k] \in Int /\ f[k] <= g[k]
    BY <1>1, <1>2, <1>4 DEF Sums
  <2>2. s[k] = s[k - 1] + f[k] /\ t[k] = t[k - 1] + g[k]
    BY <1>1, <1>2 DEF Sums
  <2> QED
    BY <2>1, <2>2
<1> HIDE DEF Good
<1>5. \A k \in 0 .. n : k \in Good
  BY <1>3, <1>4, Upto
<1> QED
  BY <1>1, <1>2, <1>5 DEF Good

LEMMA TotalPositive ==
  ASSUME NEW n \in Nat, NEW f, \A k \in 1 .. n : f[k] \in Int /\ f[k] >= 0,
         NEW j \in 1 .. n, f[j] > 0
  PROVE  Total(n, f) > 0
<1>1. PICK s : Sums(n, f, s) /\ Total(n, f) = s[n]
  BY TotalIsLast
<1> DEFINE Good == {k \in 0 .. n : s[k] >= 0 /\ (k >= j => s[k] > 0)}
<1>2. 0 \in Good
  BY <1>1 DEF Sums
<1>3. ASSUME NEW k \in 1 .. n, k - 1 \in Good
      PROVE  k \in Good
  <2>1. s[k - 1] \in Int /\ s[k - 1] >= 0 /\ (k - 1 >= j => s[k - 1] > 0)
    BY <1>1, <1>3 DEF Sums
  <2>2. s[k] = s[k - 1] + f[k] /\ f[k] \in Int /\ f[k] >= 0
    BY <1>1 DEF Sums
  <2>3. k >= j => k = j \/ k - 1 >= j
    OBVIOUS
  <2> QED
    BY <2>1, <2>2, <2>3
<1> HIDE DEF Good
<1>4. \A k \in 0 .. n : k \in Good
  BY <1>2, <1>3, Upto
<1> QED
  BY <1>1, <1>4 DEF Good

\* Equal terms, equal sums.
LEMMA TotalSame ==
  ASSUME NEW n \in Nat, NEW f, NEW g,
         \A k \in 1 .. n : f[k] \in Int /\ g[k] = f[k]
  PROVE  Total(n, g) = Total(n, f)
<1>1. \A k \in 1 .. n : f[k] \in Int /\ g[k] = 1 * f[k]
  OBVIOUS
<1>2. Total(n, g) = 1 * Total(n, f)
  BY <1>1, TotalScale
<1> QED
  BY <1>2, TotalType

LEMMA TotalZero ==
  ASSUME NEW n \in Nat, NEW f, \A k \in 1 .. n : f[k] = 0
  PROVE  Total(n, f) = 0
<1>1. \A k \in 1 .. n : f[k] \in Int /\ f[k] = 0 * f[k]
  OBVIOUS
<1>2. Total(n, f) = 0 * Total(n, f)
  BY <1>1, TotalScale
<1> QED
  BY <1>1, <1>2, TotalType

LEMMA TotalStep ==
  ASSUME NEW n \in Nat, NEW f, \A k \in 1 .. n + 1 : f[k] \in Int
  PROVE  Total(n + 1, f) = Total(n, f) + f[n + 1]
<1>1. PICK s : Sums(n, f, s) /\ Total(n, f) = s[n]
  BY TotalIsLast
<1>2. PICK t : Sums(n + 1, f, t) /\ Total(n + 1, f) = t[n + 1]
  BY TotalIsLast
<1> DEFINE Good == {k \in 0 .. n : s[k] = t[k]}
<1>3. 0 \in Good
  BY <1>1, <1>2 DEF Sums
<1>4. ASSUME NEW k \in 1 .. n, k - 1 \in Good
      PROVE  k \in Good
  <2>1. s[k] = s[k - 1] + f[k]
    BY <1>1 DEF Sums
  <2>2. t[k] = t[k - 1] + f[k]
    BY <1>2 DEF Sums
  <2>3. s[k - 1] = t[k - 1] /\ k \in 0 .. n
    BY <1>4
  <2> QED
    BY <2>1, <2>2, <2>3
<1> HIDE DEF Good
<1>5. \A k \in 0 .. n : k \in Good
  BY <1>3, <1>4, Upto
<1>6. s[n] = t[n]
  BY <1>5 DEF Good
<1>7. t[n + 1] = t[n + 1 - 1] + f[n + 1]
  BY <1>2 DEF Sums
<1>8. n + 1 - 1 = n
  OBVIOUS
<1> QED
  BY <1>1, <1>2, <1>6, <1>7, <1>8

LEMMA TotalNone ==
  ASSUME NEW f
  PROVE  Total(0, f) = 0
<1>1. \A k \in 1 .. 0 : f[k] = 0
  OBVIOUS
<1> QED
  BY <1>1, TotalZero

\* One term changes, and the sum by as much.
LEMMA TotalExcept ==
  ASSUME NEW n \in Nat, NEW f, NEW g, NEW j \in 1 .. n,
         \A k \in 1 .. n : f[k] \in Int /\ g[k] \in Int /\ (k # j => g[k] = f[k])
  PROVE  Total(n, g) = Total(n, f) + g[j] - f[j]
<1>1. PICK s : Sums(n, f, s) /\ Total(n, f) = s[n]
  BY TotalIsLast
<1>2. PICK t : Sums(n, g, t) /\ Total(n, g) = t[n]
  BY TotalIsLast
<1> DEFINE Good == {k \in 0 .. n : t[k] = IF k >= j THEN s[k] + g[j] - f[j] ELSE s[k]}
<1>3. 0 \in Good
  BY <1>1, <1>2 DEF Sums
<1>4. ASSUME NEW k \in 1 .. n, k - 1 \in Good
      PROVE  k \in Good
  <2>1. s[k] = s[k - 1] + f[k] /\ s[k - 1] \in Int
    BY <1>1 DEF Sums
  <2>2. t[k] = t[k - 1] + g[k] /\ t[k - 1] \in Int
    BY <1>2 DEF Sums
  <2>3. t[k - 1] = IF k - 1 >= j THEN s[k - 1] + g[j] - f[j] ELSE s[k - 1]
    BY <1>4
  <2>4. f[k] \in Int /\ g[k] \in Int /\ f[j] \in Int /\ g[j] \in Int /\ (k # j => g[k] = f[k])
    OBVIOUS
  <2>5. k \in 0 .. n
    OBVIOUS
  <2>6. CASE k = j
    BY <2>1, <2>2, <2>3, <2>4, <2>5, <2>6
  <2>7. CASE k < j
    BY <2>1, <2>2, <2>3, <2>4, <2>5, <2>7
  <2>8. CASE k > j
    BY <2>1, <2>2, <2>3, <2>4, <2>5, <2>8
  <2> QED
    BY <2>6, <2>7, <2>8
<1> HIDE DEF Good
<1>5. \A k \in 0 .. n : k \in Good
  BY <1>3, <1>4, Upto
<1>6. t[n] = s[n] + g[j] - f[j]
  BY <1>5 DEF Good
<1> QED
  BY <1>1, <1>2, <1>6

LEMMA TotalFirst ==
  ASSUME NEW n \in Nat, n >= 1, NEW f, NEW g,
         \A k \in 1 .. n : f[k] \in Int /\ g[k] \in Int /\ (k # 1 => g[k] = f[k])
  PROVE  Total(n, g) = Total(n, f) + g[1] - f[1]
<1>1. PICK m, j : m = n /\ j = 1
  OBVIOUS
<1>2. /\ m \in Nat /\ j \in 1 .. m
      /\ \A k \in 1 .. m : f[k] \in Int /\ g[k] \in Int /\ (k # j => g[k] = f[k])
  BY <1>1
<1>3. Total(m, g) = Total(m, f) + g[j] - f[j]
  BY <1>2, TotalExcept
<1> QED
  BY <1>1, <1>3

=============================================================================
