-------------------------- MODULE Summation_proofs --------------------------
(***************************************************************************)
(* The laws of Total.  The library's induction theorems take a predicate   *)
(* as a parameter; SetInduction states induction over a set instead, and   *)
(* is proved from the well-foundedness of < on the naturals.               *)
(***************************************************************************)
EXTENDS Summation, WellFoundedInduction, TLAPS

\* Mathematical induction, with the induction hypothesis as a set.
LEMMA SetInduction ==
  ASSUME NEW S, 0 \in S, \A n \in Nat : n \in S => n + 1 \in S
  PROVE  Nat \subseteq S
<1>1. SUFFICES ASSUME Nat \ S # {} PROVE FALSE
  OBVIOUS
<1>2. IsWellFoundedOn(OpToRel(<, Nat), Nat)
  BY NatLessThanWellFounded
<1>3. PICK m \in Nat \ S : \A y \in Nat \ S : ~(<<y, m>> \in OpToRel(<, Nat))
  BY <1>1, <1>2, WFMin
<1>4. \A y \in Nat : y < m => y \in S
  BY <1>3 DEF OpToRel
<1>5. m \in Nat /\ m # 0
  OBVIOUS
<1>6. m - 1 \in Nat /\ m - 1 < m /\ (m - 1) + 1 = m
  BY <1>5
<1>7. m \in S
  BY <1>4, <1>6
<1> QED BY <1>3, <1>7

\* The recursive definition of Prefix has a solution, so Prefix satisfies it.
LEMMA PrefixUnfolds ==
  ASSUME NEW f, NEW n \in Nat
  PROVE  Prefix(f, n) =
           [i \in 0..n |-> IF i = 0 THEN 0 ELSE Prefix(f, n)[i - 1] + f[i]]
<1> DEFINE Step(s, m) == [i \in 0..m |-> IF i = 0 THEN 0 ELSE s[i - 1] + f[i]]
           Good == {m \in Nat : \E s : s = Step(s, m)}
<1>1. 0 \in Good
  <2>1. [i \in 0..0 |-> 0] = Step([i \in 0..0 |-> 0], 0)
    OBVIOUS
  <2> QED BY <2>1
<1>2. ASSUME NEW m \in Nat, m \in Good PROVE m + 1 \in Good
  <2>1. PICK s : s = Step(s, m)
    BY <1>2
  <2> DEFINE t == [i \in 0..(m + 1) |-> IF i = m + 1 THEN s[m] + f[m + 1] ELSE s[i]]
  <2>2. ASSUME NEW i \in 0..(m + 1) PROVE t[i] = Step(t, m + 1)[i]
    <3>1. CASE i = 0
      BY <3>1, <2>1
    <3>2. CASE i = m + 1
      BY <3>2
    <3>3. CASE i # 0 /\ i # m + 1
      <4>1. i \in 0..m /\ i - 1 \in 0..m /\ i - 1 \in 0..(m + 1) /\ i - 1 # m + 1
        BY <3>3
      <4>2. s[i] = s[i - 1] + f[i]
        BY <2>1, <4>1, <3>3
      <4>3. t[i] = s[i] /\ t[i - 1] = s[i - 1]
        BY <4>1, <3>3
      <4> QED BY <4>2, <4>3, <3>3
    <3> QED BY <3>1, <3>2, <3>3
  <2>3. t = Step(t, m + 1)
    BY <2>2
  <2>4. \E u : u = Step(u, m + 1)
    <3> HIDE DEF t
    <3> WITNESS t
    <3> QED BY <2>3
  <2> QED BY <2>4
<1>3. Nat \subseteq Good
  <2> HIDE DEF Good
  <2> QED BY <1>1, <1>2, SetInduction
<1>4. PICK s : s = Step(s, n)
  BY <1>3
<1> QED BY <1>4 DEF Prefix

\* The running total starts at 0 and grows by one row at a time.
LEMMA PrefixSteps ==
  ASSUME NEW n \in Nat, NEW f \in [1..n -> Int]
  PROVE  /\ Prefix(f, n)[0] = 0
         /\ \A m \in 0..n : m + 1 \in 0..n =>
              /\ f[m + 1] \in Int
              /\ Prefix(f, n)[m + 1] = Prefix(f, n)[m] + f[m + 1]
<1> DEFINE p == Prefix(f, n)
<1>1. p = [i \in 0..n |-> IF i = 0 THEN 0 ELSE p[i - 1] + f[i]]
  BY PrefixUnfolds
<1>2. p[0] = 0
  <2> HIDE DEF p
  <2> QED BY <1>1
<1>3. ASSUME NEW m \in 0..n, m + 1 \in 0..n
      PROVE  f[m + 1] \in Int /\ p[m + 1] = p[m] + f[m + 1]
  <2> HIDE DEF p
  <2>1. m + 1 # 0 /\ (m + 1) - 1 = m /\ m + 1 \in 1..n
    BY <1>3
  <2>2. p[m + 1] = p[(m + 1) - 1] + f[m + 1]
    BY <1>1, <1>3, <2>1
  <2> QED BY <2>1, <2>2
<1> QED BY <1>2, <1>3

\* A sum of integers is an integer.
LEMMA TotalInt ==
  ASSUME NEW n \in Nat, NEW f \in [1..n -> Int]
  PROVE  Total(f, n) \in Int
<1> DEFINE Good == {m \in Nat : m \in 0..n => Prefix(f, n)[m] \in Int}
<1>1. 0 \in Good
  BY PrefixSteps
<1>2. ASSUME NEW m \in Nat, m \in Good PROVE m + 1 \in Good
  <2>1. m + 1 \in 0..n => m \in 0..n
    OBVIOUS
  <2> QED BY <1>2, <2>1, PrefixSteps
<1>3. Nat \subseteq Good
  <2> HIDE DEF Good
  <2> QED BY <1>1, <1>2, SetInduction
<1> QED BY <1>3 DEF Total

\* A sum of naturals is a natural.
LEMMA TotalNat ==
  ASSUME NEW n \in Nat, NEW f \in [1..n -> Nat]
  PROVE  Total(f, n) \in Nat
<1> DEFINE Good == {m \in Nat : m \in 0..n => Prefix(f, n)[m] \in Nat}
<1>0. f \in [1..n -> Int]
  OBVIOUS
<1>1. 0 \in Good
  BY <1>0, PrefixSteps
<1>2. ASSUME NEW m \in Nat, m \in Good PROVE m + 1 \in Good
  <2>1. SUFFICES ASSUME m + 1 \in 0..n PROVE Prefix(f, n)[m + 1] \in Nat
    OBVIOUS
  <2>2. m \in 0..n /\ m + 1 \in 1..n
    BY <2>1
  <2>3. Prefix(f, n)[m + 1] = Prefix(f, n)[m] + f[m + 1]
    BY <1>0, <2>1, <2>2, PrefixSteps
  <2>4. Prefix(f, n)[m] \in Nat /\ f[m + 1] \in Nat
    BY <1>2, <2>2
  <2> QED BY <2>3, <2>4
<1>3. Nat \subseteq Good
  <2> HIDE DEF Good
  <2> QED BY <1>1, <1>2, SetInduction
<1> QED BY <1>3 DEF Total

\* The sum of a pointwise sum is the sum of the sums.
LEMMA TotalAdd ==
  ASSUME NEW n \in Nat,
         NEW f \in [1..n -> Int], NEW g \in [1..n -> Int], NEW h \in [1..n -> Int],
         \A i \in 1..n : h[i] = f[i] + g[i]
  PROVE  Total(h, n) = Total(f, n) + Total(g, n)
<1> DEFINE F == Prefix(f, n)
           G == Prefix(g, n)
           H == Prefix(h, n)
           Good == {m \in Nat : m \in 0..n =>
                      F[m] \in Int /\ G[m] \in Int /\ H[m] = F[m] + G[m]}
<1>0. /\ F[0] = 0 /\ G[0] = 0 /\ H[0] = 0
      /\ \A m \in 0..n : m + 1 \in 0..n =>
           /\ f[m + 1] \in Int /\ g[m + 1] \in Int
           /\ F[m + 1] = F[m] + f[m + 1]
           /\ G[m + 1] = G[m] + g[m + 1]
           /\ H[m + 1] = H[m] + h[m + 1]
  BY PrefixSteps
<1>1. 0 \in Good
  BY <1>0
<1>2. ASSUME NEW m \in Nat, m \in Good PROVE m + 1 \in Good
  <2> HIDE DEF F, G, H
  <2>1. SUFFICES ASSUME m + 1 \in 0..n
                 PROVE  /\ F[m + 1] \in Int /\ G[m + 1] \in Int
                        /\ H[m + 1] = F[m + 1] + G[m + 1]
    OBVIOUS
  <2>2. m \in 0..n /\ m + 1 \in 1..n
    BY <2>1
  <2>3. F[m] \in Int /\ G[m] \in Int /\ H[m] = F[m] + G[m]
    BY <1>2, <2>2
  <2>4. h[m + 1] = f[m + 1] + g[m + 1]
    BY <2>2
  <2> QED BY <1>0, <2>1, <2>2, <2>3, <2>4
<1>3. Nat \subseteq Good
  <2> HIDE DEF Good
  <2> QED BY <1>1, <1>2, SetInduction
<1> QED BY <1>3 DEF Total

\* A sum of zeros is 0.
LEMMA TotalZero ==
  ASSUME NEW n \in Nat, NEW f \in [1..n -> Int], \A i \in 1..n : f[i] = 0
  PROVE  Total(f, n) = 0
<1>1. Total(f, n) = Total(f, n) + Total(f, n)
  BY TotalAdd
<1> QED BY <1>1, TotalInt

\* A pointwise smaller function has the smaller sum.
LEMMA TotalMonotone ==
  ASSUME NEW n \in Nat, NEW f \in [1..n -> Int], NEW g \in [1..n -> Int],
         \A i \in 1..n : f[i] <= g[i]
  PROVE  Total(f, n) <= Total(g, n)
<1> DEFINE d == [i \in 1..n |-> g[i] - f[i]]
<1>1. d \in [1..n -> Nat] /\ d \in [1..n -> Int]
  OBVIOUS
<1>2. \A i \in 1..n : g[i] = f[i] + d[i]
  OBVIOUS
<1>3. Total(g, n) = Total(f, n) + Total(d, n)
  <2> HIDE DEF d
  <2> QED BY <1>1, <1>2, TotalAdd
<1>4. Total(d, n) \in Nat /\ Total(f, n) \in Int
  BY <1>1, TotalNat, TotalInt
<1> QED BY <1>3, <1>4

\* A change in one row changes the sum by as much.
LEMMA TotalPoint ==
  ASSUME NEW n \in Nat, NEW f \in [1..n -> Int], NEW g \in [1..n -> Int],
         NEW k \in 1..n, \A i \in 1..n : i # k => g[i] = f[i]
  PROVE  Total(g, n) = Total(f, n) + g[k] - f[k]
<1> DEFINE F == Prefix(f, n)
           G == Prefix(g, n)
           Good == {m \in Nat : m \in 0..n =>
                      F[m] \in Int /\ G[m] = F[m] + (IF k <= m THEN g[k] - f[k] ELSE 0)}
<1>0. /\ F[0] = 0 /\ G[0] = 0
      /\ \A m \in 0..n : m + 1 \in 0..n =>
           /\ f[m + 1] \in Int /\ g[m + 1] \in Int
           /\ F[m + 1] = F[m] + f[m + 1]
           /\ G[m + 1] = G[m] + g[m + 1]
  BY PrefixSteps
<1>1. 0 \in Good
  BY <1>0
<1>2. ASSUME NEW m \in Nat, m \in Good PROVE m + 1 \in Good
  <2> HIDE DEF F, G
  <2>1. SUFFICES ASSUME m + 1 \in 0..n
                 PROVE  /\ F[m + 1] \in Int
                        /\ G[m + 1] = F[m + 1] + (IF k <= m + 1 THEN g[k] - f[k] ELSE 0)
    OBVIOUS
  <2>2. m \in 0..n /\ m + 1 \in 1..n
    BY <2>1
  <2>3. F[m] \in Int /\ G[m] = F[m] + (IF k <= m THEN g[k] - f[k] ELSE 0)
    BY <1>2, <2>2
  <2>4. m + 1 # k => g[m + 1] = f[m + 1]
    BY <2>2
  <2>5. f[k] \in Int /\ g[k] \in Int
    OBVIOUS
  <2>6. /\ f[m + 1] \in Int /\ g[m + 1] \in Int
        /\ F[m + 1] = F[m] + f[m + 1]
        /\ G[m + 1] = G[m] + g[m + 1]
    BY <1>0, <2>1, <2>2
  <2>7. CASE k = m + 1
    BY <2>3, <2>5, <2>6, <2>7
  <2>8. CASE k # m + 1
    <3>1. (k <= m + 1) <=> (k <= m)
      BY <2>8
    <3> QED BY <2>3, <2>4, <2>5, <2>6, <2>8, <3>1
  <2> QED BY <2>7, <2>8
<1>3. Nat \subseteq Good
  <2> HIDE DEF Good
  <2> QED BY <1>1, <1>2, SetInduction
<1>4. F[n] \in Int /\ G[n] = F[n] + (IF k <= n THEN g[k] - f[k] ELSE 0)
  BY <1>3
<1>5. f[k] \in Int /\ g[k] \in Int /\ k <= n
  OBVIOUS
<1> HIDE DEF F, G, Good
<1>6. G[n] = F[n] + g[k] - f[k]
  BY <1>4, <1>5
<1> QED BY <1>6 DEF Total, F, G

\* No share exceeds a sum of naturals.
LEMMA TotalBoundsShare ==
  ASSUME NEW n \in Nat, NEW f \in [1..n -> Nat], NEW k \in 1..n
  PROVE  f[k] <= Total(f, n)
<1> DEFINE g == [i \in 1..n |-> IF i = k THEN 0 ELSE f[i]]
<1>1. g \in [1..n -> Nat] /\ g \in [1..n -> Int] /\ f \in [1..n -> Int] /\ g[k] = 0
  OBVIOUS
<1>2. \A i \in 1..n : i # k => f[i] = g[i]
  OBVIOUS
<1> HIDE DEF g
<1>3. Total(f, n) = Total(g, n) + f[k] - g[k]
  BY <1>1, <1>2, TotalPoint
<1>4. Total(g, n) \in Nat /\ f[k] \in Nat
  BY <1>1, TotalNat
<1> QED BY <1>1, <1>3, <1>4
=============================================================================
