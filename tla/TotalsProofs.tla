---------------------------- MODULE TotalsProofs ----------------------------
(***************************************************************************)
(* Facts about sums over the rows of a table, for tables of any length.    *)
(***************************************************************************)
EXTENDS Totals, TLAPS, WellFoundedInduction

(* Induction over the natural numbers, stated about a set: the prover      *)
(* cannot instantiate a theorem whose parameter is an operator.            *)
LEMMA SetInduction ==
  ASSUME NEW S, 0 \in S, \A n \in Nat : n \in S => n + 1 \in S
  PROVE  \A n \in Nat : n \in S
<1> DEFINE T == Nat \ S
<1>1. SUFFICES ASSUME T # {} PROVE FALSE
  OBVIOUS
<1>2. PICK m \in T : \A k \in T : ~(<<k, m>> \in OpToRel(<, Nat))
  BY <1>1, WFMin, NatLessThanWellFounded, T \subseteq Nat, Zenon
<1>3. m \in Nat /\ m \notin S /\ m # 0
  BY <1>2
<1>4. m - 1 \in Nat /\ m - 1 < m /\ (m - 1) + 1 = m
  BY <1>3
<1>5. m - 1 \in T
  BY <1>3, <1>4
<1>6. <<m - 1, m>> \in OpToRel(<, Nat)
  BY <1>3, <1>4 DEF OpToRel
<1> QED
  BY <1>2, <1>5, <1>6

Running(u, f, n) == u = [i \in 0..n |-> IF i = 0 THEN 0 ELSE u[i - 1] + f[i]]

\* The running total of f up to n exists, and all its values are integers.
LEMMA RunningExists ==
  ASSUME NEW f, NEW n \in Nat, \A i \in 1..n : f[i] \in Int
  PROVE  \E u \in [0..n -> Int] : Running(u, f, n)
<1> DEFINE S == {k \in Nat : k <= n => \E u \in [0..k -> Int] : Running(u, f, k)}
<1>1. 0 \in S
  <2> DEFINE u == [i \in 0..0 |-> 0]
  <2>1. u \in [0..0 -> Int] /\ Running(u, f, 0)
    BY DEF Running
  <2> QED BY <2>1
<1>2. ASSUME NEW k \in Nat, k \in S PROVE k + 1 \in S
  <2>1. SUFFICES ASSUME k + 1 <= n
                 PROVE \E u \in [0..(k + 1) -> Int] : Running(u, f, k + 1)
    OBVIOUS
  <2>2. PICK u \in [0..k -> Int] : Running(u, f, k)
    BY <1>2, <2>1
  <2> DEFINE v == [i \in 0..(k + 1) |-> IF i = k + 1 THEN u[k] + f[k + 1] ELSE u[i]]
  <2>3. v \in [0..(k + 1) -> Int]
    BY <2>1, <2>2
  <2>4. ASSUME NEW i \in 0..(k + 1)
        PROVE  v[i] = IF i = 0 THEN 0 ELSE v[i - 1] + f[i]
    <3>1. CASE i = k + 1
      BY <3>1
    <3>2. CASE i # k + 1
      <4>1. i \in 0..k /\ v[i] = u[i] /\ (i # 0 => v[i - 1] = u[i - 1])
        BY <3>2
      <4> QED BY <4>1, <2>2 DEF Running
    <3> QED BY <3>1, <3>2
  <2>5. Running(v, f, k + 1)
    BY <2>4 DEF Running
  <2> QED BY <2>3, <2>5
<1>3. n \in S
  BY <1>1, <1>2, SetInduction
<1> QED BY <1>3

\* Two running totals agree as far as both go.
LEMMA RunningAgree ==
  ASSUME NEW f, NEW m \in Nat, NEW n \in Nat, NEW u, NEW v,
         Running(u, f, m), Running(v, f, n), m <= n
  PROVE  \A i \in 0..m : u[i] = v[i]
<1> DEFINE S == {k \in Nat : k <= m => u[k] = v[k]}
<1>1. 0 \in S
  BY DEF Running
<1>2. ASSUME NEW k \in Nat, k \in S PROVE k + 1 \in S
  <2>1. SUFFICES ASSUME k + 1 <= m PROVE u[k + 1] = v[k + 1]
    OBVIOUS
  <2>2. u[k] = v[k]
    BY <1>2, <2>1
  <2>3. u[k + 1] = u[k] + f[k + 1]
    BY <2>1, k + 1 \in 0..m, k + 1 # 0, (k + 1) - 1 = k DEF Running
  <2>4. v[k + 1] = v[k] + f[k + 1]
    BY <2>1, k + 1 \in 0..n, k + 1 # 0, (k + 1) - 1 = k DEF Running
  <2> QED BY <2>2, <2>3, <2>4
<1>3. \A k \in Nat : k \in S
  BY <1>1, <1>2, SetInduction
<1> QED BY <1>3

\* Total(f, n) is the last value of the running total.
LEMMA TotalRunning ==
  ASSUME NEW f, NEW n \in Nat, \A i \in 1..n : f[i] \in Int
  PROVE  \E u \in [0..n -> Int] : Running(u, f, n) /\ Total(f, n) = u[n]
<1>1. PICK u \in [0..n -> Int] : Running(u, f, n)
  BY RunningExists
<1> DEFINE w == CHOOSE x : x = [i \in 0..n |-> IF i = 0 THEN 0 ELSE x[i - 1] + f[i]]
<1>2. Running(w, f, n)
  BY <1>1 DEF Running
<1>3. Total(f, n) = w[n]
  BY DEF Total
<1>4. u[n] = w[n]
  BY <1>1, <1>2, RunningAgree, n <= n
<1> QED BY <1>1, <1>3, <1>4

(* The recursion of Total, and its type.                                   *)
THEOREM TotalEmpty ==
  ASSUME NEW f
  PROVE  Total(f, 0) = 0
<1>1. PICK u \in [0..0 -> Int] : Running(u, f, 0) /\ Total(f, 0) = u[0]
  BY TotalRunning, 1..0 = {}
<1> QED BY <1>1 DEF Running

\* A total of integers is an integer.
THEOREM TotalType ==
  ASSUME NEW f, NEW n \in Nat, \A i \in 1..n : f[i] \in Int
  PROVE  Total(f, n) \in Int
BY TotalRunning

\* One more entry adds itself.
THEOREM TotalNext ==
  ASSUME NEW f, NEW n \in Nat, \A i \in 1..(n + 1) : f[i] \in Int
  PROVE  Total(f, n + 1) = Total(f, n) + f[n + 1]
<1>1. PICK v \in [0..(n + 1) -> Int] : Running(v, f, n + 1) /\ Total(f, n + 1) = v[n + 1]
  BY TotalRunning, n + 1 \in Nat
<1>2. PICK u \in [0..n -> Int] : Running(u, f, n) /\ Total(f, n) = u[n]
  BY TotalRunning, \A i \in 1..n : i \in 1..(n + 1)
<1>3. u[n] = v[n]
  BY <1>1, <1>2, RunningAgree, n + 1 \in Nat, n <= n + 1, n \in 0..n
<1>4. v[n + 1] = v[n] + f[n + 1]
  BY <1>1, n + 1 \in 0..(n + 1), n + 1 # 0, (n + 1) - 1 = n DEF Running
<1> QED BY <1>1, <1>2, <1>3, <1>4

(* A total depends on the first n entries only.                            *)
THEOREM TotalEqual ==
  ASSUME NEW f, NEW g, NEW n \in Nat,
         \A i \in 1..n : f[i] \in Int /\ f[i] = g[i]
  PROVE  Total(f, n) = Total(g, n)
<1> DEFINE S == {k \in Nat : k <= n => Total(f, k) = Total(g, k)}
<1>1. 0 \in S
  BY TotalEmpty
<1>2. ASSUME NEW k \in Nat, k \in S PROVE k + 1 \in S
  <2>1. SUFFICES ASSUME k + 1 <= n PROVE Total(f, k + 1) = Total(g, k + 1)
    OBVIOUS
  <2>2. \A i \in 1..(k + 1) : f[i] \in Int /\ g[i] \in Int /\ f[i] = g[i]
    BY <2>1
  <2>3. /\ Total(f, k + 1) = Total(f, k) + f[k + 1]
        /\ Total(g, k + 1) = Total(g, k) + g[k + 1]
    BY <2>2, TotalNext
  <2> QED BY <1>2, <2>1, <2>2, <2>3, k + 1 \in 1..(k + 1)
<1>3. n \in S
  BY <1>1, <1>2, SetInduction
<1> QED BY <1>3

(* Totals add up entry by entry.                                           *)
THEOREM TotalSum ==
  ASSUME NEW f, NEW g, NEW h, NEW n \in Nat,
         \A i \in 1..n : f[i] \in Int /\ g[i] \in Int /\ h[i] = f[i] + g[i]
  PROVE  Total(h, n) = Total(f, n) + Total(g, n)
<1> DEFINE S == {k \in Nat : k <= n => Total(h, k) = Total(f, k) + Total(g, k)}
<1>1. 0 \in S
  BY TotalEmpty
<1>2. ASSUME NEW k \in Nat, k \in S PROVE k + 1 \in S
  <2>1. SUFFICES ASSUME k + 1 <= n
                 PROVE  Total(h, k + 1) = Total(f, k + 1) + Total(g, k + 1)
    OBVIOUS
  <2>2. \A i \in 1..(k + 1) : /\ f[i] \in Int /\ g[i] \in Int /\ h[i] \in Int
                              /\ h[i] = f[i] + g[i]
    BY <2>1
  <2>3. /\ Total(f, k + 1) = Total(f, k) + f[k + 1]
        /\ Total(g, k + 1) = Total(g, k) + g[k + 1]
        /\ Total(h, k + 1) = Total(h, k) + h[k + 1]
    BY <2>2, TotalNext
  <2>4. Total(f, k) \in Int /\ Total(g, k) \in Int
    BY <2>2, TotalType, \A i \in 1..k : i \in 1..(k + 1)
  <2>5. k + 1 \in 1..(k + 1)
    OBVIOUS
  <2>6. Total(h, k) = Total(f, k) + Total(g, k)
    BY <1>2, <2>1
  <2> QED BY <2>2, <2>3, <2>4, <2>5, <2>6
<1>3. n \in S
  BY <1>1, <1>2, SetInduction
<1> QED BY <1>3

(* A total of naturals is a natural, and of zeros it is zero.              *)
THEOREM TotalNatural ==
  ASSUME NEW f, NEW n \in Nat, \A i \in 1..n : f[i] \in Nat
  PROVE  Total(f, n) \in Nat
<1> DEFINE S == {k \in Nat : k <= n => Total(f, k) \in Nat}
<1>1. 0 \in S
  BY TotalEmpty
<1>2. ASSUME NEW k \in Nat, k \in S PROVE k + 1 \in S
  <2>1. SUFFICES ASSUME k + 1 <= n PROVE Total(f, k + 1) \in Nat
    OBVIOUS
  <2>2. Total(f, k + 1) = Total(f, k) + f[k + 1]
    BY <2>1, TotalNext, \A i \in 1..(k + 1) : f[i] \in Int
  <2> QED BY <1>2, <2>1, <2>2, k + 1 \in 1..n
<1>3. n \in S
  BY <1>1, <1>2, SetInduction
<1> QED BY <1>3

\* A total of zeros is zero.
THEOREM TotalZero ==
  ASSUME NEW f, NEW n \in Nat, \A i \in 1..n : f[i] = 0
  PROVE  Total(f, n) = 0
<1> DEFINE S == {k \in Nat : k <= n => Total(f, k) = 0}
<1>1. 0 \in S
  BY TotalEmpty
<1>2. ASSUME NEW k \in Nat, k \in S PROVE k + 1 \in S
  <2>1. SUFFICES ASSUME k + 1 <= n PROVE Total(f, k + 1) = 0
    OBVIOUS
  <2>2. Total(f, k + 1) = Total(f, k) + f[k + 1]
    BY <2>1, TotalNext, \A i \in 1..(k + 1) : f[i] \in Int
  <2> QED BY <1>2, <2>1, <2>2, k + 1 \in 1..n
<1>3. n \in S
  BY <1>1, <1>2, SetInduction
<1> QED BY <1>3

(* One entry that is not zero is the whole total.                          *)
THEOREM TotalSingle ==
  ASSUME NEW f, NEW n \in Nat, NEW i \in 1..n, f[i] \in Int,
         \A k \in 1..n : k # i => f[k] = 0
  PROVE  Total(f, n) = f[i]
<1> DEFINE S == {k \in Nat : i <= k /\ k <= n => Total(f, k) = f[i]}
<1>0. \A k \in 1..n : f[k] \in Int
  OBVIOUS
<1>1. 0 \in S
  OBVIOUS
<1>2. ASSUME NEW k \in Nat, k \in S PROVE k + 1 \in S
  <2>1. SUFFICES ASSUME i <= k + 1, k + 1 <= n PROVE Total(f, k + 1) = f[i]
    OBVIOUS
  <2>2. Total(f, k + 1) = Total(f, k) + f[k + 1]
    BY <1>0, <2>1, TotalNext, \A x \in 1..(k + 1) : f[x] \in Int
  <2>3. CASE i = k + 1
    <3>1. Total(f, k) = 0
      BY <2>1, <2>3, TotalZero, \A x \in 1..k : f[x] = 0
    <3> QED BY <2>2, <2>3, <3>1
  <2>4. CASE i <= k
    <3>1. Total(f, k) = f[i] /\ f[k + 1] = 0
      BY <1>2, <2>1, <2>4
    <3> QED BY <2>2, <3>1
  <2> QED BY <2>1, <2>3, <2>4
<1>3. n \in S
  BY <1>1, <1>2, SetInduction
<1> QED BY <1>3
=============================================================================
