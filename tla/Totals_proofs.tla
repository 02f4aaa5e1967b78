---------------------------- MODULE Totals_proofs ----------------------------
(***************************************************************************)
(* How Total changes when a row is added to a table or updated.  Induction *)
(* is replaced by the least counterexample, which the well-foundedness of  *)
(* the naturals provides, and a sum is handled through its table of        *)
(* running totals: a running table for the old rows gives one for the new. *)
(***************************************************************************)
EXTENDS Totals, WellFoundedInduction, TLAPS

Running(g, f, n) ==
  /\ g \in [0..n -> Int]
  /\ g[0] = 0
  /\ \A i \in 1..n : g[i] = g[i - 1] + f[i]

(* A nonempty set of naturals has a least element. *)
LEMMA LeastNatural ==
  ASSUME NEW T, T \subseteq Nat, T # {}
  PROVE  \E m \in T : \A k \in T : m <= k
<1>1. IsWellFoundedOn(OpToRel(<, Nat), Nat)
  BY NatLessThanWellFounded
<1>2. PICK m \in T : \A k \in T : <<k, m>> \notin OpToRel(<, Nat)
  BY <1>1, WFMin
<1>3. \A k \in T : ~ (k < m)
  BY <1>2 DEF OpToRel
<1> QED
  BY <1>3

(* A table of running totals is the function the recursion defines. *)
LEMMA RunningIsPartialSums ==
  ASSUME NEW n \in Nat, NEW f, NEW g, Running(g, f, n)
  PROVE  PartialSums(f, n) = g
<1> DEFINE Solves(h) == h = [i \in 0..n |-> IF i = 0 THEN 0 ELSE h[i - 1] + f[i]]
<1>1. Solves(PartialSums(f, n))
  <2>1. Solves(g)
    BY DEF Running
  <2>2. PartialSums(f, n) = CHOOSE h : Solves(h)
    BY DEF PartialSums
  <2> QED
    BY <2>1, <2>2
<1>2. ASSUME NEW h, Solves(h) PROVE h = g
  <2> DEFINE Differ == {i \in 0..n : h[i] # g[i]}
  <2>1. SUFFICES ASSUME Differ # {} PROVE FALSE
    <3>1. \A i \in 0..n : h[i] = g[i]
      BY <2>1
    <3> QED
      BY <3>1, <1>2 DEF Running
  <2>2. PICK m \in Differ : \A k \in Differ : m <= k
    <3>1. Differ \subseteq Nat
      OBVIOUS
    <3> HIDE DEF Differ
    <3> QED
      BY <2>1, <3>1, LeastNatural
  <2>3. m # 0
    BY <1>2, <2>2 DEF Running
  <2>4. h[m - 1] = g[m - 1]
    BY <2>2, <2>3
  <2> QED
    BY <1>2, <2>2, <2>3, <2>4 DEF Running
<1> QED
  BY <1>1, <1>2

(* Every table of integers has running totals. *)
LEMMA RunningExists ==
  ASSUME NEW N \in Nat, NEW f \in [1..N -> Int]
  PROVE  \A n \in 0..N : \E g : Running(g, f, n)
<1> DEFINE Lacking == {i \in 0..N : ~ \E g : Running(g, f, i)}
<1>1. SUFFICES ASSUME Lacking # {} PROVE FALSE
  BY <1>1
<1>2. PICK m \in Lacking : \A k \in Lacking : m <= k
  <2>1. Lacking \subseteq Nat
    OBVIOUS
  <2> HIDE DEF Lacking
  <2> QED
    BY <1>1, <2>1, LeastNatural
<1>3. m # 0
  <2>1. Running([i \in 0..0 |-> 0], f, 0)
    BY DEF Running
  <2> QED
    BY <2>1
<1>4. PICK g : Running(g, f, m - 1)
  BY <1>2, <1>3
<1>5. Running([i \in 0..m |-> IF i = m THEN g[m - 1] + f[m] ELSE g[i]], f, m)
  BY <1>3, <1>4 DEF Running
<1> QED
  BY <1>5, <1>2

LEMMA TotalIsRunning ==
  ASSUME NEW n \in Nat, NEW f, NEW g, Running(g, f, n)
  PROVE  Total(f, n) = g[n]
BY RunningIsPartialSums DEF Total

LEMMA TotalType ==
  ASSUME NEW n \in Nat, NEW f \in [1..n -> Int]
  PROVE  Total(f, n) \in Int
<1>1. PICK g : Running(g, f, n)
  BY RunningExists
<1>2. Total(f, n) = g[n]
  BY <1>1, TotalIsRunning
<1> QED
  BY <1>1, <1>2 DEF Running

LEMMA TotalOfNone ==
  ASSUME NEW f
  PROVE  Total(f, 0) = 0
<1>1. Running([i \in 0..0 |-> 0], f, 0)
  BY DEF Running
<1> QED
  BY <1>1, TotalIsRunning

LEMMA TotalOfZeros ==
  ASSUME NEW n \in Nat, NEW f, \A i \in 1..n : f[i] = 0
  PROVE  Total(f, n) = 0
<1>1. Running([i \in 0..n |-> 0], f, n)
  BY DEF Running
<1> QED
  BY <1>1, TotalIsRunning

(* Inserting a row adds its value. *)
LEMMA TotalOfInsert ==
  ASSUME NEW n \in Nat, NEW f \in [1..n -> Int], NEW h \in [1..n + 1 -> Int],
         \A i \in 1..n : h[i] = f[i]
  PROVE  Total(h, n + 1) = Total(f, n) + h[n + 1]
<1>1. PICK g : Running(g, f, n)
  BY RunningExists
<1> DEFINE longer == [i \in 0..n + 1 |-> IF i = n + 1 THEN g[n] + h[n + 1] ELSE g[i]]
<1>2. Running(longer, h, n + 1)
  <2>1. longer \in [0..n + 1 -> Int] /\ longer[0] = 0
    BY <1>1 DEF Running
  <2>2. \A i \in 1..n + 1 : longer[i] = longer[i - 1] + h[i]
    BY <1>1 DEF Running
  <2> QED
    BY <2>1, <2>2 DEF Running
<1>3. Total(h, n + 1) = longer[n + 1]
  <2> HIDE DEF longer
  <2> QED
    BY <1>2, TotalIsRunning
<1>4. Total(f, n) = g[n]
  BY <1>1, TotalIsRunning
<1> QED
  BY <1>3, <1>4

(* Updating a row moves the sum by the difference. *)
LEMMA TotalOfUpdate ==
  ASSUME NEW n \in Nat, NEW f \in [1..n -> Int], NEW h \in [1..n -> Int],
         NEW j \in 1..n, \A i \in 1..n : i # j => h[i] = f[i]
  PROVE  Total(h, n) = Total(f, n) + h[j] - f[j]
<1>1. PICK g : Running(g, f, n)
  BY RunningExists
<1> DEFINE moved == [i \in 0..n |-> IF i < j THEN g[i] ELSE g[i] + (h[j] - f[j])]
<1>a. g \in [0..n -> Int] /\ g[0] = 0 /\ \A i \in 1..n : g[i] = g[i - 1] + f[i]
  BY <1>1 DEF Running
<1>b. h[j] \in Int /\ f[j] \in Int /\ h[j] - f[j] \in Int
  OBVIOUS
<1>2. Running(moved, h, n)
  <2>1. moved \in [0..n -> Int] /\ moved[0] = 0
    <3>1. ASSUME NEW i \in 0..n PROVE g[i] \in Int /\ g[i] + (h[j] - f[j]) \in Int
      <4>1. g[i] \in Int
        BY <1>a
      <4>2. ASSUME NEW d \in Int PROVE g[i] + d \in Int
        BY <4>1
      <4> QED
        BY <1>b, <4>1, <4>2
    <3>2. 0 < j /\ 0 \in 0..n
      OBVIOUS
    <3> QED
      BY <1>a, <3>1, <3>2
  <2>2. ASSUME NEW i \in 1..n PROVE moved[i] = moved[i - 1] + h[i]
    <3>1. g[i] \in Int /\ g[i - 1] \in Int /\ h[i] \in Int /\ f[i] \in Int
      BY <1>a
    <3>2. g[i] = g[i - 1] + f[i]
      BY <1>a
    <3>3. CASE i < j
      BY <1>b, <3>1, <3>2, <3>3
    <3>4. CASE i = j
      BY <1>b, <3>1, <3>2, <3>4
    <3>5. CASE i > j
      BY <1>b, <3>1, <3>2, <3>5
    <3> QED
      BY <3>3, <3>4, <3>5
  <2> QED
    BY <2>1, <2>2 DEF Running
<1>3. Total(h, n) = moved[n]
  <2> HIDE DEF moved
  <2> QED
    BY <1>2, TotalIsRunning
<1>4. Total(f, n) = g[n]
  BY <1>1, TotalIsRunning
<1>5. moved[n] = g[n] + (h[j] - f[j]) /\ g[n] \in Int
  BY <1>a
<1> QED
  BY <1>3, <1>4, <1>5, <1>b

(* Tables that agree have the same sum. *)
LEMMA TotalOfSame ==
  ASSUME NEW n \in Nat, NEW f \in [1..n -> Int], NEW h,
         \A i \in 1..n : h[i] = f[i]
  PROVE  Total(h, n) = Total(f, n)
<1>1. PICK g : Running(g, f, n)
  BY RunningExists
<1>2. Running(g, h, n)
  BY <1>1 DEF Running
<1> QED
  BY <1>1, <1>2, TotalIsRunning

(* No row of naturals exceeds the sum. *)
LEMMA TotalBoundsRow ==
  ASSUME NEW n \in Nat, NEW f \in [1..n -> Nat], NEW j \in 1..n
  PROVE  f[j] <= Total(f, n)
<1>1. PICK g : Running(g, f, n)
  BY RunningExists
<1> DEFINE Low == {i \in 0..n : ~ (g[i] >= 0 /\ (j <= i => f[j] <= g[i]))}
<1>2. Low = {}
  <2>1. SUFFICES ASSUME Low # {} PROVE FALSE
    OBVIOUS
  <2>2. PICK m \in Low : \A k \in Low : m <= k
    <3>1. Low \subseteq Nat
      OBVIOUS
    <3> HIDE DEF Low
    <3> QED
      BY <2>1, <3>1, LeastNatural
  <2>3. m # 0
    BY <1>1, <2>2 DEF Running
  <2>4. m - 1 \in 0..n /\ m - 1 \notin Low
    BY <2>2, <2>3
  <2>5. g[m] = g[m - 1] + f[m] /\ g[m - 1] \in Int /\ f[m] \in Nat
    BY <1>1, <2>2, <2>3 DEF Running
  <2> QED
    BY <2>2, <2>3, <2>4, <2>5
<1>3. f[j] <= g[n]
  BY <1>2
<1>4. Total(f, n) = g[n]
  BY <1>1, TotalIsRunning
<1> QED
  BY <1>3, <1>4
=============================================================================
