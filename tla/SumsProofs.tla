----------------------------- MODULE SumsProofs -----------------------------
(***************************************************************************)
(* Lemmas about sums of any number of parts, for the money that the escrow *)
(* contract owes and the money that allocateByShares splits.               *)
(***************************************************************************)
EXTENDS Sums, TLAPS, WellFoundedInduction

-----------------------------------------------------------------------------
(***************************************************************************)
(* Natural numbers.  Induction is stated of a set, whose least missing     *)
(* number is what the well-foundedness of < rules out.                     *)
(***************************************************************************)
\* A set of natural numbers that has any has a least one.
LEMMA LeastNumber ==
    ASSUME NEW T, T \subseteq Nat, T # {}
    PROVE  \E m \in T : \A n \in T : m <= n
  <1> DEFINE R == OpToRel(<, Nat)
  <1>1. IsWellFoundedOn(R, Nat)
    BY NatLessThanWellFounded
  <1>2. PICK m \in T : \A n \in T : ~(<<n, m>> \in R)
    <2> HIDE DEF R
    <2> QED
      BY <1>1, WFMin
  <1>3. \A n \in T : ~(n < m)
    BY <1>2 DEF OpToRel
  <1> QED
    BY <1>3

\* A set with 0, and with n + 1 for each of its n, is all of them.
LEMMA SetInduction ==
    ASSUME NEW S, 0 \in S, \A n \in Nat : n \in S => n + 1 \in S
    PROVE  \A n \in Nat : n \in S
  <1> SUFFICES ASSUME Nat \ S # {} PROVE FALSE
    OBVIOUS
  <1>1. PICK m \in Nat \ S : \A n \in Nat \ S : m <= n
    BY LeastNumber
  <1>2. m # 0 /\ m - 1 \in Nat /\ (m - 1) + 1 = m /\ ~(m <= m - 1)
    OBVIOUS
  <1>3. m - 1 \in S
    BY <1>1, <1>2
  <1> QED
    BY <1>2, <1>3

-----------------------------------------------------------------------------
(***************************************************************************)
(* Sums, part by part: the recursive function is the one that IsSum says.   *)
(***************************************************************************)
\* f is the sums of the first parts.
IsSum(f, parts, n) ==
    /\ parts \in [1..n -> Int] /\ f \in [0..n -> Int]
    /\ f[0] = 0 /\ \A i \in 1..n : f[i] = f[i - 1] + parts[i]

\* The sums exist, by induction.
LEMMA SumExists ==
    ASSUME NEW n \in Nat, NEW parts \in [1..n -> Int]
    PROVE  \E f \in [0..n -> Int] : IsSum(f, parts, n)
  <1> DEFINE Adds(f, k) == f[0] = 0 /\ \A i \in 1..k : f[i] = f[i - 1] + parts[i]
             S == {k \in Nat : k <= n => \E f \in [0..k -> Int] : Adds(f, k)}
  <1>1. 0 \in S
    <2> DEFINE f == [i \in 0..0 |-> 0]
    <2>1. f \in [0..0 -> Int] /\ Adds(f, 0)
      OBVIOUS
    <2> QED
      BY <2>1
  <1>2. ASSUME NEW k \in Nat, k \in S PROVE k + 1 \in S
    <2>1. ASSUME k + 1 <= n PROVE \E g \in [0..(k + 1) -> Int] : Adds(g, k + 1)
      <3>1. PICK f \in [0..k -> Int] : Adds(f, k)
        <4>1. k <= n
          BY <2>1
        <4> HIDE DEF Adds
        <4> QED
          BY <1>2, <4>1
      <3>2. parts[k + 1] \in Int
        BY <2>1
      <3> DEFINE g == [i \in 0..(k + 1) |->
                          IF i = k + 1 THEN f[k] + parts[k + 1] ELSE f[i]]
      <3>3. g \in [0..(k + 1) -> Int]
        <4>1. k \in 0..k /\ f[k] + parts[k + 1] \in Int
          BY <3>2
        <4>2. \A i \in 0..(k + 1) : i # k + 1 => i \in 0..k
          OBVIOUS
        <4> HIDE DEF Adds
        <4> QED
          BY <4>1, <4>2
      <3>4. Adds(g, k + 1)
        <4>1. g[0] = 0
          BY <3>1
        <4>2. ASSUME NEW i \in 1..(k + 1) PROVE g[i] = g[i - 1] + parts[i]
          <5>1. i - 1 \in 0..k /\ g[i - 1] = f[i - 1]
            OBVIOUS
          <5>2. CASE i = k + 1
            BY <5>1, <5>2
          <5>3. CASE i # k + 1
            <6>1. i \in 1..k /\ g[i] = f[i]
              BY <5>3
            <6> QED
              BY <3>1, <5>1, <6>1
          <5> QED
            BY <5>2, <5>3
        <4> QED
          BY <4>1, <4>2
      <3> QED
        BY <3>3, <3>4
    <2> HIDE DEF Adds
    <2> QED
      BY <2>1
  <1>3. n \in S
    <2> HIDE DEF S
    <2> QED
      BY <1>1, <1>2, SetInduction
  <1> QED
    BY <1>3 DEF IsSum

\* So Sum is what its definition says.
LEMMA SumUnfolds ==
    ASSUME NEW n \in Nat, NEW parts \in [1..n -> Int]
    PROVE  /\ Len(parts) = n
           /\ IsSum(SumUpTo(parts), parts, n)
           /\ Sum(parts) = SumUpTo(parts)[n]
  <1>1. Len(parts) = n
    OBVIOUS
  <1>2. PICK f \in [0..n -> Int] : IsSum(f, parts, n)
    BY SumExists
  <1>3. f = [i \in 0..n |-> IF i = 0 THEN 0 ELSE f[i - 1] + parts[i]]
    BY <1>2 DEF IsSum
  <1> DEFINE u == SumUpTo(parts)
  <1>4. u = [i \in 0..n |-> IF i = 0 THEN 0 ELSE u[i - 1] + parts[i]]
    BY <1>1, <1>3 DEF SumUpTo
  <1> HIDE DEF u
  <1>5. u[0] = 0 /\ \A i \in 1..n : u[i] = u[i - 1] + parts[i]
    BY <1>4
  <1> DEFINE S == {k \in Nat : k <= n => u[k] \in Int}
  <1>6. 0 \in S
    BY <1>4
  <1>7. ASSUME NEW k \in Nat, k \in S PROVE k + 1 \in S
    <2>1. k + 1 <= n => u[k + 1] = u[k] + parts[k + 1] /\ parts[k + 1] \in Int
      BY <1>5
    <2> QED
      BY <1>7, <2>1
  <1>8. \A k \in Nat : k \in S
    <2> HIDE DEF S
    <2> QED
      BY <1>6, <1>7, SetInduction
  <1>9. u \in [0..n -> Int]
    <2>1. \A k \in 0..n : u[k] \in Int
      BY <1>8
    <2>2. u = [k \in 0..n |-> u[k]]
      BY <1>4
    <2> QED
      BY <2>1, <2>2
  <1> QED
    BY <1>1, <1>5, <1>9 DEF Sum, u, IsSum

\* A step of a sum, and where its values are.
LEMMA SumStep ==
    ASSUME NEW n \in Nat, NEW parts, NEW f, IsSum(f, parts, n),
           NEW i \in Nat, i + 1 <= n
    PROVE  /\ f[i + 1] = f[i] + parts[i + 1]
           /\ f[i] \in Int /\ parts[i + 1] \in Int
  <1>1. i + 1 \in 1..n /\ (i + 1) - 1 = i /\ i \in 0..n
    OBVIOUS
  <1> QED
    BY <1>1 DEF IsSum

\* Sums of the same parts are the same.
LEMMA SumOfSame ==
    ASSUME NEW n \in Nat, NEW m \in 0..n, NEW f, NEW g, NEW a, NEW b,
           IsSum(f, a, n), IsSum(g, b, n), \A i \in 1..m : a[i] = b[i]
    PROVE  f[m] = g[m]
  <1> DEFINE S == {i \in Nat : i <= m => f[i] = g[i]}
  <1>1. 0 \in S
    BY DEF IsSum
  <1>2. ASSUME NEW i \in Nat, i \in S PROVE i + 1 \in S
    <2> SUFFICES ASSUME i + 1 <= m PROVE f[i + 1] = g[i + 1]
      OBVIOUS
    <2>1. f[i + 1] = f[i] + a[i + 1] /\ g[i + 1] = g[i] + b[i + 1]
      BY SumStep
    <2>2. f[i] = g[i] /\ a[i + 1] = b[i + 1]
      BY <1>2
    <2> QED
      BY <2>1, <2>2
  <1>3. m \in S
    <2> HIDE DEF S
    <2> QED
      BY <1>1, <1>2, SetInduction
  <1> QED
    BY <1>3

-----------------------------------------------------------------------------
\* Parts that are not negative sum up to no less than any one of them.
LEMMA SumCovers ==
    ASSUME NEW n \in Nat, NEW parts \in [1..n -> Nat]
    PROVE  /\ Sum(parts) \in Nat
           /\ \A i \in 1..n : parts[i] <= Sum(parts)
  <1> DEFINE u == SumUpTo(parts)
  <1>1. IsSum(u, parts, n) /\ Sum(parts) = u[n]
    BY SumUnfolds
  <1> DEFINE S == {k \in Nat : k <= n => u[k] >= 0 /\ \A i \in 1..k : parts[i] <= u[k]}
  <1> HIDE DEF u
  <1>2. 0 \in S
    BY <1>1 DEF IsSum
  <1>3. ASSUME NEW k \in Nat, k \in S PROVE k + 1 \in S
    <2> SUFFICES ASSUME k + 1 <= n
                 PROVE  u[k + 1] >= 0 /\ \A i \in 1..(k + 1) : parts[i] <= u[k + 1]
      OBVIOUS
    <2>1. u[k + 1] = u[k] + parts[k + 1] /\ u[k] \in Int /\ parts[k + 1] \in Nat
      BY <1>1, SumStep
    <2>2. u[k] >= 0 /\ \A i \in 1..k : parts[i] <= u[k]
      BY <1>3
    <2>3. \A i \in 1..(k + 1) : i \in 1..k \/ i = k + 1
      OBVIOUS
    <2>4. \A i \in 1..k : parts[i] \in Nat
      OBVIOUS
    <2> QED
      BY <2>1, <2>2, <2>3, <2>4
  <1>4. n \in S
    <2> HIDE DEF S
    <2> QED
      BY <1>2, <1>3, SetInduction
  <1>5. u[n] \in Int
    BY <1>1 DEF IsSum
  <1> QED
    BY <1>1, <1>4, <1>5

\* The same for Sum itself.
LEMMA SumSteps ==
    ASSUME NEW n \in Nat, NEW parts \in [1..n -> Int]
    PROVE  /\ SumUpTo(parts)[0] = 0
           /\ Sum(parts) = SumUpTo(parts)[n]
           /\ \A k \in Nat : k + 1 <= n =>
                 /\ SumUpTo(parts)[k + 1] = SumUpTo(parts)[k] + parts[k + 1]
                 /\ SumUpTo(parts)[k] \in Int /\ parts[k + 1] \in Int
  <1> DEFINE u == SumUpTo(parts)
  <1>1. IsSum(u, parts, n) /\ Sum(parts) = u[n]
    BY SumUnfolds
  <1> HIDE DEF u
  <1>2. u[0] = 0
    BY <1>1 DEF IsSum
  <1>3. \A k \in Nat : k + 1 <= n =>
           u[k + 1] = u[k] + parts[k + 1] /\ u[k] \in Int /\ parts[k + 1] \in Int
    BY <1>1, SumStep
  <1> QED
    BY <1>1, <1>2, <1>3 DEF u

\* When one part changes, the sum changes by as much.
LEMMA SumOfChanged ==
    ASSUME NEW n \in Nat, NEW p \in [1..n -> Int], NEW q \in [1..n -> Int],
           NEW c \in 1..n, NEW amt \in Int, q[c] = p[c] + amt,
           \A i \in 1..n : i # c => q[i] = p[i]
    PROVE  Sum(q) = Sum(p) + amt
  <1> DEFINE u == SumUpTo(p)
             v == SumUpTo(q)
  <1>1. /\ u[0] = 0 /\ Sum(p) = u[n]
        /\ \A k \in Nat : k + 1 <= n =>
              u[k + 1] = u[k] + p[k + 1] /\ u[k] \in Int /\ p[k + 1] \in Int
    BY SumSteps
  <1>2. /\ v[0] = 0 /\ Sum(q) = v[n]
        /\ \A k \in Nat : k + 1 <= n => v[k + 1] = v[k] + q[k + 1]
    BY SumSteps
  <1> DEFINE S == {k \in Nat : k <= n => v[k] = IF c <= k THEN u[k] + amt ELSE u[k]}
  <1> HIDE DEF u, v
  <1>3. 0 \in S
    BY <1>1, <1>2
  <1>4. ASSUME NEW k \in Nat, k \in S PROVE k + 1 \in S
    <2> SUFFICES ASSUME k + 1 <= n
                 PROVE  v[k + 1] = IF c <= k + 1 THEN u[k + 1] + amt ELSE u[k + 1]
      OBVIOUS
    <2>1. /\ u[k + 1] = u[k] + p[k + 1] /\ u[k] \in Int /\ p[k + 1] \in Int
          /\ v[k + 1] = v[k] + q[k + 1]
      <3> HIDE DEF S
      <3> QED
        BY <1>1, <1>2
    <2>2. v[k] = IF c <= k THEN u[k] + amt ELSE u[k]
      BY <1>4
    <2>3. q[k + 1] = IF k + 1 = c THEN p[k + 1] + amt ELSE p[k + 1]
      <3> HIDE DEF S
      <3>1. k + 1 \in 1..n
        OBVIOUS
      <3> QED
        BY <3>1
    <2> QED
      <3>1. CASE k + 1 = c
        BY <2>1, <2>2, <2>3, <3>1
      <3>2. CASE k + 1 # c
        BY <2>1, <2>2, <2>3, <3>2
      <3> QED
        BY <3>1, <3>2
  <1>5. n \in S
    <2> HIDE DEF S
    <2> QED
      BY <1>3, <1>4, SetInduction
  <1> QED
    BY <1>1, <1>2, <1>5

\* Nothing sums up to nothing.
LEMMA SumOfNothing ==
    ASSUME NEW n \in Nat, NEW p \in [1..n -> Int], \A i \in 1..n : p[i] = 0
    PROVE  Sum(p) = 0
  <1> DEFINE u == SumUpTo(p)
             S == {k \in Nat : k <= n => u[k] = 0}
  <1>1. IsSum(u, p, n) /\ Sum(p) = u[n]
    BY SumUnfolds
  <1> HIDE DEF u
  <1>2. 0 \in S
    BY <1>1 DEF IsSum
  <1>3. ASSUME NEW k \in Nat, k \in S PROVE k + 1 \in S
    <2> SUFFICES ASSUME k + 1 <= n PROVE u[k + 1] = 0
      OBVIOUS
    <2>1. u[k + 1] = u[k] + p[k + 1] /\ u[k] = 0 /\ p[k + 1] = 0
      BY <1>1, <1>3, SumStep
    <2> QED
      BY <2>1
  <1>4. n \in S
    <2> HIDE DEF S
    <2> QED
      BY <1>2, <1>3, SetInduction
  <1> QED
    BY <1>1, <1>4
=============================================================================
