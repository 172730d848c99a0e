-------------------------- MODULE GMThreads_proofs --------------------------
(***************************************************************************)
(* Proofs about GMThreads, for any number of threads, signals, delays and  *)
(* nested calls: every thread is in the list of its state, Execute skips   *)
(* none, blocks and states agree, sleepers wake on time, and every fault   *)
(* has the cause that FaultsExplained names.                               *)
(***************************************************************************)
EXTENDS GMThreads, SequenceTheorems, FiniteSetTheorems, WellFoundedInduction, TLAPS

-----------------------------------------------------------------------------
(* Lists *)

\* A set of natural numbers that is not empty has a least one.
LEMMA LeastNumber ==
  ASSUME NEW S \in SUBSET Nat, S # {}
  PROVE  \E x \in S : \A y \in S : x <= y
<1>1. PICK x \in S : \A y \in S : <<y, x>> \notin OpToRel(<, Nat)
  BY NatLessThanWellFounded, WFMin, Zenon
<1>2. \A y \in S : y < x => <<y, x>> \in OpToRel(<, Nat)
  BY Zenon DEF OpToRel
<1>3. \A y \in S : ~(y < x)
  BY <1>1, <1>2, Zenon
<1> QED BY <1>3

\* Induction: a set of numbers with 0 that is closed under successor up to n.
LEMMA UpTo ==
  ASSUME NEW n \in Nat, NEW S, 0 \in S, \A i \in 1..n : i - 1 \in S => i \in S
  PROVE  \A i \in 0..n : i \in S
<1> DEFINE B == {i \in 0..n : i \notin S}
<1> SUFFICES B = {}
  OBVIOUS
<1>1. SUFFICES ASSUME B # {} PROVE FALSE
  OBVIOUS
<1>2. B \in SUBSET Nat
  OBVIOUS
<1>3. PICK x \in B : \A y \in B : x <= y
  <2> HIDE DEF B
  <2> QED BY <1>1, <1>2, LeastNumber
<1>4. x \in 1..n /\ x - 1 \in 0..n /\ ~(x <= x - 1)
  BY <1>3
<1>5. x - 1 \in S
  BY <1>3, <1>4
<1> QED BY <1>3, <1>4, <1>5

\* One step of the function that Without builds.
KeepAt(f, s, K, i) ==
    IF i = 0 THEN << >> ELSE IF s[i] \in K THEN f[i - 1] ELSE Append(f[i - 1], s[i])

Keeps(f, s, K, n) == f = [i \in 0..n |-> KeepAt(f, s, K, i)]

\* The recursive function that defines Without exists.
LEMMA KeepsExists ==
  ASSUME NEW s, NEW K, NEW n \in Nat
  PROVE  \E f : Keeps(f, s, K, n)
<1> DEFINE S == {m \in 0..n : \E f : Keeps(f, s, K, m)}
<1>1. 0 \in S
  <2>1. Keeps([i \in 0..0 |-> << >>], s, K, 0)
    BY DEF Keeps, KeepAt
  <2> QED BY <2>1
<1>2. ASSUME NEW m \in 1..n, m - 1 \in S PROVE m \in S
  <2>1. PICK f : Keeps(f, s, K, m - 1)
    BY <1>2
  <2> DEFINE g == [i \in 0..m |-> IF i = m THEN KeepAt(f, s, K, m) ELSE f[i]]
  <2>2. \A i \in 0..(m - 1) : f[i] = KeepAt(f, s, K, i)
    BY <2>1 DEF Keeps
  <2>3. \A i \in 0..m : g[i] = KeepAt(g, s, K, i)
    <3> TAKE i \in 0..m
    <3>1. CASE i = 0
      BY <3>1, <2>2 DEF KeepAt
    <3>2. CASE i # 0 /\ i # m
      <4>1. i - 1 \in 0..m /\ i - 1 # m /\ i \in 0..(m-1)
        BY <3>2
      <4> QED BY <3>2, <4>1, <2>2 DEF KeepAt
    <3>3. CASE i # 0 /\ i = m
      <4>1. i - 1 \in 0..m /\ i - 1 # m
        BY <3>3
      <4> QED BY <3>3, <4>1 DEF KeepAt
    <3> QED BY <3>1, <3>2, <3>3
  <2>4. Keeps(g, s, K, m)
    BY <2>3 DEF Keeps
  <2> QED BY <2>4
<1> HIDE DEF S
<1>3. n \in S
  BY <1>1, <1>2, UpTo
<1> QED BY <1>3 DEF S

\* Without is the last value of that function.
LEMMA WithoutKeeps ==
  ASSUME NEW s, NEW K, Len(s) \in Nat
  PROVE  \E f : Keeps(f, s, K, Len(s)) /\ Without(s, K) = f[Len(s)]
<1> DEFINE g == CHOOSE f : f = [i \in 0..Len(s) |-> KeepAt(f, s, K, i)]
<1>1. Keeps(g, s, K, Len(s))
  BY KeepsExists DEF Keeps
<1>2. Without(s, K) = g[Len(s)]
  BY Zenon DEF Without, KeepAt
<1> QED BY <1>1, <1>2

\* u is what is left of s without K: e tells where each item of u was.
Picked(e, u, s, K, n) ==
    /\ e \in [1..Len(u) -> 1..n]
    /\ \A i \in 1..Len(u) : u[i] = s[e[i]] /\ s[e[i]] \notin K
    /\ \A i, j \in 1..Len(u) : i < j => e[i] < e[j]
    /\ \A k \in 1..n : s[k] \notin K => \E i \in 1..Len(u) : e[i] = k

\* The next item is left out, ...
LEMMA PickedDropped ==
  ASSUME NEW T, NEW s \in Seq(T), NEW K, NEW n \in 1..Len(s), NEW u \in Seq(T), NEW e,
         Picked(e, u, s, K, n - 1), s[n] \in K
  PROVE  Picked(e, u, s, K, n)
<1>1. Len(u) \in Nat /\ n \in Nat
  OBVIOUS
<1>2. e \in [1..Len(u) -> 1..n]
  BY <1>1 DEF Picked
<1>3. \A k \in 1..n : s[k] \notin K => \E i \in 1..Len(u) : e[i] = k
  <2> SUFFICES ASSUME NEW k \in 1..n, s[k] \notin K PROVE \E i \in 1..Len(u) : e[i] = k
    OBVIOUS
  <2>1. k \in 1..(n - 1)
    OBVIOUS
  <2> QED BY <2>1 DEF Picked
<1> QED BY <1>2, <1>3 DEF Picked

\* ... or it comes last.
LEMMA PickedAppended ==
  ASSUME NEW T, NEW s \in Seq(T), NEW K, NEW n \in 1..Len(s), NEW u \in Seq(T), NEW e,
         Picked(e, u, s, K, n - 1), s[n] \notin K
  PROVE  \E d : Picked(d, Append(u, s[n]), s, K, n)
<1> DEFINE v == Append(u, s[n])
           d == [i \in 1..(Len(u) + 1) |-> IF i = Len(u) + 1 THEN n ELSE e[i]]
<1>1. Len(u) \in Nat /\ n \in Nat /\ s[n] \in T
  OBVIOUS
<1>2. /\ Len(v) = Len(u) + 1 /\ v[Len(u) + 1] = s[n]
      /\ \A i \in 1..Len(u) : v[i] = u[i]
  BY <1>1
<1>3. \A i \in 1..Len(u) : d[i] = e[i] /\ e[i] \in 1..(n - 1)
  BY <1>1 DEF Picked
<1>4. d[Len(u) + 1] = n
  BY <1>1
<1> HIDE DEF v, d
<1>5. d \in [1..Len(v) -> 1..n]
  <2>1. \A i \in 1..(Len(u) + 1) : d[i] \in 1..n
    BY <1>1, <1>3, <1>4
  <2> QED BY <2>1, <1>2 DEF d
<1>6. \A i \in 1..Len(v) : v[i] = s[d[i]] /\ s[d[i]] \notin K
  <2> TAKE i \in 1..Len(v)
  <2>1. CASE i = Len(u) + 1
    BY <2>1, <1>2, <1>4
  <2>2. CASE i # Len(u) + 1
    <3>1. i \in 1..Len(u)
      BY <2>2, <1>1, <1>2
    <3> QED BY <3>1, <1>2, <1>3 DEF Picked
  <2> QED BY <2>1, <2>2
<1>7. \A i, j \in 1..Len(v) : i < j => d[i] < d[j]
  <2> SUFFICES ASSUME NEW i \in 1..Len(v), NEW j \in 1..Len(v), i < j PROVE d[i] < d[j]
    OBVIOUS
  <2>1. i \in 1..Len(u)
    BY <1>1, <1>2
  <2>2. CASE j = Len(u) + 1
    BY <2>1, <2>2, <1>1, <1>3, <1>4
  <2>3. CASE j # Len(u) + 1
    <3>1. j \in 1..Len(u)
      BY <2>3, <1>1, <1>2
    <3> QED BY <2>1, <3>1, <1>3 DEF Picked
  <2> QED BY <2>2, <2>3
<1>8. \A k \in 1..n : s[k] \notin K => \E i \in 1..Len(v) : d[i] = k
  <2> SUFFICES ASSUME NEW k \in 1..n, s[k] \notin K PROVE \E i \in 1..Len(v) : d[i] = k
    OBVIOUS
  <2>1. CASE k = n
    <3>1. Len(u) + 1 \in 1..Len(v)
      BY <1>1, <1>2
    <3> QED BY <3>1, <2>1, <1>4
  <2>2. CASE k # n
    <3>1. k \in 1..(n - 1)
      BY <2>2
    <3>2. PICK i \in 1..Len(u) : e[i] = k
      BY <3>1 DEF Picked
    <3>3. i \in 1..Len(v)
      BY <1>1, <1>2
    <3> QED BY <3>2, <3>3, <1>3
  <2> QED BY <2>1, <2>2
<1>9. Picked(d, v, s, K, n)
  BY <1>5, <1>6, <1>7, <1>8 DEF Picked
<1> QED BY <1>9 DEF v

\* So Without leaves the items that are not in K, in their order.
LEMMA WithoutPicks ==
  ASSUME NEW T, NEW s \in Seq(T), NEW K
  PROVE  Without(s, K) \in Seq(T) /\ \E e : Picked(e, Without(s, K), s, K, Len(s))
<1>1. Len(s) \in Nat
  OBVIOUS
<1>2. PICK f : Keeps(f, s, K, Len(s)) /\ Without(s, K) = f[Len(s)]
  BY <1>1, WithoutKeeps
<1>3. \A i \in 0..Len(s) : f[i] = KeepAt(f, s, K, i)
  BY <1>2 DEF Keeps
<1> DEFINE S == {i \in 0..Len(s) : f[i] \in Seq(T) /\ \E e : Picked(e, f[i], s, K, i)}
<1>4. 0 \in S
  <2>1. f[0] = << >>
    BY <1>1, <1>3 DEF KeepAt
  <2>2. Picked([i \in 1..0 |-> 1], << >>, s, K, 0)
    BY DEF Picked
  <2>3. \E e : Picked(e, f[0], s, K, 0)
    BY <2>1, <2>2
  <2>4. f[0] \in Seq(T) /\ 0 \in 0..Len(s)
    BY <1>1, <2>1
  <2> QED BY <2>3, <2>4
<1>5. ASSUME NEW n \in 1..Len(s), n - 1 \in S PROVE n \in S
  <2>1. PICK u \in Seq(T) : u = f[n - 1] /\ \E e : Picked(e, u, s, K, n - 1)
    BY <1>5
  <2>2. PICK e : Picked(e, u, s, K, n - 1)
    BY <2>1
  <2>3. n \in 0..Len(s) /\ n # 0 /\ s[n] \in T
    BY <1>1
  <2>4. CASE s[n] \in K
    <3>1. f[n] = u
      BY <2>1, <2>3, <2>4, <1>3 DEF KeepAt
    <3>2. Picked(e, u, s, K, n)
      BY <2>2, <2>4, PickedDropped
    <3> QED BY <2>3, <3>1, <3>2
  <2>5. CASE s[n] \notin K
    <3>1. f[n] = Append(u, s[n])
      BY <2>1, <2>3, <2>5, <1>3 DEF KeepAt
    <3>2. \E d : Picked(d, Append(u, s[n]), s, K, n)
      BY <2>2, <2>5, PickedAppended
    <3>3. Append(u, s[n]) \in Seq(T)
      BY <2>3
    <3> QED BY <2>3, <3>1, <3>2, <3>3
  <2> QED BY <2>4, <2>5
<1> HIDE DEF S
<1>6. Len(s) \in S
  <2>1. \A n \in 1..Len(s) : n - 1 \in S => n \in S
    BY <1>5
  <2>2. \A n \in 0..Len(s) : n \in S
    BY <1>1, <1>4, <2>1, UpTo
  <2> QED BY <1>1, <2>2
<1> QED BY <1>2, <1>6 DEF S

\* That a list holds each of the threads S once, its positions show.
LEMMA ListPositions ==
  ASSUME NEW s, NEW S
  PROVE  Lists(s, S) <=>
           /\ s \in Seq(Threads)
           /\ \A i, j \in 1..Len(s) : s[i] = s[j] => i = j
           /\ \A i \in 1..Len(s) : s[i] \in S
           /\ \A t \in S : \E i \in 1..Len(s) : s[i] = t
<1>1. s \in Seq(Threads) => DOMAIN s = 1..Len(s)
  OBVIOUS
<1>2. ASSUME s \in Seq(Threads)
      PROVE  Range(s) = S <=> /\ \A i \in 1..Len(s) : s[i] \in S
                              /\ \A t \in S : \E i \in 1..Len(s) : s[i] = t
  BY <1>1, <1>2, Zenon DEF Range
<1>3. ASSUME s \in Seq(Threads)
      PROVE  IsInjective(s) <=> \A i, j \in 1..Len(s) : s[i] = s[j] => i = j
  BY <1>1, <1>3, Zenon DEF IsInjective
<1> QED BY <1>2, <1>3, Zenon DEF Lists

\* What a list holds are threads.
LEMMA ListsThreads ==
  ASSUME NEW s, NEW S, Lists(s, S)
  PROVE  S \in SUBSET Threads /\ Len(s) \in Nat /\ s \in Seq(Threads)
  BY ListPositions

\* The empty list.
LEMMA ListsEmpty == Lists(<< >>, {})
<1>1. << >> \in Seq(Threads) /\ Len(<< >>) = 0
  OBVIOUS
<1>2. PICK s \in Seq(Threads) : s = << >> /\ Len(s) = 0
  BY <1>1, Zenon
<1>3. \A i \in 1..Len(s) : FALSE
  BY <1>2
<1>4. Lists(s, {})
  BY <1>3, ListPositions
<1> QED BY <1>2, <1>4

\* What happens to a list: threads leave it, ...
LEMMA ListsWithout ==
  ASSUME NEW s, NEW S, Lists(s, S), NEW K
  PROVE  Lists(Without(s, K), S \ K)
<1>1. /\ s \in Seq(Threads) /\ Len(s) \in Nat
      /\ \A i, j \in 1..Len(s) : s[i] = s[j] => i = j
      /\ \A i \in 1..Len(s) : s[i] \in S
      /\ \A t \in S : \E i \in 1..Len(s) : s[i] = t
  BY ListPositions
<1>2. PICK u \in Seq(Threads) : u = Without(s, K) /\ \E e : Picked(e, u, s, K, Len(s))
  BY <1>1, WithoutPicks
<1>3. PICK e : Picked(e, u, s, K, Len(s))
  BY <1>2
<1>4. Len(u) \in Nat /\ \A i \in 1..Len(u) : e[i] \in 1..Len(s) /\ u[i] = s[e[i]] /\ u[i] \notin K
  BY <1>3 DEF Picked
<1>5. \A i, j \in 1..Len(u) : u[i] = u[j] => i = j
  <2> SUFFICES ASSUME NEW i \in 1..Len(u), NEW j \in 1..Len(u), u[i] = u[j] PROVE i = j
    OBVIOUS
  <2>1. e[i] = e[j]
    <3>1. e[i] \in 1..Len(s) /\ e[j] \in 1..Len(s) /\ s[e[i]] = s[e[j]]
      BY <1>4, Zenon
    <3> QED BY <1>1, <3>1, Zenon
  <2>2. ~(i < j) /\ ~(j < i)
    <3>1. e[i] \in Nat
      BY <1>1, <1>4
    <3> QED BY <2>1, <3>1, <1>3 DEF Picked
  <2> QED BY <2>2
<1>6. \A i \in 1..Len(u) : u[i] \in S \ K
  BY <1>1, <1>4
<1>7. \A t \in S \ K : \E i \in 1..Len(u) : u[i] = t
  <2> TAKE t \in S \ K
  <2>1. PICK k \in 1..Len(s) : s[k] = t
    BY <1>1
  <2>2. PICK i \in 1..Len(u) : e[i] = k
    BY <2>1, <1>3 DEF Picked
  <2> QED BY <2>1, <2>2, <1>4
<1>8. Lists(u, S \ K)
  BY <1>5, <1>6, <1>7, ListPositions
<1> QED BY <1>2, <1>8

\* ... one list goes on with another, ...
LEMMA ListsConcat ==
  ASSUME NEW s, NEW S, Lists(s, S), NEW r, NEW R, Lists(r, R), S \cap R = {}
  PROVE  Lists(s \o r, S \cup R)
<1>1. /\ s \in Seq(Threads) /\ Len(s) \in Nat
      /\ \A i, j \in 1..Len(s) : s[i] = s[j] => i = j
      /\ \A i \in 1..Len(s) : s[i] \in S
      /\ \A t \in S : \E i \in 1..Len(s) : s[i] = t
  BY ListPositions
<1>2. /\ r \in Seq(Threads) /\ Len(r) \in Nat
      /\ \A i, j \in 1..Len(r) : r[i] = r[j] => i = j
      /\ \A i \in 1..Len(r) : r[i] \in R
      /\ \A t \in R : \E i \in 1..Len(r) : r[i] = t
  BY ListPositions
<1>3. PICK u \in Seq(Threads) :
         /\ u = s \o r /\ Len(u) = Len(s) + Len(r)
         /\ \A i \in 1..Len(s) : u[i] = s[i]
         /\ \A i \in 1..Len(r) : u[Len(s) + i] = r[i]
  <2>1. /\ s \o r \in Seq(Threads) /\ Len(s \o r) = Len(s) + Len(r)
        /\ \A i \in 1..(Len(s) + Len(r)) :
              (s \o r)[i] = IF i <= Len(s) THEN s[i] ELSE r[i - Len(s)]
    BY <1>1, <1>2, ConcatProperties
  <2>2. \A i \in 1..Len(s) : (s \o r)[i] = s[i]
    BY <1>1, <1>2, <2>1
  <2>3. \A i \in 1..Len(r) : (s \o r)[Len(s) + i] = r[i]
    BY <1>1, <1>2, <2>1
  <2> QED BY <2>1, <2>2, <2>3
<1>4. \A i \in 1..Len(u) : \/ i \in 1..Len(s) /\ u[i] = s[i]
                           \/ i - Len(s) \in 1..Len(r) /\ u[i] = r[i - Len(s)]
  <2> TAKE i \in 1..Len(u)
  <2>1. CASE i <= Len(s)
    BY <2>1, <1>1, <1>3
  <2>2. CASE ~(i <= Len(s))
    <3>1. i - Len(s) \in 1..Len(r) /\ Len(s) + (i - Len(s)) = i
      BY <2>2, <1>1, <1>2, <1>3
    <3> QED BY <3>1, <1>3
  <2> QED BY <2>1, <2>2
<1>5. \A i, j \in 1..Len(u) : u[i] = u[j] => i = j
  <2> SUFFICES ASSUME NEW i \in 1..Len(u), NEW j \in 1..Len(u), u[i] = u[j] PROVE i = j
    OBVIOUS
  <2>1. CASE i \in 1..Len(s) /\ u[i] = s[i] /\ j \in 1..Len(s) /\ u[j] = s[j]
    BY <2>1, <1>1
  <2>2. CASE /\ i - Len(s) \in 1..Len(r) /\ u[i] = r[i - Len(s)]
             /\ j - Len(s) \in 1..Len(r) /\ u[j] = r[j - Len(s)]
    <3>1. i - Len(s) = j - Len(s)
      BY <2>2, <1>2
    <3> QED BY <3>1, <1>1
  <2> QED BY <1>1, <1>2, <1>4, <2>1, <2>2
<1>6. \A i \in 1..Len(u) : u[i] \in S \cup R
  BY <1>1, <1>2, <1>4
<1>7. \A t \in S \cup R : \E i \in 1..Len(u) : u[i] = t
  <2> TAKE t \in S \cup R
  <2>1. CASE t \in S
    <3>1. PICK i \in 1..Len(s) : s[i] = t
      BY <2>1, <1>1
    <3>2. i \in 1..Len(u)
      BY <1>1, <1>2, <1>3
    <3> QED BY <3>1, <3>2, <1>3
  <2>2. CASE t \in R
    <3>1. PICK i \in 1..Len(r) : r[i] = t
      BY <2>2, <1>2
    <3>2. Len(s) + i \in 1..Len(u)
      BY <1>1, <1>2, <1>3
    <3> QED BY <3>1, <3>2, <1>3
  <2> QED BY <2>1, <2>2
<1>8. Lists(u, S \cup R)
  BY <1>5, <1>6, <1>7, ListPositions
<1> QED BY <1>3, <1>8

\* ... a thread comes first or last, ...
LEMMA ListsOne ==
  ASSUME NEW t \in Threads
  PROVE  Lists(<<t>>, {t})
<1>1. <<t>> \in Seq(Threads) /\ Len(<<t>>) = 1 /\ <<t>>[1] = t
  OBVIOUS
<1>2. PICK s \in Seq(Threads) : s = <<t>> /\ Len(s) = 1 /\ s[1] = t
  BY <1>1, Zenon
<1>3. Len(s) = 1 /\ s[1] = t
  BY <1>2
<1>4. Lists(s, {t})
  BY <1>3, ListPositions
<1> QED BY <1>2, <1>4

\* A thread that is appended to a list (gmListDouble::InsertLast).
LEMMA ListsAppend ==
  ASSUME NEW s, NEW S, Lists(s, S), NEW t \in Threads, t \notin S
  PROVE  Lists(Append(s, t), S \cup {t})
<1>1. s \in Seq(Threads)
  BY ListsThreads
<1>2. Append(s, t) = s \o <<t>>
  BY <1>1, AppendIsConcat
<1>3. S \cap {t} = {}
  OBVIOUS
<1>4. Lists(<<t>>, {t})
  BY ListsOne
<1>5. Lists(s \o <<t>>, S \cup {t})
  BY <1>3, <1>4, ListsConcat, Zenon
<1> QED BY <1>2, <1>5

\* A thread that is put at the front of a list (gmListDouble::InsertFirst).
LEMMA ListsCons ==
  ASSUME NEW s, NEW S, Lists(s, S), NEW t \in Threads, t \notin S
  PROVE  Lists(<<t>> \o s, S \cup {t})
<1>1. {t} \cap S = {} /\ {t} \cup S = S \cup {t}
  OBVIOUS
<1>2. Lists(<<t>>, {t})
  BY ListsOne
<1>3. Lists(<<t>> \o s, {t} \cup S)
  BY <1>1, <1>2, ListsConcat, Zenon
<1> QED BY <1>1, <1>3

\* ... or a part of it is taken, ...
LEMMA ListsSubSeq ==
  ASSUME NEW s, NEW S, Lists(s, S), NEW m \in Nat \ {0}, NEW n \in Nat, n <= Len(s)
  PROVE  Lists(SubSeq(s, m, n), {s[k] : k \in m..n})
<1>1. /\ s \in Seq(Threads) /\ Len(s) \in Nat
      /\ \A i, j \in 1..Len(s) : s[i] = s[j] => i = j
      /\ \A i \in 1..Len(s) : s[i] \in S
  BY ListPositions
<1>2. SubSeq(s, m, n) \in Seq(Threads)
  BY <1>1
<1>3. PICK u \in Seq(Threads) : u = SubSeq(s, m, n)
  BY <1>2
<1>4. /\ Len(u) = IF m <= n THEN n - m + 1 ELSE 0
      /\ \A i \in 1..Len(u) : u[i] = s[m + i - 1]
  BY <1>1, <1>3
<1>5. \A i \in 1..Len(u) : m + i - 1 \in m..n /\ m + i - 1 \in 1..Len(s)
  BY <1>1, <1>4
<1>6. \A i, j \in 1..Len(u) : u[i] = u[j] => i = j
  <2> SUFFICES ASSUME NEW i \in 1..Len(u), NEW j \in 1..Len(u), u[i] = u[j] PROVE i = j
    OBVIOUS
  <2>1. m + i - 1 = m + j - 1
    BY <1>1, <1>4, <1>5
  <2> QED BY <2>1
<1>7. \A i \in 1..Len(u) : u[i] \in {s[k] : k \in m..n}
  BY <1>4, <1>5
<1>8. \A t \in {s[k] : k \in m..n} : \E i \in 1..Len(u) : u[i] = t
  <2> SUFFICES ASSUME NEW k \in m..n PROVE \E i \in 1..Len(u) : u[i] = s[k]
    OBVIOUS
  <2>1. k - m + 1 \in 1..Len(u) /\ m + (k - m + 1) - 1 = k
    BY <1>4
  <2> QED BY <2>1, <1>4
<1>9. Lists(u, {s[k] : k \in m..n})
  BY <1>6, <1>7, <1>8, ListPositions
<1> QED BY <1>3, <1>9

\* ... or it is turned round.
LEMMA ListsReverse ==
  ASSUME NEW s, NEW S, Lists(s, S)
  PROVE  Lists(Reverse(s), S) /\ Len(Reverse(s)) = Len(s)
<1>1. /\ s \in Seq(Threads) /\ Len(s) \in Nat
      /\ \A i, j \in 1..Len(s) : s[i] = s[j] => i = j
      /\ \A i \in 1..Len(s) : s[i] \in S
      /\ \A t \in S : \E i \in 1..Len(s) : s[i] = t
  BY ListPositions
<1>2. \A i \in 1..Len(s) : Len(s) - i + 1 \in 1..Len(s)
  BY <1>1
<1>3. Reverse(s) \in Seq(Threads) /\ Len(Reverse(s)) = Len(s)
  <2>1. Reverse(s) \in [1..Len(s) -> Threads]
    BY <1>1, <1>2 DEF Reverse
  <2> QED BY <1>1, <2>1
<1>4. \A i \in 1..Len(s) : Reverse(s)[i] = s[Len(s) - i + 1]
  BY DEF Reverse
<1>5. PICK u \in Seq(Threads) : u = Reverse(s) /\ Len(u) = Len(s)
                                /\ \A i \in 1..Len(u) : u[i] = s[Len(s) - i + 1]
  BY <1>3, <1>4
<1>6. \A i, j \in 1..Len(u) : u[i] = u[j] => i = j
  <2> SUFFICES ASSUME NEW i \in 1..Len(u), NEW j \in 1..Len(u), u[i] = u[j] PROVE i = j
    OBVIOUS
  <2>1. PICK a \in 1..Len(s), b \in 1..Len(s) :
           a = Len(s) - i + 1 /\ b = Len(s) - j + 1 /\ u[i] = s[a] /\ u[j] = s[b]
    BY <1>2, <1>5
  <2>2. a = b
    BY <1>1, <2>1
  <2> QED BY <1>1, <2>1, <2>2
<1>7. \A i \in 1..Len(u) : u[i] \in S
  BY <1>1, <1>2, <1>5
<1>8. \A t \in S : \E i \in 1..Len(u) : u[i] = t
  <2> TAKE t \in S
  <2>1. PICK k \in 1..Len(s) : s[k] = t
    BY <1>1
  <2>2. Len(s) - k + 1 \in 1..Len(u) /\ Len(s) - (Len(s) - k + 1) + 1 = k
    BY <1>1, <1>5
  <2> QED BY <2>1, <2>2, <1>5
<1>9. Lists(u, S)
  BY <1>6, <1>7, <1>8, ListPositions
<1> QED BY <1>5, <1>9

\* The first one is taken away.
LEMMA ListsTail ==
  ASSUME NEW s, NEW S, Lists(s, S), s # << >>
  PROVE  s[1] \in S /\ Lists(Tail(s), S \ {s[1]}) /\ Len(Tail(s)) = Len(s) - 1
<1>1. /\ s \in Seq(Threads) /\ Len(s) \in Nat
      /\ \A i, j \in 1..Len(s) : s[i] = s[j] => i = j
      /\ \A i \in 1..Len(s) : s[i] \in S
      /\ \A t \in S : \E i \in 1..Len(s) : s[i] = t
  BY ListPositions
<1>2. Len(s) # 0 /\ 1 \in 1..Len(s)
  BY <1>1
<1>3. PICK u \in Seq(Threads) : u = Tail(s) /\ Len(u) = Len(s) - 1
                                /\ \A i \in 1..Len(u) : u[i] = s[i + 1]
  <2>1. Tail(s) \in Seq(Threads) /\ Len(Tail(s)) = Len(s) - 1
        /\ \A i \in 1..Len(Tail(s)) : Tail(s)[i] = s[i + 1]
    BY <1>1, <1>2
  <2> QED BY <2>1, Zenon
<1>4. \A i, j \in 1..Len(u) : u[i] = u[j] => i = j
  <2> SUFFICES ASSUME NEW i \in 1..Len(u), NEW j \in 1..Len(u), u[i] = u[j] PROVE i = j
    OBVIOUS
  <2>1. i + 1 \in 1..Len(s) /\ j + 1 \in 1..Len(s)
    BY <1>1, <1>3
  <2>2. i + 1 = j + 1
    BY <1>1, <1>3, <2>1
  <2> QED BY <2>2
<1>5. \A i \in 1..Len(u) : u[i] \in S \ {s[1]}
  <2> TAKE i \in 1..Len(u)
  <2>1. i + 1 \in 1..Len(s) /\ i + 1 # 1
    BY <1>1, <1>3
  <2> QED BY <1>1, <1>2, <1>3, <2>1
<1>6. \A t \in S \ {s[1]} : \E i \in 1..Len(u) : u[i] = t
  <2> TAKE t \in S \ {s[1]}
  <2>1. PICK k \in 1..Len(s) : s[k] = t /\ k # 1
    BY <1>1
  <2>2. k - 1 \in 1..Len(u) /\ (k - 1) + 1 = k
    BY <2>1, <1>1, <1>3
  <2> QED BY <2>1, <2>2, <1>3
<1>7. Lists(u, S \ {s[1]})
  BY <1>4, <1>5, <1>6, ListPositions
<1> QED BY <1>1, <1>2, <1>3, <1>7

\* A thread is put somewhere into the list, as sleeping threads are.
LEMMA InsertPositions ==
  ASSUME NEW s \in Seq(Threads), NEW p \in 1..(Len(s) + 1), NEW t \in Threads
  PROVE  /\ InsertAt(s, p, t) \in Seq(Threads) /\ Len(InsertAt(s, p, t)) = Len(s) + 1
         /\ InsertAt(s, p, t)[p] = t
         /\ \A i \in 1..Len(s) :
               (i < p => InsertAt(s, p, t)[i] = s[i]) /\ (~(i < p) => InsertAt(s, p, t)[i + 1] = s[i])
<1>1. Len(s) \in Nat /\ p - 1 \in 0..Len(s)
  OBVIOUS
<1>2. PICK a \in Seq(Threads) :
         a = SubSeq(s, 1, p - 1) /\ Len(a) = p - 1 /\ \A i \in 1..(p - 1) : a[i] = s[i]
  <2>1. /\ SubSeq(s, 1, p - 1) \in Seq(Threads) /\ Len(SubSeq(s, 1, p - 1)) = p - 1
        /\ \A i \in 1..(p - 1) : SubSeq(s, 1, p - 1)[i] = s[i]
    BY <1>1
  <2> QED BY <2>1, Zenon
<1>3. PICK b \in Seq(Threads) :
         /\ b = SubSeq(s, p, Len(s)) /\ Len(b) = Len(s) - p + 1
         /\ \A i \in 1..(Len(s) - p + 1) : b[i] = s[p + i - 1]
  <2>1. /\ SubSeq(s, p, Len(s)) \in Seq(Threads) /\ Len(SubSeq(s, p, Len(s))) = Len(s) - p + 1
        /\ \A i \in 1..(Len(s) - p + 1) : SubSeq(s, p, Len(s))[i] = s[p + i - 1]
    BY <1>1
  <2> QED BY <2>1, Zenon
<1>4. PICK c \in Seq(Threads) :
         c = a \o <<t>> /\ Len(c) = p /\ c[p] = t /\ \A i \in 1..(p - 1) : c[i] = a[i]
  <2>1. /\ a \o <<t>> \in Seq(Threads) /\ Len(a \o <<t>>) = p /\ (a \o <<t>>)[p] = t
        /\ \A i \in 1..(p - 1) : (a \o <<t>>)[i] = a[i]
    BY <1>2
  <2> QED BY <2>1, Zenon
<1>5. PICK u \in Seq(Threads) :
         /\ u = c \o b /\ Len(u) = Len(s) + 1
         /\ \A i \in 1..p : u[i] = c[i]
         /\ \A i \in 1..(Len(s) - p + 1) : u[p + i] = b[i]
  <2>1. /\ c \o b \in Seq(Threads) /\ Len(c \o b) = Len(c) + Len(b)
        /\ \A i \in 1..(Len(c) + Len(b)) : (c \o b)[i] = IF i <= Len(c) THEN c[i] ELSE b[i - Len(c)]
    BY ConcatProperties
  <2>0. Len(c) = p /\ Len(b) = Len(s) - p + 1
    BY <1>3, <1>4, Zenon
  <2>2. Len(c) = p /\ Len(b) = Len(s) - p + 1 /\ Len(c) + Len(b) = Len(s) + 1
    BY <1>1, <2>0
  <2>3. \A i \in 1..p : (c \o b)[i] = c[i]
    BY <1>1, <2>1, <2>2
  <2>4. ASSUME NEW i \in 1..(Len(s) - p + 1) PROVE (c \o b)[p + i] = b[i]
    <3>1. p + i \in 1..(Len(c) + Len(b)) /\ ~(p + i <= Len(c)) /\ (p + i) - Len(c) = i
      BY <1>1, <2>2
    <3> QED BY <2>1, <3>1
  <2> QED BY <2>1, <2>2, <2>3, <2>4
<1>6. u = InsertAt(s, p, t)
  BY <1>2, <1>3, <1>4, <1>5 DEF InsertAt
<1>a. /\ \A i \in 1..(p - 1) : a[i] = s[i]
      /\ \A i \in 1..(Len(s) - p + 1) : b[i] = s[p + i - 1]
      /\ c[p] = t /\ \A i \in 1..(p - 1) : c[i] = a[i]
  BY <1>2, <1>3, <1>4, Zenon
<1>b. /\ \A i \in 1..p : u[i] = c[i]
      /\ \A i \in 1..(Len(s) - p + 1) : u[p + i] = b[i]
  BY <1>5, Zenon
<1>7. u[p] = t
  <2>1. p \in 1..p
    BY <1>1
  <2> QED BY <1>a, <1>b, <2>1, Zenon
<1>8. ASSUME NEW i \in 1..Len(s) PROVE (i < p => u[i] = s[i]) /\ (~(i < p) => u[i + 1] = s[i])
  <2>1. CASE i < p
    <3>1. i \in 1..(p - 1) /\ i \in 1..p
      BY <2>1
    <3>2. u[i] = s[i]
      BY <3>1, <1>a, <1>b, Zenon
    <3> QED BY <2>1, <3>2
  <2>2. CASE ~(i < p)
    <3>1. /\ i - p + 1 \in 1..(Len(s) - p + 1)
          /\ p + (i - p + 1) = i + 1 /\ p + (i - p + 1) - 1 = i
      BY <2>2, <1>1
    <3>2. u[p + (i - p + 1)] = s[p + (i - p + 1) - 1]
      BY <3>1, <1>a, <1>b, Zenon
    <3> QED BY <2>2, <3>1, <3>2
  <2> QED BY <2>1, <2>2
<1> QED BY <1>5, <1>6, <1>7, <1>8

\* Where the items of the new list were.
LEMMA InsertSources ==
  ASSUME NEW s \in Seq(Threads), NEW p \in 1..(Len(s) + 1), NEW t \in Threads
  PROVE  \A i \in 1..(Len(s) + 1) :
            \/ i = p /\ InsertAt(s, p, t)[i] = t
            \/ i < p /\ i \in 1..Len(s) /\ InsertAt(s, p, t)[i] = s[i]
            \/ i > p /\ i - 1 \in 1..Len(s) /\ InsertAt(s, p, t)[i] = s[i - 1]
<1>1. Len(s) \in Nat /\ p \in Nat
  OBVIOUS
<1>2. PICK u : u = InsertAt(s, p, t)
  OBVIOUS
<1>3. /\ u[p] = t
      /\ \A i \in 1..Len(s) : (i < p => u[i] = s[i]) /\ (~(i < p) => u[i + 1] = s[i])
  BY <1>2, InsertPositions
<1>4. ASSUME NEW i \in 1..(Len(s) + 1)
      PROVE  \/ i = p /\ u[i] = t
             \/ i < p /\ i \in 1..Len(s) /\ u[i] = s[i]
             \/ i > p /\ i - 1 \in 1..Len(s) /\ u[i] = s[i - 1]
  <2>1. CASE i < p
    <3>1. i \in 1..Len(s)
      BY <2>1, <1>1
    <3> QED BY <2>1, <3>1, <1>1, <1>3
  <2>2. CASE i > p
    <3>1. i - 1 \in 1..Len(s) /\ ~(i - 1 < p) /\ (i - 1) + 1 = i
      BY <2>2, <1>1
    <3>2. u[(i - 1) + 1] = s[i - 1]
      BY <3>1, <1>3
    <3> QED BY <2>2, <3>1, <3>2
  <2>3. CASE i = p
    BY <2>3, <1>3
  <2> QED BY <1>1, <2>1, <2>2, <2>3
<1> QED BY <1>2, <1>4

\* A thread that is inserted anywhere (the sleeping list is kept in order).
LEMMA ListsInsert ==
  ASSUME NEW s, NEW S, Lists(s, S), NEW t \in Threads, t \notin S, NEW p \in 1..(Len(s) + 1)
  PROVE  Lists(InsertAt(s, p, t), S \cup {t})
<1>1. /\ s \in Seq(Threads) /\ Len(s) \in Nat
      /\ \A i, j \in 1..Len(s) : s[i] = s[j] => i = j
      /\ \A i \in 1..Len(s) : s[i] \in S
      /\ \A x \in S : \E i \in 1..Len(s) : s[i] = x
  BY ListPositions
<1>2. PICK u \in Seq(Threads) :
         /\ u = InsertAt(s, p, t) /\ Len(u) = Len(s) + 1 /\ u[p] = t
         /\ \A i \in 1..Len(s) : (i < p => u[i] = s[i]) /\ (~(i < p) => u[i + 1] = s[i])
         /\ \A i \in 1..(Len(s) + 1) :
               \/ i = p /\ u[i] = t
               \/ i < p /\ i \in 1..Len(s) /\ u[i] = s[i]
               \/ i > p /\ i - 1 \in 1..Len(s) /\ u[i] = s[i - 1]
  <2>1. /\ InsertAt(s, p, t) \in Seq(Threads) /\ Len(InsertAt(s, p, t)) = Len(s) + 1
        /\ InsertAt(s, p, t)[p] = t
        /\ \A i \in 1..Len(s) :
              (i < p => InsertAt(s, p, t)[i] = s[i]) /\ (~(i < p) => InsertAt(s, p, t)[i + 1] = s[i])
    <3>1. s \in Seq(Threads)
      BY <1>1
    <3> QED BY <3>1, InsertPositions
  <2>2. \A i \in 1..(Len(s) + 1) :
           \/ i = p /\ InsertAt(s, p, t)[i] = t
           \/ i < p /\ i \in 1..Len(s) /\ InsertAt(s, p, t)[i] = s[i]
           \/ i > p /\ i - 1 \in 1..Len(s) /\ InsertAt(s, p, t)[i] = s[i - 1]
    BY <1>1, InsertSources, ZenonT(40)
  <2> QED BY <2>1, <2>2, Zenon
<1>3. /\ u[p] = t /\ Len(u) = Len(s) + 1
      /\ \A i \in 1..Len(s) : (i < p => u[i] = s[i]) /\ (~(i < p) => u[i + 1] = s[i])
  BY <1>2, Zenon
<1>4. \A i \in 1..(Len(s) + 1) : \/ i = p /\ u[i] = t
                                 \/ i < p /\ i \in 1..Len(s) /\ u[i] = s[i]
                                 \/ i > p /\ i - 1 \in 1..Len(s) /\ u[i] = s[i - 1]
  BY <1>2, Zenon
<1>5. \A i, j \in 1..Len(u) : u[i] = u[j] => i = j
  <2> SUFFICES ASSUME NEW i \in 1..Len(u), NEW j \in 1..Len(u), u[i] = u[j] PROVE i = j
    OBVIOUS
  <2>1. i \in 1..(Len(s) + 1) /\ j \in 1..(Len(s) + 1)
    BY <1>3
  <2>2. \A k \in 1..Len(s) : s[k] # t
    BY <1>1
  <2>3. CASE i = p
    <3>1. u[j] = t
      BY <2>3, <1>3
    <3>2. j = p \/ (\E k \in 1..Len(s) : u[j] = s[k])
      BY <2>1, <1>4
    <3> QED BY <2>2, <2>3, <3>1, <3>2, Zenon
  <2>4. CASE i < p
    <3>1. i \in 1..Len(s) /\ u[i] = s[i]
      BY <2>1, <2>4, <1>4
    <3>a. j # p
      BY <2>2, <3>1, <1>3
    <3>b. j > p => j - 1 \in 1..Len(s) /\ u[j] = s[j - 1]
      BY <2>1, <1>4
    <3>2. j # p /\ (j > p => j - 1 \in 1..Len(s) /\ u[j] = s[j - 1] /\ j - 1 # i)
      BY <2>1, <2>4, <3>a, <3>b, <1>1
    <3>3. j < p => j \in 1..Len(s) /\ u[j] = s[j]
      BY <2>1, <1>4
    <3> QED BY <3>1, <3>2, <3>3, <1>1
  <2>5. CASE i > p
    <3>1. i - 1 \in 1..Len(s) /\ u[i] = s[i - 1]
      BY <2>1, <2>5, <1>4
    <3>a. j # p
      BY <2>2, <3>1, <1>3
    <3>b. j < p => j \in 1..Len(s) /\ u[j] = s[j]
      BY <2>1, <1>4
    <3>2. j # p /\ (j < p => j \in 1..Len(s) /\ u[j] = s[j] /\ i - 1 # j)
      BY <2>1, <2>5, <3>a, <3>b, <1>1
    <3>3. j > p => j - 1 \in 1..Len(s) /\ u[j] = s[j - 1]
      BY <2>1, <1>4
    <3>4. j > p
      BY <3>1, <3>2, <1>1
    <3>5. i - 1 = j - 1
      BY <3>1, <3>3, <3>4, <1>1
    <3> QED BY <3>5
  <2> QED BY <1>1, <2>3, <2>4, <2>5
<1>6. \A i \in 1..Len(u) : u[i] \in S \cup {t}
  BY <1>1, <1>3, <1>4
<1>7. \A x \in S \cup {t} : \E i \in 1..Len(u) : u[i] = x
  <2> TAKE x \in S \cup {t}
  <2>1. CASE x = t
    BY <2>1, <1>1, <1>3
  <2>2. CASE x \in S
    <3>1. PICK i \in 1..Len(s) : s[i] = x
      BY <2>2, <1>1
    <3>2. i \in 1..Len(u) /\ i + 1 \in 1..Len(u)
      BY <1>1, <1>3
    <3> QED BY <3>1, <3>2, <1>3
  <2> QED BY <2>1, <2>2
<1>8. Lists(u, S \cup {t})
  BY <1>5, <1>6, <1>7, ListPositions
<1> QED BY <1>2, <1>8

\* Threads that stay in a list keep their order, ...
LEMMA WithoutOrder ==
  ASSUME NEW s, NEW S, Lists(s, S), NEW K, NEW i \in 1..Len(s), NEW j \in 1..Len(s), i <= j,
         s[i] \notin K, s[j] \notin K
  PROVE  \E a, b \in 1..Len(Without(s, K)) :
            a <= b /\ Without(s, K)[a] = s[i] /\ Without(s, K)[b] = s[j]
<1>1. s \in Seq(Threads) /\ Len(s) \in Nat
  BY ListsThreads
<1>2. PICK u \in Seq(Threads) : u = Without(s, K) /\ \E e : Picked(e, u, s, K, Len(s))
  BY <1>1, WithoutPicks
<1>3. PICK e : Picked(e, u, s, K, Len(s))
  BY <1>2
<1>4. PICK a \in 1..Len(u) : e[a] = i
  BY <1>3 DEF Picked
<1>5. PICK b \in 1..Len(u) : e[b] = j
  BY <1>3 DEF Picked
<1>6. ~(b < a)
  <2>1. b < a => e[b] < e[a]
    BY <1>3 DEF Picked
  <2> QED BY <2>1, <1>1, <1>4, <1>5
<1>7. a <= b /\ u[a] = s[i] /\ u[b] = s[j]
  BY <1>3, <1>4, <1>5, <1>6 DEF Picked
<1> QED BY <1>2, <1>7

\* ... and the first that stays is the first of the new list.
LEMMA WithoutFirst ==
  ASSUME NEW s, NEW S, Lists(s, S), NEW K, Without(s, K) # << >>
  PROVE  \E i \in 1..Len(s) :
            /\ s[i] = Without(s, K)[1] /\ s[i] \notin K
            /\ \A j \in 1..Len(s) : s[j] \notin K => i <= j
<1>1. s \in Seq(Threads) /\ Len(s) \in Nat
  BY ListsThreads
<1>2. PICK u \in Seq(Threads) : u = Without(s, K) /\ \E e : Picked(e, u, s, K, Len(s))
  BY <1>1, WithoutPicks
<1>3. PICK e : Picked(e, u, s, K, Len(s))
  BY <1>2
<1>4. Len(u) \in Nat /\ Len(u) # 0 /\ 1 \in 1..Len(u)
  BY <1>2
<1>5. e[1] \in 1..Len(s) /\ s[e[1]] = u[1] /\ s[e[1]] \notin K
  BY <1>3, <1>4 DEF Picked
<1>6. ASSUME NEW j \in 1..Len(s), s[j] \notin K PROVE e[1] <= j
  <2>1. PICK b \in 1..Len(u) : e[b] = j
    BY <1>3, <1>6 DEF Picked
  <2>2. 1 < b => e[1] < e[b]
    BY <1>3, <1>4 DEF Picked
  <2> QED BY <2>1, <2>2, <1>5
<1> QED BY <1>2, <1>5, <1>6

\* The part of the list s from the thread n on.
RestOf(s, n) ==
    IF n = End THEN << >>
    ELSE SubSeq(s, CHOOSE i \in 1..Len(s) : s[i] = n, Len(s))

\* Rest, with its list and its iterator as parameters.
LEMMA RestIsRestOf == Rest = RestOf(running, nextThread)
  BY DEF Rest, RestOf

\* The end of an iteration is told from every thread.
LEMMA EndIsNoThread == End \notin Threads
  BY GMAssumption DEF End

\* The rest of a list is its tail from the iterator on.
LEMMA RestLists ==
  ASSUME NEW s, NEW S, Lists(s, S), NEW i \in 1..Len(s)
  PROVE  /\ RestOf(s, s[i]) = SubSeq(s, i, Len(s))
         /\ Lists(RestOf(s, s[i]), {s[k] : k \in i..Len(s)})
<1>1. /\ s \in Seq(Threads) /\ Len(s) \in Nat
      /\ \A k, j \in 1..Len(s) : s[k] = s[j] => k = j
  BY ListPositions
<1>2. s[i] # End
  BY <1>1, EndIsNoThread
<1>3. (CHOOSE k \in 1..Len(s) : s[k] = s[i]) = i
  BY <1>1
<1>4. RestOf(s, s[i]) = SubSeq(s, i, Len(s))
  BY <1>2, <1>3 DEF RestOf
<1>5. i \in Nat \ {0} /\ Len(s) <= Len(s)
  BY <1>1
<1>6. Lists(SubSeq(s, i, Len(s)), {s[k] : k \in i..Len(s)})
  BY <1>1, <1>5, ListsSubSeq
<1> QED BY <1>4, <1>6

\* The threads of the rest.
LEMMA RestRange ==
  ASSUME NEW s, NEW S, Lists(s, S), NEW i \in 1..Len(s)
  PROVE  Range(RestOf(s, s[i])) = {s[k] : k \in i..Len(s)}
  BY RestLists DEF Lists

\* Ahead is what NoThreadSkipped says of the iteration.
LEMMA AheadMeans ==
  ASSUME NEW s, NEW S, Lists(s, S), NEW n \in S \cup {End}, NEW O
  PROVE  Ahead(s, n, O) <=> O \subseteq Range(RestOf(s, n))
<1>1. CASE n = End
  <2>1. RestOf(s, n) = << >> /\ Range(<< >>) = {}
    BY <1>1 DEF RestOf, Range
  <2>2. \A i \in 1..Len(s) : s[i] # n
    BY <1>1, EndIsNoThread, ListPositions
  <2> QED BY <1>1, <2>1, <2>2 DEF Ahead
<1>2. CASE n \in S
  <2>1. n # End
    BY <1>2, EndIsNoThread, ListsThreads
  <2>2. PICK i \in 1..Len(s) : s[i] = n
    BY <1>2, ListPositions
  <2>3. \A j \in 1..Len(s) : n = s[j] => j = i
    BY <2>2, ListPositions
  <2>4. Range(RestOf(s, n)) = {s[k] : k \in i..Len(s)}
    BY <2>2, RestRange
  <2> QED BY <2>1, <2>2, <2>3, <2>4 DEF Ahead
<1> QED BY <1>1, <1>2

\* The threads K leave the list: the iteration goes on with the next one.
LEMMA AheadWithout ==
  ASSUME NEW s, NEW S, Lists(s, S), NEW n, NEW O, Ahead(s, n, O), NEW K
  PROVE  /\ Ahead(Without(s, K), First(Without(RestOf(s, n), K)), O \ K)
         /\ First(Without(RestOf(s, n), K)) \in (S \ K) \cup {End}
         /\ n = End => First(Without(RestOf(s, n), K)) = End
<1> DEFINE r == RestOf(s, n)
           w == Without(r, K)
           u == Without(s, K)
<1>1. /\ s \in Seq(Threads) /\ Len(s) \in Nat
      /\ \A k, j \in 1..Len(s) : s[k] = s[j] => k = j
      /\ \A k \in 1..Len(s) : s[k] \in S
  BY ListPositions
<1>2. Lists(u, S \ K)
  BY ListsWithout
<1>3. CASE n = End
  <2>1. r = << >>
    BY <1>3 DEF RestOf
  <2>2. Lists(w, {} \ K)
    BY <2>1, ListsEmpty, ListsWithout
  <2>3. w = << >>
    <3>1. w \in Seq(Threads) /\ \A k \in 1..Len(w) : w[k] \in {} \ K
      BY <2>2, ListPositions
    <3>2. Len(w) \in Nat /\ ~(1 \in 1..Len(w))
      BY <3>1
    <3> QED BY <3>1, <3>2
  <2>4. First(w) = End
    BY <2>3 DEF First
  <2>5. O = {}
    <3>1. \A k \in 1..Len(s) : s[k] # End
      BY <1>1, EndIsNoThread
    <3> QED BY <1>3, <3>1 DEF Ahead
  <2> QED BY <2>4, <2>5 DEF Ahead
<1>4. CASE n # End
  <2>1. PICK i \in 1..Len(s) : n = s[i] /\ O \subseteq {s[k] : k \in i..Len(s)}
    BY <1>4 DEF Ahead
  <2>2. r = SubSeq(s, i, Len(s)) /\ Lists(r, {s[k] : k \in i..Len(s)})
    BY <2>1, RestLists
  <2>3. Len(r) = Len(s) - i + 1 /\ \A k \in 1..Len(r) : r[k] = s[i + k - 1]
    BY <1>1, <2>2
  <2>4. Lists(w, {s[k] : k \in i..Len(s)} \ K)
    BY <2>2, ListsWithout
  <2>5. CASE w = << >>
    <3>0. \A t \in {s[k] : k \in i..Len(s)} \ K : \E k \in 1..Len(w) : w[k] = t
      BY <2>4, ListPositions
    <3>a. ~(\E k \in 1..Len(w) : TRUE)
      BY <2>5
    <3>1. {s[k] : k \in i..Len(s)} \ K = {}
      BY <3>0, <3>a
    <3>2. First(w) = End /\ O \ K = {}
      BY <2>1, <2>5, <3>1 DEF First
    <3> QED BY <1>4, <3>2 DEF Ahead
  <2>6. CASE w # << >>
    <3>1. First(w) = w[1]
      BY <2>6 DEF First
    <3>2. PICK a \in 1..Len(r) : /\ r[a] = w[1] /\ r[a] \notin K
                                 /\ \A j \in 1..Len(r) : r[j] \notin K => a <= j
      BY <2>2, <2>6, WithoutFirst
    <3>3. PICK p \in 1..Len(s) : p = i + a - 1 /\ s[p] = w[1] /\ s[p] \notin K
      BY <1>1, <2>3, <3>2
    <3>4. \A k \in i..Len(s) : s[k] \notin K => p <= k
      <4> SUFFICES ASSUME NEW k \in i..Len(s), s[k] \notin K PROVE p <= k
        OBVIOUS
      <4>1. k - i + 1 \in 1..Len(r) /\ i + (k - i + 1) - 1 = k
        BY <1>1, <2>3
      <4>2. r[k - i + 1] = s[k]
        BY <2>3, <4>1
      <4>3. a <= k - i + 1
        BY <3>2, <4>1, <4>2
      <4> QED BY <3>3, <4>3, <1>1
    <3>5. PICK b \in 1..Len(u) : u[b] = w[1]
      <4>1. w[1] \in S \ K
        BY <3>3, <1>1
      <4>2. \A t \in S \ K : \E b \in 1..Len(u) : u[b] = t
        BY <1>2, ListPositions, Zenon
      <4> QED BY <4>1, <4>2, Zenon
    <3>6. ASSUME NEW t \in O \ K PROVE t \in {u[k] : k \in b..Len(u)}
      <4>1. PICK k \in i..Len(s) : s[k] = t
        BY <2>1
      <4>2. k \in 1..Len(s) /\ s[k] \notin K /\ p <= k
        BY <4>1, <3>4, <1>1
      <4>3. PICK c \in 1..Len(u), d \in 1..Len(u) : c <= d /\ u[c] = s[p] /\ u[d] = s[k]
        <5>1. s[p] \notin K /\ s[k] \notin K /\ k \in 1..Len(s) /\ p <= k
          BY <3>3, <4>2
        <5>2. ASSUME NEW x \in 1..Len(s), NEW y \in 1..Len(s), x <= y, s[x] \notin K, s[y] \notin K
              PROVE  \E c, d \in 1..Len(u) : c <= d /\ u[c] = s[x] /\ u[d] = s[y]
          BY <5>2, WithoutOrder
        <5> QED BY <5>1, <5>2
      <4>4. c = b
        <5>1. u[c] = u[b]
          BY <4>3, <3>3, <3>5
        <5>2. \A x, y \in 1..Len(u) : u[x] = u[y] => x = y
          BY <1>2, ListPositions
        <5> QED BY <5>1, <5>2, Zenon
      <4>5. d \in b..Len(u)
        BY <4>3, <4>4
      <4> QED BY <4>1, <4>3, <4>5
    <3>7. w[1] \in S \ K
      BY <3>3, <1>1
    <3>8. Ahead(u, w[1], O \ K)
      BY <3>5, <3>6 DEF Ahead
    <3> QED BY <1>4, <3>1, <3>7, <3>8
  <2> QED BY <2>5, <2>6
<1> QED BY <1>3, <1>4

-----------------------------------------------------------------------------
(* What the machine does to its lists *)

\* A thread joins the end of the list: the iteration will come to it.
LEMMA AheadAppend ==
  ASSUME NEW s, NEW S, Lists(s, S), NEW n, NEW O, Ahead(s, n, O), NEW t \in Threads
  PROVE  /\ n = End => O = {} /\ Ahead(Append(s, t), t, {t}) /\ Ahead(Append(s, t), End, {})
         /\ n # End => Ahead(Append(s, t), n, O \cup {t})
<1>1. s \in Seq(Threads) /\ Len(s) \in Nat /\ \A k \in 1..Len(s) : s[k] \in Threads
  BY ListsThreads
<1>2. PICK u : u = Append(s, t) /\ Len(u) = Len(s) + 1 /\ u[Len(s) + 1] = t
               /\ \A k \in 1..Len(s) : u[k] = s[k]
  <2>1. /\ Len(Append(s, t)) = Len(s) + 1 /\ Append(s, t)[Len(s) + 1] = t
        /\ \A k \in 1..Len(s) : Append(s, t)[k] = s[k]
    BY <1>1
  <2> QED BY <2>1, Zenon
<1>3. /\ Len(u) = Len(s) + 1 /\ u[Len(s) + 1] = t
      /\ \A k \in 1..Len(s) : u[k] = s[k]
  BY <1>2, Zenon
<1>4. ASSUME n = End PROVE O = {} /\ Ahead(u, t, {t}) /\ Ahead(u, End, {})
  <2>1. \A k \in 1..Len(s) : s[k] # End
    BY <1>1, EndIsNoThread
  <2>2. O = {}
    BY <1>4, <2>1 DEF Ahead
  <2>3. Len(s) + 1 \in 1..Len(u) /\ Len(s) + 1 \in (Len(s) + 1)..Len(u)
    BY <1>1, <1>3
  <2>4. t = u[Len(s) + 1] /\ {t} \subseteq {u[k] : k \in (Len(s) + 1)..Len(u)}
    BY <1>3, <2>3
  <2> QED BY <2>2, <2>3, <2>4 DEF Ahead
<1>5. ASSUME n # End PROVE Ahead(u, n, O \cup {t})
  <2>1. PICK i \in 1..Len(s) : n = s[i] /\ O \subseteq {s[k] : k \in i..Len(s)}
    BY <1>5 DEF Ahead
  <2>2. i \in 1..Len(u) /\ Len(s) + 1 \in i..Len(u) /\ n = u[i]
    BY <1>1, <1>3, <2>1
  <2>3. \A k \in i..Len(s) : k \in i..Len(u) /\ s[k] = u[k]
    BY <1>1, <1>3
  <2>4. O \cup {t} \subseteq {u[k] : k \in i..Len(u)}
    BY <1>3, <2>1, <2>2, <2>3
  <2> QED BY <2>2, <2>4 DEF Ahead
<1> QED BY <1>2, <1>4, <1>5

\* A list that is iterated from its start.
LEMMA AheadAll ==
  ASSUME NEW s, NEW S, Lists(s, S)
  PROVE  Ahead(s, First(s), S) /\ First(s) \in S \cup {End}
<1>1. /\ s \in Seq(Threads) /\ Len(s) \in Nat
      /\ \A k \in 1..Len(s) : s[k] \in S
      /\ \A t \in S : \E k \in 1..Len(s) : s[k] = t
  BY ListPositions
<1>2. CASE s = << >>
  <2>1. Len(s) = 0
    BY <1>2
  <2>2. S = {}
    BY <1>1, <2>1
  <2> QED BY <1>2, <2>2 DEF First, Ahead
<1>3. CASE s # << >>
  <2>1. 1 \in 1..Len(s) /\ First(s) = s[1]
    BY <1>1, <1>3 DEF First
  <2>2. S \subseteq {s[k] : k \in 1..Len(s)}
    BY <1>1
  <2> QED BY <1>1, <2>1, <2>2 DEF Ahead
<1> QED BY <1>2, <1>3

\* The next thread is taken.
LEMMA AheadTail ==
  ASSUME NEW s, NEW S, Lists(s, S), NEW n, n # End, NEW O, Ahead(s, n, O)
  PROVE  /\ Ahead(s, First(Tail(RestOf(s, n))), O \ {n})
         /\ First(Tail(RestOf(s, n))) \in S \cup {End}
<1>1. /\ s \in Seq(Threads) /\ Len(s) \in Nat
      /\ \A k \in 1..Len(s) : s[k] \in S
  BY ListPositions
<1>2. PICK i \in 1..Len(s) : n = s[i] /\ O \subseteq {s[k] : k \in i..Len(s)}
  BY DEF Ahead
<1>3. RestOf(s, n) = SubSeq(s, i, Len(s))
  BY <1>2, RestLists
<1>4. PICK r \in Seq(Threads) : /\ r = Tail(RestOf(s, n)) /\ Len(r) = Len(s) - i
                                /\ (i < Len(s) => r[1] = s[i + 1])
  <2>1. PICK q \in Seq(Threads) :
           /\ q = SubSeq(s, i, Len(s)) /\ Len(q) = Len(s) - i + 1
           /\ (i < Len(s) => q[2] = s[i + 1])
    <3>1. SubSeq(s, i, Len(s)) \in Seq(Threads) /\ Len(SubSeq(s, i, Len(s))) = Len(s) - i + 1
      BY <1>1
    <3>2. i < Len(s) => SubSeq(s, i, Len(s))[2] = s[i + 1]
      BY <1>1
    <3> QED BY <3>1, <3>2, Zenon
  <2>2. Len(q) = Len(s) - i + 1 /\ (i < Len(s) => q[2] = s[i + 1])
    BY <2>1, Zenon
  <2>3. Tail(q) \in Seq(Threads) /\ Len(Tail(q)) = Len(q) - 1 /\ (Len(q) > 1 => Tail(q)[1] = q[2])
    BY <1>1, <2>2
  <2>4. Tail(q) = Tail(RestOf(s, n))
    BY <1>3, <2>1, Zenon
  <2>5. Tail(q) \in Seq(Threads) /\ Len(Tail(q)) = Len(s) - i /\ (i < Len(s) => Tail(q)[1] = s[i + 1])
    BY <1>1, <2>2, <2>3
  <2> QED BY <2>4, <2>5, Zenon
<1>5. Len(r) = Len(s) - i /\ (i < Len(s) => r[1] = s[i + 1])
  BY <1>4, Zenon
<1>6. CASE i = Len(s)
  <2>1. r = << >>
    BY <1>1, <1>5, <1>6
  <2>2. First(r) = End
    BY <2>1 DEF First
  <2>3. O \ {n} = {}
    BY <1>1, <1>2, <1>6
  <2>4. Ahead(s, First(r), O \ {n})
    BY <2>2, <2>3 DEF Ahead
  <2> QED BY <1>4, <2>2, <2>4
<1>7. CASE i # Len(s)
  <2>1. i < Len(s) /\ i + 1 \in 1..Len(s)
    BY <1>1, <1>7
  <2>2. r # << >> /\ r[1] = s[i + 1]
    BY <1>1, <1>5, <2>1
  <2>3. First(r) = s[i + 1]
    BY <2>2 DEF First
  <2>4. \A k \in i..Len(s) : k = i \/ k \in (i + 1)..Len(s)
    BY <1>1
  <2>5. O \ {n} \subseteq {s[k] : k \in (i + 1)..Len(s)}
    BY <1>2, <2>4
  <2>6. Ahead(s, First(r), O \ {n}) /\ First(r) \in S
    BY <1>1, <2>1, <2>3, <2>5 DEF Ahead
  <2> QED BY <1>4, <2>6
<1> QED BY <1>6, <1>7

\* CreateThread takes a thread that nothing refers to and puts it last.
LEMMA CreateLists ==
  ASSUME ListInv, NEW t \in Threads, NEW f \in BOOLEAN, Create(t, f)
  PROVE  ListInv' /\ state[t] \in {"free", "KILLED"}
<1>1. /\ state \in [Threads -> State]
      /\ Lists(running, With({"RUNNING"})) /\ Lists(blocked, With({"BLOCKED", "SYS_PENDING"}))
      /\ Lists(sleeping, With({"SLEEPING"})) /\ Lists(killed, With({"KILLED"}))
      /\ Len(killed) <= MaxKilled
      /\ pass \in BOOLEAN /\ owed \in SUBSET Threads
      /\ nextThread \in With({"RUNNING"}) \cup {End} /\ (nextThread # End => pass)
      /\ Ahead(running, nextThread, owed)
  BY DEF ListInv
<1>2. /\ state' = [state EXCEPT ![t] = "RUNNING"] /\ running' = Append(running, t)
      /\ killed' = (IF killed = << >> THEN killed ELSE Tail(killed))
      /\ nextThread' = (IF pass /\ nextThread = End THEN t ELSE nextThread)
      /\ owed' = (IF pass THEN owed \cup {t} ELSE owed)
      /\ UNCHANGED <<blocked, sleeping, pass>>
  BY DEF Create, NextCreated
<1>3. /\ state[t] \in {"free", "KILLED"}
      /\ killed = << >> => state[t] = "free"
      /\ killed # << >> => t = killed[1]
  <2>1. CASE killed = << >>
    <3>1. state[t] = "free"
      BY <2>1 DEF Create, Fresh, NewThread
    <3> QED BY <2>1, <3>1
  <2>2. CASE killed # << >>
    <3>1. t = killed[1]
      BY <2>2 DEF Create, NewThread
    <3>2. t \in With({"KILLED"})
      BY <1>1, <2>2, <3>1, ListsTail
    <3> QED BY <2>2, <3>1, <3>2 DEF With
  <2> QED BY <2>1, <2>2
<1>4. state' \in [Threads -> State]
  BY <1>1, <1>2 DEF State
<1>5. /\ With({"RUNNING"})' = With({"RUNNING"}) \cup {t} /\ t \notin With({"RUNNING"})
      /\ With({"BLOCKED", "SYS_PENDING"})' = With({"BLOCKED", "SYS_PENDING"})
      /\ With({"SLEEPING"})' = With({"SLEEPING"})
      /\ With({"KILLED"})' = With({"KILLED"}) \ {t}
  BY <1>1, <1>2, <1>3 DEF With
<1>6. Lists(running, With({"RUNNING"}))'
  BY <1>1, <1>2, <1>5, ListsAppend
<1>7. Lists(blocked, With({"BLOCKED", "SYS_PENDING"}))' /\ Lists(sleeping, With({"SLEEPING"}))'
  BY <1>1, <1>2, <1>5
<1>8. Lists(killed, With({"KILLED"}))' /\ Len(killed') <= MaxKilled
  <2>1. CASE killed = << >>
    <3>1. With({"KILLED"})' = With({"KILLED"})
      BY <1>3, <1>5, <2>1 DEF With
    <3>2. killed' = killed
      BY <1>2, <2>1
    <3> QED BY <1>1, <3>1, <3>2, Zenon
  <2>2. CASE killed # << >>
    <3>1. Lists(Tail(killed), With({"KILLED"}) \ {t}) /\ Len(Tail(killed)) = Len(killed) - 1
      BY <1>1, <1>3, <2>2, ListsTail
    <3>2. Len(killed) \in Nat /\ MaxKilled \in Nat
      BY <1>1, GMAssumption, ListsThreads
    <3>3. killed' = Tail(killed)
      BY <1>2, <2>2
    <3>4. Len(Tail(killed)) <= MaxKilled
      BY <1>1, <3>1, <3>2
    <3> QED BY <1>5, <3>1, <3>3, <3>4
  <2> QED BY <2>1, <2>2
<1>9. /\ Ahead(running, nextThread, owed)' /\ owed' \in SUBSET Threads
      /\ nextThread' \in (With({"RUNNING"}) \cup {End})' /\ (nextThread' # End => pass')
  <2>1. /\ nextThread = End => owed = {} /\ Ahead(Append(running, t), t, {t})
                               /\ Ahead(Append(running, t), End, {})
        /\ nextThread # End => Ahead(Append(running, t), nextThread, owed \cup {t})
    BY <1>1, AheadAppend
  <2>2. Ahead(running', nextThread', owed')
    <3>1. CASE nextThread = End /\ pass
      <4>1. owed' = {t} /\ nextThread' = t /\ running' = Append(running, t)
        BY <1>2, <2>1, <3>1
      <4> QED BY <2>1, <3>1, <4>1
    <3>2. CASE nextThread = End /\ ~pass
      BY <1>2, <2>1, <3>2
    <3>3. CASE nextThread # End
      BY <1>1, <1>2, <2>1, <3>3
    <3> QED BY <3>1, <3>2, <3>3
  <2> QED BY <1>1, <1>2, <1>5, <2>2
<1> QED BY <1>1, <1>2, <1>3, <1>4, <1>6, <1>7, <1>8, <1>9 DEF ListInv

\* Threads that are killed leave their lists for the pool, as long as it has room.
LEMMA KillLists ==
  ASSUME ListInv, NEW v, NEW V, Lists(v, V), \A t \in V : state[t] \notin {"free", "KILLED"},
         Kill(v)
  PROVE  /\ ListInv' /\ Range(v) = V
         /\ \A t \in Threads : state'[t] = IF t \in V THEN state'[t] ELSE state[t]
         /\ \A t \in V : state'[t] \in {"free", "KILLED"}
<1>1. /\ state \in [Threads -> State]
      /\ Lists(running, With({"RUNNING"})) /\ Lists(blocked, With({"BLOCKED", "SYS_PENDING"}))
      /\ Lists(sleeping, With({"SLEEPING"})) /\ Lists(killed, With({"KILLED"}))
      /\ Len(killed) \in Nat /\ MaxKilled \in Nat /\ Len(killed) <= MaxKilled
      /\ pass \in BOOLEAN /\ owed \in SUBSET Threads
      /\ nextThread \in With({"RUNNING"}) \cup {End} /\ (nextThread # End => pass)
      /\ Ahead(running, nextThread, owed)
  BY GMAssumption, ListsThreads DEF ListInv
<1>2. V \in SUBSET Threads /\ Len(v) \in Nat /\ v \in Seq(Threads) /\ Range(v) = V
  BY ListsThreads DEF Lists
<1>3. PICK m \in 0..Len(v) : m = (IF Len(v) < MaxKilled - Len(killed) THEN Len(v) ELSE MaxKilled - Len(killed))
  BY <1>1, <1>2
<1>4. m + Len(killed) <= MaxKilled
  BY <1>1, <1>2, <1>3
<1>5. PICK w : w = SubSeq(v, 1, m)
  OBVIOUS
<1>6. PICK P : P = {v[k] : k \in 1..m}
  OBVIOUS
<1>7. Lists(w, P) /\ Len(w) = m /\ P \subseteq V
  <2>1. 1 \in Nat \ {0} /\ m \in Nat /\ m <= Len(v)
    BY <1>2
  <2>2. Lists(w, P)
    BY <1>5, <1>6, <2>1, ListsSubSeq
  <2>3. Len(w) = m
    BY <1>2, <1>5, <2>1
  <2>4. \A k \in 1..m : v[k] \in V
    BY <1>2, <2>1, ListPositions
  <2> QED BY <1>6, <2>2, <2>3, <2>4
<1>8. /\ state' = [t \in Threads |->
                      IF t \in P THEN "KILLED" ELSE IF t \in V THEN "free" ELSE state[t]]
      /\ running' = Without(running, V) /\ blocked' = Without(blocked, V)
      /\ sleeping' = Without(sleeping, V) /\ killed' = Reverse(w) \o killed
      /\ nextThread' = First(Without(RestOf(running, nextThread), V)) /\ owed' = owed \ V
      /\ pass' = pass
  <2>1. Range(w) = P
    BY <1>7 DEF Lists
  <2> QED BY <1>2, <1>3, <1>5, <2>1, RestIsRestOf DEF Kill, NextAfter
<1>9. /\ state' \in [Threads -> State]
      /\ \A t \in Threads : state'[t] = IF t \in V THEN state'[t] ELSE state[t]
      /\ \A t \in V : state'[t] \in {"free", "KILLED"}
  BY <1>1, <1>2, <1>7, <1>8 DEF State
<1>10. /\ With({"RUNNING"})' = With({"RUNNING"}) \ V
       /\ With({"BLOCKED", "SYS_PENDING"})' = With({"BLOCKED", "SYS_PENDING"}) \ V
       /\ With({"SLEEPING"})' = With({"SLEEPING"}) \ V
  BY <1>1, <1>2, <1>7, <1>8 DEF With
<1>11. With({"KILLED"})' = P \cup With({"KILLED"}) /\ P \cap With({"KILLED"}) = {}
  BY <1>1, <1>2, <1>7, <1>8 DEF With
<1>12. /\ Lists(running, With({"RUNNING"}))'
       /\ Lists(blocked, With({"BLOCKED", "SYS_PENDING"}))'
       /\ Lists(sleeping, With({"SLEEPING"}))'
  BY <1>1, <1>8, <1>10, ListsWithout
<1>13. Lists(killed, With({"KILLED"}))' /\ Len(killed') <= MaxKilled
  <2>1. Lists(Reverse(w), P) /\ Len(Reverse(w)) = m
    BY <1>7, ListsReverse
  <2>2. Lists(Reverse(w) \o killed, P \cup With({"KILLED"}))
    BY <1>1, <1>11, <2>1, ListsConcat
  <2>3. Len(Reverse(w) \o killed) = m + Len(killed)
    <3>1. Reverse(w) \in Seq(Threads) /\ killed \in Seq(Threads)
      BY <1>1, <2>1, ListsThreads, Zenon
    <3>2. Len(Reverse(w) \o killed) = Len(Reverse(w)) + Len(killed)
      BY <3>1, ConcatProperties, Zenon
    <3> QED BY <2>1, <3>2
  <2> QED BY <1>4, <1>8, <1>11, <2>2, <2>3
<1>14. /\ Ahead(running, nextThread, owed)' /\ owed' \in SUBSET Threads
       /\ nextThread' \in (With({"RUNNING"}) \cup {End})' /\ (nextThread' # End => pass')
  <2>1. /\ Ahead(Without(running, V), First(Without(RestOf(running, nextThread), V)), owed \ V)
        /\ First(Without(RestOf(running, nextThread), V)) \in (With({"RUNNING"}) \ V) \cup {End}
        /\ nextThread = End => First(Without(RestOf(running, nextThread), V)) = End
    BY <1>1, AheadWithout
  <2> QED BY <1>1, <1>8, <1>10, <2>1
<1> QED BY <1>1, <1>2, <1>8, <1>9, <1>12, <1>13, <1>14 DEF ListInv

\* The innermost thread leaves the running list for another one.
LEMMA SuspendLists ==
  ASSUME ListInv, NEW t \in Threads, t = Self, state[t] = "RUNNING",
         NEW to \in {"BLOCKED", "SLEEPING"}, Suspend(to)
  PROVE  /\ state' = [state EXCEPT ![t] = to] /\ state' \in [Threads -> State]
         /\ Lists(running, With({"RUNNING"}))'
         /\ pass' = pass => /\ Ahead(running, nextThread, owed)' /\ owed' \in SUBSET Threads
                            /\ nextThread' \in (With({"RUNNING"}) \cup {End})'
                            /\ (nextThread' # End => pass')
<1>1. /\ state \in [Threads -> State]
      /\ Lists(running, With({"RUNNING"})) /\ owed \in SUBSET Threads
      /\ nextThread \in With({"RUNNING"}) \cup {End} /\ (nextThread # End => pass)
      /\ Ahead(running, nextThread, owed)
  BY DEF ListInv
<1>2. /\ state' = [state EXCEPT ![t] = to] /\ running' = Without(running, {t})
      /\ nextThread' = First(Without(RestOf(running, nextThread), {t})) /\ owed' = owed \ {t}
  BY RestIsRestOf DEF Suspend, NextAfter
<1>3. state' \in [Threads -> State] /\ With({"RUNNING"})' = With({"RUNNING"}) \ {t}
  BY <1>1, <1>2 DEF State, With
<1>4. Lists(running, With({"RUNNING"}))'
  BY <1>1, <1>2, <1>3, ListsWithout
<1>5. /\ Ahead(Without(running, {t}), First(Without(RestOf(running, nextThread), {t})), owed \ {t})
      /\ First(Without(RestOf(running, nextThread), {t})) \in (With({"RUNNING"}) \ {t}) \cup {End}
      /\ nextThread = End => First(Without(RestOf(running, nextThread), {t})) = End
  BY <1>1, AheadWithout
<1> QED BY <1>1, <1>2, <1>3, <1>4, <1>5

\* A step that leaves the lists alone.
LEMMA ListsKept ==
  ASSUME ListInv, UNCHANGED <<state, running, blocked, sleeping, killed, pass, nextThread, owed>>
  PROVE  ListInv'
  BY DEF ListInv, With

\* Signal: threads stay in the list of the blocked ones.
LEMMA ListsSignalled ==
  ASSUME ListInv, UNCHANGED <<running, blocked, sleeping, killed, pass, nextThread, owed>>,
         state' \in [Threads -> State],
         \A t \in Threads : state'[t] = state[t] \/ (state[t] = "BLOCKED" /\ state'[t] = "SYS_PENDING")
  PROVE  ListInv'
<1>1. /\ With({"RUNNING"})' = With({"RUNNING"}) /\ With({"SLEEPING"})' = With({"SLEEPING"})
      /\ With({"BLOCKED", "SYS_PENDING"})' = With({"BLOCKED", "SYS_PENDING"})
      /\ With({"KILLED"})' = With({"KILLED"})
  BY DEF With
<1> QED BY <1>1 DEF ListInv

\* The iteration goes on by one thread, which has its turn.
LEMMA RunNextLists ==
  ASSUME ListInv, nextThread # End, nextThread' = First(Tail(Rest)), owed' = owed \ {nextThread},
         UNCHANGED <<lists, pass>>
  PROVE  ListInv'
<1>1. /\ Ahead(running, First(Tail(RestOf(running, nextThread))), owed \ {nextThread})
      /\ First(Tail(RestOf(running, nextThread))) \in With({"RUNNING"}) \cup {End}
  BY AheadTail DEF ListInv
<1>2. UNCHANGED <<running, blocked, sleeping, killed, state>>
  BY DEF lists
<1> QED BY <1>1, <1>2, RestIsRestOf DEF ListInv, With

\* The iteration ends when it has come to the end of the list.
LEMMA EndPassLists ==
  ASSUME ListInv, nextThread = End, pass' = FALSE, UNCHANGED <<lists, nextThread, owed>>
  PROVE  ListInv'
  BY DEF ListInv, With, lists

\* A thread falls asleep.
LEMMA SleeperPosition ==
  ASSUME SleepInv, Lists(sleeping, With({"SLEEPING"})), NEW t \in Threads, NEW at \in 0..(Wrap - 1)
  PROVE  \E p \in 1..(Len(sleeping) + 1) :
            /\ SleeperInserted(t, at) = InsertAt(sleeping, p, t)
            /\ \A i \in 1..Len(sleeping) :
                  (i < p => stamp[sleeping[i]] <= at) /\ (~(i < p) => at < stamp[sleeping[i]])
<1>1. /\ sleeping \in Seq(Threads) /\ Len(sleeping) \in Nat /\ at \in Nat
      /\ \A i \in 1..Len(sleeping) : stamp[sleeping[i]] \in Nat
  BY ListsThreads DEF SleepInv
<1> DEFINE later == {i \in 1..Len(sleeping) : stamp[sleeping[i]] > at}
<1>2. CASE later = {}
  <2>1. SleeperInserted(t, at) = InsertAt(sleeping, Len(sleeping) + 1, t)
    BY <1>2 DEF SleeperInserted
  <2>2. Len(sleeping) + 1 \in 1..(Len(sleeping) + 1)
    BY <1>1
  <2>3. \A i \in 1..Len(sleeping) : i < Len(sleeping) + 1 /\ stamp[sleeping[i]] <= at
    BY <1>1, <1>2
  <2> QED BY <2>1, <2>2, <2>3
<1>3. CASE later # {}
  <2>1. later \in SUBSET Nat
    OBVIOUS
  <2>2. PICK p : p = CHOOSE i \in later : \A j \in later : i <= j
    OBVIOUS
  <2>3. p \in later /\ \A j \in later : p <= j
    <3> HIDE DEF later
    <3>1. \E i \in later : \A j \in later : i <= j
      BY <1>3, <2>1, LeastNumber
    <3> QED BY <2>2, <3>1
  <2>4. SleeperInserted(t, at) = InsertAt(sleeping, p, t)
    BY <1>3, <2>2 DEF SleeperInserted
  <2>5. p \in 1..Len(sleeping) /\ stamp[sleeping[p]] > at
    BY <2>3
  <2>6. ASSUME NEW i \in 1..Len(sleeping)
        PROVE  (i < p => stamp[sleeping[i]] <= at) /\ (~(i < p) => at < stamp[sleeping[i]])
    <3>1. i < p => i \notin later
      BY <2>3, <2>5
    <3>2. i < p => stamp[sleeping[i]] <= at
      BY <3>1, <1>1
    <3>3. p < i => stamp[sleeping[p]] <= stamp[sleeping[i]]
      BY <2>5 DEF SleepInv
    <3>4. ~(i < p) => at < stamp[sleeping[i]]
      BY <3>3, <2>5, <1>1
    <3> QED BY <3>2, <3>4
  <2>7. p \in 1..(Len(sleeping) + 1)
    BY <1>1, <2>5
  <2> QED BY <2>4, <2>6, <2>7
<1> QED BY <1>2, <1>3

\* The thread that runs goes to sleep.
LEMMA SleepLists ==
  ASSUME ListInv, SleepInv, NEW t \in Threads, t = Self, state[t] = "RUNNING",
         Suspend("SLEEPING"), NEW at \in 0..(Wrap - 1), sleeping' = SleeperInserted(t, at),
         UNCHANGED <<blocked, killed, pass>>
  PROVE  ListInv'
<1>1. /\ state' = [state EXCEPT ![t] = "SLEEPING"] /\ state' \in [Threads -> State]
      /\ Lists(running, With({"RUNNING"}))'
      /\ Ahead(running, nextThread, owed)' /\ owed' \in SUBSET Threads
      /\ nextThread' \in (With({"RUNNING"}) \cup {End})' /\ (nextThread' # End => pass')
  BY SuspendLists
<1>2. /\ With({"SLEEPING"})' = With({"SLEEPING"}) \cup {t} /\ t \notin With({"SLEEPING"})
      /\ With({"BLOCKED", "SYS_PENDING"})' = With({"BLOCKED", "SYS_PENDING"})
      /\ With({"KILLED"})' = With({"KILLED"})
  BY <1>1 DEF ListInv, With
<1>3. PICK p \in 1..(Len(sleeping) + 1) : SleeperInserted(t, at) = InsertAt(sleeping, p, t)
  BY SleeperPosition DEF ListInv
<1>4. Lists(InsertAt(sleeping, p, t), With({"SLEEPING"}) \cup {t})
  BY <1>2, ListsInsert DEF ListInv
<1>5. Lists(sleeping, With({"SLEEPING"}))'
  BY <1>2, <1>3, <1>4
<1>6. Lists(blocked, With({"BLOCKED", "SYS_PENDING"}))' /\ Lists(killed, With({"KILLED"}))'
  BY <1>2 DEF ListInv
<1> QED BY <1>1, <1>5, <1>6 DEF ListInv

\* A thread blocks.
LEMMA BlockLists ==
  ASSUME ListInv, NEW t \in Threads, t = Self, state[t] = "RUNNING",
         Suspend("BLOCKED"), blocked' = <<t>> \o blocked, UNCHANGED <<sleeping, killed, pass>>
  PROVE  ListInv'
<1>1. /\ state' = [state EXCEPT ![t] = "BLOCKED"] /\ state' \in [Threads -> State]
      /\ Lists(running, With({"RUNNING"}))'
      /\ Ahead(running, nextThread, owed)' /\ owed' \in SUBSET Threads
      /\ nextThread' \in (With({"RUNNING"}) \cup {End})' /\ (nextThread' # End => pass')
  BY SuspendLists
<1>2. /\ With({"BLOCKED", "SYS_PENDING"})' = With({"BLOCKED", "SYS_PENDING"}) \cup {t}
      /\ t \notin With({"BLOCKED", "SYS_PENDING"})
      /\ With({"SLEEPING"})' = With({"SLEEPING"}) /\ With({"KILLED"})' = With({"KILLED"})
  BY <1>1 DEF ListInv, With
<1>3. Lists(<<t>> \o blocked, With({"BLOCKED", "SYS_PENDING"}) \cup {t})
  BY <1>2, ListsCons DEF ListInv
<1>4. Lists(blocked, With({"BLOCKED", "SYS_PENDING"}))'
  BY <1>2, <1>3
<1>5. Lists(sleeping, With({"SLEEPING"}))' /\ Lists(killed, With({"KILLED"}))'
  BY <1>2 DEF ListInv
<1> QED BY <1>1, <1>4, <1>5 DEF ListInv

\* What is left of a sorted list is sorted.
LEMMA WithoutSorted ==
  ASSUME NEW s \in Seq(Threads), NEW K, NEW f,
         \A i, j \in 1..Len(s) : i < j => f[s[i]] <= f[s[j]]
  PROVE  \A i, j \in 1..Len(Without(s, K)) :
            i < j => f[Without(s, K)[i]] <= f[Without(s, K)[j]]
<1>1. PICK u \in Seq(Threads) : u = Without(s, K) /\ \E e : Picked(e, u, s, K, Len(s))
  BY WithoutPicks
<1>2. PICK e : Picked(e, u, s, K, Len(s))
  BY <1>1
<1>3. \A i \in 1..Len(u) : e[i] \in 1..Len(s) /\ u[i] = s[e[i]]
  BY <1>2 DEF Picked
<1>4. \A i, j \in 1..Len(u) : i < j => e[i] < e[j]
  BY <1>2 DEF Picked
<1>5. \A i, j \in 1..Len(u) : i < j => f[u[i]] <= f[u[j]]
  BY <1>3, <1>4
<1> QED BY <1>1, <1>5

\* Execute wakes the sleepers at the front of the list: these are all that are due.
LEMMA DueLists ==
  ASSUME SleepInv, Lists(sleeping, With({"SLEEPING"})), NEW now \in 0..(Wrap - 1)
  PROVE  Lists(DueThreads(now), {t \in With({"SLEEPING"}) : stamp[t] <= now})
<1> DEFINE Due(n) == \A i \in 1..n : stamp[sleeping[i]] <= now
           Cut(n) == Due(n) /\ (n < Len(sleeping) => ~Due(n + 1))
<1>1. /\ sleeping \in Seq(Threads) /\ Len(sleeping) \in Nat /\ now \in Nat
      /\ \A i \in 1..Len(sleeping) : stamp[sleeping[i]] \in Nat
  BY ListsThreads DEF SleepInv
<1>2. \E n \in 0..Len(sleeping) : Cut(n)
  <2>1. SUFFICES ASSUME \A n \in 0..Len(sleeping) : ~Cut(n) PROVE FALSE
    OBVIOUS
  <2> DEFINE S == {n \in 0..Len(sleeping) : Due(n)}
  <2>2. 0 \in S
    BY <1>1
  <2>3. ASSUME NEW i \in 1..Len(sleeping), i - 1 \in S PROVE i \in S
    <3>1. i - 1 \in 0..Len(sleeping) /\ i - 1 < Len(sleeping) /\ (i - 1) + 1 = i /\ Due(i - 1)
      BY <1>1, <2>3
    <3>2. ~Cut(i - 1)
      BY <2>1, <3>1
    <3>3. Due(i)
      BY <3>1, <3>2
    <3> QED BY <1>1, <3>3
  <2> HIDE DEF S
  <2>4. Len(sleeping) \in S
    <3>1. \A i \in 1..Len(sleeping) : i - 1 \in S => i \in S
      BY <2>3
    <3>2. \A i \in 0..Len(sleeping) : i \in S
      BY <1>1, <2>2, <3>1, UpTo
    <3> QED BY <1>1, <3>2
  <2>5. Due(Len(sleeping))
    BY <2>4 DEF S
  <2>6. ~Cut(Len(sleeping))
    BY <1>1, <2>1
  <2> QED BY <1>1, <2>5, <2>6
<1>3. PICK n \in 0..Len(sleeping) : n = CHOOSE m \in 0..Len(sleeping) : Cut(m)
  BY <1>2
<1>4. Cut(n)
  BY <1>2, <1>3
<1>5. DueThreads(now) = SubSeq(sleeping, 1, n)
  BY <1>3 DEF DueThreads
<1>6. Lists(SubSeq(sleeping, 1, n), {sleeping[k] : k \in 1..n})
  BY <1>1, ListsSubSeq
<1>7. {sleeping[k] : k \in 1..n} = {t \in With({"SLEEPING"}) : stamp[t] <= now}
  <2>1. \A k \in 1..n : sleeping[k] \in With({"SLEEPING"}) /\ stamp[sleeping[k]] <= now
    BY <1>1, <1>4, ListPositions
  <2>2. ASSUME NEW t \in With({"SLEEPING"}), stamp[t] <= now PROVE t \in {sleeping[k] : k \in 1..n}
    <3>1. PICK k \in 1..Len(sleeping) : sleeping[k] = t
      BY ListPositions
    <3>2. SUFFICES ASSUME ~(k \in 1..n) PROVE FALSE
      BY <3>1
    <3>3. n < Len(sleeping) /\ n + 1 \in 1..Len(sleeping) /\ (n + 1 = k \/ n + 1 < k)
      BY <1>1, <3>2
    <3>4. ~(stamp[sleeping[n + 1]] <= now)
      <4>1. PICK i \in 1..(n + 1) : ~(stamp[sleeping[i]] <= now)
        BY <1>4, <3>3
      <4>2. i \notin 1..n
        BY <1>4, <4>1
      <4>3. i = n + 1
        BY <4>2, <1>1
      <4> QED BY <4>1, <4>3
    <3>5. stamp[sleeping[n + 1]] <= stamp[sleeping[k]]
      BY <1>1, <3>3 DEF SleepInv
    <3> QED BY <1>1, <2>2, <3>1, <3>3, <3>4, <3>5
  <2> QED BY <2>1, <2>2
<1> QED BY <1>5, <1>6, <1>7

\* The threads that Execute wakes.
Woken(now) == {t \in With({"SLEEPING"}) : stamp[t] <= now} \cup With({"SYS_PENDING"})

\* Execute wakes each due and each pending thread once.
LEMMA WokenLists ==
  ASSUME ListInv, SleepInv, NEW now \in 0..(Wrap - 1)
  PROVE  Lists(DueThreads(now) \o PendingThreads, Woken(now))
<1>1. Lists(DueThreads(now), {t \in With({"SLEEPING"}) : stamp[t] <= now})
  BY DueLists DEF ListInv
<1>2. With({"BLOCKED", "SYS_PENDING"}) \ {t \in Threads : state[t] # "SYS_PENDING"} = With({"SYS_PENDING"})
  BY DEF With
<1>3. Lists(PendingThreads, With({"SYS_PENDING"}))
  <2>1. Lists(blocked, With({"BLOCKED", "SYS_PENDING"}))
    BY DEF ListInv
  <2> QED BY <1>2, <2>1, ListsWithout DEF PendingThreads
<1>4. {t \in With({"SLEEPING"}) : stamp[t] <= now} \cap With({"SYS_PENDING"}) = {}
  BY DEF With
<1> QED BY <1>1, <1>3, <1>4, ListsConcat DEF Woken

\* Execute puts the threads it wakes on the running list and owes all of them a turn.
LEMMA ExecuteLists ==
  ASSUME ListInv, SleepInv, NEW d \in Deltas, Execute(d)
  PROVE  /\ ListInv' /\ time' = (time + d) % Wrap /\ time' \in 0..(Wrap - 1)
         /\ Range(DueThreads(time') \o PendingThreads) = Woken(time')
<1>1. time' = (time + d) % Wrap /\ time' \in 0..(Wrap - 1)
  <2>1. time \in Nat /\ d \in Nat /\ Wrap \in Nat \ {0}
    BY GMAssumption DEF SleepInv
  <2>2. (time + d) % Wrap \in 0..(Wrap - 1)
    BY <2>1
  <2> QED BY <2>2 DEF Execute
<1>2. PICK now \in 0..(Wrap - 1) : now = time'
  BY <1>1
<1>3. PICK w, W : w = DueThreads(now) \o PendingThreads /\ W = Woken(now)
  OBVIOUS
<1>4. Lists(w, W) /\ Range(w) = W /\ W \subseteq Threads
  BY <1>3, WokenLists, ListsThreads DEF Lists
<1>5. /\ running' = running \o w /\ sleeping' = Without(sleeping, W)
      /\ blocked' = Without(blocked, W)
      /\ state' = [t \in Threads |-> IF t \in W THEN "RUNNING" ELSE state[t]]
      /\ pass' = TRUE /\ nextThread' = First(running \o w) /\ owed' = Range(running \o w)
      /\ killed' = killed
  BY <1>1, <1>2, <1>3, <1>4 DEF Execute
<1>6. \A t \in W : state[t] \in {"SLEEPING", "SYS_PENDING"}
  BY <1>3 DEF Woken, With
<1>7. /\ With({"RUNNING"})' = With({"RUNNING"}) \cup W /\ With({"RUNNING"}) \cap W = {}
      /\ With({"BLOCKED", "SYS_PENDING"})' = With({"BLOCKED", "SYS_PENDING"}) \ W
      /\ With({"SLEEPING"})' = With({"SLEEPING"}) \ W
      /\ With({"KILLED"})' = With({"KILLED"})
      /\ state' \in [Threads -> State]
  BY <1>4, <1>5, <1>6 DEF ListInv, With, State
<1>8. Lists(running \o w, With({"RUNNING"}) \cup W)
  BY <1>4, <1>7, ListsConcat DEF ListInv
<1>9. /\ Ahead(running \o w, First(running \o w), With({"RUNNING"}) \cup W)
      /\ First(running \o w) \in With({"RUNNING"}) \cup W \cup {End}
  BY <1>8, AheadAll
<1>10. Lists(running, With({"RUNNING"}))' /\ owed' = With({"RUNNING"}) \cup W
  BY <1>5, <1>7, <1>8 DEF Lists
<1>11. /\ Lists(blocked, With({"BLOCKED", "SYS_PENDING"}))'
       /\ Lists(sleeping, With({"SLEEPING"}))' /\ Lists(killed, With({"KILLED"}))'
  BY <1>5, <1>7, ListsWithout DEF ListInv
<1>12. owed' \in SUBSET Threads
  BY <1>4, <1>10 DEF With
<1>13. ListInv'
  BY <1>5, <1>7, <1>9, <1>10, <1>11, <1>12 DEF ListInv
<1> QED BY <1>1, <1>2, <1>3, <1>4, <1>13

-----------------------------------------------------------------------------
(* Blocks and signals *)

\* What BlocksAgree says of a thread in state st with the blocks b and the signals g.
AgreeAt(st, b, g) ==
    /\ st = "SYS_PENDING" <=> \E i \in 1..Len(b) : b[i].signalled
    /\ b # << >> <=> st \in {"BLOCKED", "SYS_PENDING"}
    /\ g # << >> => st \in {"SYS_PENDING", "RUNNING"}

Blocks == Seq([on : Signals, signalled : BOOLEAN])

\* BlockInv, thread by thread.
LEMMA BlockInvAt ==
  BlockInv <=> /\ blocks \in [Threads -> Blocks] /\ signals \in [Threads -> Seq(Signals)]
               /\ \A t \in Threads : AgreeAt(state[t], blocks[t], signals[t])
  BY DEF BlockInv, BlocksAgree, AgreeAt, Blocks

\* A thread that is not blocked has no blocks.
LEMMA AgreeEmpty ==
  ASSUME NEW st, NEW g, st \notin {"BLOCKED", "SYS_PENDING"}, g # << >> => st = "RUNNING"
  PROVE  AgreeAt(st, << >>, g)
<1>1. ~ \E i \in 1..Len(<< >>) : << >>[i].signalled
  OBVIOUS
<1> QED BY <1>1 DEF AgreeAt

\* The threads V lose their blocks; of the others nothing changes.
LEMMA BlocksCleared ==
  ASSUME BlockInv, NEW V \in SUBSET Threads,
         blocks' = [t \in Threads |-> IF t \in V THEN << >> ELSE blocks[t]],
         signals' \in [Threads -> Seq(Signals)],
         \A t \in V : /\ state'[t] \notin {"BLOCKED", "SYS_PENDING"}
                      /\ signals'[t] # << >> => state'[t] = "RUNNING",
         \A t \in Threads \ V : state'[t] = state[t] /\ signals'[t] = signals[t]
  PROVE  BlockInv'
<1>1. /\ blocks \in [Threads -> Blocks] /\ signals \in [Threads -> Seq(Signals)]
      /\ \A t \in Threads : AgreeAt(state[t], blocks[t], signals[t])
  BY BlockInvAt
<1>2. << >> \in Blocks
  BY DEF Blocks
<1>3. blocks' \in [Threads -> Blocks]
  BY <1>1, <1>2
<1>4. ASSUME NEW t \in Threads PROVE AgreeAt(state'[t], blocks'[t], signals'[t])
  <2>1. CASE t \in V
    <3>1. blocks'[t] = << >>
      BY <2>1
    <3>2. AgreeAt(state'[t], << >>, signals'[t])
      BY <2>1, AgreeEmpty
    <3> QED BY <3>1, <3>2
  <2>2. CASE t \notin V
    <3>1. state'[t] = state[t] /\ signals'[t] = signals[t] /\ blocks'[t] = blocks[t]
      BY <2>2
    <3> QED BY <1>1, <3>1
  <2> QED BY <2>1, <2>2
<1> QED BY <1>3, <1>4 DEF BlockInv, BlocksAgree, AgreeAt, Blocks

\* A thread that is not blocked goes to another such state, or loses signals.
LEMMA BlocksMoved ==
  ASSUME BlockInv, NEW t \in Threads, state[t] \notin {"BLOCKED", "SYS_PENDING"},
         state \in [Threads -> State], blocks' = blocks, signals' \in [Threads -> Seq(Signals)],
         state'[t] \notin {"BLOCKED", "SYS_PENDING"}, signals'[t] # << >> => state'[t] = "RUNNING",
         \A u \in Threads \ {t} : state'[u] = state[u] /\ signals'[u] = signals[u]
  PROVE  BlockInv'
<1>1. /\ blocks \in [Threads -> Blocks] /\ signals \in [Threads -> Seq(Signals)]
      /\ \A u \in Threads : AgreeAt(state[u], blocks[u], signals[u])
  BY BlockInvAt
<1>2. blocks[t] = << >>
  BY <1>1 DEF AgreeAt
<1>3. AgreeAt(state'[t], blocks'[t], signals'[t])
  BY <1>2, AgreeEmpty
<1>4. ASSUME NEW u \in Threads PROVE AgreeAt(state'[u], blocks'[u], signals'[u])
  <2>1. CASE u = t
    BY <1>3, <2>1
  <2>2. CASE u # t
    <3>1. state'[u] = state[u] /\ signals'[u] = signals[u] /\ blocks'[u] = blocks[u]
      BY <2>2
    <3> QED BY <1>1, <3>1
  <2> QED BY <2>1, <2>2
<1> QED BY <1>1, <1>4 DEF BlockInv, BlocksAgree, AgreeAt, Blocks

\* Steps that change no state, block or signal.
LEMMA BlocksKept ==
  ASSUME BlockInv, UNCHANGED <<state, blocks, signals>>
  PROVE  BlockInv'
  BY DEF BlockInv, BlocksAgree


\* A thread is created without blocks and signals.
LEMMA BlocksCreated ==
  ASSUME ListInv, BlockInv, NEW t \in Threads, NEW f \in BOOLEAN, Create(t, f)
  PROVE  BlockInv'
<1>1. state[t] \in {"free", "KILLED"} /\ state \in [Threads -> State]
  BY CreateLists DEF ListInv
<1>2. state' = [state EXCEPT ![t] = "RUNNING"] /\ blocks' = blocks /\ signals' = signals
  BY DEF Create
<1>3. signals \in [Threads -> Seq(Signals)]
  BY DEF BlockInv
<1>4. state'[t] = "RUNNING" /\ \A u \in Threads \ {t} : state'[u] = state[u]
  BY <1>1, <1>2
<1> QED BY <1>1, <1>2, <1>3, <1>4, BlocksMoved

\* Killed threads lose their blocks and signals.
LEMMA BlocksKilled ==
  ASSUME ListInv, BlockInv, NEW v, NEW V, Lists(v, V),
         \A t \in V : state[t] \notin {"free", "KILLED"}, Kill(v)
  PROVE  BlockInv'
<1>1. /\ Range(v) = V /\ V \in SUBSET Threads
      /\ \A t \in Threads : state'[t] = IF t \in V THEN state'[t] ELSE state[t]
      /\ \A t \in V : state'[t] \in {"free", "KILLED"}
  BY KillLists, ListsThreads
<1>2. /\ blocks' = [t \in Threads |-> IF t \in V THEN << >> ELSE blocks[t]]
      /\ signals' = [t \in Threads |-> IF t \in V THEN << >> ELSE signals[t]]
  BY <1>1 DEF Kill
<1>3. signals' \in [Threads -> Seq(Signals)]
  BY <1>2 DEF BlockInv
<1>4. /\ \A t \in V : state'[t] \notin {"BLOCKED", "SYS_PENDING"} /\ signals'[t] = << >>
      /\ \A t \in Threads \ V : state'[t] = state[t] /\ signals'[t] = signals[t]
  BY <1>1, <1>2
<1> QED BY <1>1, <1>2, <1>3, <1>4, BlocksCleared

\* Execute clears the blocks of the pending threads it wakes.
LEMMA BlocksExecuted ==
  ASSUME ListInv, SleepInv, BlockInv, NEW d \in Deltas, Execute(d)
  PROVE  BlockInv'
<1>1. PICK W : W = Woken(time') /\ W = Range(DueThreads(time') \o PendingThreads)
  BY ExecuteLists
<1>2. /\ state' = [t \in Threads |-> IF t \in W THEN "RUNNING" ELSE state[t]]
      /\ blocks' = [t \in Threads |-> IF t \in W THEN << >> ELSE blocks[t]]
      /\ signals' = signals
  BY <1>1 DEF Execute
<1>3. W \in SUBSET Threads
  BY <1>1 DEF Woken, With
<1>4. signals' \in [Threads -> Seq(Signals)]
  BY <1>2 DEF BlockInv
<1>5. /\ \A t \in W : state'[t] = "RUNNING"
      /\ \A t \in Threads \ W : state'[t] = state[t] /\ signals'[t] = signals[t]
  BY <1>2, <1>3
<1> QED BY <1>2, <1>3, <1>4, <1>5, BlocksCleared

\* A thread that goes to sleep has no blocks.
LEMMA BlocksSlept ==
  ASSUME ListInv, BlockInv, NEW t \in Threads, t = Self, state[t] = "RUNNING",
         Suspend("SLEEPING"), blocks' = blocks
  PROVE  BlockInv'
<1>1. state \in [Threads -> State] /\ signals \in [Threads -> Seq(Signals)]
  BY DEF ListInv, BlockInv
<1>2. state' = [state EXCEPT ![t] = "SLEEPING"] /\ signals' = [signals EXCEPT ![t] = << >>]
  BY DEF Suspend
<1>3. /\ state'[t] = "SLEEPING" /\ signals'[t] = << >> /\ signals' \in [Threads -> Seq(Signals)]
      /\ \A u \in Threads \ {t} : state'[u] = state[u] /\ signals'[u] = signals[u]
  BY <1>1, <1>2
<1> QED BY <1>1, <1>3, BlocksMoved

\* A function on 1..n is a sequence of length n.
LEMMA FunctionIsSeq ==
  ASSUME NEW n \in Nat, NEW T, NEW a \in [1..n -> T]
  PROVE  a \in Seq(T) /\ Len(a) = n
  OBVIOUS

\* A sequence is a function on its positions.
LEMMA SeqIsFunction ==
  ASSUME NEW T, NEW a \in Seq(T)
  PROVE  a \in [1..Len(a) -> T]
  OBVIOUS

\* The blocks that Sys_Block makes: one at least, and none is signalled yet.
LEMMA NewBlocks ==
  ASSUME NEW ss \in Seq(Signals), Len(ss) > 0
  PROVE  LET b == Reverse([i \in 1..Len(ss) |-> [on |-> ss[i], signalled |-> FALSE]])
         IN  b \in Blocks /\ Len(b) = Len(ss) /\ \A i \in 1..Len(b) : ~b[i].signalled
<1>1. PICK n \in Nat : n = Len(ss)
  OBVIOUS
<1>2. PICK a : a = [i \in 1..n |-> [on |-> ss[i], signalled |-> FALSE]]
  OBVIOUS
<1>3. \A i \in 1..n : /\ [on |-> ss[i], signalled |-> FALSE] \in [on : Signals, signalled : BOOLEAN]
                      /\ ~[on |-> ss[i], signalled |-> FALSE].signalled
  BY <1>1
<1>4. a \in [1..n -> [on : Signals, signalled : BOOLEAN]] /\ \A i \in 1..n : ~a[i].signalled
  BY <1>2, <1>3
<1>5. Len(a) = n /\ a \in Blocks
  BY <1>4, FunctionIsSeq DEF Blocks
<1>6. PICK b : b = Reverse(a)
  OBVIOUS
<1>7. b = [i \in 1..n |-> a[(n - i) + 1]]
  BY <1>5, <1>6 DEF Reverse
<1>8. \A i \in 1..n : (n - i) + 1 \in 1..n
  OBVIOUS
<1>9. b \in [1..n -> [on : Signals, signalled : BOOLEAN]] /\ \A i \in 1..n : ~b[i].signalled
  BY <1>4, <1>7, <1>8
<1>10. b \in Blocks /\ Len(b) = n
  BY <1>9, FunctionIsSeq DEF Blocks
<1>11. b = Reverse([i \in 1..Len(ss) |-> [on |-> ss[i], signalled |-> FALSE]])
  BY <1>1, <1>2, <1>6
<1> QED BY <1>1, <1>9, <1>10, <1>11


\* A script blocks on at least one signal.
LEMMA SignalListsNonempty ==
  ASSUME NEW ss \in SignalLists
  PROVE  ss \in Seq(Signals) /\ Len(ss) > 0
<1>1. CASE \E s \in Signals : ss = <<s>>
  BY <1>1
<1>2. CASE \E s, r \in Signals : ss = <<s, r>>
  BY <1>2
<1>3. \/ \E s \in Signals : ss = <<s>>
      \/ \E s, r \in Signals : ss = <<s, r>>
  BY DEF SignalLists
<1> QED BY <1>1, <1>2, <1>3

\* A thread that blocks has a block, not signalled, for each signal it waits for.
LEMMA BlocksBlocked ==
  ASSUME ListInv, BlockInv, NEW t \in Threads, t = Self, state[t] = "RUNNING", Suspend("BLOCKED"),
         NEW ss \in SignalLists,
         blocks' = [blocks EXCEPT ![t] =
                       Reverse([i \in 1..Len(ss) |-> [on |-> ss[i], signalled |-> FALSE]])]
  PROVE  BlockInv'
<1>1. /\ state \in [Threads -> State] /\ blocks \in [Threads -> Blocks]
      /\ signals \in [Threads -> Seq(Signals)]
      /\ \A u \in Threads : AgreeAt(state[u], blocks[u], signals[u])
  BY BlockInvAt DEF ListInv
<1>2. state' = [state EXCEPT ![t] = "BLOCKED"] /\ signals' = [signals EXCEPT ![t] = << >>]
  BY DEF Suspend
<1>3. PICK b : b = Reverse([i \in 1..Len(ss) |-> [on |-> ss[i], signalled |-> FALSE]])
  OBVIOUS
<1>4. b \in Blocks /\ Len(b) > 0 /\ \A i \in 1..Len(b) : ~b[i].signalled
  BY <1>3, SignalListsNonempty, NewBlocks
<1>5. blocks' = [blocks EXCEPT ![t] = b]
  BY <1>3
<1>6. b # << >>
  BY <1>4 DEF Blocks
<1>7. AgreeAt("BLOCKED", b, << >>)
  BY <1>4, <1>6 DEF AgreeAt
<1>8. blocks' \in [Threads -> Blocks] /\ signals' \in [Threads -> Seq(Signals)]
  BY <1>1, <1>2, <1>4, <1>5
<1>9. ASSUME NEW u \in Threads PROVE AgreeAt(state'[u], blocks'[u], signals'[u])
  <2>1. CASE u = t
    <3>1. state'[u] = "BLOCKED" /\ blocks'[u] = b /\ signals'[u] = << >>
      BY <1>1, <1>2, <1>5, <2>1
    <3> QED BY <1>7, <3>1
  <2>2. CASE u # t
    <3>1. state'[u] = state[u] /\ signals'[u] = signals[u] /\ blocks'[u] = blocks[u]
      BY <1>1, <1>2, <1>5, <2>2
    <3> QED BY <1>1, <3>1
  <2> QED BY <2>1, <2>2
<1> QED BY <1>8, <1>9 DEF BlockInv, BlocksAgree, AgreeAt, Blocks

\* The first block on s, which is the one that Signal marks.
LEMMA FirstHit ==
  ASSUME NEW b \in Blocks, NEW s, \E i \in 1..Len(b) : b[i].on = s
  PROVE  (CHOOSE i \in 1..Len(b) : b[i].on = s /\ \A j \in 1..(i - 1) : b[j].on # s) \in 1..Len(b)
<1> DEFINE S == {i \in 1..Len(b) : b[i].on = s}
<1>1. S \in SUBSET Nat /\ S # {}
  OBVIOUS
<1>2. PICK x \in S : \A y \in S : x <= y
  <2> HIDE DEF S
  <2> QED BY <1>1, LeastNumber
<1>3. x \in 1..Len(b) /\ b[x].on = s /\ Len(b) \in Nat
  BY <1>2 DEF Blocks
<1>4. \A j \in 1..(x - 1) : b[j].on # s
  <2> SUFFICES ASSUME NEW j \in 1..(x - 1), b[j].on = s PROVE FALSE
    OBVIOUS
  <2>1. j \in 1..Len(b) /\ j < x
    BY <1>3
  <2>2. x <= j
    BY <1>2, <2>1
  <2> QED BY <1>3, <2>1, <2>2
<1> QED BY <1>3, <1>4

\* A signal that n blocks of t wait for leaves the thread as BlocksAgree says.
LEMMA DeliveredAgrees ==
  ASSUME BlockInv, NEW t \in Threads, NEW s \in Signals, NEW n \in Nat,
         n > 0 => \E i \in 1..Len(blocks[t]) : blocks[t][i].on = s
  PROVE  /\ Delivered(t, s, n).blocks \in Blocks /\ Delivered(t, s, n).signals \in Seq(Signals)
         /\ AgreeAt(Delivered(t, s, n).state, Delivered(t, s, n).blocks, Delivered(t, s, n).signals)
         /\ \/ Delivered(t, s, n).state = state[t]
            \/ state[t] = "BLOCKED" /\ Delivered(t, s, n).state = "SYS_PENDING"
<1>1. PICK b, g, st : b = blocks[t] /\ g = signals[t] /\ st = state[t]
  OBVIOUS
<1>2. b \in Blocks /\ g \in Seq(Signals) /\ AgreeAt(st, b, g) /\ Len(b) \in Nat
  <2>1. /\ blocks \in [Threads -> Blocks] /\ signals \in [Threads -> Seq(Signals)]
        /\ \A u \in Threads : AgreeAt(state[u], blocks[u], signals[u])
    BY BlockInvAt
  <2>2. b \in Blocks /\ g \in Seq(Signals) /\ AgreeAt(st, b, g)
    BY <1>1, <2>1
  <2>3. Len(b) \in Nat
    BY <2>2 DEF Blocks
  <2> QED BY <2>2, <2>3
<1>3. PICK hit : hit = CHOOSE i \in 1..Len(b) : b[i].on = s /\ \A j \in 1..(i - 1) : b[j].on # s
  OBVIOUS
<1>4. n > 0 => hit \in 1..Len(b)
  <2>1. n > 0 => \E i \in 1..Len(b) : b[i].on = s
    BY <1>1
  <2>2. b \in Blocks
    BY <1>2
  <2> QED BY <1>3, <2>1, <2>2, FirstHit
<1>5. PICK m \in Nat : m = IF n > 0 /\ st = "BLOCKED" THEN n - 1 ELSE n
  OBVIOUS
<1>6. PICK h : h = [i \in 1..m |-> s] \o g
  OBVIOUS
<1>7. h \in Seq(Signals) /\ Len(h) = m + Len(g)
  <2>1. [i \in 1..m |-> s] \in Seq(Signals) /\ Len([i \in 1..m |-> s]) = m
    BY FunctionIsSeq
  <2> QED BY <1>2, <1>6, <2>1, ConcatProperties
<1>8. CASE n > 0 /\ st = "BLOCKED"
  <2>1. PICK c : c = [b EXCEPT ![hit].signalled = TRUE]
    OBVIOUS
  <2>2. Delivered(t, s, n) = [state |-> "SYS_PENDING", blocks |-> c, signals |-> h]
    BY <1>1, <1>3, <1>5, <1>6, <1>8, <2>1 DEF Delivered
  <2>3. b \in [1..Len(b) -> [on : Signals, signalled : BOOLEAN]] /\ hit \in 1..Len(b)
    <3>1. b \in Seq([on : Signals, signalled : BOOLEAN])
      BY <1>2 DEF Blocks
    <3>2. hit \in 1..Len(b)
      BY <1>4, <1>8, Zenon
    <3>3. b \in [1..Len(b) -> [on : Signals, signalled : BOOLEAN]]
      BY <3>1, SeqIsFunction, Zenon
    <3> QED BY <3>2, <3>3, Zenon
  <2>4. c \in [1..Len(b) -> [on : Signals, signalled : BOOLEAN]] /\ c[hit].signalled
    BY <2>1, <2>3
  <2>5. c \in Blocks /\ Len(c) = Len(b)
    BY <1>2, <2>4, FunctionIsSeq DEF Blocks
  <2>6. c # << >>
    BY <2>3, <2>5, <1>2 DEF Blocks
  <2>7. AgreeAt("SYS_PENDING", c, h)
    BY <2>3, <2>4, <2>5, <2>6 DEF AgreeAt
  <2> QED BY <1>1, <1>7, <1>8, <2>2, <2>5, <2>7
<1>9. CASE ~(n > 0 /\ st = "BLOCKED")
  <2>1. Delivered(t, s, n) = [state |-> st, blocks |-> b, signals |-> h]
    BY <1>1, <1>5, <1>6, <1>9 DEF Delivered
  <2>2. h # << >> => st \in {"SYS_PENDING", "RUNNING"}
    <3>1. CASE n = 0
      <4>1. Len(h) = Len(g)
        BY <1>2, <1>5, <1>7, <3>1
      <4>2. h # << >> => g # << >>
        BY <1>2, <1>7, <4>1
      <4> QED BY <1>2, <4>2 DEF AgreeAt
    <3>2. CASE n > 0
      <4>1. hit \in 1..Len(b)
        BY <1>4, <3>2
      <4>2. b # << >>
        BY <4>1, <1>2 DEF Blocks
      <4>3. st \in {"BLOCKED", "SYS_PENDING"}
        BY <1>2, <4>2 DEF AgreeAt
      <4> QED BY <1>9, <3>2, <4>3
    <3> QED BY <3>1, <3>2
  <2>3. AgreeAt(st, b, h)
    BY <1>2, <2>2 DEF AgreeAt
  <2> QED BY <1>1, <1>2, <1>7, <2>1, <2>3
<1> QED BY <1>8, <1>9

\* Signal, to one thread or to all of them.
LEMMA SignalAgrees ==
  ASSUME ListInv, BlockInv, NEW s \in Signals, NEW dst \in Threads \cup {End}, Signal(s, dst)
  PROVE  BlockInv' /\ ListInv'
<1> DEFINE matching(t) == Cardinality({i \in 1..Len(blocks[t]) : blocks[t][i].on = s})
           hits(t) == IF dst = End THEN matching(t)
                      ELSE IF t = dst /\ matching(t) > 0 THEN 1 ELSE 0
<1>1. ASSUME NEW t \in Threads
      PROVE  hits(t) \in Nat /\ (hits(t) > 0 => \E i \in 1..Len(blocks[t]) : blocks[t][i].on = s)
  <2> DEFINE S == {i \in 1..Len(blocks[t]) : blocks[t][i].on = s}
  <2>1. Len(blocks[t]) \in Nat
    BY BlockInvAt DEF Blocks
  <2>2. IsFiniteSet(1..Len(blocks[t]))
    BY <2>1, FS_Interval
  <2>3. IsFiniteSet(S)
    <3>1. S \subseteq 1..Len(blocks[t])
      OBVIOUS
    <3> HIDE DEF S
    <3> QED BY <2>2, <3>1, FS_Subset
  <2>4. Cardinality(S) \in Nat /\ (Cardinality(S) = 0 <=> S = {})
    <3> HIDE DEF S
    <3> QED BY <2>3, FS_CardinalityType, FS_EmptySet
  <2>5. matching(t) = Cardinality(S)
    OBVIOUS
  <2>6. S # {} => \E i \in 1..Len(blocks[t]) : blocks[t][i].on = s
    OBVIOUS
  <2>7. hits(t) \in Nat /\ (hits(t) > 0 => Cardinality(S) # 0)
    <3> HIDE DEF S
    <3>1. PICK c \in Nat : c = Cardinality(S) /\ matching(t) = c
      BY <2>4, <2>5
    <3> HIDE DEF matching
    <3> QED BY <3>1
  <2> HIDE DEF S, hits
  <2> QED BY <2>4, <2>6, <2>7
<1>2. /\ state' = [t \in Threads |-> Delivered(t, s, hits(t)).state]
      /\ blocks' = [t \in Threads |-> Delivered(t, s, hits(t)).blocks]
      /\ signals' = [t \in Threads |-> Delivered(t, s, hits(t)).signals]
      /\ UNCHANGED <<running, blocked, sleeping, killed, pass, nextThread, owed>>
  BY DEF Signal, turn
<1> HIDE DEF hits
<1>3. ASSUME NEW t \in Threads
      PROVE  /\ blocks'[t] \in Blocks /\ signals'[t] \in Seq(Signals)
             /\ AgreeAt(state'[t], blocks'[t], signals'[t])
             /\ state'[t] = state[t] \/ (state[t] = "BLOCKED" /\ state'[t] = "SYS_PENDING")
  BY <1>1, <1>2, DeliveredAgrees
<1>4. blocks' \in [Threads -> Blocks] /\ signals' \in [Threads -> Seq(Signals)]
  BY <1>2, <1>3
<1>5. BlockInv'
  BY <1>3, <1>4 DEF BlockInv, BlocksAgree, AgreeAt, Blocks
<1>6. state' \in [Threads -> State]
  <2>1. \A t \in Threads : state'[t] \in State
    BY <1>3 DEF ListInv, State
  <2> QED BY <1>2, <2>1
<1>7. ListInv'
  BY <1>2, <1>3, <1>6, ListsSignalled
<1> QED BY <1>5, <1>7

-----------------------------------------------------------------------------
(* Time *)

\* The clock runs once round its range at most.
LEMMA ModWrap ==
  ASSUME NEW a \in Nat, a < 2 * Wrap
  PROVE  a % Wrap = (IF a < Wrap THEN a ELSE a - Wrap) /\ a % Wrap \in 0..(Wrap - 1)
<1>1. PICK w \in Nat : w = Wrap /\ w > 0
  BY GMAssumption
<1>2. PICK q \in Int, r \in 0..(w - 1) : q = a \div w /\ r = a % w /\ a = w * q + r
  BY <1>1
<1>3. a < w + w
  BY <1>1
<1>4. q < 2
  <2>1. SUFFICES ASSUME q >= 2 PROVE FALSE
    BY <1>2
  <2>2. w * q >= w * 2
    BY <1>1, <1>2, <2>1
  <2> QED BY <1>1, <1>2, <1>3, <2>2
<1>5. q >= 0
  <2>1. SUFFICES ASSUME q <= -1 PROVE FALSE
    BY <1>2
  <2>2. w * q <= w * (-1)
    BY <1>1, <1>2, <2>1
  <2> QED BY <1>1, <1>2, <2>2
<1>6. q = 0 \/ q = 1
  BY <1>2, <1>4, <1>5
<1>7. a = r \/ a = w + r
  BY <1>1, <1>2, <1>6
<1>8. r = IF a < w THEN a ELSE a - w
  BY <1>1, <1>2, <1>7
<1> QED BY <1>1, <1>2, <1>8

\* Time passes: a thread that has to sleep x longer has to sleep x - d then.
LEMMA ModShift ==
  ASSUME NEW c \in 0..(Wrap - 1), NEW d \in 0..(Wrap - 1), NEW x \in 0..(Wrap - 1), d <= x
  PROVE  (c + x) % Wrap = (((c + d) % Wrap) + (x - d)) % Wrap
<1>1. PICK w \in Nat : w = Wrap /\ w > 0
  BY GMAssumption
<1>2. PICK e \in 0..(w - 1) : e = (c + d) % w
  BY <1>1, ModWrap
<1>3. e = IF c + d < w THEN c + d ELSE c + d - w
  BY <1>1, <1>2, ModWrap
<1>4. PICK y \in 0..(w - 1) : y = (c + x) % w /\ y = IF c + x < w THEN c + x ELSE c + x - w
  BY <1>1, ModWrap
<1>5. e + (x - d) \in Nat /\ e + (x - d) < 2 * w
  BY <1>1, <1>2, <1>3
<1>6. PICK z \in 0..(w - 1) :
        z = (e + (x - d)) % w /\ z = IF e + (x - d) < w THEN e + (x - d) ELSE e + (x - d) - w
  BY <1>1, <1>5, ModWrap
<1>7. y = z
  BY <1>1, <1>2, <1>3, <1>4, <1>6
<1> QED BY <1>1, <1>2, <1>4, <1>6, <1>7

\* Steps that put no thread to sleep and leave clock and stamps alone.
LEMMA SleepKept ==
  ASSUME SleepInv, UNCHANGED <<sleeping, stamp, wait, time>>,
         \A t \in Threads : state'[t] = "SLEEPING" => state[t] = "SLEEPING"
  PROVE  SleepInv'
  BY DEF SleepInv

\* The threads V leave the list.
LEMMA SleepersLeft ==
  ASSUME ListInv, SleepInv, ListInv', NEW V, sleeping' = Without(sleeping, V),
         stamp' = [t \in Threads |-> IF t \in V THEN 0 ELSE stamp[t]],
         \A t \in V : state'[t] # "SLEEPING"
  PROVE  /\ stamp' \in [Threads -> 0..(Wrap - 1)]
         /\ \A i, j \in 1..Len(sleeping') : i < j => stamp'[sleeping'[i]] <= stamp'[sleeping'[j]]
<1>1. /\ sleeping \in Seq(Threads) /\ stamp \in [Threads -> 0..(Wrap - 1)]
      /\ \A i, j \in 1..Len(sleeping) : i < j => stamp[sleeping[i]] <= stamp[sleeping[j]]
  BY ListsThreads DEF ListInv, SleepInv
<1>2. \A i, j \in 1..Len(sleeping') : i < j => stamp[sleeping'[i]] <= stamp[sleeping'[j]]
  <2>1. \A i, j \in 1..Len(Without(sleeping, V)) :
           i < j => stamp[Without(sleeping, V)[i]] <= stamp[Without(sleeping, V)[j]]
    BY <1>1, WithoutSorted
  <2> QED BY <2>1
<1>3. \A i \in 1..Len(sleeping') : sleeping'[i] \in Threads /\ state'[sleeping'[i]] = "SLEEPING"
  <2>1. Lists(sleeping', With({"SLEEPING"})')
    BY DEF ListInv
  <2>2. \A i \in 1..Len(sleeping') : sleeping'[i] \in With({"SLEEPING"})'
    BY <2>1, ListPositions
  <2> QED BY <2>2 DEF With
<1>4. \A i \in 1..Len(sleeping') : stamp'[sleeping'[i]] = stamp[sleeping'[i]]
  BY <1>3
<1>5. 0 \in 0..(Wrap - 1)
  BY GMAssumption
<1>6. stamp' \in [Threads -> 0..(Wrap - 1)]
  BY <1>1, <1>5
<1> QED BY <1>2, <1>4, <1>6

\* Killing threads keeps the order of those that still sleep.
LEMMA SleepKilled ==
  ASSUME ListInv, SleepInv, NEW v, NEW V, Lists(v, V),
         \A t \in V : state[t] \notin {"free", "KILLED"}, Kill(v)
  PROVE  SleepInv'
<1>1. /\ Range(v) = V /\ V \in SUBSET Threads /\ ListInv'
      /\ \A t \in Threads : state'[t] = IF t \in V THEN state'[t] ELSE state[t]
      /\ \A t \in V : state'[t] \in {"free", "KILLED"}
  BY KillLists, ListsThreads
<1>2. /\ stamp' = [t \in Threads |-> IF t \in V THEN 0 ELSE stamp[t]]
      /\ wait' = [t \in Threads |-> IF t \in V THEN 0 ELSE wait[t]]
      /\ sleeping' = Without(sleeping, V) /\ time' = time
  BY <1>1 DEF Kill
<1>3. /\ stamp' \in [Threads -> 0..(Wrap - 1)]
      /\ \A i, j \in 1..Len(sleeping') : i < j => stamp'[sleeping'[i]] <= stamp'[sleeping'[j]]
  BY <1>1, <1>2, SleepersLeft
<1>4. wait' \in [Threads -> -1..(Wrap - 1)]
  <2>1. 0 \in -1..(Wrap - 1)
    BY GMAssumption
  <2> QED BY <1>2, <2>1 DEF SleepInv
<1>5. ASSUME NEW t \in Threads, state'[t] = "SLEEPING", wait'[t] >= 0
      PROVE  stamp'[t] = (time' + wait'[t]) % Wrap
  <2>1. t \notin V /\ state[t] = "SLEEPING"
    BY <1>1, <1>5
  <2>2. stamp'[t] = stamp[t] /\ wait'[t] = wait[t] /\ time' = time
    BY <1>2, <2>1
  <2> QED BY <1>5, <2>1, <2>2 DEF SleepInv
<1>6. time' \in 0..(Wrap - 1)
  BY <1>2 DEF SleepInv
<1> QED BY <1>3, <1>4, <1>5, <1>6 DEF SleepInv


\* Time passes, and Execute wakes the threads whose stamps it has reached.
LEMMA SleepExecuted ==
  ASSUME ListInv, SleepInv, NEW d \in Deltas, Execute(d)
  PROVE  SleepInv'
<1>1. /\ ListInv' /\ time' = (time + d) % Wrap /\ time' \in 0..(Wrap - 1)
      /\ Range(DueThreads(time') \o PendingThreads) = Woken(time')
  BY ExecuteLists
<1>2. PICK W : W = Woken(time') /\ W = Range(DueThreads(time') \o PendingThreads)
  BY <1>1
<1>3. /\ state' = [t \in Threads |-> IF t \in W THEN "RUNNING" ELSE state[t]]
      /\ stamp' = [t \in Threads |-> IF t \in W THEN 0 ELSE stamp[t]]
      /\ wait' = [t \in Threads |-> IF state[t] # "SLEEPING" \/ t \in W THEN 0
                                    ELSE IF wait[t] < d THEN -1 ELSE wait[t] - d]
      /\ sleeping' = Without(sleeping, W)
  BY <1>1, <1>2 DEF Execute
<1>4. W \subseteq Threads
  BY <1>2 DEF Woken, With
<1>5. /\ stamp' \in [Threads -> 0..(Wrap - 1)]
      /\ \A i, j \in 1..Len(sleeping') : i < j => stamp'[sleeping'[i]] <= stamp'[sleeping'[j]]
  BY <1>1, <1>3, <1>4, SleepersLeft
<1>6. Wrap \in Nat \ {0} /\ d \in 0..(Wrap - 1) /\ time \in 0..(Wrap - 1)
  BY GMAssumption DEF SleepInv
<1>7. ASSUME NEW t \in Threads PROVE wait'[t] \in -1..(Wrap - 1)
  <2>1. PICK x \in -1..(Wrap - 1) : x = wait[t]
    BY DEF SleepInv
  <2>2. wait'[t] = 0 \/ wait'[t] = -1 \/ (wait'[t] = x - d /\ ~(x < d))
    BY <1>3, <2>1
  <2> QED BY <1>6, <2>1, <2>2
<1>8. ASSUME NEW t \in Threads, state'[t] = "SLEEPING", wait'[t] >= 0
      PROVE  stamp'[t] = (time' + wait'[t]) % Wrap
  <2>1. t \notin W /\ state[t] = "SLEEPING"
    BY <1>3, <1>8
  <2>2. PICK x \in -1..(Wrap - 1) : x = wait[t]
    BY DEF SleepInv
  <2>3. wait'[t] = IF x < d THEN -1 ELSE x - d
    BY <1>3, <2>1, <2>2
  <2>4. ~(x < d) /\ wait'[t] = x - d /\ x \in 0..(Wrap - 1) /\ d <= x
    BY <1>6, <1>8, <2>2, <2>3
  <2>5. stamp[t] = (time + x) % Wrap
    BY <2>1, <2>2, <2>4 DEF SleepInv
  <2>6. (time + x) % Wrap = (((time + d) % Wrap) + (x - d)) % Wrap
    BY <1>6, <2>4, ModShift
  <2>7. stamp'[t] = stamp[t]
    BY <1>3, <2>1
  <2> QED BY <1>1, <2>4, <2>5, <2>6, <2>7
<1>9. wait' \in [Threads -> -1..(Wrap - 1)]
  BY <1>3, <1>7
<1> QED BY <1>1, <1>5, <1>8, <1>9 DEF SleepInv

\* A thread that falls asleep is put where its stamp belongs.
LEMMA SleepSlept ==
  ASSUME ListInv, SleepInv, NEW t \in Threads, t = Self, state[t] = "RUNNING",
         NEW ms \in Delays, Suspend("SLEEPING"),
         stamp' = [stamp EXCEPT ![t] = (time + ms) % Wrap],
         wait' = [wait EXCEPT ![t] = ms],
         sleeping' = SleeperInserted(t, (time + ms) % Wrap), time' = time
  PROVE  SleepInv'
<1>1. /\ sleeping \in Seq(Threads) /\ Len(sleeping) \in Nat
      /\ \A i \in 1..Len(sleeping) : sleeping[i] \in Threads /\ sleeping[i] # t
      /\ state \in [Threads -> State]
  <2>1. Lists(sleeping, With({"SLEEPING"})) /\ state \in [Threads -> State]
    BY DEF ListInv
  <2>2. \A i \in 1..Len(sleeping) : sleeping[i] \in With({"SLEEPING"})
    BY <2>1, ListPositions
  <2>3. \A i \in 1..Len(sleeping) : sleeping[i] \in Threads /\ sleeping[i] # t
    BY <2>2 DEF With
  <2> QED BY <2>1, <2>3, ListsThreads
<1>2. /\ stamp \in [Threads -> 0..(Wrap - 1)] /\ wait \in [Threads -> -1..(Wrap - 1)]
      /\ time \in 0..(Wrap - 1) /\ Wrap \in Nat \ {0} /\ ms \in 0..(Wrap - 1)
      /\ \A i, j \in 1..Len(sleeping) : i < j => stamp[sleeping[i]] <= stamp[sleeping[j]]
  BY GMAssumption DEF SleepInv
<1>3. PICK at \in 0..(Wrap - 1) : at = (time + ms) % Wrap
  <2>1. time + ms \in Nat /\ time + ms < 2 * Wrap
    BY <1>2
  <2> QED BY <2>1, ModWrap
<1>4. PICK p \in 1..(Len(sleeping) + 1) :
         /\ sleeping' = InsertAt(sleeping, p, t)
         /\ \A i \in 1..Len(sleeping) :
               (i < p => stamp[sleeping[i]] <= at) /\ (~(i < p) => at < stamp[sleeping[i]])
  <2>1. Lists(sleeping, With({"SLEEPING"}))
    BY DEF ListInv
  <2> QED BY <1>3, <2>1, SleeperPosition
<1>5. stamp' \in [Threads -> 0..(Wrap - 1)] /\ stamp'[t] = at
  BY <1>2, <1>3
<1>6. \A i \in 1..Len(sleeping) : stamp'[sleeping[i]] = stamp[sleeping[i]] /\ stamp[sleeping[i]] \in Nat
  BY <1>1, <1>2
<1>7. PICK s : s = InsertAt(sleeping, p, t)
  OBVIOUS
<1>8. /\ Len(s) = Len(sleeping) + 1
      /\ \A i \in 1..(Len(sleeping) + 1) :
             \/ i = p /\ s[i] = t
             \/ i < p /\ i \in 1..Len(sleeping) /\ s[i] = sleeping[i]
             \/ i > p /\ i - 1 \in 1..Len(sleeping) /\ s[i] = sleeping[i - 1]
  <2>1. /\ Len(InsertAt(sleeping, p, t)) = Len(sleeping) + 1
        /\ \A i \in 1..(Len(sleeping) + 1) :
             \/ i = p /\ InsertAt(sleeping, p, t)[i] = t
             \/ i < p /\ i \in 1..Len(sleeping) /\ InsertAt(sleeping, p, t)[i] = sleeping[i]
             \/ i > p /\ i - 1 \in 1..Len(sleeping) /\ InsertAt(sleeping, p, t)[i] = sleeping[i - 1]
    BY <1>1, InsertPositions, InsertSources
  <2> QED BY <1>7, <2>1
<1>9. ASSUME NEW i \in 1..Len(s), NEW j \in 1..Len(s), i < j PROVE stamp'[s[i]] <= stamp'[s[j]]
  <2>0. i \in 1..(Len(sleeping) + 1) /\ j \in 1..(Len(sleeping) + 1)
    BY <1>8
  <2>1. CASE i = p
    <3>1. j - 1 \in 1..Len(sleeping) /\ s[j] = sleeping[j - 1] /\ ~(j - 1 < p) /\ s[i] = t
      BY <1>1, <1>8, <1>9, <2>0, <2>1
    <3>2. at < stamp[sleeping[j - 1]]
      BY <1>4, <3>1
    <3>3. at \in Nat /\ stamp[sleeping[j - 1]] \in Nat
      BY <1>6, <3>1
    <3>4. stamp'[s[i]] = at /\ stamp'[s[j]] = stamp[sleeping[j - 1]]
      BY <1>5, <1>6, <3>1, Zenon
    <3> QED BY <3>2, <3>3, <3>4
  <2>2. CASE i < p /\ j = p
    <3>1. i \in 1..Len(sleeping) /\ s[i] = sleeping[i] /\ s[j] = t
      BY <1>1, <1>8, <2>0, <2>2
    <3>2. stamp[sleeping[i]] <= at
      BY <1>4, <2>2, <3>1
    <3> QED BY <1>5, <1>6, <3>1, <3>2
  <2>3. CASE i # p /\ j # p
    <3>1. PICK a \in 1..Len(sleeping), b \in 1..Len(sleeping) : a < b /\ s[i] = sleeping[a] /\ s[j] = sleeping[b]
      <4>1. CASE i < p /\ j < p
        BY <1>1, <1>8, <1>9, <2>0, <4>1
      <4>2. CASE i < p /\ j > p
        <5>1. i \in 1..Len(sleeping) /\ j - 1 \in 1..Len(sleeping) /\ i < j - 1
              /\ s[i] = sleeping[i] /\ s[j] = sleeping[j - 1]
          BY <1>1, <1>8, <1>9, <2>0, <4>2
        <5> QED BY <5>1
      <4>3. CASE i > p /\ j > p
        <5>1. i - 1 \in 1..Len(sleeping) /\ j - 1 \in 1..Len(sleeping) /\ i - 1 < j - 1
              /\ s[i] = sleeping[i - 1] /\ s[j] = sleeping[j - 1]
          BY <1>1, <1>8, <1>9, <2>0, <4>3
        <5> QED BY <5>1
      <4> QED BY <1>1, <1>9, <2>0, <2>3, <4>1, <4>2, <4>3
    <3>2. stamp[sleeping[a]] <= stamp[sleeping[b]]
      BY <1>2, <3>1
    <3> QED BY <1>6, <3>1, <3>2
  <2> QED BY <1>1, <1>9, <2>0, <2>1, <2>2, <2>3
<1>10. \A i, j \in 1..Len(sleeping') : i < j => stamp'[sleeping'[i]] <= stamp'[sleeping'[j]]
  BY <1>4, <1>7, <1>9
<1>11. wait' \in [Threads -> -1..(Wrap - 1)]
  <2>1. ms \in -1..(Wrap - 1)
    BY <1>2
  <2> QED BY <1>2, <2>1
<1>12. ASSUME NEW u \in Threads, state'[u] = "SLEEPING", wait'[u] >= 0
       PROVE  stamp'[u] = (time' + wait'[u]) % Wrap
  <2>1. CASE u = t
    BY <1>2, <2>1
  <2>2. CASE u # t
    <3>1. stamp'[u] = stamp[u] /\ wait'[u] = wait[u] /\ state'[u] = state[u]
      BY <1>1, <1>2, <2>2 DEF Suspend
    <3> QED BY <1>12, <3>1 DEF SleepInv
  <2> QED BY <2>1, <2>2
<1> QED BY <1>2, <1>5, <1>10, <1>11, <1>12 DEF SleepInv

-----------------------------------------------------------------------------
(* The calls of Sys_Execute, the calls of the program and their threads *)

UseInv == StackInv /\ CallsInv /\ FrameInv

\* What the other lemmas use of the depth and of the entries of the C++ stack.
LEMMA LevelFacts ==
  ASSUME StackInv
  PROVE  /\ Depth \in Nat /\ Depth = Len(stack) /\ Depth \in 0..MaxDepth /\ MaxDepth \in Nat
         /\ (stack = << >> <=> Depth = 0)
         /\ \A i \in 1..Depth : stack[i] \in Entries /\ stack[i].thread \in Threads
                                /\ stack[i].alive \in BOOLEAN
<1>1. stack \in Seq(Entries) /\ Depth \in 0..MaxDepth /\ MaxDepth \in Nat
  BY GMAssumption DEF StackInv, Level
<1>2. \A i \in 1..Len(stack) : stack[i] \in Entries
  BY <1>1
<1>3. \A e \in Entries : e.thread \in Threads /\ e.alive \in BOOLEAN
  BY DEF Entries
<1>4. stack = << >> <=> Len(stack) = 0
  BY <1>1
<1> QED BY <1>1, <1>2, <1>3, <1>4 DEF Depth

\* The innermost entry and its thread.
LEMMA InnermostFacts ==
  ASSUME StackInv, stack # << >>
  PROVE  /\ Depth \in 1..MaxDepth /\ Last(stack) = stack[Depth]
         /\ Self = stack[Depth].thread /\ Self \in Threads
<1>1. Depth \in 1..MaxDepth
  BY LevelFacts
<1>2. Last(stack) = stack[Depth]
  BY DEF Last, Depth
<1>3. stack[Depth].thread \in Threads
  BY <1>1, LevelFacts
<1> QED BY <1>1, <1>2, <1>3 DEF Self

\* The innermost thread is in its script.
LEMMA InScriptFacts ==
  ASSUME StackInv, CallsInv, InScript
  PROVE  /\ stack # << >> /\ Depth \in 1..MaxDepth /\ Last(stack) = stack[Depth]
         /\ Self = stack[Depth].thread /\ Self \in Threads
         /\ stack[Depth].in = "script" /\ stack[Depth].alive /\ framed[Self]
         /\ state[Self] = "RUNNING" /\ phase[Depth] = "none"
<1>1. stack # << >> /\ Last(stack).in = "script"
  BY DEF InScript
<1>2. /\ Depth \in 1..MaxDepth /\ Last(stack) = stack[Depth]
      /\ Self = stack[Depth].thread /\ Self \in Threads
  BY <1>1, InnermostFacts
<1>3. Depth \in 1..Depth /\ Depth \in Level /\ Depth > 0
  BY <1>2, LevelFacts DEF Level
<1>4. stack[Depth].in = "script"
  BY <1>1, <1>2
<1>5. stack[Depth].alive /\ framed[Self] /\ state[Self] = "RUNNING"
  BY <1>2, <1>3, <1>4 DEF StackInv, EntryInv
<1>6. phase[Depth] = "none"
  BY <1>3, <1>4 DEF CallsInv, CallInv
<1> QED BY <1>1, <1>2, <1>4, <1>5, <1>6

\* C++ code runs.
LEMMA InCPPFacts ==
  ASSUME StackInv, InCPP
  PROVE  Depth \in Level /\ (Depth = 0 => ~pass) /\ \A i \in 1..Depth : stack[i].in = "cpp"
<1>1. CASE stack = << >>
  BY <1>1, LevelFacts DEF InCPP, Level
<1>2. CASE stack # << >>
  <2>1. Last(stack).in = "cpp"
    BY <1>2 DEF InCPP
  <2>2. Depth \in 1..MaxDepth /\ stack[Depth].in = "cpp"
    BY <1>2, <2>1, InnermostFacts
  <2>3. \A i \in 1..Depth : i < Depth => stack[i].in = "cpp"
    BY DEF StackInv, EntryInv
  <2> QED BY <2>2, <2>3 DEF Level
<1> QED BY <1>1, <1>2

\* The innermost call of Sys_Execute returns; only its thread changes, and it has a
\* frame if it goes on.
LEMMA UseLeft ==
  ASSUME UseInv, stack # << >>, stack[Depth].alive, phase[Depth] = "none", Left, pass' = pass,
         state' \in [Threads -> State], framed' \in [Threads -> BOOLEAN],
         \A t \in Threads \ {Self} : state'[t] = state[t] /\ framed'[t] = framed[t],
         state'[Self] \in {"free", "KILLED"} \/ framed'[Self]
  PROVE  UseInv'
<1>1. StackInv /\ CallsInv /\ FrameInv
  BY DEF UseInv
<1>2. /\ Depth \in 1..MaxDepth /\ Last(stack) = stack[Depth]
      /\ Self = stack[Depth].thread /\ Self \in Threads /\ MaxDepth \in Nat
      /\ \A i \in 1..Depth : stack[i].thread \in Threads
  BY <1>1, InnermostFacts, LevelFacts
<1>3. PICK d \in 1..MaxDepth : d = Depth
  BY <1>2
<1>4. /\ stack' \in Seq(Entries) /\ Depth' = d - 1 /\ \A i \in 1..(d - 1) : stack'[i] = stack[i]
  <2>1. stack \in Seq(Entries) /\ stack' = Front(stack) /\ Len(stack) = d
    BY <1>1, <1>3 DEF StackInv, Left, Depth
  <2>2. Front(stack) = SubSeq(stack, 1, Len(stack) - 1)
    BY DEF Front
  <2>3. /\ SubSeq(stack, 1, d - 1) \in Seq(Entries) /\ Len(SubSeq(stack, 1, d - 1)) = d - 1
        /\ \A i \in 1..(d - 1) : SubSeq(stack, 1, d - 1)[i] = stack[i]
    BY <2>1, <1>2
  <2>4. stack' = SubSeq(stack, 1, d - 1)
    BY <2>1, <2>2
  <2> QED BY <2>3, <2>4 DEF Depth
<1>5. \A i \in 1..(d - 1) : i \in 1..d /\ i < d /\ i # d
  BY <1>2
<1>6. \A i \in 1..(d - 1) : stack[i].alive => stack[i].thread # Self
  BY <1>1, <1>2, <1>3, <1>5 DEF StackInv
<1>7. harm' = harm /\ d - 1 \in 0..MaxDepth /\ d \in 0..MaxDepth
  BY <1>2 DEF Left
<1>8. StackInv'
  <2>1. ASSUME NEW i \in 1..(d - 1) PROVE EntryInv(i)'
    <3>1. i \in 1..Depth /\ i < Depth /\ EntryInv(i) /\ stack'[i] = stack[i]
      BY <1>1, <1>3, <1>4, <1>5 DEF StackInv
    <3>2. stack[i].in = "cpp" /\ (stack[i].alive => state'[stack[i].thread] = "RUNNING")
      BY <1>2, <1>3, <1>6, <3>1 DEF EntryInv
    <3> QED BY <1>7, <3>1, <3>2 DEF EntryInv
  <2>2. \A i, j \in 1..(d - 1) :
          (stack'[i].alive /\ stack'[j].alive /\ stack'[i].thread = stack'[j].thread) => i = j
    <3> SUFFICES ASSUME NEW i \in 1..(d - 1), NEW j \in 1..(d - 1), stack'[i].alive, stack'[j].alive,
                        stack'[i].thread = stack'[j].thread
                 PROVE  i = j
      OBVIOUS
    <3>1. /\ stack[i].alive /\ stack[j].alive /\ stack[i].thread = stack[j].thread
          /\ i \in 1..Depth /\ j \in 1..Depth
      BY <1>3, <1>4, <1>5, Zenon
    <3> QED BY <1>1, <3>1 DEF StackInv
  <2>3. \A i \in 1..Depth' : EntryInv(i)'
    BY <1>4, <2>1
  <2>4. Depth' \in Level
    BY <1>4, <1>7 DEF Level
  <2> QED BY <1>4, <2>2, <2>3, <2>4 DEF StackInv
<1>9. ASSUME NEW l \in Level
      PROVE  /\ valid'[l] => valid[l] /\ callee[l] # Self
             /\ valid'[l] => callee'[l] = callee[l] /\ phase'[l] = phase[l] /\ ~(l + 1 = d /\ stack[d].why = "call")
             /\ (valid[l] /\ callee[l] # Self) => valid'[l]
             /\ phase'[l] = phase[l] \/ (phase'[l] = "ended" /\ l = d - 1)
             /\ phase'[l] = "open" => valid'[l] = valid[l]
  <2>1. l \in Nat /\ CallInv(l) /\ l \in 0..MaxDepth
    BY <1>1, <1>2 DEF CallsInv, Level
  <2>2. CASE stack[d].why = "call"
    <3>1. /\ phase' = [phase EXCEPT ![d - 1] = "ended"] /\ valid' = [valid EXCEPT ![d - 1] = FALSE]
          /\ callee' = [callee EXCEPT ![d - 1] = End]
      BY <1>2, <1>3, <2>2 DEF Left
    <3>2. CASE l = d - 1
      <4>1. l < Depth /\ l + 1 = d
        BY <1>3, <3>2, <2>1
      <4>2. valid[l] => callee[l] = Self
        BY <1>2, <1>3, <2>1, <2>2, <4>1 DEF CallInv
      <4>3. valid'[l] = FALSE /\ phase'[l] = "ended"
        BY <1>1, <3>1, <3>2 DEF CallsInv
      <4> QED BY <3>2, <4>2, <4>3
    <3>3. CASE l # d - 1
      <4>1. valid'[l] = valid[l] /\ phase'[l] = phase[l] /\ callee'[l] = callee[l] /\ l + 1 # d
        BY <1>1, <3>1, <3>3, <2>1 DEF CallsInv
      <4>2. (valid[l] /\ stack[d].thread = callee[l]) => d = l + 1
        BY <1>2, <1>3, <2>1 DEF CallInv
      <4> QED BY <1>2, <1>3, <4>1, <4>2
    <3> QED BY <3>2, <3>3
  <2>3. CASE stack[d].why # "call"
    <3>1. phase' = phase /\ valid' = valid /\ callee' = callee
      BY <1>2, <1>3, <2>3 DEF Left
    <3>2. (valid[l] /\ stack[d].thread = callee[l]) => stack[d].why = "call"
      BY <1>2, <1>3, <2>1 DEF CallInv
    <3> QED BY <1>2, <1>3, <2>3, <3>1, <3>2
  <2> QED BY <2>2, <2>3
<1>10. /\ phase' \in [Level -> {"none", "open", "ended"}]
       /\ callee' \in [Level -> Threads \cup {End}] /\ valid' \in [Level -> BOOLEAN]
  BY <1>1 DEF CallsInv, Left
<1>11. CallsInv'
  <2>1. ASSUME NEW l \in Level PROVE CallInv(l)'
    <3>1. l \in Nat /\ CallInv(l) /\ l \in 0..MaxDepth
      BY <1>1, <1>2 DEF CallsInv, Level
    <3>2. phase'[l] # "none" => l <= Depth' /\ (l > 0 => stack'[l].in = "cpp")
      <4>1. ASSUME phase'[l] # "none" PROVE l <= d - 1
        <5>1. CASE phase'[l] = phase[l]
          <6>1. l <= d
            BY <1>3, <3>1, <4>1, <5>1 DEF CallInv
          <6>2. l # d
            BY <1>3, <4>1, <5>1
          <6> QED BY <3>1, <6>1, <6>2
        <5>2. CASE phase'[l] = "ended" /\ l = d - 1
          BY <3>1, <5>2
        <5> QED BY <1>9, <5>1, <5>2
      <4>2. ASSUME l <= d - 1, l > 0 PROVE stack'[l].in = "cpp"
        <5>1. l \in 1..(d - 1)
          BY <3>1, <4>2
        <5> QED BY <1>1, <1>3, <1>4, <1>5, <5>1 DEF StackInv, EntryInv
      <4> QED BY <1>4, <4>1, <4>2
    <3>3. valid'[l] => phase'[l] = "open" /\ callee'[l] \in Threads /\ state'[callee'[l]] = "RUNNING"
      BY <1>9, <3>1 DEF CallInv
    <3>4. (phase'[l] = "open" /\ ~valid'[l]) => "killed" \in harm'
      BY <1>7, <1>9, <3>1 DEF CallInv
    <3>5. (valid'[l] /\ framed'[callee'[l]]) => l < Depth' /\ stack'[l + 1].why = "call"
      <4> SUFFICES ASSUME valid'[l], framed'[callee'[l]] PROVE l < Depth' /\ stack'[l + 1].why = "call"
        OBVIOUS
      <4>1. callee[l] \in Threads /\ framed[callee[l]] /\ valid[l]
        BY <1>9, <3>1 DEF CallInv
      <4>2. l < d /\ stack[l + 1].why = "call"
        BY <1>3, <3>1, <4>1 DEF CallInv
      <4>3. l + 1 # d
        BY <1>9, <4>2
      <4>4. l < d - 1 /\ l + 1 \in 1..(d - 1)
        BY <3>1, <4>2, <4>3
      <4> QED BY <1>4, <4>2, <4>4
    <3>6. (valid'[l] /\ l < Depth' /\ stack'[l + 1].why = "call") => stack'[l + 1].thread = callee'[l]
      <4> SUFFICES ASSUME valid'[l], l < Depth', stack'[l + 1].why = "call"
                   PROVE  stack'[l + 1].thread = callee'[l]
        OBVIOUS
      <4>1. l < Depth /\ l + 1 \in 1..(d - 1)
        BY <1>3, <1>4, <3>1
      <4> QED BY <1>4, <1>9, <3>1, <4>1 DEF CallInv
    <3>7. ASSUME NEW i \in 1..Depth', valid'[l], stack'[i].alive, stack'[i].thread = callee'[l]
          PROVE  i = l + 1 /\ stack'[i].why = "call"
      <4>1. i \in 1..Depth /\ stack'[i] = stack[i]
        BY <1>3, <1>4, <1>5, <3>7
      <4> QED BY <1>9, <3>1, <3>7, <4>1 DEF CallInv
    <3> QED BY <3>2, <3>3, <3>4, <3>5, <3>6, <3>7 DEF CallInv
  <2>2. \A l, m \in Level : (valid'[l] /\ valid'[m] /\ callee'[l] = callee'[m]) => l = m
    BY <1>1, <1>9 DEF CallsInv
  <2>3. (pass' /\ phase'[0] = "open") => "interrupted" \in harm'
    <3>1. 0 \in Level
      BY <1>2 DEF Level
    <3> QED BY <1>1, <1>7, <1>9, <3>1 DEF CallsInv
  <2> QED BY <1>10, <2>1, <2>2, <2>3 DEF CallsInv
<1>12. FrameInv'
  <2>1. ASSUME NEW t \in Threads PROVE
          /\ state'[t] \in {"BLOCKED", "SYS_PENDING", "SLEEPING"} => framed'[t]
          /\ (state'[t] = "RUNNING" /\ ~framed'[t]) =>
                \/ harm' \cap {"abandoned", "interrupted", "native"} # {}
                \/ \E l \in Level : valid'[l] /\ callee'[l] = t
    <3>1. CASE t = Self
      BY <3>1
    <3>2. CASE t # Self
      <4>1. state'[t] = state[t] /\ framed'[t] = framed[t]
        BY <3>2
      <4>2. \A l \in Level : (valid[l] /\ callee[l] = t) => valid'[l] /\ callee'[l] = t
        BY <1>9, <3>2
      <4> QED BY <1>1, <1>7, <4>1, <4>2 DEF FrameInv
    <3> QED BY <3>1, <3>2
  <2> QED BY <2>1 DEF FrameInv
<1> QED BY <1>8, <1>11, <1>12 DEF UseInv


\* The lists change under the calls, but no thread that C++ uses does: the lemma for
\* what leaves stack and calls alone.
LEMMA UseKept ==
  ASSUME UseInv, NEW N \in SUBSET Threads, UNCHANGED <<stack, calls>>,
         state' \in [Threads -> State], framed' \in [Threads -> BOOLEAN],
         harm \subseteq harm', pass' => pass \/ (phase[0] = "open" => "interrupted" \in harm'),
         \A t \in N : state[t] # "RUNNING",
         \A t \in Threads \ N : state'[t] = state[t] /\ framed'[t] = framed[t],
         \A t \in N : \/ framed'[t] \/ state'[t] \in {"free", "KILLED"}
                      \/ state'[t] = "RUNNING" /\ harm' \cap {"abandoned", "interrupted", "native"} # {}
  PROVE  UseInv'
<1>1. StackInv /\ CallsInv /\ FrameInv
  BY DEF UseInv
<1>2. UNCHANGED <<stack, phase, callee, valid>> /\ Depth' = Depth
  BY DEF calls, Depth
<1>3. \A i \in 1..Depth : /\ stack[i].thread \in Threads
                          /\ stack[i].alive => stack[i].thread \notin N
  BY <1>1, LevelFacts DEF StackInv, EntryInv
<1>4. \A l \in Level : valid[l] => callee[l] \in Threads \ N
  BY <1>1 DEF CallsInv, CallInv
<1>5. StackInv'
  <2>1. ASSUME NEW i \in 1..Depth PROVE EntryInv(i)'
    BY <1>1, <1>2, <1>3 DEF StackInv, EntryInv
  <2>2. stack' \in Seq(Entries) /\ Depth' \in Level
    BY <1>1, <1>2 DEF StackInv
  <2>3. \A i, j \in 1..Depth' :
          (stack'[i].alive /\ stack'[j].alive /\ stack'[i].thread = stack'[j].thread) => i = j
    BY <1>1, <1>2 DEF StackInv
  <2> QED BY <1>2, <2>1, <2>2, <2>3 DEF StackInv
<1>6. CallsInv'
  <2>1. ASSUME NEW l \in Level PROVE CallInv(l)'
    <3>1. CallInv(l)
      BY <1>1 DEF CallsInv
    <3>2. valid[l] => state'[callee[l]] = state[callee[l]] /\ framed'[callee[l]] = framed[callee[l]]
      BY <1>4
    <3> QED BY <1>2, <3>1, <3>2 DEF CallInv
  <2>2. (pass' /\ phase'[0] = "open") => "interrupted" \in harm'
    BY <1>1, <1>2 DEF CallsInv
  <2> QED BY <1>1, <1>2, <2>1, <2>2 DEF CallsInv
<1>7. FrameInv'
  <2>1. ASSUME NEW t \in Threads PROVE
          /\ state'[t] \in {"BLOCKED", "SYS_PENDING", "SLEEPING"} => framed'[t]
          /\ (state'[t] = "RUNNING" /\ ~framed'[t]) =>
                \/ harm' \cap {"abandoned", "interrupted", "native"} # {}
                \/ \E l \in Level : valid'[l] /\ callee'[l] = t
    <3>1. CASE t \in N
      BY <3>1
    <3>2. CASE t \notin N
      <4>1. state'[t] = state[t] /\ framed'[t] = framed[t]
        BY <3>2
      <4> QED BY <1>1, <1>2, <4>1 DEF FrameInv
    <3> QED BY <3>1, <3>2
  <2> QED BY <2>1 DEF FrameInv
<1> QED BY <1>5, <1>6, <1>7 DEF UseInv

\* In particular, a step that leaves the threads alone as well.
LEMMA UseUntouched ==
  ASSUME ListInv, UseInv, UNCHANGED <<stack, calls, state, framed>>, harm \subseteq harm', pass' => pass
  PROVE  UseInv'
<1>1. state' \in [Threads -> State] /\ framed' \in [Threads -> BOOLEAN]
  BY DEF ListInv, UseInv, FrameInv
<1>2. {} \in SUBSET Threads /\ \A t \in Threads : state'[t] = state[t] /\ framed'[t] = framed[t]
  OBVIOUS
<1> QED BY <1>1, <1>2, UseKept

\* A thread that was created: no other thread changes, and nothing refers to it.
LEMMA CreateFacts ==
  ASSUME ListInv, UseInv, NEW t \in Threads, NEW f \in BOOLEAN, Create(t, f)
  PROVE  /\ state[t] # "RUNNING" /\ state'[t] = "RUNNING" /\ framed'[t] = f /\ pass' = pass
         /\ state' \in [Threads -> State] /\ framed' \in [Threads -> BOOLEAN]
         /\ \A u \in Threads \ {t} : state'[u] = state[u] /\ framed'[u] = framed[u]
         /\ \A i \in 1..Depth : stack[i].thread \in Threads /\ (stack[i].alive => stack[i].thread # t)
         /\ \A l \in Level : valid[l] => callee[l] \in Threads \ {t}
<1>1. state[t] \in {"free", "KILLED"} /\ ListInv'
  BY CreateLists
<1>2. state' = [state EXCEPT ![t] = "RUNNING"] /\ framed' = [framed EXCEPT ![t] = f] /\ pass' = pass
  BY DEF Create
<1>3. state \in [Threads -> State] /\ framed \in [Threads -> BOOLEAN] /\ state' \in [Threads -> State]
  BY <1>1 DEF ListInv, UseInv, FrameInv
<1>4. \A i \in 1..Depth : stack[i].thread \in Threads /\ (stack[i].alive => stack[i].thread # t)
  BY <1>1, LevelFacts DEF UseInv, StackInv, EntryInv
<1>5. \A l \in Level : valid[l] => callee[l] \in Threads \ {t}
  BY <1>1 DEF UseInv, CallsInv, CallInv
<1> QED BY <1>1, <1>2, <1>3, <1>4, <1>5

\* Another entry on the stack.
LEMMA StackGrows ==
  ASSUME StackInv, Depth < MaxDepth, NEW e \in Entries, stack' = Append(stack, e)
  PROVE  /\ stack' \in Seq(Entries) /\ Depth' = Depth + 1 /\ Depth' \in Level
         /\ \A i \in 1..Depth : stack'[i] = stack[i]
         /\ stack'[Depth + 1] = e
         /\ \A i \in 1..Depth' : i \in 1..Depth \/ i = Depth + 1
<1>1. stack \in Seq(Entries) /\ Depth \in Nat /\ Depth = Len(stack) /\ MaxDepth \in Nat
  BY LevelFacts DEF StackInv
<1>2. /\ stack' \in Seq(Entries) /\ Len(stack') = Len(stack) + 1 /\ stack'[Len(stack) + 1] = e
      /\ \A i \in 1..Len(stack) : stack'[i] = stack[i]
  BY <1>1, AppendProperties
<1>3. Depth' = Depth + 1
  BY <1>1, <1>2 DEF Depth
<1>4. Depth' \in Level
  BY <1>1, <1>3 DEF Level
<1>5. \A i \in 1..Depth' : i \in 1..Depth \/ i = Depth + 1
  BY <1>1, <1>3
<1> QED BY <1>1, <1>2, <1>3, <1>4, <1>5

\* C++ code executes the thread t, which has a frame unless the function is a C++
\* function; t is the thread of the call of that code, or of no call.
LEMMA UsePushed ==
  ASSUME UseInv, InCPP, Depth < MaxDepth, NEW t \in Threads,
         NEW why \in {"string", "call"}, NEW in \in {"script", "cpp"},
         NEW e \in Entries, e.thread = t, e.why = why, e.in = in, e.alive,
         stack' \in Seq(Entries), Depth' = Depth + 1, Depth' \in Level,
         \A i \in 1..Depth : stack'[i] = stack[i], stack'[Depth + 1] = e,
         UNCHANGED <<calls, harm>>, pass' = pass,
         state' \in [Threads -> State], framed' \in [Threads -> BOOLEAN],
         \A u \in Threads \ {t} : state'[u] = state[u] /\ framed'[u] = framed[u],
         state'[t] = "RUNNING", framed'[t] <=> in = "script",
         \A i \in 1..Depth : stack[i].alive => stack[i].thread # t,
         \A l \in Level : (valid[l] /\ callee[l] = t) <=> (l = Depth /\ why = "call"),
         why = "string" => framed'[t]
  PROVE  UseInv'
<1>1. StackInv /\ CallsInv /\ FrameInv
  BY DEF UseInv
<1>2. UNCHANGED <<phase, callee, valid, harm>>
  BY DEF calls
<1>3. PICK d \in Level : d = Depth /\ d \in Nat /\ MaxDepth \in Nat /\ d < MaxDepth
  BY <1>1, LevelFacts DEF Level
<1>5. e.thread = t /\ e.why = why /\ e.in = in /\ e.alive
  OBVIOUS
<1>6. /\ Depth' = d + 1
      /\ \A i \in 1..d : stack'[i] = stack[i]
      /\ stack'[d + 1] = e
      /\ \A i \in 1..(d + 1) : i \in 1..d \/ i = d + 1
  BY <1>3
<1>7. \A i \in 1..d : stack[i].in = "cpp" /\ stack[i].thread \in Threads
  BY <1>1, <1>3, InCPPFacts, LevelFacts
<1>8. StackInv'
  <2>1. ASSUME NEW i \in 1..(d + 1) PROVE EntryInv(i)'
    <3>1. CASE i = d + 1
      <4>1. stack'[i] = e /\ ~(i < Depth')
        BY <1>3, <1>6, <3>1
      <4> QED BY <1>5, <4>1 DEF EntryInv
    <3>2. CASE i \in 1..d
      <4>1. EntryInv(i) /\ stack'[i] = stack[i] /\ stack[i].in = "cpp"
        BY <1>1, <1>3, <1>6, <1>7, <3>2 DEF StackInv
      <4>2. stack[i].alive => state'[stack[i].thread] = state[stack[i].thread]
        BY <1>3, <1>7, <3>2
      <4> QED BY <1>2, <4>1, <4>2 DEF EntryInv
    <3> QED BY <1>6, <3>1, <3>2
  <2>2. ASSUME NEW i \in 1..(d + 1), NEW j \in 1..(d + 1), stack'[i].alive, stack'[j].alive,
               stack'[i].thread = stack'[j].thread
        PROVE  i = j
    <3>1. CASE i \in 1..d /\ j \in 1..d
      BY <1>1, <1>3, <1>6, <2>2, <3>1 DEF StackInv
    <3>2. CASE i \in 1..d /\ j = d + 1
      BY <1>3, <1>5, <1>6, <2>2, <3>2
    <3>3. CASE j \in 1..d /\ i = d + 1
      BY <1>3, <1>5, <1>6, <2>2, <3>3
    <3> QED BY <1>6, <3>1, <3>2, <3>3
  <2> QED BY <1>6, <2>1, <2>2 DEF StackInv
<1>9. CallsInv'
  <2>1. ASSUME NEW l \in Level PROVE CallInv(l)'
    <3>1. l \in Nat /\ CallInv(l)
      BY <1>1, <1>3 DEF CallsInv, Level
    <3>2. phase[l] # "none" => l <= d + 1 /\ (l > 0 => stack'[l].in = "cpp")
      <4> SUFFICES ASSUME phase[l] # "none" PROVE l <= d + 1 /\ (l > 0 => stack'[l].in = "cpp")
        OBVIOUS
      <4>1. l <= d
        BY <1>3, <3>1 DEF CallInv
      <4>2. l > 0 => l \in 1..d
        BY <1>3, <3>1, <4>1
      <4> QED BY <1>3, <1>6, <1>7, <3>1, <4>1, <4>2
    <3>3. valid[l] => callee[l] \in Threads /\ phase[l] = "open" /\ state[callee[l]] = "RUNNING"
      BY <3>1 DEF CallInv
    <3>4. valid[l] => state'[callee[l]] = "RUNNING"
      BY <3>3
    <3>5. (valid[l] /\ framed'[callee[l]]) => l < d + 1 /\ stack'[l + 1].why = "call"
      <4> SUFFICES ASSUME valid[l], framed'[callee[l]] PROVE l < d + 1 /\ stack'[l + 1].why = "call"
        OBVIOUS
      <4>1. CASE callee[l] = t
        <5>1. l = d /\ why = "call"
          BY <1>3, <4>1
        <5> QED BY <1>3, <1>5, <1>6, <5>1
      <4>2. CASE callee[l] # t
        <5>1. framed[callee[l]]
          BY <3>3, <4>2
        <5>2. l < d /\ stack[l + 1].why = "call"
          BY <1>3, <3>1, <5>1 DEF CallInv
        <5>3. l + 1 \in 1..d
          BY <1>3, <3>1, <5>2
        <5> QED BY <1>3, <1>6, <3>1, <5>2, <5>3
      <4> QED BY <4>1, <4>2
    <3>6. (valid[l] /\ l < d + 1 /\ stack'[l + 1].why = "call") => stack'[l + 1].thread = callee[l]
      <4> SUFFICES ASSUME valid[l], l < d + 1, stack'[l + 1].why = "call"
                   PROVE  stack'[l + 1].thread = callee[l]
        OBVIOUS
      <4>1. CASE l = d
        BY <1>3, <1>5, <1>6, <4>1
      <4>2. CASE l # d
        <5>1. l < d /\ l + 1 \in 1..d
          BY <1>3, <3>1, <4>2
        <5> QED BY <1>3, <1>6, <3>1, <5>1 DEF CallInv
      <4> QED BY <4>1, <4>2
    <3>7. ASSUME NEW i \in 1..(d + 1), valid[l], stack'[i].alive, stack'[i].thread = callee[l]
          PROVE  i = l + 1 /\ stack'[i].why = "call"
      <4>1. CASE i = d + 1
        <5>1. l = d /\ why = "call"
          BY <1>3, <1>5, <1>6, <3>7, <4>1
        <5> QED BY <1>5, <1>6, <4>1, <5>1
      <4>2. CASE i \in 1..d
        BY <1>3, <1>6, <3>1, <3>7, <4>2 DEF CallInv
      <4> QED BY <1>6, <4>1, <4>2
    <3> QED BY <1>2, <1>6, <3>1, <3>2, <3>3, <3>4, <3>5, <3>6, <3>7 DEF CallInv
  <2> QED BY <1>1, <1>2, <2>1 DEF CallsInv
<1>10. FrameInv'
  <2>1. ASSUME NEW u \in Threads PROVE
          /\ state'[u] \in {"BLOCKED", "SYS_PENDING", "SLEEPING"} => framed'[u]
          /\ (state'[u] = "RUNNING" /\ ~framed'[u]) =>
                \/ harm' \cap {"abandoned", "interrupted", "native"} # {}
                \/ \E l \in Level : valid'[l] /\ callee'[l] = u
    <3>1. CASE u = t
      <4>1. why = "call" => valid[d] /\ callee[d] = t
        BY <1>3
      <4> QED BY <1>2, <1>3, <3>1, <4>1
    <3>2. CASE u # t
      <4>1. state'[u] = state[u] /\ framed'[u] = framed[u]
        BY <3>2
      <4> QED BY <1>1, <1>2, <4>1 DEF FrameInv
    <3> QED BY <3>1, <3>2
  <2> QED BY <2>1 DEF FrameInv
<1> QED BY <1>8, <1>9, <1>10 DEF UseInv


\* ExecuteString pushes an entry for its new thread.
LEMMA UseExecuteString ==
  ASSUME ListInv, UseInv, ExecuteString
  PROVE  UseInv'
<1>1. InCPP /\ Depth < MaxDepth /\ UNCHANGED <<calls, harm>>
  BY DEF ExecuteString
<1>2. PICK t \in Threads : Create(t, TRUE) /\ stack' = Append(stack, Entry(t, "string", "script"))
  BY DEF ExecuteString
<1>3. /\ state[t] # "RUNNING" /\ state'[t] = "RUNNING" /\ framed'[t] = TRUE /\ pass' = pass
      /\ state' \in [Threads -> State] /\ framed' \in [Threads -> BOOLEAN]
      /\ \A u \in Threads \ {t} : state'[u] = state[u] /\ framed'[u] = framed[u]
      /\ \A i \in 1..Depth : stack[i].thread \in Threads /\ (stack[i].alive => stack[i].thread # t)
      /\ \A l \in Level : valid[l] => callee[l] \in Threads \ {t}
  BY <1>2, CreateFacts
<1>4. PICK e \in Entries : e = Entry(t, "string", "script")
  BY DEF Entry, Entries
<1>5. /\ e.thread = t /\ e.why = "string" /\ e.in = "script" /\ e.alive
  BY <1>4 DEF Entry
<1>6. /\ stack' \in Seq(Entries) /\ Depth' = Depth + 1 /\ Depth' \in Level
      /\ \A i \in 1..Depth : stack'[i] = stack[i]
      /\ stack'[Depth + 1] = e
  BY <1>1, <1>2, <1>4, StackGrows DEF UseInv
<1>7. \A l \in Level : (valid[l] /\ callee[l] = t) <=> (l = Depth /\ "string" = "call")
  BY <1>3
<1> QED BY <1>1, <1>3, <1>5, <1>6, <1>7, UsePushed

\* EndCall pushes an entry for the thread of the call.
LEMMA UseEndCall ==
  ASSUME ListInv, UseInv, NEW native \in BOOLEAN, EndCall(native)
  PROVE  UseInv'
<1>1. /\ InCPP /\ Depth < MaxDepth /\ UNCHANGED <<calls, harm>> /\ valid[Depth]
      /\ pass' = pass /\ state' = state
  BY DEF EndCall, turn, lists
<1>2. PICK t, why, in : t = callee[Depth] /\ why = "call" /\ in = IF native THEN "cpp" ELSE "script"
  OBVIOUS
<1>3. Depth \in Level /\ why \in {"string", "call"} /\ in \in {"script", "cpp"}
  BY <1>1, <1>2, InCPPFacts DEF UseInv
<1>4. t \in Threads /\ state[t] = "RUNNING"
  BY <1>1, <1>2, <1>3 DEF UseInv, CallsInv, CallInv
<1>5. PICK e \in Entries : e = Entry(t, why, in)
  BY <1>3, <1>4 DEF Entry, Entries
<1>6. e.thread = t /\ e.why = why /\ e.in = in /\ e.alive
  BY <1>5 DEF Entry
<1>7. stack' = Append(stack, e) /\ framed' = [framed EXCEPT ![t] = ~native]
  BY <1>2, <1>5 DEF EndCall
<1>8. /\ stack' \in Seq(Entries) /\ Depth' = Depth + 1 /\ Depth' \in Level
      /\ \A i \in 1..Depth : stack'[i] = stack[i]
      /\ stack'[Depth + 1] = e
  BY <1>1, <1>7, StackGrows DEF UseInv
<1>9. state \in [Threads -> State] /\ framed \in [Threads -> BOOLEAN]
  BY DEF ListInv, UseInv, FrameInv
<1>10. /\ state' \in [Threads -> State] /\ framed' \in [Threads -> BOOLEAN]
       /\ (framed'[t] <=> in = "script") /\ state'[t] = "RUNNING"
       /\ \A u \in Threads \ {t} : state'[u] = state[u] /\ framed'[u] = framed[u]
  BY <1>1, <1>2, <1>4, <1>7, <1>9
<1>11. \A i \in 1..Depth : stack[i].alive => stack[i].thread # t
  <2> SUFFICES ASSUME NEW i \in 1..Depth, stack[i].alive, stack[i].thread = t PROVE FALSE
    OBVIOUS
  <2>1. i = Depth + 1
    BY <1>1, <1>2, <1>3 DEF UseInv, CallsInv, CallInv
  <2> QED BY <1>3, <2>1, LevelFacts DEF UseInv
<1>12. \A l \in Level : (valid[l] /\ callee[l] = t) <=> (l = Depth /\ why = "call")
  BY <1>1, <1>2, <1>3 DEF UseInv, CallsInv
<1> QED BY <1>1, <1>2, <1>3, <1>4, <1>6, <1>8, <1>10, <1>11, <1>12, UsePushed


\* BeginCall: the thread of the new call has no frame yet.
LEMMA UseBeginCall ==
  ASSUME ListInv, UseInv, BeginCall
  PROVE  UseInv'
<1>1. /\ StackInv /\ CallsInv /\ FrameInv
      /\ InCPP /\ phase[Depth] = "none" /\ UNCHANGED <<stack, harm>>
      /\ phase' = [phase EXCEPT ![Depth] = "open"] /\ valid' = [valid EXCEPT ![Depth] = TRUE]
  BY DEF UseInv, BeginCall
<1>2. PICK t \in Threads : Create(t, FALSE) /\ callee' = [callee EXCEPT ![Depth] = t]
  BY DEF BeginCall
<1>3. /\ state[t] # "RUNNING" /\ state'[t] = "RUNNING" /\ framed'[t] = FALSE /\ pass' = pass
      /\ state' \in [Threads -> State] /\ framed' \in [Threads -> BOOLEAN]
      /\ \A u \in Threads \ {t} : state'[u] = state[u] /\ framed'[u] = framed[u]
      /\ \A i \in 1..Depth : stack[i].thread \in Threads /\ (stack[i].alive => stack[i].thread # t)
      /\ \A l \in Level : valid[l] => callee[l] \in Threads \ {t}
  BY <1>2, CreateFacts
<1>4. PICK d \in Level : d = Depth
  BY <1>1, InCPPFacts
<1>5. /\ d \in Nat /\ MaxDepth \in Nat /\ Depth' = d /\ (d = 0 => ~pass)
      /\ \A i \in 1..d : stack[i].in = "cpp"
  <2>1. Depth' = Depth
    BY <1>1 DEF Depth
  <2> QED BY <1>1, <1>4, <2>1, InCPPFacts, LevelFacts
<1>6. /\ phase \in [Level -> {"none", "open", "ended"}]
      /\ callee \in [Level -> Threads \cup {End}] /\ valid \in [Level -> BOOLEAN]
  BY <1>1 DEF CallsInv
<1>7. /\ phase' \in [Level -> {"none", "open", "ended"}]
      /\ callee' \in [Level -> Threads \cup {End}] /\ valid' \in [Level -> BOOLEAN]
      /\ phase'[d] = "open" /\ valid'[d] = TRUE /\ callee'[d] = t
      /\ \A l \in Level \ {d} : phase'[l] = phase[l] /\ valid'[l] = valid[l] /\ callee'[l] = callee[l]
  BY <1>1, <1>2, <1>4, <1>6
<1>8. ~valid[d]
  BY <1>1, <1>4 DEF CallsInv, CallInv
<1>9. StackInv'
  <2>1. ASSUME NEW i \in 1..d PROVE EntryInv(i)'
    <3>1. EntryInv(i) /\ stack[i].thread \in Threads /\ stack[i].in = "cpp"
      BY <1>1, <1>3, <1>4, <1>5 DEF StackInv
    <3>2. stack[i].alive => state'[stack[i].thread] = state[stack[i].thread]
      BY <1>3, <1>4, <3>1
    <3> QED BY <1>1, <3>1, <3>2 DEF EntryInv
  <2>2. stack' \in Seq(Entries) /\ Depth' \in Level
    BY <1>1, <1>4, <1>5 DEF StackInv
  <2>3. \A i, j \in 1..d :
          (stack'[i].alive /\ stack'[j].alive /\ stack'[i].thread = stack'[j].thread) => i = j
    BY <1>1, <1>4 DEF StackInv
  <2> QED BY <1>5, <2>1, <2>2, <2>3 DEF StackInv
<1>10. CallsInv'
  <2>1. ASSUME NEW l \in Level PROVE CallInv(l)'
    <3>1. CASE l = d
      <4>1. l > 0 => l \in 1..d
        BY <1>5, <3>1
      <4>2. l <= Depth' /\ (l > 0 => stack'[l].in = "cpp")
        BY <1>1, <1>5, <3>1, <4>1
      <4>3. \A i \in 1..Depth' : stack'[i].alive => stack'[i].thread # t
        BY <1>1, <1>3, <1>4, <1>5
      <4>4. phase'[l] = "open" /\ valid'[l] /\ callee'[l] = t
        BY <1>7, <3>1
      <4>5. ~(l < Depth')
        BY <1>5, <3>1
      <4> QED BY <1>3, <4>2, <4>3, <4>4, <4>5 DEF CallInv
    <3>2. CASE l # d
      <4>1. phase'[l] = phase[l] /\ valid'[l] = valid[l] /\ callee'[l] = callee[l] /\ CallInv(l)
        BY <1>1, <1>7, <3>2 DEF CallsInv
      <4>2. valid[l] => /\ state'[callee[l]] = state[callee[l]]
                        /\ framed'[callee[l]] = framed[callee[l]]
        BY <1>3
      <4>3. UNCHANGED <<stack, harm>> /\ Depth' = Depth
        BY <1>1, <1>4, <1>5
      <4> QED BY <4>1, <4>2, <4>3 DEF CallInv
    <3> QED BY <3>1, <3>2
  <2>2. ASSUME NEW l \in Level, NEW m \in Level, valid'[l], valid'[m], callee'[l] = callee'[m]
        PROVE  l = m
    <3>1. CASE l # d /\ m # d
      <4>1. valid[l] /\ valid[m] /\ callee[l] = callee[m]
        BY <1>7, <2>2, <3>1
      <4> QED BY <1>1, <4>1 DEF CallsInv
    <3>2. CASE l = d /\ m # d
      BY <1>3, <1>7, <2>2, <3>2
    <3>3. CASE l # d /\ m = d
      BY <1>3, <1>7, <2>2, <3>3
    <3> QED BY <3>1, <3>2, <3>3
  <2>3. (pass' /\ phase'[0] = "open") => "interrupted" \in harm'
    <3>1. 0 \in Level
      BY <1>5 DEF Level
    <3>2. pass' => 0 # d
      BY <1>3, <1>5
    <3> QED BY <1>1, <1>3, <1>7, <3>1, <3>2 DEF CallsInv
  <2> QED BY <1>7, <2>1, <2>2, <2>3 DEF CallsInv
<1>11. FrameInv'
  <2>1. ASSUME NEW u \in Threads PROVE
          /\ state'[u] \in {"BLOCKED", "SYS_PENDING", "SLEEPING"} => framed'[u]
          /\ (state'[u] = "RUNNING" /\ ~framed'[u]) =>
                \/ harm' \cap {"abandoned", "interrupted", "native"} # {}
                \/ \E l \in Level : valid'[l] /\ callee'[l] = u
    <3>1. CASE u = t
      BY <1>3, <1>7, <3>1
    <3>2. CASE u # t
      <4>1. state'[u] = state[u] /\ framed'[u] = framed[u]
        BY <1>3, <3>2
      <4>2. \A l \in Level : (valid[l] /\ callee[l] = u) => valid'[l] /\ callee'[l] = u
        BY <1>7, <1>8
      <4> QED BY <1>1, <4>1, <4>2 DEF FrameInv
    <3> QED BY <3>1, <3>2
  <2> QED BY <1>3, <2>1 DEF FrameInv
<1> QED BY <1>9, <1>10, <1>11 DEF UseInv

\* ReleaseAfterCall forgets the call; one that was never ended leaves its thread behind.
LEMMA UseReleaseAfterCall ==
  ASSUME ListInv, UseInv, ReleaseAfterCall
  PROVE  UseInv' /\ harm' \in SUBSET (harm \cup Harms)
<1>1. /\ StackInv /\ CallsInv /\ FrameInv
      /\ InCPP /\ UNCHANGED <<stack, state, framed, pass>>
      /\ phase' = [phase EXCEPT ![Depth] = "none"] /\ valid' = [valid EXCEPT ![Depth] = FALSE]
      /\ callee' = [callee EXCEPT ![Depth] = End]
      /\ harm' = harm \cup (IF phase[Depth] = "open" THEN {"abandoned"} ELSE {})
  BY DEF UseInv, ReleaseAfterCall, Harm, lists, content, turn
<1>2. PICK d \in Level : d = Depth /\ Depth' = d
  BY <1>1, InCPPFacts DEF Depth
<1>3. /\ phase \in [Level -> {"none", "open", "ended"}]
      /\ callee \in [Level -> Threads \cup {End}] /\ valid \in [Level -> BOOLEAN]
  BY <1>1 DEF CallsInv
<1>4. /\ phase' \in [Level -> {"none", "open", "ended"}]
      /\ callee' \in [Level -> Threads \cup {End}] /\ valid' \in [Level -> BOOLEAN]
      /\ phase'[d] = "none" /\ valid'[d] = FALSE
      /\ \A l \in Level \ {d} : phase'[l] = phase[l] /\ valid'[l] = valid[l] /\ callee'[l] = callee[l]
  BY <1>1, <1>2, <1>3
<1>5. StackInv'
  BY <1>1, <1>2 DEF StackInv, EntryInv
<1>6. CallsInv'
  <2>1. ASSUME NEW l \in Level PROVE CallInv(l)'
    <3>1. CASE l = d
      BY <1>4, <3>1 DEF CallInv
    <3>2. CASE l # d
      <4>1. phase'[l] = phase[l] /\ valid'[l] = valid[l] /\ callee'[l] = callee[l] /\ CallInv(l)
        BY <1>1, <1>4, <3>2 DEF CallsInv
      <4>2. UNCHANGED <<stack, state, framed>> /\ Depth' = Depth /\ harm \subseteq harm'
        BY <1>1, <1>2
      <4> QED BY <4>1, <4>2 DEF CallInv
    <3> QED BY <3>1, <3>2
  <2>2. ASSUME NEW l \in Level, NEW m \in Level, valid'[l], valid'[m], callee'[l] = callee'[m]
        PROVE  l = m
    <3>1. l # d /\ m # d
      BY <1>4, <2>2
    <3> QED BY <1>1, <1>4, <2>2, <3>1 DEF CallsInv
  <2>3. (pass' /\ phase'[0] = "open") => "interrupted" \in harm'
    <3>1. 0 \in Level
      BY GMAssumption DEF Level
    <3> QED BY <1>1, <1>4, <3>1 DEF CallsInv
  <2> QED BY <1>4, <2>1, <2>2, <2>3 DEF CallsInv
<1>7. FrameInv'
  <2>1. ASSUME NEW u \in Threads PROVE
          /\ state'[u] \in {"BLOCKED", "SYS_PENDING", "SLEEPING"} => framed'[u]
          /\ (state'[u] = "RUNNING" /\ ~framed'[u]) =>
                \/ harm' \cap {"abandoned", "interrupted", "native"} # {}
                \/ \E l \in Level : valid'[l] /\ callee'[l] = u
    <3>1. valid[d] => "abandoned" \in harm'
      BY <1>1, <1>2 DEF CallsInv, CallInv
    <3>2. \A l \in Level : valid[l] => "abandoned" \in harm' \/ (valid'[l] /\ callee'[l] = callee[l])
      BY <1>4, <3>1
    <3>3. state'[u] = state[u] /\ framed'[u] = framed[u] /\ harm \subseteq harm'
      BY <1>1
    <3> QED BY <1>1, <3>2, <3>3 DEF FrameInv
  <2> QED BY <1>1, <2>1 DEF FrameInv
<1>8. harm' \in SUBSET (harm \cup Harms)
  BY <1>1 DEF Harms
<1> QED BY <1>5, <1>6, <1>7, <1>8 DEF UseInv


\* Threads are killed under the calls that use them, but not the innermost one.
LEMMA UseKilled ==
  ASSUME ListInv, UseInv, InScript, NEW v, NEW V, Lists(v, V),
         \A t \in V : state[t] \notin {"free", "KILLED"}, Self \notin V, Kill(v),
         stack' = Stale(stack, V), valid' = Invalid(V),
         Harm(IF InUse(V) THEN {"killed"} ELSE {}), UNCHANGED <<phase, callee>>
  PROVE  UseInv' /\ harm' \in SUBSET (harm \cup Harms)
<1>1. StackInv /\ CallsInv /\ FrameInv
  BY DEF UseInv
<1>2. /\ Range(v) = V /\ V \in SUBSET Threads /\ state' \in [Threads -> State]
      /\ \A t \in Threads \ V : state'[t] = state[t]
      /\ \A t \in V : state'[t] \in {"free", "KILLED"}
  BY KillLists, ListsThreads DEF ListInv
<1>3. framed' = [t \in Threads |-> framed[t] /\ t \notin V] /\ pass' = pass
  BY <1>2 DEF Kill
<1>4. PICK d \in 1..MaxDepth : d = Depth /\ MaxDepth \in Nat
  BY <1>1, InScriptFacts, LevelFacts
<1>5. \A i \in 1..d : stack[i] \in Entries /\ stack[i].thread \in Threads /\ stack[i].alive \in BOOLEAN
  BY <1>1, <1>4, LevelFacts
<1>6. harm \subseteq harm' /\ harm' \in SUBSET (harm \cup Harms) /\ (InUse(V) => "killed" \in harm')
  BY DEF Harm, Harms
<1>7. /\ stack' \in Seq(Entries) /\ Depth' = d
      /\ \A i \in 1..d : /\ stack'[i].thread = stack[i].thread /\ stack'[i].why = stack[i].why
                         /\ stack'[i].in = stack[i].in
                         /\ stack'[i].alive = (stack[i].alive /\ stack[i].thread \notin V)
  <2>1. Len(stack) = d /\ d \in Nat
    BY <1>4 DEF Depth
  <2>2. stack' = [i \in 1..d |-> [stack[i] EXCEPT !.alive = @ /\ stack[i].thread \notin V]]
    BY <2>1 DEF Stale
  <2>3. ASSUME NEW i \in 1..d
        PROVE  LET e == [stack[i] EXCEPT !.alive = @ /\ stack[i].thread \notin V]
               IN  /\ e \in Entries /\ e.thread = stack[i].thread /\ e.why = stack[i].why
                   /\ e.in = stack[i].in /\ e.alive = (stack[i].alive /\ stack[i].thread \notin V)
    <3>1. stack[i] \in Entries
      BY <1>5
    <3> QED BY <3>1 DEF Entries
  <2>4. stack' \in [1..d -> Entries]
    BY <2>2, <2>3
  <2>5. stack' \in Seq(Entries) /\ Len(stack') = d
    BY <2>1, <2>4, FunctionIsSeq
  <2>6. \A i \in 1..d : stack'[i] = [stack[i] EXCEPT !.alive = @ /\ stack[i].thread \notin V]
    BY <2>2
  <2>7. ASSUME NEW i \in 1..d
        PROVE  /\ stack'[i].thread = stack[i].thread /\ stack'[i].why = stack[i].why
               /\ stack'[i].in = stack[i].in
               /\ stack'[i].alive = (stack[i].alive /\ stack[i].thread \notin V)
    <3>1. PICK e : e = [stack[i] EXCEPT !.alive = @ /\ stack[i].thread \notin V]
      OBVIOUS
    <3>2. /\ e.thread = stack[i].thread /\ e.why = stack[i].why
          /\ e.in = stack[i].in /\ e.alive = (stack[i].alive /\ stack[i].thread \notin V)
      BY <2>3, <3>1
    <3>3. stack'[i] = e
      BY <2>6, <3>1
    <3> QED BY <3>2, <3>3, Zenon
  <2> QED BY <2>5, <2>7 DEF Depth
<1>8. ASSUME NEW l \in Level PROVE valid'[l] = (valid[l] /\ callee[l] \notin V)
  BY DEF Invalid
<1>9. valid' \in [Level -> BOOLEAN]
  <2>1. valid' = [l \in Level |-> valid[l] /\ callee[l] \notin V]
    BY DEF Invalid
  <2> QED BY <2>1
<1>10. StackInv'
  <2>1. ASSUME NEW i \in 1..d PROVE EntryInv(i)'
    <3>1. EntryInv(i)
      BY <1>1, <1>4 DEF StackInv
    <3>2. i < d => stack'[i].in = "cpp"
      BY <1>4, <1>7, <3>1 DEF EntryInv
    <3>3. stack'[i].in = "script" => stack'[i].alive /\ framed'[stack'[i].thread]
      <4> SUFFICES ASSUME stack'[i].in = "script" PROVE stack'[i].alive /\ framed'[stack'[i].thread]
        OBVIOUS
      <4>1. i = d
        BY <1>4, <3>2
      <4>2. stack[i].thread = Self /\ stack[i].alive /\ framed[Self]
        BY <1>1, <1>4, <4>1, InScriptFacts
      <4>3. stack[i].thread \in Threads \ V
        BY <1>5, <4>2
      <4> QED BY <1>3, <1>7, <4>2, <4>3
    <3>4. stack'[i].alive => state'[stack'[i].thread] = "RUNNING"
      <4>1. stack'[i].thread = stack[i].thread /\ stack[i].thread \in Threads
        BY <1>5, <1>7, Zenon
      <4>2. stack'[i].alive => stack[i].alive /\ stack[i].thread \notin V
        BY <1>7, Zenon
      <4>3. stack[i].alive => state[stack[i].thread] = "RUNNING"
        BY <3>1 DEF EntryInv
      <4> QED BY <1>2, <4>1, <4>2, <4>3
    <3>5. ~stack'[i].alive => "killed" \in harm'
      <4>1. CASE stack[i].alive /\ stack[i].thread \in V
        <5>1. i \in 1..Len(stack)
          BY <1>4 DEF Depth
        <5>2. InUse(V)
          BY <4>1, <5>1 DEF InUse
        <5> QED BY <1>6, <5>2
      <4>2. CASE ~stack[i].alive
        BY <1>6, <3>1, <4>2 DEF EntryInv
      <4> QED BY <1>7, <4>1, <4>2
    <3> QED BY <1>7, <3>2, <3>3, <3>4, <3>5 DEF EntryInv
  <2>2. \A i, j \in 1..d :
          (stack'[i].alive /\ stack'[j].alive /\ stack'[i].thread = stack'[j].thread) => i = j
    <3> SUFFICES ASSUME NEW i \in 1..d, NEW j \in 1..d, stack'[i].alive, stack'[j].alive,
                        stack'[i].thread = stack'[j].thread
                 PROVE  i = j
      OBVIOUS
    <3>1. stack[i].alive /\ stack[j].alive /\ stack[i].thread = stack[j].thread
      BY <1>7, Zenon
    <3> QED BY <1>1, <1>4, <3>1 DEF StackInv
  <2>3. Depth' \in Level
    BY <1>4, <1>7 DEF Level
  <2> QED BY <1>7, <2>1, <2>2, <2>3 DEF StackInv
<1>11. CallsInv'
  <2>1. ASSUME NEW l \in Level PROVE CallInv(l)'
    <3>1. CallInv(l) /\ l \in Nat /\ phase'[l] = phase[l] /\ callee'[l] = callee[l]
      BY <1>1, <1>4 DEF CallsInv, Level
    <3>2. phase'[l] # "none" => l <= d /\ (l > 0 => stack'[l].in = "cpp")
      <4> SUFFICES ASSUME phase'[l] # "none" PROVE l <= d /\ (l > 0 => stack'[l].in = "cpp")
        OBVIOUS
      <4>1. l <= d /\ (l > 0 => stack[l].in = "cpp")
        BY <1>4, <3>1 DEF CallInv
      <4>2. l > 0 => l \in 1..d
        BY <3>1, <4>1
      <4> QED BY <1>7, <4>1, <4>2
    <3>3. valid'[l] => /\ valid[l] /\ phase'[l] = "open" /\ callee'[l] \in Threads \ V
                       /\ state'[callee'[l]] = "RUNNING"
      BY <1>2, <1>8, <3>1 DEF CallInv
    <3>4. (phase'[l] = "open" /\ ~valid'[l]) => "killed" \in harm'
      <4>1. CASE valid[l] /\ callee[l] \in V
        <5>1. InUse(V)
          BY <4>1 DEF InUse
        <5> QED BY <1>6, <5>1
      <4>2. CASE ~valid[l]
        BY <1>6, <3>1, <4>2 DEF CallInv
      <4> QED BY <1>8, <4>1, <4>2
    <3>5. (valid'[l] /\ framed'[callee'[l]]) => l < d /\ stack'[l + 1].why = "call"
      <4> SUFFICES ASSUME valid'[l], framed'[callee'[l]] PROVE l < d /\ stack'[l + 1].why = "call"
        OBVIOUS
      <4>1. valid[l] /\ framed[callee[l]]
        BY <1>3, <3>1, <3>3
      <4>2. l < d /\ stack[l + 1].why = "call"
        BY <1>4, <3>1, <4>1 DEF CallInv
      <4>3. l + 1 \in 1..d
        BY <3>1, <4>2
      <4> QED BY <1>7, <4>2, <4>3
    <3>6. (valid'[l] /\ l < d /\ stack'[l + 1].why = "call") => stack'[l + 1].thread = callee'[l]
      <4> SUFFICES ASSUME valid'[l], l < d, stack'[l + 1].why = "call" PROVE stack'[l + 1].thread = callee'[l]
        OBVIOUS
      <4>1. l + 1 \in 1..d
        BY <3>1
      <4> QED BY <1>4, <1>7, <3>1, <3>3, <4>1 DEF CallInv
    <3>7. ASSUME NEW i \in 1..d, valid'[l], stack'[i].alive, stack'[i].thread = callee'[l]
          PROVE  i = l + 1 /\ stack'[i].why = "call"
      <4>1. valid[l] /\ stack[i].alive /\ stack[i].thread = callee[l] /\ stack'[i].why = stack[i].why
        BY <1>7, <3>1, <3>3, <3>7, Zenon
      <4>2. i \in 1..Depth
        BY <1>4
      <4> QED BY <3>1, <4>1, <4>2 DEF CallInv
    <3> QED BY <1>7, <3>2, <3>3, <3>4, <3>5, <3>6, <3>7 DEF CallInv
  <2>2. \A l, m \in Level : (valid'[l] /\ valid'[m] /\ callee'[l] = callee'[m]) => l = m
    BY <1>1, <1>8 DEF CallsInv
  <2>3. (pass' /\ phase'[0] = "open") => "interrupted" \in harm'
    BY <1>1, <1>3, <1>6 DEF CallsInv
  <2>4. /\ phase' \in [Level -> {"none", "open", "ended"}] /\ callee' \in [Level -> Threads \cup {End}]
    BY <1>1 DEF CallsInv
  <2> QED BY <1>9, <2>1, <2>2, <2>3, <2>4 DEF CallsInv
<1>12. FrameInv'
  <2>1. ASSUME NEW u \in Threads PROVE
          /\ state'[u] \in {"BLOCKED", "SYS_PENDING", "SLEEPING"} => framed'[u]
          /\ (state'[u] = "RUNNING" /\ ~framed'[u]) =>
                \/ harm' \cap {"abandoned", "interrupted", "native"} # {}
                \/ \E l \in Level : valid'[l] /\ callee'[l] = u
    <3>1. CASE u \in V
      BY <1>2, <3>1
    <3>2. CASE u \notin V
      <4>1. state'[u] = state[u] /\ framed'[u] = framed[u]
        BY <1>1, <1>2, <1>3, <3>2 DEF FrameInv
      <4>2. \A l \in Level : (valid[l] /\ callee[l] = u) => valid'[l] /\ callee'[l] = u
        BY <1>8, <3>2
      <4> QED BY <1>1, <1>6, <4>1, <4>2 DEF FrameInv
    <3> QED BY <3>1, <3>2
  <2>2. framed' \in [Threads -> BOOLEAN]
    BY <1>3
  <2> QED BY <2>1, <2>2 DEF FrameInv
<1> QED BY <1>6, <1>10, <1>11, <1>12 DEF UseInv


\* Execute runs a thread with a frame, which is therefore the thread of no call.
LEMMA UseRunNext ==
  ASSUME ListInv, UseInv, stack = << >>, nextThread # End, framed[nextThread],
         stack' = <<Entry(nextThread, "pass", "script")>>, pass' = pass,
         UNCHANGED <<state, framed, calls, harm>>
  PROVE  UseInv'
<1>1. StackInv /\ CallsInv /\ FrameInv /\ Depth = 0 /\ MaxDepth \in Nat
  BY LevelFacts DEF UseInv
<1>2. PICK t \in Threads : t = nextThread /\ state[t] = "RUNNING" /\ framed[t]
  BY DEF ListInv, With
<1>3. PICK e : e = Entry(t, "pass", "script")
  OBVIOUS
<1>4. e \in Entries /\ e.thread = t /\ e.why = "pass" /\ e.in = "script" /\ e.alive
  BY <1>3 DEF Entry, Entries
<1>5. stack' \in Seq(Entries) /\ Depth' = 1 /\ stack'[1] = e
  <2>1. stack' = <<e>>
    BY <1>2, <1>3
  <2>2. <<e>> \in Seq(Entries) /\ Len(<<e>>) = 1 /\ <<e>>[1] = e
    BY <1>4
  <2> QED BY <2>1, <2>2 DEF Depth
<1>6. UNCHANGED <<phase, callee, valid, state, framed, harm>>
  BY DEF calls
<1>7. \A l \in Level : l \in Nat /\ (valid[l] => ~framed[callee[l]] /\ callee[l] # t)
  <2> SUFFICES ASSUME NEW l \in Level PROVE l \in Nat /\ (valid[l] => ~framed[callee[l]] /\ callee[l] # t)
    OBVIOUS
  <2>1. l \in Nat /\ CallInv(l)
    BY <1>1 DEF Level, CallsInv
  <2>2. valid[l] => ~framed[callee[l]]
    BY <1>1, <2>1 DEF CallInv
  <2> QED BY <1>2, <2>1, <2>2
<1>8. StackInv'
  <2>1. EntryInv(1)'
    BY <1>2, <1>4, <1>5, <1>6 DEF EntryInv
  <2>2. Depth' \in Level
    BY <1>5, GMAssumption DEF Level
  <2>3. \A i \in 1..Depth' : i = 1
    BY <1>5
  <2> QED BY <1>5, <2>1, <2>2, <2>3 DEF StackInv
<1>9. CallsInv'
  <2>1. ASSUME NEW l \in Level PROVE CallInv(l)'
    <3>1. l \in Nat /\ CallInv(l) /\ (valid[l] => ~framed[callee[l]] /\ callee[l] # t)
      BY <1>1, <1>7 DEF CallsInv
    <3>2. phase[l] # "none" => l = 0
      BY <1>1, <3>1 DEF CallInv
    <3>3. \A i \in 1..Depth' : stack'[i].thread = t
      BY <1>4, <1>5
    <3>4. l = 0 => l + 1 = 1 /\ l <= Depth' /\ ~(l > 0)
      BY <1>5
    <3>5. valid[l] => stack'[l + 1].why = "pass" /\ phase[l] = "open"
      BY <1>4, <1>5, <3>1, <3>2, <3>4 DEF CallInv
    <3>6. /\ valid[l] => phase[l] = "open" /\ callee[l] \in Threads /\ state[callee[l]] = "RUNNING"
          /\ (phase[l] = "open" /\ ~valid[l]) => "killed" \in harm
      BY <3>1 DEF CallInv
    <3> QED BY <1>6, <3>1, <3>2, <3>3, <3>4, <3>5, <3>6 DEF CallInv
  <2> QED BY <1>1, <1>6, <2>1 DEF CallsInv
<1>10. FrameInv'
  BY <1>1, <1>6 DEF FrameInv
<1> QED BY <1>8, <1>9, <1>10 DEF UseInv

\* The innermost thread calls a C++ function or goes on after one.
LEMMA UseSwitched ==
  ASSUME UseInv, stack # << >>, stack[Depth].alive, framed[Self], phase[Depth] = "none",
         NEW in \in {"script", "cpp"}, stack' = [stack EXCEPT ![Depth].in = in],
         UNCHANGED <<state, framed, calls, harm, pass>>
  PROVE  UseInv'
<1>1. StackInv /\ CallsInv /\ FrameInv
  BY DEF UseInv
<1>2. PICK d \in 1..MaxDepth : d = Depth /\ d = Len(stack) /\ MaxDepth \in Nat /\ Self = stack[d].thread
  BY <1>1, InnermostFacts, LevelFacts
<1>3. UNCHANGED <<phase, callee, valid, state, framed, harm, pass>>
  BY DEF calls
<1>4. /\ stack' \in Seq(Entries) /\ Depth' = d
      /\ \A i \in 1..d : /\ stack'[i].thread = stack[i].thread /\ stack'[i].why = stack[i].why
                         /\ stack'[i].alive = stack[i].alive
                         /\ stack'[i].in = IF i = d THEN in ELSE stack[i].in
  <2>1. stack \in Seq(Entries) /\ d \in Nat
    BY <1>1, <1>2 DEF StackInv
  <2>2. stack \in [1..d -> Entries] /\ stack' = [stack EXCEPT ![d] = [stack[d] EXCEPT !.in = in]]
    BY <1>2, <2>1, SeqIsFunction
  <2>3. PICK e : e = [stack[d] EXCEPT !.in = in]
    OBVIOUS
  <2>4. stack[d] \in Entries
    BY <1>2, <2>2
  <2>5. /\ e \in Entries /\ e.thread = stack[d].thread /\ e.why = stack[d].why
        /\ e.in = in /\ e.alive = stack[d].alive
    BY <2>3, <2>4 DEF Entries
  <2>6. stack' = [stack EXCEPT ![d] = e]
    BY <2>2, <2>3
  <2>7. stack' \in [1..d -> Entries] /\ \A i \in 1..d : stack'[i] = IF i = d THEN e ELSE stack[i]
    BY <2>2, <2>5, <2>6
  <2>8. stack' \in Seq(Entries) /\ Len(stack') = d
    BY <2>1, <2>7, FunctionIsSeq
  <2>9. ASSUME NEW i \in 1..d
        PROVE  /\ stack'[i].thread = stack[i].thread /\ stack'[i].why = stack[i].why
               /\ stack'[i].alive = stack[i].alive
               /\ stack'[i].in = IF i = d THEN in ELSE stack[i].in
    <3>1. CASE i = d
      <4>1. stack'[i] = e
        BY <2>7, <3>1, Zenon
      <4> QED BY <2>5, <3>1, <4>1, Zenon
    <3>2. CASE i # d
      <4>1. stack'[i] = stack[i]
        BY <2>7, <3>2, Zenon
      <4>2. /\ stack'[i].thread = stack[i].thread /\ stack'[i].why = stack[i].why
            /\ stack'[i].alive = stack[i].alive /\ stack'[i].in = stack[i].in
        BY <4>1, Zenon
      <4> QED BY <3>2, <4>2
    <3> QED BY <3>1, <3>2
  <2> QED BY <2>8, <2>9 DEF Depth
<1>5. StackInv'
  <2>1. ASSUME NEW i \in 1..d PROVE EntryInv(i)'
    <3>1. EntryInv(i) /\ i \in Nat
      BY <1>1, <1>2 DEF StackInv
    <3>2. CASE i = d
      <4>1. stack'[i].in = in /\ stack'[i].thread = Self /\ stack'[i].alive /\ framed[Self]
        BY <1>2, <1>4, <3>2
      <4>2. state[Self] = "RUNNING"
        BY <1>2, <3>1, <3>2 DEF EntryInv
      <4> QED BY <1>2, <1>3, <1>4, <3>2, <4>1, <4>2 DEF EntryInv
    <3>3. CASE i # d
      <4>1. i < Depth
        BY <1>2, <3>1, <3>3
      <4>2. stack'[i].in = "cpp"
        BY <1>4, <3>1, <3>3, <4>1 DEF EntryInv
      <4> QED BY <1>3, <1>4, <3>1, <4>2 DEF EntryInv
    <3> QED BY <3>2, <3>3
  <2>2. ASSUME NEW i \in 1..d, NEW j \in 1..d, stack'[i].alive, stack'[j].alive,
               stack'[i].thread = stack'[j].thread
        PROVE  i = j
    <3>1. stack[i].alive /\ stack[j].alive /\ stack[i].thread = stack[j].thread
      BY <1>4, <2>2, Zenon
    <3> QED BY <1>1, <1>2, <3>1 DEF StackInv
  <2>3. Depth' \in Level
    BY <1>2, <1>4 DEF Level
  <2> QED BY <1>4, <2>1, <2>2, <2>3 DEF StackInv
<1>6. CallsInv'
  <2>1. ASSUME NEW l \in Level PROVE CallInv(l)'
    <3>1. CallInv(l) /\ l \in Nat
      BY <1>1, <1>2 DEF CallsInv, Level
    <3>2. phase[l] # "none" => l <= d /\ (l > 0 => stack'[l].in = "cpp")
      <4> SUFFICES ASSUME phase[l] # "none" PROVE l <= d /\ (l > 0 => stack'[l].in = "cpp")
        OBVIOUS
      <4>1. l <= d /\ (l > 0 => stack[l].in = "cpp") /\ l # d
        BY <1>2, <3>1 DEF CallInv
      <4>2. l > 0 => l \in 1..d
        BY <3>1, <4>1
      <4> QED BY <1>4, <4>1, <4>2
    <3>3. l < d => l + 1 \in 1..d
      BY <3>1
    <3>4. l < d => stack'[l + 1].why = stack[l + 1].why /\ stack'[l + 1].thread = stack[l + 1].thread
      BY <1>4, <3>3, Zenon
    <3>5. \A i \in 1..d : (valid[l] /\ stack'[i].alive /\ stack'[i].thread = callee[l])
                             => i = l + 1 /\ stack'[i].why = "call"
      BY <1>2, <1>4, <3>1 DEF CallInv
    <3>6. /\ valid[l] => phase[l] = "open" /\ callee[l] \in Threads /\ state[callee[l]] = "RUNNING"
          /\ (phase[l] = "open" /\ ~valid[l]) => "killed" \in harm
          /\ (valid[l] /\ framed[callee[l]]) => l < d /\ stack[l + 1].why = "call"
          /\ (valid[l] /\ l < d /\ stack[l + 1].why = "call") => stack[l + 1].thread = callee[l]
      BY <1>2, <3>1 DEF CallInv
    <3> QED BY <1>3, <1>4, <3>2, <3>4, <3>5, <3>6 DEF CallInv
  <2> QED BY <1>1, <1>3, <2>1 DEF CallsInv
<1>7. FrameInv'
  BY <1>1, <1>3 DEF FrameInv
<1> QED BY <1>5, <1>6, <1>7 DEF UseInv

-----------------------------------------------------------------------------
(* Every step keeps the invariant *)

\* The invariant, with its parts on stack, calls and frames taken together.
LEMMA GMInvParts == GMInv <=> ListInv /\ BlockInv /\ SleepInv /\ UseInv /\ HarmInv
  BY DEF GMInv, UseInv

\* A step without a fault adds to the misuse at most.
LEMMA HarmKept ==
  ASSUME HarmInv, harm \subseteq harm', harm' \in SUBSET (harm \cup Harms), work' \in Nat, fault' = fault
  PROVE  HarmInv'
  BY DEF HarmInv, FaultsExplained

\* What CreateThread does to the lists, whoever calls it.
LEMMA CreateKeeps ==
  ASSUME GMInv, NEW t \in Threads, NEW f \in BOOLEAN, Create(t, f)
  PROVE  ListInv' /\ BlockInv' /\ SleepInv' /\ work' \in Nat
<1>1. ListInv /\ BlockInv /\ SleepInv /\ HarmInv
  BY DEF GMInv
<1>2. ListInv' /\ BlockInv'
  BY <1>1, CreateLists, BlocksCreated
<1>3. UNCHANGED <<sleeping, stamp, wait, time>> /\ state' = [state EXCEPT ![t] = "RUNNING"] /\ work' = work + 1
  BY DEF Create
<1>4. \A u \in Threads : state'[u] = "SLEEPING" => state[u] = "SLEEPING"
  BY <1>1, <1>3 DEF ListInv
<1>5. SleepInv'
  BY <1>1, <1>3, <1>4, SleepKept
<1>6. work' \in Nat
  BY <1>1, <1>3 DEF HarmInv
<1> QED BY <1>2, <1>5, <1>6

\* What killing threads does to the lists, whoever calls it.
LEMMA KillKeeps ==
  ASSUME GMInv, NEW v, NEW V, Lists(v, V), \A t \in V : state[t] \notin {"free", "KILLED"}, Kill(v)
  PROVE  /\ ListInv' /\ BlockInv' /\ SleepInv' /\ work' \in Nat /\ pass' = pass
         /\ \A t \in V : state'[t] \in {"free", "KILLED"}
         /\ \A t \in Threads \ V : state'[t] = state[t] /\ framed'[t] = framed[t]
         /\ framed' \in [Threads -> BOOLEAN] /\ state' \in [Threads -> State]
<1>1. ListInv /\ BlockInv /\ SleepInv /\ HarmInv /\ FrameInv
  BY DEF GMInv
<1>2. /\ ListInv' /\ Range(v) = V
      /\ \A t \in Threads : state'[t] = IF t \in V THEN state'[t] ELSE state[t]
      /\ \A t \in V : state'[t] \in {"free", "KILLED"}
  BY <1>1, KillLists
<1>3. BlockInv' /\ SleepInv'
  BY <1>1, BlocksKilled, SleepKilled
<1>4. framed' = [t \in Threads |-> framed[t] /\ t \notin V] /\ pass' = pass /\ work' = work
  BY <1>2 DEF Kill
<1>5. \A t \in Threads \ V : state'[t] = state[t] /\ framed'[t] = framed[t]
  BY <1>1, <1>2, <1>4 DEF FrameInv
<1>6. framed' \in [Threads -> BOOLEAN] /\ state' \in [Threads -> State] /\ work' \in Nat
  BY <1>1, <1>2, <1>4 DEF ListInv, HarmInv
<1> QED BY <1>2, <1>3, <1>4, <1>5, <1>6

\* A fault that has its cause.
LEMMA FailKeeps ==
  ASSUME GMInv, NEW f \in {"noframe", "stale"}, Fail(f),
         f = "noframe" => harm \cap {"abandoned", "interrupted", "native"} # {},
         f = "stale" => "killed" \in harm
  PROVE  GMInv'
<1>1. ListInv /\ BlockInv /\ SleepInv /\ UseInv /\ HarmInv
  BY GMInvParts
<1>2. /\ UNCHANGED <<state, running, blocked, sleeping, killed, pass, nextThread, owed>>
      /\ UNCHANGED <<state, blocks, signals>> /\ UNCHANGED <<sleeping, stamp, wait, time>>
      /\ UNCHANGED <<stack, calls, framed, phase>> /\ harm' = harm /\ work' = work /\ fault' = f
  BY DEF Fail, lists, content, turn, calls
<1>3. ListInv' /\ BlockInv' /\ SleepInv'
  BY <1>1, <1>2, ListsKept, BlocksKept, SleepKept
<1>4. UseInv'
  <2>1. UNCHANGED <<stack, calls, state, framed>> /\ harm \subseteq harm' /\ (pass' => pass)
    BY <1>2
  <2> QED BY <1>1, <2>1, UseUntouched
<1>5. HarmInv'
  BY <1>1, <1>2 DEF HarmInv, FaultsExplained
<1> QED BY <1>3, <1>4, <1>5 DEF GMInv, UseInv

-----------------------------------------------------------------------------
(* The program *)

\* ExecuteString keeps the invariant.
LEMMA ExecuteStringKeeps ==
  ASSUME GMInv, ExecuteString
  PROVE  GMInv'
<1>1. ListInv /\ BlockInv /\ SleepInv /\ UseInv /\ HarmInv
  BY GMInvParts
<1>2. PICK t \in Threads : Create(t, TRUE)
  BY DEF ExecuteString
<1>3. ListInv' /\ BlockInv' /\ SleepInv' /\ work' \in Nat
  BY <1>2, CreateKeeps
<1>4. UseInv'
  BY <1>1, UseExecuteString
<1>5. harm' = harm /\ fault' = fault
  BY DEF ExecuteString
<1>6. HarmInv'
  BY <1>1, <1>3, <1>5, HarmKept
<1> QED BY <1>3, <1>4, <1>6 DEF GMInv, UseInv

\* BeginCall keeps the invariant.
LEMMA BeginCallKeeps ==
  ASSUME GMInv, BeginCall
  PROVE  GMInv'
<1>1. ListInv /\ BlockInv /\ SleepInv /\ UseInv /\ HarmInv
  BY GMInvParts
<1>2. PICK t \in Threads : Create(t, FALSE)
  BY DEF BeginCall
<1>3. ListInv' /\ BlockInv' /\ SleepInv' /\ work' \in Nat
  BY <1>2, CreateKeeps
<1>4. UseInv'
  BY <1>1, UseBeginCall
<1>5. harm' = harm /\ fault' = fault
  BY DEF BeginCall
<1>6. HarmInv'
  BY <1>1, <1>3, <1>5, HarmKept
<1> QED BY <1>3, <1>4, <1>6 DEF GMInv, UseInv

\* UseStaleCall keeps the invariant.
LEMMA UseStaleCallKeeps ==
  ASSUME GMInv, UseStaleCall
  PROVE  GMInv'
<1>1. StackInv /\ CallsInv /\ InCPP /\ phase[Depth] = "open" /\ ~valid[Depth] /\ Fail("stale")
  BY DEF GMInv, UseStaleCall
<1>2. Depth \in Level
  BY <1>1, InCPPFacts
<1>3. "killed" \in harm
  BY <1>1, <1>2 DEF CallsInv, CallInv
<1> QED BY <1>1, <1>3, FailKeeps

\* EndCall keeps the invariant.
LEMMA EndCallKeeps ==
  ASSUME GMInv, NEW native \in BOOLEAN, EndCall(native)
  PROVE  GMInv'
<1>1. ListInv /\ BlockInv /\ SleepInv /\ UseInv /\ HarmInv
  BY GMInvParts
<1>2. /\ UNCHANGED <<state, running, blocked, sleeping, killed, pass, nextThread, owed>>
      /\ UNCHANGED <<state, blocks, signals>> /\ UNCHANGED <<sleeping, stamp, wait, time>>
      /\ harm' = harm /\ work' = work /\ fault' = fault
  BY DEF EndCall, lists, turn
<1>3. ListInv' /\ BlockInv' /\ SleepInv'
  BY <1>1, <1>2, ListsKept, BlocksKept, SleepKept
<1>4. UseInv'
  BY <1>1, UseEndCall
<1>5. HarmInv'
  BY <1>1, <1>2, HarmKept DEF HarmInv
<1> QED BY <1>3, <1>4, <1>5 DEF GMInv, UseInv

\* EndCallUnframed keeps the invariant.
LEMMA EndCallUnframedKeeps ==
  ASSUME GMInv, EndCallUnframed
  PROVE  GMInv'
<1>1. ListInv /\ BlockInv /\ SleepInv /\ UseInv /\ HarmInv
  BY GMInvParts
<1>2. /\ UNCHANGED <<state, running, blocked, sleeping, killed, pass, nextThread, owed>>
      /\ UNCHANGED <<state, blocks, signals>> /\ UNCHANGED <<sleeping, stamp, wait, time>>
      /\ UNCHANGED <<stack, calls, framed, phase>> /\ harm' = harm \cup {"native"} /\ work' = work
      /\ fault' = "noframe"
  BY DEF EndCallUnframed, Harm, lists, content, turn, calls
<1>3. ListInv' /\ BlockInv' /\ SleepInv'
  BY <1>1, <1>2, ListsKept, BlocksKept, SleepKept
<1>4. UseInv'
  <2>1. UNCHANGED <<stack, calls, state, framed>> /\ harm \subseteq harm' /\ (pass' => pass)
    BY <1>2
  <2> QED BY <1>1, <2>1, UseUntouched
<1>5. HarmInv'
  BY <1>1, <1>2 DEF HarmInv, FaultsExplained, Harms
<1> QED BY <1>3, <1>4, <1>5 DEF GMInv, UseInv

\* ReleaseAfterCall keeps the invariant.
LEMMA ReleaseAfterCallKeeps ==
  ASSUME GMInv, ReleaseAfterCall
  PROVE  GMInv'
<1>1. ListInv /\ BlockInv /\ SleepInv /\ UseInv /\ HarmInv
  BY GMInvParts
<1>2. /\ UNCHANGED <<state, running, blocked, sleeping, killed, pass, nextThread, owed>>
      /\ UNCHANGED <<state, blocks, signals>> /\ UNCHANGED <<sleeping, stamp, wait, time>>
      /\ harm \subseteq harm' /\ work' = work /\ fault' = fault
  BY DEF ReleaseAfterCall, Harm, lists, content, turn
<1>3. ListInv' /\ BlockInv' /\ SleepInv'
  BY <1>1, <1>2, ListsKept, BlocksKept, SleepKept
<1>4. UseInv' /\ harm' \in SUBSET (harm \cup Harms)
  BY <1>1, UseReleaseAfterCall
<1>5. HarmInv'
  BY <1>1, <1>2, <1>4, HarmKept DEF HarmInv
<1> QED BY <1>3, <1>4, <1>5 DEF GMInv, UseInv


-----------------------------------------------------------------------------
(* gmMachine::Execute *)

\* Execute keeps the invariant.
LEMMA ExecuteKeeps ==
  ASSUME GMInv, NEW d \in Deltas, Execute(d)
  PROVE  GMInv'
<1>1. ListInv /\ BlockInv /\ SleepInv /\ UseInv /\ HarmInv
  BY GMInvParts
<1>2. ListInv' /\ BlockInv' /\ SleepInv'
  BY <1>1, ExecuteLists, BlocksExecuted, SleepExecuted
<1>3. PICK W : W = Woken(time') /\ W = Range(DueThreads(time') \o PendingThreads)
  BY <1>1, ExecuteLists
<1>4. /\ state' = [t \in Threads |-> IF t \in W THEN "RUNNING" ELSE state[t]]
      /\ UNCHANGED <<stack, calls>> /\ framed' = framed /\ work' = 0 /\ fault' = fault
      /\ harm' = harm \cup (IF phase[0] = "open" THEN {"interrupted"} ELSE {})
  BY <1>3 DEF Execute, Harm
<1>5. W \in SUBSET Threads /\ \A t \in W : state[t] \in {"SLEEPING", "SYS_PENDING"}
  BY <1>3 DEF Woken, With
<1>6. /\ state' \in [Threads -> State] /\ framed' \in [Threads -> BOOLEAN]
      /\ harm \subseteq harm' /\ (phase[0] = "open" => "interrupted" \in harm')
      /\ harm' \in SUBSET (harm \cup Harms)
  BY <1>1, <1>2, <1>4 DEF ListInv, UseInv, FrameInv, Harms
<1>7. /\ \A t \in W : state[t] # "RUNNING" /\ framed'[t]
      /\ \A t \in Threads \ W : state'[t] = state[t] /\ framed'[t] = framed[t]
  BY <1>1, <1>4, <1>5 DEF UseInv, FrameInv
<1>8. UseInv'
  BY <1>1, <1>4, <1>5, <1>6, <1>7, UseKept
<1>9. HarmInv'
  BY <1>1, <1>4, <1>6, HarmKept
<1> QED BY <1>2, <1>8, <1>9 DEF GMInv, UseInv

\* A thread without a frame: its call has not ended, or the program is to blame.
LEMMA NoFrameExplained ==
  ASSUME GMInv, stack = << >>, pass, nextThread # End, ~framed[nextThread]
  PROVE  harm \cap {"abandoned", "interrupted", "native"} # {}
<1>1. StackInv /\ CallsInv /\ FrameInv /\ Depth = 0
  BY LevelFacts DEF GMInv
<1>2. nextThread \in Threads /\ state[nextThread] = "RUNNING"
  BY DEF GMInv, ListInv, With
<1>3. CASE \E l \in Level : valid[l] /\ callee[l] = nextThread
  <2>1. PICK l \in Level : valid[l] /\ callee[l] = nextThread
    BY <1>3
  <2>2. phase[l] = "open" /\ l <= 0
    BY <1>1, <2>1 DEF CallsInv, CallInv
  <2>3. l = 0
    BY <2>2 DEF Level
  <2>4. "interrupted" \in harm
    BY <1>1, <2>2, <2>3 DEF CallsInv
  <2> QED BY <2>4
<1> QED BY <1>1, <1>2, <1>3 DEF FrameInv

\* RunNext keeps the invariant.
LEMMA RunNextKeeps ==
  ASSUME GMInv, RunNext
  PROVE  GMInv'
<1>1. ListInv /\ BlockInv /\ SleepInv /\ UseInv /\ HarmInv
  BY GMInvParts
<1>2. stack = << >> /\ pass /\ nextThread # End
  BY DEF RunNext
<1>3. CASE ~framed[nextThread] /\ Fail("noframe")
  <2>1. harm \cap {"abandoned", "interrupted", "native"} # {}
    BY <1>2, <1>3, NoFrameExplained
  <2> QED BY <1>3, <2>1, FailKeeps
<1>4. CASE /\ framed[nextThread]
           /\ stack' = <<Entry(nextThread, "pass", "script")>>
           /\ nextThread' = First(Tail(Rest))
           /\ owed' = owed \ {nextThread}
           /\ UNCHANGED <<lists, content, time, pass, work, calls, harm, fault>>
  <2>1. /\ UNCHANGED <<lists, pass>> /\ UNCHANGED <<state, blocks, signals>>
        /\ UNCHANGED <<sleeping, stamp, wait, time>> /\ UNCHANGED <<state, framed, calls, harm>>
        /\ harm' = harm /\ work' = work /\ fault' = fault /\ pass' = pass
    BY <1>4 DEF lists, content
  <2>2. ListInv'
    BY <1>1, <1>2, <1>4, <2>1, RunNextLists
  <2>3. BlockInv' /\ SleepInv'
    BY <1>1, <2>1, BlocksKept, SleepKept
  <2>4. UseInv'
    BY <1>1, <1>2, <1>4, <2>1, UseRunNext
  <2>5. HarmInv'
    BY <1>1, <2>1, HarmKept DEF HarmInv
  <2> QED BY <2>2, <2>3, <2>4, <2>5 DEF GMInv, UseInv
<1> QED BY <1>3, <1>4 DEF RunNext

\* EndPass keeps the invariant.
LEMMA EndPassKeeps ==
  ASSUME GMInv, EndPass
  PROVE  GMInv'
<1>1. ListInv /\ BlockInv /\ SleepInv /\ UseInv /\ HarmInv
  BY GMInvParts
<1>2. /\ nextThread = End /\ pass' = FALSE /\ UNCHANGED <<lists, nextThread, owed>>
      /\ UNCHANGED <<state, blocks, signals>> /\ UNCHANGED <<sleeping, stamp, wait, time>>
      /\ UNCHANGED <<stack, calls, framed>> /\ harm' = harm /\ work' = work /\ fault' = fault
  BY DEF EndPass, lists, content
<1>3. ListInv' /\ BlockInv' /\ SleepInv'
  BY <1>1, <1>2, EndPassLists, BlocksKept, SleepKept
<1>4. UseInv'
  <2>1. UNCHANGED <<stack, calls, state, framed>> /\ harm \subseteq harm' /\ (pass' => pass)
    BY <1>2
  <2> QED BY <1>1, <2>1, UseUntouched
<1>5. HarmInv'
  BY <1>1, <1>2, HarmKept DEF HarmInv
<1> QED BY <1>3, <1>4, <1>5 DEF GMInv, UseInv

-----------------------------------------------------------------------------
(* Scripts *)

\* Spawn keeps the invariant.
LEMMA SpawnKeeps ==
  ASSUME GMInv, NEW native \in BOOLEAN, Spawn(native)
  PROVE  GMInv'
<1>1. ListInv /\ BlockInv /\ SleepInv /\ UseInv /\ HarmInv
  BY GMInvParts
<1>2. PICK t \in Threads : Create(t, ~native)
  BY DEF Spawn
<1>3. ListInv' /\ BlockInv' /\ SleepInv' /\ work' \in Nat
  BY <1>2, CreateKeeps
<1>4. /\ state[t] # "RUNNING" /\ state'[t] = "RUNNING" /\ framed'[t] = ~native /\ pass' = pass
      /\ state' \in [Threads -> State] /\ framed' \in [Threads -> BOOLEAN]
      /\ \A u \in Threads \ {t} : state'[u] = state[u] /\ framed'[u] = framed[u]
  BY <1>1, <1>2, CreateFacts
<1>5. /\ UNCHANGED <<stack, calls>> /\ fault' = fault
      /\ harm' = harm \cup (IF native THEN {"native"} ELSE {})
  BY DEF Spawn, Harm
<1>6. harm \subseteq harm' /\ harm' \in SUBSET (harm \cup Harms) /\ (native => "native" \in harm')
  BY <1>5 DEF Harms
<1>7. \/ framed'[t] \/ state'[t] \in {"free", "KILLED"}
      \/ state'[t] = "RUNNING" /\ harm' \cap {"abandoned", "interrupted", "native"} # {}
  BY <1>4, <1>6
<1>8. UseInv'
  <2>1. /\ {t} \in SUBSET Threads /\ \A u \in {t} : state[u] # "RUNNING"
        /\ \A u \in {t} : \/ framed'[u] \/ state'[u] \in {"free", "KILLED"}
                          \/ state'[u] = "RUNNING" /\ harm' \cap {"abandoned", "interrupted", "native"} # {}
    BY <1>4, <1>7
  <2> QED BY <1>1, <1>4, <1>5, <1>6, <2>1, UseKept
<1>9. HarmInv'
  BY <1>1, <1>3, <1>5, <1>6, HarmKept
<1> QED BY <1>3, <1>8, <1>9 DEF GMInv, UseInv

\* Signal keeps the invariant.
LEMMA SignalKeeps ==
  ASSUME GMInv, NEW s \in Signals, NEW dst \in Threads \cup {End}, Signal(s, dst)
  PROVE  GMInv'
<1>1. ListInv /\ BlockInv /\ SleepInv /\ UseInv /\ HarmInv
  BY GMInvParts
<1>2. ListInv' /\ BlockInv'
  BY <1>1, SignalAgrees
<1>3. /\ UNCHANGED <<sleeping, stamp, wait, time>> /\ UNCHANGED <<stack, calls>>
      /\ framed' = framed /\ harm' = harm /\ work' = work /\ fault' = fault /\ pass' = pass
      /\ UNCHANGED <<running, blocked, killed>>
  BY DEF Signal, turn
<1>4. /\ state \in [Threads -> State] /\ state' \in [Threads -> State]
      /\ framed' \in [Threads -> BOOLEAN]
      /\ With({"RUNNING"})' = With({"RUNNING"}) /\ With({"SLEEPING"})' = With({"SLEEPING"})
      /\ With({"KILLED"})' = With({"KILLED"})
      /\ With({"BLOCKED", "SYS_PENDING"})' = With({"BLOCKED", "SYS_PENDING"})
  BY <1>1, <1>2, <1>3 DEF ListInv, Lists, UseInv, FrameInv
<1>5. \A t \in Threads : state'[t] = state[t] \/ (/\ state[t] \in {"BLOCKED", "SYS_PENDING"}
                                                  /\ state'[t] \in {"BLOCKED", "SYS_PENDING"})
  BY <1>4 DEF With, State
<1>6. SleepInv'
  BY <1>1, <1>3, <1>5, SleepKept
<1>7. UseInv'
  <2> DEFINE N == {t \in Threads : state[t] \in {"BLOCKED", "SYS_PENDING"}}
  <2>1. N \in SUBSET Threads /\ \A t \in N : state[t] # "RUNNING" /\ framed'[t]
    BY <1>1, <1>3 DEF UseInv, FrameInv
  <2>2. \A t \in Threads \ N : state'[t] = state[t] /\ framed'[t] = framed[t]
    BY <1>3, <1>5
  <2> HIDE DEF N
  <2> QED BY <1>1, <1>3, <1>4, <2>1, <2>2, UseKept
<1>8. HarmInv'
  BY <1>1, <1>3, HarmKept DEF HarmInv
<1> QED BY <1>2, <1>6, <1>7, <1>8 DEF GMInv, UseInv


\* Threads other than the innermost one are killed.
LEMMA OthersKilledKeeps ==
  ASSUME GMInv, InScript, NEW v, NEW V, Lists(v, V),
         \A t \in V : state[t] \notin {"free", "KILLED"}, Self \notin V, Kill(v),
         stack' = Stale(stack, V), valid' = Invalid(V),
         Harm(IF InUse(V) THEN {"killed"} ELSE {}), UNCHANGED <<phase, callee>>, fault' = fault
  PROVE  GMInv'
<1>1. ListInv /\ BlockInv /\ SleepInv /\ UseInv /\ HarmInv
  BY GMInvParts
<1>2. ListInv' /\ BlockInv' /\ SleepInv' /\ work' \in Nat
  BY KillKeeps
<1>3. UseInv' /\ harm' \in SUBSET (harm \cup Harms)
  BY <1>1, UseKilled
<1>4. harm \subseteq harm'
  BY DEF Harm
<1>5. HarmInv'
  BY <1>1, <1>2, <1>3, <1>4, HarmKept
<1> QED BY <1>2, <1>3, <1>5 DEF GMInv, UseInv

\* ThreadKill keeps the invariant.
LEMMA ThreadKillKeeps ==
  ASSUME GMInv, NEW t \in Threads, ThreadKill(t)
  PROVE  GMInv'
<1>1. PICK v, V : v = <<t>> /\ V = {t}
  OBVIOUS
<1>2. /\ InScript /\ Kill(v) /\ stack' = Stale(stack, V) /\ valid' = Invalid(V)
      /\ Harm(IF InUse(V) THEN {"killed"} ELSE {}) /\ UNCHANGED <<phase, callee>> /\ fault' = fault
  BY <1>1 DEF ThreadKill
<1>3. Lists(v, V)
  BY <1>1, ListsOne
<1>4. Self \notin V /\ \A u \in V : state[u] \notin {"free", "KILLED"}
  BY <1>1 DEF ThreadKill
<1> QED BY <1>2, <1>3, <1>4, OthersKilledKeeps

\* ThreadKillAll keeps the invariant.
LEMMA ThreadKillAllKeeps ==
  ASSUME GMInv, ThreadKillAll
  PROVE  GMInv'
<1>1. /\ Lists(running, With({"RUNNING"})) /\ Lists(blocked, With({"BLOCKED", "SYS_PENDING"}))
      /\ Lists(sleeping, With({"SLEEPING"}))
  BY DEF GMInv, ListInv
<1>2. PICK K : K = {t \in Threads : state[t] = "SYS_PENDING"}
  OBVIOUS
<1>3. PICK a, A : a = Without(running, {Self}) /\ A = With({"RUNNING"}) \ {Self}
  OBVIOUS
<1>4. PICK b, B : b = Without(blocked, K) /\ B = With({"BLOCKED", "SYS_PENDING"}) \ K
  OBVIOUS
<1>5. PICK S : S = With({"SLEEPING"})
  OBVIOUS
<1>6. Lists(a, A) /\ Lists(b, B) /\ Lists(sleeping, S)
  BY <1>1, <1>3, <1>4, <1>5, ListsWithout
<1>7. /\ A \cap B = {} /\ (A \cup B) \cap S = {} /\ Self \notin A
      /\ \A t \in A : state[t] = "RUNNING"
      /\ \A t \in B : state[t] = "BLOCKED"
      /\ \A t \in S : state[t] = "SLEEPING"
  BY <1>2, <1>3, <1>4, <1>5 DEF With
<1>8. PICK v, V : v = (a \o b) \o sleeping /\ V = (A \cup B) \cup S
  OBVIOUS
<1>9. Lists(v, V)
  <2>1. Lists(a \o b, A \cup B)
    BY <1>6, <1>7, ListsConcat
  <2> QED BY <1>6, <1>7, <1>8, <2>1, ListsConcat
<1>10. Range(v) = V
  BY <1>9 DEF Lists
<1>11. v = Without(running, {Self})
                 \o Without(blocked, {t \in Threads : state[t] = "SYS_PENDING"}) \o sleeping
  BY <1>2, <1>3, <1>4, <1>8
<1>12. /\ InScript /\ Kill(v) /\ stack' = Stale(stack, V) /\ valid' = Invalid(V)
       /\ Harm(IF InUse(V) THEN {"killed"} ELSE {}) /\ UNCHANGED <<phase, callee>> /\ fault' = fault
  BY <1>10, <1>11 DEF ThreadKillAll
<1>13. Self \notin V /\ \A t \in V : state[t] \notin {"free", "KILLED"}
  <2>1. state[Self] = "RUNNING"
    BY <1>12, InScriptFacts DEF GMInv
  <2> QED BY <1>7, <1>8, <2>1
<1> QED BY <1>9, <1>12, <1>13, OthersKilledKeeps

\* CallCPP keeps the invariant.
LEMMA CallCPPKeeps ==
  ASSUME GMInv, CallCPP
  PROVE  GMInv'
<1>1. ListInv /\ BlockInv /\ SleepInv /\ UseInv /\ HarmInv
  BY GMInvParts
<1>2. /\ UNCHANGED <<state, running, blocked, sleeping, killed, pass, nextThread, owed>>
      /\ UNCHANGED <<state, blocks, signals>> /\ UNCHANGED <<sleeping, stamp, wait, time>>
      /\ UNCHANGED <<state, framed, calls, harm, pass>> /\ work' = work + 1 /\ fault' = fault
      /\ harm' = harm /\ InScript /\ stack' = [stack EXCEPT ![Depth].in = "cpp"]
  BY DEF CallCPP, lists, content
<1>3. ListInv' /\ BlockInv' /\ SleepInv'
  BY <1>1, <1>2, ListsKept, BlocksKept, SleepKept
<1>4. stack # << >> /\ stack[Depth].alive /\ framed[Self] /\ phase[Depth] = "none"
  BY <1>1, <1>2, InScriptFacts DEF UseInv
<1>5. UseInv'
  BY <1>1, <1>2, <1>4, UseSwitched
<1>6. HarmInv'
  BY <1>1, <1>2, HarmKept DEF HarmInv
<1> QED BY <1>3, <1>5, <1>6 DEF GMInv, UseInv

\* BlockSignalled keeps the invariant.
LEMMA BlockSignalledKeeps ==
  ASSUME GMInv, NEW ss \in SignalLists, BlockSignalled(ss)
  PROVE  GMInv'
<1>1. ListInv /\ BlockInv /\ SleepInv /\ UseInv /\ HarmInv
  BY GMInvParts
<1>2. /\ UNCHANGED <<state, running, blocked, sleeping, killed, pass, nextThread, owed>>
      /\ UNCHANGED <<state, blocks>> /\ UNCHANGED <<sleeping, stamp, wait, time>>
      /\ UNCHANGED <<stack, calls, framed, pass>> /\ work' = work /\ fault' = fault
      /\ harm' = harm /\ InScript /\ Kept(ss) # {}
  BY DEF BlockSignalled, lists, turn, calls
<1>3. ListInv' /\ SleepInv'
  BY <1>1, <1>2, ListsKept, SleepKept
<1>4. Self \in Threads /\ state[Self] = "RUNNING"
  BY <1>1, <1>2, InScriptFacts DEF UseInv
<1>5. PICK g : g = signals[Self] /\ g \in Seq(Signals) /\ Len(g) \in Nat
  BY <1>1, <1>4 DEF BlockInv
<1>6. PICK i : i = CHOOSE x \in Kept(ss) : \A y \in Kept(ss) : x <= y
  OBVIOUS
<1>7. i \in 1..Len(g)
  <2>1. Kept(ss) \in SUBSET Nat /\ \A j \in Kept(ss) : j \in 1..Len(g)
    BY <1>5 DEF Kept
  <2>2. \E x \in Kept(ss) : \A y \in Kept(ss) : x <= y
    BY <1>2, <2>1, LeastNumber
  <2>3. i \in Kept(ss)
    BY <1>6, <2>2
  <2> QED BY <2>1, <2>3
<1>8. signals' = [signals EXCEPT ![Self] = SubSeq(g, i + 1, Len(g))]
  BY <1>5, <1>6 DEF BlockSignalled
<1>9. SubSeq(g, i + 1, Len(g)) \in Seq(Signals)
  BY <1>5, <1>7
<1>10. /\ signals' \in [Threads -> Seq(Signals)]
       /\ \A u \in Threads \ {Self} : state'[u] = state[u] /\ signals'[u] = signals[u]
  BY <1>1, <1>2, <1>8, <1>9 DEF BlockInv
<1>11. BlockInv'
  <2>1. state'[Self] = "RUNNING" /\ state \in [Threads -> State]
    BY <1>1, <1>2, <1>4 DEF ListInv
  <2> QED BY <1>1, <1>2, <1>4, <1>10, <2>1, BlocksMoved
<1>12. UseInv'
  <2>1. UNCHANGED <<stack, calls, state, framed>> /\ harm \subseteq harm' /\ (pass' => pass)
    BY <1>2
  <2> QED BY <1>1, <2>1, UseUntouched
<1>13. HarmInv'
  BY <1>1, <1>2, HarmKept DEF HarmInv
<1> QED BY <1>3, <1>11, <1>12, <1>13 DEF GMInv, UseInv


-----------------------------------------------------------------------------
(* How a thread's turn ends *)

\* The innermost thread ends.
LEMMA KilledLeftKeeps ==
  ASSUME GMInv, stack # << >>, stack[Depth].alive, phase[Depth] = "none", Kill(<<Self>>), Left
  PROVE  GMInv'
<1>1. ListInv /\ BlockInv /\ SleepInv /\ UseInv /\ HarmInv
  BY GMInvParts
<1>2. PICK t \in Threads : t = Self /\ state[t] = "RUNNING"
  <2>1. Depth \in 1..MaxDepth /\ Self = stack[Depth].thread /\ Self \in Threads
    BY <1>1, InnermostFacts DEF UseInv
  <2>2. Depth \in 1..Depth
    BY <2>1
  <2> QED BY <1>1, <2>1, <2>2 DEF UseInv, StackInv, EntryInv
<1>3. PICK v, V : v = <<t>> /\ V = {t}
  OBVIOUS
<1>4. Lists(v, V) /\ Kill(v) /\ \A u \in V : state[u] \notin {"free", "KILLED"}
  BY <1>2, <1>3, ListsOne
<1>5. /\ ListInv' /\ BlockInv' /\ SleepInv' /\ work' \in Nat /\ pass' = pass
      /\ \A u \in V : state'[u] \in {"free", "KILLED"}
      /\ \A u \in Threads \ V : state'[u] = state[u] /\ framed'[u] = framed[u]
      /\ framed' \in [Threads -> BOOLEAN] /\ state' \in [Threads -> State]
  BY <1>4, KillKeeps
<1>6. /\ \A u \in Threads \ {Self} : state'[u] = state[u] /\ framed'[u] = framed[u]
      /\ state'[Self] \in {"free", "KILLED"}
  BY <1>2, <1>3, <1>5
<1>7. UseInv'
  BY <1>1, <1>5, <1>6, UseLeft
<1>8. HarmInv'
  BY <1>1, <1>5, HarmKept DEF Left
<1> QED BY <1>5, <1>7, <1>8 DEF GMInv, UseInv

\* Finish keeps the invariant.
LEMMA FinishKeeps ==
  ASSUME GMInv, Finish
  PROVE  GMInv'
<1>1. InScript /\ Kill(<<Self>>) /\ Left
  BY DEF Finish
<1>2. stack # << >> /\ stack[Depth].alive /\ phase[Depth] = "none"
  BY <1>1, InScriptFacts DEF GMInv
<1> QED BY <1>1, <1>2, KilledLeftKeeps

\* ReturnFromCPP keeps the invariant.
LEMMA ReturnFromCPPKeeps ==
  ASSUME GMInv, ReturnFromCPP
  PROVE  GMInv'
<1>1. ListInv /\ BlockInv /\ SleepInv /\ UseInv /\ HarmInv
  BY GMInvParts
<1>2. InCPP /\ stack # << >> /\ phase[Depth] = "none"
  BY DEF ReturnFromCPP
<1>3. Depth \in 1..MaxDepth /\ Last(stack) = stack[Depth] /\ Self = stack[Depth].thread
  BY <1>1, <1>2, InnermostFacts DEF UseInv
<1>4. CASE ~Last(stack).alive /\ Fail("stale")
  <2>1. ~stack[Depth].alive /\ Depth \in 1..Depth
    BY <1>3, <1>4
  <2>2. "killed" \in harm
    BY <1>1, <2>1 DEF UseInv, StackInv, EntryInv
  <2> QED BY <1>4, <2>2, FailKeeps
<1>5. CASE /\ Last(stack).alive /\ framed[Self]
           /\ stack' = [stack EXCEPT ![Depth].in = "script"]
           /\ UNCHANGED <<lists, content, time, turn, calls, harm, fault>>
  <2>1. /\ UNCHANGED <<state, running, blocked, sleeping, killed, pass, nextThread, owed>>
        /\ UNCHANGED <<state, blocks, signals>> /\ UNCHANGED <<sleeping, stamp, wait, time>>
        /\ UNCHANGED <<state, framed, calls, harm, pass>> /\ work' = work /\ fault' = fault
        /\ harm' = harm
    BY <1>5 DEF lists, content, turn
  <2>2. ListInv' /\ BlockInv' /\ SleepInv'
    BY <1>1, <2>1, ListsKept, BlocksKept, SleepKept
  <2>3. stack[Depth].alive /\ framed[Self] /\ stack' = [stack EXCEPT ![Depth].in = "script"]
    BY <1>3, <1>5
  <2>4. UseInv'
    BY <1>1, <1>2, <2>1, <2>3, UseSwitched
  <2>5. HarmInv'
    BY <1>1, <2>1, HarmKept DEF HarmInv
  <2> QED BY <2>2, <2>4, <2>5 DEF GMInv, UseInv
<1>6. CASE Last(stack).alive /\ ~framed[Self] /\ Kill(<<Self>>) /\ Left
  <2>1. stack[Depth].alive
    BY <1>3, <1>6
  <2> QED BY <1>2, <1>6, <2>1, KilledLeftKeeps
<1> QED BY <1>4, <1>5, <1>6 DEF ReturnFromCPP

\* The innermost thread goes on later, with its frame.
LEMMA LeftKeeps ==
  ASSUME GMInv, InScript, Left, ListInv', BlockInv', SleepInv',
         UNCHANGED <<framed, pass, work>>,
         \A u \in Threads \ {Self} : state'[u] = state[u]
  PROVE  GMInv'
<1>1. ListInv /\ BlockInv /\ SleepInv /\ UseInv /\ HarmInv
  BY GMInvParts
<1>2. stack # << >> /\ stack[Depth].alive /\ phase[Depth] = "none" /\ framed[Self]
  BY <1>1, InScriptFacts DEF UseInv
<1>3. /\ state' \in [Threads -> State] /\ framed' \in [Threads -> BOOLEAN] /\ pass' = pass
      /\ \A u \in Threads \ {Self} : state'[u] = state[u] /\ framed'[u] = framed[u]
      /\ framed'[Self]
  BY <1>1, <1>2 DEF ListInv, UseInv, FrameInv
<1>4. UseInv'
  BY <1>1, <1>2, <1>3, UseLeft
<1>5. HarmInv'
  BY <1>1, HarmKept DEF HarmInv, Left
<1> QED BY <1>4, <1>5 DEF GMInv, UseInv

\* Yield keeps the invariant.
LEMMA YieldKeeps ==
  ASSUME GMInv, Yield
  PROVE  GMInv'
<1>1. ListInv /\ BlockInv /\ SleepInv /\ UseInv /\ HarmInv
  BY GMInvParts
<1>2. /\ InScript /\ Left /\ signals' = [signals EXCEPT ![Self] = << >>]
      /\ UNCHANGED <<state, running, blocked, sleeping, killed, pass, nextThread, owed>>
      /\ UNCHANGED <<state, blocks>> /\ UNCHANGED <<sleeping, stamp, wait, time>>
      /\ UNCHANGED <<framed, pass, work>>
  BY DEF Yield, lists, turn
<1>3. Self \in Threads /\ state[Self] = "RUNNING"
  BY <1>1, <1>2, InScriptFacts DEF UseInv
<1>4. ListInv' /\ SleepInv'
  BY <1>1, <1>2, ListsKept, SleepKept
<1>5. BlockInv'
  <2>1. /\ signals' \in [Threads -> Seq(Signals)] /\ signals'[Self] = << >>
        /\ \A u \in Threads \ {Self} : state'[u] = state[u] /\ signals'[u] = signals[u]
    BY <1>1, <1>2, <1>3 DEF BlockInv
  <2>2. state'[Self] = "RUNNING" /\ state \in [Threads -> State]
    BY <1>1, <1>2, <1>3 DEF ListInv
  <2> QED BY <1>1, <1>2, <1>3, <2>1, <2>2, BlocksMoved
<1> QED BY <1>2, <1>4, <1>5, LeftKeeps

\* Sleep keeps the invariant.
LEMMA SleepKeeps ==
  ASSUME GMInv, NEW ms \in Delays, Sleep(ms)
  PROVE  GMInv'
<1>1. ListInv /\ BlockInv /\ SleepInv /\ UseInv /\ HarmInv
  BY GMInvParts
<1>2. PICK t : t = Self
  OBVIOUS
<1>3. /\ InScript /\ Suspend("SLEEPING") /\ Left
      /\ stamp' = [stamp EXCEPT ![t] = (time + ms) % Wrap]
      /\ wait' = [wait EXCEPT ![t] = ms]
      /\ sleeping' = SleeperInserted(t, (time + ms) % Wrap)
      /\ UNCHANGED <<blocked, killed, pass>> /\ blocks' = blocks /\ time' = time
      /\ UNCHANGED <<framed, pass, work>>
  BY <1>2 DEF Sleep
<1>4. t \in Threads /\ state[t] = "RUNNING"
  BY <1>1, <1>2, <1>3, InScriptFacts DEF UseInv
<1>5. (time + ms) % Wrap \in 0..(Wrap - 1)
  <2>1. time + ms \in Nat /\ time + ms < 2 * Wrap
    BY <1>1, GMAssumption DEF SleepInv
  <2> QED BY <2>1, ModWrap
<1>6. ListInv' /\ BlockInv' /\ SleepInv'
  BY <1>1, <1>2, <1>3, <1>4, <1>5, SleepLists, BlocksSlept, SleepSlept
<1>7. \A u \in Threads \ {Self} : state'[u] = state[u]
  BY <1>1, <1>3 DEF Suspend, ListInv
<1> QED BY <1>3, <1>6, <1>7, LeftKeeps

\* Block keeps the invariant.
LEMMA BlockKeeps ==
  ASSUME GMInv, NEW ss \in SignalLists, Block(ss)
  PROVE  GMInv'
<1>1. ListInv /\ BlockInv /\ SleepInv /\ UseInv /\ HarmInv
  BY GMInvParts
<1>2. PICK t : t = Self
  OBVIOUS
<1>3. /\ InScript /\ Suspend("BLOCKED") /\ Left
      /\ blocks' = [blocks EXCEPT ![t] =
                       Reverse([i \in 1..Len(ss) |-> [on |-> ss[i], signalled |-> FALSE]])]
      /\ blocked' = <<t>> \o blocked
      /\ UNCHANGED <<sleeping, killed, pass>> /\ UNCHANGED <<sleeping, stamp, wait, time>>
      /\ UNCHANGED <<framed, pass, work>>
  BY <1>2 DEF Block
<1>4. t \in Threads /\ state[t] = "RUNNING"
  BY <1>1, <1>2, <1>3, InScriptFacts DEF UseInv
<1>5. ListInv' /\ BlockInv'
  BY <1>1, <1>2, <1>3, <1>4, BlockLists, BlocksBlocked
<1>6. state' = [state EXCEPT ![t] = "BLOCKED"] /\ state \in [Threads -> State]
  BY <1>1, <1>2, <1>3 DEF Suspend, ListInv
<1>7. /\ \A u \in Threads \ {Self} : state'[u] = state[u]
      /\ \A u \in Threads : state'[u] = "SLEEPING" => state[u] = "SLEEPING"
  BY <1>2, <1>4, <1>6
<1>8. SleepInv'
  BY <1>1, <1>3, <1>7, SleepKept
<1> QED BY <1>3, <1>5, <1>7, <1>8, LeftKeeps


-----------------------------------------------------------------------------
(* The theorems *)

\* The initial state satisfies the invariant.
LEMMA GMInit ==
  ASSUME Init
  PROVE  GMInv
<1>1. /\ state = [t \in Threads |-> "free"] /\ running = << >> /\ blocked = << >>
      /\ sleeping = << >> /\ killed = << >> /\ pass = FALSE /\ nextThread = End /\ owed = {}
      /\ stack = << >> /\ time = 0 /\ work = 0 /\ harm = {} /\ fault = "none"
  BY DEF Init
<1>2. ListInv
  <2>1. /\ With({"RUNNING"}) = {} /\ With({"BLOCKED", "SYS_PENDING"}) = {}
        /\ With({"SLEEPING"}) = {} /\ With({"KILLED"}) = {}
    BY <1>1 DEF With
  <2>2. Ahead(running, nextThread, owed)
    BY <1>1 DEF Ahead
  <2>3. Len(killed) <= MaxKilled
    BY <1>1, GMAssumption
  <2>4. state \in [Threads -> State]
    BY <1>1 DEF State
  <2> QED BY <1>1, <2>1, <2>2, <2>3, <2>4, ListsEmpty DEF ListInv
<1>3. BlockInv
  <2>1. /\ blocks = [t \in Threads |-> << >>] /\ signals = [t \in Threads |-> << >>]
    BY DEF Init
  <2>2. << >> \in Blocks /\ << >> \in Seq(Signals)
    BY DEF Blocks
  <2>3. AgreeAt("free", << >>, << >>)
    BY AgreeEmpty
  <2>4. \A t \in Threads : AgreeAt(state[t], blocks[t], signals[t])
    BY <1>1, <2>1, <2>3
  <2>5. blocks \in [Threads -> Blocks] /\ signals \in [Threads -> Seq(Signals)]
    BY <2>1, <2>2
  <2> QED BY <2>4, <2>5, BlockInvAt
<1>4. SleepInv
  <2>1. stamp = [t \in Threads |-> 0] /\ wait = [t \in Threads |-> 0]
    BY DEF Init
  <2>2. 0 \in 0..(Wrap - 1) /\ 0 \in -1..(Wrap - 1)
    BY GMAssumption
  <2>3. /\ \A i, j \in 1..Len(sleeping) : i < j => stamp[sleeping[i]] <= stamp[sleeping[j]]
    BY <1>1
  <2>4. \A t \in Threads : state[t] # "SLEEPING"
    BY <1>1
  <2>5. stamp \in [Threads -> 0..(Wrap - 1)] /\ wait \in [Threads -> -1..(Wrap - 1)]
    BY <2>1, <2>2
  <2> QED BY <1>1, <2>2, <2>3, <2>4, <2>5 DEF SleepInv
<1>5. StackInv /\ Depth = 0
  <2>1. Depth = 0 /\ stack \in Seq(Entries)
    BY <1>1 DEF Depth
  <2>2. Depth \in Level
    BY <2>1, GMAssumption DEF Level
  <2> QED BY <2>1, <2>2 DEF StackInv
<1>6. CallsInv
  <2>1. /\ phase = [l \in Level |-> "none"] /\ callee = [l \in Level |-> End]
        /\ valid = [l \in Level |-> FALSE]
    BY DEF Init
  <2>2. \A l \in Level : CallInv(l)
    BY <2>1 DEF CallInv
  <2> QED BY <1>1, <2>1, <2>2 DEF CallsInv
<1>7. FrameInv
  BY <1>1 DEF Init, FrameInv
<1>8. HarmInv
  BY <1>1 DEF HarmInv, FaultsExplained
<1> QED BY <1>2, <1>3, <1>4, <1>5, <1>6, <1>7, <1>8 DEF GMInv

\* Every step keeps the invariant, action by action.
LEMMA GMStep ==
  ASSUME GMInv, [Next]_vars
  PROVE  GMInv'
<1>1. CASE UNCHANGED vars
  <2>1. ListInv /\ BlockInv /\ SleepInv /\ UseInv /\ HarmInv
    BY GMInvParts
  <2>2. /\ UNCHANGED <<state, running, blocked, sleeping, killed, pass, nextThread, owed>>
        /\ UNCHANGED <<state, blocks, signals>> /\ UNCHANGED <<sleeping, stamp, wait, time>>
        /\ UNCHANGED <<stack, calls, state, framed>> /\ harm' = harm /\ pass' = pass
        /\ work' = work /\ fault' = fault
    BY <1>1 DEF vars, lists, content, turn
  <2>3. ListInv' /\ BlockInv' /\ SleepInv'
    BY <2>1, <2>2, ListsKept, BlocksKept, SleepKept
  <2>4. UseInv'
    BY <2>1, <2>2, UseUntouched
  <2>5. HarmInv'
    BY <2>1, <2>2, HarmKept DEF HarmInv
  <2> QED BY <2>3, <2>4, <2>5 DEF GMInv, UseInv
<1>2. CASE Machine
  BY <1>2, ExecuteKeeps, RunNextKeeps, EndPassKeeps DEF Machine
<1>3. CASE Program
  BY <1>3, ExecuteStringKeeps, BeginCallKeeps, UseStaleCallKeeps, EndCallUnframedKeeps,
     ReleaseAfterCallKeeps, EndCallKeeps DEF Program
<1>4. CASE TurnEnds
  BY <1>4, FinishKeeps, YieldKeeps, SleepKeeps, BlockKeeps DEF TurnEnds
<1>5. CASE Script
  BY <1>5, SpawnKeeps, SignalKeeps, ThreadKillKeeps, ThreadKillAllKeeps, BlockSignalledKeeps,
     CallCPPKeeps, ReturnFromCPPKeeps DEF Script
<1> QED BY <1>1, <1>2, <1>3, <1>4, <1>5 DEF Next

\* The inductive invariant holds in every state: the threads, the lists, the blocks
\* and time stamps, the C++ stack and the program's calls fit each other.
THEOREM ThreadsInvariant == Spec => []GMInv
<1>1. Init => GMInv
  BY GMInit
<1>2. GMInv /\ [Next]_vars => GMInv'
  BY GMStep
<1> QED BY <1>1, <1>2, PTL DEF Spec

\* Every variable keeps its type, for any number of threads.
THEOREM ThreadsTypeOK == Spec => []TypeOK
<1>1. GMInv => TypeOK
  <2> SUFFICES ASSUME GMInv PROVE TypeOK
    OBVIOUS
  <2>1. /\ state \in [Threads -> State] /\ running \in Seq(Threads) /\ blocked \in Seq(Threads)
        /\ sleeping \in Seq(Threads) /\ killed \in Seq(Threads)
        /\ pass \in BOOLEAN /\ owed \in SUBSET Threads /\ nextThread \in Threads \cup {End}
    BY DEF GMInv, ListInv, Lists, With
  <2>2. /\ blocks \in [Threads -> Seq([on : Signals, signalled : BOOLEAN])]
        /\ signals \in [Threads -> Seq(Signals)]
    BY DEF GMInv, BlockInv
  <2>3. /\ stamp \in [Threads -> 0..(Wrap - 1)] /\ wait \in [Threads -> Int]
        /\ time \in 0..(Wrap - 1)
    <3>1. wait \in [Threads -> -1..(Wrap - 1)] /\ -1..(Wrap - 1) \subseteq Int
      BY GMAssumption DEF GMInv, SleepInv
    <3>2. wait \in [Threads -> Int]
      BY <3>1
    <3> QED BY <3>2 DEF GMInv, SleepInv
  <2>4. stack \in Seq([thread : Threads, why : {"pass", "string", "call"},
                       in : {"script", "cpp"}, alive : BOOLEAN])
    BY DEF GMInv, StackInv, Entries
  <2>5. /\ phase \in [Level -> {"none", "open", "ended"}]
        /\ callee \in [Level -> Threads \cup {End}] /\ valid \in [Level -> BOOLEAN]
    BY DEF GMInv, CallsInv
  <2>6. /\ framed \in [Threads -> BOOLEAN] /\ harm \in SUBSET Harms /\ work \in Nat
        /\ fault \in {"none", "noframe", "stale"}
    BY DEF GMInv, FrameInv, HarmInv
  <2> QED BY <2>1, <2>2, <2>3, <2>4, <2>5, <2>6 DEF TypeOK
<1> QED BY <1>1, ThreadsInvariant, PTL

\* Every thread is in the one list of its state, once, and the pool of killed
\* threads stays within its limit.
THEOREM ThreadsListsAgree == Spec => []ListsAgree
<1>1. GMInv => ListsAgree
  BY DEF GMInv, ListInv, Lists, With, ListsAgree
<1> QED BY <1>1, ThreadsInvariant, PTL

\* Execute passes over no thread, however the threads before it change the list.
THEOREM ThreadsNoneSkipped == Spec => []NoThreadSkipped
<1>1. GMInv => NoThreadSkipped
  <2> SUFFICES ASSUME GMInv PROVE NoThreadSkipped
    OBVIOUS
  <2>1. /\ Lists(running, With({"RUNNING"})) /\ Ahead(running, nextThread, owed)
        /\ nextThread \in With({"RUNNING"}) \cup {End} /\ (nextThread # End => pass)
    BY DEF GMInv, ListInv
  <2>2. owed \subseteq Range(Rest)
    BY <2>1, AheadMeans, RestIsRestOf
  <2>3. nextThread # End => pass /\ state[nextThread] = "RUNNING"
    BY <2>1 DEF With
  <2> QED BY <2>2, <2>3 DEF NoThreadSkipped
<1> QED BY <1>1, ThreadsInvariant, PTL

\* A thread is pending exactly if one of its blocks was signalled, and only blocked
\* threads have blocks.
THEOREM ThreadsBlocksAgree == Spec => []BlocksAgree
<1>1. GMInv => BlocksAgree
  BY DEF GMInv, BlockInv
<1> QED BY <1>1, ThreadsInvariant, PTL

\* A thread without a frame is executed, or a dead one used, only after misuse.
THEOREM ThreadsFaultsExplained == Spec => []FaultsExplained
<1>1. GMInv => FaultsExplained
  BY DEF GMInv, HarmInv
<1> QED BY <1>1, ThreadsInvariant, PTL

\* Only Execute starts a pass.
LEMMA PassStarts ==
  ASSUME [Next]_vars, ~pass, pass'
  PROVE  \E d \in Deltas : Execute(d)
<1>1. SUFFICES ASSUME ~ \E d \in Deltas : Execute(d) PROVE pass' = pass \/ pass' = FALSE
  OBVIOUS
<1>2. CASE UNCHANGED vars
  BY <1>2 DEF vars, turn
<1>3. CASE Machine
  BY <1>1, <1>3 DEF Machine, RunNext, EndPass, Fail, turn
<1>4. CASE Program
  BY <1>4 DEF Program, ExecuteString, BeginCall, UseStaleCall, EndCallUnframed, ReleaseAfterCall,
     EndCall, Create, Fail, turn
<1>5. CASE TurnEnds
  BY <1>5 DEF TurnEnds, Finish, Yield, Sleep, Block, Kill, turn
<1>6. CASE Script
  BY <1>6 DEF Script, Spawn, Signal, ThreadKill, ThreadKillAll, BlockSignalled, CallCPP, ReturnFromCPP,
     Create, Kill, Fail, turn
<1> QED BY <1>2, <1>3, <1>4, <1>5, <1>6 DEF Next

\* Execute wakes exactly the threads whose time has come.
LEMMA WokenInTime ==
  ASSUME GMInv, [Next]_vars, NEW t \in Threads, ~pass, pass', time <= time',
         state[t] = "SLEEPING", wait[t] >= 0, time + wait[t] < Wrap
  PROVE  state'[t] = "RUNNING" <=> wait[t] <= time' - time
<1>1. PICK d \in Deltas : Execute(d)
  BY PassStarts
<1>2. ListInv /\ SleepInv
  BY DEF GMInv
<1>3. /\ time' = (time + d) % Wrap
      /\ Range(DueThreads(time') \o PendingThreads) = Woken(time')
  BY <1>1, <1>2, ExecuteLists
<1>4. state' = [u \in Threads |-> IF u \in Woken(time') THEN "RUNNING" ELSE state[u]]
  BY <1>1, <1>3 DEF Execute
<1>5. PICK w \in Nat, c \in Nat, x \in Nat, y \in Nat :
         w = Wrap /\ c = time /\ x = wait[t] /\ y = d /\ w > 0 /\ c < w /\ y < w
  <2>1. Wrap \in Nat /\ Wrap > 0 /\ d \in Nat /\ d < Wrap
    BY GMAssumption
  <2>2. time \in Nat /\ time < Wrap
    BY <1>2, <2>1 DEF SleepInv
  <2>3. wait[t] \in Nat
    <3>1. wait[t] \in -1..(Wrap - 1)
      BY <1>2 DEF SleepInv
    <3> QED BY <2>1, <3>1
  <2> QED BY <2>1, <2>2, <2>3
<1>6. time' = c + y
  <2>1. PICK a \in Nat : a = c + y /\ a < 2 * Wrap
    BY <1>5
  <2>2. a % Wrap = (IF a < Wrap THEN a ELSE a - Wrap)
    BY <2>1, ModWrap
  <2>3. time' = IF c + y < w THEN c + y ELSE c + y - w
    BY <1>3, <1>5, <2>1, <2>2
  <2>4. c + y < w
    BY <1>5, <2>3
  <2> QED BY <2>3, <2>4
<1>7. stamp[t] = c + x
  <2>1. stamp[t] = (c + x) % Wrap
    BY <1>2, <1>5 DEF SleepInv
  <2>2. c + x \in Nat /\ c + x < 2 * Wrap /\ c + x < Wrap
    BY <1>5
  <2> QED BY <2>1, <2>2, ModWrap
<1>8. t \in Woken(time') <=> stamp[t] <= time'
  BY DEF Woken, With
<1>9. state'[t] = "RUNNING" <=> t \in Woken(time')
  BY <1>4
<1>10. stamp[t] <= time' <=> x <= y
  BY <1>5, <1>6, <1>7
<1>11. wait[t] <= time' - time <=> x <= y
  BY <1>5, <1>6
<1> QED BY <1>8, <1>9, <1>10, <1>11

\* Execute wakes a sleeping thread exactly if its time has come, although it looks
\* only at the first of the list, as long as the clock does not start again.
THEOREM ThreadsWokenOnTime == Spec => WokenOnTime
<1>1. GMInv /\ [Next]_vars =>
        [\A t \in Threads :
          (/\ ~pass /\ pass' /\ time <= time'
           /\ state[t] = "SLEEPING" /\ wait[t] >= 0 /\ time + wait[t] < Wrap) =>
              (state'[t] = "RUNNING" <=> wait[t] <= time' - time)]_vars
  BY WokenInTime
<1> QED BY <1>1, ThreadsInvariant, PTL DEF Spec, WokenOnTime

=============================================================================
