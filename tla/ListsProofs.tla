----------------------------- MODULE ListsProofs -----------------------------
(***************************************************************************)
(* Induction over the natural numbers, for a set instead of a predicate    *)
(* (the library's theorems for predicates cannot be instantiated by the    *)
(* installed provers), and with it what Filter returns for every list.     *)
(***************************************************************************)
EXTENDS Lists, SequenceTheorems, WellFoundedInduction, TLAPS

LEMMA LessThanIsWellFounded ==
  \E R : IsWellFoundedOn(R, Nat) /\ \A m, n \in Nat : m < n => <<m, n>> \in R
<1>1. \A m, n \in Nat : m < n => <<m, n>> \in OpToRel(<, Nat)
  BY DEF OpToRel
<1>. QED  BY <1>1, NatLessThanWellFounded, Zenon

LEMMA Least ==
  ASSUME NEW S, S \subseteq Nat, S # {}
  PROVE  \E n \in S : \A m \in S : n <= m
<1>1. PICK R : IsWellFoundedOn(R, Nat) /\ \A m, n \in Nat : m < n => <<m, n>> \in R
  BY LessThanIsWellFounded
<1>2. IsWellFoundedOn(R, Nat)
  BY <1>1
<1>3. PICK n \in S : \A m \in S : ~(<<m, n>> \in R)
  BY <1>2, WFMin, Zenon
<1>4. \A m \in S : m \in Nat /\ n \in Nat /\ ~(m < n)
  BY <1>1, <1>3
<1>5. \A m \in S : n <= m
  BY <1>4
<1>. QED  BY <1>5

\* A set that holds 0 and with each number the next one holds them all.
LEMMA Induction ==
  ASSUME NEW S, 0 \in S, \A n \in Nat : n \in S => n + 1 \in S
  PROVE  Nat \subseteq S
<1>. SUFFICES ASSUME Nat \ S # {} PROVE FALSE
  OBVIOUS
<1>1. PICK n \in Nat \ S : \A m \in Nat \ S : n <= m
  BY Least
<1>2. n - 1 \in Nat /\ n - 1 \notin Nat \ S
  BY <1>1
<1>. QED  BY <1>2

-----------------------------------------------------------------------------
\* One step of the filter: what it has kept, and the next member.
More(q, e, K) == IF e \in K THEN Append(q, e) ELSE q

\* f is the filter's history on the first n members of s.
Filters(f, s, K, n) ==
  /\ f = [i \in 0..n |-> IF i = 0 THEN <<>> ELSE More(f[i - 1], s[i], K)]

LEMMA FiltersExist ==
  ASSUME NEW s, NEW K
  PROVE  \A n \in Nat : \E f : Filters(f, s, K, n)
<1>. DEFINE S == {n \in Nat : \E f : Filters(f, s, K, n)}
<1>1. 0 \in S
  <2>1. Filters([i \in 0..0 |-> <<>>], s, K, 0)
    BY DEF Filters
  <2>. QED  BY <2>1
<1>2. ASSUME NEW n \in Nat, n \in S PROVE n + 1 \in S
  <2>1. PICK f : Filters(f, s, K, n)
    BY <1>2
  <2>. DEFINE g == [i \in 0..(n + 1) |-> IF i = n + 1 THEN More(f[n], s[n + 1], K) ELSE f[i]]
  <2>2. ASSUME NEW i \in 0..(n + 1) PROVE g[i] = IF i = 0 THEN <<>> ELSE More(g[i - 1], s[i], K)
    <3>1. CASE i = n + 1
      <4>1. g[i] = More(f[n], s[n + 1], K) /\ i - 1 = n /\ n \in 0..(n + 1) /\ n # n + 1
        BY <3>1
      <4>2. g[n] = f[n]
        BY <4>1
      <4>. QED  BY <3>1, <4>1, <4>2
    <3>2. CASE i = 0
      BY <2>1, <3>2 DEF Filters
    <3>3. CASE i \in 1..n
      <4>1. g[i] = f[i] /\ g[i - 1] = f[i - 1] /\ i \in 0..n /\ i # 0
        BY <3>3
      <4>2. f[i] = More(f[i - 1], s[i], K)
        BY <2>1, <4>1 DEF Filters
      <4>. QED  BY <4>1, <4>2
    <3>. QED  BY <3>1, <3>2, <3>3
  <2>3. g = [i \in 0..(n + 1) |-> IF i = 0 THEN <<>> ELSE More(g[i - 1], s[i], K)]
    BY <2>2
  <2>4. Filters(g, s, K, n + 1)
    BY <2>3 DEF Filters
  <2>. QED  BY <2>4
<1>. QED  BY <1>1, <1>2, Induction

LEMMA KeptFilters ==
  ASSUME NEW T, NEW s \in Seq(T), NEW K
  PROVE  Filters(Kept(s, K), s, K, Len(s))
<1>1. \E f : Filters(f, s, K, Len(s))
  <2>1. Len(s) \in Nat
    OBVIOUS
  <2>. QED  BY <2>1, FiltersExist
<1>2. \E f : f = [n \in 0..Len(s) |-> IF n = 0 THEN <<>>
                            ELSE IF s[n] \in K THEN Append(f[n - 1], s[n]) ELSE f[n - 1]]
  BY <1>1 DEF Filters, More
<1>. QED  BY <1>2 DEF Kept, Filters, More

LEMMA KeptSteps ==
  ASSUME NEW T, NEW s \in Seq(T), NEW K
  PROVE  /\ Kept(s, K)[0] = <<>>
         /\ \A i \in 1..Len(s) : Kept(s, K)[i] = More(Kept(s, K)[i - 1], s[i], K)
<1>. DEFINE f == Kept(s, K)
<1>1. f = [i \in 0..Len(s) |-> IF i = 0 THEN <<>> ELSE More(f[i - 1], s[i], K)] /\ Len(s) \in Nat
  BY KeptFilters DEF Filters
<1>. HIDE DEF f
<1>2. f[0] = <<>> /\ \A i \in 1..Len(s) : f[i] = More(f[i - 1], s[i], K)
  BY <1>1
<1>. QED  BY <1>2 DEF f

\* The filter's history on a list is that on any list it begins.
LEMMA KeptOfPrefix ==
  ASSUME NEW T, NEW s \in Seq(T), NEW t \in Seq(T), NEW K,
         Len(s) <= Len(t), \A i \in 1..Len(s) : t[i] = s[i]
  PROVE  \A i \in 0..Len(s) : Kept(t, K)[i] = Kept(s, K)[i]
<1>. DEFINE S == {n \in Nat : n <= Len(s) => Kept(t, K)[n] = Kept(s, K)[n]}
<1>0. Len(s) \in Nat /\ Len(t) \in Nat
  OBVIOUS
<1>1. 0 \in S
  BY KeptSteps
<1>2. ASSUME NEW n \in Nat, n \in S PROVE n + 1 \in S
  <2>. SUFFICES ASSUME n + 1 <= Len(s) PROVE Kept(t, K)[n + 1] = Kept(s, K)[n + 1]
    OBVIOUS
  <2>1. n + 1 \in 1..Len(s) /\ n + 1 \in 1..Len(t) /\ n + 1 - 1 = n
    BY <1>0
  <2>2. Kept(t, K)[n + 1] = More(Kept(t, K)[n], t[n + 1], K)
    BY <2>1, KeptSteps
  <2>3. Kept(s, K)[n + 1] = More(Kept(s, K)[n], s[n + 1], K)
    BY <2>1, KeptSteps
  <2>4. Kept(t, K)[n] = Kept(s, K)[n]
    BY <1>0, <1>2
  <2>. QED  BY <2>1, <2>2, <2>3, <2>4
<1>3. Nat \subseteq S
  BY <1>1, <1>2, Induction
<1>. QED  BY <1>0, <1>3

LEMMA KeptIsList ==
  ASSUME NEW T, NEW s \in Seq(T), NEW K
  PROVE  \A i \in 0..Len(s) : Kept(s, K)[i] \in Seq(T \cap K)
<1>. DEFINE S == {n \in Nat : n <= Len(s) => Kept(s, K)[n] \in Seq(T \cap K)}
<1>0. Len(s) \in Nat
  OBVIOUS
<1>1. 0 \in S
  <2>1. <<>> \in Seq(T \cap K)
    OBVIOUS
  <2>. QED  BY <2>1, KeptSteps
<1>2. ASSUME NEW n \in Nat, n \in S PROVE n + 1 \in S
  <2>. SUFFICES ASSUME n + 1 <= Len(s) PROVE Kept(s, K)[n + 1] \in Seq(T \cap K)
    OBVIOUS
  <2>1. n + 1 \in 1..Len(s) /\ n + 1 - 1 = n
    BY <1>0
  <2>2. Kept(s, K)[n + 1] = More(Kept(s, K)[n], s[n + 1], K)
    BY <2>1, KeptSteps
  <2>3. Kept(s, K)[n] \in Seq(T \cap K)
    BY <1>0, <1>2
  <2>4. s[n + 1] \in K => Append(Kept(s, K)[n], s[n + 1]) \in Seq(T \cap K)
    BY <2>1, <2>3
  <2>. QED  BY <2>2, <2>3, <2>4 DEF More
<1>3. Nat \subseteq S
  BY <1>1, <1>2, Induction
<1>. QED  BY <1>0, <1>3

-----------------------------------------------------------------------------
LEMMA FilterEmpty == \A K : Filter(<<>>, K) = <<>>
<1>. SUFFICES ASSUME NEW K PROVE Filter(<<>>, K) = <<>>
  OBVIOUS
<1>1. <<>> \in Seq({}) /\ Len(<<>>) = 0
  OBVIOUS
<1>2. Kept(<<>>, K)[0] = <<>>
  BY <1>1, KeptSteps
<1>. QED  BY <1>1, <1>2 DEF Filter

LEMMA FilterIsList ==
  ASSUME NEW T, NEW s \in Seq(T), NEW K
  PROVE  Filter(s, K) \in Seq(T \cap K)
<1>1. Len(s) \in 0..Len(s)
  OBVIOUS
<1>. QED  BY <1>1, KeptIsList DEF Filter

LEMMA FilterAppend ==
  ASSUME NEW T, NEW s \in Seq(T), NEW e \in T, NEW K
  PROVE  Filter(Append(s, e), K) = IF e \in K THEN Append(Filter(s, K), e) ELSE Filter(s, K)
<1>. DEFINE t == Append(s, e)
<1>1. /\ t \in Seq(T) /\ Len(t) = Len(s) + 1 /\ Len(s) \in Nat /\ t[Len(s) + 1] = e
      /\ \A i \in 1..Len(s) : t[i] = s[i]
  OBVIOUS
<1>. HIDE DEF t
<1>2. Kept(t, K)[Len(s)] = Kept(s, K)[Len(s)]
  <2>1. Len(s) \in 0..Len(s) /\ Len(s) <= Len(t)
    BY <1>1
  <2>. QED  BY <1>1, <2>1, KeptOfPrefix
<1>3. Kept(t, K)[Len(t)] = More(Kept(t, K)[Len(s)], e, K)
  <2>1. Len(t) \in 1..Len(t) /\ Len(t) - 1 = Len(s) /\ t[Len(t)] = e
    BY <1>1
  <2>. QED  BY <1>1, <2>1, KeptSteps
<1>. QED  BY <1>2, <1>3 DEF Filter, More, t

LEMMA FilterConcat ==
  ASSUME NEW T, NEW s \in Seq(T), NEW t \in Seq(T), NEW K
  PROVE  Filter(s \o t, K) = Filter(s, K) \o Filter(t, K)
<1>. DEFINE u == s \o t
            S == {n \in Nat : n <= Len(t) => Kept(u, K)[Len(s) + n] = Filter(s, K) \o Kept(t, K)[n]}
<1>1. /\ u \in Seq(T) /\ Len(u) = Len(s) + Len(t) /\ Len(s) \in Nat /\ Len(t) \in Nat
      /\ \A i \in 1..Len(s) : u[i] = s[i]
      /\ \A i \in 1..Len(t) : u[Len(s) + i] = t[i]
  OBVIOUS
<1>. HIDE DEF u
<1>2. 0 \in S
  <2>1. Len(s) \in 0..Len(s) /\ Len(s) <= Len(u) /\ Len(s) + 0 = Len(s)
    BY <1>1
  <2>2. Kept(u, K)[Len(s)] = Filter(s, K)
    BY <1>1, <2>1, KeptOfPrefix DEF Filter
  <2>3. Filter(s, K) \in Seq(T \cap K) /\ Kept(t, K)[0] = <<>>
    BY FilterIsList, KeptSteps
  <2>4. Filter(s, K) \o <<>> = Filter(s, K)
    BY <2>3
  <2>. QED  BY <2>1, <2>2, <2>3, <2>4
<1>3. ASSUME NEW n \in Nat, n \in S PROVE n + 1 \in S
  <2>. SUFFICES ASSUME n + 1 <= Len(t)
       PROVE  Kept(u, K)[Len(s) + (n + 1)] = Filter(s, K) \o Kept(t, K)[n + 1]
    OBVIOUS
  <2>1. /\ n + 1 \in 1..Len(t) /\ n + 1 - 1 = n /\ n \in 0..Len(t)
        /\ Len(s) + (n + 1) \in 1..Len(u) /\ (Len(s) + (n + 1)) - 1 = Len(s) + n
    BY <1>1
  <2>2. Kept(u, K)[Len(s) + (n + 1)] = More(Kept(u, K)[Len(s) + n], t[n + 1], K)
    <3>1. \A i \in 1..Len(u) : Kept(u, K)[i] = More(Kept(u, K)[i - 1], u[i], K)
      BY <1>1, KeptSteps
    <3>2. u[Len(s) + (n + 1)] = t[n + 1]
      BY <1>1, <2>1
    <3>. QED  BY <2>1, <3>1, <3>2
  <2>3. Kept(t, K)[n + 1] = More(Kept(t, K)[n], t[n + 1], K)
    BY <2>1, KeptSteps
  <2>4. Kept(u, K)[Len(s) + n] = Filter(s, K) \o Kept(t, K)[n]
    BY <1>1, <1>3
  <2>5. Filter(s, K) \in Seq(T) /\ Kept(t, K)[n] \in Seq(T) /\ t[n + 1] \in T
    <3>1. Filter(s, K) \in Seq(T \cap K) /\ Kept(t, K)[n] \in Seq(T \cap K)
      BY <2>1, FilterIsList, KeptIsList
    <3>. QED  BY <2>1, <3>1
  <2>6. ASSUME NEW p \in Seq(T), NEW q \in Seq(T), NEW e \in T
        PROVE  Append(p \o q, e) = p \o Append(q, e)
    <3>. DEFINE l == Append(p \o q, e)
                r == p \o Append(q, e)
    <3>1. l \in Seq(T) /\ r \in Seq(T) /\ Len(l) = Len(r) /\ Len(l) = Len(p) + Len(q) + 1
      OBVIOUS
    <3>2. \A i \in 1..(Len(p) + Len(q) + 1) : l[i] = r[i]
      OBVIOUS
    <3>3. \A i \in 1..Len(l) : l[i] = r[i]
      BY <3>1, <3>2
    <3>. HIDE DEF l, r
    <3>4. l = r
      BY <3>1, <3>3, SeqEqual
    <3>. QED  BY <3>4 DEF l, r
  <2>7. Append(Filter(s, K) \o Kept(t, K)[n], t[n + 1]) = Filter(s, K) \o Append(Kept(t, K)[n], t[n + 1])
    BY <2>5, <2>6
  <2>. QED  BY <2>2, <2>3, <2>4, <2>7 DEF More
<1>4. Nat \subseteq S
  BY <1>2, <1>3, Induction
<1>5. Kept(u, K)[Len(s) + Len(t)] = Filter(s, K) \o Kept(t, K)[Len(t)]
  BY <1>1, <1>4
<1>. QED  BY <1>1, <1>5 DEF Filter, u

\* A list whose members are all kept is kept whole.
LEMMA FilterAll ==
  ASSUME NEW T, NEW s \in Seq(T), NEW K, \A n \in 1..Len(s) : s[n] \in K
  PROVE  Filter(s, K) = s
<1>. DEFINE Prefixed == {n \in Nat : n <= Len(s) => Kept(s, K)[n] = SubSeq(s, 1, n)}
<1>0. Len(s) \in Nat
  OBVIOUS
<1>1. 0 \in Prefixed
  <2>1. SubSeq(s, 1, 0) = <<>>
    OBVIOUS
  <2>. QED  BY <2>1, KeptSteps
<1>2. ASSUME NEW n \in Nat, n \in Prefixed PROVE n + 1 \in Prefixed
  <2>. SUFFICES ASSUME n + 1 <= Len(s) PROVE Kept(s, K)[n + 1] = SubSeq(s, 1, n + 1)
    OBVIOUS
  <2>1. Kept(s, K)[n] = SubSeq(s, 1, n) /\ n + 1 \in 1..Len(s) /\ (n + 1) - 1 = n
    BY <1>0, <1>2
  <2>2. Kept(s, K)[n + 1] = More(Kept(s, K)[n], s[n + 1], K)
    BY <2>1, KeptSteps
  <2>3. SubSeq(s, 1, n + 1) = Append(SubSeq(s, 1, n), s[n + 1])
    BY <1>0, <2>1
  <2>. QED  BY <2>1, <2>2, <2>3 DEF More
<1>3. Len(s) \in Prefixed
  BY <1>0, <1>1, <1>2, Induction
<1>4. SubSeq(s, 1, Len(s)) = s
  OBVIOUS
<1>. QED  BY <1>3, <1>4, <1>0 DEF Filter

\* To filter twice is to filter by what both take.
LEMMA FilterTwice ==
  ASSUME NEW T, NEW s \in Seq(T), NEW A, NEW Also, NEW Each, \A x \in T : x \in Each <=> x \in A /\ x \in Also
  PROVE  Filter(Filter(s, A), Also) = Filter(s, Each)
<1>. DEFINE Agree == {n \in Nat : n <= Len(s) => Filter(Kept(s, A)[n], Also) = Kept(s, Each)[n]}
<1>0. Len(s) \in Nat
  OBVIOUS
<1>1. 0 \in Agree
  <2>1. Kept(s, A)[0] = <<>> /\ Kept(s, Each)[0] = <<>>
    BY KeptSteps
  <2>. QED  BY <2>1, FilterEmpty
<1>2. ASSUME NEW n \in Nat, n \in Agree PROVE n + 1 \in Agree
  <2>. SUFFICES ASSUME n + 1 <= Len(s) PROVE Filter(Kept(s, A)[n + 1], Also) = Kept(s, Each)[n + 1]
    OBVIOUS
  <2>1. /\ Filter(Kept(s, A)[n], Also) = Kept(s, Each)[n] /\ n + 1 \in 1..Len(s) /\ (n + 1) - 1 = n
        /\ s[n + 1] \in T /\ n \in 0..Len(s)
    BY <1>0, <1>2
  <2>2. /\ Kept(s, A)[n + 1] = More(Kept(s, A)[n], s[n + 1], A)
        /\ Kept(s, Each)[n + 1] = More(Kept(s, Each)[n], s[n + 1], Each)
    BY <2>1, KeptSteps
  <2>3. Kept(s, A)[n] \in Seq(T \cap A)
    BY <2>1, KeptIsList
  <2>4. CASE s[n + 1] \in A
    <3>1. PICK q, e : q = Kept(s, A)[n] /\ e = s[n + 1]
      OBVIOUS
    <3>2. q \in Seq(T) /\ e \in T
      BY <2>1, <2>3, <3>1
    <3>4. Filter(Append(q, e), Also) = IF e \in Also THEN Append(Filter(q, Also), e) ELSE Filter(q, Also)
      BY <3>2, FilterAppend
    <3>3. s[n + 1] \in Each <=> s[n + 1] \in Also
      BY <2>1, <2>4
    <3>. QED  BY <2>1, <2>2, <2>4, <3>1, <3>4, <3>3 DEF More
  <2>5. CASE s[n + 1] \notin A
    <3>1. s[n + 1] \notin Each
      BY <2>1, <2>5
    <3>. QED  BY <2>1, <2>2, <2>5, <3>1 DEF More
  <2>. QED  BY <2>4, <2>5
<1>3. Len(s) \in Agree
  BY <1>0, <1>1, <1>2, Induction
<1>. QED  BY <1>0, <1>3 DEF Filter

-----------------------------------------------------------------------------
\* A function is defined by where it starts and what each step makes of it.
Unfolds(f, b, g, n) == f = [i \in 0..n |-> IF i = 0 THEN b ELSE g[i][f[i - 1]]]

LEMMA Recursion ==
  ASSUME NEW X, NEW b \in X, NEW g \in [Nat -> [X -> X]]
  PROVE  \A n \in Nat : \E f \in [0..n -> X] : Unfolds(f, b, g, n)
<1>. DEFINE S == {n \in Nat : \E f \in [0..n -> X] : Unfolds(f, b, g, n)}
<1>1. 0 \in S
  <2>. DEFINE f == [i \in 0..0 |-> b]
  <2>1. f \in [0..0 -> X] /\ Unfolds(f, b, g, 0)
    BY DEF Unfolds
  <2>. QED  BY <2>1
<1>2. ASSUME NEW n \in Nat, n \in S PROVE n + 1 \in S
  <2>1. PICK f \in [0..n -> X] : Unfolds(f, b, g, n)
    BY <1>2
  <2>. DEFINE h == [i \in 0..(n + 1) |-> IF i = n + 1 THEN g[n + 1][f[n]] ELSE f[i]]
  <2>2. h \in [0..(n + 1) -> X]
    <3>1. f[n] \in X /\ g[n + 1] \in [X -> X]
      OBVIOUS
    <3>2. g[n + 1][f[n]] \in X
      BY <3>1
    <3>. QED  BY <3>2
  <2>3. ASSUME NEW i \in 0..(n + 1) PROVE h[i] = IF i = 0 THEN b ELSE g[i][h[i - 1]]
    <3>1. CASE i = n + 1
      <4>1. h[i] = g[n + 1][f[n]] /\ i - 1 = n /\ n \in 0..(n + 1) /\ n # n + 1
        BY <3>1
      <4>2. h[n] = f[n]
        BY <4>1
      <4>. QED  BY <3>1, <4>1, <4>2
    <3>2. CASE i = 0
      BY <2>1, <3>2 DEF Unfolds
    <3>3. CASE i \in 1..n
      <4>1. h[i] = f[i] /\ h[i - 1] = f[i - 1] /\ i \in 0..n /\ i # 0
        BY <3>3
      <4>2. f[i] = g[i][f[i - 1]]
        BY <2>1, <4>1 DEF Unfolds
      <4>. QED  BY <4>1, <4>2
    <3>. QED  BY <3>1, <3>2, <3>3
  <2>4. Unfolds(h, b, g, n + 1)
    BY <2>3 DEF Unfolds
  <2>. QED  BY <2>2, <2>4
<1>. QED  BY <1>1, <1>2, Induction

-----------------------------------------------------------------------------
LEMMA SumsStep ==
  ASSUME NEW s \in Seq(Int)
  PROVE  /\ Sums(s) \in [0..Len(s) -> Int] /\ Sums(s)[0] = 0
         /\ \A n \in 1..Len(s) : Sums(s)[n] = Sums(s)[n - 1] + s[n]
<1>. DEFINE g == [i \in Nat |-> [x \in Int |-> IF i \in 1..Len(s) THEN x + s[i] ELSE x]]
<1>1. g \in [Nat -> [Int -> Int]]
  OBVIOUS
<1>2. Len(s) \in Nat /\ \A i \in 1..Len(s), x \in Int : g[i][x] = x + s[i]
  OBVIOUS
<1>. HIDE DEF g
<1>3. PICK f \in [0..Len(s) -> Int] : Unfolds(f, 0, g, Len(s))
  <2>0. 0 \in Int
    OBVIOUS
  <2>1. \A n \in Nat : \E f \in [0..n -> Int] : Unfolds(f, 0, g, n)
    BY <1>1, <2>0, Recursion, Zenon
  <2>. QED  BY <1>2, <2>1
<1>4. ASSUME NEW n \in 0..Len(s) PROVE f[n] = IF n = 0 THEN 0 ELSE f[n - 1] + s[n]
  <2>1. f[n] = IF n = 0 THEN 0 ELSE g[n][f[n - 1]]
    BY <1>3 DEF Unfolds
  <2>2. CASE n # 0
    <3>1. n - 1 \in 0..Len(s) /\ n \in 1..Len(s)
      BY <1>2, <2>2
    <3>2. f[n - 1] \in Int
      BY <3>1
    <3>. QED  BY <1>2, <2>1, <2>2, <3>1, <3>2
  <2>. QED  BY <2>1, <2>2
<1>5. f = [n \in 0..Len(s) |-> IF n = 0 THEN 0 ELSE f[n - 1] + s[n]]
  BY <1>4
<1>6. Sums(s) = [n \in 0..Len(s) |-> IF n = 0 THEN 0 ELSE Sums(s)[n - 1] + s[n]]
  BY <1>5 DEF Sums
<1>. DEFINE t == Sums(s)
<1>7. t = [n \in 0..Len(s) |-> IF n = 0 THEN 0 ELSE t[n - 1] + s[n]]
  BY <1>6
<1>. HIDE DEF t
<1>8. t[0] = 0 /\ \A n \in 1..Len(s) : t[n] = t[n - 1] + s[n]
  <2>1. \A n \in 0..Len(s) : t[n] = IF n = 0 THEN 0 ELSE t[n - 1] + s[n]
    BY <1>7
  <2>2. 0 \in 0..Len(s) /\ \A n \in 1..Len(s) : n \in 0..Len(s) /\ n # 0
    BY <1>2
  <2>. QED  BY <2>1, <2>2
<1>. DEFINE S == {n \in Nat : n <= Len(s) => t[n] \in Int}
<1>9. Nat \subseteq S
  <2>1. 0 \in S
    BY <1>8
  <2>2. ASSUME NEW n \in Nat, n \in S PROVE n + 1 \in S
    <3>. SUFFICES ASSUME n + 1 <= Len(s) PROVE t[n + 1] \in Int
      OBVIOUS
    <3>1. n + 1 \in 1..Len(s) /\ n + 1 - 1 = n /\ t[n] \in Int
      BY <1>2, <2>2
    <3>. QED  BY <1>8, <3>1
  <2>. HIDE DEF S
  <2>. QED  BY <2>1, <2>2, Induction
<1>10. t \in [0..Len(s) -> Int]
  <2>1. DOMAIN t = 0..Len(s) /\ \A n \in 0..Len(s) : t[n] \in Int
    BY <1>2, <1>7, <1>9
  <2>2. t = [n \in 0..Len(s) |-> t[n]]
    BY <1>7
  <2>. QED  BY <2>1, <2>2
<1>. QED  BY <1>8, <1>10 DEF t

LEMMA TotalEmpty == Total(<<>>) = 0
<1>1. <<>> \in Seq(Int) /\ Len(<<>>) = 0
  OBVIOUS
<1>. QED  BY <1>1, SumsStep DEF Total

LEMMA TotalAppend ==
  ASSUME NEW s \in Seq(Int), NEW e \in Int
  PROVE  Total(s) \in Int /\ Total(Append(s, e)) = Total(s) + e
<1>. DEFINE t == Append(s, e)
            S == {n \in Nat : n <= Len(s) => Sums(t)[n] = Sums(s)[n]}
<1>1. /\ t \in Seq(Int) /\ Len(t) = Len(s) + 1 /\ Len(s) \in Nat /\ t[Len(s) + 1] = e
      /\ \A i \in 1..Len(s) : t[i] = s[i]
  OBVIOUS
<1>. HIDE DEF t
<1>2. /\ Sums(s)[0] = 0 /\ \A n \in 1..Len(s) : Sums(s)[n] = Sums(s)[n - 1] + s[n]
      /\ Sums(t)[0] = 0 /\ \A n \in 1..Len(t) : Sums(t)[n] = Sums(t)[n - 1] + t[n]
      /\ Sums(s) \in [0..Len(s) -> Int]
  BY <1>1, SumsStep
<1>3. 0 \in S
  BY <1>2
<1>4. ASSUME NEW n \in Nat, n \in S PROVE n + 1 \in S
  <2>. SUFFICES ASSUME n + 1 <= Len(s) PROVE Sums(t)[n + 1] = Sums(s)[n + 1]
    OBVIOUS
  <2>1. n + 1 \in 1..Len(s) /\ n + 1 \in 1..Len(t) /\ n + 1 - 1 = n /\ Sums(t)[n] = Sums(s)[n]
    BY <1>1, <1>4
  <2>. QED  BY <1>1, <1>2, <2>1
<1>5. Nat \subseteq S
  <2>. HIDE DEF S
  <2>. QED  BY <1>3, <1>4, Induction
<1>6. Sums(t)[Len(s)] = Sums(s)[Len(s)]
  BY <1>1, <1>5
<1>7. Sums(t)[Len(t)] = Sums(t)[Len(s)] + e
  <2>1. Len(t) \in 1..Len(t) /\ Len(t) - 1 = Len(s)
    BY <1>1
  <2>. QED  BY <1>1, <1>2, <2>1
<1>. QED  BY <1>1, <1>2, <1>6, <1>7 DEF Total, t
=============================================================================
