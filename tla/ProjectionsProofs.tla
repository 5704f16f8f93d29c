-------------------------- MODULE ProjectionsProofs --------------------------
(***************************************************************************)
(* Theorems about Projections for every set of commands, aggregates, event *)
(* names and fields: what the read models show is what a replay of the log *)
(* gives, and no answer outlives its cache entry.                          *)
(*                                                                         *)
(* What a model shows of an aggregate is stated by the set of events it    *)
(* was handed, not by the order in which it was fed (ViewShows,            *)
(* StatusShows).  The live model and the replay satisfy the same statement *)
(* about two sets, which agree on every aggregate nothing is withheld of.  *)
(***************************************************************************)
EXTENDS Projections, ListsProofs

Entry == [kind : Kinds, agg : Aggregates, by : Commands \cup {"aside"}]
Models(l) ==
  [view : [Aggregates -> [Fields -> -1..Len(l)]], timeline : SUBSET (1..Len(l)),
   status : [Aggregates -> PaymentEvents \cup {"absent", "UNKNOWN"}], pending : Nat]

-----------------------------------------------------------------------------
(***************************************************************************)
(* Feeding the models, event by event.                                     *)
(***************************************************************************)
Feeds(f, m, l, q, to, n) ==
  f = [i \in 0..n |-> IF i = 0 THEN m ELSE Taken(f[i - 1], l, q[i], to)]

LEMMA FeedsExist ==
  ASSUME NEW m, NEW l, NEW q, NEW to
  PROVE  \A n \in Nat : \E f : Feeds(f, m, l, q, to, n)
<1>. DEFINE S == {n \in Nat : \E f : Feeds(f, m, l, q, to, n)}
<1>1. 0 \in S
  <2>1. Feeds([i \in 0..0 |-> m], m, l, q, to, 0)
    BY DEF Feeds
  <2>. QED  BY <2>1
<1>2. ASSUME NEW n \in Nat, n \in S PROVE n + 1 \in S
  <2>1. PICK f : Feeds(f, m, l, q, to, n)
    BY <1>2
  <2>. DEFINE g == [i \in 0..(n + 1) |-> IF i = n + 1 THEN Taken(f[n], l, q[n + 1], to) ELSE f[i]]
  <2>2. ASSUME NEW i \in 0..(n + 1) PROVE g[i] = IF i = 0 THEN m ELSE Taken(g[i - 1], l, q[i], to)
    <3>1. CASE i = n + 1
      <4>1. g[i] = Taken(f[n], l, q[n + 1], to) /\ i - 1 = n /\ n \in 0..(n + 1) /\ n # n + 1 /\ i # 0
        BY <3>1
      <4>2. g[n] = f[n]
        BY <4>1
      <4>. QED  BY <3>1, <4>1, <4>2
    <3>2. CASE i = 0
      BY <2>1, <3>2 DEF Feeds
    <3>3. CASE i \in 1..n
      <4>1. g[i] = f[i] /\ g[i - 1] = f[i - 1] /\ i \in 0..n /\ i # 0
        BY <3>3
      <4>2. f[i] = Taken(f[i - 1], l, q[i], to)
        BY <2>1, <4>1 DEF Feeds
      <4>. QED  BY <4>1, <4>2
    <3>. QED  BY <3>1, <3>2, <3>3
  <2>3. g = [i \in 0..(n + 1) |-> IF i = 0 THEN m ELSE Taken(g[i - 1], l, q[i], to)]
    BY <2>2
  <2>4. Feeds(g, m, l, q, to, n + 1)
    BY <2>3 DEF Feeds
  <2>. QED  BY <2>4
<1>. QED  BY <1>1, <1>2, Induction

FedByStep(m, l, q, to) ==
  /\ Fed(m, l, q, to)[0] = m
  /\ \A i \in 1..Len(q) : Fed(m, l, q, to)[i] = Taken(Fed(m, l, q, to)[i - 1], l, q[i], to)

LEMMA FedSteps ==
  ASSUME NEW m, NEW l, NEW q, Len(q) \in Nat, NEW to
  PROVE  FedByStep(m, l, q, to)
<1>. DEFINE f == Fed(m, l, q, to)
<1>1. \E g : g = [i \in 0..Len(q) |-> IF i = 0 THEN m ELSE Taken(g[i - 1], l, q[i], to)]
  <2>1. \E g : Feeds(g, m, l, q, to, Len(q))
    BY FeedsExist
  <2>. QED  BY <2>1 DEF Feeds
<1>2. f = [i \in 0..Len(q) |-> IF i = 0 THEN m ELSE Taken(f[i - 1], l, q[i], to)] /\ Len(q) \in Nat
  BY <1>1 DEF Fed
<1>. HIDE DEF f
<1>3. f[0] = m /\ \A i \in 1..Len(q) : f[i] = Taken(f[i - 1], l, q[i], to)
  BY <1>2
<1>. QED  BY <1>3 DEF f, FedByStep

LEMMA TakenType ==
  ASSUME NEW l \in Seq(Entry), NEW m \in Models(l), NEW i \in 1..Len(l), NEW to
  PROVE  Taken(m, l, i, to) \in Models(l)
<1>. USE ProjectionsAssumption
<1>0. l[i] \in Entry /\ Len(l) \in Nat
  OBVIOUS
<1>1. l[i] \in Entry /\ l[i].kind \in Kinds /\ l[i].agg \in Aggregates /\ Len(l) \in Nat
  BY <1>0 DEF Entry
<1>2. Merged(m.view, l, i) \in [Aggregates -> [Fields -> -1..Len(l)]]
  <2>. DEFINE old == IF l[i].kind \in Inserts \/ m.view[l[i].agg] = NoRecord
                       THEN [f \in Fields |-> 0] ELSE m.view[l[i].agg]
              new == [f \in Fields |-> IF f \in Sets[l[i].kind] THEN i ELSE old[f]]
  <2>1. m.view \in [Aggregates -> [Fields -> -1..Len(l)]]
    BY DEF Models
  <2>2. \A f \in Fields : old[f] \in -1..Len(l)
    BY <1>1, <2>1
  <2>3. new \in [Fields -> -1..Len(l)]
    BY <1>1, <2>2
  <2>. HIDE DEF new
  <2>4. Merged(m.view, l, i) = IF Sets[l[i].kind] = {} THEN m.view ELSE [m.view EXCEPT ![l[i].agg] = new]
    BY DEF Merged, new
  <2>. QED  BY <2>1, <2>3, <2>4
<1>3. StatusAfter(m.status, l[i]) \in [Aggregates -> PaymentEvents \cup {"absent", "UNKNOWN"}]
  BY <1>1 DEF StatusAfter, Models
<1>4. PendingAfter(m.pending, l[i]) \in Nat
  BY DEF PendingAfter, Models
<1>. QED  BY <1>2, <1>3, <1>4 DEF Taken, Models

LEMMA FedType ==
  ASSUME NEW l \in Seq(Entry), NEW m \in Models(l), NEW q \in Seq(1..Len(l)), NEW to
  PROVE  \A n \in 0..Len(q) :
           /\ Fed(m, l, q, to)[n] \in Models(l)
           /\ Fed(m, l, q, to)[n].timeline = m.timeline \cup {q[k] : k \in 1..n}
<1>. DEFINE f == Fed(m, l, q, to)
            Good(n) == f[n] \in Models(l) /\ f[n].timeline = m.timeline \cup {q[k] : k \in 1..n}
            S == {n \in Nat : n <= Len(q) => Good(n)}
<1>0. Len(q) \in Nat
  OBVIOUS
<1>f. f[0] = m /\ \A i \in 1..Len(q) : f[i] = Taken(f[i - 1], l, q[i], to)
  <2>1. FedByStep(m, l, q, to)
    BY <1>0, FedSteps
  <2>. QED  BY <2>1 DEF FedByStep
<1>. HIDE DEF f, Good
<1>1. 0 \in S
  BY <1>0, <1>f DEF Good
<1>2. ASSUME NEW n \in Nat, n \in S PROVE n + 1 \in S
  <2>. SUFFICES ASSUME n + 1 <= Len(q)
       PROVE  Good(n + 1)
    OBVIOUS
  <2>1. n + 1 \in 1..Len(q) /\ n + 1 - 1 = n /\ q[n + 1] \in 1..Len(l)
    BY <1>0, <1>f
  <2>2. f[n + 1] = Taken(f[n], l, q[n + 1], to) /\ f[n] \in Models(l)
        /\ f[n].timeline = m.timeline \cup {q[k] : k \in 1..n}
    BY <1>0, <1>f, <1>2, <2>1 DEF Good
  <2>3. f[n + 1] \in Models(l)
    BY <2>1, <2>2, TakenType
  <2>4. f[n + 1].timeline = f[n].timeline \cup {q[n + 1]}
    BY <2>2 DEF Taken
  <2>5. {q[k] : k \in 1..(n + 1)} = {q[k] : k \in 1..n} \cup {q[n + 1]}
    <3>1. 1..(n + 1) = 1..n \cup {n + 1}
      OBVIOUS
    <3>. QED  BY <3>1
  <2>. QED  BY <2>2, <2>3, <2>4, <2>5 DEF Good
<1>3. Nat \subseteq S
  BY <1>1, <1>2, Induction
<1>. QED  BY <1>0, <1>3 DEF f, Good

LEMMA InOrderIsList ==
  ASSUME NEW l \in Seq(Entry)
  PROVE  /\ InOrder(l) \in Seq(1..Len(l)) /\ Len(InOrder(l)) = Len(l) /\ Len(l) \in Nat
         /\ \A i \in 1..Len(l) : InOrder(l)[i] = i
         /\ Cleared \in Models(l)
<1>1. Len(l) \in Nat
  OBVIOUS
<1>2. InOrder(l) \in Seq(1..Len(l)) /\ Len(InOrder(l)) = Len(l) /\ \A i \in 1..Len(l) : InOrder(l)[i] = i
  BY <1>1 DEF InOrder
<1>3. Cleared \in Models(l)
  BY <1>1 DEF Cleared, Models, NoRecord
<1>. QED  BY <1>1, <1>2, <1>3

\* What a replay has made of the first n events.
Replay(l) == Fed(Cleared, l, InOrder(l), "all")

LEMMA ReplaySteps ==
  ASSUME NEW l \in Seq(Entry)
  PROVE  /\ Replay(l)[0] = Cleared
         /\ \A n \in 1..Len(l) : Replay(l)[n] = Taken(Replay(l)[n - 1], l, n, "all")
         /\ \A n \in 0..Len(l) : Replay(l)[n] \in Models(l) /\ Replay(l)[n].timeline = 1..n
<1>1. InOrder(l) \in Seq(1..Len(l)) /\ Len(InOrder(l)) = Len(l) /\ Len(l) \in Nat /\ Cleared \in Models(l)
      /\ \A i \in 1..Len(l) : InOrder(l)[i] = i
  BY InOrderIsList
<1>2. Replay(l)[0] = Cleared /\ \A n \in 1..Len(l) : Replay(l)[n] = Taken(Replay(l)[n - 1], l, n, "all")
  <2>1. /\ Replay(l)[0] = Cleared
        /\ \A n \in 1..Len(InOrder(l)) : Replay(l)[n] = Taken(Replay(l)[n - 1], l, InOrder(l)[n], "all")
    <3>1. FedByStep(Cleared, l, InOrder(l), "all")
      BY <1>1, FedSteps
    <3>. QED  BY <3>1 DEF FedByStep, Replay
  <2>. QED  BY <1>1, <2>1
<1>3. \A n \in 0..Len(l) : Replay(l)[n] \in Models(l) /\ Replay(l)[n].timeline = Cleared.timeline \cup {InOrder(l)[k] : k \in 1..n}
  BY <1>1, FedType DEF Replay
<1>4. ASSUME NEW n \in 0..Len(l) PROVE Cleared.timeline \cup {InOrder(l)[k] : k \in 1..n} = 1..n
  <2>1. \A k \in 1..n : InOrder(l)[k] = k
    BY <1>1
  <2>. QED  BY <2>1 DEF Cleared
<1>. QED  BY <1>2, <1>3, <1>4

LEMMA ReplayOfPrefix ==
  ASSUME NEW l \in Seq(Entry), NEW k \in Seq(Entry), Len(l) <= Len(k), \A i \in 1..Len(l) : k[i] = l[i]
  PROVE  \A n \in 0..Len(l) : Replay(k)[n] = Replay(l)[n]
<1>. DEFINE Good(n) == Replay(k)[n] = Replay(l)[n]
            S == {n \in Nat : n <= Len(l) => Good(n)}
<1>0. Len(l) \in Nat /\ Len(k) \in Nat
  OBVIOUS
<1>1. Good(0)
  BY ReplaySteps
<1>2. ASSUME NEW n \in Nat, n \in S PROVE n + 1 \in S
  <2>. SUFFICES ASSUME n + 1 <= Len(l) PROVE Good(n + 1)
    OBVIOUS
  <2>1. n + 1 \in 1..Len(l) /\ n + 1 \in 1..Len(k) /\ n + 1 - 1 = n /\ Good(n)
    BY <1>0, <1>2
  <2>2. Replay(k)[n + 1] = Taken(Replay(k)[n], k, n + 1, "all")
    BY <2>1, ReplaySteps
  <2>3. Replay(l)[n + 1] = Taken(Replay(l)[n], l, n + 1, "all")
    BY <2>1, ReplaySteps
  <2>4. \A m : Taken(m, k, n + 1, "all") = Taken(m, l, n + 1, "all")
    BY <2>1 DEF Taken, Merged
  <2>. QED  BY <2>1, <2>2, <2>3, <2>4
<1>. HIDE DEF Good
<1>3. Nat \subseteq S
  BY <1>1, <1>2, Induction
<1>. QED  BY <1>0, <1>3 DEF Good

-----------------------------------------------------------------------------
(***************************************************************************)
(* What a record of the view and the status of a payment show of the       *)
(* events in S, whenever events of one aggregate were fed in their order.  *)
(***************************************************************************)
Writes(l, S, a) == {i \in S : l[i].agg = a /\ Sets[l[i].kind] # {}}
Steps(l, S, a)  == {i \in S : l[i].agg = a /\ l[i].kind \in PaymentEvents}

\* A field is of the last event that wrote it, or 0 if an insert came after that.
FieldShows(x, f, l, W) ==
  \/ x = 0 /\ \A j \in W : f \in Sets[l[j].kind] => \E k \in W : j < k /\ l[k].kind \in Inserts
  \/ /\ x \in W /\ f \in Sets[l[x].kind]
     /\ \A j \in W : x < j => f \notin Sets[l[j].kind] /\ l[j].kind \notin Inserts

ViewShows(v, l, S, a) ==
  LET W == Writes(l, S, a) IN
    IF W = {} THEN v = NoRecord ELSE \A f \in Fields : FieldShows(v[f], f, l, W)

StatusShows(st, l, S, a) ==
  LET own == Steps(l, S, a) IN
    own # {} => \E i \in own : st = l[i].kind /\ \A j \in own : j <= i

LEMMA OneView ==
  ASSUME NEW l, NEW S, S \subseteq Nat \ {0}, NEW a, NEW v \in [Fields -> Int], NEW w \in [Fields -> Int],
         ViewShows(v, l, S, a), ViewShows(w, l, S, a)
  PROVE  v = w
<1>. DEFINE W == Writes(l, S, a)
<1>1. W \subseteq Nat \ {0}
  BY DEF Writes
<1>2. CASE W = {}
  BY <1>2 DEF ViewShows
<1>3. CASE W # {}
  <2>. SUFFICES ASSUME NEW f \in Fields PROVE v[f] = w[f]
    OBVIOUS
  <2>1. FieldShows(v[f], f, l, W) /\ FieldShows(w[f], f, l, W)
    BY <1>3 DEF ViewShows
  <2>. HIDE DEF W
  <2>2. ASSUME NEW x \in Int, NEW y \in Int, FieldShows(x, f, l, W), FieldShows(y, f, l, W)
        PROVE  x = y
    <3>1. CASE x = 0 /\ y # 0
      BY <1>1, <2>2, <3>1 DEF FieldShows
    <3>2. CASE y = 0 /\ x # 0
      BY <1>1, <2>2, <3>2 DEF FieldShows
    <3>3. CASE x # 0 /\ y # 0
      BY <1>1, <2>2, <3>3 DEF FieldShows
    <3>. QED  BY <3>1, <3>2, <3>3
  <2>. QED  BY <2>1, <2>2
<1>. QED  BY <1>2, <1>3

\* An event that comes after all of its aggregate is shown as it should be.
LEMMA TakenShows ==
  ASSUME NEW l \in Seq(Entry), NEW m \in Models(l), NEW S, S \subseteq 1..Len(l), NEW i \in 1..Len(l), NEW to,
         \A j \in S : l[j].agg = l[i].agg => j < i,
         NEW a \in Aggregates, ViewShows(m.view[a], l, S, a), StatusShows(m.status[a], l, S, a)
  PROVE  /\ ViewShows(Taken(m, l, i, to).view[a], l, S \cup {i}, a)
         /\ StatusShows(Taken(m, l, i, to).status[a], l, S \cup {i}, a)
<1>. USE ProjectionsAssumption
<1>0. l[i] \in Entry /\ Len(l) \in Nat
  OBVIOUS
<1>1. l[i].kind \in Kinds /\ l[i].agg \in Aggregates /\ Len(l) \in Nat /\ i \in Nat /\ S \subseteq Nat \ {0}
  BY <1>0 DEF Entry
<1>2. m.view \in [Aggregates -> [Fields -> -1..Len(l)]]
      /\ m.status \in [Aggregates -> PaymentEvents \cup {"absent", "UNKNOWN"}]
  BY DEF Models
<1>. DEFINE W == Writes(l, S, a)
            W2 == Writes(l, S \cup {i}, a)
            e == l[i]
<1>3. Taken(m, l, i, to).view = Merged(m.view, l, i)
  BY DEF Taken
<1>4. ViewShows(Merged(m.view, l, i)[a], l, S \cup {i}, a)
  <2>1. CASE e.agg # a \/ Sets[e.kind] = {}
    <3>1. Merged(m.view, l, i)[a] = m.view[a]
      BY <1>1, <1>2, <2>1 DEF Merged
    <3>2. W2 = W
      BY <2>1 DEF Writes
    <3>. QED  BY <3>1, <3>2 DEF ViewShows
  <2>2. CASE e.agg = a /\ Sets[e.kind] # {}
    <3>. DEFINE old == IF e.kind \in Inserts \/ m.view[e.agg] = NoRecord
                         THEN [f \in Fields |-> 0] ELSE m.view[e.agg]
    <3>1. W2 = W \cup {i} /\ W \subseteq Nat \ {0} /\ \A j \in W : j < i
      BY <1>1, <2>2 DEF Writes
    <3>2. Merged(m.view, l, i)[a] = [f \in Fields |-> IF f \in Sets[e.kind] THEN i ELSE old[f]]
      BY <1>1, <1>2, <2>2 DEF Merged
    <3>. SUFFICES ASSUME NEW f \in Fields PROVE FieldShows(IF f \in Sets[e.kind] THEN i ELSE old[f], f, l, W2)
      BY <3>1, <3>2 DEF ViewShows
    <3>3. CASE f \in Sets[e.kind]
      <4>1. i \in W2 /\ \A j \in W2 : ~(i < j)
        <5>. HIDE DEF W, W2
        <5>. QED  BY <1>1, <3>1
      <4>. HIDE DEF W, W2
      <4>. QED  BY <3>3, <4>1 DEF FieldShows
    <3>4. CASE f \notin Sets[e.kind] /\ e.kind \in Inserts
      BY <1>1, <3>1, <3>4 DEF FieldShows
    <3>5. CASE f \notin Sets[e.kind] /\ e.kind \notin Inserts
      <4>1. CASE W = {}
        <5>1. old[f] = 0
          BY <2>2, <4>1 DEF ViewShows
        <5>. QED  BY <3>1, <3>5, <4>1, <5>1 DEF FieldShows
      <4>2. CASE W # {}
        <5>1. FieldShows(m.view[a][f], f, l, W)
          BY <4>2 DEF ViewShows
        <5>. HIDE DEF W
        <5>2. m.view[a][f] # -1
          BY <3>1, <5>1 DEF FieldShows
        <5>3. old[f] = m.view[a][f]
          BY <2>2, <3>5, <5>2 DEF NoRecord
        <5>4. ASSUME NEW x, FieldShows(x, f, l, W) PROVE FieldShows(x, f, l, W \cup {i})
          BY <3>1, <3>5, <5>4 DEF FieldShows
        <5>. QED  BY <3>1, <3>5, <5>1, <5>3, <5>4
      <4>. QED  BY <4>1, <4>2
    <3>. QED  BY <3>3, <3>4, <3>5
  <2>. QED  BY <2>1, <2>2
<1>5. StatusShows(Taken(m, l, i, to).status[a], l, S \cup {i}, a)
  <2>. DEFINE own == Steps(l, S, a)
              st == Taken(m, l, i, to).status
  <2>0. own \subseteq Nat
    BY <1>1 DEF Steps
  <2>1. CASE e.agg = a /\ e.kind \in PaymentEvents
    <3>1. st[a] = e.kind
      <4>1. st = StatusAfter(m.status, e)
        BY <2>1 DEF Taken
      <4>. QED  BY <1>2, <2>1, <4>1 DEF StatusAfter
    <3>2. Steps(l, S \cup {i}, a) = own \cup {i} /\ \A j \in own : j < i
      BY <2>1 DEF Steps
    <3>3. \A j \in own \cup {i} : j <= i
      BY <1>1, <2>0, <3>2
    <3>. QED  BY <3>1, <3>2, <3>3 DEF StatusShows
  <2>2. CASE ~(e.agg = a /\ e.kind \in PaymentEvents)
    <3>1. Steps(l, S \cup {i}, a) = own
      BY <2>2 DEF Steps
    <3>2. ASSUME own # {} PROVE st[a] = m.status[a]
      <4>1. PICK j \in own : m.status[a] = l[j].kind
        BY <3>2 DEF StatusShows
      <4>2. m.status[a] # "absent"
        BY <4>1 DEF Steps
      <4>3. CASE e.agg # a
        BY <1>1, <1>2, <4>3 DEF Taken, StatusAfter
      <4>4. CASE e.agg = a
        BY <1>1, <1>2, <2>2, <4>2, <4>4 DEF Taken, StatusAfter
      <4>. QED  BY <4>3, <4>4
    <3>. QED  BY <3>1, <3>2 DEF StatusShows
  <2>. QED  BY <2>1, <2>2
<1>. QED  BY <1>3, <1>4, <1>5

LEMMA FedShows ==
  ASSUME NEW l \in Seq(Entry), NEW m \in Models(l), NEW q \in Seq(1..Len(l)), NEW to,
         NEW S, S \subseteq 1..Len(l),
         \A n \in 1..Len(q) : \A j \in S : l[j].agg = l[q[n]].agg => j < q[n],
         \A n, k \in 1..Len(q) : n < k => q[n] < q[k],
         NEW a \in Aggregates, ViewShows(m.view[a], l, S, a), StatusShows(m.status[a], l, S, a)
  PROVE  \A n \in 0..Len(q) :
           /\ ViewShows(Fed(m, l, q, to)[n].view[a], l, S \cup {q[k] : k \in 1..n}, a)
           /\ StatusShows(Fed(m, l, q, to)[n].status[a], l, S \cup {q[k] : k \in 1..n}, a)
<1>. DEFINE f == Fed(m, l, q, to)
            T(n) == S \cup {q[k] : k \in 1..n}
            Good(n) == ViewShows(f[n].view[a], l, T(n), a) /\ StatusShows(f[n].status[a], l, T(n), a)
            I == {n \in Nat : n <= Len(q) => Good(n)}
<1>0. Len(q) \in Nat
  OBVIOUS
<1>1. f[0] = m /\ \A i \in 1..Len(q) : f[i] = Taken(f[i - 1], l, q[i], to)
  <2>1. FedByStep(m, l, q, to)
    BY <1>0, FedSteps
  <2>. QED  BY <2>1 DEF FedByStep
<1>2. \A n \in 0..Len(q) : f[n] \in Models(l)
  BY FedType
<1>3. T(0) = S
  OBVIOUS
<1>4. \A n \in Nat : T(n + 1) = T(n) \cup {q[n + 1]}
  <2>. SUFFICES ASSUME NEW n \in Nat PROVE T(n + 1) = T(n) \cup {q[n + 1]}
    OBVIOUS
  <2>1. 1..(n + 1) = 1..n \cup {n + 1}
    OBVIOUS
  <2>. QED  BY <2>1
<1>5. \A n \in 0..Len(q) : T(n) \subseteq 1..Len(l)
  <2>. SUFFICES ASSUME NEW n \in 0..Len(q), NEW k \in 1..n PROVE q[k] \in 1..Len(l)
    OBVIOUS
  <2>. QED  BY <1>0
<1>6. ASSUME NEW n \in Nat, n + 1 <= Len(q)
      PROVE  \A j \in T(n) : l[j].agg = l[q[n + 1]].agg => j < q[n + 1]
  BY <1>0, <1>6
<1>. HIDE DEF f, T
<1>7. Good(0)
  BY <1>1, <1>3
<1>8. ASSUME NEW n \in Nat, n \in I PROVE n + 1 \in I
  <2>. SUFFICES ASSUME n + 1 <= Len(q) PROVE Good(n + 1)
    OBVIOUS
  <2>1. n + 1 \in 1..Len(q) /\ n \in 0..Len(q) /\ n + 1 - 1 = n /\ q[n + 1] \in 1..Len(l) /\ Good(n)
    BY <1>0, <1>8
  <2>2. f[n + 1] = Taken(f[n], l, q[n + 1], to)
    BY <1>1, <2>1
  <2>3. /\ ViewShows(Taken(f[n], l, q[n + 1], to).view[a], l, T(n) \cup {q[n + 1]}, a)
        /\ StatusShows(Taken(f[n], l, q[n + 1], to).status[a], l, T(n) \cup {q[n + 1]}, a)
    BY <1>2, <1>5, <1>6, <2>1, TakenShows
  <2>. QED  BY <1>4, <2>2, <2>3
<1>. HIDE DEF Good
<1>9. Nat \subseteq I
  BY <1>7, <1>8, Induction
<1>10. \A n \in 0..Len(q) : Good(n)
  BY <1>0, <1>9
<1>. QED  BY <1>10 DEF Good, f, T

LEMMA ReplayShows ==
  ASSUME NEW l \in Seq(Entry), NEW a \in Aggregates
  PROVE  ViewShows(Rebuilt(l).view[a], l, 1..Len(l), a) /\ StatusShows(Rebuilt(l).status[a], l, 1..Len(l), a)
<1>1. /\ InOrder(l) \in Seq(1..Len(l)) /\ Len(InOrder(l)) = Len(l) /\ Len(l) \in Nat
      /\ \A i \in 1..Len(l) : InOrder(l)[i] = i
      /\ Cleared \in Models(l)
  BY InOrderIsList
<1>2. ViewShows(Cleared.view[a], l, {}, a) /\ StatusShows(Cleared.status[a], l, {}, a)
  BY DEF ViewShows, StatusShows, Writes, Steps, Cleared
<1>3. \A n, k \in 1..Len(InOrder(l)) : n < k => InOrder(l)[n] < InOrder(l)[k]
  BY <1>1
<1>4. \A n \in 0..Len(InOrder(l)) :
        /\ ViewShows(Replay(l)[n].view[a], l, {} \cup {InOrder(l)[k] : k \in 1..n}, a)
        /\ StatusShows(Replay(l)[n].status[a], l, {} \cup {InOrder(l)[k] : k \in 1..n}, a)
  BY <1>1, <1>2, <1>3, FedShows DEF Replay
<1>5. {} \cup {InOrder(l)[k] : k \in 1..Len(l)} = 1..Len(l) /\ Len(l) \in 0..Len(InOrder(l))
  BY <1>1
<1>6. Rebuilt(l) = Replay(l)[Len(l)]
  BY DEF Rebuilt, Replay
<1>. QED  BY <1>4, <1>5, <1>6

\* What is shown of a set of events does not change when the log grows.
LEMMA StillShows ==
  ASSUME NEW l, NEW k, NEW S, \A i \in S : k[i] = l[i], NEW a, NEW v, NEW st,
         ViewShows(v, l, S, a), StatusShows(st, l, S, a)
  PROVE  ViewShows(v, k, S, a) /\ StatusShows(st, k, S, a)
<1>1. Writes(k, S, a) = Writes(l, S, a) /\ Steps(k, S, a) = Steps(l, S, a)
  BY DEF Writes, Steps
<1>2. Writes(l, S, a) \subseteq S /\ Steps(l, S, a) \subseteq S
  BY DEF Writes, Steps
<1>3. \A x, f : FieldShows(x, f, l, Writes(l, S, a)) => FieldShows(x, f, k, Writes(l, S, a))
  BY <1>2 DEF FieldShows
<1>4. ViewShows(v, k, S, a)
  BY <1>1, <1>3 DEF ViewShows
<1>5. StatusShows(st, k, S, a)
  BY <1>1, <1>2 DEF StatusShows
<1>. QED  BY <1>4, <1>5

\* Two sets with the same events of an aggregate that matter show the same of it.
LEMMA SameShows ==
  ASSUME NEW l, NEW S, NEW T, NEW a, NEW v, NEW st,
         \A i \in S \cup T : l[i].agg = a /\ (Sets[l[i].kind] # {} \/ l[i].kind \in PaymentEvents) => (i \in S <=> i \in T),
         ViewShows(v, l, S, a), StatusShows(st, l, S, a)
  PROVE  ViewShows(v, l, T, a) /\ StatusShows(st, l, T, a)
<1>1. Writes(l, S, a) = Writes(l, T, a) /\ Steps(l, S, a) = Steps(l, T, a)
  BY DEF Writes, Steps
<1>. QED  BY <1>1 DEF ViewShows, StatusShows

-----------------------------------------------------------------------------
(***************************************************************************)
(* The counter, with its floor, depends on the order of all that it        *)
(* counts: it is where a replay is at some place of the log.               *)
(***************************************************************************)
Counts(l, i) == l[i].kind \in DOMAIN Counted

\* The counter is where a replay is after p events, and the counted events of S are those up to p.
CountedTo(pending, l, S, p) ==
  /\ pending = Replay(l)[p].pending
  /\ \A i \in 1..Len(l) : Counts(l, i) => (i \in S <=> i <= p)

LEMMA QuietReplay ==
  ASSUME NEW l \in Seq(Entry), NEW n \in Nat, NEW k \in Nat, n <= k, k <= Len(l),
         \A i \in 1..Len(l) : n < i /\ i <= k => ~Counts(l, i)
  PROVE  Replay(l)[k].pending = Replay(l)[n].pending
<1>. DEFINE Good(d) == n + d <= k => Replay(l)[n + d].pending = Replay(l)[n].pending
            I == {d \in Nat : Good(d)}
<1>0. Len(l) \in Nat
  OBVIOUS
<1>1. 0 \in I
  OBVIOUS
<1>2. ASSUME NEW d \in Nat, d \in I PROVE d + 1 \in I
  <2>. SUFFICES ASSUME n + (d + 1) <= k PROVE Replay(l)[n + (d + 1)].pending = Replay(l)[n].pending
    OBVIOUS
  <2>1. n + (d + 1) \in 1..Len(l) /\ n + (d + 1) - 1 = n + d /\ ~Counts(l, n + (d + 1)) /\ Good(d) /\ n + d <= k
    BY <1>0, <1>2
  <2>2. Replay(l)[n + (d + 1)] = Taken(Replay(l)[n + d], l, n + (d + 1), "all")
    BY <2>1, ReplaySteps
  <2>3. Replay(l)[n + (d + 1)].pending = Replay(l)[n + d].pending
    BY <2>1, <2>2 DEF Taken, PendingAfter, Counts
  <2>. QED  BY <2>1, <2>3
<1>. HIDE DEF Good
<1>3. Nat \subseteq I
  BY <1>1, <1>2, Induction
<1>4. k - n \in Nat /\ n + (k - n) = k
  OBVIOUS
<1>5. Good(k - n)
  BY <1>3, <1>4
<1>. QED  BY <1>4, <1>5 DEF Good

LEMMA FedCounts ==
  ASSUME NEW l \in Seq(Entry), NEW m \in Models(l), NEW q \in Seq(1..Len(l)), NEW to,
         NEW S, S \subseteq 1..Len(l), NEW p \in 0..Len(l), CountedTo(m.pending, l, S, p),
         \A n \in 1..Len(q) : q[n] \notin S,
         \A n, k \in 1..Len(q) : n < k => q[n] < q[k],
         \A n \in 1..Len(q) : Counts(l, q[n]) =>
           \A j \in 1..Len(l) : Counts(l, j) /\ j < q[n] => j \in S \cup {q[k] : k \in 1..Len(q)}
  PROVE  \E r \in 0..Len(l) : CountedTo(Fed(m, l, q, to)[Len(q)].pending, l, S \cup {q[k] : k \in 1..Len(q)}, r)
<1>. DEFINE f == Fed(m, l, q, to)
            T(n) == S \cup {q[k] : k \in 1..n}
            Good(n) == \E r \in 0..Len(l) : CountedTo(f[n].pending, l, T(n), r)
            I == {n \in Nat : n <= Len(q) => Good(n)}
<1>0. Len(q) \in Nat /\ Len(l) \in Nat
  OBVIOUS
<1>1. f[0] = m /\ \A i \in 1..Len(q) : f[i] = Taken(f[i - 1], l, q[i], to)
  <2>1. FedByStep(m, l, q, to)
    BY <1>0, FedSteps
  <2>. QED  BY <2>1 DEF FedByStep
<1>3. T(0) = S
  OBVIOUS
<1>4. \A n \in Nat : T(n + 1) = T(n) \cup {q[n + 1]}
  <2>. SUFFICES ASSUME NEW n \in Nat PROVE T(n + 1) = T(n) \cup {q[n + 1]}
    OBVIOUS
  <2>1. 1..(n + 1) = 1..n \cup {n + 1}
    OBVIOUS
  <2>. QED  BY <2>1
<1>5. ASSUME NEW n \in Nat, n + 1 <= Len(q)
      PROVE  /\ q[n + 1] \notin T(n)
             /\ Counts(l, q[n + 1]) => \A j \in 1..Len(l) : Counts(l, j) /\ j < q[n + 1] => j \in T(n)
  <2>1. n + 1 \in 1..Len(q) /\ \A k \in 1..n : k \in 1..Len(q) /\ q[k] < q[n + 1]
    BY <1>0, <1>5
  <2>2. q[n + 1] \notin T(n)
    BY <2>1
  <2>3. ASSUME Counts(l, q[n + 1]), NEW j \in 1..Len(l), Counts(l, j), j < q[n + 1] PROVE j \in T(n)
    <3>1. j \in S \cup {q[k] : k \in 1..Len(q)}
      BY <2>1, <2>3
    <3>2. ASSUME NEW k \in 1..Len(q), j = q[k] PROVE k \in 1..n
      <4>1. ~(n + 1 < k) /\ k # n + 1
        BY <2>1, <2>3, <3>2
      <4>. QED  BY <4>1
    <3>. QED  BY <3>1, <3>2
  <2>. QED  BY <2>2, <2>3
<1>. HIDE DEF f, T
<1>7. Good(0)
  BY <1>1, <1>3
<1>8. ASSUME NEW n \in Nat, n \in I PROVE n + 1 \in I
  <2>. SUFFICES ASSUME n + 1 <= Len(q) PROVE Good(n + 1)
    OBVIOUS
  <2>1. n + 1 \in 1..Len(q) /\ n \in 0..Len(q) /\ n + 1 - 1 = n /\ q[n + 1] \in 1..Len(l) /\ Good(n)
    BY <1>0, <1>8
  <2>. DEFINE i == q[n + 1]
  <2>2. f[n + 1].pending = PendingAfter(f[n].pending, l[i])
    <3>1. f[n + 1] = Taken(f[n], l, i, to)
      BY <1>1, <2>1
    <3>. QED  BY <3>1 DEF Taken
  <2>3. PICK r \in 0..Len(l) : CountedTo(f[n].pending, l, T(n), r)
    BY <2>1
  <2>4. CASE ~Counts(l, i)
    <3>1. f[n + 1].pending = f[n].pending
      BY <2>2, <2>4 DEF PendingAfter, Counts
    <3>2. \A j \in 1..Len(l) : Counts(l, j) => (j \in T(n + 1) <=> j \in T(n))
      BY <1>4, <2>4
    <3>3. CountedTo(f[n + 1].pending, l, T(n + 1), r)
      BY <2>3, <3>1, <3>2 DEF CountedTo
    <3>. QED  BY <3>3
  <2>5. CASE Counts(l, i)
    <3>1. i \in 1..Len(l) /\ i \notin T(n) /\ \A j \in 1..Len(l) : Counts(l, j) /\ j < i => j \in T(n)
      BY <1>5, <2>1, <2>5
    <3>2. r < i
      BY <1>0, <2>3, <2>5, <3>1 DEF CountedTo
    <3>3. Replay(l)[i - 1].pending = Replay(l)[r].pending
      <4>1. \A j \in 1..Len(l) : r < j /\ j <= i - 1 => ~Counts(l, j)
        BY <1>0, <2>3, <3>1 DEF CountedTo
      <4>2. i - 1 \in Nat /\ r \in Nat /\ r <= i - 1 /\ i - 1 <= Len(l)
        BY <1>0, <3>1, <3>2
      <4>. QED  BY <4>1, <4>2, QuietReplay
    <3>4. Replay(l)[i].pending = PendingAfter(Replay(l)[i - 1].pending, l[i])
      <4>1. Replay(l)[i] = Taken(Replay(l)[i - 1], l, i, "all")
        BY <3>1, ReplaySteps
      <4>. QED  BY <4>1 DEF Taken
    <3>5. f[n + 1].pending = Replay(l)[i].pending
      BY <2>2, <2>3, <3>3, <3>4 DEF CountedTo
    <3>6. ASSUME NEW j \in 1..Len(l), Counts(l, j) PROVE j \in T(n + 1) <=> j <= i
      <4>1. j \in T(n + 1) <=> (j \in T(n) \/ j = i)
        BY <1>4
      <4>2. j \in T(n) => j < i
        BY <1>0, <2>3, <3>2, <3>6 DEF CountedTo
      <4>3. j < i => j \in T(n)
        BY <3>1, <3>6
      <4>. QED  BY <1>0, <3>1, <4>1, <4>2, <4>3
    <3>7. CountedTo(f[n + 1].pending, l, T(n + 1), i) /\ i \in 0..Len(l)
      BY <1>0, <3>1, <3>5, <3>6 DEF CountedTo
    <3>. QED  BY <3>7
  <2>. QED  BY <2>4, <2>5
<1>. HIDE DEF Good
<1>9. Nat \subseteq I
  BY <1>7, <1>8, Induction
<1>10. Good(Len(q))
  BY <1>0, <1>9
<1>. QED  BY <1>10 DEF Good, f, T

-----------------------------------------------------------------------------
(***************************************************************************)
(* The inductive invariant.                                                *)
(***************************************************************************)
\* What an open command has in hand: its events, in their order, none of them handed over.
HandInv ==
  \A c \in Commands :
    /\ pc[c] = "idle" => \A i \in 1..Len(log) : log[i].by # c
    /\ pc[c] = "open" =>
         /\ \A n \in 1..Len(inHand[c]) : log[inHand[c][n]].by = c /\ inHand[c][n] \notin models.timeline
         /\ \A i \in 1..Len(log) : log[i].by = c => \E n \in 1..Len(inHand[c]) : i = inHand[c][n]
         /\ \A n, k \in 1..Len(inHand[c]) : n < k => inHand[c][n] < inHand[c][k]

\* Where an event comes from.
OriginInv ==
  \A i \in 1..Len(log) :
    \/ log[i].by = "aside" /\ log[i].kind \in Aside
    \/ log[i].by \in Commands /\ \E b \in Batches[log[i].agg] : \E n \in 1..Len(b) : log[i].kind = b[n]

\* Events whose commands may not overlap.
Near(i, j) == log[i].agg = log[j].agg \/ overlap = "none"

\* What is in hand comes after all that was handed over, and is in one hand.
OrderInv ==
  overlap # "any" =>
    \A c \in Open : \A n \in 1..Len(inHand[c]) :
      /\ \A j \in models.timeline : Near(inHand[c][n], j) => j < inHand[c][n]
      /\ \A d \in Open : \A k \in 1..Len(inHand[d]) : Near(inHand[c][n], inHand[d][k]) => c = d

ShowInv ==
  overlap # "any" =>
    \A a \in Aggregates : /\ ViewShows(models.view[a], log, models.timeline, a)
                          /\ StatusShows(models.status[a], log, models.timeline, a)

NoneLost == \A i \in 1..Len(log) : Counts(log, i) /\ log[i].by \in Commands => pc[log[i].by] # "lost"
CountInv ==
  overlap # "any" /\ NoneLost => \E p \in 0..Len(log) : CountedTo(models.pending, log, models.timeline, p)

\* An entry of the cache has all that had been handed over before it was made.
CacheInv ==
  /\ cache # None => \A i \in models.timeline : handledAt[i] < cache.at => i \in cache.ids
  /\ AnswerWithinTtl

Base == TypeOK /\ HandInv /\ OriginInv /\ TimelineKnowsCommands

LEMMA TypeFacts ==
  ASSUME TypeOK
  PROVE  /\ log \in Seq(Entry) /\ Len(log) \in Nat /\ Ids = 1..Len(log)
         /\ models \in Models(log) /\ models.timeline \subseteq 1..Len(log)
         /\ \A i \in 1..Len(log) : log[i] \in Entry /\ log[i].kind \in Kinds /\ log[i].agg \in Aggregates
                                   /\ log[i].by \in Commands \cup {"aside"}
         /\ \A c \in Commands : inHand[c] \in Seq(1..Len(log)) /\ Len(inHand[c]) \in Nat
<1>1. log \in Seq(Entry)
  BY DEF TypeOK, Entry
<1>2. Len(log) \in Nat /\ Ids = 1..Len(log)
  BY <1>1 DEF Ids
<1>3. models \in Models(log)
  BY <1>2 DEF TypeOK, Models
<1>4. models.timeline \subseteq 1..Len(log)
  BY <1>3 DEF Models
<1>5. ASSUME NEW i \in 1..Len(log) PROVE log[i] \in Entry
  BY <1>1, <1>5
<1>6. ASSUME NEW i \in 1..Len(log)
      PROVE  log[i].kind \in Kinds /\ log[i].agg \in Aggregates /\ log[i].by \in Commands \cup {"aside"}
  BY <1>5, <1>6 DEF Entry
<1>7. ASSUME NEW c \in Commands PROVE inHand[c] \in Seq(1..Len(log))
  BY <1>2 DEF TypeOK
<1>8. ASSUME NEW c \in Commands PROVE Len(inHand[c]) \in Nat
  BY <1>7
<1>. QED  BY <1>1, <1>2, <1>3, <1>4, <1>5, <1>6, <1>7, <1>8

\* The log only grows.
Grows ==
  /\ log' \in Seq(Entry) /\ Len(log') \in Nat /\ Len(log) <= Len(log')
  /\ \A i \in 1..Len(log) : i \in 1..Len(log') /\ log'[i] = log[i]

LEMMA Joined ==
  ASSUME NEW S, NEW s \in Seq(S), NEW t \in Seq(S)
  PROVE  /\ s \o t \in Seq(S) /\ Len(s \o t) = Len(s) + Len(t)
         /\ \A i \in 1..Len(s) : (s \o t)[i] = s[i]
         /\ \A i \in 1..Len(t) : (s \o t)[Len(s) + i] = t[i]
OBVIOUS

Appends(c, a, b) == log' = log \o [i \in DOMAIN b |-> Event(b[i], a, c)]
Appended(c, a, b) ==
  /\ Grows /\ Len(b) \in Nat /\ Len(log') = Len(log) + Len(b) /\ DOMAIN b = 1..Len(b)
  /\ \A i \in 1..Len(b) : log'[Len(log) + i].by = c /\ log'[Len(log) + i].agg = a /\ log'[Len(log) + i].kind = b[i]
  /\ \A i \in 1..Len(log') : i \notin 1..Len(log) => \E n \in 1..Len(b) : i = Len(log) + n

LEMMA CommitAppends ==
  ASSUME TypeOK, NEW c \in Commands, NEW a \in Aggregates, NEW b \in Batches[a], Appends(c, a, b)
  PROVE  Appended(c, a, b)
<1>. DEFINE new == [i \in 1..Len(b) |-> Event(b[i], a, c)]
<1>1. b \in Seq(Kinds)
  BY ProjectionsAssumption
<1>2. Len(b) \in Nat /\ DOMAIN b = 1..Len(b) /\ \A i \in 1..Len(b) : b[i] \in Kinds
  BY <1>1
<1>3. \A i \in 1..Len(b) : Event(b[i], a, c) \in Entry
  BY <1>2 DEF Event, Entry
<1>4. new \in Seq(Entry) /\ Len(new) = Len(b)
  BY <1>2, <1>3
<1>n. \A i \in 1..Len(b) : new[i].by = c /\ new[i].agg = a /\ new[i].kind = b[i]
  BY DEF Event
<1>5. log' = log \o new /\ log \in Seq(Entry) /\ Len(log) \in Nat
  BY <1>2, TypeFacts DEF Appends
<1>. HIDE DEF new
<1>6. /\ log' \in Seq(Entry) /\ Len(log') = Len(log) + Len(b)
      /\ \A i \in 1..Len(log) : log'[i] = log[i]
      /\ \A i \in 1..Len(b) : log'[Len(log) + i] = new[i]
  <2>1. ASSUME NEW t \in Seq(Entry)
        PROVE  /\ log \o t \in Seq(Entry) /\ Len(log \o t) = Len(log) + Len(t)
               /\ \A i \in 1..Len(log) : (log \o t)[i] = log[i]
               /\ \A i \in 1..Len(t) : (log \o t)[Len(log) + i] = t[i]
    BY <1>5, Joined
  <2>. QED  BY <1>4, <1>5, <2>1
<1>7. ASSUME NEW i \in 1..Len(log'), i \notin 1..Len(log) PROVE \E n \in 1..Len(b) : i = Len(log) + n
  <2>1. i - Len(log) \in 1..Len(b) /\ i = Len(log) + (i - Len(log))
    BY <1>2, <1>5, <1>6, <1>7
  <2>. QED  BY <2>1
<1>8. Grows
  BY <1>2, <1>5, <1>6 DEF Grows
<1>. QED  BY <1>2, <1>n, <1>6, <1>7, <1>8 DEF Appended

LEMMA AsideAppends ==
  ASSUME TypeOK, AppendAside
  PROVE  /\ Grows /\ Len(log') = Len(log) + 1
         /\ log'[Len(log')].by = "aside" /\ log'[Len(log')].kind \in Aside
<1>1. PICK k \in Aside, a \in Aggregates : log' = Append(log, Event(k, a, "aside"))
  BY DEF AppendAside
<1>2. Event(k, a, "aside") \in Entry /\ Event(k, a, "aside").by = "aside" /\ Event(k, a, "aside").kind = k
  BY ProjectionsAssumption DEF Event, Entry
<1>3. log \in Seq(Entry) /\ Len(log) \in Nat
  BY TypeFacts
<1>. DEFINE e == Event(k, a, "aside")
<1>. HIDE DEF e
<1>4. log' = Append(log, e) /\ e \in Entry /\ e.by = "aside" /\ e.kind \in Aside
  BY <1>1, <1>2 DEF e
<1>. QED  BY <1>3, <1>4 DEF Grows

LEMMA SeqWidens ==
  ASSUME NEW S, NEW T, S \subseteq T, NEW s \in Seq(S)
  PROVE  s \in Seq(T)
OBVIOUS

LEMMA ModelsGrow ==
  ASSUME TypeOK, Grows
  PROVE  models \in Models(log')
<1>1. models \in Models(log) /\ Len(log) \in Nat /\ Len(log') \in Nat /\ Len(log) <= Len(log')
  BY TypeFacts DEF Grows
<1>2. -1..Len(log) \subseteq -1..Len(log') /\ 1..Len(log) \subseteq 1..Len(log')
  BY <1>1
<1>3. [Aggregates -> [Fields -> -1..Len(log)]] \subseteq [Aggregates -> [Fields -> -1..Len(log')]]
  BY <1>2
<1>. QED  BY <1>1, <1>2, <1>3 DEF Models

\* What a command's events make of the models when it hands them over.
LEMMA ProjectFeeds ==
  ASSUME Base, NEW c \in Open, Project(c)
  PROVE  /\ models' \in Models(log)
         /\ models'.timeline = models.timeline \cup Range(inHand[c])
         /\ Range(inHand[c]) = {inHand[c][n] : n \in 1..Len(inHand[c])}
         /\ Range(inHand[c]) \subseteq 1..Len(log)
<1>1. c \in Commands
  BY DEF Open
<1>2. log \in Seq(Entry) /\ models \in Models(log) /\ inHand[c] \in Seq(1..Len(log)) /\ Len(inHand[c]) \in Nat
  BY <1>1, TypeFacts DEF Base
<1>3. models' = Fed(models, log, inHand[c], "subscribed")[Len(inHand[c])]
  BY DEF Project
<1>4. /\ models' \in Models(log)
      /\ models'.timeline = models.timeline \cup {inHand[c][n] : n \in 1..Len(inHand[c])}
  <2>1. Len(inHand[c]) \in 0..Len(inHand[c])
    BY <1>2
  <2>2. \A n \in 0..Len(inHand[c]) :
          /\ Fed(models, log, inHand[c], "subscribed")[n] \in Models(log)
          /\ Fed(models, log, inHand[c], "subscribed")[n].timeline = models.timeline \cup {inHand[c][k] : k \in 1..n}
    BY <1>2, FedType
  <2>. QED  BY <1>3, <2>1, <2>2
<1>5. Range(inHand[c]) = {inHand[c][n] : n \in 1..Len(inHand[c])}
  BY <1>2 DEF Range
<1>6. Range(inHand[c]) \subseteq 1..Len(log)
  BY <1>2, <1>5
<1>. QED  BY <1>4, <1>5, <1>6

LEMMA InitBase == Init => Base
<1>. SUFFICES ASSUME Init PROVE Base
  OBVIOUS
<1>. USE ProjectionsAssumption
<1>1. log = <<>> /\ Len(log) = 0 /\ Ids = {} /\ models = Cleared
  BY DEF Init, Ids
<1>2. Cleared \in Models(<<>>)
  BY DEF Cleared, Models, NoRecord
<1>3. TypeOK
  <2>1. log \in Seq([kind : Kinds, agg : Aggregates, by : Commands \cup {"aside"}])
    BY <1>1
  <2>2. models \in [view : [Aggregates -> [Fields -> -1..Len(log)]], timeline : SUBSET Ids,
                    status : [Aggregates -> PaymentEvents \cup {"absent", "UNKNOWN"}], pending : Nat]
    BY <1>1 DEF Cleared, NoRecord
  <2>3. handledAt = <<>> /\ DOMAIN handledAt = {} /\ models.timeline = {}
    BY <1>1 DEF Init, Cleared
  <2>4. cache \in [at : 0..now, ids : SUBSET Ids] /\ answer \in [at : 0..now, ids : SUBSET Ids]
    BY DEF Init, None
  <2>5. inHand \in [Commands -> Seq(Ids)] /\ pc \in [Commands -> {"idle", "open", "lost", "done"}]
    BY DEF Init
  <2>. QED  BY <2>1, <2>2, <2>3, <2>4, <2>5 DEF TypeOK, Init
<1>4. HandInv
  BY <1>1 DEF HandInv, Init
<1>5. OriginInv
  BY <1>1 DEF OriginInv
<1>6. TimelineKnowsCommands
  BY <1>1 DEF TimelineKnowsCommands, Cleared
<1>. QED  BY <1>3, <1>4, <1>5, <1>6 DEF Base

\* What a commit does to the command's own state, its events being appended.
Handed(c, b) ==
  /\ pc[c] = "idle" /\ UNCHANGED <<overlap, models, cache, answer, handledAt, now, boots>>
  /\ pc' \in [Commands -> {"idle", "open", "lost", "done"}] /\ pc'[c] \in {"open", "lost"}
  /\ \A d \in Commands : d # c => pc'[d] = pc[d] /\ inHand'[d] = inHand[d]
  /\ pc'[c] = "open" => inHand'[c] = [i \in 1..Len(b) |-> Len(log) + i]
  /\ inHand' = inHand \/ inHand' = [inHand EXCEPT ![c] = [i \in 1..Len(b) |-> Len(log) + i]]

LEMMA CommitEffect ==
  ASSUME TypeOK, NEW c \in Commands, Commit(c)
  PROVE  \E a \in Aggregates : \E b \in Batches[a] : ~ Meets(c, a) /\ Appended(c, a, b) /\ Handed(c, b)
<1>. USE ProjectionsAssumption
<1>1. PICK a \in Aggregates : \E b \in Batches[a] :
        /\ ~ Meets(c, a)
        /\ log' = log \o [i \in DOMAIN b |-> Event(b[i], a, c)]
        /\ \/ /\ pc' = [pc EXCEPT ![c] = "open"]
              /\ inHand' = [inHand EXCEPT ![c] = [i \in DOMAIN b |-> Len(log) + i]]
           \/ AckMayBeLost /\ pc' = [pc EXCEPT ![c] = "lost"] /\ UNCHANGED inHand
  BY DEF Commit
<1>2. PICK b \in Batches[a] :
        /\ ~ Meets(c, a)
        /\ log' = log \o [i \in DOMAIN b |-> Event(b[i], a, c)]
        /\ \/ /\ pc' = [pc EXCEPT ![c] = "open"]
              /\ inHand' = [inHand EXCEPT ![c] = [i \in DOMAIN b |-> Len(log) + i]]
           \/ AckMayBeLost /\ pc' = [pc EXCEPT ![c] = "lost"] /\ UNCHANGED inHand
  BY <1>1
<1>3. Appended(c, a, b)
  BY <1>2, CommitAppends DEF Appends
<1>4. DOMAIN b = 1..Len(b)
  BY <1>3 DEF Appended
<1>5. /\ pc' \in [Commands -> {"idle", "open", "lost", "done"}] /\ pc'[c] \in {"open", "lost"}
      /\ \A d \in Commands : d # c => pc'[d] = pc[d] /\ inHand'[d] = inHand[d]
      /\ pc'[c] = "open" => inHand'[c] = [i \in 1..Len(b) |-> Len(log) + i]
      /\ inHand' = inHand \/ inHand' = [inHand EXCEPT ![c] = [i \in 1..Len(b) |-> Len(log) + i]]
  <2>1. pc \in [Commands -> {"idle", "open", "lost", "done"}] /\ inHand \in [Commands -> Seq(Ids)]
    BY DEF TypeOK
  <2>2. CASE /\ pc' = [pc EXCEPT ![c] = "open"]
             /\ inHand' = [inHand EXCEPT ![c] = [i \in 1..Len(b) |-> Len(log) + i]]
    BY <2>1, <2>2
  <2>3. CASE pc' = [pc EXCEPT ![c] = "lost"] /\ UNCHANGED inHand
    BY <2>1, <2>3
  <2>. QED  BY <1>2, <1>4, <2>2, <2>3
<1>6. Handed(c, b)
  BY <1>5 DEF Handed, Commit
<1>. QED  BY <1>2, <1>3, <1>6

LEMMA CommitBase ==
  ASSUME Base, NEW c \in Commands, Commit(c)
  PROVE  Base'
<1>. USE ProjectionsAssumption
<1>0. TypeOK /\ HandInv /\ OriginInv /\ TimelineKnowsCommands
  BY DEF Base
<1>a. PICK a \in Aggregates : \E b \in Batches[a] : Appended(c, a, b) /\ Handed(c, b)
  BY <1>0, CommitEffect
<1>1. PICK b \in Batches[a] : Appended(c, a, b) /\ Handed(c, b)
  BY <1>a
<1>2. pc[c] = "idle" /\ UNCHANGED <<overlap, models, cache, answer, handledAt, now, boots>>
  BY <1>1 DEF Handed
<1>3. Appended(c, a, b)
  BY <1>1
<1>4. /\ log' \in Seq(Entry) /\ Len(log) \in Nat /\ Len(log') \in Nat /\ Ids = 1..Len(log) /\ Ids' = 1..Len(log')
      /\ 1..Len(log) \subseteq 1..Len(log') /\ \A i \in 1..Len(log) : log'[i] = log[i]
      /\ models.timeline \subseteq 1..Len(log)
      /\ \A d \in Commands : inHand[d] \in Seq(1..Len(log)) /\ Len(inHand[d]) \in Nat
  <2>1. log' \in Seq(Entry) /\ Ids' = 1..Len(log') /\ 1..Len(log) \subseteq 1..Len(log')
        /\ \A i \in 1..Len(log) : log'[i] = log[i]
    <3>1. Grows
      BY <1>3 DEF Appended
    <3>2. Ids' = 1..Len(log')
      BY <3>1 DEF Grows, Ids
    <3>. QED  BY <3>1, <3>2 DEF Grows
  <2>2. Len(log') \in Nat
    BY <2>1
  <2>. QED  BY <1>0, <2>1, <2>2, TypeFacts
<1>5. DOMAIN b = 1..Len(b) /\ Len(b) \in Nat /\ Len(log') = Len(log) + Len(b)
  BY <1>3 DEF Appended
<1>6. \A i \in 1..Len(b) : log'[Len(log) + i].by = c /\ log'[Len(log) + i].agg = a /\ log'[Len(log) + i].kind = b[i]
  BY <1>3 DEF Appended
<1>e. \A i \in 1..Len(log') : i \notin 1..Len(log) => \E n \in 1..Len(b) : i = Len(log) + n
  BY <1>3 DEF Appended
<1>h. /\ pc' \in [Commands -> {"idle", "open", "lost", "done"}] /\ pc'[c] \in {"open", "lost"}
      /\ \A d \in Commands : d # c => pc'[d] = pc[d] /\ inHand'[d] = inHand[d]
      /\ pc'[c] = "open" => inHand'[c] = [i \in 1..Len(b) |-> Len(log) + i]
      /\ inHand' = inHand \/ inHand' = [inHand EXCEPT ![c] = [i \in 1..Len(b) |-> Len(log) + i]]
  BY <1>1 DEF Handed
<1>7. TypeOK'
  <2>1. models' \in Models(log')
    BY <1>0, <1>2, <1>3, ModelsGrow DEF Appended
  <2>2. inHand' \in [Commands -> Seq(Ids')]
    <3>1. [i \in 1..Len(b) |-> Len(log) + i] \in Seq(1..Len(log'))
      BY <1>4, <1>5
    <3>2. \A d \in Commands : inHand[d] \in Seq(1..Len(log'))
      BY <1>4, SeqWidens
    <3>3. inHand \in [Commands -> Seq(Ids)]
      BY <1>0 DEF TypeOK
    <3>. QED  BY <1>h, <1>4, <3>1, <3>2, <3>3
  <2>3. pc' \in [Commands -> {"idle", "open", "lost", "done"}]
    BY <1>h
  <2>4. cache' \in [at : 0..now', ids : SUBSET Ids'] /\ answer' \in [at : 0..now', ids : SUBSET Ids']
    BY <1>0, <1>2, <1>4 DEF TypeOK
  <2>. QED  BY <1>0, <1>2, <1>4, <2>1, <2>2, <2>3, <2>4 DEF TypeOK, Models, Entry
<1>8. HandInv'
  <2>. SUFFICES ASSUME NEW d \in Commands
       PROVE  /\ pc'[d] = "idle" => \A i \in 1..Len(log') : log'[i].by # d
              /\ pc'[d] = "open" =>
                   /\ \A n \in 1..Len(inHand'[d]) : log'[inHand'[d][n]].by = d /\ inHand'[d][n] \notin models.timeline
                   /\ \A i \in 1..Len(log') : log'[i].by = d => \E n \in 1..Len(inHand'[d]) : i = inHand'[d][n]
                   /\ \A n, k \in 1..Len(inHand'[d]) : n < k => inHand'[d][n] < inHand'[d][k]
    BY <1>2 DEF HandInv
  <2>1. CASE d # c
    <3>1. pc'[d] = pc[d] /\ inHand'[d] = inHand[d]
      BY <1>h, <2>1
    <3>2. \A i \in 1..Len(log') : log'[i].by = d => i \in 1..Len(log) /\ log[i].by = d
      BY <1>4, <1>6, <1>e, <2>1
    <3>3. \A n \in 1..Len(inHand[d]) : inHand[d][n] \in 1..Len(log)
      BY <1>4
    <3>4. \A n \in 1..Len(inHand[d]) : log'[inHand[d][n]] = log[inHand[d][n]]
      BY <1>4, <3>3
    <3>. QED  BY <1>0, <3>1, <3>2, <3>3, <3>4 DEF HandInv
  <2>2. CASE d = c
    <3>. SUFFICES ASSUME pc'[c] = "open"
         PROVE  /\ \A n \in 1..Len(inHand'[c]) : log'[inHand'[c][n]].by = c /\ inHand'[c][n] \notin models.timeline
                /\ \A i \in 1..Len(log') : log'[i].by = c => \E n \in 1..Len(inHand'[c]) : i = inHand'[c][n]
                /\ \A n, k \in 1..Len(inHand'[c]) : n < k => inHand'[c][n] < inHand'[c][k]
      BY <1>h, <2>2
    <3>1. inHand'[c] = [i \in 1..Len(b) |-> Len(log) + i]
      BY <1>h
    <3>2. Len(inHand'[c]) = Len(b) /\ \A n \in 1..Len(b) : inHand'[c][n] = Len(log) + n
      BY <1>5, <3>1
    <3>3. \A n \in 1..Len(b) : Len(log) + n \notin models.timeline
      BY <1>4
    <3>4. \A i \in 1..Len(log') : log'[i].by = c => i \notin 1..Len(log)
      BY <1>0, <1>2, <1>4 DEF HandInv
    <3>5. ASSUME NEW n \in 1..Len(inHand'[c]) PROVE log'[inHand'[c][n]].by = c /\ inHand'[c][n] \notin models.timeline
      <4>1. n \in 1..Len(b) /\ inHand'[c][n] = Len(log) + n
        BY <3>2, <3>5
      <4>2. log'[Len(log) + n].by = c /\ Len(log) + n \notin models.timeline
        BY <1>6, <3>3, <4>1
      <4>. QED  BY <4>1, <4>2
    <3>6. ASSUME NEW i \in 1..Len(log'), log'[i].by = c PROVE \E n \in 1..Len(inHand'[c]) : i = inHand'[c][n]
      <4>1. PICK n \in 1..Len(b) : i = Len(log) + n
        BY <1>e, <3>4, <3>6
      <4>2. n \in 1..Len(inHand'[c]) /\ i = inHand'[c][n]
        BY <3>2, <4>1
      <4>. QED  BY <4>2
    <3>7. \A n, k \in 1..Len(inHand'[c]) : n < k => inHand'[c][n] < inHand'[c][k]
      BY <1>4, <1>5, <3>2
    <3>. QED  BY <3>5, <3>6, <3>7
  <2>. QED  BY <2>1, <2>2
<1>9. OriginInv'
  <2>. SUFFICES ASSUME NEW i \in 1..Len(log')
       PROVE  \/ log'[i].by = "aside" /\ log'[i].kind \in Aside
              \/ log'[i].by \in Commands /\ \E x \in Batches[log'[i].agg] : \E n \in 1..Len(x) : log'[i].kind = x[n]
    BY DEF OriginInv
  <2>1. CASE i \in 1..Len(log)
    <3>1. log'[i] = log[i]
      BY <1>4, <2>1
    <3>. QED  BY <1>0, <2>1, <3>1 DEF OriginInv
  <2>2. CASE i \notin 1..Len(log)
    <3>1. PICK n \in 1..Len(b) : i = Len(log) + n
      BY <1>e, <2>2
    <3>. QED  BY <1>6, <3>1
  <2>. QED  BY <2>1, <2>2
<1>10. TimelineKnowsCommands'
  <2>1. models'.timeline \subseteq Ids'
    BY <1>2, <1>4
  <2>2. ASSUME NEW i \in Ids', log'[i].by # "aside" PROVE i \in models'.timeline \cup Withheld'
    <3>1. CASE i \in 1..Len(log)
      <4>1. log'[i] = log[i] /\ i \in models.timeline \cup Withheld
        BY <1>0, <1>4, <2>2, <3>1 DEF TimelineKnowsCommands
      <4>2. i \in Withheld => i \in Withheld'
        BY <1>0, <1>2, <1>4, <1>h, <2>2, <4>1 DEF Withheld
      <4>. QED  BY <1>2, <4>1, <4>2
    <3>2. CASE i \notin 1..Len(log)
      <4>1. log'[i].by = c
        <5>1. PICK n \in 1..Len(b) : i = Len(log) + n
          BY <1>4, <1>e, <3>2
        <5>. QED  BY <1>6, <5>1
      <4>2. pc'[c] \in {"open", "lost"}
        BY <1>h
      <4>. QED  BY <2>2, <4>1, <4>2 DEF Withheld
    <3>. QED  BY <3>1, <3>2
  <2>. QED  BY <2>1, <2>2 DEF TimelineKnowsCommands
<1>. QED  BY <1>7, <1>8, <1>9, <1>10 DEF Base

LEMMA ProjectBase ==
  ASSUME Base, NEW c \in Open, Project(c)
  PROVE  Base'
<1>0. TypeOK /\ HandInv /\ OriginInv /\ TimelineKnowsCommands /\ c \in Commands /\ pc[c] = "open"
  BY DEF Base, Open
<1>1. /\ pc' = [pc EXCEPT ![c] = "done"]
      /\ UNCHANGED <<overlap, log, inHand, cache, answer, now, boots>>
      /\ handledAt' = [i \in DOMAIN handledAt \cup Range(inHand[c]) |->
                         IF i \in DOMAIN handledAt THEN handledAt[i] ELSE now]
  BY DEF Project
<1>2. /\ models' \in Models(log) /\ models'.timeline = models.timeline \cup Range(inHand[c])
      /\ Range(inHand[c]) = {inHand[c][n] : n \in 1..Len(inHand[c])}
      /\ Range(inHand[c]) \subseteq 1..Len(log)
  BY ProjectFeeds
<1>3. /\ log \in Seq(Entry) /\ Len(log) \in Nat /\ Ids = 1..Len(log) /\ Ids' = 1..Len(log)
      /\ \A d \in Commands : inHand[d] \in Seq(1..Len(log)) /\ Len(inHand[d]) \in Nat
      /\ models.timeline \subseteq 1..Len(log)
  BY <1>0, <1>1, TypeFacts DEF Ids
<1>4. TypeOK'
  <2>1. DOMAIN handledAt = models.timeline /\ now \in 1..MaxTime
        /\ \A i \in DOMAIN handledAt : handledAt[i] \in 1..now
    BY <1>0 DEF TypeOK
  <2>2. DOMAIN handledAt' = models'.timeline /\ \A i \in DOMAIN handledAt' : handledAt'[i] \in 1..now
    <3>1. MaxTime \in Nat /\ now \in 1..now
      BY <2>1, ProjectionsAssumption
    <3>. QED  BY <1>1, <1>2, <2>1, <3>1
  <2>3. pc' \in [Commands -> {"idle", "open", "lost", "done"}]
    BY <1>0, <1>1 DEF TypeOK
  <2>4. models' \in [view : [Aggregates -> [Fields -> -1..Len(log)]], timeline : SUBSET Ids,
                     status : [Aggregates -> PaymentEvents \cup {"absent", "UNKNOWN"}], pending : Nat]
    BY <1>2, <1>3 DEF Models
  <2>. QED  BY <1>0, <1>1, <1>3, <2>1, <2>2, <2>3, <2>4 DEF TypeOK
<1>5. HandInv'
  <2>. SUFFICES ASSUME NEW d \in Commands
       PROVE  /\ pc'[d] = "idle" => \A i \in 1..Len(log) : log[i].by # d
              /\ pc'[d] = "open" =>
                   /\ \A n \in 1..Len(inHand[d]) : log[inHand[d][n]].by = d /\ inHand[d][n] \notin models'.timeline
                   /\ \A i \in 1..Len(log) : log[i].by = d => \E n \in 1..Len(inHand[d]) : i = inHand[d][n]
                   /\ \A n, k \in 1..Len(inHand[d]) : n < k => inHand[d][n] < inHand[d][k]
    BY <1>1 DEF HandInv
  <2>1. CASE d = c
    BY <1>0, <1>1, <2>1 DEF TypeOK
  <2>2. CASE d # c
    <3>1. pc'[d] = pc[d]
      BY <1>0, <1>1, <2>2 DEF TypeOK
    <3>2. ASSUME pc[d] = "open", NEW n \in 1..Len(inHand[d]) PROVE inHand[d][n] \notin Range(inHand[c])
      BY <1>0, <1>2, <2>2, <3>2 DEF HandInv
    <3>. QED  BY <1>0, <1>2, <3>1, <3>2 DEF HandInv
  <2>. QED  BY <2>1, <2>2
<1>6. OriginInv'
  BY <1>0, <1>1 DEF OriginInv
<1>7. TimelineKnowsCommands'
  <2>1. models'.timeline \subseteq Ids'
    BY <1>2, <1>3
  <2>2. ASSUME NEW i \in Ids', log'[i].by # "aside" PROVE i \in models'.timeline \cup Withheld'
    <3>1. i \in Ids /\ i \in models.timeline \cup Withheld /\ log' = log
      BY <1>0, <1>1, <1>3, <2>2 DEF TimelineKnowsCommands
    <3>2. CASE i \in Withheld /\ log[i].by = c
      <4>1. i \in Range(inHand[c])
        BY <1>0, <1>2, <1>3, <3>1, <3>2 DEF HandInv
      <4>. QED  BY <1>2, <4>1
    <3>3. CASE i \in Withheld /\ log[i].by # c
      BY <1>0, <1>1, <1>3, <3>1, <3>3 DEF Withheld, TypeOK
    <3>. QED  BY <1>2, <3>1, <3>2, <3>3
  <2>. QED  BY <2>1, <2>2 DEF TimelineKnowsCommands
<1>. QED  BY <1>4, <1>5, <1>6, <1>7 DEF Base

LEMMA AsideBase ==
  ASSUME Base, AppendAside
  PROVE  Base'
<1>0. TypeOK /\ HandInv /\ OriginInv /\ TimelineKnowsCommands
  BY DEF Base
<1>1. UNCHANGED <<overlap, models, pc, inHand, cache, answer, handledAt, now, boots>>
  BY DEF AppendAside
<1>2. /\ Grows /\ Len(log') = Len(log) + 1
      /\ log'[Len(log')].by = "aside" /\ log'[Len(log')].kind \in Aside
  BY <1>0, AsideAppends
<1>3. /\ log' \in Seq(Entry) /\ Len(log) \in Nat /\ Len(log') \in Nat /\ Ids = 1..Len(log) /\ Ids' = 1..Len(log')
      /\ 1..Len(log) \subseteq 1..Len(log') /\ \A i \in 1..Len(log) : log'[i] = log[i]
      /\ models.timeline \subseteq 1..Len(log)
      /\ \A d \in Commands : inHand[d] \in Seq(1..Len(log)) /\ Len(inHand[d]) \in Nat
  BY <1>0, <1>2, TypeFacts DEF Grows, Ids
<1>4. \A i \in 1..Len(log') : i \in 1..Len(log) \/ i = Len(log')
  BY <1>2, <1>3
<1>5. "aside" \notin Commands
  BY ProjectionsAssumption
<1>6. TypeOK'
  <2>1. models' \in Models(log')
    BY <1>0, <1>1, <1>2, ModelsGrow
  <2>2. inHand' \in [Commands -> Seq(Ids')]
    <3>1. \A d \in Commands : inHand[d] \in Seq(1..Len(log'))
      BY <1>3, SeqWidens
    <3>2. inHand \in [Commands -> Seq(Ids)]
      BY <1>0 DEF TypeOK
    <3>. QED  BY <1>1, <1>3, <3>1, <3>2
  <2>4. cache' \in [at : 0..now', ids : SUBSET Ids'] /\ answer' \in [at : 0..now', ids : SUBSET Ids']
    BY <1>0, <1>1, <1>3 DEF TypeOK
  <2>. QED  BY <1>0, <1>1, <1>3, <2>1, <2>2, <2>4 DEF TypeOK, Models, Entry
<1>7. HandInv'
  <2>. SUFFICES ASSUME NEW d \in Commands
       PROVE  /\ pc[d] = "idle" => \A i \in 1..Len(log') : log'[i].by # d
              /\ pc[d] = "open" =>
                   /\ \A n \in 1..Len(inHand[d]) : log'[inHand[d][n]].by = d /\ inHand[d][n] \notin models.timeline
                   /\ \A i \in 1..Len(log') : log'[i].by = d => \E n \in 1..Len(inHand[d]) : i = inHand[d][n]
                   /\ \A n, k \in 1..Len(inHand[d]) : n < k => inHand[d][n] < inHand[d][k]
    BY <1>1 DEF HandInv
  <2>1. \A i \in 1..Len(log') : log'[i].by = d => i \in 1..Len(log) /\ log[i].by = d
    BY <1>2, <1>3, <1>4, <1>5
  <2>2. \A n \in 1..Len(inHand[d]) : inHand[d][n] \in 1..Len(log)
    BY <1>3
  <2>. QED  BY <1>0, <1>3, <2>1, <2>2 DEF HandInv
<1>8. OriginInv'
  <2>. SUFFICES ASSUME NEW i \in 1..Len(log')
       PROVE  \/ log'[i].by = "aside" /\ log'[i].kind \in Aside
              \/ log'[i].by \in Commands /\ \E x \in Batches[log'[i].agg] : \E n \in 1..Len(x) : log'[i].kind = x[n]
    BY DEF OriginInv
  <2>1. CASE i \in 1..Len(log)
    <3>1. log'[i] = log[i]
      BY <1>3, <2>1
    <3>. QED  BY <1>0, <2>1, <3>1 DEF OriginInv
  <2>2. CASE i = Len(log')
    BY <1>2, <2>2
  <2>. QED  BY <1>4, <2>1, <2>2
<1>9. TimelineKnowsCommands'
  <2>1. ASSUME NEW i \in Ids', log'[i].by # "aside" PROVE i \in models'.timeline \cup Withheld'
    <3>1. i \in Ids /\ log'[i] = log[i] /\ i \in models.timeline \cup Withheld
      BY <1>0, <1>2, <1>3, <1>4, <2>1 DEF TimelineKnowsCommands
    <3>. QED  BY <1>1, <2>1, <3>1 DEF Withheld
  <2>. QED  BY <1>1, <1>3, <2>1 DEF TimelineKnowsCommands
<1>. QED  BY <1>6, <1>7, <1>8, <1>9 DEF Base

LEMMA RestartBase ==
  ASSUME Base, Restart
  PROVE  Base'
<1>0. TypeOK /\ HandInv /\ OriginInv /\ TimelineKnowsCommands
  BY DEF Base
<1>1. /\ boots < MaxBoots /\ boots' = boots + 1 /\ models' = Rebuilt(log)
      /\ handledAt' = [i \in Ids |-> IF i \in DOMAIN handledAt THEN handledAt[i] ELSE now]
      /\ cache' = None
      /\ pc' = [d \in Commands |-> IF pc[d] = "idle" THEN "idle" ELSE "done"]
      /\ UNCHANGED <<overlap, log, inHand, answer, now>>
  BY DEF Restart
<1>2. log \in Seq(Entry) /\ Len(log) \in Nat /\ Ids = 1..Len(log) /\ Ids' = 1..Len(log)
  BY <1>0, <1>1, TypeFacts DEF Ids
<1>3. models' \in Models(log) /\ models'.timeline = 1..Len(log)
  <2>1. Rebuilt(log) = Replay(log)[Len(log)] /\ Len(log) \in 0..Len(log)
    BY <1>2 DEF Rebuilt, Replay
  <2>. QED  BY <1>1, <1>2, <2>1, ReplaySteps
<1>4. TypeOK'
  <2>1. now \in 1..MaxTime /\ \A i \in DOMAIN handledAt : handledAt[i] \in 1..now
    BY <1>0 DEF TypeOK
  <2>2. DOMAIN handledAt' = models'.timeline /\ \A i \in DOMAIN handledAt' : handledAt'[i] \in 1..now
    BY <1>1, <1>2, <1>3, <2>1, ProjectionsAssumption
  <2>3. pc' \in [Commands -> {"idle", "open", "lost", "done"}]
    BY <1>0, <1>1 DEF TypeOK
  <2>4. models' \in [view : [Aggregates -> [Fields -> -1..Len(log)]], timeline : SUBSET Ids,
                     status : [Aggregates -> PaymentEvents \cup {"absent", "UNKNOWN"}], pending : Nat]
    BY <1>2, <1>3 DEF Models
  <2>5. cache' \in [at : 0..now, ids : SUBSET Ids]
    BY <1>1, <2>1, ProjectionsAssumption DEF None
  <2>6. boots' \in 0..MaxBoots
    BY <1>0, <1>1, ProjectionsAssumption DEF TypeOK
  <2>. QED  BY <1>0, <1>1, <1>2, <2>2, <2>3, <2>4, <2>5, <2>6 DEF TypeOK
<1>5. HandInv'
  BY <1>0, <1>1 DEF HandInv
<1>6. OriginInv'
  BY <1>0, <1>1 DEF OriginInv
<1>7. TimelineKnowsCommands'
  BY <1>2, <1>3 DEF TimelineKnowsCommands
<1>. QED  BY <1>4, <1>5, <1>6, <1>7 DEF Base

LEMMA IdleBase ==
  ASSUME Base, Query \/ Tick \/ UNCHANGED vars
  PROVE  Base'
<1>0. TypeOK /\ HandInv /\ OriginInv /\ TimelineKnowsCommands
  BY DEF Base
<1>1. /\ UNCHANGED <<overlap, log, models, pc, inHand, handledAt, boots>>
      /\ Ids' = Ids /\ now' \in 1..MaxTime /\ now <= now' /\ now \in 1..MaxTime
  BY <1>0, ProjectionsAssumption DEF Query, Tick, vars, TypeOK, Ids
<1>2. models.timeline \subseteq Ids
  BY <1>0 DEF TypeOK
<1>3. cache' \in [at : 0..now', ids : SUBSET Ids'] /\ answer' \in [at : 0..now', ids : SUBSET Ids']
  <2>1. cache \in [at : 0..now, ids : SUBSET Ids] /\ answer \in [at : 0..now, ids : SUBSET Ids] /\ 0..now \subseteq 0..now'
    BY <1>0, <1>1, ProjectionsAssumption DEF TypeOK
  <2>2. CASE Query
    <3>1. now' = now
      BY <2>2 DEF Query
    <3>2. now \in 0..now
      BY <1>1, ProjectionsAssumption
    <3>. QED  BY <1>1, <1>2, <2>1, <2>2, <3>1, <3>2 DEF Query
  <2>3. CASE Tick \/ UNCHANGED vars
    BY <1>1, <2>1, <2>3 DEF Tick, vars
  <2>. QED  BY <2>2, <2>3
<1>4. \A i \in DOMAIN handledAt : handledAt[i] \in 1..now'
  BY <1>0, <1>1, ProjectionsAssumption DEF TypeOK
<1>5. TypeOK'
  BY <1>0, <1>1, <1>3, <1>4 DEF TypeOK
<1>. QED  BY <1>0, <1>1, <1>5 DEF Base, HandInv, OriginInv, TimelineKnowsCommands, Withheld

LEMMA BaseInvariant == Spec => []Base
<1>1. ASSUME Base, [Next]_vars PROVE Base'
  <2>1. ASSUME NEW c \in Commands, Project(c) PROVE Base'
    <3>1. c \in Open
      BY <2>1 DEF Project
    <3>. QED  BY <1>1, <2>1, <3>1, ProjectBase
  <2>. QED  BY <1>1, <2>1, CommitBase, AsideBase, RestartBase, IdleBase DEF Next
<1>. QED  BY <1>1, InitBase, PTL DEF Spec

-----------------------------------------------------------------------------
(***************************************************************************)
(* Commands that do not overlap on an aggregate hand its events over in    *)
(* the order of the log.                                                   *)
(***************************************************************************)
NearNext(i, j) == log'[i].agg = log'[j].agg \/ overlap' = "none"

LEMMA CommitOrder ==
  ASSUME Base, OrderInv, NEW c \in Commands, Commit(c)
  PROVE  OrderInv'
<1>0. TypeOK
  BY DEF Base
<1>1. PICK a \in Aggregates : \E b \in Batches[a] : ~ Meets(c, a) /\ Appended(c, a, b) /\ Handed(c, b)
  BY <1>0, CommitEffect
<1>2. PICK b \in Batches[a] : ~ Meets(c, a) /\ Appended(c, a, b) /\ Handed(c, b)
  BY <1>1
<1>3. /\ Len(log) \in Nat /\ models.timeline \subseteq 1..Len(log)
      /\ \A d \in Commands : inHand[d] \in Seq(1..Len(log)) /\ Len(inHand[d]) \in Nat
  BY <1>0, TypeFacts
<1>4. \A i \in 1..Len(log) : log'[i] = log[i]
  BY <1>2 DEF Appended, Grows
<1>5. Len(b) \in Nat /\ \A n \in 1..Len(b) : log'[Len(log) + n].agg = a
  BY <1>2 DEF Appended
<1>6. /\ pc[c] = "idle" /\ overlap' = overlap /\ models' = models
      /\ \A d \in Commands : d # c => pc'[d] = pc[d] /\ inHand'[d] = inHand[d]
      /\ pc'[c] = "open" => inHand'[c] = [i \in 1..Len(b) |-> Len(log) + i]
  BY <1>2 DEF Handed
<1>. SUFFICES ASSUME overlap # "any", NEW d \in Open', NEW n \in 1..Len(inHand'[d])
     PROVE  /\ \A j \in models.timeline : NearNext(inHand'[d][n], j) => j < inHand'[d][n]
            /\ \A e \in Open' : \A k \in 1..Len(inHand'[e]) : NearNext(inHand'[d][n], inHand'[e][k]) => d = e
  BY <1>6 DEF OrderInv, Near, NearNext
<1>7. \A i, j \in 1..Len(log) : NearNext(i, j) <=> Near(i, j)
  BY <1>4, <1>6 DEF Near, NearNext
<1>8. ASSUME NEW e \in Open', e # c
      PROVE  /\ e \in Open /\ inHand'[e] = inHand[e]
             /\ \A k \in 1..Len(inHand[e]) : inHand[e][k] \in 1..Len(log)
  BY <1>3, <1>6, <1>8 DEF Open
<1>9. ASSUME c \in Open', NEW k \in 1..Len(inHand'[c])
      PROVE  inHand'[c][k] > Len(log) /\ inHand'[c][k] \in Nat /\ log'[inHand'[c][k]].agg = a
  <2>1. inHand'[c] = [i \in 1..Len(b) |-> Len(log) + i]
    BY <1>6, <1>9 DEF Open
  <2>2. k \in 1..Len(b) /\ inHand'[c][k] = Len(log) + k
    BY <1>5, <1>9, <2>1
  <2>. QED  BY <1>3, <1>5, <2>2
\* Nothing open is near what c writes.
<1>10. ASSUME NEW e \in Open, NEW k \in 1..Len(inHand[e])
       PROVE  overlap # "none" /\ log[inHand[e][k]].agg # a
  <2>1. overlap \in {"none", "apart"}
    BY <1>0, ProjectionsAssumption DEF TypeOK
  <2>2. overlap # "none"
    BY <1>2, <1>10 DEF Meets
  <2>3. k \in DOMAIN inHand[e]
    BY <1>3, <1>10 DEF Open
  <2>. QED  BY <1>2, <1>10, <2>1, <2>2, <2>3 DEF Meets
<1>11. ASSUME c \in Open', NEW k \in 1..Len(inHand'[c]), NEW e \in Open', e # c, NEW m \in 1..Len(inHand'[e])
       PROVE  ~NearNext(inHand'[c][k], inHand'[e][m]) /\ ~NearNext(inHand'[e][m], inHand'[c][k])
  <2>1. e \in Open /\ inHand'[e] = inHand[e] /\ m \in 1..Len(inHand[e]) /\ inHand[e][m] \in 1..Len(log)
    BY <1>8, <1>11
  <2>2. overlap # "none" /\ log'[inHand'[e][m]].agg # a
    BY <1>4, <1>10, <2>1
  <2>3. log'[inHand'[c][k]].agg = a
    BY <1>9, <1>11
  <2>. QED  BY <1>6, <2>2, <2>3 DEF NearNext
<1>12. CASE d = c
  <2>1. \A j \in models.timeline : j < inHand'[d][n]
    BY <1>3, <1>9, <1>12
  <2>2. ASSUME NEW e \in Open', NEW k \in 1..Len(inHand'[e]), NearNext(inHand'[d][n], inHand'[e][k]) PROVE d = e
    BY <1>11, <1>12, <2>2
  <2>. QED  BY <2>1, <2>2
<1>13. CASE d # c
  <2>1. d \in Open /\ inHand'[d] = inHand[d] /\ n \in 1..Len(inHand[d]) /\ inHand[d][n] \in 1..Len(log)
    BY <1>8, <1>13
  <2>2. ASSUME NEW j \in models.timeline, NearNext(inHand'[d][n], j) PROVE j < inHand'[d][n]
    BY <1>3, <1>7, <2>1, <2>2 DEF OrderInv
  <2>3. ASSUME NEW e \in Open', NEW k \in 1..Len(inHand'[e]), NearNext(inHand'[d][n], inHand'[e][k]) PROVE d = e
    <3>1. e # c
      BY <1>11, <1>13, <2>3
    <3>2. e \in Open /\ inHand'[e] = inHand[e] /\ k \in 1..Len(inHand[e]) /\ inHand[e][k] \in 1..Len(log)
      BY <1>8, <2>3, <3>1
    <3>3. Near(inHand[d][n], inHand[e][k])
      BY <1>7, <2>1, <2>3, <3>2
    <3>. QED  BY <2>1, <3>2, <3>3 DEF OrderInv
  <2>. QED  BY <2>2, <2>3
<1>. QED  BY <1>12, <1>13

LEMMA ProjectOrder ==
  ASSUME Base, OrderInv, NEW c \in Open, Project(c)
  PROVE  OrderInv'
<1>0. TypeOK /\ c \in Commands
  BY DEF Base, Open
<1>1. pc' = [pc EXCEPT ![c] = "done"] /\ log' = log /\ inHand' = inHand /\ overlap' = overlap
  BY DEF Project
<1>2. Open' = Open \ {c}
  BY <1>0, <1>1 DEF Open, TypeOK
<1>3. /\ models'.timeline = models.timeline \cup Range(inHand[c])
      /\ Range(inHand[c]) = {inHand[c][n] : n \in 1..Len(inHand[c])}
  BY ProjectFeeds
<1>. SUFFICES ASSUME overlap # "any", NEW d \in Open, d # c, NEW n \in 1..Len(inHand[d])
     PROVE  /\ \A j \in models'.timeline : Near(inHand[d][n], j) => j < inHand[d][n]
            /\ \A e \in Open : \A k \in 1..Len(inHand[e]) : Near(inHand[d][n], inHand[e][k]) => d = e
  BY <1>1, <1>2 DEF OrderInv, Near
<1>4. ASSUME NEW j \in Range(inHand[c]) PROVE ~Near(inHand[d][n], j)
  <2>1. PICK k \in 1..Len(inHand[c]) : j = inHand[c][k]
    BY <1>3
  <2>. QED  BY <2>1 DEF OrderInv
<1>. QED  BY <1>3, <1>4 DEF OrderInv

LEMMA AsideOrder ==
  ASSUME Base, OrderInv, AppendAside
  PROVE  OrderInv'
<1>0. TypeOK
  BY DEF Base
<1>1. UNCHANGED <<overlap, models, pc, inHand>> /\ Open' = Open
  BY DEF AppendAside, Open
<1>2. /\ models.timeline \subseteq 1..Len(log)
      /\ \A d \in Commands : inHand[d] \in Seq(1..Len(log)) /\ Len(inHand[d]) \in Nat
  BY <1>0, TypeFacts
<1>3. \A i \in 1..Len(log) : log'[i] = log[i]
  BY <1>0, AsideAppends DEF Grows
<1>4. \A i, j \in 1..Len(log) : NearNext(i, j) <=> Near(i, j)
  BY <1>1, <1>3 DEF Near, NearNext
<1>5. \A d \in Open : \A n \in 1..Len(inHand[d]) : inHand[d][n] \in 1..Len(log)
  BY <1>2 DEF Open
<1>. SUFFICES ASSUME overlap # "any", NEW d \in Open, NEW n \in 1..Len(inHand[d])
     PROVE  /\ \A j \in models.timeline : NearNext(inHand[d][n], j) => j < inHand[d][n]
            /\ \A e \in Open : \A k \in 1..Len(inHand[e]) : NearNext(inHand[d][n], inHand[e][k]) => d = e
  BY <1>1 DEF OrderInv, Near, NearNext
<1>. QED  BY <1>2, <1>4, <1>5 DEF OrderInv

LEMMA NothingOpen ==
  ASSUME TypeOK, Restart
  PROVE  Open' = {}
BY DEF Restart, Open

-----------------------------------------------------------------------------
(***************************************************************************)
(* What the view and payment_status show.                                  *)
(***************************************************************************)
LEMMA LogGrowsShow ==
  ASSUME Base, ShowInv, Grows, UNCHANGED <<overlap, models>>
  PROVE  ShowInv'
<1>0. TypeOK
  BY DEF Base
<1>. SUFFICES ASSUME overlap # "any", NEW a \in Aggregates
     PROVE  /\ ViewShows(models.view[a], log', models.timeline, a)
            /\ StatusShows(models.status[a], log', models.timeline, a)
  BY DEF ShowInv
<1>1. \A i \in models.timeline : log'[i] = log[i]
  BY <1>0, TypeFacts DEF Grows
<1>2. ViewShows(models.view[a], log, models.timeline, a) /\ StatusShows(models.status[a], log, models.timeline, a)
  BY DEF ShowInv
<1>. QED  BY <1>1, <1>2, StillShows

LEMMA ProjectShow ==
  ASSUME Base, OrderInv, ShowInv, NEW c \in Open, Project(c)
  PROVE  ShowInv'
<1>0. TypeOK /\ HandInv /\ c \in Commands /\ pc[c] = "open"
  BY DEF Base, Open
<1>1. models' = Fed(models, log, inHand[c], "subscribed")[Len(inHand[c])] /\ log' = log /\ overlap' = overlap
  BY DEF Project
<1>. SUFFICES ASSUME overlap # "any", NEW a \in Aggregates
     PROVE  /\ ViewShows(models'.view[a], log, models'.timeline, a)
            /\ StatusShows(models'.status[a], log, models'.timeline, a)
  BY <1>1 DEF ShowInv
<1>2. /\ log \in Seq(Entry) /\ models \in Models(log) /\ models.timeline \subseteq 1..Len(log)
      /\ inHand[c] \in Seq(1..Len(log)) /\ Len(inHand[c]) \in Nat
  BY <1>0, TypeFacts
<1>3. \A n \in 1..Len(inHand[c]) : \A j \in models.timeline : log[j].agg = log[inHand[c][n]].agg => j < inHand[c][n]
  BY DEF OrderInv, Near
<1>4. \A n, k \in 1..Len(inHand[c]) : n < k => inHand[c][n] < inHand[c][k]
  BY <1>0 DEF HandInv
<1>5. ViewShows(models.view[a], log, models.timeline, a) /\ StatusShows(models.status[a], log, models.timeline, a)
  BY DEF ShowInv
<1>6. \A n \in 0..Len(inHand[c]) :
        /\ ViewShows(Fed(models, log, inHand[c], "subscribed")[n].view[a], log,
                     models.timeline \cup {inHand[c][k] : k \in 1..n}, a)
        /\ StatusShows(Fed(models, log, inHand[c], "subscribed")[n].status[a], log,
                       models.timeline \cup {inHand[c][k] : k \in 1..n}, a)
  BY <1>2, <1>3, <1>4, <1>5, FedShows
<1>7. models'.timeline = models.timeline \cup {inHand[c][k] : k \in 1..Len(inHand[c])}
  BY ProjectFeeds
<1>8. Len(inHand[c]) \in 0..Len(inHand[c])
  BY <1>2
<1>. QED  BY <1>1, <1>6, <1>7, <1>8

LEMMA RestartShow ==
  ASSUME Base, Restart
  PROVE  ShowInv'
<1>1. log \in Seq(Entry)
  BY TypeFacts DEF Base
<1>2. models' = Rebuilt(log) /\ log' = log
  BY DEF Restart
<1>3. models'.timeline = 1..Len(log)
  <2>1. Rebuilt(log) = Replay(log)[Len(log)] /\ Len(log) \in 0..Len(log)
    BY <1>1 DEF Rebuilt, Replay
  <2>. QED  BY <1>1, <1>2, <2>1, ReplaySteps
<1>4. \A a \in Aggregates : /\ ViewShows(Rebuilt(log).view[a], log, 1..Len(log), a)
                            /\ StatusShows(Rebuilt(log).status[a], log, 1..Len(log), a)
  BY <1>1, ReplayShows
<1>. QED  BY <1>2, <1>3, <1>4 DEF ShowInv

Shown == Base /\ OrderInv /\ ShowInv

LEMMA InitShown == Init => Shown
<1>. SUFFICES ASSUME Init PROVE OrderInv /\ ShowInv
  BY InitBase DEF Shown
<1>1. Open = {} /\ models = Cleared
  BY DEF Open, Init
<1>2. ShowInv
  BY <1>1 DEF ShowInv, ViewShows, StatusShows, Writes, Steps, Cleared
<1>. QED  BY <1>1, <1>2 DEF OrderInv

LEMMA ShownNext ==
  ASSUME Shown, [Next]_vars
  PROVE  Shown'
<1>0. Base /\ OrderInv /\ ShowInv /\ TypeOK
  BY DEF Shown, Base
<1>1. ASSUME NEW c \in Commands, Commit(c) PROVE Shown'
  <2>1. PICK a \in Aggregates : \E b \in Batches[a] : Appended(c, a, b) /\ Handed(c, b)
    BY <1>0, <1>1, CommitEffect
  <2>2. Grows /\ UNCHANGED <<overlap, models>>
    BY <2>1 DEF Appended, Handed
  <2>. QED  BY <1>0, <1>1, <2>2, CommitBase, CommitOrder, LogGrowsShow DEF Shown
<1>2. ASSUME NEW c \in Commands, Project(c) PROVE Shown'
  <2>1. c \in Open
    BY <1>2 DEF Project
  <2>. QED  BY <1>0, <1>2, <2>1, ProjectBase, ProjectOrder, ProjectShow DEF Shown
<1>3. ASSUME AppendAside PROVE Shown'
  <2>1. Grows
    BY <1>0, <1>3, AsideAppends
  <2>2. UNCHANGED <<overlap, models>>
    BY <1>3 DEF AppendAside
  <2>. QED  BY <1>0, <1>3, <2>1, <2>2, AsideBase, AsideOrder, LogGrowsShow DEF Shown
<1>4. ASSUME Restart PROVE Shown'
  <2>1. Open' = {}
    BY <1>0, <1>4, NothingOpen
  <2>2. OrderInv'
    BY <2>1 DEF OrderInv
  <2>. QED  BY <1>0, <1>4, <2>2, RestartBase, RestartShow DEF Shown
<1>5. ASSUME Query \/ Tick \/ UNCHANGED vars PROVE Shown'
  <2>1. UNCHANGED <<overlap, log, models, pc, inHand>>
    BY <1>5 DEF Query, Tick, vars
  <2>2. OrderInv' /\ ShowInv'
    BY <1>0, <2>1 DEF OrderInv, ShowInv, Open, Near
  <2>. QED  BY <1>0, <1>5, <2>2, IdleBase DEF Shown
<1>. QED  BY <1>1, <1>2, <1>3, <1>4, <1>5 DEF Next

LEMMA ShownInvariant == Spec => []Shown
BY InitShown, ShownNext, PTL DEF Spec

-----------------------------------------------------------------------------
(***************************************************************************)
(* The counter.                                                            *)
(***************************************************************************)
\* Nothing is made of what is written aside.
AsideSilent == \A k \in Aside : Sets[k] = {} /\ k \notin DOMAIN Counted /\ k \notin PaymentEvents

\* Only the commands of one aggregate are counted, or none overlaps another.
OneCounts ==
  \A a, d \in Aggregates : \A x \in Batches[a], y \in Batches[d] :
    \A n \in 1..Len(x), k \in 1..Len(y) : x[n] \in DOMAIN Counted /\ y[k] \in DOMAIN Counted => a = d
CounterTurns == Overlaps \subseteq {"none", "any"} \/ OneCounts

LEMMA LogGrowsCount ==
  ASSUME Base, CountInv, Grows, UNCHANGED <<overlap, models>>, NoneLost' => NoneLost
  PROVE  CountInv'
<1>. SUFFICES ASSUME overlap # "any", NoneLost'
     PROVE  \E p \in 0..Len(log') : CountedTo(models.pending, log', models.timeline, p)
  BY DEF CountInv
<1>1. PICK p \in 0..Len(log) : CountedTo(models.pending, log, models.timeline, p)
  BY DEF CountInv
<1>2. /\ log \in Seq(Entry) /\ Len(log) \in Nat /\ log' \in Seq(Entry) /\ Len(log') \in Nat /\ Len(log) <= Len(log')
      /\ \A i \in 1..Len(log) : log'[i] = log[i]
      /\ models.timeline \subseteq 1..Len(log)
  BY TypeFacts DEF Base, Grows
<1>3. Replay(log')[p] = Replay(log)[p]
  BY <1>2, ReplayOfPrefix
<1>4. ASSUME NEW i \in 1..Len(log'), Counts(log', i) PROVE i \in models.timeline <=> i <= p
  <2>1. CASE i \in 1..Len(log)
    <3>1. Counts(log, i)
      BY <1>2, <1>4, <2>1 DEF Counts
    <3>. QED  BY <1>1, <2>1, <3>1 DEF CountedTo
  <2>2. CASE i \notin 1..Len(log)
    BY <1>2, <2>2
  <2>. QED  BY <2>1, <2>2
<1>5. p \in 0..Len(log') /\ CountedTo(models.pending, log', models.timeline, p)
  BY <1>1, <1>2, <1>3, <1>4 DEF CountedTo
<1>. QED  BY <1>5

LEMMA CommitCount ==
  ASSUME Base, CountInv, NEW c \in Commands, Commit(c)
  PROVE  CountInv'
<1>0. TypeOK /\ HandInv
  BY DEF Base
<1>1. PICK a \in Aggregates : \E b \in Batches[a] : Appended(c, a, b) /\ Handed(c, b)
  BY <1>0, CommitEffect
<1>2. Grows /\ UNCHANGED <<overlap, models>> /\ pc[c] = "idle" /\ \A d \in Commands : d # c => pc'[d] = pc[d]
  BY <1>1 DEF Appended, Handed
<1>3. ASSUME NoneLost', NEW i \in 1..Len(log), Counts(log, i), log[i].by \in Commands PROVE pc[log[i].by] # "lost"
  <2>1. i \in 1..Len(log') /\ log'[i] = log[i]
    BY <1>2, <1>3 DEF Grows
  <2>2. log[i].by # c
    BY <1>0, <1>2, <1>3 DEF HandInv
  <2>. QED  BY <1>2, <1>3, <2>1, <2>2 DEF NoneLost, Counts
<1>. QED  BY <1>2, <1>3, LogGrowsCount DEF NoneLost

LEMMA AsideCount ==
  ASSUME Base, CountInv, AppendAside
  PROVE  CountInv'
<1>1. Grows
  BY AsideAppends DEF Base
<1>2. UNCHANGED <<overlap, models, pc>>
  BY DEF AppendAside
<1>3. NoneLost' => NoneLost
  BY <1>1, <1>2 DEF NoneLost, Grows, Counts
<1>. QED  BY <1>1, <1>2, <1>3, LogGrowsCount

LEMMA ProjectCount ==
  ASSUME AsideSilent, CounterTurns, Shown, CountInv, NEW c \in Open, Project(c)
  PROVE  CountInv'
<1>0. /\ Base /\ TypeOK /\ HandInv /\ OriginInv /\ TimelineKnowsCommands /\ OrderInv
      /\ c \in Commands /\ pc[c] = "open"
  BY DEF Shown, Base, Open
<1>1. /\ models' = Fed(models, log, inHand[c], "subscribed")[Len(inHand[c])]
      /\ log' = log /\ overlap' = overlap /\ pc' = [pc EXCEPT ![c] = "done"]
  BY DEF Project
<1>2. /\ log \in Seq(Entry) /\ models \in Models(log) /\ models.timeline \subseteq 1..Len(log) /\ Ids = 1..Len(log)
      /\ inHand[c] \in Seq(1..Len(log)) /\ Len(inHand[c]) \in Nat
  BY <1>0, TypeFacts
<1>. SUFFICES ASSUME overlap # "any", NoneLost'
     PROVE  \E p \in 0..Len(log) : CountedTo(models'.pending, log, models'.timeline, p)
  BY <1>1 DEF CountInv
<1>3. NoneLost
  <2>. SUFFICES ASSUME NEW i \in 1..Len(log), Counts(log, i), log[i].by \in Commands PROVE pc[log[i].by] # "lost"
    BY DEF NoneLost
  <2>1. CASE log[i].by = c
    BY <1>0, <2>1
  <2>2. CASE log[i].by # c
    <3>1. pc'[log[i].by] = pc[log[i].by]
      BY <1>0, <1>1, <2>2 DEF TypeOK
    <3>. QED  BY <1>1, <3>1 DEF NoneLost, Counts
  <2>. QED  BY <2>1, <2>2
<1>4. PICK p \in 0..Len(log) : CountedTo(models.pending, log, models.timeline, p)
  BY <1>3 DEF CountInv
<1>. DEFINE q == inHand[c]
<1>5. /\ \A n \in 1..Len(q) : q[n] \notin models.timeline
      /\ \A n, k \in 1..Len(q) : n < k => q[n] < q[k]
  BY <1>0 DEF HandInv
\* What is counted came from a command, and what was counted before it is handed over.
<1>6. ASSUME NEW i \in 1..Len(log), Counts(log, i)
      PROVE  log[i].by \in Commands /\ \E b \in Batches[log[i].agg] : \E n \in 1..Len(b) : log[i].kind = b[n]
  BY <1>0, <1>6 DEF OriginInv, AsideSilent, Counts
<1>7. ASSUME NEW i \in 1..Len(log), NEW j \in 1..Len(log), Counts(log, i), Counts(log, j) PROVE Near(i, j)
  <2>1. overlap = "none" \/ OneCounts
    BY <1>0 DEF CounterTurns, TypeOK
  <2>2. CASE OneCounts
    <3>1. PICK x \in Batches[log[i].agg] : \E n \in 1..Len(x) : log[i].kind = x[n]
      BY <1>6, <1>7
    <3>2. PICK n \in 1..Len(x) : log[i].kind = x[n]
      BY <3>1
    <3>3. PICK y \in Batches[log[j].agg] : \E k \in 1..Len(y) : log[j].kind = y[k]
      BY <1>6, <1>7
    <3>4. PICK k \in 1..Len(y) : log[j].kind = y[k]
      BY <3>3
    <3>5. log[i].agg \in Aggregates /\ log[j].agg \in Aggregates
      BY <1>0, TypeFacts
    <3>6. log[i].agg = log[j].agg
      BY <1>7, <2>2, <3>2, <3>4, <3>5 DEF OneCounts, Counts
    <3>. QED  BY <3>6 DEF Near
  <2>. QED  BY <2>1, <2>2 DEF Near
<1>8. ASSUME NEW n \in 1..Len(q), Counts(log, q[n]), NEW j \in 1..Len(log), Counts(log, j), j < q[n]
      PROVE  j \in models.timeline \cup {q[k] : k \in 1..Len(q)}
  <2>. SUFFICES ASSUME j \notin models.timeline PROVE j \in {q[k] : k \in 1..Len(q)}
    OBVIOUS
  <2>1. log[j].by \in Commands /\ pc[log[j].by] = "open"
    <3>1. log[j].by \in Commands /\ log[j].by # "aside"
      BY <1>6, <1>8, ProjectionsAssumption
    <3>2. j \in Withheld
      BY <1>0, <1>2, <3>1 DEF TimelineKnowsCommands
    <3>3. pc[log[j].by] \in {"open", "lost"}
      BY <3>2 DEF Withheld
    <3>. QED  BY <1>3, <1>8, <3>1, <3>3 DEF NoneLost
  <2>. DEFINE d == log[j].by
  <2>2. PICK k \in 1..Len(inHand[d]) : j = inHand[d][k]
    BY <1>0, <2>1 DEF HandInv
  <2>3. q[n] \in 1..Len(log)
    BY <1>2, <1>8
  <2>4. Near(q[n], j)
    BY <1>7, <1>8, <2>3
  <2>5. c = d
    BY <1>0, <1>8, <2>1, <2>2, <2>4 DEF OrderInv, Open
  <2>. QED  BY <2>2, <2>5
<1>9. \E r \in 0..Len(log) :
        CountedTo(Fed(models, log, q, "subscribed")[Len(q)].pending, log, models.timeline \cup {q[k] : k \in 1..Len(q)}, r)
  <2>. HIDE DEF q
  <2>1. q \in Seq(1..Len(log))
    BY <1>2 DEF q
  <2>. QED  BY <1>2, <1>4, <1>5, <1>8, <2>1, FedCounts
<1>10. models'.timeline = models.timeline \cup {q[k] : k \in 1..Len(q)}
  BY <1>0, ProjectFeeds
<1>. QED  BY <1>1, <1>9, <1>10

LEMMA RestartCount ==
  ASSUME Base, Restart
  PROVE  CountInv'
<1>1. log \in Seq(Entry) /\ Len(log) \in Nat
  BY TypeFacts DEF Base
<1>2. models' = Replay(log)[Len(log)] /\ log' = log
  BY DEF Restart, Rebuilt, Replay
<1>3. models'.timeline = 1..Len(log)
  BY <1>1, <1>2, ReplaySteps
<1>4. CountedTo(models'.pending, log, models'.timeline, Len(log))
  BY <1>1, <1>2, <1>3 DEF CountedTo
<1>. QED  BY <1>1, <1>2, <1>4 DEF CountInv

LEMMA CountInvariant ==
  ASSUME AsideSilent, CounterTurns
  PROVE  Spec => [](Shown /\ CountInv)
<1>1. Init => CountInv
  <2>. SUFFICES ASSUME Init PROVE CountedTo(models.pending, log, models.timeline, 0)
    BY DEF CountInv, Init
  <2>1. log = <<>> /\ log \in Seq(Entry) /\ models = Cleared /\ Len(log) = 0
    BY DEF Init
  <2>2. Replay(log)[0] = Cleared
    BY <2>1, ReplaySteps
  <2>. QED  BY <2>1, <2>2 DEF CountedTo
<1>2. ASSUME Shown, CountInv, [Next]_vars PROVE CountInv'
  <2>0. Base
    BY <1>2 DEF Shown
  <2>1. ASSUME NEW c \in Commands, Project(c) PROVE CountInv'
    <3>1. c \in Open
      BY <2>1 DEF Project
    <3>. QED  BY <1>2, <2>1, <3>1, ProjectCount
  <2>2. ASSUME Query \/ Tick \/ UNCHANGED vars PROVE CountInv'
    <3>1. UNCHANGED <<overlap, log, models, pc>>
      BY <2>2 DEF Query, Tick, vars
    <3>. QED  BY <1>2, <3>1 DEF CountInv, NoneLost, CountedTo, Counts
  <2>. QED  BY <1>2, <2>0, <2>1, <2>2, CommitCount, AsideCount, RestartCount DEF Next
<1>. QED  BY <1>1, <1>2, InitShown, ShownNext, PTL DEF Spec

-----------------------------------------------------------------------------
(***************************************************************************)
(* The cache.                                                              *)
(***************************************************************************)
LEMMA CacheInvariant == Spec => []CacheInv
<1>1. Init => CacheInv
  BY DEF Init, CacheInv, AnswerWithinTtl, None
<1>2. ASSUME Base, Base', CacheInv, [Next]_vars PROVE CacheInv'
  <2>. USE ProjectionsAssumption
  <2>0. /\ DOMAIN handledAt = models.timeline /\ (\A i \in DOMAIN handledAt : handledAt[i] \in 1..now)
        /\ now \in Nat /\ cache.at \in 0..now /\ answer.at \in 0..now
    BY <1>2 DEF Base, TypeOK
  <2>1. ASSUME NEW c \in Commands, Commit(c) PROVE CacheInv'
    BY <1>2, <2>1 DEF Commit, CacheInv, AnswerWithinTtl
  <2>2. ASSUME NEW c \in Commands, Project(c) PROVE CacheInv'
    <3>1. c \in Open /\ UNCHANGED <<cache, answer, now>>
          /\ handledAt' = [i \in DOMAIN handledAt \cup Range(inHand[c]) |->
                             IF i \in DOMAIN handledAt THEN handledAt[i] ELSE now]
      BY <2>2 DEF Project
    <3>2. DOMAIN handledAt' = models'.timeline
      BY <1>2 DEF Base, TypeOK
    <3>3. \A i \in DOMAIN handledAt' : (i \in DOMAIN handledAt /\ handledAt'[i] = handledAt[i]) \/ handledAt'[i] = now
      BY <3>1
    <3>. QED  BY <1>2, <2>0, <3>1, <3>2, <3>3 DEF CacheInv, AnswerWithinTtl
  <2>3. ASSUME AppendAside PROVE CacheInv'
    BY <1>2, <2>3 DEF AppendAside, CacheInv, AnswerWithinTtl
  <2>4. ASSUME Query PROVE CacheInv'
    <3>1. UNCHANGED <<models, handledAt, now>>
      BY <2>4 DEF Query
    <3>2. CASE CacheHit
      <4>1. cache' = cache /\ answer' = [at |-> now, ids |-> cache.ids]
        BY <2>4, <3>2 DEF Query
      <4>. QED  BY <1>2, <2>0, <3>1, <3>2, <4>1 DEF CacheInv, AnswerWithinTtl, CacheHit
    <3>3. CASE ~CacheHit
      <4>1. cache' = [at |-> now, ids |-> models.timeline] /\ answer' = [at |-> now, ids |-> models.timeline]
        BY <2>4, <3>3 DEF Query
      <4>. QED  BY <1>2, <2>0, <3>1, <4>1 DEF CacheInv, AnswerWithinTtl
    <3>. QED  BY <3>2, <3>3
  <2>5. ASSUME Tick PROVE CacheInv'
    BY <1>2, <2>5 DEF Tick, CacheInv, AnswerWithinTtl
  <2>6. ASSUME Restart PROVE CacheInv'
    <3>1. cache' = None /\ UNCHANGED <<answer, now>>
          /\ handledAt' = [i \in Ids |-> IF i \in DOMAIN handledAt THEN handledAt[i] ELSE now]
      BY <2>6 DEF Restart
    <3>. QED  BY <1>2, <2>0, <3>1 DEF CacheInv, AnswerWithinTtl
  <2>7. ASSUME UNCHANGED vars PROVE CacheInv'
    BY <1>2, <2>7 DEF vars, CacheInv, AnswerWithinTtl
  <2>. QED  BY <1>2, <2>1, <2>2, <2>3, <2>4, <2>5, <2>6, <2>7 DEF Next
<1>. QED  BY <1>1, <1>2, BaseInvariant, PTL DEF Spec

-----------------------------------------------------------------------------
(***************************************************************************)
(* Every variable of the read side keeps its type, for every batch a       *)
(* command may emit.                                                       *)
(***************************************************************************)
THEOREM TypeCorrect == Spec => []TypeOK
<1>1. Base => TypeOK
  BY DEF Base
<1>. QED  BY <1>1, BaseInvariant, PTL

(***************************************************************************)
(* audit-timeline.ts: the timeline has every event of the log that no      *)
(* command withholds, however commands overlap and whatever acknowledgment *)
(* is lost.                                                                *)
(***************************************************************************)
THEOREM TimelineIsComplete == Spec => []TimelineKnowsCommands
<1>1. Base => TimelineKnowsCommands
  BY DEF Base
<1>. QED  BY <1>1, BaseInvariant, PTL

\* What is withheld of an aggregate is all that its record may lack.
LEMMA ShownFollow ==
  ASSUME AsideSilent, Shown, overlap # "any"
  PROVE  ViewFollowsLog /\ StatusIsLastStep
<1>0. /\ TypeOK /\ TimelineKnowsCommands /\ OriginInv /\ ShowInv
      /\ log \in Seq(Entry) /\ Len(log) \in Nat /\ Ids = 1..Len(log) /\ models \in Models(log)
      /\ models.timeline \subseteq 1..Len(log)
  BY TypeFacts DEF Shown, Base
<1>1. ASSUME NEW a \in Aggregates, ~Waits(a)
      PROVE  /\ ViewShows(models.view[a], log, 1..Len(log), a)
             /\ StatusShows(models.status[a], log, 1..Len(log), a)
  <2>1. ASSUME NEW i \in 1..Len(log), log[i].agg = a, Sets[log[i].kind] # {} \/ log[i].kind \in PaymentEvents
        PROVE  i \in models.timeline
    <3>1. log[i].by # "aside"
      BY <1>0, <2>1, ProjectionsAssumption DEF OriginInv, AsideSilent
    <3>2. i \notin Withheld
      BY <1>1, <2>1 DEF Waits
    <3>. QED  BY <1>0, <3>1, <3>2 DEF TimelineKnowsCommands
  <2>2. ViewShows(models.view[a], log, models.timeline, a) /\ StatusShows(models.status[a], log, models.timeline, a)
    BY <1>0 DEF ShowInv
  <2>3. \A i \in models.timeline \cup 1..Len(log) :
          log[i].agg = a /\ (Sets[log[i].kind] # {} \/ log[i].kind \in PaymentEvents)
            => (i \in models.timeline <=> i \in 1..Len(log))
    BY <1>0, <2>1
  <2>. QED  BY <2>2, <2>3, SameShows
<1>2. ViewFollowsLog
  <2>. SUFFICES ASSUME NEW a \in Aggregates, ~Waits(a) PROVE models.view[a] = Rebuilt(log).view[a]
    BY DEF ViewFollowsLog
  <2>1. Rebuilt(log) \in Models(log)
    <3>1. Rebuilt(log) = Replay(log)[Len(log)] /\ Len(log) \in 0..Len(log)
      BY <1>0 DEF Rebuilt, Replay
    <3>. QED  BY <1>0, <3>1, ReplaySteps
  <2>2. models.view[a] \in [Fields -> Int] /\ Rebuilt(log).view[a] \in [Fields -> Int]
    <3>1. \A m \in Models(log) : m.view[a] \in [Fields -> -1..Len(log)]
      BY DEF Models
    <3>2. [Fields -> -1..Len(log)] \subseteq [Fields -> Int]
      OBVIOUS
    <3>. QED  BY <1>0, <2>1, <3>1, <3>2
  <2>3. ViewShows(models.view[a], log, 1..Len(log), a) /\ ViewShows(Rebuilt(log).view[a], log, 1..Len(log), a)
    BY <1>0, <1>1, ReplayShows
  <2>4. 1..Len(log) \subseteq Nat \ {0}
    OBVIOUS
  <2>. QED  BY <2>2, <2>3, <2>4, OneView
<1>3. StatusIsLastStep
  BY <1>0, <1>1 DEF StatusIsLastStep, StatusShows, Steps
<1>. QED  BY <1>2, <1>3

(***************************************************************************)
(* The record of an aggregate and the status of a payment need no more     *)
(* than that commands on one aggregate do not overlap: how others are      *)
(* interleaved, lost or restarted does not show in them.                   *)
(***************************************************************************)
THEOREM RecordsFollowLog ==
  ASSUME AsideSilent
  PROVE  Spec => [](overlap # "any" => ViewFollowsLog /\ StatusIsLastStep)
<1>1. ASSUME Shown PROVE overlap # "any" => ViewFollowsLog /\ StatusIsLastStep
  BY <1>1, ShownFollow
<1>. QED  BY <1>1, ShownInvariant, PTL

LEMMA CountFollows ==
  ASSUME AsideSilent, Shown, CountInv, overlap # "any"
  PROVE  CounterFollowsLog
<1>0. /\ TypeOK /\ TimelineKnowsCommands /\ OriginInv
      /\ log \in Seq(Entry) /\ Len(log) \in Nat /\ Ids = 1..Len(log) /\ models.timeline \subseteq 1..Len(log)
  BY TypeFacts DEF Shown, Base
<1>. SUFFICES ASSUME \A i \in Withheld : ~Counts(log, i)
     PROVE  models.pending = Rebuilt(log).pending
  BY DEF CounterFollowsLog, Counts
<1>1. NoneLost
  BY <1>0 DEF NoneLost, Withheld
<1>2. PICK p \in 0..Len(log) : CountedTo(models.pending, log, models.timeline, p)
  BY <1>1 DEF CountInv
<1>3. ASSUME NEW i \in 1..Len(log), p < i, Counts(log, i) PROVE FALSE
  <2>1. i \notin models.timeline
    BY <1>0, <1>2, <1>3 DEF CountedTo
  <2>2. log[i].by # "aside"
    BY <1>0, <1>3, ProjectionsAssumption DEF OriginInv, AsideSilent, Counts
  <2>3. i \in Withheld
    BY <1>0, <2>1, <2>2 DEF TimelineKnowsCommands
  <2>. QED  BY <1>3, <2>3
<1>4. Replay(log)[Len(log)].pending = Replay(log)[p].pending
  BY <1>0, <1>3, QuietReplay
<1>. QED  BY <1>2, <1>4 DEF CountedTo, Rebuilt, Replay

(***************************************************************************)
(* INV-006, "rebuild from genesis" (projectionEngine.ts:90), for every set *)
(* of commands, aggregates, batches and fields: unless commands overlap on *)
(* one aggregate, each read model shows what a replay of the log would,    *)
(* for all that is not withheld from it.  The floored counter of           *)
(* treasury_dashboard needs more: that what it counts does not overlap     *)
(* even on different aggregates, for the floor makes the order matter.     *)
(***************************************************************************)
THEOREM ReadModelsAreTrue ==
  ASSUME AsideSilent, CounterTurns
  PROVE  Spec => []ReadModelsFollowLog
<1>1. ASSUME Shown, CountInv PROVE ReadModelsFollowLog
  <2>1. TimelineKnowsCommands
    BY <1>1 DEF Shown, Base
  <2>. QED  BY <1>1, <2>1, ShownFollow, CountFollows DEF ReadModelsFollowLog
<1>. QED  BY <1>1, CountInvariant, PTL

(***************************************************************************)
(* ttlMs (projectionEngine.ts:43): an answer lacks no event that had been  *)
(* projected for the lifetime of a cache entry, whatever the ttl is.       *)
(***************************************************************************)
THEOREM AnswersAreFresh == Spec => []AnswerWithinTtl
<1>1. CacheInv => AnswerWithinTtl
  BY DEF CacheInv
<1>. QED  BY <1>1, CacheInvariant, PTL
=============================================================================
