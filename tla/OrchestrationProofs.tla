------------------------- MODULE OrchestrationProofs -------------------------
(***************************************************************************)
(* What OrchestrationLayer promises, for any constants: the domains, then  *)
(* the missions of the agents, then the workflows.                         *)
(***************************************************************************)
EXTENDS OrchestrationLayer, ListsProofs, FiniteSetTheorems

\* The operators the instances bring along are those of the lemmas.
LEMMA SameOperators ==
  /\ \A s, K : D!Filter(s, K) = Filter(s, K) /\ O!Filter(s, K) = Filter(s, K)
  /\ \A s : D!Total(s) = Total(s) /\ D!Cardinality(s) = Cardinality(s) /\ O!Cardinality(s) = Cardinality(s)
  /\ \A s : D!Last(s) = s[Len(s)] /\ O!Last(s) = s[Len(s)]
<1>1. \A s, K : D!Filter(s, K) = Filter(s, K) /\ O!Filter(s, K) = Filter(s, K)
  BY DEF D!Filter, O!Filter, Filter, D!Kept, O!Kept, Kept
<1>2. \A s : D!Total(s) = Total(s)
  BY DEF D!Total, Total, D!Sums, Sums
<1>3. \A s : D!Cardinality(s) = Cardinality(s) /\ O!Cardinality(s) = Cardinality(s)
  BY DEF D!Cardinality, O!Cardinality, Cardinality
<1>4. \A s : D!Last(s) = s[Len(s)] /\ O!Last(s) = s[Len(s)]
  BY DEF D!Last, O!Last
<1>. QED  BY <1>1, <1>2, <1>3, <1>4

\* A set of numbers up to n that gains n + 1 is larger by one.
LEMMA OneMore ==
  ASSUME NEW n \in Nat, NEW S, S \subseteq 1..n
  PROVE  /\ IsFiniteSet(S) /\ Cardinality(S) \in Nat
         /\ Cardinality(S \cup {n + 1}) = Cardinality(S) + 1
<1>1. IsFiniteSet(1..n)
  BY FS_Interval
<1>2. IsFiniteSet(S)
  BY <1>1, FS_Subset
<1>3. n + 1 \notin S
  OBVIOUS
<1>. QED  BY <1>2, <1>3, FS_AddElement, FS_CardinalityType

LEMMA Grown ==
  ASSUME NEW T, NEW q \in Seq(T), NEW e \in T
  PROVE  /\ Append(q, e) \in Seq(T) /\ Len(Append(q, e)) = Len(q) + 1 /\ Len(q) \in Nat
         /\ DOMAIN q = 1..Len(q) /\ DOMAIN Append(q, e) = 1..(Len(q) + 1)
         /\ \A n \in 1..Len(q) : Append(q, e)[n] = q[n] /\ q[n] \in T
         /\ Append(q, e)[Len(q) + 1] = e
         /\ \A n \in 1..(Len(q) + 1) : n \in 1..Len(q) \/ n = Len(q) + 1
OBVIOUS

-----------------------------------------------------------------------------
(***************************************************************************)
(* The treasury, of a log l, allocations al and balances bal.              *)
(***************************************************************************)
EventNames ==
  {"TreasuryIntentCreated", "TreasuryApproved", "TreasuryAllocationExecuted", "TreasuryBalanceVerified",
   "VaultCreated", "VaultActivated", "VaultLocked", "VaultReleased", "VaultStateVerified",
   "PaymentIntentCreated", "PaymentAuthorized", "PaymentSettled", "PaymentStateVerified",
   "AgentRegistered", "AgentMissionCreated", "AgentStepExecuted", "AgentMissionCompleted"}
Ids     == Requests \cup Vaults \cup Payments \cup AgentIds \cup Missions \cup {Reserve}
Entries == [event : EventNames, id : Ids]
Entry(event, id) == [event |-> event, id |-> id]

Allocated == [Requests -> Allocation \cup {None}]
Executed(al, r) == al[r] # None /\ al[r].status = "EXECUTED"
Executions(l, r) == {n \in 1..Len(l) : l[n].event = "TreasuryAllocationExecuted" /\ l[n].id = r}
GainsOf(l, al, q) ==
  [n \in 1..Len(l) |->
     IF l[n].event = "TreasuryAllocationExecuted" THEN D!Gain(al[l[n].id], q) ELSE 0]
Start(q) == IF q = Reserve THEN InitReserve ELSE 0

OnRecord(l, al) ==
  /\ \A n \in 1..Len(l) :
       l[n].event = "TreasuryAllocationExecuted" => l[n].id \in Requests /\ Executed(al, l[n].id)
  /\ \A r \in Requests : Cardinality(Executions(l, r)) = IF Executed(al, r) THEN 1 ELSE 0

Balanced(l, al, bal) ==
  /\ bal \in [{Reserve, Operating} -> Int]
  /\ \A q \in {Reserve, Operating} : bal[q] = Start(q) + Total(GainsOf(l, al, q))
  /\ bal[Reserve] + bal[Operating] = InitReserve

LEMMA GainsAreNumbers ==
  ASSUME NEW l \in Seq(Entries), NEW al \in Allocated, OnRecord(l, al), NEW q
  PROVE  GainsOf(l, al, q) \in Seq(Int) /\ Len(GainsOf(l, al, q)) = Len(l)
<1>1. ASSUME NEW n \in 1..Len(l), l[n].event = "TreasuryAllocationExecuted"
      PROVE  D!Gain(al[l[n].id], q) \in Int
  <2>1. al[l[n].id] \in Allocation
    BY <1>1 DEF OnRecord, Executed, Allocated
  <2>. QED  BY <2>1 DEF D!Gain, Allocation
<1>2. \A n \in 1..Len(l) : GainsOf(l, al, q)[n] \in Int
  BY <1>1 DEF GainsOf
<1>3. GainsOf(l, al, q) \in [1..Len(l) -> Int] /\ Len(l) \in Nat
  BY <1>2 DEF GainsOf
<1>. QED  BY <1>3

\* An entry that is not an execution changes nothing of it.
LEMMA OtherEntry ==
  ASSUME NEW l \in Seq(Entries), NEW al \in Allocated, NEW bal, NEW e \in Entries,
         e.event # "TreasuryAllocationExecuted", OnRecord(l, al), Balanced(l, al, bal)
  PROVE  OnRecord(Append(l, e), al) /\ Balanced(Append(l, e), al, bal)
<1>. DEFINE k == Append(l, e)
<1>1. /\ k \in Seq(Entries) /\ Len(k) = Len(l) + 1 /\ Len(l) \in Nat /\ k[Len(l) + 1] = e
      /\ \A n \in 1..Len(l) : k[n] = l[n]
      /\ \A n \in 1..(Len(l) + 1) : n \in 1..Len(l) \/ n = Len(l) + 1
  BY Grown
<1>. HIDE DEF k
<1>2. \A r \in Requests : Executions(k, r) = Executions(l, r)
  BY <1>1 DEF Executions
<1>3. OnRecord(k, al)
  BY <1>1, <1>2 DEF OnRecord
<1>4. ASSUME NEW q PROVE Total(GainsOf(k, al, q)) = Total(GainsOf(l, al, q))
  <2>1. GainsOf(l, al, q) \in Seq(Int) /\ Len(GainsOf(l, al, q)) = Len(l)
    BY GainsAreNumbers
  <2>2. GainsOf(k, al, q) \in Seq(Int) /\ Len(GainsOf(k, al, q)) = Len(k)
    BY <1>1, <1>3, GainsAreNumbers
  <2>3. GainsOf(k, al, q) = Append(GainsOf(l, al, q), 0)
    <3>1. Append(GainsOf(l, al, q), 0) \in Seq(Int) /\ Len(Append(GainsOf(l, al, q), 0)) = Len(k)
      BY <1>1, <2>1
    <3>2. \A n \in 1..Len(k) : Append(GainsOf(l, al, q), 0)[n] = GainsOf(k, al, q)[n]
      BY <1>1, <2>1 DEF GainsOf
    <3>. QED  BY <2>2, <3>1, <3>2, SeqEqual
  <2>4. /\ Total(GainsOf(l, al, q)) \in Int
        /\ Total(Append(GainsOf(l, al, q), 0)) = Total(GainsOf(l, al, q)) + 0
    BY <2>1, TotalAppend
  <2>. QED  BY <2>3, <2>4
<1>5. Balanced(k, al, bal)
  BY <1>4 DEF Balanced
<1>. QED  BY <1>3, <1>5 DEF k

\* A request that is not executed may change.
LEMMA OtherRequest ==
  ASSUME NEW l \in Seq(Entries), NEW al \in Allocated, NEW bal, NEW r \in Requests, NEW a \in Allocation,
         ~ Executed(al, r), a.status # "EXECUTED", OnRecord(l, al), Balanced(l, al, bal)
  PROVE  LET al2 == [al EXCEPT ![r] = a]
         IN  al2 \in Allocated /\ OnRecord(l, al2) /\ Balanced(l, al2, bal)
<1>. DEFINE al2 == [al EXCEPT ![r] = a]
<1>1. al2 \in Allocated /\ al2[r] = a /\ \A d \in Requests : d # r => al2[d] = al[d]
  BY DEF Allocated
<1>. HIDE DEF al2
<1>2. \A d \in Requests : Executed(al2, d) <=> Executed(al, d)
  BY <1>1 DEF Executed
<1>3. OnRecord(l, al2)
  BY <1>2 DEF OnRecord
<1>4. ASSUME NEW q PROVE GainsOf(l, al2, q) = GainsOf(l, al, q)
  <2>1. \A n \in 1..Len(l) : l[n].event = "TreasuryAllocationExecuted" => al2[l[n].id] = al[l[n].id]
    BY <1>1 DEF OnRecord
  <2>. QED  BY <2>1 DEF GainsOf
<1>. QED  BY <1>1, <1>3, <1>4 DEF Balanced, al2

LEMMA Transfer ==
  ASSUME NEW P, NEW bal \in [P -> Int], NEW x \in P, NEW y \in P, NEW m \in Int
  PROVE  LET c == [bal EXCEPT ![x] = @ - m]
             b == [c EXCEPT ![y] = @ + m]
         IN  /\ b \in [P -> Int]
             /\ \A q \in P : b[q] = bal[q] + ((IF y = q THEN m ELSE 0) - (IF x = q THEN m ELSE 0))
<1>. DEFINE c == [bal EXCEPT ![x] = @ - m]
            b == [c EXCEPT ![y] = @ + m]
<1>1. c \in [P -> Int] /\ \A q \in P : c[q] = IF q = x THEN bal[q] - m ELSE bal[q]
  OBVIOUS
<1>. HIDE DEF c
<1>2. b \in [P -> Int] /\ \A q \in P : b[q] = IF q = y THEN c[q] + m ELSE c[q]
  BY <1>1
<1>. HIDE DEF b
<1>3. \A q \in P : b[q] = bal[q] + ((IF y = q THEN m ELSE 0) - (IF x = q THEN m ELSE 0))
  BY <1>1, <1>2
<1>. QED  BY <1>2, <1>3 DEF b, c

\* An execution is recorded and moves its amount.
LEMMA Execution ==
  ASSUME NEW l \in Seq(Entries), NEW al \in Allocated, NEW bal, NEW r \in Requests,
         al[r] # None, al[r].status = "APPROVED", {al[r].from, al[r].to} \subseteq {Reserve, Operating},
         OnRecord(l, al), Balanced(l, al, bal)
  PROVE  LET al2 == [al EXCEPT ![r].status = "EXECUTED"]
             l2  == Append(l, Entry("TreasuryAllocationExecuted", r))
             low  == [bal EXCEPT ![al[r].from] = @ - al[r].amount]
             bal2 == [low EXCEPT ![al[r].to] = @ + al[r].amount]
         IN  al2 \in Allocated /\ OnRecord(l2, al2) /\ Balanced(l2, al2, bal2)
<1>. DEFINE al2 == [al EXCEPT ![r].status = "EXECUTED"]
            e   == Entry("TreasuryAllocationExecuted", r)
            k   == Append(l, e)
            low  == [bal EXCEPT ![al[r].from] = @ - al[r].amount]
            bal2 == [low EXCEPT ![al[r].to] = @ + al[r].amount]
<1>0. e \in Entries /\ e.event = "TreasuryAllocationExecuted" /\ e.id = r /\ al[r] \in Allocation
  BY DEF Entries, Entry, EventNames, Ids, Allocated
<1>1. /\ al2 \in Allocated /\ al2[r] # None /\ al2[r].status = "EXECUTED" /\ al2[r].from = al[r].from
      /\ al2[r].to = al[r].to /\ al2[r].amount = al[r].amount
      /\ \A d \in Requests : d # r => al2[d] = al[d]
  <2>1. [al[r] EXCEPT !.status = "EXECUTED"] \in Allocation
    BY <1>0 DEF Allocation
  <2>2. al2[r] = [al[r] EXCEPT !.status = "EXECUTED"]
    BY DEF Allocated
  <2>3. al2[r] # None
    BY <2>1, <2>2, DomainsAssumption
  <2>4. /\ al2[r].status = "EXECUTED" /\ al2[r].from = al[r].from
        /\ al2[r].to = al[r].to /\ al2[r].amount = al[r].amount
    BY <1>0, <2>2 DEF Allocation
  <2>5. al2 \in Allocated /\ \A d \in Requests : d # r => al2[d] = al[d]
    BY <2>1, <2>2 DEF Allocated
  <2>. QED  BY <2>3, <2>4, <2>5
<1>2. /\ k \in Seq(Entries) /\ Len(k) = Len(l) + 1 /\ Len(l) \in Nat /\ k[Len(l) + 1] = e
      /\ \A n \in 1..Len(l) : k[n] = l[n]
      /\ \A n \in 1..(Len(l) + 1) : n \in 1..Len(l) \/ n = Len(l) + 1
  BY <1>0, Grown
<1>. HIDE DEF k, e, al2
<1>3. Executions(k, r) = Executions(l, r) \cup {Len(l) + 1} /\ \A d \in Requests : d # r => Executions(k, d) = Executions(l, d)
  BY <1>0, <1>2 DEF Executions
<1>4. Executed(al2, r) /\ ~ Executed(al, r) /\ \A d \in Requests : d # r => (Executed(al2, d) <=> Executed(al, d))
  BY <1>1 DEF Executed
<1>5. OnRecord(k, al2)
  <2>1. \A n \in 1..Len(k) :
          k[n].event = "TreasuryAllocationExecuted" => k[n].id \in Requests /\ Executed(al2, k[n].id)
    BY <1>0, <1>2, <1>4 DEF OnRecord
  <2>2. Executions(l, r) \subseteq 1..Len(l) /\ Cardinality(Executions(l, r)) = 0
    BY <1>4 DEF OnRecord, Executions
  <2>3. Cardinality(Executions(k, r)) = 1
    <3>1. Cardinality(Executions(l, r) \cup {Len(l) + 1}) = Cardinality(Executions(l, r)) + 1
      BY <1>2, <2>2, OneMore, Zenon
    <3>. QED  BY <1>3, <2>2, <3>1
  <2>4. ASSUME NEW d \in Requests PROVE Cardinality(Executions(k, d)) = IF Executed(al2, d) THEN 1 ELSE 0
    BY <1>3, <1>4, <2>3 DEF OnRecord
  <2>. QED  BY <2>1, <2>4 DEF OnRecord
<1>6. ASSUME NEW q PROVE /\ Total(GainsOf(l, al, q)) \in Int
                         /\ Total(GainsOf(k, al2, q)) = Total(GainsOf(l, al, q)) + D!Gain(al[r], q)
  <2>1. GainsOf(l, al, q) \in Seq(Int) /\ Len(GainsOf(l, al, q)) = Len(l)
    BY GainsAreNumbers
  <2>2. GainsOf(k, al2, q) \in Seq(Int) /\ Len(GainsOf(k, al2, q)) = Len(k)
    BY <1>1, <1>2, <1>5, GainsAreNumbers
  <2>3. D!Gain(al[r], q) \in Int /\ D!Gain(al2[r], q) = D!Gain(al[r], q)
    BY <1>0, <1>1 DEF D!Gain, Allocation
  <2>4. GainsOf(k, al2, q) = Append(GainsOf(l, al, q), D!Gain(al[r], q))
    <3>1. /\ Append(GainsOf(l, al, q), D!Gain(al[r], q)) \in Seq(Int)
          /\ Len(Append(GainsOf(l, al, q), D!Gain(al[r], q))) = Len(k)
      BY <1>2, <2>1, <2>3
    <3>2. ASSUME NEW n \in 1..Len(l)
          PROVE  GainsOf(k, al2, q)[n] = GainsOf(l, al, q)[n]
      <4>1. n \in 1..Len(k) /\ k[n] = l[n]
        BY <1>2
      <4>2. l[n].event = "TreasuryAllocationExecuted" => al2[l[n].id] = al[l[n].id]
        BY <1>1, <1>4 DEF OnRecord
      <4>. QED  BY <4>1, <4>2 DEF GainsOf
    <3>3. GainsOf(k, al2, q)[Len(l) + 1] = D!Gain(al[r], q)
      BY <1>0, <1>2, <2>3 DEF GainsOf
    <3>4. \A n \in 1..Len(k) : Append(GainsOf(l, al, q), D!Gain(al[r], q))[n] = GainsOf(k, al2, q)[n]
      BY <1>2, <2>1, <2>3, <3>2, <3>3
    <3>. QED  BY <2>2, <3>1, <3>4, SeqEqual
  <2>. QED  BY <2>1, <2>3, <2>4, TotalAppend
<1>7. bal2 \in [{Reserve, Operating} -> Int] /\ \A q \in {Reserve, Operating} : bal2[q] = bal[q] + D!Gain(al[r], q)
  <2>1. al[r].amount \in Int /\ bal \in [{Reserve, Operating} -> Int]
    BY <1>0 DEF Allocation, Balanced
  <2>. QED  BY <2>1, Transfer DEF D!Gain
<1>8. Balanced(k, al2, bal2)
  <2>1. \A q \in {Reserve, Operating} : bal2[q] = Start(q) + Total(GainsOf(k, al2, q))
    <3>1. Start(Reserve) \in Int /\ Start(Operating) \in Int
      BY DomainsAssumption DEF Start
    <3>2. \A q : D!Gain(al[r], q) \in Int
      BY <1>0 DEF D!Gain, Allocation
    <3>3. ASSUME NEW q \in {Reserve, Operating} PROVE bal2[q] = Start(q) + Total(GainsOf(k, al2, q))
      <4>1. bal[q] = Start(q) + Total(GainsOf(l, al, q))
        BY DEF Balanced
      <4>2. bal2[q] = bal[q] + D!Gain(al[r], q)
        BY <1>7
      <4>3. /\ Total(GainsOf(l, al, q)) \in Int /\ Start(q) \in Int /\ D!Gain(al[r], q) \in Int
            /\ Total(GainsOf(k, al2, q)) = Total(GainsOf(l, al, q)) + D!Gain(al[r], q)
        BY <1>6, <3>1, <3>2
      <4>. HIDE DEF bal2
      <4>. QED  BY <4>1, <4>2, <4>3
    <3>. QED  BY <3>3
  <2>2. D!Gain(al[r], Reserve) + D!Gain(al[r], Operating) = 0
    BY <1>0, DomainsAssumption DEF D!Gain, Allocation
  <2>3. bal2[Reserve] + bal2[Operating] = InitReserve
    <3>1. D!Gain(al[r], Reserve) \in Int /\ D!Gain(al[r], Operating) \in Int
      BY <1>0 DEF D!Gain, Allocation
    <3>. QED  BY <1>7, <2>2, <3>1, DomainsAssumption DEF Balanced
  <2>. QED  BY <1>7, <2>1, <2>3 DEF Balanced
<1>. QED  BY <1>1, <1>5, <1>8 DEF k, e, al2
-----------------------------------------------------------------------------
(***************************************************************************)
(* The vaults and the payments, of a log l, where the vaults are (vs) and  *)
(* where the payments are (ps).                                            *)
(***************************************************************************)
MovesIn(l, id, states) == Filter(l, [event : DOMAIN states, id : {id}])
ToldBy(l, id, states) ==
  IF MovesIn(l, id, states) = <<>> THEN None
  ELSE states[MovesIn(l, id, states)[Len(MovesIn(l, id, states))].event]

Path(l, p, place) ==
  LET moves == MovesIn(l, p, D!PaymentStates)
      made  == Entry("PaymentIntentCreated", p)
      may   == Entry("PaymentAuthorized", p)
      paid  == Entry("PaymentSettled", p)
  IN \/ place = None /\ moves = <<>>
     \/ place = "INTENT_CREATED" /\ moves = <<made>>
     \/ place = "AUTHORIZED" /\ moves = <<made, may>>
     \/ place = "SETTLED" /\ moves = <<made, may, paid>>

Tells(l, vs, ps) ==
  /\ vs \in [Vaults -> VaultPlace \cup {None}] /\ ps \in [Payments -> PaymentPlace \cup {None}]
  /\ \A v \in Vaults : vs[v] = ToldBy(l, v, D!VaultStates)
  /\ \A p \in Payments : Path(l, p, ps[p])

LEMMA StateNames ==
  /\ DOMAIN D!VaultStates = {"VaultActivated", "VaultLocked", "VaultReleased"}
  /\ DOMAIN D!PaymentStates = {"PaymentIntentCreated", "PaymentAuthorized", "PaymentSettled"}
  /\ D!VaultStates["VaultActivated"] = "ACTIVE" /\ D!VaultStates["VaultLocked"] = "LOCKED"
  /\ D!VaultStates["VaultReleased"] = "RELEASED"
  /\ D!PaymentStates["PaymentIntentCreated"] = "INTENT_CREATED"
  /\ D!PaymentStates["PaymentAuthorized"] = "AUTHORIZED" /\ D!PaymentStates["PaymentSettled"] = "SETTLED"
BY DEF D!VaultStates, D!PaymentStates

LEMMA MovesAppend ==
  ASSUME NEW l \in Seq(Entries), NEW e \in Entries, NEW id, NEW states
  PROVE  /\ MovesIn(l, id, states) \in Seq(Entries)
         /\ MovesIn(Append(l, e), id, states) =
              IF e.event \in DOMAIN states /\ e.id = id THEN Append(MovesIn(l, id, states), e)
              ELSE MovesIn(l, id, states)
<1>. DEFINE K == [event : DOMAIN states, id : {id}]
<1>1. e \in K <=> e.event \in DOMAIN states /\ e.id = id
  BY DEF Entries
<1>. HIDE DEF K
<1>2. Filter(l, K) \in Seq(Entries \cap K)
  BY FilterIsList
<1>3. Filter(l, K) \in Seq(Entries)
  BY <1>2
<1>4. Filter(Append(l, e), K) = IF e \in K THEN Append(Filter(l, K), e) ELSE Filter(l, K)
  BY FilterAppend
<1>. QED  BY <1>1, <1>3, <1>4 DEF MovesIn, K

LEMMA OtherMove ==
  ASSUME NEW l \in Seq(Entries), NEW e \in Entries, NEW vs, NEW ps, Tells(l, vs, ps),
         e.event \notin DOMAIN D!VaultStates, e.event \notin DOMAIN D!PaymentStates
  PROVE  Tells(Append(l, e), vs, ps)
<1>1. /\ \A id : MovesIn(Append(l, e), id, D!VaultStates) = MovesIn(l, id, D!VaultStates)
      /\ \A id : MovesIn(Append(l, e), id, D!PaymentStates) = MovesIn(l, id, D!PaymentStates)
  BY MovesAppend
<1>. QED  BY <1>1 DEF Tells, ToldBy, Path

LEMMA VaultMove ==
  ASSUME NEW l \in Seq(Entries), NEW vs, NEW ps, NEW v \in Vaults, Tells(l, vs, ps),
         NEW event \in DOMAIN D!VaultStates
  PROVE  /\ Entry(event, v) \in Entries
         /\ Tells(Append(l, Entry(event, v)), [vs EXCEPT ![v] = D!VaultStates[event]], ps)
<1>. DEFINE e == Entry(event, v)
            k == Append(l, e)
            us == [vs EXCEPT ![v] = D!VaultStates[event]]
<1>0. /\ e \in Entries /\ e.event = event /\ e.id = v /\ event \notin DOMAIN D!PaymentStates
      /\ D!VaultStates[event] \in VaultPlace
  BY StateNames DEF Entries, Entry, EventNames, Ids, VaultPlace
<1>1. /\ us \in [Vaults -> VaultPlace \cup {None}] /\ us[v] = D!VaultStates[event]
      /\ \A u \in Vaults : u # v => us[u] = vs[u]
  BY <1>0 DEF Tells
<1>2. /\ MovesIn(l, v, D!VaultStates) \in Seq(Entries)
      /\ MovesIn(k, v, D!VaultStates) = Append(MovesIn(l, v, D!VaultStates), e)
      /\ \A u \in Vaults : u # v => MovesIn(k, u, D!VaultStates) = MovesIn(l, u, D!VaultStates)
      /\ \A p \in Payments : MovesIn(k, p, D!PaymentStates) = MovesIn(l, p, D!PaymentStates)
  BY <1>0, MovesAppend
<1>. HIDE DEF k, us, e
<1>3. ToldBy(k, v, D!VaultStates) = D!VaultStates[event]
  <2>. DEFINE m == MovesIn(l, v, D!VaultStates)
  <2>1. /\ Append(m, e) # <<>> /\ Len(Append(m, e)) = Len(m) + 1
        /\ Append(m, e)[Len(m) + 1] = e
    BY <1>0, <1>2
  <2>. QED  BY <1>0, <1>2, <2>1 DEF ToldBy
<1>4. \A u \in Vaults : us[u] = ToldBy(k, u, D!VaultStates)
  BY <1>1, <1>2, <1>3 DEF Tells, ToldBy
<1>5. \A p \in Payments : Path(k, p, ps[p])
  BY <1>2 DEF Tells, Path
<1>. QED  BY <1>0, <1>1, <1>4, <1>5 DEF Tells, k, us, e

LEMMA ShortLists ==
  /\ \A a, b : Append(<<a>>, b) = <<a, b>>
  /\ \A a, b, c : Append(<<a, b>>, c) = <<a, b, c>>
<1>1. ASSUME NEW a, NEW b, NEW c PROVE Append(<<a, b>>, c) = <<a, b, c>> /\ Append(<<a>>, b) = <<a, b>>
  <2>. DEFINE T == {a, b, c}
  <2>1. <<a>> \in Seq(T) /\ <<a, b>> \in Seq(T) /\ <<a, b, c>> \in Seq(T)
    OBVIOUS
  <2>2. Append(<<a, b>>, c) \in Seq(T) /\ Append(<<a>>, b) \in Seq(T)
    BY <2>1
  <2>3. /\ Len(Append(<<a>>, b)) = 2 /\ Append(<<a>>, b)[1] = a /\ Append(<<a>>, b)[2] = b
        /\ Len(Append(<<a, b>>, c)) = 3 /\ Append(<<a, b>>, c)[1] = a
        /\ Append(<<a, b>>, c)[2] = b /\ Append(<<a, b>>, c)[3] = c
    BY <2>1
  <2>4. \A i \in 1..Len(Append(<<a>>, b)) : Append(<<a>>, b)[i] = <<a, b>>[i]
    BY <2>3
  <2>5. \A i \in 1..Len(Append(<<a, b>>, c)) : Append(<<a, b>>, c)[i] = <<a, b, c>>[i]
    BY <2>3
  <2>6. Len(<<a, b>>) = 2 /\ Len(<<a, b, c>>) = 3
    OBVIOUS
  <2>. HIDE DEF T
  <2>. QED  BY <2>1, <2>2, <2>3, <2>4, <2>5, <2>6, SeqEqual
<1>. QED  BY <1>1

LEMMA PaymentMove ==
  ASSUME NEW l \in Seq(Entries), NEW vs, NEW ps, NEW p \in Payments, Tells(l, vs, ps),
         NEW event, NEW place,
         \/ ps[p] = None /\ event = "PaymentIntentCreated" /\ place = "INTENT_CREATED"
         \/ ps[p] = "INTENT_CREATED" /\ event = "PaymentAuthorized" /\ place = "AUTHORIZED"
         \/ ps[p] = "AUTHORIZED" /\ event = "PaymentSettled" /\ place = "SETTLED"
  PROVE  /\ Entry(event, p) \in Entries
         /\ Tells(Append(l, Entry(event, p)), vs, [ps EXCEPT ![p] = place])
<1>. DEFINE e == Entry(event, p)
            k == Append(l, e)
            qs == [ps EXCEPT ![p] = place]
<1>0. /\ e \in Entries /\ e.event = event /\ e.id = p /\ event \in DOMAIN D!PaymentStates
      /\ event \notin DOMAIN D!VaultStates /\ place \in PaymentPlace
  BY StateNames DEF Entries, Entry, EventNames, Ids, PaymentPlace
<1>1. /\ qs \in [Payments -> PaymentPlace \cup {None}] /\ qs[p] = place
      /\ \A q \in Payments : q # p => qs[q] = ps[q]
  BY <1>0 DEF Tells
<1>2. /\ MovesIn(l, p, D!PaymentStates) \in Seq(Entries)
      /\ MovesIn(k, p, D!PaymentStates) = Append(MovesIn(l, p, D!PaymentStates), e)
      /\ \A q \in Payments : q # p => MovesIn(k, q, D!PaymentStates) = MovesIn(l, q, D!PaymentStates)
      /\ \A v \in Vaults : MovesIn(k, v, D!VaultStates) = MovesIn(l, v, D!VaultStates)
  BY <1>0, MovesAppend
<1>. HIDE DEF k, qs
<1>3. Path(k, p, place)
  <2>. DEFINE m == MovesIn(l, p, D!PaymentStates)
              made == Entry("PaymentIntentCreated", p)
              may  == Entry("PaymentAuthorized", p)
              paid == Entry("PaymentSettled", p)
  <2>1. Path(l, p, ps[p]) /\ None \notin PaymentPlace
    BY DomainsAssumption DEF Tells
  <2>2. CASE ps[p] = None /\ event = "PaymentIntentCreated" /\ place = "INTENT_CREATED"
    <3>1. m = <<>> /\ e = made
      BY <2>1, <2>2 DEF Path, PaymentPlace
    <3>2. Append(<<>>, made) = <<made>>
      OBVIOUS
    <3>. QED  BY <1>2, <2>2, <3>1, <3>2 DEF Path
  <2>3. CASE ps[p] = "INTENT_CREATED" /\ event = "PaymentAuthorized" /\ place = "AUTHORIZED"
    <3>1. m = <<made>> /\ e = may
      BY <2>1, <2>3 DEF Path, PaymentPlace
    <3>2. Append(<<made>>, may) = <<made, may>>
      BY ShortLists, Zenon
    <3>. QED  BY <1>2, <2>3, <3>1, <3>2 DEF Path
  <2>4. CASE ps[p] = "AUTHORIZED" /\ event = "PaymentSettled" /\ place = "SETTLED"
    <3>1. m = <<made, may>> /\ e = paid
      BY <2>1, <2>4 DEF Path, PaymentPlace
    <3>2. Append(<<made, may>>, paid) = <<made, may, paid>>
      BY ShortLists, Zenon
    <3>. QED  BY <1>2, <2>4, <3>1, <3>2 DEF Path
  <2>. QED  BY <2>2, <2>3, <2>4
<1>4. ASSUME NEW q \in Payments PROVE Path(k, q, qs[q])
  <2>1. CASE q = p
    BY <1>1, <1>3, <2>1
  <2>2. CASE q # p
    <3>1. Path(l, q, ps[q]) /\ qs[q] = ps[q] /\ MovesIn(k, q, D!PaymentStates) = MovesIn(l, q, D!PaymentStates)
      BY <1>1, <1>2, <2>2 DEF Tells
    <3>. QED  BY <3>1 DEF Path
  <2>. QED  BY <2>1, <2>2
<1>5. \A v \in Vaults : vs[v] = ToldBy(k, v, D!VaultStates)
  BY <1>2 DEF Tells, ToldBy
<1>. QED  BY <1>0, <1>1, <1>4, <1>5 DEF Tells, k, qs

-----------------------------------------------------------------------------
(***************************************************************************)
(* The invariant of the domains, and that their steps keep it.             *)
(***************************************************************************)
Sound(l, al, bal, vs, ps) ==
  /\ l \in Seq(Entries) /\ al \in Allocated
  /\ OnRecord(l, al) /\ Balanced(l, al, bal) /\ Tells(l, vs, ps)

DomainsInv == Sound(log, allocations, balance, vaults, payments)

Silent == EventNames \ ({"TreasuryAllocationExecuted"} \cup DOMAIN D!VaultStates \cup DOMAIN D!PaymentStates)

LEMMA SilentNames ==
  {"TreasuryIntentCreated", "TreasuryApproved", "TreasuryBalanceVerified", "VaultCreated", "VaultStateVerified",
   "PaymentStateVerified", "AgentRegistered", "AgentMissionCreated", "AgentStepExecuted", "AgentMissionCompleted"}
    \subseteq Silent
BY StateNames DEF Silent, EventNames

LEMMA SilentEntry ==
  ASSUME NEW l, NEW al, NEW bal, NEW vs, NEW ps, Sound(l, al, bal, vs, ps),
         NEW event \in Silent, NEW id \in Ids
  PROVE  Sound(Append(l, Entry(event, id)), al, bal, vs, ps)
<1>1. /\ Entry(event, id) \in Entries /\ Entry(event, id).event = event
      /\ event # "TreasuryAllocationExecuted"
      /\ event \notin DOMAIN D!VaultStates /\ event \notin DOMAIN D!PaymentStates
  BY DEF Silent, Entries, Entry
<1>2. l \in Seq(Entries) /\ al \in Allocated /\ OnRecord(l, al) /\ Balanced(l, al, bal) /\ Tells(l, vs, ps)
  BY DEF Sound
<1>3. Append(l, Entry(event, id)) \in Seq(Entries)
  BY <1>1, <1>2
<1>4. OnRecord(Append(l, Entry(event, id)), al) /\ Balanced(Append(l, Entry(event, id)), al, bal)
  BY <1>1, <1>2, OtherEntry
<1>5. Tells(Append(l, Entry(event, id)), vs, ps)
  BY <1>1, <1>2, OtherMove
<1>. QED  BY <1>2, <1>3, <1>4, <1>5 DEF Sound

LEMMA VaultEntry ==
  ASSUME NEW l, NEW al, NEW bal, NEW vs, NEW ps, Sound(l, al, bal, vs, ps),
         NEW v \in Vaults, NEW event \in DOMAIN D!VaultStates
  PROVE  Sound(Append(l, Entry(event, v)), al, bal, [vs EXCEPT ![v] = D!VaultStates[event]], ps)
<1>1. l \in Seq(Entries) /\ al \in Allocated /\ OnRecord(l, al) /\ Balanced(l, al, bal) /\ Tells(l, vs, ps)
  BY DEF Sound
<1>2. Entry(event, v) \in Entries /\ Tells(Append(l, Entry(event, v)), [vs EXCEPT ![v] = D!VaultStates[event]], ps)
  BY <1>1, VaultMove
<1>3. Append(l, Entry(event, v)) \in Seq(Entries) /\ Entry(event, v).event # "TreasuryAllocationExecuted"
  BY <1>1, <1>2, StateNames DEF Entry
<1>4. OnRecord(Append(l, Entry(event, v)), al) /\ Balanced(Append(l, Entry(event, v)), al, bal)
  BY <1>1, <1>2, <1>3, OtherEntry
<1>. QED  BY <1>1, <1>2, <1>3, <1>4 DEF Sound

LEMMA PaymentEntry ==
  ASSUME NEW l, NEW al, NEW bal, NEW vs, NEW ps, Sound(l, al, bal, vs, ps), NEW p \in Payments,
         NEW event, NEW place,
         \/ ps[p] = None /\ event = "PaymentIntentCreated" /\ place = "INTENT_CREATED"
         \/ ps[p] = "INTENT_CREATED" /\ event = "PaymentAuthorized" /\ place = "AUTHORIZED"
         \/ ps[p] = "AUTHORIZED" /\ event = "PaymentSettled" /\ place = "SETTLED"
  PROVE  Sound(Append(l, Entry(event, p)), al, bal, vs, [ps EXCEPT ![p] = place])
<1>1. l \in Seq(Entries) /\ al \in Allocated /\ OnRecord(l, al) /\ Balanced(l, al, bal) /\ Tells(l, vs, ps)
  BY DEF Sound
<1>2. Entry(event, p) \in Entries /\ Tells(Append(l, Entry(event, p)), vs, [ps EXCEPT ![p] = place])
  BY <1>1, PaymentMove
<1>3. Append(l, Entry(event, p)) \in Seq(Entries) /\ Entry(event, p).event # "TreasuryAllocationExecuted"
  BY <1>1, <1>2, StateNames DEF Entry
<1>4. OnRecord(Append(l, Entry(event, p)), al) /\ Balanced(Append(l, Entry(event, p)), al, bal)
  BY <1>1, <1>2, <1>3, OtherEntry
<1>. QED  BY <1>1, <1>2, <1>3, <1>4 DEF Sound

LEMMA RequestChange ==
  ASSUME NEW l, NEW al, NEW bal, NEW vs, NEW ps, Sound(l, al, bal, vs, ps),
         NEW r \in Requests, NEW a \in Allocation, ~ Executed(al, r), a.status # "EXECUTED"
  PROVE  Sound(l, [al EXCEPT ![r] = a], bal, vs, ps)
<1>1. l \in Seq(Entries) /\ al \in Allocated /\ OnRecord(l, al) /\ Balanced(l, al, bal) /\ Tells(l, vs, ps)
  BY DEF Sound
<1>. QED  BY <1>1, OtherRequest DEF Sound

\* Two events at once are one after the other.
LEMMA Joined ==
  ASSUME NEW T, NEW l \in Seq(T), NEW a \in T, NEW b \in T
  PROVE  l \o <<a>> = Append(l, a) /\ l \o <<a, b>> = Append(Append(l, a), b)
         /\ (l \o <<a>>) \o <<b>> = Append(Append(l, a), b) /\ (l \o <<a>>) \o <<>> = Append(l, a)
<1>1. /\ l \o <<a>> \in Seq(T) /\ Len(l \o <<a>>) = Len(l) + 1 /\ Append(l, a) \in Seq(T) /\ Len(Append(l, a)) = Len(l) + 1
      /\ \A i \in 1..Len(l) + 1 : (l \o <<a>>)[i] = Append(l, a)[i]
      /\ Len(l) \in Nat
  OBVIOUS
<1>2. l \o <<a>> = Append(l, a)
  BY <1>1, SeqEqual
<1>. DEFINE m == Append(l, a)
<1>3. m \in Seq(T) /\ Len(m) = Len(l) + 1 /\ m[Len(l) + 1] = a /\ \A i \in 1..Len(l) : m[i] = l[i]
  OBVIOUS
<1>. HIDE DEF m
<1>4. /\ m \o <<b>> \in Seq(T) /\ Len(m \o <<b>>) = Len(m) + 1 /\ Append(m, b) \in Seq(T) /\ Len(Append(m, b)) = Len(m) + 1
      /\ \A i \in 1..Len(m) + 1 : (m \o <<b>>)[i] = Append(m, b)[i]
      /\ Len(m) \in Nat
  BY <1>3
<1>5. m \o <<b>> = Append(m, b)
  BY <1>4, SeqEqual
<1>6. m \o <<>> = m
  BY <1>3
<1>7. /\ l \o <<a, b>> \in Seq(T) /\ Len(l \o <<a, b>>) = Len(l) + 2
      /\ \A i \in 1..Len(l) : (l \o <<a, b>>)[i] = l[i]
      /\ (l \o <<a, b>>)[Len(l) + 1] = a /\ (l \o <<a, b>>)[Len(l) + 2] = b
  OBVIOUS
<1>8. /\ Append(m, b) \in Seq(T) /\ Len(Append(m, b)) = Len(l) + 2
      /\ \A i \in 1..Len(l) : Append(m, b)[i] = l[i]
      /\ Append(m, b)[Len(l) + 1] = a /\ Append(m, b)[Len(l) + 2] = b
  BY <1>1, <1>3
<1>9. \A i \in 1..Len(l) + 2 : i \in 1..Len(l) \/ i = Len(l) + 1 \/ i = Len(l) + 2
  BY <1>1
<1>10. \A i \in 1..Len(l) + 2 : (l \o <<a, b>>)[i] = Append(m, b)[i]
  BY <1>7, <1>8, <1>9
<1>11. l \o <<a, b>> = Append(m, b)
  BY <1>7, <1>8, <1>10, SeqEqual
<1>. QED  BY <1>2, <1>5, <1>6, <1>11 DEF m

LEMMA DomainsInit == D!Init => DomainsInv
<1>. SUFFICES ASSUME D!Init PROVE DomainsInv
  OBVIOUS
<1>1. log = <<>> /\ log \in Seq(Entries) /\ Len(log) = 0
  BY DEF D!Init
<1>2. allocations = [r \in Requests |-> None] /\ allocations \in Allocated /\ \A r \in Requests : ~ Executed(allocations, r)
  BY DEF D!Init, Allocated, Executed
<1>3. OnRecord(log, allocations)
  <2>1. \A r : Executions(log, r) = {}
    BY <1>1 DEF Executions
  <2>2. Cardinality({}) = 0
    BY FS_EmptySet
  <2>3. \A r \in Requests : Cardinality(Executions(log, r)) = 0
    BY <2>1, <2>2
  <2>4. \A n \in 1..Len(log) : FALSE
    BY <1>1
  <2>. QED  BY <1>2, <2>3, <2>4 DEF OnRecord
<1>4. Balanced(log, allocations, balance)
  <2>1. \A q : GainsOf(log, allocations, q) = <<>>
    <3>. TAKE q
    <3>1. GainsOf(log, allocations, q) \in Seq(Int) /\ Len(GainsOf(log, allocations, q)) = 0
      BY <1>1, <1>2, <1>3, GainsAreNumbers
    <3>. QED  BY <3>1
  <2>2. balance = [q \in {Reserve, Operating} |-> IF q = Reserve THEN InitReserve ELSE 0]
    BY DEF D!Init
  <2>. QED  BY <2>1, <2>2, TotalEmpty, DomainsAssumption DEF Balanced, Start
<1>5. Tells(log, vaults, payments)
  <2>1. \A id, states : MovesIn(log, id, states) = <<>>
    BY <1>1, FilterEmpty DEF MovesIn
  <2>2. vaults = [v \in Vaults |-> None] /\ payments = [p \in Payments |-> None]
    BY DEF D!Init
  <2>. QED  BY <2>1, <2>2 DEF Tells, ToldBy, Path
<1>. QED  BY <1>1, <1>2, <1>3, <1>4, <1>5 DEF DomainsInv, Sound

LEMMA LogIs ==
  ASSUME NEW event, NEW id, D!Log(event, id)
  PROVE  log' = Append(log, Entry(event, id))
BY DEF D!Log, Entry

LEMMA AllocationOf ==
  ASSUME DomainsInv, NEW r \in Requests, allocations[r] # None,
         NEW st \in {"PENDING", "APPROVED", "EXECUTED", "REJECTED"}
  PROVE  LET a == [allocations[r] EXCEPT !.status = st]
         IN  /\ a \in Allocation /\ a.status = st
             /\ [allocations EXCEPT ![r].status = st] = [allocations EXCEPT ![r] = a]
<1>1. allocations[r] \in Allocation
  BY DEF DomainsInv, Sound, Allocated
<1>. QED  BY <1>1 DEF Allocation

LEMMA TreasuryKeeps ==
  ASSUME DomainsInv, D!TreasuryNext
  PROVE  DomainsInv'
<1>0. Sound(log, allocations, balance, vaults, payments) /\ allocations \in Allocated
  BY DEF DomainsInv, Sound
<1>1. ASSUME NEW r \in Requests, NEW x \in Payloads, D!CreateAllocation(r, x) PROVE DomainsInv'
  <2>. DEFINE a == [from |-> x.from, to |-> x.to, amount |-> x.amount, status |-> "PENDING"]
  <2>1. /\ allocations[r] = None /\ allocations' = [allocations EXCEPT ![r] = a]
        /\ D!Log("TreasuryIntentCreated", r) /\ UNCHANGED <<balance, vaults, payments>>
    BY <1>1 DEF D!CreateAllocation
  <2>2. a \in Allocation /\ a.status # "EXECUTED" /\ ~ Executed(allocations, r) /\ r \in Ids
    BY <2>1, DomainsAssumption DEF Allocation, Pools, Executed, Ids
  <2>3. Sound(log, allocations', balance, vaults, payments)
    BY <1>0, <2>1, <2>2, RequestChange
  <2>4. log' = Append(log, Entry("TreasuryIntentCreated", r))
    BY <2>1, LogIs
  <2>5. Sound(log', allocations', balance, vaults, payments)
    BY <2>2, <2>3, <2>4, SilentEntry, SilentNames
  <2>. QED  BY <2>1, <2>5 DEF DomainsInv
<1>2. ASSUME NEW r \in Requests, D!ApproveAllocation(r) PROVE DomainsInv'
  <2>. DEFINE a == [allocations[r] EXCEPT !.status = "APPROVED"]
  <2>1. /\ allocations[r] # None /\ allocations[r].status = "PENDING"
        /\ allocations' = [allocations EXCEPT ![r].status = "APPROVED"]
        /\ D!Log("TreasuryApproved", r) /\ UNCHANGED <<balance, vaults, payments>>
    BY <1>2 DEF D!ApproveAllocation
  <2>2. /\ a \in Allocation /\ a.status # "EXECUTED" /\ ~ Executed(allocations, r) /\ r \in Ids
        /\ allocations' = [allocations EXCEPT ![r] = a]
    BY <2>1, AllocationOf DEF Executed, Ids
  <2>3. Sound(log, allocations', balance, vaults, payments)
    BY <1>0, <2>2, RequestChange
  <2>4. log' = Append(log, Entry("TreasuryApproved", r))
    BY <2>1, LogIs
  <2>5. Sound(log', allocations', balance, vaults, payments)
    BY <2>2, <2>3, <2>4, SilentEntry, SilentNames
  <2>. QED  BY <2>1, <2>5 DEF DomainsInv
<1>3. ASSUME NEW r \in Requests, D!ExecuteAllocation(r) PROVE DomainsInv'
  <2>0. /\ allocations[r] # None /\ allocations[r].status = "APPROVED" /\ D!Known(allocations[r])
        /\ UNCHANGED <<vaults, payments>>
    BY <1>3 DEF D!ExecuteAllocation
  <2>1. CASE balance[allocations[r].from] < allocations[r].amount
    <3>. DEFINE a == [allocations[r] EXCEPT !.status = "REJECTED"]
    <3>1. allocations' = [allocations EXCEPT ![r].status = "REJECTED"] /\ UNCHANGED <<log, balance>>
      BY <1>3, <2>1 DEF D!ExecuteAllocation, D!Quiet
    <3>2. /\ a \in Allocation /\ a.status # "EXECUTED" /\ ~ Executed(allocations, r)
          /\ allocations' = [allocations EXCEPT ![r] = a]
      BY <2>0, <3>1, AllocationOf DEF Executed
    <3>3. Sound(log, allocations', balance, vaults, payments)
      BY <1>0, <3>2, RequestChange
    <3>. QED  BY <2>0, <3>1, <3>3 DEF DomainsInv
  <2>2. CASE ~ (balance[allocations[r].from] < allocations[r].amount)
    <3>1. /\ allocations' = [allocations EXCEPT ![r].status = "EXECUTED"]
          /\ balance' = D!Moved(allocations[r]) /\ D!Log("TreasuryAllocationExecuted", r)
      BY <1>3, <2>2 DEF D!ExecuteAllocation
    <3>2. /\ log \in Seq(Entries) /\ OnRecord(log, allocations) /\ Balanced(log, allocations, balance)
          /\ Tells(log, vaults, payments)
      BY <1>0 DEF Sound
    <3>3. {allocations[r].from, allocations[r].to} \subseteq {Reserve, Operating}
      BY <2>0, <3>2 DEF D!Known, Balanced
    <3>4. log' = Append(log, Entry("TreasuryAllocationExecuted", r))
      BY <3>1, LogIs
    <3>5. allocations' \in Allocated /\ OnRecord(log', allocations') /\ Balanced(log', allocations', balance')
      BY <1>0, <2>0, <3>1, <3>2, <3>3, <3>4, Execution DEF D!Moved
    <3>6. Entry("TreasuryAllocationExecuted", r) \in Entries
      BY DEF Entry, Entries, EventNames, Ids
    <3>7. Tells(log', vaults, payments)
      <4>1. /\ Entry("TreasuryAllocationExecuted", r).event \notin DOMAIN D!VaultStates
            /\ Entry("TreasuryAllocationExecuted", r).event \notin DOMAIN D!PaymentStates
        BY StateNames DEF Entry
      <4>. QED  BY <3>2, <3>4, <3>6, <4>1, OtherMove
    <3>8. log' \in Seq(Entries)
      BY <3>2, <3>4, <3>6
    <3>. QED  BY <2>0, <3>5, <3>7, <3>8 DEF DomainsInv, Sound
  <2>. QED  BY <2>1, <2>2
<1>4. ASSUME D!Verify("TreasuryBalanceVerified", Reserve) PROVE DomainsInv'
  <2>1. D!Log("TreasuryBalanceVerified", Reserve) /\ UNCHANGED <<balance, allocations, vaults, payments>> /\ Reserve \in Ids
    BY <1>4 DEF D!Verify, Ids
  <2>2. log' = Append(log, Entry("TreasuryBalanceVerified", Reserve))
    BY <2>1, LogIs
  <2>3. Sound(log', allocations, balance, vaults, payments)
    BY <1>0, <2>1, <2>2, SilentEntry, SilentNames
  <2>. QED  BY <2>1, <2>3 DEF DomainsInv
<1>. QED  BY <1>1, <1>2, <1>3, <1>4 DEF D!TreasuryNext

LEMMA VaultKeeps ==
  ASSUME DomainsInv, NEW v \in Vaults,
         D!OpenVault(v) \/ D!LockVault(v) \/ D!ReleaseVault(v) \/ D!Verify("VaultStateVerified", v)
  PROVE  DomainsInv'
<1>0. Sound(log, allocations, balance, vaults, payments) /\ v \in Ids /\ log \in Seq(Entries)
  BY DEF DomainsInv, Sound, Ids
<1>1. CASE D!OpenVault(v)
  <2>1. /\ vaults' = [vaults EXCEPT ![v] = "ACTIVE"] /\ UNCHANGED <<balance, allocations, payments>>
        /\ log' = log \o <<Entry("VaultCreated", v), Entry("VaultActivated", v)>>
    BY <1>1 DEF D!OpenVault, Entry
  <2>2. Sound(Append(log, Entry("VaultCreated", v)), allocations, balance, vaults, payments)
    BY <1>0, SilentEntry, SilentNames
  <2>3. Sound(Append(Append(log, Entry("VaultCreated", v)), Entry("VaultActivated", v)),
              allocations, balance, vaults', payments)
    BY <2>1, <2>2, VaultEntry, StateNames
  <2>4. Entry("VaultCreated", v) \in Entries /\ Entry("VaultActivated", v) \in Entries
    BY <1>0 DEF Entry, Entries, EventNames
  <2>5. log' = Append(Append(log, Entry("VaultCreated", v)), Entry("VaultActivated", v))
    BY <1>0, <2>1, <2>4, Joined
  <2>. QED  BY <2>1, <2>3, <2>5 DEF DomainsInv
<1>2. CASE D!LockVault(v)
  <2>1. /\ vaults' = [vaults EXCEPT ![v] = "LOCKED"] /\ UNCHANGED <<balance, allocations, payments>>
        /\ D!Log("VaultLocked", v)
    BY <1>2 DEF D!LockVault
  <2>2. log' = Append(log, Entry("VaultLocked", v))
    BY <2>1, LogIs
  <2>3. Sound(log', allocations, balance, vaults', payments)
    BY <1>0, <2>1, <2>2, VaultEntry, StateNames
  <2>. QED  BY <2>1, <2>3 DEF DomainsInv
<1>3. CASE D!ReleaseVault(v)
  <2>1. /\ vaults' = [vaults EXCEPT ![v] = "RELEASED"] /\ UNCHANGED <<balance, allocations, payments>>
        /\ D!Log("VaultReleased", v)
    BY <1>3 DEF D!ReleaseVault
  <2>2. log' = Append(log, Entry("VaultReleased", v))
    BY <2>1, LogIs
  <2>3. Sound(log', allocations, balance, vaults', payments)
    BY <1>0, <2>1, <2>2, VaultEntry, StateNames
  <2>. QED  BY <2>1, <2>3 DEF DomainsInv
<1>4. CASE D!Verify("VaultStateVerified", v)
  <2>1. D!Log("VaultStateVerified", v) /\ UNCHANGED <<balance, allocations, vaults, payments>>
    BY <1>4 DEF D!Verify
  <2>2. log' = Append(log, Entry("VaultStateVerified", v))
    BY <2>1, LogIs
  <2>3. Sound(log', allocations, balance, vaults, payments)
    BY <1>0, <2>2, SilentEntry, SilentNames
  <2>. QED  BY <2>1, <2>3 DEF DomainsInv
<1>. QED  BY <1>1, <1>2, <1>3, <1>4

LEMMA PaymentKeeps ==
  ASSUME DomainsInv, NEW p \in Payments,
         D!CreatePayment(p) \/ D!AuthorizePayment(p) \/ D!SettlePayment(p) \/ D!Verify("PaymentStateVerified", p)
  PROVE  DomainsInv'
<1>0. Sound(log, allocations, balance, vaults, payments) /\ p \in Ids
  BY DEF DomainsInv, Ids
<1>1. ASSUME NEW event, NEW place, D!Log(event, p), payments' = [payments EXCEPT ![p] = place],
             \/ payments[p] = None /\ event = "PaymentIntentCreated" /\ place = "INTENT_CREATED"
             \/ payments[p] = "INTENT_CREATED" /\ event = "PaymentAuthorized" /\ place = "AUTHORIZED"
             \/ payments[p] = "AUTHORIZED" /\ event = "PaymentSettled" /\ place = "SETTLED",
             UNCHANGED <<balance, allocations, vaults>>
      PROVE  DomainsInv'
  <2>1. log' = Append(log, Entry(event, p))
    BY <1>1, LogIs
  <2>2. Sound(log', allocations, balance, vaults, payments')
    BY <1>0, <1>1, <2>1, PaymentEntry
  <2>. QED  BY <1>1, <2>2 DEF DomainsInv
<1>2. CASE D!CreatePayment(p)
  BY <1>1, <1>2 DEF D!CreatePayment
<1>3. CASE D!AuthorizePayment(p)
  BY <1>1, <1>3 DEF D!AuthorizePayment
<1>4. CASE D!SettlePayment(p)
  BY <1>1, <1>4 DEF D!SettlePayment, D!MaySettle
<1>5. CASE D!Verify("PaymentStateVerified", p)
  <2>1. D!Log("PaymentStateVerified", p) /\ UNCHANGED <<balance, allocations, vaults, payments>>
    BY <1>5 DEF D!Verify
  <2>2. log' = Append(log, Entry("PaymentStateVerified", p))
    BY <2>1, LogIs
  <2>3. Sound(log', allocations, balance, vaults, payments)
    BY <1>0, <2>2, SilentEntry, SilentNames
  <2>. QED  BY <2>1, <2>3 DEF DomainsInv
<1>. QED  BY <1>2, <1>3, <1>4, <1>5

LEMMA AgentsKeep ==
  ASSUME DomainsInv, D!AgentNext
  PROVE  DomainsInv'
<1>0. Sound(log, allocations, balance, vaults, payments) /\ log \in Seq(Entries)
  BY DEF DomainsInv, Sound
<1>1. ASSUME NEW event \in Silent, NEW id \in Ids, D!Log(event, id), UNCHANGED <<balance, allocations, vaults, payments>>
      PROVE  DomainsInv'
  <2>1. log' = Append(log, Entry(event, id))
    BY <1>1, LogIs
  <2>2. Sound(log', allocations, balance, vaults, payments)
    BY <1>0, <2>1, SilentEntry
  <2>. QED  BY <1>1, <2>2 DEF DomainsInv
<1>2. ASSUME NEW a \in AgentIds, D!RegisterAgent(a) PROVE DomainsInv'
  BY <1>1, <1>2, SilentNames DEF D!RegisterAgent, Ids
<1>3. ASSUME NEW m \in Missions, NEW a \in AgentIds, D!SubmitMission(m, a) PROVE DomainsInv'
  BY <1>1, <1>3, SilentNames DEF D!SubmitMission, Ids
<1>4. ASSUME NEW m \in Missions, NEW n, D!ExecuteMissionStep(m, n) PROVE DomainsInv'
  <2>. DEFINE e == Entry("AgentStepExecuted", m)
              d == Entry("AgentMissionCompleted", m)
  <2>0. m \in Ids /\ e \in Entries /\ d \in Entries
    BY DEF Ids, Entries, Entry, EventNames
  <2>1. /\ UNCHANGED <<balance, allocations, vaults, payments>>
        /\ log' = (log \o <<e>>) \o <<d>> \/ log' = (log \o <<e>>) \o <<>>
    BY <1>4 DEF D!ExecuteMissionStep, Entry
  <2>2. Sound(Append(log, e), allocations, balance, vaults, payments)
    BY <1>0, <2>0, SilentEntry, SilentNames
  <2>3. Sound(Append(Append(log, e), d), allocations, balance, vaults, payments)
    BY <2>0, <2>2, SilentEntry, SilentNames
  <2>4. log' = Append(Append(log, e), d) \/ log' = Append(log, e)
    <3>. HIDE DEF e, d
    <3>. QED  BY <1>0, <2>0, <2>1, Joined
  <2>. QED  BY <2>1, <2>2, <2>3, <2>4 DEF DomainsInv
<1>. QED  BY <1>2, <1>3, <1>4 DEF D!AgentNext

LEMMA DomainsKept == DomainsInv /\ [D!Next]_(D!vars) => DomainsInv'
<1>. SUFFICES ASSUME DomainsInv, [D!Next]_(D!vars) PROVE DomainsInv'
  OBVIOUS
<1>1. CASE D!TreasuryNext
  BY <1>1, TreasuryKeeps
<1>2. CASE D!VaultNext
  BY <1>2, VaultKeeps DEF D!VaultNext
<1>3. CASE D!PaymentNext
  BY <1>3, PaymentKeeps DEF D!PaymentNext
<1>4. CASE D!AgentNext
  BY <1>4, AgentsKeep
<1>5. CASE UNCHANGED D!vars
  BY <1>5 DEF D!vars, DomainsInv
<1>. QED  BY <1>1, <1>2, <1>3, <1>4, <1>5 DEF D!Next

LEMMA DomainsInvariant == D!Spec => []DomainsInv
<1>1. D!Init => DomainsInv
  BY DomainsInit
<1>2. DomainsInv /\ [D!Next]_(D!vars) => DomainsInv'
  BY DomainsKept
<1>. QED  BY <1>1, <1>2, PTL DEF D!Spec

LEMMA DomainsSay == DomainsInv => D!TypeOK /\ D!BalancesMatchAllocations /\ D!StateFollowsLog
<1>. SUFFICES ASSUME DomainsInv PROVE D!TypeOK /\ D!BalancesMatchAllocations /\ D!StateFollowsLog
  OBVIOUS
<1>1. /\ log \in Seq(Entries) /\ allocations \in Allocated /\ OnRecord(log, allocations)
      /\ Balanced(log, allocations, balance) /\ Tells(log, vaults, payments) /\ DOMAIN log = 1..Len(log)
  BY DEF DomainsInv, Sound
<1>2. D!TypeOK
  <2>1. DOMAIN balance = {Reserve, Operating} /\ \A q \in DOMAIN balance : balance[q] \in Int
    BY <1>1 DEF Balanced
  <2>2. \A r \in Requests : allocations[r] # None =>
          allocations[r].status \in {"PENDING", "APPROVED", "EXECUTED", "REJECTED"}
    BY <1>1 DEF Allocated, Allocation
  <2>3. /\ \A v \in Vaults : vaults[v] \in {None, "ACTIVE", "LOCKED", "RELEASED"}
        /\ \A p \in Payments : payments[p] \in {None, "INTENT_CREATED", "AUTHORIZED", "SETTLED"}
    BY <1>1 DEF Tells, VaultPlace, PaymentPlace
  <2>. QED  BY <2>1, <2>2, <2>3 DEF D!TypeOK
<1>3. D!BalancesMatchAllocations
  <2>1. \A q : D!Gains(q) = GainsOf(log, allocations, q)
    BY <1>1 DEF D!Gains, GainsOf
  <2>2. \A q \in DOMAIN balance : balance[q] = (IF q = Reserve THEN InitReserve ELSE 0) + D!Total(D!Gains(q))
    BY <1>1, <2>1, SameOperators DEF Balanced, Start
  <2>3. balance[Reserve] + balance[Operating] = InitReserve
    BY <1>1 DEF Balanced
  <2>4. ASSUME NEW r \in Requests PROVE D!Cardinality(D!Executions(r)) = IF D!Executed(r) THEN 1 ELSE 0
    <3>1. D!Executions(r) = Executions(log, r)
      BY <1>1 DEF D!Executions, Executions
    <3>. QED  BY <1>1, <3>1, SameOperators DEF OnRecord, Executed, D!Executed
  <2>. QED  BY <2>2, <2>3, <2>4 DEF D!BalancesMatchAllocations
<1>4. D!StateFollowsLog
  <2>1. \A id, states : D!Moves(id, states) = MovesIn(log, id, states) /\ D!Told(id, states) = ToldBy(log, id, states)
    BY SameOperators DEF D!Moves, MovesIn, D!Told, ToldBy
  <2>2. \A v \in Vaults : vaults[v] = D!Told(v, D!VaultStates)
    BY <1>1, <2>1 DEF Tells
  <2>3. ASSUME NEW p \in Payments
        PROVE  /\ payments[p] = D!Told(p, D!PaymentStates)
               /\ D!Moves(p, D!PaymentStates)
                    \in {<<>>,
                         <<D!Entry("PaymentIntentCreated", p)>>,
                         <<D!Entry("PaymentIntentCreated", p), D!Entry("PaymentAuthorized", p)>>,
                         <<D!Entry("PaymentIntentCreated", p), D!Entry("PaymentAuthorized", p),
                           D!Entry("PaymentSettled", p)>>}
    <3>1. Path(log, p, payments[p])
      BY <1>1 DEF Tells
    <3>2. \A event : D!Entry(event, p) = Entry(event, p) /\ Entry(event, p).event = event
      BY DEF D!Entry, Entry
    <3>3. D!Moves(p, D!PaymentStates) = MovesIn(log, p, D!PaymentStates)
      BY <2>1
    <3>4. ToldBy(log, p, D!PaymentStates) = payments[p]
      <4>1. /\ \A a : <<a>> # <<>> /\ Len(<<a>>) = 1 /\ <<a>>[1] = a
            /\ \A a, b : <<a, b>> # <<>> /\ Len(<<a, b>>) = 2 /\ <<a, b>>[2] = b
            /\ \A a, b, c : <<a, b, c>> # <<>> /\ Len(<<a, b, c>>) = 3 /\ <<a, b, c>>[3] = c
        OBVIOUS
      <4>. HIDE DEF Entry
      <4>. QED  BY <3>1, <3>2, <4>1, StateNames DEF Path, ToldBy
    <3>. QED  BY <2>1, <3>1, <3>2, <3>3, <3>4 DEF Path
  <2>. QED  BY <2>2, <2>3 DEF D!StateFollowsLog
<1>. QED  BY <1>2, <1>3, <1>4

-----------------------------------------------------------------------------
(***************************************************************************)
(* The missions.  A list of steps respects its dependencies; runners only  *)
(* take it further.                                                        *)
(***************************************************************************)
StepSeqs     == Seq(MissionStep)
Done(s, n)   == s[n].status = "COMPLETED"
Respected(s) == \A n \in 1..Len(s) : Done(s, n) => A!Met(s, n)
Further(s, t) ==
  /\ Len(t) = Len(s)
  /\ \A n \in 1..Len(s) : t[n].id = s[n].id /\ t[n].needs = s[n].needs /\ (Done(s, n) => Done(t, n))
Chain(s) ==
  \A n \in 1..Len(s) : s[n].id = n /\ s[n].needs = IF n = 1 THEN {} ELSE {n - 1}

LEMMA FurtherSelf == ASSUME NEW s PROVE Further(s, s)
BY DEF Further

LEMMA FurtherOn ==
  ASSUME NEW s \in StepSeqs, NEW t \in StepSeqs, NEW u \in StepSeqs, Further(s, t), Further(t, u)
  PROVE  Further(s, u)
BY DEF Further, StepSeqs

LEMMA MetStays ==
  ASSUME NEW s \in StepSeqs, NEW t \in StepSeqs, Further(s, t), NEW n \in 1..Len(s), A!Met(s, n)
  PROVE  A!Met(t, n)
<1>1. DOMAIN s = 1..Len(s) /\ DOMAIN t = 1..Len(s) /\ t[n].needs = s[n].needs
  BY DEF Further, StepSeqs
<1>2. ASSUME NEW d \in t[n].needs PROVE \E k \in DOMAIN t : t[k].id = d /\ t[k].status = "COMPLETED"
  <2>1. PICK k \in DOMAIN s : s[k].id = d /\ s[k].status = "COMPLETED"
    BY <1>1, <1>2 DEF A!Met
  <2>. QED  BY <1>1, <2>1 DEF Further, Done
<1>. QED  BY <1>2 DEF A!Met

LEMMA ChainStays ==
  ASSUME NEW s, NEW t, Further(s, t), Chain(s)
  PROVE  Chain(t)
BY DEF Further, Chain

LEMMA MarkIs ==
  ASSUME NEW s \in StepSeqs, NEW n \in 1..Len(s), NEW st \in StepStatus
  PROVE  /\ A!Mark(s, n, st) \in StepSeqs /\ Len(A!Mark(s, n, st)) = Len(s)
         /\ A!Mark(s, n, st)[n].status = st
         /\ \A k \in 1..Len(s) : /\ A!Mark(s, n, st)[k].id = s[k].id /\ A!Mark(s, n, st)[k].needs = s[k].needs
                                 /\ k # n => A!Mark(s, n, st)[k] = s[k]
<1>. DEFINE t == A!Mark(s, n, st)
<1>1. Len(s) \in Nat /\ s \in [1..Len(s) -> MissionStep]
  BY DEF StepSeqs
<1>2. t = [s EXCEPT ![n] = [s[n] EXCEPT !.status = st]]
  BY DEF A!Mark
<1>3. [s[n] EXCEPT !.status = st] \in MissionStep
  BY <1>1 DEF MissionStep, StepsOf
<1>4. t \in [1..Len(s) -> MissionStep]
  BY <1>1, <1>2, <1>3
<1>5. t \in StepSeqs /\ Len(t) = Len(s)
  BY <1>1, <1>4 DEF StepSeqs
<1>6. /\ t[n].status = st /\ t[n].id = s[n].id /\ t[n].needs = s[n].needs
      /\ \A k \in 1..Len(s) : k # n => t[k] = s[k]
  BY <1>1, <1>2 DEF MissionStep, StepsOf
<1>. QED  BY <1>5, <1>6

LEMMA MarkDone ==
  ASSUME NEW s \in StepSeqs, Respected(s), NEW n \in 1..Len(s), A!Met(s, n)
  PROVE  /\ A!Mark(s, n, "COMPLETED") \in StepSeqs /\ Respected(A!Mark(s, n, "COMPLETED"))
         /\ Further(s, A!Mark(s, n, "COMPLETED")) /\ Done(A!Mark(s, n, "COMPLETED"), n)
<1>. DEFINE t == A!Mark(s, n, "COMPLETED")
<1>1. /\ t \in StepSeqs /\ Len(t) = Len(s) /\ t[n].status = "COMPLETED"
      /\ \A k \in 1..Len(s) : t[k].id = s[k].id /\ t[k].needs = s[k].needs /\ (k # n => t[k] = s[k])
  BY MarkIs DEF StepStatus
<1>. HIDE DEF t
<1>2. Further(s, t)
  BY <1>1 DEF Further, Done
<1>3. ASSUME NEW k \in 1..Len(t), Done(t, k) PROVE A!Met(t, k)
  <2>1. k \in 1..Len(s) /\ A!Met(s, k)
    BY <1>1, <1>3 DEF Respected, Done
  <2>. QED  BY <1>1, <1>2, <2>1, MetStays
<1>. QED  BY <1>1, <1>2, <1>3 DEF Respected, Done, t

LEMMA MarkFailed ==
  ASSUME NEW s \in StepSeqs, Respected(s), NEW n \in 1..Len(s), ~ A!Met(s, n)
  PROVE  /\ A!Mark(s, n, "FAILED") \in StepSeqs /\ Respected(A!Mark(s, n, "FAILED"))
         /\ Further(s, A!Mark(s, n, "FAILED"))
<1>. DEFINE t == A!Mark(s, n, "FAILED")
<1>1. /\ t \in StepSeqs /\ Len(t) = Len(s) /\ t[n].status = "FAILED"
      /\ \A k \in 1..Len(s) : t[k].id = s[k].id /\ t[k].needs = s[k].needs /\ (k # n => t[k] = s[k])
  BY MarkIs DEF StepStatus
<1>. HIDE DEF t
<1>2. ~ Done(s, n)
  BY DEF Respected
<1>3. Further(s, t)
  BY <1>1, <1>2 DEF Further, Done
<1>4. ASSUME NEW k \in 1..Len(t), Done(t, k) PROVE A!Met(t, k)
  <2>1. k \in 1..Len(s) /\ A!Met(s, k)
    BY <1>1, <1>4 DEF Respected, Done
  <2>. QED  BY <1>1, <1>3, <2>1, MetStays
<1>. QED  BY <1>1, <1>3, <1>4 DEF Respected, t

-----------------------------------------------------------------------------
\* One step of the runtime, and all of them.
RunOne(t, n) == A!Mark(t, n, IF A!Met(t, n) THEN "COMPLETED" ELSE "FAILED")
Alike(s) == {t \in StepSeqs : Len(t) = Len(s)}

LEMMA RunSteps ==
  ASSUME NEW s \in StepSeqs
  PROVE  \E f \in [0..Len(s) -> Alike(s)] :
           /\ f[0] = s /\ A!RunAll(s) = f[Len(s)]
           /\ \A n \in 1..Len(s) : f[n] = RunOne(f[n - 1], n)
<1>. DEFINE X == Alike(s)
            g == [i \in Nat |-> [t \in X |-> IF i \in 1..Len(s) THEN RunOne(t, i) ELSE t]]
<1>1. s \in X /\ Len(s) \in Nat
  BY DEF StepSeqs, Alike
<1>2. ASSUME NEW i \in 1..Len(s), NEW t \in X PROVE RunOne(t, i) \in X
  <2>1. t \in StepSeqs /\ i \in 1..Len(t) /\ (IF A!Met(t, i) THEN "COMPLETED" ELSE "FAILED") \in StepStatus
    BY <1>2 DEF Alike, StepStatus
  <2>. QED  BY <2>1, MarkIs DEF RunOne, Alike
<1>3. g \in [Nat -> [X -> X]]
  BY <1>2
<1>4. \A i \in 1..Len(s), t \in X : g[i][t] = RunOne(t, i)
  BY <1>1
<1>. HIDE DEF g, X
<1>5. PICK f \in [0..Len(s) -> X] : Unfolds(f, s, g, Len(s))
  <2>1. \A n \in Nat : \E f \in [0..n -> X] : Unfolds(f, s, g, n)
    BY <1>1, <1>3, Recursion, Zenon
  <2>. QED  BY <1>1, <2>1
<1>6. ASSUME NEW n \in 0..Len(s) PROVE f[n] = IF n = 0 THEN s ELSE RunOne(f[n - 1], n)
  <2>1. f[n] = IF n = 0 THEN s ELSE g[n][f[n - 1]]
    BY <1>5 DEF Unfolds
  <2>2. CASE n # 0
    <3>1. n - 1 \in 0..Len(s) /\ n \in 1..Len(s)
      BY <1>1, <2>2
    <3>2. f[n - 1] \in X
      BY <3>1
    <3>. QED  BY <1>4, <2>1, <2>2, <3>1, <3>2
  <2>. QED  BY <2>1, <2>2
<1>7. \E h : h = [n \in 0..Len(s) |-> IF n = 0 THEN s ELSE RunOne(h[n - 1], n)]
  <2>1. f = [n \in 0..Len(s) |-> IF n = 0 THEN s ELSE RunOne(f[n - 1], n)]
    BY <1>6
  <2>. QED  BY <2>1
<1>. DEFINE h == CHOOSE h : h = [n \in 0..Len(s) |-> IF n = 0 THEN s ELSE RunOne(h[n - 1], n)]
<1>8. h = [n \in 0..Len(s) |-> IF n = 0 THEN s ELSE RunOne(h[n - 1], n)]
  BY <1>7
<1>9. A!RunAll(s) = h[Len(s)]
  BY DEF A!RunAll, RunOne
<1>. HIDE DEF h
<1>10. \A n \in 0..Len(s) : h[n] = IF n = 0 THEN s ELSE RunOne(h[n - 1], n)
  BY <1>8
<1>11. \A n \in 0..Len(s) : h[n] \in X
  <2>. DEFINE S == {n \in Nat : n <= Len(s) => h[n] \in X}
  <2>1. 0 \in S
    BY <1>1, <1>10
  <2>2. ASSUME NEW n \in Nat, n \in S PROVE n + 1 \in S
    <3>. SUFFICES ASSUME n + 1 <= Len(s) PROVE h[n + 1] \in X
      OBVIOUS
    <3>1. n + 1 \in 0..Len(s) /\ n + 1 \in 1..Len(s) /\ n + 1 - 1 = n /\ h[n] \in X /\ n + 1 # 0
      BY <1>1, <2>2
    <3>2. h[n + 1] = RunOne(h[n], n + 1)
      BY <1>10, <3>1
    <3>. QED  BY <1>2, <3>1, <3>2
  <2>. HIDE DEF S
  <2>3. Nat \subseteq S
    BY <2>1, <2>2, Induction
  <2>. QED  BY <1>1, <2>3 DEF S
<1>12. h \in [0..Len(s) -> X]
  <2>1. h = [n \in 0..Len(s) |-> h[n]]
    BY <1>8, <1>10
  <2>. QED  BY <1>11, <2>1
<1>13. h[0] = s /\ \A n \in 1..Len(s) : h[n] = RunOne(h[n - 1], n)
  <2>1. 0 \in 0..Len(s) /\ \A n \in 1..Len(s) : n \in 0..Len(s) /\ n # 0
    BY <1>1
  <2>. QED  BY <1>10, <2>1
<1>. QED  BY <1>9, <1>12, <1>13 DEF X

LEMMA RunAllIs ==
  ASSUME NEW s \in StepSeqs, Respected(s)
  PROVE  /\ A!RunAll(s) \in StepSeqs /\ Respected(A!RunAll(s)) /\ Further(s, A!RunAll(s))
         /\ Chain(s) => \A n \in 1..Len(s) : Done(A!RunAll(s), n)
<1>1. PICK f \in [0..Len(s) -> Alike(s)] :
        /\ f[0] = s /\ A!RunAll(s) = f[Len(s)]
        /\ \A n \in 1..Len(s) : f[n] = RunOne(f[n - 1], n)
  BY RunSteps
<1>. DEFINE Good(n) == /\ Respected(f[n]) /\ Further(s, f[n])
                       /\ Chain(s) => \A k \in 1..n : Done(f[n], k)
            S == {n \in Nat : n <= Len(s) => Good(n)}
<1>0. Len(s) \in Nat /\ \A n \in 0..Len(s) : f[n] \in StepSeqs /\ Len(f[n]) = Len(s)
  BY DEF Alike, StepSeqs
<1>2. 0 \in S
  BY <1>1, FurtherSelf
<1>3. ASSUME NEW n \in Nat, n \in S PROVE n + 1 \in S
  <2>. SUFFICES ASSUME n + 1 <= Len(s) PROVE Good(n + 1)
    OBVIOUS
  <2>. DEFINE t == f[n]
              u == f[n + 1]
  <2>1. /\ n \in 0..Len(s) /\ n + 1 \in 0..Len(s) /\ n + 1 \in 1..Len(s) /\ n + 1 - 1 = n
        /\ Respected(t) /\ Further(s, t) /\ (Chain(s) => \A k \in 1..n : Done(t, k))
    BY <1>0, <1>3
  <2>2. /\ t \in StepSeqs /\ Len(t) = Len(s) /\ u \in StepSeqs /\ Len(u) = Len(s) /\ u = RunOne(t, n + 1)
    BY <1>0, <1>1, <2>1
  <2>. HIDE DEF t, u
  <2>3. /\ Respected(u) /\ Further(t, u) /\ (A!Met(t, n + 1) => Done(u, n + 1))
    BY <2>1, <2>2, MarkDone, MarkFailed DEF RunOne
  <2>4. Further(s, u)
    BY <2>1, <2>2, <2>3, FurtherOn
  <2>5. ASSUME Chain(s), NEW k \in 1..(n + 1) PROVE Done(u, k)
    <3>1. CASE k \in 1..n
      BY <2>1, <2>2, <2>3, <2>5, <3>1 DEF Further
    <3>2. CASE k = n + 1
      <4>1. Chain(t)
        BY <2>1, <2>5, ChainStays
      <4>2. A!Met(t, n + 1)
        <5>1. ASSUME NEW d \in t[n + 1].needs PROVE \E j \in DOMAIN t : t[j].id = d /\ t[j].status = "COMPLETED"
          <6>0. t[n + 1].needs = IF n + 1 = 1 THEN {} ELSE {(n + 1) - 1}
            BY <2>1, <2>2, <4>1 DEF Chain
          <6>1. n + 1 # 1 /\ d = n /\ n \in 1..n /\ n \in 1..Len(t) /\ DOMAIN t = 1..Len(t)
            <7>1. n + 1 # 1 /\ d = n
              BY <5>1, <6>0
            <7>2. n \in 1..n /\ n \in 1..Len(t)
              BY <1>0, <2>1, <2>2, <7>1
            <7>3. DOMAIN t = 1..Len(t)
              BY <2>2 DEF StepSeqs
            <7>. QED  BY <7>1, <7>2, <7>3
          <6>2. Done(t, n) /\ t[n].id = n
            BY <2>1, <2>5, <4>1, <6>1 DEF Chain
          <6>. QED  BY <6>1, <6>2 DEF Done
        <5>. QED  BY <5>1 DEF A!Met
      <4>. QED  BY <2>3, <3>2, <4>2
    <3>. QED  BY <2>1, <3>1, <3>2
  <2>. QED  BY <2>3, <2>4, <2>5 DEF u
<1>. HIDE DEF S
<1>4. Nat \subseteq S
  BY <1>2, <1>3, Induction
<1>5. Good(Len(s)) /\ f[Len(s)] \in StepSeqs
  BY <1>0, <1>4 DEF S
<1>. QED  BY <1>1, <1>5

-----------------------------------------------------------------------------
\* One step of the executor's way to the next step it can run, and all of them.
AdvanceOne(a, n, from) ==
  IF n < from THEN a
  ELSE IF a.at # 0 THEN a
  ELSE IF A!Met(a.steps, n) THEN [a EXCEPT !.at = n]
  ELSE [a EXCEPT !.steps = A!Mark(@, n, "FAILED")]
Ways(s) == [steps : Alike(s), at : Nat]

LEMMA AdvanceOneIs ==
  ASSUME NEW s \in StepSeqs, NEW a \in Ways(s), NEW n \in 1..Len(s), NEW from \in Nat
  PROVE  AdvanceOne(a, n, from) \in Ways(s)
<1>1. a.steps \in StepSeqs /\ Len(a.steps) = Len(s) /\ a.at \in Nat /\ n \in 1..Len(a.steps) /\ n \in Nat
  BY DEF Ways, Alike
<1>2. A!Mark(a.steps, n, "FAILED") \in Alike(s)
  BY <1>1, MarkIs DEF Alike, StepStatus
<1>3. /\ [a EXCEPT !.at = n] \in Ways(s)
      /\ [a EXCEPT !.steps = A!Mark(a.steps, n, "FAILED")] \in Ways(s)
  BY <1>1, <1>2 DEF Ways
<1>. QED  BY <1>3 DEF AdvanceOne

LEMMA AdvanceSteps ==
  ASSUME NEW s \in StepSeqs, NEW from \in Nat \ {0}
  PROVE  \E f \in [0..Len(s) -> Ways(s)] :
           /\ f[0] = [steps |-> s, at |-> 0] /\ A!Advance(s, from) = f[Len(s)]
           /\ \A n \in 1..Len(s) : f[n] = AdvanceOne(f[n - 1], n, from)
<1>. DEFINE X == Ways(s)
            b == [steps |-> s, at |-> 0]
            g == [i \in Nat |-> [a \in X |-> IF i \in 1..Len(s) THEN AdvanceOne(a, i, from) ELSE a]]
            Next(a, n) == IF n < from THEN b
                          ELSE IF a.at # 0 THEN a
                          ELSE IF A!Met(a.steps, n) THEN [a EXCEPT !.at = n]
                          ELSE [a EXCEPT !.steps = A!Mark(@, n, "FAILED")]
<1>1. b \in X /\ Len(s) \in Nat
  BY DEF StepSeqs, Ways, Alike
<1>2. \A i \in 1..Len(s), a \in X : AdvanceOne(a, i, from) \in X
  BY AdvanceOneIs
<1>3. g \in [Nat -> [X -> X]]
  BY <1>2
<1>4. \A i \in 1..Len(s), a \in X : g[i][a] = AdvanceOne(a, i, from)
  BY <1>1
<1>. HIDE DEF g, X, b
<1>5. PICK f \in [0..Len(s) -> X] : Unfolds(f, b, g, Len(s))
  <2>1. \A n \in Nat : \E f \in [0..n -> X] : Unfolds(f, b, g, n)
    BY <1>1, <1>3, Recursion, Zenon
  <2>. QED  BY <1>1, <2>1
<1>6. f[0] = b /\ \A n \in 1..Len(s) : f[n] = AdvanceOne(f[n - 1], n, from) /\ f[n - 1] \in X
  <2>1. f[0] = b
    BY <1>1, <1>5 DEF Unfolds
  <2>2. ASSUME NEW n \in 1..Len(s) PROVE f[n] = AdvanceOne(f[n - 1], n, from) /\ f[n - 1] \in X
    <3>1. n \in 0..Len(s) /\ n # 0 /\ n - 1 \in 0..Len(s)
      BY <1>1
    <3>2. f[n] = g[n][f[n - 1]] /\ f[n - 1] \in X
      BY <1>5, <3>1 DEF Unfolds
    <3>. QED  BY <1>4, <3>2
  <2>. QED  BY <2>1, <2>2
<1>7. \A n \in 0..Len(s) : n < from => f[n] = b
  <2>. DEFINE S == {n \in Nat : n <= Len(s) /\ n < from => f[n] = b}
  <2>1. 0 \in S
    BY <1>6
  <2>2. ASSUME NEW n \in Nat, n \in S PROVE n + 1 \in S
    <3>. SUFFICES ASSUME n + 1 <= Len(s), n + 1 < from PROVE f[n + 1] = b
      OBVIOUS
    <3>1. n + 1 \in 1..Len(s) /\ n + 1 - 1 = n /\ f[n] = b
      BY <1>1, <2>2
    <3>2. f[n + 1] = AdvanceOne(f[(n + 1) - 1], n + 1, from)
      BY <1>6, <3>1
    <3>3. f[n + 1] = AdvanceOne(b, n + 1, from)
      BY <3>1, <3>2
    <3>. QED  BY <3>3 DEF AdvanceOne
  <2>. HIDE DEF S
  <2>3. Nat \subseteq S
    BY <2>1, <2>2, Induction
  <2>. QED  BY <1>1, <2>3 DEF S
<1>8. ASSUME NEW n \in 0..Len(s) PROVE f[n] = Next(f[n - 1], n)
  <2>1. CASE n < from
    BY <1>7, <2>1
  <2>2. CASE ~ (n < from)
    <3>1. n \in 1..Len(s)
      BY <1>1, <2>2
    <3>. QED  BY <1>6, <2>2, <3>1 DEF AdvanceOne
  <2>. QED  BY <2>1, <2>2
<1>9. \E h : h = [n \in 0..Len(s) |-> Next(h[n - 1], n)]
  <2>1. f = [n \in 0..Len(s) |-> f[n]]
    OBVIOUS
  <2>2. f = [n \in 0..Len(s) |-> Next(f[n - 1], n)]
    <3>. HIDE DEF Next
    <3>. QED  BY <1>8, <2>1
  <2>. QED  BY <2>2
<1>. DEFINE h == CHOOSE h : h = [n \in 0..Len(s) |-> Next(h[n - 1], n)]
<1>10. h = [n \in 0..Len(s) |-> Next(h[n - 1], n)]
  BY <1>9
<1>11. A!Advance(s, from) = h[Len(s)]
  BY DEF A!Advance, b
<1>. HIDE DEF h
<1>12. \A n \in 0..Len(s) : h[n] = Next(h[n - 1], n)
  <2>. HIDE DEF Next
  <2>. QED  BY <1>10
<1>13. \A n \in 0..Len(s) : h[n] = f[n]
  <2>. DEFINE S == {n \in Nat : n <= Len(s) => h[n] = f[n]}
  <2>1. 0 \in S
    <3>1. 0 \in 0..Len(s) /\ 0 < from
      BY <1>1
    <3>. QED  BY <1>6, <1>12, <3>1
  <2>2. ASSUME NEW n \in Nat, n \in S PROVE n + 1 \in S
    <3>. SUFFICES ASSUME n + 1 <= Len(s) PROVE h[n + 1] = f[n + 1]
      OBVIOUS
    <3>1. n + 1 \in 0..Len(s) /\ n + 1 - 1 = n /\ h[n] = f[n]
      BY <1>1, <2>2
    <3>2. h[n + 1] = Next(h[n], n + 1) /\ f[n + 1] = Next(f[n], n + 1)
      <4>. HIDE DEF Next
      <4>. QED  BY <1>8, <1>12, <3>1
    <3>. QED  BY <3>1, <3>2
  <2>. HIDE DEF S
  <2>3. Nat \subseteq S
    BY <2>1, <2>2, Induction
  <2>. QED  BY <1>1, <2>3 DEF S
<1>14. A!Advance(s, from) = f[Len(s)]
  BY <1>1, <1>11, <1>13
<1>. QED  BY <1>6, <1>14 DEF X, b

LEMMA AdvanceIs ==
  ASSUME NEW s \in StepSeqs, Respected(s), NEW from \in Nat \ {0}
  PROVE  LET a == A!Advance(s, from)
         IN  /\ a.steps \in StepSeqs /\ Respected(a.steps) /\ Further(s, a.steps) /\ a.at \in Nat
             /\ a.at # 0 => a.at \in from..Len(s) /\ A!Met(a.steps, a.at)
             /\ from > Len(s) => a.at = 0
<1>1. PICK f \in [0..Len(s) -> Ways(s)] :
        /\ f[0] = [steps |-> s, at |-> 0] /\ A!Advance(s, from) = f[Len(s)]
        /\ \A n \in 1..Len(s) : f[n] = AdvanceOne(f[n - 1], n, from)
  BY AdvanceSteps
<1>. DEFINE Good(n) == /\ Respected(f[n].steps) /\ Further(s, f[n].steps)
                       /\ f[n].at # 0 => f[n].at \in from..n /\ A!Met(f[n].steps, f[n].at)
            S == {n \in Nat : n <= Len(s) => Good(n)}
<1>0. Len(s) \in Nat /\ \A n \in 0..Len(s) : f[n].steps \in StepSeqs /\ Len(f[n].steps) = Len(s) /\ f[n].at \in Nat
  BY DEF Ways, Alike, StepSeqs
<1>2. 0 \in S
  BY <1>1, FurtherSelf
<1>3. ASSUME NEW n \in Nat, n \in S PROVE n + 1 \in S
  <2>. SUFFICES ASSUME n + 1 <= Len(s) PROVE Good(n + 1)
    OBVIOUS
  <2>. DEFINE a == f[n]
              c == f[n + 1]
  <2>1. /\ n \in 0..Len(s) /\ n + 1 \in 1..Len(s) /\ n + 1 - 1 = n
        /\ Respected(a.steps) /\ Further(s, a.steps)
        /\ a.at # 0 => a.at \in from..n /\ A!Met(a.steps, a.at)
    BY <1>0, <1>3
  <2>2. /\ a \in Ways(s) /\ a.steps \in StepSeqs /\ Len(a.steps) = Len(s) /\ c = AdvanceOne(a, n + 1, from)
    BY <1>0, <1>1, <2>1
  <2>. HIDE DEF a, c
  <2>3. CASE c = a
    BY <1>0, <2>1, <2>3 DEF c
  <2>4. CASE ~ (n + 1 < from) /\ A!Met(a.steps, n + 1) /\ c = [a EXCEPT !.at = n + 1]
    <3>1. c.at = n + 1 /\ c.steps = a.steps
      BY <2>2, <2>4 DEF Ways
    <3>2. n + 1 \in from..(n + 1)
      BY <2>4
    <3>. QED  BY <2>1, <2>4, <3>1, <3>2 DEF c
  <2>5. CASE a.at = 0 /\ ~ A!Met(a.steps, n + 1) /\ c = [a EXCEPT !.steps = A!Mark(@, n + 1, "FAILED")]
    <3>1. c.at = 0 /\ c.steps = A!Mark(a.steps, n + 1, "FAILED")
      BY <2>2, <2>5 DEF Ways
    <3>2. n + 1 \in 1..Len(a.steps)
      BY <2>1, <2>2
    <3>3. c.steps \in StepSeqs /\ Respected(c.steps) /\ Further(a.steps, c.steps)
      BY <2>1, <2>2, <2>5, <3>1, <3>2, MarkFailed
    <3>4. Further(s, c.steps)
      BY <2>1, <2>2, <3>3, FurtherOn
    <3>. QED  BY <3>1, <3>3, <3>4 DEF c
  <2>. QED  BY <2>2, <2>3, <2>4, <2>5 DEF AdvanceOne
<1>. HIDE DEF S
<1>4. Nat \subseteq S
  BY <1>2, <1>3, Induction
<1>5. Good(Len(s)) /\ f[Len(s)].steps \in StepSeqs /\ f[Len(s)].at \in Nat
  BY <1>0, <1>4 DEF S
<1>6. from > Len(s) => f[Len(s)].at = 0
  BY <1>0, <1>5
<1>. QED  BY <1>1, <1>5, <1>6

-----------------------------------------------------------------------------
(***************************************************************************)
(* The invariant of the agents.  A run waits at a step whose dependencies  *)
(* are met; it has done no more steps than it passed, and if it did all    *)
(* of them they are done.                                                  *)
(***************************************************************************)
AllDone(s) == \A n \in 1..Len(s) : Done(s, n)

MissionSound(m) ==
  /\ Respected(m.steps)
  /\ m.planned => Chain(m.steps)
  /\ m.planned /\ ~ m.dry /\ m.status = "COMPLETED" => AllDone(m.steps)

Behind(run, s, from) ==
  /\ run.done < from
  /\ ~ run.dry /\ run.done = from - 1 => \A n \in 1..(from - 1) : Done(s, n)

RunSound(run, m) ==
  run.at # 0 => run.at \in 1..Len(m.steps) /\ A!Met(m.steps, run.at) /\ Behind(run, m.steps, run.at)

AgentTypes ==
  /\ goals \in [Goals -> Goal \cup {None}]
  /\ missions \in [Missions -> Mission \cup {None}]
  /\ runs \in [Runs -> Run \cup {None}]

AgentsInv ==
  /\ AgentTypes
  /\ \A m \in Missions : missions[m] # None => MissionSound(missions[m])
  /\ \A x \in Runs : runs[x] # None =>
       missions[runs[x].mission] # None /\ RunSound(runs[x], missions[runs[x].mission])

LEMMA BehindStays ==
  ASSUME NEW run \in Run, NEW s \in StepSeqs, NEW t \in StepSeqs, Further(s, t),
         NEW from \in 1..(Len(s) + 1), Behind(run, s, from)
  PROVE  Behind(run, t, from)
<1>1. \A n \in 1..(from - 1) : n \in 1..Len(s)
  BY DEF StepSeqs
<1>. QED  BY <1>1 DEF Behind, Further

\* A mission that goes further does not disturb the runs on it.
LEMMA RunStays ==
  ASSUME NEW run \in Run, NEW m \in Mission, NEW k \in Mission, Further(m.steps, k.steps), RunSound(run, m)
  PROVE  RunSound(run, k)
<1>1. m.steps \in StepSeqs /\ k.steps \in StepSeqs /\ Len(k.steps) = Len(m.steps)
  BY DEF Mission, StepSeqs, Further
<1>2. CASE run.at # 0
  <2>1. run.at \in 1..Len(m.steps) /\ A!Met(m.steps, run.at) /\ Behind(run, m.steps, run.at)
    BY <1>2 DEF RunSound
  <2>2. A!Met(k.steps, run.at)
    BY <1>1, <2>1, MetStays
  <2>3. run.at \in 1..(Len(m.steps) + 1)
    BY <1>1, <2>1 DEF StepSeqs
  <2>4. Behind(run, k.steps, run.at)
    BY <1>1, <2>1, <2>3, BehindStays
  <2>. QED  BY <1>1, <2>1, <2>2, <2>4 DEF RunSound
<1>. QED  BY <1>2 DEF RunSound

\* One mission goes further, and at most one run on it moves.
LEMMA MissionMoves ==
  ASSUME AgentsInv, NEW m \in Missions, missions[m] # None, NEW k \in Mission,
         MissionSound(k), Further(missions[m].steps, k.steps), missions' = [missions EXCEPT ![m] = k],
         goals' = goals,
         \/ runs' = runs
         \/ \E x \in Runs : \E run \in Run :
              run.mission = m /\ RunSound(run, k) /\ runs' = [runs EXCEPT ![x] = run]
  PROVE  AgentsInv'
<1>0. AgentTypes /\ missions[m] \in Mission /\ k # None
  BY AgentsAssumption DEF AgentsInv, AgentTypes
<1>1. /\ missions' \in [Missions -> Mission \cup {None}] /\ missions'[m] = k
      /\ \A d \in Missions : d # m => missions'[d] = missions[d]
  BY <1>0 DEF AgentTypes
<1>2. \A d \in Missions : missions'[d] # None => MissionSound(missions'[d])
  BY <1>1 DEF AgentsInv
<1>3. ASSUME NEW x \in Runs, runs[x] # None
      PROVE  missions'[runs[x].mission] # None /\ RunSound(runs[x], missions'[runs[x].mission])
  <2>1. /\ runs[x] \in Run /\ runs[x].mission \in Missions /\ missions[runs[x].mission] # None
        /\ RunSound(runs[x], missions[runs[x].mission])
    BY <1>0, <1>3 DEF AgentsInv, AgentTypes, Run
  <2>2. CASE runs[x].mission = m
    <3>1. RunSound(runs[x], k)
      BY <1>0, <2>1, <2>2, RunStays
    <3>. QED  BY <1>0, <1>1, <2>2, <3>1
  <2>3. CASE runs[x].mission # m
    BY <1>1, <2>1, <2>3
  <2>. QED  BY <2>2, <2>3
<1>4. CASE runs' = runs
  <2>1. AgentTypes'
    BY <1>0, <1>1, <1>4 DEF AgentTypes
  <2>. QED  BY <1>2, <1>3, <1>4, <2>1 DEF AgentsInv
<1>5. ASSUME NEW x \in Runs, NEW run \in Run, run.mission = m, RunSound(run, k), runs' = [runs EXCEPT ![x] = run]
      PROVE  AgentsInv'
  <2>1. /\ runs' \in [Runs -> Run \cup {None}] /\ runs'[x] = run
        /\ \A y \in Runs : y # x => runs'[y] = runs[y]
    BY <1>0, <1>5 DEF AgentTypes
  <2>2. AgentTypes'
    BY <1>0, <1>1, <2>1 DEF AgentTypes
  <2>3. ASSUME NEW y \in Runs, runs'[y] # None
        PROVE  missions'[runs'[y].mission] # None /\ RunSound(runs'[y], missions'[runs'[y].mission])
    BY <1>0, <1>1, <1>3, <1>5, <2>1, <2>3
  <2>. QED  BY <1>2, <2>2, <2>3 DEF AgentsInv
<1>. QED  BY <1>4, <1>5

LEMMA ProceedKeeps ==
  ASSUME AgentsInv, NEW x \in Runs, NEW run \in Run, missions[run.mission] # None,
         NEW s \in StepSeqs, Respected(s), Further(missions[run.mission].steps, s),
         NEW from \in 1..(Len(s) + 1), Behind(run, s, from),
         A!Proceed(x, run, s, from), goals' = goals
  PROVE  AgentsInv'
<1>. DEFINE m == run.mission
            old == missions[m]
            a == A!Advance(s, from)
            new == [old EXCEPT !.steps = a.steps,
                               !.status = IF a.at = 0 THEN A!Verdict(a.steps, run.done, @) ELSE @,
                               !.dry = @ \/ run.dry]
            next == [run EXCEPT !.at = a.at]
<1>0. m \in Missions /\ old \in Mission /\ MissionSound(old) /\ from \in Nat \ {0} /\ Len(s) \in Nat
  BY DEF AgentsInv, AgentTypes, Run, StepSeqs
<1>1. /\ a.steps \in StepSeqs /\ Respected(a.steps) /\ Further(s, a.steps) /\ a.at \in Nat
      /\ a.at # 0 => a.at \in from..Len(s) /\ A!Met(a.steps, a.at)
      /\ from > Len(s) => a.at = 0
  BY <1>0, AdvanceIs
<1>2. runs' = [runs EXCEPT ![x] = next] /\ missions' = [missions EXCEPT ![m] = new]
  <2>1. missions \in [Missions -> Mission \cup {None}]
    BY DEF AgentsInv, AgentTypes
  <2>. QED  BY <1>0, <2>1 DEF A!Proceed
<1>. HIDE DEF a
<1>3. Further(old.steps, a.steps) /\ old.steps \in StepSeqs /\ Len(a.steps) = Len(s)
  <2>1. old.steps \in StepSeqs
    BY <1>0 DEF Mission, StepSeqs
  <2>. QED  BY <1>1, <2>1, FurtherOn DEF Further
<1>4. /\ new \in Mission /\ new.steps = a.steps /\ new.planned = old.planned
      /\ new.dry = (old.dry \/ run.dry)
      /\ new.status = IF a.at = 0 THEN A!Verdict(a.steps, run.done, old.status) ELSE old.status
  <2>1. (IF a.at = 0 THEN A!Verdict(a.steps, run.done, old.status) ELSE old.status)
          \in {"CREATED", "COMPLETED", "FAILED"}
    BY <1>0 DEF A!Verdict, Mission
  <2>2. (old.dry \/ run.dry) \in BOOLEAN
    BY <1>0 DEF Mission, Run
  <2>. HIDE DEF old
  <2>. QED  BY <1>0, <1>1, <2>1, <2>2 DEF Mission, StepSeqs
<1>5. next \in Run /\ next.mission = m /\ next.at = a.at /\ next.done = run.done /\ next.dry = run.dry
  BY <1>1 DEF Run
<1>. HIDE DEF new, next, old
<1>6. MissionSound(new)
  <2>1. new.planned => Chain(new.steps)
    BY <1>0, <1>3, <1>4, ChainStays DEF MissionSound
  <2>2. ASSUME new.planned, ~ new.dry, new.status = "COMPLETED" PROVE AllDone(a.steps)
    <3>1. CASE old.status = "COMPLETED"
      <4>1. AllDone(old.steps)
        BY <1>0, <1>4, <2>2, <3>1 DEF MissionSound, Mission
      <4>. QED  BY <1>3, <4>1 DEF AllDone, Further
    <3>2. CASE old.status # "COMPLETED"
      <4>1. a.at = 0 /\ run.done = Len(a.steps) /\ ~ run.dry
        BY <1>0, <1>4, <2>2, <3>2 DEF A!Verdict
      <4>2. run.done = from - 1 /\ from - 1 = Len(s)
        BY <1>0, <1>3, <4>1 DEF Behind
      <4>3. \A n \in 1..Len(s) : Done(s, n)
        BY <4>1, <4>2 DEF Behind
      <4>. QED  BY <1>1, <1>3, <4>3 DEF AllDone, Further
    <3>. QED  BY <3>1, <3>2
  <2>. QED  BY <1>1, <1>4, <2>1, <2>2 DEF MissionSound
<1>7. RunSound(next, new)
  <2>1. CASE a.at # 0
    <3>1. a.at \in from..Len(s) /\ A!Met(a.steps, a.at)
      BY <1>1, <2>1
    <3>2. a.at \in 1..Len(a.steps)
      BY <1>0, <1>3, <3>1
    <3>3. Behind(next, a.steps, a.at)
      <4>1. run.done \in Nat /\ run.done < from /\ run.done < a.at
        BY <1>0, <3>1 DEF Behind, Run
      <4>2. ASSUME ~ run.dry, run.done = a.at - 1, NEW n \in 1..(a.at - 1) PROVE Done(a.steps, n)
        <5>1. a.at = from /\ n \in 1..Len(s)
          BY <1>0, <3>1, <4>1, <4>2
        <5>2. Done(s, n)
          BY <4>2, <5>1 DEF Behind
        <5>. QED  BY <1>1, <5>1, <5>2 DEF Further
      <4>. QED  BY <1>5, <4>1, <4>2 DEF Behind
    <3>. QED  BY <1>4, <1>5, <3>1, <3>2, <3>3 DEF RunSound
  <2>. QED  BY <1>5, <2>1 DEF RunSound
<1>. QED  BY <1>0, <1>2, <1>3, <1>4, <1>5, <1>6, <1>7, MissionMoves DEF old

LEMMA PlannedSteps ==
  ASSUME NEW class
  PROVE  /\ A!BuildSteps(class) \in StepSeqs /\ Chain(A!BuildSteps(class))
         /\ \A n \in 1..Len(A!BuildSteps(class)) : ~ Done(A!BuildSteps(class), n)
<1>1. ASSUME NEW types \in Seq(StepTypes), NEW domain \in StepDomains
      PROVE  /\ A!Steps(types, domain) \in StepSeqs /\ Chain(A!Steps(types, domain))
             /\ \A n \in 1..Len(A!Steps(types, domain)) : ~ Done(A!Steps(types, domain), n)
  <2>. DEFINE s == A!Steps(types, domain)
  <2>1. /\ s = [n \in 1..Len(types) |-> [id |-> n, type |-> types[n], domain |-> domain,
                                        needs |-> IF n = 1 THEN {} ELSE {n - 1}, status |-> "PENDING"]]
        /\ Len(types) \in Nat /\ \A n \in 1..Len(types) : types[n] \in StepTypes
    BY DEF A!Steps, A!DependsOn
  <2>. HIDE DEF s
  <2>2. ASSUME NEW n \in 1..Len(types)
        PROVE  s[n] \in MissionStep /\ s[n].id = n /\ s[n].needs = (IF n = 1 THEN {} ELSE {n - 1}) /\ s[n].status # "COMPLETED"
    <3>1. /\ s[n] = [id |-> n, type |-> types[n], domain |-> domain,
                     needs |-> IF n = 1 THEN {} ELSE {n - 1}, status |-> "PENDING"]
          /\ types[n] \in StepTypes /\ n \in Nat
      BY <2>1
    <3>2. (IF n = 1 THEN {} ELSE {n - 1}) \in SUBSET Nat /\ "PENDING" \in StepStatus
      BY DEF StepStatus
    <3>. QED  BY <3>1, <3>2 DEF MissionStep, StepsOf
  <2>3. s \in [1..Len(types) -> MissionStep]
    BY <2>1, <2>2
  <2>4. s \in StepSeqs /\ Len(s) = Len(types)
    BY <2>1, <2>3 DEF StepSeqs
  <2>. QED  BY <2>2, <2>4 DEF Chain, Done, s
<1>2. /\ \A a, b, c \in StepTypes : <<a, b, c>> \in Seq(StepTypes)
      /\ \A a, b \in StepTypes : <<a, b>> \in Seq(StepTypes)
      /\ \A a \in StepTypes : <<a>> \in Seq(StepTypes)
  OBVIOUS
<1>3. {"CREATE_VAULT_INTENT", "OPEN_VAULT", "LOCK_VAULT", "CREATE_ALLOCATION_REQUEST", "APPROVE_ALLOCATION",
       "EXECUTE_ALLOCATION", "CREATE_PAYMENT_INTENT", "AUTHORIZE_PAYMENT"} \subseteq StepTypes
  BY DEF StepTypes
<1>4. {"vault", "treasury", "payment"} \subseteq StepDomains
  BY DEF StepDomains
<1>5. /\ <<"CREATE_VAULT_INTENT", "OPEN_VAULT", "LOCK_VAULT">> \in Seq(StepTypes)
      /\ <<"CREATE_ALLOCATION_REQUEST", "APPROVE_ALLOCATION", "EXECUTE_ALLOCATION">> \in Seq(StepTypes)
      /\ <<"CREATE_PAYMENT_INTENT", "AUTHORIZE_PAYMENT">> \in Seq(StepTypes)
      /\ <<"CREATE_VAULT_INTENT">> \in Seq(StepTypes)
  BY <1>2, <1>3
<1>. QED  BY <1>1, <1>4, <1>5 DEF A!BuildSteps

LEMMA GivenSteps ==
  ASSUME NEW s \in StepLists
  PROVE  s \in StepSeqs /\ Respected(s)
<1>1. s \in Seq(StepsOf({"PENDING"}))
  BY AgentsAssumption
<1>2. ASSUME NEW n \in 1..Len(s) PROVE s[n] \in MissionStep /\ s[n].status = "PENDING"
  <2>1. s[n] \in StepsOf({"PENDING"})
    BY <1>1
  <2>. QED  BY <2>1 DEF MissionStep, StepsOf, StepStatus
<1>3. s \in StepSeqs
  BY <1>1, <1>2 DEF StepSeqs
<1>. QED  BY <1>2, <1>3 DEF Respected, Done

\* A new mission has no runs.
LEMMA NewMissionKeeps ==
  ASSUME AgentsInv, NEW m \in Missions, missions[m] = None, NEW i \in Goals, NEW s \in StepSeqs,
         NEW planned \in BOOLEAN, Respected(s), planned => Chain(s),
         missions' = [missions EXCEPT ![m] = A!NewMission(i, s, planned)], UNCHANGED <<goals, runs>>
  PROVE  AgentsInv'
<1>. DEFINE k == A!NewMission(i, s, planned)
<1>1. k \in Mission /\ MissionSound(k)
  BY DEF A!NewMission, Mission, MissionSound, StepSeqs
<1>. HIDE DEF k
<1>2. /\ missions' \in [Missions -> Mission \cup {None}] /\ missions'[m] = k
      /\ \A d \in Missions : d # m => missions'[d] = missions[d]
  BY <1>1 DEF AgentsInv, AgentTypes, k
<1>3. AgentTypes'
  BY <1>2 DEF AgentsInv, AgentTypes
<1>4. \A d \in Missions : missions'[d] # None => MissionSound(missions'[d])
  BY <1>1, <1>2 DEF AgentsInv
<1>5. ASSUME NEW x \in Runs, runs[x] # None
      PROVE  missions'[runs[x].mission] # None /\ RunSound(runs[x], missions'[runs[x].mission])
  <2>1. /\ runs[x].mission \in Missions /\ missions[runs[x].mission] # None
        /\ RunSound(runs[x], missions[runs[x].mission])
    BY <1>5 DEF AgentsInv, AgentTypes, Run
  <2>. QED  BY <1>2, <2>1
<1>. QED  BY <1>3, <1>4, <1>5 DEF AgentsInv

\* A change of a goal leaves missions and runs.
LEMMA GoalKeeps ==
  ASSUME AgentsInv, goals' \in [Goals -> Goal \cup {None}], UNCHANGED <<missions, runs>>
  PROVE  AgentsInv'
BY DEF AgentsInv, AgentTypes

LEMMA AgentsInit == A!Init => AgentsInv
BY DEF A!Init, AgentsInv, AgentTypes

LEMMA AgentsKept == AgentsInv /\ [A!Next]_(A!vars) => AgentsInv'
<1>. SUFFICES ASSUME AgentsInv, [A!Next]_(A!vars) PROVE AgentsInv'
  OBVIOUS
<1>0. AgentTypes
  BY DEF AgentsInv
<1>1. ASSUME NEW i \in Goals, NEW w \in Objectives, NEW st \in BOOLEAN, A!CreateIntent(i, w, st) PROVE AgentsInv'
  <2>1. [words |-> w, stated |-> st, status |-> "PENDING", type |-> None, risk |-> None] \in Goal
    BY DEF Goal
  <2>2. goals' \in [Goals -> Goal \cup {None}]
    BY <1>0, <1>1, <2>1 DEF A!CreateIntent, AgentTypes
  <2>. QED  BY <1>1, <2>2, GoalKeeps DEF A!CreateIntent
<1>2. ASSUME NEW i \in Goals, A!ValidateIntent(i) PROVE AgentsInv'
  <2>. DEFINE x == goals[i]
              y == IF x.stated THEN [x EXCEPT !.status = "VALIDATED", !.type = A!Classify(x.words),
                                              !.risk = A!AssessRisk(x.words)]
                   ELSE [x EXCEPT !.status = "REJECTED"]
  <2>1. x \in Goal /\ goals' = [goals EXCEPT ![i] = y] /\ UNCHANGED <<missions, runs>>
    BY <1>0, <1>2 DEF A!ValidateIntent, AgentTypes
  <2>2. /\ A!Classify(x.words)
             \in {"VAULT_LIFECYCLE", "TREASURY_ALLOCATION", "PAYMENT_SIMULATION", "GENERIC_WORKFLOW"}
        /\ A!AssessRisk(x.words) \in {"LOW", "MEDIUM", "HIGH"}
    BY DEF A!Classify, A!AssessRisk
  <2>3. y \in Goal
    <3>. HIDE DEF x
    <3>. QED  BY <2>1, <2>2 DEF Goal
  <2>. HIDE DEF y
  <2>4. goals' \in [Goals -> Goal \cup {None}]
    BY <1>0, <2>1, <2>3 DEF AgentTypes
  <2>. QED  BY <2>1, <2>4, GoalKeeps
<1>3. ASSUME NEW m \in Missions, NEW i \in Goals, A!CreatePlanned(m, i) PROVE AgentsInv'
  <2>1. PICK plan \in {A!PlannerPlan(i), A!EnginePlan(i)} \ {None} :
          missions' = [missions EXCEPT ![m] = A!NewMission(i, plan, TRUE)]
    BY <1>3 DEF A!CreatePlanned
  <2>2. plan = A!BuildSteps(A!ClassOf(goals[i]))
    BY DEF A!PlannerPlan, A!EnginePlan
  <2>3. plan \in StepSeqs /\ Chain(plan) /\ Respected(plan)
    BY <2>2, PlannedSteps DEF Respected
  <2>4. missions[m] = None /\ UNCHANGED <<goals, runs>>
    BY <1>3 DEF A!CreatePlanned
  <2>5. TRUE \in BOOLEAN
    OBVIOUS
  <2>. QED  BY <2>1, <2>3, <2>4, <2>5, NewMissionKeeps
<1>4. ASSUME NEW m \in Missions, NEW i \in Goals, NEW s \in StepLists, A!CreateGiven(m, i, s) PROVE AgentsInv'
  <2>1. /\ missions[m] = None /\ UNCHANGED <<goals, runs>>
        /\ missions' = [missions EXCEPT ![m] = A!NewMission(i, s, FALSE)]
    BY <1>4 DEF A!CreateGiven
  <2>2. s \in StepSeqs /\ Respected(s) /\ FALSE \in BOOLEAN /\ (FALSE => Chain(s))
    BY GivenSteps
  <2>. QED  BY <2>1, <2>2, NewMissionKeeps
<1>5. ASSUME NEW m \in Missions, A!RuntimeExecute(m) PROVE AgentsInv'
  <2>. DEFINE old == missions[m]
              all == A!RunAll(old.steps)
              k   == [old EXCEPT !.steps = all, !.status = "COMPLETED"]
  <2>1. old # None /\ missions' = [missions EXCEPT ![m] = k] /\ UNCHANGED <<goals, runs>>
    BY <1>0, <1>5 DEF A!RuntimeExecute, AgentTypes
  <2>2. old \in Mission /\ MissionSound(old) /\ old.steps \in StepSeqs
    BY <1>0, <2>1 DEF AgentsInv, AgentTypes, Mission, StepSeqs
  <2>3. /\ all \in StepSeqs /\ Respected(all) /\ Further(old.steps, all)
        /\ Chain(old.steps) => \A n \in 1..Len(old.steps) : Done(all, n)
    BY <2>2, RunAllIs DEF MissionSound
  <2>. HIDE DEF all, old
  <2>4. k \in Mission /\ k.steps = all /\ k.planned = old.planned /\ k.dry = old.dry
    BY <2>2, <2>3 DEF Mission, StepSeqs
  <2>. HIDE DEF k
  <2>5. MissionSound(k)
    <3>1. k.planned => Chain(all) /\ AllDone(all)
      BY <2>2, <2>3, <2>4, ChainStays DEF MissionSound, AllDone, Further
    <3>. QED  BY <2>3, <2>4, <3>1 DEF MissionSound
  <2>. QED  BY <2>1, <2>3, <2>4, <2>5, MissionMoves DEF old
<1>6. ASSUME NEW x \in Runs, NEW m \in Missions, NEW d \in BOOLEAN, A!Begin(x, m, d) PROVE AgentsInv'
  <2>. DEFINE run == [mission |-> m, dry |-> d, done |-> 0, at |-> 0]
  <2>1. /\ missions[m] # None /\ goals' = goals /\ A!Proceed(x, run, missions[m].steps, 1)
    BY <1>6 DEF A!Begin
  <2>2. run \in Run /\ run.mission = m /\ run.done = 0
    BY DEF Run
  <2>3. missions[m].steps \in StepSeqs /\ Respected(missions[m].steps) /\ 1 \in 1..(Len(missions[m].steps) + 1)
    BY <1>0, <2>1 DEF AgentsInv, AgentTypes, Mission, MissionSound, StepSeqs
  <2>4. Behind(run, missions[m].steps, 1) /\ Further(missions[m].steps, missions[m].steps)
    BY <2>2, FurtherSelf DEF Behind
  <2>. HIDE DEF run
  <2>. QED  BY <2>1, <2>2, <2>3, <2>4, ProceedKeeps
<1>7. ASSUME NEW x \in Runs, A!StepDone(x) PROVE AgentsInv'
  <2>. DEFINE old == runs[x]
              run == [old EXCEPT !.done = @ + 1]
              was == missions[run.mission].steps
              s   == IF run.dry THEN was ELSE A!Mark(was, run.at, "COMPLETED")
  <2>1. /\ old # None /\ old.at # 0 /\ goals' = goals /\ A!Proceed(x, run, s, run.at + 1)
    BY <1>7 DEF A!StepDone
  <2>2. old \in Run /\ missions[old.mission] # None /\ RunSound(old, missions[old.mission])
    BY <1>0, <2>1 DEF AgentsInv, AgentTypes
  <2>3. /\ run \in Run /\ run.mission = old.mission /\ run.dry = old.dry /\ run.at = old.at /\ run.done = old.done + 1
        /\ old.done \in Nat /\ old.at \in Nat /\ old.mission \in Missions /\ run.dry \in BOOLEAN
    <3>. HIDE DEF old
    <3>. QED  BY <2>2 DEF Run
  <2>. HIDE DEF run, old
  <2>4. was \in StepSeqs /\ Respected(was)
    BY <1>0, <2>2, <2>3 DEF AgentsInv, AgentTypes, Mission, MissionSound, StepSeqs
  <2>5. run.at \in 1..Len(was) /\ A!Met(was, run.at) /\ Behind(old, was, run.at)
    BY <2>1, <2>2, <2>3 DEF RunSound
  <2>. HIDE DEF was
  <2>6. s \in StepSeqs /\ Respected(s) /\ Further(was, s) /\ (~ run.dry => Done(s, run.at))
    BY <2>4, <2>5, MarkDone, FurtherSelf
  <2>. HIDE DEF s
  <2>7. run.at + 1 \in 1..(Len(s) + 1)
    BY <2>4, <2>5, <2>6 DEF Further, StepSeqs
  <2>8. Behind(run, s, run.at + 1)
    <3>1. run.done < run.at + 1
      BY <2>3, <2>5 DEF Behind
    <3>2. ASSUME ~ run.dry, run.done = (run.at + 1) - 1, NEW n \in 1..((run.at + 1) - 1) PROVE Done(s, n)
      <4>1. CASE n = run.at
        BY <2>6, <3>2, <4>1
      <4>2. CASE n # run.at
        <5>1. n \in 1..(run.at - 1) /\ ~ old.dry /\ old.done = run.at - 1 /\ n \in 1..Len(was)
          BY <2>3, <2>4, <2>5, <3>2, <4>2 DEF StepSeqs
        <5>2. Done(was, n)
          BY <2>5, <5>1 DEF Behind
        <5>. QED  BY <2>6, <5>1, <5>2 DEF Further
      <4>. QED  BY <4>1, <4>2
    <3>. QED  BY <3>1, <3>2 DEF Behind
  <2>9. missions[run.mission] # None
    BY <2>2, <2>3
  <2>. QED  BY <2>1, <2>3, <2>6, <2>7, <2>8, <2>9, ProceedKeeps DEF was
<1>8. CASE UNCHANGED A!vars
  <2>1. UNCHANGED <<goals, missions, runs>>
    BY <1>8 DEF A!vars
  <2>. QED  BY <2>1 DEF AgentsInv, AgentTypes
<1>. QED  BY <1>1, <1>2, <1>3, <1>4, <1>5, <1>6, <1>7, <1>8 DEF A!Next

LEMMA AgentsInvariant == A!Init /\ [][A!Next]_(A!vars) => []AgentsInv
<1>1. A!Init => AgentsInv
  BY AgentsInit
<1>2. AgentsInv /\ [A!Next]_(A!vars) => AgentsInv'
  BY AgentsKept
<1>. QED  BY <1>1, <1>2, PTL

LEMMA AgentsSay == AgentsInv => A!TypeOK /\ A!DependenciesRespected /\ A!PlannedCompletedDidAll
<1>. SUFFICES ASSUME AgentsInv PROVE A!TypeOK /\ A!DependenciesRespected /\ A!PlannedCompletedDidAll
  OBVIOUS
<1>0. /\ AgentTypes
      /\ \A m \in Missions : missions[m] # None => MissionSound(missions[m])
  BY DEF AgentsInv
<1>1. ASSUME NEW m \in Missions, missions[m] # None
      PROVE  /\ missions[m] \in Mission /\ DOMAIN missions[m].steps = 1..Len(missions[m].steps)
             /\ \A n \in 1..Len(missions[m].steps) : missions[m].steps[n] \in MissionStep
             /\ MissionSound(missions[m])
  <2>1. missions[m] \in Mission
    BY <1>0, <1>1 DEF AgentTypes
  <2>2. missions[m].steps \in Seq(MissionStep)
    BY <2>1 DEF Mission
  <2>. QED  BY <1>0, <1>1, <2>1, <2>2
<1>2. A!TypeOK
  <2>1. \A i \in Goals : goals[i] # None => goals[i].status \in {"PENDING", "VALIDATED", "REJECTED"}
    BY <1>0 DEF AgentTypes, Goal
  <2>2. ASSUME NEW m \in Missions, missions[m] # None
        PROVE  /\ missions[m].status \in {"CREATED", "COMPLETED", "FAILED"}
               /\ \A n \in DOMAIN missions[m].steps : missions[m].steps[n].status \in {"PENDING", "COMPLETED", "FAILED"}
    BY <1>1, <2>2 DEF Mission, MissionStep, StepsOf, StepStatus
  <2>3. \A x \in Runs : runs[x] # None => runs[x].mission \in Missions /\ runs[x].at \in Nat
    BY <1>0 DEF AgentTypes, Run
  <2>. QED  BY <2>1, <2>2, <2>3 DEF A!TypeOK
<1>3. A!DependenciesRespected
  BY <1>1 DEF A!DependenciesRespected, MissionSound, Respected, Done, A!Met
<1>4. A!PlannedCompletedDidAll
  BY <1>1 DEF A!PlannedCompletedDidAll, MissionSound, AllDone, Done
<1>. QED  BY <1>2, <1>3, <1>4

-----------------------------------------------------------------------------
(***************************************************************************)
(* The coordinator, of an event store s and a transaction log t.           *)
(***************************************************************************)
EventTypes == O!Accepted \cup O!Rejections
Stored     == O!EventsOf(EventTypes, Calls)
Recorded   == [call : Calls, type : CommandTypes, mutation : BOOLEAN]

Chained(s) == \A n \in 1..Len(s) : s[n].hash = n /\ s[n].previous = n - 1
AcceptedIn(s) == Filter(s, O!EventsOf(O!Accepted, Calls))
Agrees(s, t) ==
  /\ Len(t) = Len(AcceptedIn(s))
  /\ \A n \in 1..Len(t) : t[n].call = AcceptedIn(s)[n].call /\ O!EventType(t[n].type) = AcceptedIn(s)[n].type

LogsSound(s, t) == s \in Seq(Stored) /\ t \in Seq(Recorded) /\ Chained(s) /\ Agrees(s, t)

MineIn(s, k)      == Filter(s, O!EventsOf(EventTypes, {k}))
MutationsIn(t, k) == {n \in 1..Len(t) : t[n].call = k /\ t[n].mutation}

LEMMA EventTypesApart ==
  /\ \A type : O!EventType(type) \in O!Accepted
  /\ O!Accepted \cap O!Rejections = {}
<1>1. \A type : O!EventType(type) \in O!Accepted
  BY DEF O!EventType, O!Accepted
<1>2. ASSUME NEW type \in DOMAIN O!EventOf PROVE O!EventOf[type] \notin O!Rejections
  BY DEF O!EventOf, O!Rejections
<1>3. "UnknownCommandExecuted" \notin O!Rejections
  BY DEF O!Rejections
<1>4. \A type : O!EventType(type) \notin O!Rejections
  BY <1>2, <1>3 DEF O!EventType
<1>. QED  BY <1>1, <1>3, <1>4 DEF O!Accepted

\* What the coordinator answers goes with the event it dispatches.
LEMMA Answered ==
  ASSUME NEW c
  PROVE  \/ /\ O!Answer(c) = "COMPLETED" /\ O!Outcome(c) = O!EventType(c.type) /\ O!Routed(c) /\ ~ O!Refused(c)
         \/ /\ O!Answer(c) = "FAILED" /\ O!Outcome(c) \in O!Rejections /\ ~ (O!Routed(c) /\ ~ O!Refused(c))
BY DEF O!Answer, O!Outcome, O!Rejections

\* What a call of executeCommand adds to the store and to the log.
LEMMA Dispatched ==
  ASSUME LogsSound(store, txlog), NEW k \in Calls, NEW c, c.type \in CommandTypes, O!ExecuteCommand(k, c)
  PROVE  /\ LogsSound(store', txlog')
         /\ \E e \in Stored : e.type = O!Outcome(c) /\ MineIn(store', k) = Append(MineIn(store, k), e)
         /\ \A j \in Calls : j # k => MineIn(store', j) = MineIn(store, j) /\ MutationsIn(txlog', j) = MutationsIn(txlog, j)
         /\ Cardinality(MutationsIn(txlog', k))
              = Cardinality(MutationsIn(txlog, k))
                  + (IF O!Answer(c) = "COMPLETED" /\ O!Mutates(c) /\ c.auth = "LEDGER_MUTATION_AUTHORIZED" THEN 1 ELSE 0)
         /\ Cardinality(MutationsIn(txlog, k)) \in Nat
<1>. DEFINE s == store
            t == txlog
            e == O!Event(k, c)
            s2 == store'
            t2 == txlog'
            x == [call |-> k, type |-> c.type, mutation |-> O!Mutates(c) /\ c.auth = "LEDGER_MUTATION_AUTHORIZED"]
<1>0. s2 = Append(s, e) /\ s \in Seq(Stored) /\ t \in Seq(Recorded) /\ Chained(s) /\ Agrees(s, t)
  BY DEF O!ExecuteCommand, LogsSound
<1>1. e \in Stored /\ e.type = O!Outcome(c) /\ e.call = k /\ e.hash = Len(s) + 1 /\ e.previous = Len(s)
  <2>1. O!Outcome(c) \in EventTypes
    BY Answered, EventTypesApart DEF EventTypes
  <2>2. O!LastHash(s) = Len(s)
    <3>1. CASE s = <<>>
      BY <3>1 DEF O!LastHash
    <3>2. CASE s # <<>>
      <4>1. Len(s) \in 1..Len(s)
        BY <1>0, <3>2
      <4>2. s[Len(s)].hash = Len(s)
        BY <1>0, <4>1 DEF Chained
      <4>. QED  BY <3>2, <4>2, SameOperators DEF O!LastHash
    <3>. QED  BY <3>1, <3>2
  <2>3. Len(s) \in Nat /\ Len(s) + 1 \in Nat
    BY <1>0
  <2>4. e = [type |-> O!Outcome(c), call |-> k, previous |-> Len(s), hash |-> Len(s) + 1]
    BY <2>2 DEF O!Event
  <2>. QED  BY <2>1, <2>3, <2>4 DEF Stored, O!EventsOf
<1>2. t2 = IF O!Answer(c) = "COMPLETED" THEN Append(t, x) ELSE t
  BY DEF O!ExecuteCommand, O!Transactions, O!Answer
<1>3. x \in Recorded /\ x.call = k /\ x.type = c.type
      /\ (x.mutation <=> O!Mutates(c) /\ c.auth = "LEDGER_MUTATION_AUTHORIZED")
  BY DEF Recorded
<1>. HIDE DEF e, s, t, s2, t2, x
<1>4. s2 \in Seq(Stored) /\ Chained(s2)
  <2>1. /\ s2 \in Seq(Stored) /\ Len(s2) = Len(s) + 1 /\ Len(s) \in Nat /\ s2[Len(s) + 1] = e
        /\ \A n \in 1..Len(s) : s2[n] = s[n]
        /\ \A n \in 1..(Len(s) + 1) : n \in 1..Len(s) \/ n = Len(s) + 1
    BY <1>0, <1>1, Grown
  <2>. QED  BY <1>0, <1>1, <2>1 DEF Chained
<1>5. t2 \in Seq(Recorded)
  BY <1>0, <1>2, <1>3, Grown
<1>6. ASSUME NEW K PROVE Filter(s2, K) = IF e \in K THEN Append(Filter(s, K), e) ELSE Filter(s, K)
  BY <1>0, <1>1, FilterAppend
<1>7. e \in O!EventsOf(O!Accepted, Calls) <=> O!Answer(c) = "COMPLETED"
  <2>1. e \in O!EventsOf(O!Accepted, Calls) <=> e.type \in O!Accepted
    BY <1>1 DEF Stored, O!EventsOf
  <2>2. O!Outcome(c) \in O!Accepted <=> O!Answer(c) = "COMPLETED"
    BY Answered, EventTypesApart
  <2>. QED  BY <1>1, <2>1, <2>2
<1>8. Agrees(s2, t2)
  <2>. DEFINE a == AcceptedIn(s)
              a2 == AcceptedIn(s2)
  <2>0. a \in Seq(Stored \cap O!EventsOf(O!Accepted, Calls))
    BY <1>0, FilterIsList DEF AcceptedIn
  <2>1. CASE O!Answer(c) = "COMPLETED"
    <3>1. a2 = Append(a, e) /\ t2 = Append(t, x) /\ e \in Stored \cap O!EventsOf(O!Accepted, Calls)
      BY <1>1, <1>2, <1>6, <1>7, <2>1 DEF AcceptedIn
    <3>2. /\ Len(a) = Len(t)
          /\ \A n \in 1..Len(t) : t[n].call = a[n].call /\ O!EventType(t[n].type) = a[n].type
      BY <1>0 DEF Agrees
    <3>3. x.call = e.call /\ O!EventType(x.type) = e.type
      BY <1>1, <1>3, <2>1, Answered
    <3>. HIDE DEF a, a2
    <3>4. /\ Len(t2) = Len(t) + 1 /\ t2[Len(t) + 1] = x /\ \A n \in 1..Len(t) : t2[n] = t[n]
          /\ Len(t) \in Nat /\ \A n \in 1..(Len(t) + 1) : n \in 1..Len(t) \/ n = Len(t) + 1
      BY <1>0, <1>3, <3>1, Grown
    <3>5. Len(a2) = Len(a) + 1 /\ a2[Len(a) + 1] = e /\ \A n \in 1..Len(a) : a2[n] = a[n]
      BY <2>0, <3>1, Grown
    <3>6. ASSUME NEW n \in 1..Len(t2) PROVE t2[n].call = a2[n].call /\ O!EventType(t2[n].type) = a2[n].type
      BY <3>2, <3>3, <3>4, <3>5
    <3>. QED  BY <3>2, <3>4, <3>5, <3>6 DEF Agrees, a2
  <2>2. CASE O!Answer(c) # "COMPLETED"
    <3>1. a2 = a /\ t2 = t
      BY <1>2, <1>6, <1>7, <2>2 DEF AcceptedIn
    <3>. QED  BY <1>0, <3>1 DEF Agrees
  <2>. QED  BY <2>1, <2>2
<1>9. LogsSound(s2, t2)
  BY <1>4, <1>5, <1>8 DEF LogsSound
<1>10. \E d \in Stored : d.type = O!Outcome(c) /\ MineIn(s2, k) = Append(MineIn(s, k), d)
  <2>1. e \in O!EventsOf(EventTypes, {k})
    BY <1>1 DEF Stored, O!EventsOf
  <2>2. MineIn(s2, k) = Append(MineIn(s, k), e)
    BY <1>6, <2>1 DEF MineIn
  <2>. QED  BY <1>1, <2>2
<1>11. ASSUME NEW j \in Calls, j # k
       PROVE  MineIn(s2, j) = MineIn(s, j) /\ MutationsIn(t2, j) = MutationsIn(t, j)
  <2>1. e \notin O!EventsOf(EventTypes, {j})
    BY <1>1, <1>11 DEF O!EventsOf
  <2>2. MineIn(s2, j) = MineIn(s, j)
    BY <1>6, <2>1 DEF MineIn
  <2>3. CASE t2 = Append(t, x)
    <3>1. /\ Len(t2) = Len(t) + 1 /\ t2[Len(t) + 1] = x /\ \A n \in 1..Len(t) : t2[n] = t[n]
          /\ Len(t) \in Nat /\ \A n \in 1..(Len(t) + 1) : n \in 1..Len(t) \/ n = Len(t) + 1
      BY <1>0, <1>3, <2>3, Grown
    <3>2. \A n \in 1..(Len(t) + 1) : (t2[n].call = j /\ t2[n].mutation) <=> (n \in 1..Len(t) /\ t[n].call = j /\ t[n].mutation)
      BY <1>3, <1>11, <3>1
    <3>3. 1..Len(t) \subseteq 1..(Len(t) + 1)
      BY <3>1
    <3>. QED  BY <2>2, <3>1, <3>2, <3>3, Zenon DEF MutationsIn
  <2>4. CASE t2 = t
    BY <2>2, <2>4
  <2>. QED  BY <1>2, <2>3, <2>4
<1>12. Cardinality(MutationsIn(t, k)) \in Nat /\ Cardinality(MutationsIn(t, k) \cup {Len(t) + 1}) = Cardinality(MutationsIn(t, k)) + 1
  <2>1. Len(t) \in Nat /\ MutationsIn(t, k) \subseteq 1..Len(t)
    BY <1>0 DEF MutationsIn
  <2>. QED  BY <2>1, OneMore
<1>13. Cardinality(MutationsIn(t2, k))
        = Cardinality(MutationsIn(t, k))
            + (IF O!Answer(c) = "COMPLETED" /\ O!Mutates(c) /\ c.auth = "LEDGER_MUTATION_AUTHORIZED" THEN 1 ELSE 0)
  <2>1. CASE O!Answer(c) = "COMPLETED"
    <3>1. /\ Len(t2) = Len(t) + 1 /\ t2[Len(t) + 1] = x /\ \A n \in 1..Len(t) : t2[n] = t[n]
          /\ Len(t) \in Nat /\ \A n \in 1..(Len(t) + 1) : n \in 1..Len(t) \/ n = Len(t) + 1
      BY <1>0, <1>2, <1>3, <2>1, Grown
    <3>2. /\ \A n \in 1..Len(t) : n \in 1..(Len(t) + 1)
          /\ \A n \in 1..Len(t) : n # Len(t) + 1
          /\ Len(t) + 1 \in 1..(Len(t) + 1)
      BY <3>1
    <3>3. CASE O!Mutates(c) /\ c.auth = "LEDGER_MUTATION_AUTHORIZED"
      <4>1. MutationsIn(t2, k) = MutationsIn(t, k) \cup {Len(t) + 1}
        <5>1. ASSUME NEW n \in 1..(Len(t) + 1)
              PROVE (t2[n].call = k /\ t2[n].mutation) <=> (n = Len(t) + 1 \/ (n \in 1..Len(t) /\ t[n].call = k /\ t[n].mutation))
          BY <1>3, <3>1, <3>2, <3>3
        <5>. QED  BY <3>1, <3>2, <5>1, Zenon DEF MutationsIn
      <4>. QED  BY <1>12, <2>1, <3>3, <4>1
    <3>4. CASE ~ (O!Mutates(c) /\ c.auth = "LEDGER_MUTATION_AUTHORIZED")
      <4>1. MutationsIn(t2, k) = MutationsIn(t, k)
        <5>1. ASSUME NEW n \in 1..(Len(t) + 1)
              PROVE (t2[n].call = k /\ t2[n].mutation) <=> (n \in 1..Len(t) /\ t[n].call = k /\ t[n].mutation)
          BY <1>3, <3>1, <3>2, <3>4
        <5>. QED  BY <3>1, <3>2, <5>1, Zenon DEF MutationsIn
      <4>. QED  BY <1>12, <3>4, <4>1
    <3>. QED  BY <3>3, <3>4
  <2>2. CASE O!Answer(c) # "COMPLETED"
    <3>1. t2 = t
      BY <1>2, <2>2
    <3>. QED  BY <1>12, <2>2, <3>1
  <2>. QED  BY <2>1, <2>2
<1>14. Cardinality(MutationsIn(t, k)) \in Nat
  BY <1>12
<1>. QED  BY <1>9, <1>10, <1>11, <1>13, <1>14, Zenon DEF s, t, s2, t2
-----------------------------------------------------------------------------
(***************************************************************************)
(* The workflow engine: a call c, the events mine of it, the number m of   *)
(* its mutations and the number d of its entries among the completed.      *)
(***************************************************************************)
EntriesIn(d, k) == {n \in 1..Len(d) : d[n] = k}

Workflow(c) == c.intent # None /\ c.plan # <<>>

\* The steps of a plan up to n that are for the ledger.
LedgerUpTo(plan, n) == {i \in 1..n : O!LedgerStep(plan[i])}

\* The steps before the one it is at have succeeded.
Reported(c, mine, m) ==
  /\ c.plan \in Seq(PlanStep) /\ c.at \in 1..Len(c.plan) /\ c.step \in {"COMPLETED", "FAILED"}
  /\ mine \in Seq(Stored) /\ Len(mine) = c.at
  /\ \A n \in 1..(c.at - 1) : mine[n].type = O!EventType(c.plan[n].type)
  /\ c.step = "COMPLETED" => mine[c.at].type = O!EventType(c.plan[c.at].type)
  /\ c.step = "FAILED" => mine[c.at].type \in O!Rejections
  /\ c.step = "COMPLETED" => m = Cardinality(LedgerUpTo(c.plan, c.at))

Closed(c, d) ==
  /\ c.status # "RUNNING" => c.status = c.step /\ ~ (c.step = "COMPLETED" /\ c.at < Len(c.plan))
  /\ c.status = "COMPLETED" => c.mutations = Cardinality(LedgerUpTo(c.plan, Len(c.plan)))
  /\ d = IF c.status # "RUNNING" THEN 1 ELSE 0

CallSound(c, mine, m, d) ==
  IF c = None THEN mine = <<>> /\ m = 0 /\ d = 0
  ELSE /\ c.status = "RUNNING" => Workflow(c)
       /\ Workflow(c) => Reported(c, mine, m) /\ Closed(c, d)

OrchestrationTypes ==
  /\ intents \in [Intents -> IntentRecord \cup {None}]
  /\ calls \in [Calls -> CallRecord \cup {None}]
  /\ workflows \in [Intents -> Calls \cup {None}]
  /\ completed \in Seq(Calls)
  /\ rules \subseteq RuleSet \cup InitRules /\ changes \in 0..MaxRules

OrchestrationInv ==
  /\ OrchestrationTypes
  /\ LogsSound(store, txlog)
  /\ \A k \in Calls : CallSound(calls[k], MineIn(store, k), Cardinality(MutationsIn(txlog, k)),
                                Cardinality(EntriesIn(completed, k)))

LEMMA LedgerGrows ==
  ASSUME NEW plan, NEW n \in Nat
  PROVE  /\ Cardinality(LedgerUpTo(plan, n)) \in Nat
         /\ Cardinality(LedgerUpTo(plan, n + 1))
              = Cardinality(LedgerUpTo(plan, n)) + (IF O!LedgerStep(plan[n + 1]) THEN 1 ELSE 0)
<1>1. \A i \in 1..(n + 1) : i \in 1..n \/ i = n + 1
  OBVIOUS
<1>2. (\A i \in 1..n : i \in 1..(n + 1)) /\ n + 1 \in 1..(n + 1)
  OBVIOUS
<1>3. LedgerUpTo(plan, n) \subseteq 1..n
  BY DEF LedgerUpTo
<1>4. /\ Cardinality(LedgerUpTo(plan, n)) \in Nat
      /\ Cardinality(LedgerUpTo(plan, n) \cup {n + 1}) = Cardinality(LedgerUpTo(plan, n)) + 1
  BY <1>3, OneMore
<1>5. CASE O!LedgerStep(plan[n + 1])
  <2>1. LedgerUpTo(plan, n + 1) = LedgerUpTo(plan, n) \cup {n + 1}
    BY <1>1, <1>2, <1>5, Zenon DEF LedgerUpTo
  <2>. QED  BY <1>4, <1>5, <2>1
<1>6. CASE ~ O!LedgerStep(plan[n + 1])
  <2>1. LedgerUpTo(plan, n + 1) = LedgerUpTo(plan, n)
    BY <1>1, <1>2, <1>6, Zenon DEF LedgerUpTo
  <2>. QED  BY <1>4, <1>6, <2>1
<1>. QED  BY <1>5, <1>6

\* The next step of a plan, after n that succeeded.
LEMMA StepReported ==
  ASSUME NEW plan \in Seq(PlanStep), NEW n \in Nat, n + 1 <= Len(plan), NEW mine \in Seq(Stored), Len(mine) = n,
         \A i \in 1..n : mine[i].type = O!EventType(plan[i].type),
         NEW c, c.type = plan[n + 1].type,
         c.auth = IF O!LedgerStep(plan[n + 1]) THEN "LEDGER_MUTATION_AUTHORIZED" ELSE "READ_ONLY",
         NEW e \in Stored, e.type = O!Outcome(c),
         NEW r, r.plan = plan, r.at = n + 1, r.step = O!Answer(c), NEW m, NEW m2,
         m = Cardinality(LedgerUpTo(plan, n)),
         m2 = m + (IF O!Answer(c) = "COMPLETED" /\ O!Mutates(c) /\ c.auth = "LEDGER_MUTATION_AUTHORIZED" THEN 1 ELSE 0)
  PROVE  Reported(r, Append(mine, e), m2)
<1>. DEFINE all == Append(mine, e)
<1>1. /\ all \in Seq(Stored) /\ Len(all) = n + 1 /\ all[n + 1] = e /\ \A i \in 1..n : all[i] = mine[i]
  BY Grown
<1>. HIDE DEF all
<1>2. r.at \in 1..Len(plan) /\ r.at - 1 = n
  OBVIOUS
<1>3. \A i \in 1..(r.at - 1) : all[i].type = O!EventType(plan[i].type)
  BY <1>1, <1>2
<1>4. /\ r.step \in {"COMPLETED", "FAILED"}
      /\ r.step = "COMPLETED" => all[r.at].type = O!EventType(plan[r.at].type)
      /\ r.step = "FAILED" => all[r.at].type \in O!Rejections
  BY <1>1, Answered
<1>5. ASSUME r.step = "COMPLETED" PROVE m2 = Cardinality(LedgerUpTo(plan, r.at))
  <2>1. O!Routed(c)
    BY <1>5, Answered
  <2>2. (O!Mutates(c) /\ c.auth = "LEDGER_MUTATION_AUTHORIZED") <=> O!LedgerStep(plan[n + 1])
    BY <2>1 DEF O!Routed
  <2>3. m2 = m + IF O!LedgerStep(plan[n + 1]) THEN 1 ELSE 0
    BY <1>5, <2>2
  <2>. QED  BY <2>3, LedgerGrows
<1>. QED  BY <1>1, <1>2, <1>3, <1>4, <1>5 DEF Reported, all

\* One call and its events move; the others stay.
LEMMA CallMoves ==
  ASSUME OrchestrationInv, NEW k \in Calls, NEW r \in CallRecord, calls' = [calls EXCEPT ![k] = r],
         LogsSound(store', txlog'), completed' \in Seq(Calls), workflows' \in [Intents -> Calls \cup {None}],
         UNCHANGED <<intents, rules, changes>>,
         \A j \in Calls : j # k => /\ MineIn(store', j) = MineIn(store, j)
                                   /\ MutationsIn(txlog', j) = MutationsIn(txlog, j)
                                   /\ EntriesIn(completed', j) = EntriesIn(completed, j),
         CallSound(r, MineIn(store', k), Cardinality(MutationsIn(txlog', k)), Cardinality(EntriesIn(completed', k)))
  PROVE  OrchestrationInv'
<1>1. calls' \in [Calls -> CallRecord \cup {None}] /\ calls'[k] = r /\ \A j \in Calls : j # k => calls'[j] = calls[j]
  BY DEF OrchestrationInv, OrchestrationTypes
<1>2. OrchestrationTypes'
  BY <1>1 DEF OrchestrationInv, OrchestrationTypes
<1>3. ASSUME NEW j \in Calls
      PROVE  CallSound(calls'[j], MineIn(store', j), Cardinality(MutationsIn(txlog', j)),
                       Cardinality(EntriesIn(completed', j)))
  <2>1. CASE j = k
    BY <1>1, <2>1
  <2>2. CASE j # k
    BY <1>1, <2>2 DEF OrchestrationInv
  <2>. QED  BY <2>1, <2>2
<1>. QED  BY <1>2, <1>3 DEF OrchestrationInv

\* The intents and the rules are nothing to the calls.
LEMMA CallsStay ==
  ASSUME OrchestrationInv, UNCHANGED <<calls, workflows, completed, store, txlog>>,
         intents' \in [Intents -> IntentRecord \cup {None}], rules' \subseteq RuleSet \cup InitRules, changes' \in 0..MaxRules
  PROVE  OrchestrationInv'
BY DEF OrchestrationInv, OrchestrationTypes

LEMMA EmptyCounts == Cardinality({}) = 0 /\ \A plan : Cardinality(LedgerUpTo(plan, 0)) = 0
<1>1. Cardinality({}) = 0
  BY FS_EmptySet
<1>2. \A plan : LedgerUpTo(plan, 0) = {}
  BY DEF LedgerUpTo
<1>. QED  BY <1>1, <1>2

LEMMA PlanIs == \A type \in CommandTypes : O!Plan(type) \in Seq(PlanStep)
<1>1. ASSUME NEW type \in CommandTypes PROVE O!Plan(type) \in Seq(PlanStep)
  <2>1. \A t \in CommandTypes, d \in {"vault", "treasury", "payment", "intent"} : O!Step(t, d) \in PlanStep
    BY DEF O!Step, PlanStep
  <2>2. {"OPEN_VAULT", "LOCK_VAULT", "CREATE_ALLOCATION_REQUEST", "APPROVE_ALLOCATION", "EXECUTE_ALLOCATION",
         "CREATE_PAYMENT_INTENT", "AUTHORIZE_PAYMENT", "EXECUTE_INTERNAL_SETTLEMENT"} \subseteq CommandTypes
    BY DEF CommandTypes, O!EventOf
  <2>3. \A a, b, c \in PlanStep : <<a>> \in Seq(PlanStep) /\ <<a, b, c>> \in Seq(PlanStep)
    OBVIOUS
  <2>4. /\ <<O!Step("OPEN_VAULT", "vault")>> \in Seq(PlanStep)
        /\ <<O!Step("LOCK_VAULT", "vault")>> \in Seq(PlanStep)
        /\ <<O!Step("CREATE_ALLOCATION_REQUEST", "treasury"), O!Step("APPROVE_ALLOCATION", "treasury"),
             O!Step("EXECUTE_ALLOCATION", "treasury")>> \in Seq(PlanStep)
        /\ <<O!Step("CREATE_PAYMENT_INTENT", "payment"), O!Step("AUTHORIZE_PAYMENT", "payment"),
             O!Step("EXECUTE_INTERNAL_SETTLEMENT", "payment")>> \in Seq(PlanStep)
        /\ <<O!Step(type, "intent")>> \in Seq(PlanStep)
    BY <2>1, <2>2, <2>3
  <2>. QED  BY <2>4 DEF O!Plan
<1>. QED  BY <1>1

LEMMA OrchestrationInit == O!Init => OrchestrationInv
<1>. SUFFICES ASSUME O!Init PROVE OrchestrationInv
  OBVIOUS
<1>1. OrchestrationTypes
  BY OrchestrationAssumption DEF O!Init, OrchestrationTypes
<1>2. \A K : Filter(<<>>, K) = <<>>
  BY FilterEmpty
<1>3. store = <<>> /\ txlog = <<>> /\ completed = <<>> /\ \A k \in Calls : calls[k] = None
  BY DEF O!Init
<1>4. LogsSound(store, txlog)
  BY <1>2, <1>3 DEF LogsSound, Chained, Agrees, AcceptedIn
<1>5. \A k \in Calls : MutationsIn(txlog, k) = {} /\ EntriesIn(completed, k) = {} /\ MineIn(store, k) = <<>>
  BY <1>2, <1>3 DEF MutationsIn, EntriesIn, MineIn
<1>6. \A k \in Calls : CallSound(calls[k], MineIn(store, k), Cardinality(MutationsIn(txlog, k)),
                                 Cardinality(EntriesIn(completed, k)))
  BY <1>3, <1>5, EmptyCounts DEF CallSound
<1>. QED  BY <1>1, <1>4, <1>6 DEF OrchestrationInv

LEMMA IntentsKeep ==
  ASSUME OrchestrationInv, NEW i \in Intents,
         (\E x \in Submitted : O!SubmitIntent(i, x)) \/ O!Validate(i)
  PROVE  OrchestrationInv'
<1>0. OrchestrationTypes
  BY DEF OrchestrationInv
<1>1. ASSUME NEW x \in Submitted, O!SubmitIntent(i, x) PROVE OrchestrationInv'
  <2>1. [type |-> x.type, actor |-> x.actor, amount |-> x.amount, policy |-> x.policy, status |-> "PENDING",
         plan |-> <<>>] \in IntentRecord
    BY DEF IntentRecord, CommandTypes
  <2>2. intents' \in [Intents -> IntentRecord \cup {None}]
    BY <1>0, <1>1, <2>1 DEF O!SubmitIntent, OrchestrationTypes
  <2>. QED  BY <1>0, <1>1, <2>2, CallsStay DEF O!SubmitIntent, OrchestrationTypes
<1>2. ASSUME O!Validate(i) PROVE OrchestrationInv'
  <2>. DEFINE x == intents[i]
              y == [x EXCEPT !.status = IF O!Valid(x) THEN "VALIDATED" ELSE "REJECTED",
                             !.plan   = IF O!Valid(x) THEN O!Plan(x.type) ELSE x.plan]
  <2>1. x \in IntentRecord /\ intents' = [intents EXCEPT ![i] = y]
        /\ UNCHANGED <<calls, workflows, completed, store, txlog, rules, changes>>
    BY <1>0, <1>2 DEF O!Validate, OrchestrationTypes
  <2>. HIDE DEF x
  <2>2. x.type \in CommandTypes /\ O!Plan(x.type) \in Seq(PlanStep)
    BY <2>1, PlanIs DEF IntentRecord
  <2>3. y \in IntentRecord
    BY <2>1, <2>2 DEF IntentRecord
  <2>. HIDE DEF y
  <2>4. intents' \in [Intents -> IntentRecord \cup {None}]
    BY <1>0, <2>1, <2>3 DEF OrchestrationTypes
  <2>. QED  BY <1>0, <2>1, <2>4, CallsStay DEF OrchestrationTypes
<1>. QED  BY <1>1, <1>2

LEMMA DirectKeeps ==
  ASSUME OrchestrationInv, NEW k \in Calls, NEW c \in Commands, O!Direct(k, c)
  PROVE  OrchestrationInv'
<1>. DEFINE r == [intent |-> None, plan |-> <<c>>, at |-> 1, step |-> O!Answer(c),
                  status |-> O!Answer(c), mutations |-> None]
<1>1. /\ calls' = [calls EXCEPT ![k] = r] /\ O!ExecuteCommand(k, c)
      /\ UNCHANGED <<intents, workflows, completed, rules, changes>>
  BY DEF O!Direct
<1>2. O!Answer(c) \in {"COMPLETED", "FAILED"} /\ <<c>> \in Seq(PlanStep \cup Commands)
  BY Answered
<1>3. r \in CallRecord
  BY <1>2 DEF CallRecord
<1>4. r # None /\ r.status # "RUNNING" /\ ~ Workflow(r)
  BY <1>2, <1>3, OrchestrationAssumption DEF Workflow
<1>. HIDE DEF r
<1>5. c.type \in CommandTypes /\ LogsSound(store, txlog)
  BY DEF CommandTypes, OrchestrationInv
<1>6. /\ LogsSound(store', txlog')
      /\ \A j \in Calls : j # k => MineIn(store', j) = MineIn(store, j) /\ MutationsIn(txlog', j) = MutationsIn(txlog, j)
  BY <1>1, <1>5, Dispatched
<1>7. CallSound(r, MineIn(store', k), Cardinality(MutationsIn(txlog', k)), Cardinality(EntriesIn(completed', k)))
  BY <1>4 DEF CallSound
<1>8. completed' = completed /\ completed' \in Seq(Calls) /\ workflows' \in [Intents -> Calls \cup {None}]
  BY <1>1 DEF OrchestrationInv, OrchestrationTypes
<1>. QED  BY <1>1, <1>3, <1>6, <1>7, <1>8, CallMoves

LEMMA UnplannedKeeps ==
  ASSUME OrchestrationInv, NEW k \in Calls, NEW i \in Intents, O!Unplanned(k, i)
  PROVE  OrchestrationInv'
<1>. DEFINE r == [intent |-> i, plan |-> <<>>, at |-> 0, step |-> None, status |-> "FAILED", mutations |-> 0]
<1>1. /\ calls' = [calls EXCEPT ![k] = r]
      /\ UNCHANGED <<intents, workflows, completed, store, txlog, rules, changes>>
  BY DEF O!Unplanned
<1>2. r \in CallRecord
  BY DEF CallRecord
<1>3. r # None /\ r.status # "RUNNING" /\ ~ Workflow(r)
  BY <1>2, OrchestrationAssumption DEF Workflow
<1>. HIDE DEF r
<1>4. CallSound(r, MineIn(store', k), Cardinality(MutationsIn(txlog', k)), Cardinality(EntriesIn(completed', k)))
  BY <1>3 DEF CallSound
<1>5. LogsSound(store', txlog') /\ completed' \in Seq(Calls) /\ workflows' \in [Intents -> Calls \cup {None}]
  BY <1>1 DEF OrchestrationInv, OrchestrationTypes
<1>6. \A j \in Calls : /\ MineIn(store', j) = MineIn(store, j) /\ MutationsIn(txlog', j) = MutationsIn(txlog, j)
                       /\ EntriesIn(completed', j) = EntriesIn(completed, j)
  BY <1>1
<1>. QED  BY <1>1, <1>2, <1>4, <1>5, <1>6, CallMoves

\* A workflow takes its step n + 1.
LEMMA StepKeeps ==
  ASSUME OrchestrationInv, NEW k \in Calls, NEW plan \in Seq(PlanStep), NEW n \in Nat, n + 1 <= Len(plan),
         Len(MineIn(store, k)) = n,
         \A j \in 1..n : MineIn(store, k)[j].type = O!EventType(plan[j].type),
         Cardinality(MutationsIn(txlog, k)) = Cardinality(LedgerUpTo(plan, n)),
         Cardinality(EntriesIn(completed, k)) = 0,
         NEW i \in Intents, NEW r \in CallRecord, r.intent = i, r.plan = plan, r.at = n + 1, r.status = "RUNNING",
         r.step = O!Answer(O!Command(i, plan[n + 1])),
         calls' = [calls EXCEPT ![k] = r], O!ExecuteCommand(k, O!Command(i, plan[n + 1])),
         workflows' \in [Intents -> Calls \cup {None}],
         UNCHANGED <<intents, completed, rules, changes>>
  PROVE  OrchestrationInv'
<1>. DEFINE c == O!Command(i, plan[n + 1])
<1>1. /\ c.type = plan[n + 1].type
      /\ c.auth = IF O!LedgerStep(plan[n + 1]) THEN "LEDGER_MUTATION_AUTHORIZED" ELSE "READ_ONLY"
  BY DEF O!Command
<1>. HIDE DEF c
<1>2. c.type \in CommandTypes
  <2>1. plan[n + 1] \in PlanStep
    OBVIOUS
  <2>. QED  BY <1>1, <2>1 DEF PlanStep
<1>3. LogsSound(store, txlog) /\ O!ExecuteCommand(k, c)
  BY DEF OrchestrationInv, c
<1>4. PICK e \in Stored : e.type = O!Outcome(c) /\ MineIn(store', k) = Append(MineIn(store, k), e)
  BY <1>2, <1>3, Dispatched
<1>5. /\ LogsSound(store', txlog')
      /\ \A j \in Calls : j # k => MineIn(store', j) = MineIn(store, j) /\ MutationsIn(txlog', j) = MutationsIn(txlog, j)
  BY <1>2, <1>3, Dispatched
<1>6. Cardinality(MutationsIn(txlog', k))
        = Cardinality(MutationsIn(txlog, k))
            + (IF O!Answer(c) = "COMPLETED" /\ O!Mutates(c) /\ c.auth = "LEDGER_MUTATION_AUTHORIZED" THEN 1 ELSE 0)
  BY <1>2, <1>3, Dispatched
<1>7. MineIn(store, k) \in Seq(Stored)
  <2>1. store \in Seq(Stored)
    BY <1>3 DEF LogsSound
  <2>2. MineIn(store, k) \in Seq(Stored \cap O!EventsOf(EventTypes, {k}))
    BY <2>1, FilterIsList DEF MineIn
  <2>. QED  BY <2>2
<1>8. r.step = O!Answer(c)
  BY DEF c
<1>9. Reported(r, MineIn(store', k), Cardinality(MutationsIn(txlog', k)))
  BY <1>1, <1>4, <1>6, <1>7, <1>8, StepReported
<1>10. completed' = completed /\ completed' \in Seq(Calls)
  BY DEF OrchestrationInv, OrchestrationTypes
<1>11. Closed(r, Cardinality(EntriesIn(completed', k)))
  BY <1>10 DEF Closed
<1>12. r # None /\ Workflow(r)
  BY OrchestrationAssumption DEF Workflow
<1>13. CallSound(r, MineIn(store', k), Cardinality(MutationsIn(txlog', k)), Cardinality(EntriesIn(completed', k)))
  BY <1>9, <1>11, <1>12 DEF CallSound
<1>. QED  BY <1>5, <1>10, <1>13, CallMoves

LEMMA StartKeeps ==
  ASSUME OrchestrationInv, NEW k \in Calls, NEW i \in Intents, O!Start(k, i)
  PROVE  OrchestrationInv'
<1>. DEFINE plan == intents[i].plan
            c == O!Command(i, plan[1])
            r == [intent |-> i, plan |-> plan, at |-> 1, step |-> O!Answer(c), status |-> "RUNNING", mutations |-> 0]
<1>1. plan \in Seq(PlanStep) /\ plan # <<>>
  <2>1. intents[i] \in IntentRecord
    BY DEF O!Start, OrchestrationInv, OrchestrationTypes
  <2>. QED  BY <2>1 DEF O!Start, IntentRecord
<1>2. Head(plan) = plan[1] /\ 0 + 1 = 1 /\ 0 + 1 <= Len(plan) /\ 0 \in Nat
  BY <1>1
<1>3. /\ calls' = [calls EXCEPT ![k] = r] /\ O!ExecuteCommand(k, c) /\ workflows' = [workflows EXCEPT ![i] = k]
      /\ UNCHANGED <<intents, completed, rules, changes>>
  BY <1>2 DEF O!Start
<1>4. r \in CallRecord
  <2>1. O!Answer(c) \in {"COMPLETED", "FAILED"}
    BY Answered
  <2>2. plan \in Seq(PlanStep \cup Commands)
    BY <1>1
  <2>. HIDE DEF c, plan
  <2>. QED  BY <2>1, <2>2 DEF CallRecord
<1>5. r.intent = i /\ r.plan = plan /\ r.at = 0 + 1 /\ r.status = "RUNNING" /\ r.step = O!Answer(c)
  OBVIOUS
<1>. HIDE DEF r, plan
<1>6. CallSound(None, MineIn(store, k), Cardinality(MutationsIn(txlog, k)), Cardinality(EntriesIn(completed, k)))
  BY DEF OrchestrationInv, O!Start
<1>7. /\ MineIn(store, k) = <<>> /\ Cardinality(EntriesIn(completed, k)) = 0
      /\ Cardinality(MutationsIn(txlog, k)) = Cardinality(LedgerUpTo(plan, 0))
  BY <1>6, EmptyCounts DEF CallSound
<1>8. Len(MineIn(store, k)) = 0 /\ \A j \in 1..0 : MineIn(store, k)[j].type = O!EventType(plan[j].type)
  BY <1>7
<1>9. workflows' \in [Intents -> Calls \cup {None}]
  BY <1>3 DEF OrchestrationInv, OrchestrationTypes
<1>10. PICK n \in Nat : n = 0 /\ n + 1 = 1
  OBVIOUS
<1>11. O!Command(i, plan[n + 1]) = c
  BY <1>10
<1>. HIDE DEF c
<1>12. /\ n + 1 <= Len(plan) /\ Len(MineIn(store, k)) = n /\ r.at = n + 1
       /\ \A j \in 1..n : MineIn(store, k)[j].type = O!EventType(plan[j].type)
       /\ Cardinality(MutationsIn(txlog, k)) = Cardinality(LedgerUpTo(plan, n))
  BY <1>2, <1>5, <1>7, <1>8, <1>10
<1>13. r.step = O!Answer(O!Command(i, plan[n + 1])) /\ O!ExecuteCommand(k, O!Command(i, plan[n + 1]))
  BY <1>3, <1>5, <1>11
<1>. QED  BY <1>1, <1>3, <1>4, <1>5, <1>7, <1>9, <1>12, <1>13, StepKeeps

\* A workflow that is running has reported the steps up to the one it is at.
LEMMA Running ==
  ASSUME OrchestrationInv, NEW k \in Calls, calls[k] # None, calls[k].status = "RUNNING"
  PROVE  /\ calls[k] \in CallRecord /\ calls[k].intent \in Intents /\ Workflow(calls[k])
         /\ Reported(calls[k], MineIn(store, k), Cardinality(MutationsIn(txlog, k)))
         /\ Cardinality(EntriesIn(completed, k)) = 0
<1>1. calls[k] \in CallRecord
  BY DEF OrchestrationInv, OrchestrationTypes
<1>2. CallSound(calls[k], MineIn(store, k), Cardinality(MutationsIn(txlog, k)), Cardinality(EntriesIn(completed, k)))
  BY DEF OrchestrationInv
<1>3. Workflow(calls[k]) /\ Reported(calls[k], MineIn(store, k), Cardinality(MutationsIn(txlog, k)))
      /\ Closed(calls[k], Cardinality(EntriesIn(completed, k)))
  BY <1>2 DEF CallSound
<1>4. calls[k].intent \in Intents
  BY <1>1, <1>3 DEF CallRecord, Workflow
<1>. QED  BY <1>1, <1>3, <1>4 DEF Closed

LEMMA NextStepKeeps ==
  ASSUME OrchestrationInv, NEW k \in Calls, O!NextStep(k)
  PROVE  OrchestrationInv'
<1>. DEFINE old == calls[k]
            plan == old.plan
            n == old.at
            c == O!Command(old.intent, plan[n + 1])
            r == [old EXCEPT !.at = n + 1, !.step = O!Answer(c)]
<1>1. /\ old # None /\ old.status = "RUNNING" /\ old.step = "COMPLETED" /\ n < Len(plan)
      /\ calls' = [calls EXCEPT ![k] = r] /\ O!ExecuteCommand(k, c)
      /\ UNCHANGED <<intents, workflows, completed, rules, changes>>
  BY DEF O!NextStep, O!More
<1>2. /\ old \in CallRecord /\ old.intent \in Intents
      /\ Reported(old, MineIn(store, k), Cardinality(MutationsIn(txlog, k)))
      /\ Cardinality(EntriesIn(completed, k)) = 0
  BY <1>1, Running
<1>3. r \in CallRecord
  <2>1. O!Answer(c) \in {"COMPLETED", "FAILED"}
    BY Answered
  <2>2. n + 1 \in Nat
    BY <1>2 DEF CallRecord
  <2>. HIDE DEF c, old, n
  <2>. QED  BY <1>2, <2>1, <2>2 DEF CallRecord
<1>4. /\ r.intent = old.intent /\ r.plan = plan /\ r.at = n + 1 /\ r.status = "RUNNING" /\ r.step = O!Answer(c)
  <2>. HIDE DEF c, old
  <2>. QED  BY <1>1, <1>2 DEF CallRecord
<1>. HIDE DEF r, old
<1>5. plan \in Seq(PlanStep) /\ n \in Nat /\ n \in 1..Len(plan) /\ n + 1 <= Len(plan) /\ n - 1 \in Nat
  BY <1>1, <1>2 DEF Reported
<1>6. /\ Len(MineIn(store, k)) = n
      /\ Cardinality(MutationsIn(txlog, k)) = Cardinality(LedgerUpTo(plan, n))
      /\ \A j \in 1..(n - 1) : MineIn(store, k)[j].type = O!EventType(plan[j].type)
      /\ MineIn(store, k)[n].type = O!EventType(plan[n].type)
  BY <1>1, <1>2 DEF Reported
<1>. HIDE DEF n, plan
<1>7. \A j \in 1..n : MineIn(store, k)[j].type = O!EventType(plan[j].type)
  BY <1>5, <1>6
<1>8. workflows' \in [Intents -> Calls \cup {None}]
  BY <1>1 DEF OrchestrationInv, OrchestrationTypes
<1>. QED  BY <1>1, <1>2, <1>3, <1>4, <1>5, <1>6, <1>7, <1>8, StepKeeps

LEMMA EndKeeps ==
  ASSUME OrchestrationInv, NEW k \in Calls, O!End(k)
  PROVE  OrchestrationInv'
<1>. DEFINE old == calls[k]
            r == [old EXCEPT !.status = old.step,
                             !.mutations = IF old.step = "COMPLETED"
                                             THEN O!Cardinality(O!LedgerSteps(old.plan)) ELSE 0]
<1>1. /\ old # None /\ old.status = "RUNNING" /\ ~ (old.step = "COMPLETED" /\ old.at < Len(old.plan))
      /\ calls' = [calls EXCEPT ![k] = r] /\ completed' = Append(completed, k)
      /\ UNCHANGED <<intents, workflows, store, txlog, rules, changes>>
  BY DEF O!End, O!More
<1>2. /\ old \in CallRecord /\ Workflow(old)
      /\ Reported(old, MineIn(store, k), Cardinality(MutationsIn(txlog, k)))
      /\ Cardinality(EntriesIn(completed, k)) = 0
  BY <1>1, Running
<1>. HIDE DEF old
<1>3. old.step \in {"COMPLETED", "FAILED"} /\ old.plan \in Seq(PlanStep)
  BY <1>2 DEF Reported
<1>4. O!Cardinality(O!LedgerSteps(old.plan)) = Cardinality(LedgerUpTo(old.plan, Len(old.plan)))
  <2>1. DOMAIN old.plan = 1..Len(old.plan)
    BY <1>3
  <2>2. O!LedgerSteps(old.plan) = LedgerUpTo(old.plan, Len(old.plan))
    BY <2>1 DEF O!LedgerSteps, LedgerUpTo
  <2>. QED  BY <2>2, SameOperators
<1>5. Cardinality(LedgerUpTo(old.plan, Len(old.plan))) \in Nat
  <2>1. Len(old.plan) \in Nat
    BY <1>3
  <2>. QED  BY <2>1, LedgerGrows
<1>6. r \in CallRecord
  BY <1>2, <1>3, <1>4, <1>5 DEF CallRecord
<1>7. /\ r.intent = old.intent /\ r.plan = old.plan /\ r.at = old.at /\ r.step = old.step /\ r.status = old.step
      /\ old.step = "COMPLETED" => r.mutations = Cardinality(LedgerUpTo(old.plan, Len(old.plan)))
  BY <1>2, <1>4 DEF CallRecord
<1>. HIDE DEF r
<1>8. completed' \in Seq(Calls) /\ completed \in Seq(Calls) /\ workflows' \in [Intents -> Calls \cup {None}]
  BY <1>1 DEF OrchestrationInv, OrchestrationTypes
<1>9. /\ Len(completed') = Len(completed) + 1 /\ completed'[Len(completed) + 1] = k
      /\ \A n \in 1..Len(completed) : completed'[n] = completed[n]
      /\ Len(completed) \in Nat /\ \A n \in 1..(Len(completed) + 1) : n \in 1..Len(completed) \/ n = Len(completed) + 1
  BY <1>1, <1>8, Grown
<1>10. /\ \A n \in 1..Len(completed) : n \in 1..(Len(completed) + 1) /\ n # Len(completed) + 1
       /\ Len(completed) + 1 \in 1..(Len(completed) + 1)
  BY <1>9
<1>11. EntriesIn(completed', k) = EntriesIn(completed, k) \cup {Len(completed) + 1}
  BY <1>9, <1>10, Zenon DEF EntriesIn
<1>12. \A j \in Calls : j # k => EntriesIn(completed', j) = EntriesIn(completed, j)
  BY <1>9, <1>10 DEF EntriesIn
<1>13. Cardinality(EntriesIn(completed', k)) = 1
  <2>1. EntriesIn(completed, k) \subseteq 1..Len(completed)
    BY DEF EntriesIn
  <2>2. Cardinality(EntriesIn(completed, k) \cup {Len(completed) + 1}) = Cardinality(EntriesIn(completed, k)) + 1
    BY <1>9, <2>1, OneMore
  <2>. QED  BY <1>2, <1>11, <2>2
<1>14. MineIn(store', k) = MineIn(store, k) /\ MutationsIn(txlog', k) = MutationsIn(txlog, k)
  BY <1>1
<1>15. Reported(r, MineIn(store', k), Cardinality(MutationsIn(txlog', k)))
  BY <1>2, <1>7, <1>14 DEF Reported
<1>16. Closed(r, Cardinality(EntriesIn(completed', k)))
  BY <1>1, <1>3, <1>7, <1>13 DEF Closed
<1>17. Workflow(r) /\ r.status # "RUNNING" /\ r # None
  BY <1>2, <1>3, <1>6, <1>7, OrchestrationAssumption DEF Workflow
<1>18. CallSound(r, MineIn(store', k), Cardinality(MutationsIn(txlog', k)), Cardinality(EntriesIn(completed', k)))
  BY <1>15, <1>16, <1>17 DEF CallSound
<1>19. LogsSound(store', txlog') /\ \A j \in Calls : MineIn(store', j) = MineIn(store, j) /\ MutationsIn(txlog', j) = MutationsIn(txlog, j)
  BY <1>1 DEF OrchestrationInv
<1>. QED  BY <1>1, <1>6, <1>8, <1>12, <1>18, <1>19, CallMoves

LEMMA RulesKeep ==
  ASSUME OrchestrationInv, NEW r \in RuleSet, O!ChangeRules(r)
  PROVE  OrchestrationInv'
<1>1. changes' \in 0..MaxRules /\ rules' \subseteq RuleSet \cup InitRules
      /\ UNCHANGED <<intents, calls, workflows, completed, store, txlog>>
  BY OrchestrationAssumption DEF O!ChangeRules, OrchestrationInv, OrchestrationTypes
<1>2. intents' \in [Intents -> IntentRecord \cup {None}]
  BY <1>1 DEF OrchestrationInv, OrchestrationTypes
<1>. QED  BY <1>1, <1>2, CallsStay

LEMMA OrchestrationKept == OrchestrationInv /\ [O!Next]_(O!vars) => OrchestrationInv'
<1>. SUFFICES ASSUME OrchestrationInv, [O!Next]_(O!vars) PROVE OrchestrationInv'
  OBVIOUS
<1>1. CASE UNCHANGED O!vars
  BY <1>1 DEF O!vars, OrchestrationInv, OrchestrationTypes
<1>. QED  BY <1>1, IntentsKeep, DirectKeeps, UnplannedKeeps, StartKeeps, NextStepKeeps, EndKeeps, RulesKeep DEF O!Next

LEMMA OrchestrationInvariant == O!Init /\ [][O!Next]_(O!vars) => []OrchestrationInv
<1>1. O!Init => OrchestrationInv
  BY OrchestrationInit
<1>2. OrchestrationInv /\ [O!Next]_(O!vars) => OrchestrationInv'
  BY OrchestrationKept
<1>. QED  BY <1>1, <1>2, PTL

LEMMA CallTellsTrue ==
  ASSUME OrchestrationInv, NEW k \in Calls, calls[k] # None, Workflow(calls[k])
  PROVE  LET mine == O!Mine(k) IN
         /\ Len(mine) = calls[k].at
         /\ \A n \in DOMAIN mine :
              \/ mine[n].type = O!EventType(calls[k].plan[n].type)
              \/ mine[n].type \in O!Rejections /\ n = calls[k].at /\ calls[k].step = "FAILED"
         /\ calls[k].status = "FAILED" => O!Last(mine).type \in O!Rejections
         /\ calls[k].status = "COMPLETED" =>
              /\ Len(mine) = Len(calls[k].plan) /\ O!Last(mine).type \notin O!Rejections
              /\ calls[k].mutations = O!Cardinality(O!Mutations(k))
         /\ O!Cardinality(O!Entries(k)) = IF O!Ended(k) THEN 1 ELSE 0
<1>. DEFINE c == calls[k]
            mine == MineIn(store, k)
            m == Cardinality(MutationsIn(txlog, k))
<1>1. CallSound(c, mine, m, Cardinality(EntriesIn(completed, k))) /\ c \in CallRecord
  BY DEF OrchestrationInv, OrchestrationTypes
<1>2. Reported(c, mine, m) /\ Closed(c, Cardinality(EntriesIn(completed, k)))
  BY <1>1 DEF CallSound
<1>3. O!Mine(k) = mine
  BY SameOperators DEF O!Mine, MineIn, EventTypes
<1>4. O!Cardinality(O!Mutations(k)) = m
  <2>1. DOMAIN txlog = 1..Len(txlog)
    BY DEF OrchestrationInv, LogsSound
  <2>2. O!Mutations(k) = MutationsIn(txlog, k)
    BY <2>1 DEF O!Mutations, MutationsIn
  <2>. QED  BY <2>2, SameOperators
<1>5. O!Cardinality(O!Entries(k)) = Cardinality(EntriesIn(completed, k))
  <2>1. DOMAIN completed = 1..Len(completed)
    BY DEF OrchestrationInv, OrchestrationTypes
  <2>2. O!Entries(k) = EntriesIn(completed, k)
    BY <2>1 DEF O!Entries, EntriesIn
  <2>. QED  BY <2>2, SameOperators
<1>6. O!Ended(k) <=> c.status # "RUNNING"
  BY DEF O!Ended
<1>. HIDE DEF c, mine, m
<1>7. /\ mine \in Seq(Stored) /\ Len(mine) = c.at /\ DOMAIN mine = 1..c.at /\ c.plan \in Seq(PlanStep)
      /\ c.at \in 1..Len(c.plan) /\ c.step \in {"COMPLETED", "FAILED"} /\ Len(c.plan) \in Nat
      /\ O!Last(mine) = mine[c.at]
  BY <1>2, SameOperators DEF Reported
<1>8. ASSUME NEW n \in DOMAIN mine
      PROVE  \/ mine[n].type = O!EventType(c.plan[n].type)
             \/ mine[n].type \in O!Rejections /\ n = c.at /\ c.step = "FAILED"
  <2>1. CASE n = c.at
    BY <1>2, <1>7, <2>1 DEF Reported
  <2>2. CASE n # c.at
    <3>1. n \in 1..(c.at - 1)
      BY <1>7, <2>2
    <3>. QED  BY <1>2, <3>1 DEF Reported
  <2>. QED  BY <2>1, <2>2
<1>9. c.status = "FAILED" => mine[c.at].type \in O!Rejections
  BY <1>2 DEF Reported, Closed
<1>10. ASSUME c.status = "COMPLETED"
       PROVE  Len(mine) = Len(c.plan) /\ mine[c.at].type \notin O!Rejections /\ c.mutations = m
  <2>1. c.step = "COMPLETED" /\ c.at = Len(c.plan)
    BY <1>2, <1>7, <1>10 DEF Closed
  <2>2. mine[c.at].type \notin O!Rejections
    BY <1>2, <2>1, EventTypesApart DEF Reported
  <2>3. c.mutations = m
    BY <1>2, <1>10, <2>1 DEF Reported, Closed
  <2>. QED  BY <1>7, <2>1, <2>2, <2>3
<1>11. Cardinality(EntriesIn(completed, k)) = IF c.status # "RUNNING" THEN 1 ELSE 0
  BY <1>2 DEF Closed
<1>. QED  BY <1>3, <1>4, <1>5, <1>6, <1>7, <1>8, <1>9, <1>10, <1>11 DEF c

LEMMA OrchestrationSays == OrchestrationInv => O!TypeOK /\ O!WorkflowsMatchStore /\ O!LogFollowsChain
<1>. SUFFICES ASSUME OrchestrationInv PROVE O!TypeOK /\ O!WorkflowsMatchStore /\ O!LogFollowsChain
  OBVIOUS
<1>0. OrchestrationTypes /\ LogsSound(store, txlog)
  BY DEF OrchestrationInv
<1>1. DOMAIN store = 1..Len(store) /\ DOMAIN txlog = 1..Len(txlog) /\ DOMAIN completed = 1..Len(completed)
      /\ Len(store) \in Nat /\ store \in Seq(Stored)
  BY <1>0 DEF OrchestrationTypes, LogsSound
<1>2. O!TypeOK
  <2>1. \A i \in Intents : intents[i] # None => intents[i].status \in {"PENDING", "VALIDATED", "REJECTED"}
    BY <1>0 DEF OrchestrationTypes, IntentRecord
  <2>2. \A k \in Calls : calls[k] # None => calls[k].status \in {"RUNNING", "COMPLETED", "FAILED"}
    BY <1>0 DEF OrchestrationTypes, CallRecord
  <2>3. \A i \in Intents : workflows[i] \in Calls \cup {None}
    BY <1>0 DEF OrchestrationTypes
  <2>4. ASSUME NEW n \in DOMAIN store PROVE store[n].call \in Calls
    <3>1. store[n] \in Stored
      BY <1>1
    <3>. QED  BY <3>1 DEF Stored, O!EventsOf
  <2>5. O!Range(completed) \subseteq Calls
    BY <1>0, <1>1 DEF O!Range, OrchestrationTypes
  <2>. QED  BY <1>0, <2>1, <2>2, <2>3, <2>4, <2>5 DEF O!TypeOK, OrchestrationTypes
<1>3. O!WorkflowsMatchStore
  BY CallTellsTrue, Zenon DEF O!WorkflowsMatchStore, Workflow
<1>4. O!LogFollowsChain
  <2>1. O!ValidateChain
    <3>1. ASSUME NEW n \in 2..Len(store) PROVE store[n].previous = store[n - 1].hash
      <4>1. n \in 1..Len(store) /\ n - 1 \in 1..Len(store)
        BY <1>1
      <4>. QED  BY <1>0, <4>1 DEF LogsSound, Chained
    <3>. QED  BY <3>1 DEF O!ValidateChain
  <2>2. O!Filter(store, O!EventsOf(O!Accepted, Calls)) = AcceptedIn(store)
    BY SameOperators DEF AcceptedIn
  <2>. QED  BY <1>0, <1>1, <2>1, <2>2 DEF O!LogFollowsChain, LogsSound, Agrees
<1>. QED  BY <1>2, <1>3, <1>4

-----------------------------------------------------------------------------
(***************************************************************************)
(* The layer.                                                              *)
(***************************************************************************)
LEMMA EachGoesOn ==
  LayerSpec => /\ O!Init /\ [][O!Next]_(O!vars)
               /\ D!Spec
               /\ A!Init /\ [][A!Next]_(A!vars)
<1>1. LayerInit => O!Init /\ D!Init /\ A!Init
  BY DEF LayerInit
<1>2. [LayerNext]_<<oVars, dVars, aVars>> => [O!Next]_(O!vars)
  BY DEF LayerNext, oVars, O!vars
<1>3. [LayerNext]_<<oVars, dVars, aVars>> => [D!Next]_(D!vars)
  BY DEF LayerNext, dVars, D!vars
<1>4. [LayerNext]_<<oVars, dVars, aVars>> => [A!Next]_(A!vars)
  BY DEF LayerNext, aVars, A!vars
<1>. QED  BY <1>1, <1>2, <1>3, <1>4, PTL DEF LayerSpec, D!Spec

\* Every record of the orchestration layer keeps its shape: an intent, a call, an event, a
\* request, a vault, a payment, a mission or a run is in one of the states the code names.
THEOREM TypeCorrect == LayerSpec => []TypeOK
<1>1. OrchestrationInv => O!TypeOK
  BY OrchestrationSays
<1>2. DomainsInv => D!TypeOK
  BY DomainsSay
<1>3. AgentsInv => A!TypeOK
  BY AgentsSay
<1>4. O!TypeOK /\ D!TypeOK /\ A!TypeOK => TypeOK
  BY DEF TypeOK
<1>. QED  BY <1>1, <1>2, <1>3, <1>4, EachGoesOn, OrchestrationInvariant, DomainsInvariant, AgentsInvariant, PTL

\* WorkflowEngine.execute and the coordinator: for any number of workflows, plans and
\* changes of the rules between two steps, a workflow's events are those of its plan up to
\* the step it is at, it reports the mutations the coordinator recorded and is entered once
\* among the completed; the store is one chain, and its accepted events are the
\* transaction log.
THEOREM WorkflowsTellTrue == LayerSpec => []WorkflowsFollowStore
<1>1. OrchestrationInv => WorkflowsFollowStore
  BY OrchestrationSays DEF WorkflowsFollowStore
<1>. QED  BY <1>1, EachGoesOn, OrchestrationInvariant, PTL

\* The domains: whatever amounts and pools are asked for and in whatever order, each
\* balance is what the executed requests moved, none is executed twice, no value is made
\* or lost; and a vault or payment is where the log says it is.
THEOREM DomainsTellTrue == LayerSpec => []DomainsFollowLog
<1>1. DomainsInv => DomainsFollowLog
  BY DomainsSay DEF DomainsFollowLog
<1>. QED  BY <1>1, EachGoesOn, DomainsInvariant, PTL

\* MissionRuntime and any number of executor runs on the same mission, dry or not: no step
\* is done before what it depends on, and a planned mission that completed did all of them.
THEOREM MissionsTellTrue == LayerSpec => []MissionsFollowPlan
<1>1. AgentsInv => MissionsFollowPlan
  BY AgentsSay DEF MissionsFollowPlan
<1>. QED  BY <1>1, EachGoesOn, AgentsInvariant, PTL
=============================================================================
