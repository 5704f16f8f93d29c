------------------------------- MODULE Domains -------------------------------
(***************************************************************************)
(* runtime/src/orchestration/domains: treasury pools and allocations,      *)
(* vaults, payments, and the agents with their missions.  Each is a store  *)
(* with methods that any caller may call in any order; each keeps a log of *)
(* its events.  The coordinator does not call them: who executes a command *)
(* calls the domain beside it.                                             *)
(***************************************************************************)
EXTENDS Integers, FiniteSets, SequencesExt, Lists

CONSTANTS
  Requests, Vaults, Payments, Agents, Missions,  \* ids
  Payloads,                   \* the requests: [from, to, amount]
  Reserve, Operating,         \* the two pools that exist
  InitReserve,                \* 1000000 in the code
  Steps,                      \* number of steps of a mission
  None,
  MaxLog                      \* bound on the entries of the log

VARIABLES
  balance,     \* of the pools that exist
  allocations, vaults, payments, agents, missions,
  log          \* the events of the four logs, in their order

vars == <<balance, allocations, vaults, payments, agents, missions, log>>

Init ==
  /\ balance = [q \in {Reserve, Operating} |-> IF q = Reserve THEN InitReserve ELSE 0]
  /\ allocations = [r \in Requests |-> None]
  /\ vaults = [v \in Vaults |-> None]
  /\ payments = [p \in Payments |-> None]
  /\ agents = [a \in Agents |-> None]
  /\ missions = [m \in Missions |-> None]
  /\ log = <<>>

Log(event, id) == Len(log) < MaxLog /\ log' = Append(log, [event |-> event, id |-> id])
Quiet == UNCHANGED log

-----------------------------------------------------------------------------
\* The treasury.
CreateAllocation(r, x) ==
  /\ allocations[r] = None
  /\ allocations' = [allocations EXCEPT ![r] = [from |-> x.from, to |-> x.to, amount |-> x.amount, status |-> "PENDING"]]
  /\ Log("TreasuryIntentCreated", r)
  /\ UNCHANGED <<balance, vaults, payments, agents, missions>>

ApproveAllocation(r) ==
  /\ allocations[r] # None /\ allocations[r].status = "PENDING"
  /\ allocations' = [allocations EXCEPT ![r].status = "APPROVED"]
  /\ Log("TreasuryApproved", r)
  /\ UNCHANGED <<balance, vaults, payments, agents, missions>>

\* The pools are the same object when a request names one pool twice.
Moved(a) ==
  LET debited == [balance EXCEPT ![a.from] = @ - a.amount]
  IN  [debited EXCEPT ![a.to] = @ + a.amount]

Known(a) == {a.from, a.to} \subseteq DOMAIN balance

ExecuteAllocation(r) ==
  /\ allocations[r] # None /\ allocations[r].status = "APPROVED" /\ Known(allocations[r])
  /\ LET a == allocations[r] IN
       IF balance[a.from] < a.amount
         THEN /\ allocations' = [allocations EXCEPT ![r].status = "REJECTED"]
              /\ Quiet /\ UNCHANGED balance
         ELSE /\ allocations' = [allocations EXCEPT ![r].status = "EXECUTED"]
              /\ balance' = Moved(a)
              /\ Log("TreasuryAllocationExecuted", r)
  /\ UNCHANGED <<vaults, payments, agents, missions>>

-----------------------------------------------------------------------------
\* The vaults.  A vault may be opened again in any state.
OpenVault(v) ==
  /\ vaults' = [vaults EXCEPT ![v] = "ACTIVE"]
  /\ Len(log) < MaxLog - 1
  /\ log' = log \o <<[event |-> "VaultCreated", id |-> v], [event |-> "VaultActivated", id |-> v]>>
  /\ UNCHANGED <<balance, allocations, payments, agents, missions>>

LockVault(v) ==
  /\ vaults[v] = "ACTIVE" /\ vaults' = [vaults EXCEPT ![v] = "LOCKED"] /\ Log("VaultLocked", v)
  /\ UNCHANGED <<balance, allocations, payments, agents, missions>>

ReleaseVault(v) ==
  /\ vaults[v] = "LOCKED" /\ vaults' = [vaults EXCEPT ![v] = "RELEASED"] /\ Log("VaultReleased", v)
  /\ UNCHANGED <<balance, allocations, payments, agents, missions>>

\* The payments.
CreatePayment(p) ==
  /\ payments[p] = None /\ payments' = [payments EXCEPT ![p] = "INTENT_CREATED"] /\ Log("PaymentIntentCreated", p)
  /\ UNCHANGED <<balance, allocations, vaults, agents, missions>>

AuthorizePayment(p) ==
  /\ payments[p] = "INTENT_CREATED" /\ payments' = [payments EXCEPT ![p] = "AUTHORIZED"] /\ Log("PaymentAuthorized", p)
  /\ UNCHANGED <<balance, allocations, vaults, agents, missions>>

\* A seeded fault: a payment is settled before it is authorized.
MaySettleEarly(p) == payments[p] \in {"INTENT_CREATED", "AUTHORIZED"}
MaySettle(p) == payments[p] = "AUTHORIZED"
SettlePayment(p) ==
  /\ MaySettle(p) /\ payments' = [payments EXCEPT ![p] = "SETTLED"] /\ Log("PaymentSettled", p)
  /\ UNCHANGED <<balance, allocations, vaults, agents, missions>>

\* verifyState and verifyBalance log that they were asked.
Verify(event, id) ==
  /\ Log(event, id) /\ UNCHANGED <<balance, allocations, vaults, payments, agents, missions>>

-----------------------------------------------------------------------------
\* The agents.  Registering one again resets its counters.
RegisterAgent(a) ==
  /\ agents' = [agents EXCEPT ![a] = [completed |-> 0]] /\ Log("AgentRegistered", a)
  /\ UNCHANGED <<balance, allocations, vaults, payments, missions>>

SubmitMission(m, a) ==
  /\ missions[m] = None
  /\ missions' = [missions EXCEPT ![m] = [agent |-> a, status |-> "PENDING"]] /\ Log("AgentMissionCreated", m)
  /\ UNCHANGED <<balance, allocations, vaults, payments, agents>>

\* Any step may be executed at any time, and again: the last one completes the mission.
ExecuteMissionStep(m, n) ==
  /\ missions[m] # None /\ agents[missions[m].agent] # None
  /\ LET done == n = Steps - 1 IN
       /\ missions' = [missions EXCEPT ![m].status = IF done THEN "COMPLETED" ELSE "RUNNING"]
       /\ agents' = [agents EXCEPT ![missions[m].agent].completed = IF done THEN @ + 1 ELSE @]
       /\ Len(log) < MaxLog - 1
       /\ log' = log \o <<[event |-> "AgentStepExecuted", id |-> m]>>
                     \o (IF done THEN <<[event |-> "AgentMissionCompleted", id |-> m]>> ELSE <<>>)
  /\ UNCHANGED <<balance, allocations, vaults, payments>>

TreasuryNext ==
  \/ \E r \in Requests, x \in Payloads : CreateAllocation(r, x)
  \/ \E r \in Requests : ApproveAllocation(r) \/ ExecuteAllocation(r)
  \/ Verify("TreasuryBalanceVerified", Reserve)
VaultNext ==
  \E v \in Vaults : OpenVault(v) \/ LockVault(v) \/ ReleaseVault(v) \/ Verify("VaultStateVerified", v)
PaymentNext ==
  \E p \in Payments : \/ CreatePayment(p) \/ AuthorizePayment(p) \/ SettlePayment(p)
                      \/ Verify("PaymentStateVerified", p)
AgentNext ==
  \/ \E a \in Agents : RegisterAgent(a) \/ \E m \in Missions : SubmitMission(m, a)
  \/ \E m \in Missions, n \in 0..Steps - 1 : ExecuteMissionStep(m, n)

Next == TreasuryNext \/ VaultNext \/ PaymentNext \/ AgentNext

Spec == Init /\ [][Next]_vars

-----------------------------------------------------------------------------
TypeOK ==
  /\ DOMAIN balance = {Reserve, Operating}
  /\ \A q \in DOMAIN balance : balance[q] \in Int
  /\ \A r \in Requests : allocations[r] # None =>
       allocations[r].status \in {"PENDING", "APPROVED", "EXECUTED", "REJECTED"}
  /\ \A v \in Vaults : vaults[v] \in {None, "ACTIVE", "LOCKED", "RELEASED"}
  /\ \A p \in Payments : payments[p] \in {None, "INTENT_CREATED", "AUTHORIZED", "SETTLED"}

Executions(r) == {n \in DOMAIN log : log[n].event = "TreasuryAllocationExecuted" /\ log[n].id = r}
Executed(r)   == allocations[r] # None /\ allocations[r].status = "EXECUTED"

\* What an allocation brings to pool q, and what each entry of the log brought.
Gain(a, q) == (IF a.to = q THEN a.amount ELSE 0) - (IF a.from = q THEN a.amount ELSE 0)
Gains(q) ==
  [n \in DOMAIN log |-> IF log[n].event = "TreasuryAllocationExecuted" THEN Gain(allocations[log[n].id], q) ELSE 0]

(***************************************************************************)
(* The pools hold what the executed requests moved, each once, also when   *)
(* a request names one pool twice or an amount below zero: nothing is made *)
(* or lost, whatever requests are approved, executed or refused between.   *)
(***************************************************************************)
BalancesMatchAllocations ==
  /\ \A q \in DOMAIN balance : balance[q] = (IF q = Reserve THEN InitReserve ELSE 0) + Total(Gains(q))
  /\ balance[Reserve] + balance[Operating] = InitReserve
  /\ \A r \in Requests : Cardinality(Executions(r)) = IF Executed(r) THEN 1 ELSE 0

(***************************************************************************)
(* The log of a domain tells its state: a vault and a payment are where    *)
(* the last event that moved them left them, a payment went through each   *)
(* state once.                                                             *)
(***************************************************************************)
VaultStates == [VaultActivated |-> "ACTIVE", VaultLocked |-> "LOCKED", VaultReleased |-> "RELEASED"]
PaymentStates ==
  [PaymentIntentCreated |-> "INTENT_CREATED", PaymentAuthorized |-> "AUTHORIZED", PaymentSettled |-> "SETTLED"]

Entry(event, id)  == [event |-> event, id |-> id]
Moves(id, states) == Filter(log, [event : DOMAIN states, id : {id}])
Told(id, states)  == IF Moves(id, states) = <<>> THEN None ELSE states[Last(Moves(id, states)).event]

StateFollowsLog ==
  /\ \A v \in Vaults : vaults[v] = Told(v, VaultStates)
  /\ \A p \in Payments :
       /\ payments[p] = Told(p, PaymentStates)
       /\ Moves(p, PaymentStates)
            \in {<<>>,
                 <<Entry("PaymentIntentCreated", p)>>,
                 <<Entry("PaymentIntentCreated", p), Entry("PaymentAuthorized", p)>>,
                 <<Entry("PaymentIntentCreated", p), Entry("PaymentAuthorized", p), Entry("PaymentSettled", p)>>}
=============================================================================
