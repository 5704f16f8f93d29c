---------------------------- MODULE Orchestration ----------------------------
(***************************************************************************)
(* runtime/src/orchestration: the IntentEngine makes a plan for an intent, *)
(* the WorkflowEngine executes the steps of a plan one after another, and  *)
(* the TransactionCoordinator routes a step, asks the policy gateway and   *)
(* dispatches the event.  The coordinator runs without an await, so a      *)
(* step is one action; between the steps of a workflow every other         *)
(* workflow, intent and rule may change.                                   *)
(***************************************************************************)
EXTENDS Integers, FiniteSets, SequencesExt, Lists

CONSTANTS
  Intents,   \* ids of intents
  Calls,     \* ids of calls of WorkflowEngine.execute and of direct commands
  Submitted, \* what is submitted: [type, actor, amount, policy] of an intent,
  Commands,  \* and commands that reach the coordinator from elsewhere
  NoActor,
  Routes,    \* the configured routes: for a command type, whether it may mutate the ledger
  RuleSet,   \* rules that may be in force: [domain, action, actors, max]
  InitRules,
  None,
  MaxRules   \* bound on the changes of the rules

VARIABLES
  intents,   \* IntentEngine.intentStore
  calls,     \* the calls made so far, with their answers
  workflows, \* WorkflowEngine.workflows: the call whose record stands under wf_<intent>
  completed, \* WorkflowEngine.completedWorkflows
  store,     \* EventDispatcher.eventStore
  txlog,     \* TransactionCoordinator.transactionLog
  rules,     \* PolicyGateway.policyRules
  changes

vars == <<intents, calls, workflows, completed, store, txlog, rules, changes>>

Init ==
  /\ intents = [i \in Intents |-> None]
  /\ calls = [k \in Calls |-> None]
  /\ workflows = [i \in Intents |-> None]
  /\ completed = <<>> /\ store = <<>> /\ txlog = <<>>
  /\ rules = InitRules /\ changes = 0

-----------------------------------------------------------------------------
(***************************************************************************)
(* Intents.                                                                *)
(***************************************************************************)
Step(type, domain) == [type |-> type, domain |-> domain]

Plan(type) ==
  IF type \in {"CREATE_VAULT_INTENT", "OPEN_VAULT"} THEN <<Step("OPEN_VAULT", "vault")>>
  ELSE IF type = "LOCK_VAULT" THEN <<Step("LOCK_VAULT", "vault")>>
  ELSE IF type = "CREATE_ALLOCATION_REQUEST" THEN
         <<Step("CREATE_ALLOCATION_REQUEST", "treasury"), Step("APPROVE_ALLOCATION", "treasury"),
           Step("EXECUTE_ALLOCATION", "treasury")>>
  ELSE IF type = "CREATE_PAYMENT_INTENT" THEN
         <<Step("CREATE_PAYMENT_INTENT", "payment"), Step("AUTHORIZE_PAYMENT", "payment"),
           Step("EXECUTE_INTERNAL_SETTLEMENT", "payment")>>
  ELSE <<Step(type, "intent")>>

\* x.policy: the context is given, or the engine does not require one
SubmitIntent(i, x) ==
  /\ intents[i] = None
  /\ intents' = [intents EXCEPT ![i] = [type |-> x.type, actor |-> x.actor, amount |-> x.amount,
                                        policy |-> x.policy, status |-> "PENDING", plan |-> <<>>]]
  /\ UNCHANGED <<calls, workflows, completed, store, txlog, rules, changes>>

\* An amount None stands for the empty payload.
Valid(x) == x.actor # NoActor /\ x.amount # None /\ x.policy

\* A rejected intent keeps the plan it has, that is none.
Validate(i) ==
  /\ intents[i] # None
  /\ intents' = [intents EXCEPT
       ![i].status = IF Valid(intents[i]) THEN "VALIDATED" ELSE "REJECTED",
       ![i].plan   = IF Valid(intents[i]) THEN Plan(intents[i].type) ELSE @]
  /\ UNCHANGED <<calls, workflows, completed, store, txlog, rules, changes>>

-----------------------------------------------------------------------------
(***************************************************************************)
(* The coordinator.  A command is [type, domain, actor, amount, auth].     *)
(***************************************************************************)
Mutates(c) == c.type \in DOMAIN Routes /\ Routes[c.type]

\* A route that may mutate the ledger and the authorization to do so go together.
Routed(c) == c.auth # "" /\ (Mutates(c) <=> c.auth = "LEDGER_MUTATION_AUTHORIZED")

\* evaluateRule: the conditions the configured rules name hold of every command.
RuleFails(r, c) ==
  \/ r.actors # {} /\ c.actor \notin r.actors
  \/ r.max # 0 /\ c.amount > r.max

Refused(c) ==
  \E r \in rules : r.domain \in {c.domain, "all"} /\ RuleFails(r, c) /\ r.action \in {"DENY", "ESCALATE"}

EventOf ==
  [CREATE_VAULT_INTENT         |-> "VaultIntentCreated",
   OPEN_VAULT                  |-> "VaultCreated",
   LOCK_VAULT                  |-> "VaultLocked",
   RELEASE_VAULT               |-> "VaultReleased",
   CREATE_ALLOCATION_REQUEST   |-> "TreasuryIntentCreated",
   APPROVE_ALLOCATION          |-> "TreasuryApproved",
   EXECUTE_ALLOCATION          |-> "TreasuryAllocationExecuted",
   VERIFY_BALANCE              |-> "TreasuryBalanceVerified",
   CREATE_PAYMENT_INTENT       |-> "PaymentIntentCreated",
   AUTHORIZE_PAYMENT           |-> "PaymentAuthorized",
   EXECUTE_INTERNAL_SETTLEMENT |-> "PaymentSettled",
   VERIFY_PAYMENT_STATE        |-> "PaymentStateVerified"]

EventType(type) == IF type \in DOMAIN EventOf THEN EventOf[type] ELSE "UnknownCommandExecuted"

Rejections == {"CommandRejected", "PolicyRejected"}
Accepted   == {EventType(type) : type \in DOMAIN EventOf} \cup {"UnknownCommandExecuted"}

Outcome(c) ==
  IF ~Routed(c) THEN "CommandRejected" ELSE IF Refused(c) THEN "PolicyRejected" ELSE EventType(c.type)

\* A hash stands for the place its event is dispatched at; 0 is the hash of zeros.
\* A seeded fault: the first event is taken for the last one.
LastHashFirst(s) == IF s = <<>> THEN 0 ELSE Head(s).hash
LastHash(s) == IF s = <<>> THEN 0 ELSE Last(s).hash

Event(k, c) == [type |-> Outcome(c), call |-> k, previous |-> LastHash(store), hash |-> Len(store) + 1]

Transactions(k, c) ==
  IF Routed(c) /\ ~Refused(c)
    THEN Append(txlog, [call |-> k, type |-> c.type,
                        mutation |-> Mutates(c) /\ c.auth = "LEDGER_MUTATION_AUTHORIZED"])
    ELSE txlog

ExecuteCommand(k, c) ==
  /\ store' = Append(store, Event(k, c))
  /\ txlog' = Transactions(k, c)

Answer(c) == IF Routed(c) /\ ~Refused(c) THEN "COMPLETED" ELSE "FAILED"

\* A command that reaches the coordinator from elsewhere, an agent for instance.
Direct(k, c) ==
  /\ calls[k] = None
  /\ calls' = [calls EXCEPT ![k] = [intent |-> None, plan |-> <<c>>, at |-> 1, step |-> Answer(c),
                                    status |-> Answer(c), mutations |-> None]]
  /\ ExecuteCommand(k, c)
  /\ UNCHANGED <<intents, workflows, completed, rules, changes>>

-----------------------------------------------------------------------------
(***************************************************************************)
(* The workflow engine.  A call holds the steps it iterates over, the step *)
(* it is at and the answer to it.                                          *)
(***************************************************************************)
LedgerStep(s)     == s.domain \in {"treasury", "payment"}
LedgerSteps(plan) == {n \in DOMAIN plan : LedgerStep(plan[n])}

Command(i, s) ==
  [type |-> s.type, domain |-> s.domain, actor |-> intents[i].actor, amount |-> intents[i].amount,
   auth |-> IF LedgerStep(s) THEN "LEDGER_MUTATION_AUTHORIZED" ELSE "READ_ONLY"]

Unplanned(k, i) ==
  /\ calls[k] = None /\ intents[i] # None /\ intents[i].plan = <<>>
  /\ calls' = [calls EXCEPT ![k] = [intent |-> i, plan |-> <<>>, at |-> 0, step |-> None,
                                    status |-> "FAILED", mutations |-> 0]]
  /\ UNCHANGED <<intents, workflows, completed, store, txlog, rules, changes>>

\* execute up to the first await: the record is set and the first step is executed.
Start(k, i) ==
  /\ calls[k] = None /\ intents[i] # None /\ intents[i].plan # <<>>
  /\ LET c == Command(i, Head(intents[i].plan)) IN
       /\ calls' = [calls EXCEPT ![k] = [intent |-> i, plan |-> intents[i].plan, at |-> 1, step |-> Answer(c),
                                         status |-> "RUNNING", mutations |-> 0]]
       /\ ExecuteCommand(k, c)
  /\ workflows' = [workflows EXCEPT ![i] = k]
  /\ UNCHANGED <<intents, completed, rules, changes>>

More(k)   == calls[k].step = "COMPLETED" /\ calls[k].at < Len(calls[k].plan)

NextStep(k) ==
  /\ calls[k] # None /\ calls[k].status = "RUNNING" /\ More(k)
  /\ LET c == Command(calls[k].intent, calls[k].plan[calls[k].at + 1]) IN
       /\ calls' = [calls EXCEPT ![k].at = @ + 1, ![k].step = Answer(c)]
       /\ ExecuteCommand(k, c)
  /\ UNCHANGED <<intents, workflows, completed, rules, changes>>

\* A seeded fault: a workflow whose step failed is left RUNNING.
EndOfCompleted(k) ==
  /\ calls[k] # None /\ calls[k].status = "RUNNING" /\ ~More(k) /\ calls[k].step = "COMPLETED"
  /\ calls' = [calls EXCEPT
       ![k].status = "COMPLETED", ![k].mutations = Cardinality(LedgerSteps(calls[k].plan))]
  /\ completed' = Append(completed, k)
  /\ UNCHANGED <<intents, workflows, store, txlog, rules, changes>>

End(k) ==
  /\ calls[k] # None /\ calls[k].status = "RUNNING" /\ ~More(k)
  /\ calls' = [calls EXCEPT
       ![k].status    = calls[k].step,
       ![k].mutations = IF calls[k].step = "COMPLETED" THEN Cardinality(LedgerSteps(calls[k].plan)) ELSE 0]
  /\ completed' = Append(completed, k)
  /\ UNCHANGED <<intents, workflows, store, txlog, rules, changes>>

\* addRule and removeRule
ChangeRules(r) ==
  /\ changes < MaxRules /\ changes' = changes + 1
  /\ rules' = (rules \ {r}) \cup ({r} \ rules)
  /\ UNCHANGED <<intents, calls, workflows, completed, store, txlog>>

Next ==
  \/ \E i \in Intents, x \in Submitted : SubmitIntent(i, x)
  \/ \E i \in Intents : Validate(i)
  \/ \E k \in Calls, c \in Commands : Direct(k, c)
  \/ \E k \in Calls, i \in Intents : Unplanned(k, i) \/ Start(k, i)
  \/ \E k \in Calls : NextStep(k) \/ End(k)
  \/ \E r \in RuleSet : ChangeRules(r)

\* A promise of the engine that is due is run by the event loop.
Fairness == \A k \in Calls : WF_vars(NextStep(k) \/ End(k))
Spec == Init /\ [][Next]_vars /\ Fairness

-----------------------------------------------------------------------------
TypeOK ==
  /\ \A i \in Intents : intents[i] # None => intents[i].status \in {"PENDING", "VALIDATED", "REJECTED"}
  /\ \A k \in Calls : calls[k] # None => calls[k].status \in {"RUNNING", "COMPLETED", "FAILED"}
  /\ \A i \in Intents : workflows[i] \in Calls \cup {None}
  /\ \A n \in DOMAIN store : store[n].call \in Calls
  /\ Range(completed) \subseteq Calls /\ rules \subseteq RuleSet \cup InitRules /\ changes \in 0..MaxRules

Ended(k)   == calls[k] # None /\ calls[k].status # "RUNNING"

(***************************************************************************)
(* Whatever runs between its steps, the events of a workflow are those of  *)
(* its plan in order, up to the step it is at; a failed one ends with the  *)
(* rejection of that step and a completed one is whole; the mutations it   *)
(* reports, which WorkflowEngine.execute counts from the plan, are those   *)
(* the coordinator recorded; and it is entered once among the completed.   *)
(***************************************************************************)
EventsOf(types, ks) == [type : types, call : ks, previous : Nat, hash : Nat]
Mine(k)      == Filter(store, EventsOf(Accepted \cup Rejections, {k}))
Mutations(k) == {n \in DOMAIN txlog : txlog[n].call = k /\ txlog[n].mutation}
Entries(k)   == {n \in DOMAIN completed : completed[n] = k}

WorkflowsMatchStore ==
  \A k \in Calls : calls[k] # None /\ calls[k].intent # None /\ calls[k].plan # <<>> =>
    LET mine == Mine(k) IN
    /\ Len(mine) = calls[k].at
    /\ \A n \in DOMAIN mine :
         \/ mine[n].type = EventType(calls[k].plan[n].type)
         \/ mine[n].type \in Rejections /\ n = calls[k].at /\ calls[k].step = "FAILED"
    /\ calls[k].status = "FAILED" => Last(mine).type \in Rejections
    /\ calls[k].status = "COMPLETED" =>
         /\ Len(mine) = Len(calls[k].plan) /\ Last(mine).type \notin Rejections
         /\ calls[k].mutations = Cardinality(Mutations(k))
    /\ Cardinality(Entries(k)) = IF Ended(k) THEN 1 ELSE 0

(***************************************************************************)
(* validateChain of the dispatcher finds no broken link, and the           *)
(* transaction log holds exactly the commands whose event is not a         *)
(* rejection, in the order of their events.                                *)
(***************************************************************************)
ValidateChain == \A n \in 2..Len(store) : store[n].previous = store[n - 1].hash
LogFollowsChain ==
  LET accepted == Filter(store, EventsOf(Accepted, Calls))
  IN /\ ValidateChain
     /\ Len(txlog) = Len(accepted)
     /\ \A n \in DOMAIN txlog : txlog[n].call = accepted[n].call /\ EventType(txlog[n].type) = accepted[n].type

(***************************************************************************)
(* Every call of execute is answered, whatever rules change meanwhile.     *)
(***************************************************************************)
EveryWorkflowEnds == \A k \in Calls : (calls[k] # None) ~> Ended(k)
=============================================================================
