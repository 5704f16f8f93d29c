------------------------- MODULE OrchestrationLayer -------------------------
(***************************************************************************)
(* Orchestration, Domains and Agents together.  They share no state, in    *)
(* the code as here: the coordinator does not call the domains, and the    *)
(* agents hand their commands to nobody.  So each goes on whatever the     *)
(* others do.                                                              *)
(***************************************************************************)
EXTENDS Integers, Sequences

CONSTANTS
  None, NoActor,
  Intents, Calls, Submitted, Commands, Routes, RuleSet, InitRules, MaxRules,       \* of Orchestration
  Requests, Vaults, Payments, AgentIds, Payloads, Reserve, Operating, InitReserve, \* of Domains
  MissionSteps, MaxLog,
  Goals, Missions, Runs, Objectives, Permissions, StepLists                        \* of Agents

VARIABLES
  intents, calls, workflows, completed, store, txlog, rules, changes,
  balance, allocations, vaults, payments, agents, agentMissions, log,
  goals, missions, runs

O == INSTANCE Orchestration
D == INSTANCE Domains WITH Agents <- AgentIds, Steps <- MissionSteps, missions <- agentMissions
A == INSTANCE Agents WITH Intents <- Goals, intents <- goals

oVars == <<intents, calls, workflows, completed, store, txlog, rules, changes>>
dVars == <<balance, allocations, vaults, payments, agents, agentMissions, log>>
aVars == <<goals, missions, runs>>

LayerInit == O!Init /\ D!Init /\ A!Init
LayerNext ==
  \/ O!Next /\ UNCHANGED <<dVars, aVars>>
  \/ D!Next /\ UNCHANGED <<oVars, aVars>>
  \/ A!Next /\ UNCHANGED <<oVars, dVars>>

LayerSpec == LayerInit /\ [][LayerNext]_<<oVars, dVars, aVars>> /\ O!Fairness /\ A!Fairness

-----------------------------------------------------------------------------
(***************************************************************************)
(* What the constants are: a request names any pools and any amount, and   *)
(* None is none of the values it stands beside.                            *)
(***************************************************************************)
CommandTypes == {x.type : x \in Submitted} \cup {c.type : c \in Commands} \cup DOMAIN O!EventOf
PlanStep     == [type : CommandTypes, domain : {"vault", "treasury", "payment", "intent"}]
IntentRecord ==
  [type : CommandTypes, actor : {x.actor : x \in Submitted}, amount : {x.amount : x \in Submitted},
   policy : {x.policy : x \in Submitted}, status : {"PENDING", "VALIDATED", "REJECTED"}, plan : Seq(PlanStep)]
CallRecord ==
  [intent : Intents \cup {None}, plan : Seq(PlanStep \cup Commands), at : Nat,
   step : {"COMPLETED", "FAILED"} \cup {None}, status : {"RUNNING", "COMPLETED", "FAILED"},
   mutations : Nat \cup {None}]

ASSUME OrchestrationAssumption ==
  None \notin Intents /\ None \notin IntentRecord /\ None \notin CallRecord /\ MaxRules \in Nat

Pools       == {x.from : x \in Payloads} \cup {x.to : x \in Payloads}
Allocation  == [from : Pools, to : Pools, amount : Int, status : {"PENDING", "APPROVED", "EXECUTED", "REJECTED"}]
VaultPlace   == {"ACTIVE", "LOCKED", "RELEASED"}
PaymentPlace == {"INTENT_CREATED", "AUTHORIZED", "SETTLED"}

ASSUME DomainsAssumption ==
  /\ Reserve # Operating /\ InitReserve \in Int
  /\ \A x \in Payloads : x.amount \in Int
  /\ None \notin Allocation /\ None \notin VaultPlace \cup PaymentPlace

StepTypes ==
  {"CREATE_VAULT_INTENT", "OPEN_VAULT", "LOCK_VAULT", "CREATE_ALLOCATION_REQUEST", "APPROVE_ALLOCATION",
   "EXECUTE_ALLOCATION", "CREATE_PAYMENT_INTENT", "AUTHORIZE_PAYMENT"}
    \cup UNION {{steps[n].type : n \in DOMAIN steps} : steps \in StepLists}
StepDomains == {"vault", "treasury", "payment"} \cup UNION {{steps[n].domain : n \in DOMAIN steps} : steps \in StepLists}
StepStatus  == {"PENDING", "COMPLETED", "FAILED"}
StepsOf(status) == [id : Nat, type : StepTypes, domain : StepDomains, needs : SUBSET Nat, status : status]
MissionStep == StepsOf(StepStatus)
Mission     == [intent : Goals, steps : Seq(MissionStep), status : {"CREATED", "COMPLETED", "FAILED"},
                planned : BOOLEAN, dry : BOOLEAN]
Run         == [mission : Missions, dry : BOOLEAN, done : Nat, at : Nat]
Goal        == [words : Objectives, stated : BOOLEAN, status : {"PENDING", "VALIDATED", "REJECTED"},
                type : {"VAULT_LIFECYCLE", "TREASURY_ALLOCATION", "PAYMENT_SIMULATION", "GENERIC_WORKFLOW"} \cup {None},
                risk : {"LOW", "MEDIUM", "HIGH"} \cup {None}]

\* No step that a caller hands over has run.
ASSUME AgentsAssumption ==
  /\ StepLists \subseteq Seq(StepsOf({"PENDING"}))
  /\ None \notin Mission /\ None \notin Run /\ None \notin Goal

-----------------------------------------------------------------------------
(***************************************************************************)
(* The types of the three.                                                 *)
(***************************************************************************)
TypeOK == O!TypeOK /\ D!TypeOK /\ A!TypeOK

(***************************************************************************)
(* WorkflowEngine and TransactionCoordinator: each workflow left in the    *)
(* event store the steps it reports, and the store is one chain whose      *)
(* accepted commands are the transaction log.                              *)
(***************************************************************************)
WorkflowsFollowStore == O!WorkflowsMatchStore /\ O!LogFollowsChain

(***************************************************************************)
(* The domains: no value is made or lost by allocations, and every state   *)
(* is what the domain's log tells.                                         *)
(***************************************************************************)
DomainsFollowLog == D!BalancesMatchAllocations /\ D!StateFollowsLog

(***************************************************************************)
(* MissionRuntime and MissionExecutor on one mission: no step is done      *)
(* before what it depends on, and a planned mission that completed is      *)
(* whole.                                                                  *)
(***************************************************************************)
MissionsFollowPlan == A!DependenciesRespected /\ A!PlannedCompletedDidAll

(***************************************************************************)
(* Every workflow and every executor run ends.                             *)
(***************************************************************************)
EverythingEnds == O!EveryWorkflowEnds /\ A!EveryRunEnds
=============================================================================
