------------------------------- MODULE Agents -------------------------------
(***************************************************************************)
(* runtime/src/agent: an agent's intent is classified, a plan of dependent *)
(* steps is made of it, and a mission of those steps is run by the         *)
(* MissionRuntime, in one go, or by a MissionExecutor, which waits at each *)
(* step.  Both work on the same mission object, at the same time if they   *)
(* are called so.                                                          *)
(***************************************************************************)
EXTENDS Integers, Sequences

CONSTANTS
  Intents, Missions, Runs,   \* ids of intents, missions and executor runs
  Objectives,                \* objectives, each the set of the words the engine looks for
  Permissions,               \* [create_intent, create_command] of the agents
  StepLists,                 \* lists of steps callers hand to createMission themselves
  None

VARIABLES
  intents,   \* IntentEngine.intentStore
  missions,  \* MissionRuntime.missions
  runs       \* executor runs under way and over

vars == <<intents, missions, runs>>

Init ==
  /\ intents = [i \in Intents |-> None]
  /\ missions = [m \in Missions |-> None]
  /\ runs = [x \in Runs |-> None]

-----------------------------------------------------------------------------
(***************************************************************************)
(* Intents.                                                                *)
(***************************************************************************)
Classify(words) ==
  IF words \cap {"vault", "lock", "release"} # {} THEN "VAULT_LIFECYCLE"
  ELSE IF words \cap {"treasury", "allocation", "reserve"} # {} THEN "TREASURY_ALLOCATION"
  ELSE IF words \cap {"payment", "settlement", "transfer"} # {} THEN "PAYMENT_SIMULATION"
  ELSE "GENERIC_WORKFLOW"

AssessRisk(words) ==
  IF words \cap {"transfer", "payment", "settlement"} # {} THEN "HIGH"
  ELSE IF words \cap {"allocation", "treasury"} # {} THEN "MEDIUM"
  ELSE "LOW"

\* stated: the objective, the actor and, where they are required, the constraints are there
CreateIntent(i, words, stated) ==
  /\ intents[i] = None /\ Permissions.create_intent = "ALLOWED"
  /\ intents' = [intents EXCEPT ![i] = [words |-> words, stated |-> stated, status |-> "PENDING",
                                        type |-> None, risk |-> None]]
  /\ UNCHANGED <<missions, runs>>

ValidateIntent(i) ==
  /\ intents[i] # None
  /\ LET x == intents[i] IN
       intents' = [intents EXCEPT ![i] =
         IF x.stated THEN [x EXCEPT !.status = "VALIDATED", !.type = Classify(x.words), !.risk = AssessRisk(x.words)]
         ELSE [x EXCEPT !.status = "REJECTED"]]
  /\ UNCHANGED <<missions, runs>>

\* Step n of a plan depends on the one before it.
DependsOn(n, last) == IF n = 1 THEN {} ELSE {n - 1}

Steps(types, domain) ==
  [n \in DOMAIN types |-> [id |-> n, type |-> types[n], domain |-> domain,
                           needs |-> DependsOn(n, Len(types)), status |-> "PENDING"]]

BuildSteps(class) ==
  IF class = "VAULT_LIFECYCLE" THEN Steps(<<"CREATE_VAULT_INTENT", "OPEN_VAULT", "LOCK_VAULT">>, "vault")
  ELSE IF class = "TREASURY_ALLOCATION"
    THEN Steps(<<"CREATE_ALLOCATION_REQUEST", "APPROVE_ALLOCATION", "EXECUTE_ALLOCATION">>, "treasury")
  ELSE IF class = "PAYMENT_SIMULATION" THEN Steps(<<"CREATE_PAYMENT_INTENT", "AUTHORIZE_PAYMENT">>, "payment")
  ELSE Steps(<<"CREATE_VAULT_INTENT">>, "vault")

\* The planner refuses an intent that is not validated; the engine plans any.
ClassOf(x) == IF x.type = None THEN Classify(x.words) ELSE x.type
PlannerPlan(i) == IF intents[i].status = "VALIDATED" THEN BuildSteps(ClassOf(intents[i])) ELSE None
EnginePlan(i)  == BuildSteps(ClassOf(intents[i]))

-----------------------------------------------------------------------------
(***************************************************************************)
(* Missions.                                                               *)
(***************************************************************************)
MayCreate == Permissions.create_command \in {"ALLOWED", "REQUIRES_POLICY"}

NewMission(i, steps, planned) ==
  [intent |-> i, steps |-> steps, status |-> "CREATED", planned |-> planned, dry |-> FALSE]

\* convertToMissionSteps makes steps of its own for every mission.
CreatePlanned(m, i) ==
  /\ missions[m] = None /\ intents[i] # None /\ MayCreate
  /\ \E plan \in {PlannerPlan(i), EnginePlan(i)} \ {None} :
       missions' = [missions EXCEPT ![m] = NewMission(i, plan, TRUE)]
  /\ UNCHANGED <<intents, runs>>

CreateGiven(m, i, steps) ==
  /\ missions[m] = None /\ intents[i] # None /\ MayCreate
  /\ missions' = [missions EXCEPT ![m] = NewMission(i, steps, FALSE)]
  /\ UNCHANGED <<intents, runs>>

\* A seeded fault: a dependency is met as soon as it is known.
MetKnown(steps, n) == \A d \in steps[n].needs : \E k \in DOMAIN steps : steps[k].id = d
Met(steps, n) ==
  \A d \in steps[n].needs : \E k \in DOMAIN steps : steps[k].id = d /\ steps[k].status = "COMPLETED"

Mark(steps, n, status) == [steps EXCEPT ![n].status = status]

\* MissionRuntime.executeMission has no await.
RunAll(steps) ==
  LET f[n \in 0..Len(steps)] ==
        IF n = 0 THEN steps
        ELSE LET s == f[n - 1] IN Mark(s, n, IF Met(s, n) THEN "COMPLETED" ELSE "FAILED")
  IN f[Len(steps)]

RuntimeExecute(m) ==
  /\ missions[m] # None
  /\ missions' = [missions EXCEPT ![m].steps = RunAll(@), ![m].status = "COMPLETED"]
  /\ UNCHANGED <<intents, runs>>

-----------------------------------------------------------------------------
(***************************************************************************)
(* The executor goes on to the next step whose dependencies are met and    *)
(* waits for it; those it passes have failed.                              *)
(***************************************************************************)
Advance(steps, from) ==
  LET f[n \in 0..Len(steps)] ==
        IF n < from THEN [steps |-> steps, at |-> 0]
        ELSE LET a == f[n - 1] IN
             IF a.at # 0 THEN a
             ELSE IF Met(a.steps, n) THEN [a EXCEPT !.at = n]
             ELSE [a EXCEPT !.steps = Mark(@, n, "FAILED")]
  IN f[Len(steps)]

\* A seeded fault: a mission that is neither whole nor failed gets the status of a step.
VerdictPending(steps, done, old) ==
  IF done = Len(steps) THEN "COMPLETED"
  ELSE IF \E n \in DOMAIN steps : steps[n].status = "FAILED" THEN "FAILED"
  ELSE "PENDING"
Verdict(steps, done, old) ==
  IF done = Len(steps) THEN "COMPLETED"
  ELSE IF \E n \in DOMAIN steps : steps[n].status = "FAILED" THEN "FAILED"
  ELSE old

Proceed(x, run, steps, from) ==
  LET a == Advance(steps, from) IN
    /\ runs' = [runs EXCEPT ![x] = [run EXCEPT !.at = a.at]]
    /\ missions' = [missions EXCEPT
         ![run.mission].steps  = a.steps,
         ![run.mission].status = IF a.at = 0 THEN Verdict(a.steps, run.done, @) ELSE @,
         ![run.mission].dry    = @ \/ run.dry]

Begin(x, m, dry) ==
  /\ runs[x] = None /\ missions[m] # None
  /\ Proceed(x, [mission |-> m, dry |-> dry, done |-> 0, at |-> 0], missions[m].steps, 1)
  /\ UNCHANGED intents

\* The handler has answered, 10 ms later, or a dry run went by.
StepDone(x) ==
  /\ runs[x] # None /\ runs[x].at # 0
  /\ LET run   == [runs[x] EXCEPT !.done = @ + 1]
         steps == missions[run.mission].steps
     IN Proceed(x, run, IF run.dry THEN steps ELSE Mark(steps, run.at, "COMPLETED"), run.at + 1)
  /\ UNCHANGED intents

Next ==
  \/ \E i \in Intents, w \in Objectives, s \in BOOLEAN : CreateIntent(i, w, s)
  \/ \E i \in Intents : ValidateIntent(i)
  \/ \E m \in Missions, i \in Intents : CreatePlanned(m, i) \/ \E s \in StepLists : CreateGiven(m, i, s)
  \/ \E m \in Missions : RuntimeExecute(m)
  \/ \E x \in Runs, m \in Missions, d \in BOOLEAN : Begin(x, m, d)
  \/ \E x \in Runs : StepDone(x)

\* A handler answers when its timer is due.
Fairness == \A x \in Runs : WF_vars(StepDone(x))
Spec == Init /\ [][Next]_vars /\ Fairness

-----------------------------------------------------------------------------
TypeOK ==
  /\ \A i \in Intents : intents[i] # None => intents[i].status \in {"PENDING", "VALIDATED", "REJECTED"}
  /\ \A m \in Missions : missions[m] # None =>
       /\ missions[m].status \in {"CREATED", "COMPLETED", "FAILED"}
       /\ \A n \in DOMAIN missions[m].steps : missions[m].steps[n].status \in {"PENDING", "COMPLETED", "FAILED"}
  /\ \A x \in Runs : runs[x] # None => runs[x].mission \in Missions /\ runs[x].at \in Nat

(***************************************************************************)
(* A step that completed has its dependencies completed, whatever the      *)
(* order of the steps in the list, and however often and by however many   *)
(* runners at once the mission is executed.                                *)
(***************************************************************************)
DependenciesRespected ==
  \A m \in Missions : missions[m] # None =>
    \A n \in DOMAIN missions[m].steps :
      missions[m].steps[n].status = "COMPLETED" =>
        \A d \in missions[m].steps[n].needs :
          \E k \in DOMAIN missions[m].steps :
            missions[m].steps[k].id = d /\ missions[m].steps[k].status = "COMPLETED"

(***************************************************************************)
(* A mission planned for an intent that is COMPLETED did all its steps,    *)
(* unless a dry run went over it: a runtime never passes a step of a plan. *)
(***************************************************************************)
PlannedCompletedDidAll ==
  \A m \in Missions : missions[m] # None =>
    (missions[m].planned /\ ~missions[m].dry /\ missions[m].status = "COMPLETED" =>
       \A n \in DOMAIN missions[m].steps : missions[m].steps[n].status = "COMPLETED")

(***************************************************************************)
(* Every executor run comes to its end.                                    *)
(***************************************************************************)
EveryRunEnds == \A x \in Runs : (runs[x] # None) ~> (runs[x] # None /\ runs[x].at = 0)
=============================================================================
