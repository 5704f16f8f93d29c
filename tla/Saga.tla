-------------------------------- MODULE Saga --------------------------------
(***************************************************************************)
(* SagaInterpreter.start and compensate with the SagaRegistry: steps are   *)
(* submitted to the command bus one after the other, an event is appended  *)
(* after each, and a failure submits the compensation commands of the      *)
(* completed steps in reverse.  Several sagas run at once.                 *)
(*                                                                         *)
(* The command bus answers ACCEPTED after the command took effect, and     *)
(* REJECTED without it, except that the acknowledgement of a commit may be *)
(* lost (CommandKernel).  The registry and the interpreter are in memory.  *)
(***************************************************************************)
EXTENDS Integers, Sequences, FiniteSets, SequencesExt

CONSTANTS
  Sagas,          \* saga instances
  Plan,           \* of each: the sequence of its steps, [command, compensation : BOOLEAN]
  RefuseUndo,     \* TRUE: a compensation command may be rejected
  AckMayBeLost,   \* TRUE: a command may take effect and be answered REJECTED
  StoreMayFail,   \* TRUE: appending a saga event may throw
  MaxCrashes      \* bound on the times the process stops

Statuses == {"none", "RUNNING", "COMPLETED", "FAILED", "COMPENSATING", "COMPENSATED"}

VARIABLES
  pc,         \* where the instance's start() is
  status,     \* currentState in the registry, "none": not there
  step,       \* the step at hand, or the number of completed steps left to undo
  completed,  \* completedSteps
  failed,     \* failedSteps
  undone,     \* compensationSteps, with how each was answered
  effects,    \* what the other components hold: commands that took effect, in order
  crashes

vars == <<pc, status, step, completed, failed, undone, effects, crashes>>

Steps(s)  == DOMAIN Plan[s]
Done(i)   == [step |-> i, undo |-> FALSE]
Undone(i) == [step |-> i, undo |-> TRUE]
CanFail   == {TRUE} \cup (IF StoreMayFail THEN {FALSE} ELSE {})
Goto(s, l) == pc' = [pc EXCEPT ![s] = l]
Become(s, st) == status' = [status EXCEPT ![s] = st]

Init ==
  /\ pc = [s \in Sagas |-> "idle"] /\ status = [s \in Sagas |-> "none"]
  /\ step = [s \in Sagas |-> 0]
  /\ completed = [s \in Sagas |-> <<>>] /\ failed = [s \in Sagas |-> <<>>]
  /\ undone = [s \in Sagas |-> <<>>] /\ effects = [s \in Sagas |-> <<>>]
  /\ crashes = 0

-----------------------------------------------------------------------------
(***************************************************************************)
(* start: "loop" is the head of the for loop over the steps; an append     *)
(* that throws outside the try ends the call and leaves the status.        *)
(***************************************************************************)
Start(s) ==
  /\ pc[s] = "idle"
  /\ Become(s, "RUNNING")
  /\ \E stored \in CanFail :
       IF stored THEN Goto(s, "loop") /\ step' = [step EXCEPT ![s] = 1]
                 ELSE Goto(s, "thrown") /\ UNCHANGED step
  /\ UNCHANGED <<completed, failed, undone, effects, crashes>>

\* The bus's answer to a command that would append e to the effects.
Accepted(s, e)     == effects' = [effects EXCEPT ![s] = Append(@, e)]
Rejected(s, e, may) ==
  \/ may /\ UNCHANGED effects
  \/ AckMayBeLost /\ Accepted(s, e)

\* executeStep: a step without a command is complete at once.
ExecuteStep(s) ==
  /\ pc[s] = "loop" /\ step[s] \in Steps(s)
  /\ \/ /\ IF Plan[s][step[s]].command THEN Accepted(s, Done(step[s])) ELSE UNCHANGED effects
        /\ completed' = [completed EXCEPT ![s] = Append(@, step[s])]
        /\ Goto(s, "completed") /\ UNCHANGED <<status, failed>>
     \/ /\ Plan[s][step[s]].command /\ Rejected(s, Done(step[s]), TRUE)
        /\ failed' = [failed EXCEPT ![s] = Append(@, step[s])]
        /\ Become(s, "FAILED") /\ Goto(s, "failed") /\ UNCHANGED completed
  /\ UNCHANGED <<step, undone, crashes>>

\* The step's completed event; a throw is caught and fails the completed step.
EmitCompleted(s) ==
  /\ pc[s] = "completed"
  /\ \E stored \in CanFail :
       IF stored
         THEN /\ Goto(s, "loop") /\ step' = [step EXCEPT ![s] = @ + 1]
              /\ UNCHANGED <<status, failed>>
         ELSE /\ failed' = [failed EXCEPT ![s] = Append(@, step[s])]
              /\ Become(s, "FAILED") /\ Goto(s, "failed") /\ UNCHANGED step
  /\ UNCHANGED <<completed, undone, effects, crashes>>

\* A seeded fault: a failed step halts the saga, as on_failure: HALT would.
EmitFailedHalts(s) ==
  /\ pc[s] = "failed" /\ Goto(s, "answered")
  /\ UNCHANGED <<status, step, completed, failed, undone, effects, crashes>>

EmitFailed(s) ==
  /\ pc[s] = "failed"
  /\ \E stored \in CanFail : Goto(s, IF stored THEN "compensate" ELSE "thrown")
  /\ UNCHANGED <<status, step, completed, failed, undone, effects, crashes>>

Complete(s) ==
  /\ pc[s] = "loop" /\ step[s] \notin Steps(s)
  /\ Become(s, "COMPLETED")
  /\ \E stored \in CanFail : Goto(s, IF stored THEN "answered" ELSE "thrown")
  /\ UNCHANGED <<step, completed, failed, undone, effects, crashes>>

-----------------------------------------------------------------------------
(***************************************************************************)
(* compensate: the completed steps in reverse; step counts those left.     *)
(***************************************************************************)
BeginCompensation(s) ==
  /\ pc[s] = "compensate"
  /\ Become(s, "COMPENSATING")
  /\ step' = [step EXCEPT ![s] = Len(completed[s])]
  /\ \E stored \in CanFail : Goto(s, IF stored THEN "undo" ELSE "thrown")
  /\ UNCHANGED <<completed, failed, undone, effects, crashes>>

SkipStep(s) ==
  /\ pc[s] = "undo" /\ step[s] > 0
  /\ ~ Plan[s][completed[s][step[s]]].compensation
  /\ step' = [step EXCEPT ![s] = @ - 1]
  /\ UNCHANGED <<pc, status, completed, failed, undone, effects, crashes>>

\* A seeded fault: the steps are undone first to last.
UndoStepForward(s) ==
  /\ pc[s] = "undo" /\ step[s] > 0
  /\ LET i == completed[s][Len(completed[s]) - step[s] + 1] IN
       /\ Plan[s][i].compensation
       /\ Accepted(s, Undone(i))
       /\ undone' = [undone EXCEPT ![s] = Append(@, [step |-> i, state |-> "COMPENSATED"])]
  /\ step' = [step EXCEPT ![s] = @ - 1]
  /\ UNCHANGED <<pc, status, completed, failed, crashes>>

\* executeCompensation: the record says COMPENSATED or FAILED, and the loop goes on.
UndoStep(s) ==
  /\ pc[s] = "undo" /\ step[s] > 0
  /\ LET i == completed[s][step[s]] IN
       /\ Plan[s][i].compensation
       /\ \/ /\ Accepted(s, Undone(i))
             /\ undone' = [undone EXCEPT ![s] = Append(@, [step |-> i, state |-> "COMPENSATED"])]
          \/ /\ Rejected(s, Undone(i), RefuseUndo)
             /\ undone' = [undone EXCEPT ![s] = Append(@, [step |-> i, state |-> "FAILED"])]
  /\ \E stored \in CanFail : Goto(s, IF stored THEN "undo" ELSE "thrown")
  /\ step' = [step EXCEPT ![s] = @ - 1]
  /\ UNCHANGED <<status, completed, failed, crashes>>

EndCompensation(s) ==
  /\ pc[s] = "undo" /\ step[s] = 0
  /\ Become(s, "COMPENSATED")
  /\ \E stored \in CanFail : Goto(s, IF stored THEN "answered" ELSE "thrown")
  /\ UNCHANGED <<step, completed, failed, undone, effects, crashes>>

\* Nothing reads the saga events back: a new process knows no instance.
Crash ==
  /\ crashes < MaxCrashes /\ crashes' = crashes + 1
  /\ pc' = [s \in Sagas |-> IF pc[s] = "idle" THEN "idle" ELSE "gone"]
  /\ status' = [s \in Sagas |-> "none"]
  /\ completed' = [s \in Sagas |-> <<>>] /\ failed' = [s \in Sagas |-> <<>>]
  /\ undone' = [s \in Sagas |-> <<>>]
  /\ UNCHANGED <<step, effects>>

Run(s) ==
  \/ ExecuteStep(s) \/ EmitCompleted(s) \/ EmitFailed(s) \/ Complete(s)
  \/ BeginCompensation(s) \/ SkipStep(s) \/ UndoStep(s) \/ EndCompensation(s)

Next == (\E s \in Sagas : Start(s) \/ Run(s)) \/ Crash

Spec     == Init /\ [][Next]_vars
\* The bus and the store answer every call, and start() then goes on.
FairSpec == Spec /\ \A s \in Sagas : WF_vars(Run(s))

-----------------------------------------------------------------------------
TypeOK ==
  /\ pc \in [Sagas -> {"idle", "loop", "completed", "failed", "compensate", "undo",
                       "answered", "thrown", "gone"}]
  /\ status \in [Sagas -> Statuses]
  /\ \A s \in Sagas :
       /\ step[s] \in 0..Len(Plan[s]) + 1
       /\ completed[s] \in Seq(Steps(s)) /\ failed[s] \in Seq(Steps(s))
       /\ undone[s] \in Seq([step : Steps(s), state : {"COMPENSATED", "FAILED"}])
       /\ effects[s] \in Seq([step : Steps(s), undo : BOOLEAN])
  /\ crashes \in 0..MaxCrashes

Positions(s, e) == {n \in DOMAIN effects[s] : effects[s][n] = e}
Took(s, i)      == Positions(s, Done(i)) # {}

\* "Saga compensation MUST be idempotent" and SEQUENTIAL_REVERSE (09_saga-orchestration.yaml):
\* no step takes effect or is undone twice, nothing is undone before it was done, steps
\* are undone in the reverse of the order they were done, and none is done once undoing began.
ReverseOrder ==
  \A s \in Sagas : \A m, n \in DOMAIN effects[s] :
    m < n => LET e == effects[s][m] f == effects[s][n] IN
      /\ ~ e.undo /\ ~ f.undo => e.step < f.step
      /\ e.undo => f.undo /\ f.step < e.step

UndoneWasDone ==
  \A s \in Sagas : \A i \in Steps(s) :
    Positions(s, Undone(i)) # {} => i \in Range(completed[s]) \/ pc[s] = "gone"

\* A saga that says COMPLETED has every command's effect and has undone none.
CompletedDidAll ==
  \A s \in Sagas : status[s] = "COMPLETED" =>
    /\ \A i \in Steps(s) : Plan[s][i].command => Took(s, i)
    /\ \A n \in DOMAIN effects[s] : ~ effects[s][n].undo

\* SAGA-HE-T004 (acceptance-tests.yaml:297-301), "Compensation reverses all domain-side
\* effects": what a saga that says COMPENSATED has not undone, though it could be, is on
\* record: as a compensation that failed, or as the step that failed.
CompensatedUndidAll ==
  \A s \in Sagas : status[s] = "COMPENSATED" =>
    \A i \in Steps(s) : Took(s, i) /\ Plan[s][i].compensation =>
      \/ Positions(s, Undone(i)) # {}
      \/ [step |-> i, state |-> "FAILED"] \in Range(undone[s])
      \/ i \in Range(failed[s])

(***************************************************************************)
(* Effects and compensations are what the registry says of them.           *)
(***************************************************************************)
SagaOutcomes == ReverseOrder /\ UndoneWasDone /\ CompletedDidAll /\ CompensatedUndidAll

\* SagaCompensationEnforcer.ts:4-6, "Every initiated saga must terminate": in COMPLETED or
\* COMPENSATED, unless the store or the process failed under it.
EverySagaEnds ==
  \A s \in Sagas : (pc[s] # "idle") ~>
    (status[s] \in {"COMPLETED", "COMPENSATED"} \/ pc[s] \in {"thrown", "gone"})
=============================================================================
