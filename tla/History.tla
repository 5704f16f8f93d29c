------------------------------ MODULE History ------------------------------
(***************************************************************************)
(* What is left on record: the event store and, beside it, the sagas that  *)
(* append to it.  What a saga depends on of the store is whether an append *)
(* throws and whether an acknowledgement is lost, which Saga has itself,   *)
(* so the two share no variable and each goes on whatever the other does.  *)
(***************************************************************************)
EXTENDS EventLog

CONSTANTS
  Sagas, Plan,    \* saga instances and their plans
  RefuseUndo, AckMayBeLost, StoreMayFail, MaxCrashes

VARIABLES
  at,             \* pc of Saga
  status, step, completed, failed, undone, effects, crashes

sagaVars == <<at, status, step, completed, failed, undone, effects, crashes>>

SI == INSTANCE Saga WITH pc <- at

HistoryInit == Init /\ SI!Init
HistoryNext ==
  \/ Next   /\ UNCHANGED sagaVars
  \/ SI!Next /\ UNCHANGED vars

HistorySpec == HistoryInit /\ [][HistoryNext]_<<vars, sagaVars>>

-----------------------------------------------------------------------------
TypesOK == TypeOK /\ SI!TypeOK

\* The sagas: effects and compensations are what the registry says of them.
SagaOutcomes == SI!SagaOutcomes

\* SagaCompensationEnforcer.ts:4-6, "Every initiated saga must terminate".
EverySagaEnds == SI!EverySagaEnds
=============================================================================
