----------------------------- MODULE MCHistory -----------------------------
(***************************************************************************)
(* What is left on record: EventLog and Saga, one of them at a time.       *)
(*                                                                         *)
(* EventLog: batches that fail half way, an append that depends on one of  *)
(* them, the event of a denial, and a stream with a number that is sent    *)
(* twice.                                                                  *)
(* Saga: two of the shapes of the compiled definitions, a transfer         *)
(* (human_execution_saga: steps without compensation around steps with     *)
(* one, the last without a command) and an escalation (a step that has a   *)
(* compensation and no command).                                           *)
(***************************************************************************)
EXTENDS History

CONSTANTS a1, a2, c1, c2, s1, d1, n1, n2, n3, transfer, escalation

MCIds      == {a1, a2, c1, c2, s1, d1, n1, n2, n3}
MCBatch    == [a |-> <<a1, a2>>, c |-> <<c1, c2>>, s |-> <<s1>>, d |-> <<d1>>,
               n |-> <<n1>>, again |-> <<n2>>, next |-> <<n3>>]
MCRequests == DOMAIN MCBatch

MCStream == [e \in Ids |-> IF e \in {a1, s1, n1, n2, n3} THEN "x" ELSE "y"]
MCCause  == [e \in Ids |-> CASE e \in {a2, n2} -> a1 [] e = s1 -> a2 [] e = c2 -> s1 [] OTHER -> Root]
MCNumber == [e \in Ids |-> CASE e \in {n1, n2} -> 1 [] e = n3 -> 2 [] OTHER -> 0]
MCKeysOf == [e \in Ids |-> IF MCCause[e] = Root THEN {MCStream[e]} ELSE {MCStream[e], "child"}]

Session == [command |-> TRUE,  compensation |-> FALSE]
Execute == [command |-> TRUE,  compensation |-> TRUE]
Wait    == [command |-> FALSE, compensation |-> TRUE]
Notice  == [command |-> FALSE, compensation |-> FALSE]

MCSagas == {transfer, escalation}
MCPlan  == [s \in MCSagas |-> IF s = transfer THEN <<Session, Execute, Execute, Notice>>
                                             ELSE <<Execute, Wait, Session, Execute>>]

VARIABLE subject   \* which of the two runs

MCInit == subject \in {"log", "saga"} /\ HistoryInit
MCNext ==
  /\ UNCHANGED subject
  /\ \/ subject = "log"  /\ Next   /\ UNCHANGED sagaVars
     \/ subject = "saga" /\ SI!Next /\ UNCHANGED vars

\* Fair as Saga!FairSpec is; no step of the log is.
MCSpec ==
  /\ MCInit /\ [][MCNext]_<<vars, sagaVars, subject>>
  /\ \A s \in Sagas : WF_sagaVars(subject = "saga" /\ SI!Run(s) /\ UNCHANGED <<vars, subject>>)
=============================================================================
