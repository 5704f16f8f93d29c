------------------------------ MODULE AchRail ------------------------------
(***************************************************************************)
(* AchAdapter behind its CircuitBreaker, the second breaker of the code:   *)
(* calls of prepare, execute, confirm and compensate overlap, since each   *)
(* waits for the rail between the look at the breaker and its result.      *)
(* Only a prepare can fail: String throws for some amounts.                *)
(***************************************************************************)
EXTENDS Integers, Sequences, SequencesExt, FiniteSets, Functions

CONSTANTS
  Calls,            \* calls of the adapter
  FailureThreshold, SuccessThreshold, Timeout, \* of the breaker
  MaxTime,          \* bound
  None

VARIABLES
  state, failures, successes, lastFailure, \* the breaker
  calls, \* [op, good, pc]
  now,
  probes, \* successes since the breaker became HALF_OPEN, not in the code
  late    \* a success came while it was OPEN the last time, not in the code

vars == <<state, failures, successes, lastFailure, calls, now, probes, late>>

Init ==
  /\ state = "CLOSED" /\ failures = 0 /\ successes = 0 /\ lastFailure = 0
  /\ calls = [k \in Calls |-> None] /\ now = 0 /\ probes = 0 /\ late = FALSE

Operations == {"prepare", "execute", "confirm", "compensate"}
\* An amount that String takes, or another one.
MayFail(op) == op = "prepare"

TimedOut == now - lastFailure >= Timeout

\* execute, up to the wait of its function.
Execute(k, op, good) ==
  /\ calls[k] = None /\ (good \/ MayFail(op))
  /\ LET refused == state = "OPEN" /\ ~TimedOut
         probing == state = "OPEN" /\ TimedOut
     IN /\ calls' = [calls EXCEPT ![k] = [good |-> good, pc |-> IF refused THEN "refused" ELSE "waiting"]]
        /\ state' = IF probing THEN "HALF_OPEN" ELSE state
        /\ successes' = IF probing THEN 0 ELSE successes
        /\ probes' = IF probing THEN 0 ELSE probes
  /\ UNCHANGED <<failures, lastFailure, now, late>>

OnSuccess(k) ==
  LET closes == state = "HALF_OPEN" /\ successes + 1 >= SuccessThreshold IN
    /\ successes' = IF state # "HALF_OPEN" THEN successes ELSE IF closes THEN 0 ELSE successes + 1
    /\ state' = IF closes THEN "CLOSED" ELSE state
    /\ failures' = IF closes \/ state # "HALF_OPEN" THEN 0 ELSE failures

Succeed(k) ==
  /\ calls[k] # None /\ calls[k].pc = "waiting" /\ calls[k].good
  /\ calls' = [calls EXCEPT ![k].pc = "done"]
  /\ OnSuccess(k)
  /\ probes' = IF state = "HALF_OPEN" THEN probes + 1 ELSE probes
  /\ late' = IF state = "OPEN" THEN TRUE ELSE IF state = "HALF_OPEN" THEN late ELSE FALSE
  /\ UNCHANGED <<lastFailure, now>>

\* onFailure.
Fail(k) ==
  /\ calls[k] # None /\ calls[k].pc = "waiting" /\ ~calls[k].good
  /\ calls' = [calls EXCEPT ![k].pc = "failed"]
  /\ failures' = failures + 1 /\ lastFailure' = now
  /\ state' = IF failures + 1 >= FailureThreshold THEN "OPEN" ELSE state
  /\ late' = IF state = "CLOSED" THEN FALSE ELSE late
  /\ UNCHANGED <<successes, now, probes>>

Tick == now < MaxTime /\ now' = now + 1
        /\ UNCHANGED <<state, failures, successes, lastFailure, calls, probes, late>>

Next ==
  \/ \E k \in Calls : Succeed(k) \/ Fail(k) \/ \E op \in Operations, good \in BOOLEAN : Execute(k, op, good)
  \/ Tick

Spec == Init /\ [][Next]_vars

-----------------------------------------------------------------------------
TypeOK ==
  /\ state \in {"CLOSED", "OPEN", "HALF_OPEN"} /\ failures \in 0..Cardinality(Calls)
  /\ successes \in 0..(SuccessThreshold - 1) /\ lastFailure \in 0..now

(***************************************************************************)
(* However calls overlap: a breaker that opened closes only after          *)
(* SuccessThreshold successes since it was last let half open, and a       *)
(* failure while it is half open opens it again, unless a call from before *)
(* succeeded while it was open, which forgets the failures.                *)
(***************************************************************************)
BreakerRecovers ==
  [][/\ state # "CLOSED" /\ state' = "CLOSED" => probes' >= SuccessThreshold
     /\ state = "HALF_OPEN" /\ (\E k \in Calls : calls[k] # calls'[k] /\ calls'[k].pc = "failed") /\ ~late => state' = "OPEN"]_vars
=============================================================================
