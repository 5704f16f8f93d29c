----------------------------- MODULE RailDriver -----------------------------
(***************************************************************************)
(* BaseRailDriver: submit with its retry loop, its timeout race and its    *)
(* circuit breaker, and BoundaryEventBus.submitToRail, which turns the     *)
(* result into a command.  A driver serves many payments at once; each     *)
(* `await' is a step.  A timeout does not cancel the call it gave up on,   *)
(* so an old call may still reach the rail while a new one is awaited.     *)
(*                                                                         *)
(* The rail is external: it decides each call that reaches it, at any      *)
(* time.  Times are abstracted to whether circuitBreakerResetMs have       *)
(* passed since the last failure.                                          *)
(***************************************************************************)
EXTENDS Naturals, Sequences, FiniteSets

CONSTANTS
  Payments,     \* the commandIds submitted to this rail
  MaxRetries,   \* config.maxRetries: 1 (private ledger, card) to 3 (ACH, EVM)
  Threshold,    \* config.circuitBreakerThreshold
  MaxSubmits,   \* bound: how often the caller submits one payment
  Idempotent,   \* TRUE: the rail decides once per idempotency key it is sent
  RejectsUnsent \* TRUE: submitToRail may answer REJECTED without a decision of the
                \* rail on this call: Fedwire closed, Circle 5xx, a 4xx such as 429

ASSUME RailAssumption ==
  /\ MaxRetries \in Nat \ {0} /\ Threshold \in Nat \ {0} /\ MaxSubmits \in [Payments -> Nat]
  /\ Idempotent \in BOOLEAN /\ RejectsUnsent \in BOOLEAN

VARIABLES
  circuit,    \* _circuitState
  failures,   \* _failureCount
  cooled,     \* Date.now() - _lastFailureAt >= circuitBreakerResetMs
  pc,         \* where each payment's submit is
  attempt,    \* the loop variable of submit, 0: not in the loop
  submits,    \* how many times the caller has submitted the payment
  result,     \* the last RailSubmissionResult.status returned
  calls,      \* per payment, what became of each call of submitToRail
  dispatched  \* the commands handed to the command bus

vars == <<circuit, failures, cooled, pc, attempt, submits, result, calls, dispatched>>
breaker == <<circuit, failures, cooled>>

Outcomes == {"SUBMITTED", "REJECTED", "UNKNOWN_EXTERNAL_STATE", "CIRCUIT_OPEN"}
CallStates == {"sent", "executed", "refused", "repeated", "dropped"}

Goto(p, label) == pc' = [pc EXCEPT ![p] = label]

Called(p)   == Len(calls[p])
Executed(p) == {k \in 1..Called(p) : calls[p][k] = "executed"}
Refused(p)  == {k \in 1..Called(p) : calls[p][k] = "refused"}

\* A seeded fault: every attempt draws a key of its own.
KeyPerCall(p, k) == <<p, k>>

\* The Idempotency-Key of the k-th call of a payment: payload.commandId, which neither
\* an attempt nor a resubmission changes.
Key(p, k) == p

SameKey(p, k) == {j \in 1..Called(p) : Key(p, j) = Key(p, k)}

\* submitToRail(payload): one more call under way.
CallRail(p) ==
  /\ calls' = [calls EXCEPT ![p] = Append(@, "sent")]
  /\ Goto(p, "calling")

\* submit returns.
Return(p, outcome) ==
  /\ result' = [result EXCEPT ![p] = outcome]
  /\ attempt' = [attempt EXCEPT ![p] = 0]
  /\ Goto(p, "returned")

RecordSuccess ==
  /\ failures' = 0
  /\ circuit' = "CLOSED"
  /\ UNCHANGED cooled

\* A seeded fault: the counter is compared before it is incremented.
RecordFailureLate ==
  /\ failures' = failures + 1
  /\ cooled' = FALSE
  /\ circuit' = IF failures >= Threshold THEN "OPEN" ELSE circuit

RecordFailure ==
  /\ failures' = failures + 1
  /\ cooled' = FALSE
  /\ circuit' = IF failures' >= Threshold THEN "OPEN" ELSE circuit
-----------------------------------------------------------------------------
Init ==
  /\ circuit = "CLOSED" /\ failures = 0 /\ cooled = TRUE
  /\ pc      = [p \in Payments |-> "idle"]
  /\ attempt = [p \in Payments |-> 0]
  /\ submits = [p \in Payments |-> 0]
  /\ result  = [p \in Payments |-> "none"]
  /\ calls   = [p \in Payments |-> <<>>]
  /\ dispatched = {}

(***************************************************************************)
(* submit with checkCircuit, up to the first await.  The caller submits a  *)
(* payment, and again when the result was retryable or never came.         *)
(***************************************************************************)
MaySubmit(p) ==
  /\ submits[p] < MaxSubmits[p]
  /\ \/ pc[p] = "idle"
     \/ pc[p] = "answered" /\ result[p] \in {"UNKNOWN_EXTERNAL_STATE", "CIRCUIT_OPEN"}
     \/ pc[p] = "lost"

Admit(p) ==
  /\ attempt' = [attempt EXCEPT ![p] = 1]
  /\ CallRail(p)
  /\ UNCHANGED result

Submit(p) ==
  /\ MaySubmit(p)
  /\ submits' = [submits EXCEPT ![p] = @ + 1]
  /\ \/ circuit = "CLOSED" /\ Admit(p) /\ UNCHANGED circuit
     \/ circuit = "OPEN" /\ cooled /\ Admit(p) /\ circuit' = "HALF_OPEN"
     \/ circuit = "HALF_OPEN" /\ Admit(p) /\ UNCHANGED circuit
     \/ /\ circuit = "OPEN" /\ ~cooled
        /\ Return(p, "CIRCUIT_OPEN")
        /\ UNCHANGED <<circuit, calls>>
  /\ UNCHANGED <<failures, cooled, dispatched>>

\* A seeded fault: any answer counts as an acceptance.
AnswerSubmittedAnyway(p) ==
  /\ pc[p] = "calling" /\ calls[p][Called(p)] # "sent"
  /\ RecordSuccess
  /\ Return(p, "SUBMITTED")
  /\ UNCHANGED <<submits, calls, dispatched>>

\* The awaited call answered before the timeout.
AnswerSubmitted(p) ==
  /\ pc[p] = "calling" /\ calls[p][Called(p)] \in {"executed", "repeated"}
  /\ RecordSuccess
  /\ Return(p, "SUBMITTED")
  /\ UNCHANGED <<submits, calls, dispatched>>

AnswerRejected(p) ==
  /\ pc[p] = "calling"
  /\ \/ calls[p][Called(p)] = "refused"
     \/ calls[p][Called(p)] = "dropped" /\ RejectsUnsent
  /\ RecordFailure
  /\ Return(p, "REJECTED")
  /\ UNCHANGED <<submits, calls, dispatched>>

\* A 5xx or an unrecognised body: neither a success nor a failure.
AnswerUnknown(p) ==
  /\ pc[p] = "calling"
  /\ Return(p, "UNKNOWN_EXTERNAL_STATE")
  /\ UNCHANGED <<circuit, failures, cooled, submits, calls, dispatched>>

\* A seeded fault: the last exhausted attempt is reported as a rejection.
FailRejects(p) ==
  /\ pc[p] = "calling"
  /\ RecordFailure
  /\ \/ /\ attempt[p] < MaxRetries
        /\ Goto(p, "sleeping")
        /\ UNCHANGED <<attempt, result>>
     \/ /\ attempt[p] = MaxRetries
        /\ Return(p, "REJECTED")
  /\ UNCHANGED <<submits, calls, dispatched>>

\* A seeded fault: one attempt too many.
FailOnceMore(p) ==
  /\ pc[p] = "calling"
  /\ RecordFailure
  /\ \/ /\ attempt[p] <= MaxRetries
        /\ Goto(p, "sleeping")
        /\ UNCHANGED <<attempt, result>>
     \/ /\ attempt[p] > MaxRetries
        /\ Return(p, "UNKNOWN_EXTERNAL_STATE")
  /\ UNCHANGED <<submits, calls, dispatched>>

\* A seeded fault: the call is awaited without a timer.
FailWithoutTimeout(p) ==
  /\ pc[p] = "calling" /\ calls[p][Called(p)] # "sent"
  /\ RecordFailure
  /\ \/ /\ attempt[p] < MaxRetries
        /\ Goto(p, "sleeping")
        /\ UNCHANGED <<attempt, result>>
     \/ /\ attempt[p] = MaxRetries
        /\ Return(p, "UNKNOWN_EXTERNAL_STATE")
  /\ UNCHANGED <<submits, calls, dispatched>>

\* The timeout won the race, or submitToRail threw.
Fail(p) ==
  /\ pc[p] = "calling"
  /\ RecordFailure
  /\ \/ /\ attempt[p] < MaxRetries
        /\ Goto(p, "sleeping")
        /\ UNCHANGED <<attempt, result>>
     \/ /\ attempt[p] = MaxRetries
        /\ Return(p, "UNKNOWN_EXTERNAL_STATE")
  /\ UNCHANGED <<submits, calls, dispatched>>

\* After the backoff: the next attempt, without another look at the circuit.
Retry(p) ==
  /\ pc[p] = "sleeping"
  /\ attempt' = [attempt EXCEPT ![p] = @ + 1]
  /\ CallRail(p)
  /\ UNCHANGED <<circuit, failures, cooled, submits, result, dispatched>>

\* translateResultToCommand: the result becomes a payment.rail.* command.
Command(p) == IF result[p] = "CIRCUIT_OPEN" THEN "REJECTED" ELSE result[p]

Dispatch(p) ==
  /\ pc[p] = "returned"
  /\ dispatched' = dispatched \cup {[pay |-> p, command |-> Command(p)]}
  /\ Goto(p, "answered")
  /\ UNCHANGED <<circuit, failures, cooled, attempt, submits, result, calls>>

(***************************************************************************)
(* The rail.  A call may reach it late, or never.  A rail that honours the *)
(* key sees only keys: its first decision on one stands for every call     *)
(* that carries it, and a call with another key is another payment to it.  *)
(***************************************************************************)
Decide(p, k, state) == calls' = [calls EXCEPT ![p][k] = state]

RailExecutes(p, k) ==
  /\ calls[p][k] = "sent"
  /\ ~(Idempotent /\ Refused(p) \cap SameKey(p, k) # {})
  /\ Decide(p, k, IF Idempotent /\ Executed(p) \cap SameKey(p, k) # {}
                  THEN "repeated" ELSE "executed")
  /\ UNCHANGED <<circuit, failures, cooled, pc, attempt, submits, result, dispatched>>

RailRefuses(p, k) ==
  /\ calls[p][k] = "sent"
  /\ ~(Idempotent /\ Executed(p) \cap SameKey(p, k) # {})
  /\ Decide(p, k, "refused")
  /\ UNCHANGED <<circuit, failures, cooled, pc, attempt, submits, result, dispatched>>

CallDropped(p, k) ==
  /\ calls[p][k] = "sent"
  /\ Decide(p, k, "dropped")
  /\ UNCHANGED <<circuit, failures, cooled, pc, attempt, submits, result, dispatched>>

\* circuitBreakerResetMs pass without a failure.
TimePasses ==
  /\ ~cooled
  /\ cooled' = TRUE
  /\ UNCHANGED <<circuit, failures, pc, attempt, submits, result, calls, dispatched>>

(***************************************************************************)
(* The process dies: the submits in flight are never answered, the circuit *)
(* starts over.  The rail goes on with what reached it.                    *)
(***************************************************************************)
Crash ==
  /\ circuit' = "CLOSED" /\ failures' = 0 /\ cooled' = TRUE
  /\ pc' = [p \in Payments |-> IF pc[p] \in {"idle", "answered"} THEN pc[p] ELSE "lost"]
  /\ attempt' = [p \in Payments |-> 0]
  /\ UNCHANGED <<submits, result, calls, dispatched>>

Answer(p) == AnswerSubmitted(p) \/ AnswerRejected(p) \/ AnswerUnknown(p)
Local(p)  == Fail(p) \/ Retry(p) \/ Dispatch(p)

Rail(p) == \E k \in 1..Called(p) :
             RailExecutes(p, k) \/ RailRefuses(p, k) \/ CallDropped(p, k)

Next ==
  \/ \E p \in Payments : Submit(p) \/ Answer(p) \/ Local(p) \/ Rail(p)
  \/ TimePasses
  \/ Crash

Spec == Init /\ [][Next]_vars

\* Timers fire and settled promises resume; the rail owes nothing.
FairSpec == Spec /\ \A p \in Payments : WF_vars(Local(p))
-----------------------------------------------------------------------------
TypeOK ==
  /\ circuit \in {"CLOSED", "OPEN", "HALF_OPEN"}
  /\ failures \in Nat /\ cooled \in BOOLEAN
  /\ pc \in [Payments -> {"idle", "calling", "sleeping", "returned", "answered", "lost"}]
  /\ attempt \in [Payments -> 0..MaxRetries]
  /\ \A p \in Payments : submits[p] \in 0..MaxSubmits[p]
  /\ result \in [Payments -> Outcomes \cup {"none"}]
  /\ calls \in [Payments -> Seq(CallStates)]
  /\ dispatched \subseteq [pay : Payments, command : Outcomes]

(***************************************************************************)
(* The counter and the breaker agree: the circuit has left CLOSED exactly  *)
(* when Threshold failures were recorded since the last success, however   *)
(* late answers, retries and probes of several payments interleave.        *)
(***************************************************************************)
CircuitMatchesCount == circuit = "CLOSED" <=> failures < Threshold

(***************************************************************************)
(* A payment moves value at most once where the rail honours the key,      *)
(* which takes that all calls of it - the retries of a submit, the calls   *)
(* given up on, those made again after a crash - carry one key.  A rail    *)
(* that ignores the key (a card network) may execute each call: there the  *)
(* driver bounds the damage by the attempts configured for each submit.    *)
(***************************************************************************)
ExecutedOnce ==
  \A p \in Payments :
    /\ Idempotent => Cardinality(Executed(p)) <= 1
    /\ Called(p) <= MaxRetries * submits[p]

(***************************************************************************)
(* The commands dispatched for a payment are true of the rail: "submitted" *)
(* only if the rail executed it, "rejected" only if it did not and no call *)
(* still under way can - otherwise the driver must say UNKNOWN.            *)
(***************************************************************************)
MayStillExecute(p) ==
  \/ Executed(p) # {}
  \/ \E k \in 1..Called(p) : /\ calls[p][k] = "sent"
                          /\ ~(Idempotent /\ Refused(p) \cap SameKey(p, k) # {})

SubmittedIsTrue ==
  \A d \in dispatched : d.command = "SUBMITTED" => Executed(d.pay) # {}

RejectedIsTrue ==
  \A d \in dispatched : d.command = "REJECTED" => ~MayStillExecute(d.pay)

(***************************************************************************)
(* A REJECTED that is the rail's own decision stands, also when earlier    *)
(* attempts and earlier submits of the payment were given up on.           *)
(***************************************************************************)
RejectionIsFinal ==
  \A p \in Payments : result[p] = "REJECTED" => ~MayStillExecute(p)

(***************************************************************************)
(* Every submit is answered, or lost with the process: a rail that never   *)
(* answers cannot hold its caller.                                         *)
(***************************************************************************)
EverySubmitAnswered ==
  \A p \in Payments : pc[p] = "calling" ~> pc[p] \in {"answered", "lost"}
=============================================================================
