--------------------------- MODULE PlatformProofs ---------------------------
(***************************************************************************)
(* Theorems about RailDriver, and about PlatformLayer: the rail drivers,   *)
(* the gates, the server, its publishers and the breaker of AchAdapter.    *)
(***************************************************************************)
EXTENDS RailDriver, PlatformLayer, ListsProofs, FiniteSetTheorems, TLAPS

\* The part of the type invariant the proofs need.
Shape ==
  /\ failures \in Nat
  /\ calls \in [Payments -> Seq(CallStates)]
  /\ pc \in [Payments -> {"idle", "calling", "sleeping", "returned", "answered", "lost"}]
  /\ result \in [Payments -> Outcomes \cup {"none"}]

LEMMA ReturnKeepsShape ==
  ASSUME Shape, NEW p \in Payments, NEW outcome \in Outcomes,
         Return(p, outcome), failures' \in Nat, UNCHANGED calls
  PROVE  Shape'
BY DEF Shape, Return, Goto

LEMMA ShapeInvariant == Spec => []Shape
<1>1. Init => Shape
  <2>1. <<>> \in Seq(CallStates)
    OBVIOUS
  <2>. QED  BY <2>1 DEF Init, Shape
<1>2. Shape /\ [Next]_vars => Shape'
  <2>. SUFFICES ASSUME Shape, [Next]_vars PROVE Shape'
    OBVIOUS
  <2>1. CASE UNCHANGED vars
    BY <2>1 DEF vars, Shape
  <2>2. ASSUME NEW p \in Payments, calls' = [calls EXCEPT ![p] = Append(@, "sent")]
        PROVE  calls' \in [Payments -> Seq(CallStates)]
    <3>1. Append(calls[p], "sent") \in Seq(CallStates)
      BY DEF Shape, CallStates
    <3>. QED  BY <2>2, <3>1, Zenon DEF Shape
  <2>3. ASSUME NEW p \in Payments, Submit(p) PROVE Shape'
    <3>1. CASE CallRail(p) /\ UNCHANGED <<failures, result>>
      BY <2>2, <3>1 DEF Shape, CallRail, Goto
    <3>2. CASE Return(p, "CIRCUIT_OPEN") /\ UNCHANGED <<failures, calls>>
      BY <3>2, ReturnKeepsShape DEF Shape, Outcomes
    <3>3. UNCHANGED failures /\ (Admit(p) \/ (Return(p, "CIRCUIT_OPEN") /\ UNCHANGED calls))
      BY <2>3, Zenon DEF Submit
    <3>4. Admit(p) => CallRail(p) /\ UNCHANGED result
      BY DEF Admit
    <3>. QED  BY <3>1, <3>2, <3>3, <3>4
  <2>4. ASSUME NEW p \in Payments, Answer(p) PROVE Shape'
    <3>1. PICK outcome \in Outcomes :
            Return(p, outcome) /\ UNCHANGED calls
            /\ failures' \in {0, failures, failures + 1}
      BY <2>4 DEF Answer, AnswerSubmitted, AnswerRejected, AnswerUnknown,
                  RecordSuccess, RecordFailure, Outcomes
    <3>2. failures' \in Nat
      BY <3>1 DEF Shape
    <3>. QED  BY <3>1, <3>2, ReturnKeepsShape
  <2>5. ASSUME NEW p \in Payments, Local(p) PROVE Shape'
    <3>1. CASE Retry(p)
      BY <2>2, <3>1 DEF Shape, Retry, CallRail, Goto
    <3>2. CASE Fail(p)
      <4>1. UNCHANGED calls /\ failures' = failures + 1
        BY <3>2 DEF Fail, RecordFailure
      <4>2. (Goto(p, "sleeping") /\ UNCHANGED result) \/ Return(p, "UNKNOWN_EXTERNAL_STATE")
        BY <3>2, Zenon DEF Fail
      <4>3. CASE Goto(p, "sleeping") /\ UNCHANGED result
        BY <4>1, <4>3 DEF Shape, Goto
      <4>. QED  BY <4>1, <4>2, <4>3, ReturnKeepsShape DEF Shape, Outcomes
    <3>3. CASE Dispatch(p)
      BY <3>3 DEF Shape, Dispatch, Goto
    <3>. QED  BY <2>5, <3>1, <3>2, <3>3 DEF Local
  <2>6. ASSUME NEW p \in Payments, Rail(p) PROVE Shape'
    <3>1. PICK k \in 1..Called(p), s \in CallStates :
            /\ calls' = [calls EXCEPT ![p][k] = s]
            /\ UNCHANGED <<failures, pc, result>>
      BY <2>6 DEF Rail, RailExecutes, RailRefuses, CallDropped, Decide, CallStates
    <3>2. [calls[p] EXCEPT ![k] = s] \in Seq(CallStates)
      BY <3>1 DEF Shape, Called
    <3>3. calls' = [calls EXCEPT ![p] = [calls[p] EXCEPT ![k] = s]]
      BY <3>1
    <3>4. calls' \in [Payments -> Seq(CallStates)]
      BY <3>2, <3>3, Zenon DEF Shape
    <3>. QED  BY <3>1, <3>4 DEF Shape
  <2>7. CASE TimePasses
    BY <2>7 DEF Shape, TimePasses
  <2>8. CASE Crash
    BY <2>8 DEF Shape, Crash
  <2>. QED  BY <2>1, <2>3, <2>4, <2>5, <2>6, <2>7, <2>8 DEF Next
<1>. QED  BY <1>1, <1>2, PTL DEF Spec

-----------------------------------------------------------------------------
(***************************************************************************)
(* The circuit has left CLOSED exactly when the failures since the last    *)
(* success have reached the threshold.                                     *)
(***************************************************************************)
THEOREM CircuitFollowsCount == Spec => []CircuitMatchesCount
<1>1. Init => CircuitMatchesCount
  BY RailAssumption DEF Init, CircuitMatchesCount
<1>2. Shape /\ CircuitMatchesCount /\ [Next]_vars => CircuitMatchesCount'
  <2>. SUFFICES ASSUME Shape, CircuitMatchesCount, [Next]_vars PROVE CircuitMatchesCount'
    OBVIOUS
  <2>. USE RailAssumption DEF Shape, CircuitMatchesCount
  <2>1. CASE UNCHANGED vars
    BY <2>1 DEF vars
  <2>2. ASSUME NEW p \in Payments, Submit(p) PROVE CircuitMatchesCount'
    BY <2>2 DEF Submit
  <2>3. ASSUME NEW p \in Payments, Answer(p) PROVE CircuitMatchesCount'
    BY <2>3 DEF Answer, AnswerSubmitted, AnswerRejected, AnswerUnknown, RecordSuccess,
                RecordFailure
  <2>4. ASSUME NEW p \in Payments, Local(p) PROVE CircuitMatchesCount'
    BY <2>4 DEF Local, Fail, Retry, Dispatch, RecordFailure
  <2>5. ASSUME NEW p \in Payments, Rail(p) PROVE CircuitMatchesCount'
    BY <2>5 DEF Rail, RailExecutes, RailRefuses, CallDropped
  <2>6. CASE TimePasses \/ Crash
    BY <2>6 DEF TimePasses, Crash
  <2>. QED  BY <2>1, <2>2, <2>3, <2>4, <2>5, <2>6 DEF Next
<1>. QED  BY <1>1, <1>2, ShapeInvariant, PTL DEF Spec

-----------------------------------------------------------------------------
\* All calls of a payment carry one key: what the rail decided on the key is what it
\* decided on the payment.
LEMMA OneKey ==
  ASSUME NEW p \in Payments, NEW k
  PROVE  /\ Executed(p) \cap SameKey(p, k) = Executed(p)
         /\ Refused(p) \cap SameKey(p, k) = Refused(p)
BY DEF Executed, Refused, SameKey, Key

\* The calls of one payment after a step: one more is sent, or one is decided.
CallsStep(p) ==
  \/ calls'[p] = calls[p]
  \/ calls'[p] = Append(calls[p], "sent")
  \/ \E k \in 1..Called(p), s \in CallStates :
       /\ calls[p][k] = "sent" /\ calls'[p] = [calls[p] EXCEPT ![k] = s]
       /\ s = "executed" /\ Idempotent => Executed(p) = {}
       /\ s = "repeated" => Executed(p) # {}

LEMMA CallsChange ==
  ASSUME Shape, [Next]_vars, NEW p \in Payments
  PROVE  CallsStep(p)
<1>1. CASE UNCHANGED calls
  BY <1>1 DEF CallsStep
<1>2. ASSUME NEW q \in Payments, CallRail(q) PROVE CallsStep(p)
  BY <1>2 DEF CallRail, Shape, CallsStep
<1>3. ASSUME NEW q \in Payments, Rail(q) PROVE CallsStep(p)
  <2>1. PICK k \in 1..Called(q), s \in CallStates :
          /\ calls[q][k] = "sent" /\ calls' = [calls EXCEPT ![q][k] = s]
          /\ s = "executed" /\ Idempotent => Executed(q) = {}
          /\ s = "repeated" => Executed(q) # {}
    BY <1>3, OneKey DEF Rail, RailExecutes, RailRefuses, CallDropped, Decide, CallStates
  <2>2. calls'[p] = IF p = q THEN [calls[q] EXCEPT ![k] = s] ELSE calls[p]
    BY <2>1 DEF Shape
  <2>. QED  BY <2>1, <2>2 DEF CallsStep
<1>4. [Next]_vars => UNCHANGED calls \/ \E q \in Payments : CallRail(q) \/ Rail(q)
  BY DEF Next, vars, Submit, Admit, Answer, AnswerSubmitted, AnswerRejected, AnswerUnknown,
         Local, Fail, Retry, Dispatch, TimePasses, Crash
<1>. QED  BY <1>1, <1>2, <1>3, <1>4

\* What a step does to the executed calls of one payment.
LEMMA ExecutedChange ==
  ASSUME Shape, [Next]_vars, NEW p \in Payments
  PROVE  /\ Executed(p) \subseteq Executed(p)'
         /\ \/ Executed(p)' = Executed(p)
            \/ /\ Idempotent => Executed(p) = {}
               /\ \E k \in Nat : Executed(p)' = Executed(p) \cup {k}
<1>1. CallsStep(p) /\ calls[p] \in Seq(CallStates)
  BY CallsChange DEF Shape
<1>2. CASE calls'[p] = calls[p]
  BY <1>2 DEF Executed, Called
<1>3. CASE calls'[p] = Append(calls[p], "sent")
  <2>1. \A k \in 1..Len(calls'[p]) : calls'[p][k] = IF k = Len(calls[p]) + 1 THEN "sent" ELSE calls[p][k]
    BY <1>1, <1>3
  <2>2. Len(calls'[p]) = Len(calls[p]) + 1 /\ Len(calls[p]) \in Nat
    BY <1>1, <1>3
  <2>. QED  BY <2>1, <2>2 DEF Executed, Called
<1>4. ASSUME NEW k \in 1..Called(p), NEW s \in CallStates,
             calls[p][k] = "sent", calls'[p] = [calls[p] EXCEPT ![k] = s],
             s = "executed" /\ Idempotent => Executed(p) = {}
      PROVE  /\ Executed(p) \subseteq Executed(p)'
             /\ \/ Executed(p)' = Executed(p)
                \/ /\ Idempotent => Executed(p) = {}
                   /\ \E j \in Nat : Executed(p)' = Executed(p) \cup {j}
  <2>1. Len(calls'[p]) = Len(calls[p]) /\ Len(calls[p]) \in Nat
    BY <1>1, <1>4
  <2>2. \A j \in 1..Len(calls[p]) : calls'[p][j] = IF j = k THEN s ELSE calls[p][j]
    BY <1>1, <1>4 DEF Called
  <2>3. CASE s = "executed"
    <3>1. Executed(p)' = Executed(p) \cup {k}
      BY <1>4, <2>1, <2>2, <2>3 DEF Executed, Called
    <3>. QED  BY <1>4, <2>1, <2>3, <3>1 DEF Called
  <2>4. CASE s # "executed"
    BY <1>4, <2>1, <2>2, <2>4 DEF Executed, Called
  <2>. QED  BY <2>3, <2>4
<1>. QED  BY <1>1, <1>2, <1>3, <1>4 DEF CallsStep

\* Why an accepted answer can be believed.
Backed(p) ==
  /\ pc[p] = "calling" => Called(p) \in Nat \ {0}
  /\ (\E k \in 1..Called(p) : calls[p][k] = "repeated") => Executed(p) # {}
  /\ result[p] = "SUBMITTED" => Executed(p) # {}

LEMMA BackedCalls ==
  ASSUME Shape, [Next]_vars, NEW p \in Payments, Backed(p)
  PROVE  /\ Called(p)' \in Nat /\ Called(p) \in Nat /\ Called(p) <= Called(p)'
         /\ (\E k \in 1..Called(p)' : calls'[p][k] = "repeated") => Executed(p)' # {}
<1>1. CallsStep(p) /\ calls[p] \in Seq(CallStates) /\ Executed(p) \subseteq Executed(p)'
  BY CallsChange, ExecutedChange DEF Shape
<1>2. CASE calls'[p] = calls[p]
  BY <1>1, <1>2 DEF Called, Backed
<1>3. CASE calls'[p] = Append(calls[p], "sent")
  <2>1. \A k \in 1..Len(calls'[p]) : calls'[p][k] = IF k = Len(calls[p]) + 1 THEN "sent" ELSE calls[p][k]
    BY <1>1, <1>3
  <2>2. Len(calls'[p]) = Len(calls[p]) + 1 /\ Len(calls[p]) \in Nat
    BY <1>1, <1>3
  <2>. QED  BY <1>1, <2>1, <2>2 DEF Called, Backed
<1>4. ASSUME NEW k \in 1..Called(p), NEW s \in CallStates,
             calls'[p] = [calls[p] EXCEPT ![k] = s], s = "repeated" => Executed(p) # {}
      PROVE  /\ Called(p)' \in Nat /\ Called(p) \in Nat /\ Called(p) <= Called(p)'
             /\ (\E j \in 1..Called(p)' : calls'[p][j] = "repeated") => Executed(p)' # {}
  <2>1. Len(calls'[p]) = Len(calls[p]) /\ Len(calls[p]) \in Nat
    BY <1>1, <1>4
  <2>2. \A j \in 1..Len(calls[p]) : calls'[p][j] = IF j = k THEN s ELSE calls[p][j]
    BY <1>1, <1>4 DEF Called
  <2>. QED  BY <1>1, <1>4, <2>1, <2>2 DEF Called, Backed
<1>. QED  BY <1>1, <1>2, <1>3, <1>4 DEF CallsStep

\* A step that reports a payment submitted has the rail's acceptance in hand.
LEMMA BackedResult ==
  ASSUME Shape, [Next]_vars, NEW p \in Payments
  PROVE  /\ pc'[p] = "calling" => pc[p] = "calling" \/ Len(calls'[p]) = Called(p) + 1
         /\ result'[p] = "SUBMITTED" =>
              \/ result[p] = "SUBMITTED"
              \/ pc[p] = "calling" /\ calls[p][Called(p)] \in {"executed", "repeated"}
<1>1. CASE UNCHANGED vars
  BY <1>1 DEF vars
<1>2. ASSUME NEW q \in Payments, Submit(q) \/ Retry(q)
      PROVE  /\ pc'[p] = "calling" => pc[p] = "calling" \/ Len(calls'[p]) = Called(p) + 1
             /\ result'[p] = "SUBMITTED" => result[p] = "SUBMITTED"
  <2>1. \/ CallRail(q) /\ UNCHANGED result
        \/ Return(q, "CIRCUIT_OPEN")
    BY <1>2, Zenon DEF Submit, Admit, Retry
  <2>2. CASE Return(q, "CIRCUIT_OPEN")
    BY <2>2 DEF Return, Goto, Shape
  <2>3. CASE CallRail(q) /\ UNCHANGED result
    <3>1. CASE p = q
      <4>1. calls[p] \in Seq(CallStates) /\ calls'[p] = Append(calls[p], "sent")
        BY <2>3, <3>1 DEF CallRail, Shape
      <4>. QED  BY <2>3, <4>1 DEF Called
    <3>2. CASE p # q
      BY <2>3, <3>2 DEF CallRail, Goto, Shape
    <3>. QED  BY <3>1, <3>2
  <2>. QED  BY <2>1, <2>2, <2>3
<1>3. ASSUME NEW q \in Payments, AnswerSubmitted(q)
      PROVE  /\ pc'[p] = "calling" => pc[p] = "calling"
             /\ result'[p] = "SUBMITTED" =>
                  \/ result[p] = "SUBMITTED"
                  \/ pc[p] = "calling" /\ calls[p][Called(p)] \in {"executed", "repeated"}
  BY <1>3 DEF AnswerSubmitted, Return, Goto, Shape
<1>4. ASSUME NEW q \in Payments,
             AnswerRejected(q) \/ AnswerUnknown(q) \/ Fail(q) \/ Dispatch(q)
      PROVE  /\ pc'[p] = "calling" => pc[p] = "calling"
             /\ result'[p] = "SUBMITTED" => result[p] = "SUBMITTED"
  <2>1. \/ Return(q, "REJECTED") \/ Return(q, "UNKNOWN_EXTERNAL_STATE")
        \/ (Goto(q, "sleeping") \/ Goto(q, "answered")) /\ UNCHANGED result
    BY <1>4, Zenon DEF AnswerRejected, AnswerUnknown, Fail, Dispatch
  <2>. QED  BY <2>1 DEF Return, Goto, Shape
<1>5. CASE TimePasses \/ Crash \/ \E q \in Payments : Rail(q)
  BY <1>5 DEF TimePasses, Crash, Rail, RailExecutes, RailRefuses, CallDropped, Shape
<1>. QED  BY <1>1, <1>2, <1>3, <1>4, <1>5 DEF Next, Answer, Local

LEMMA BackedInvariant == Spec => [](\A p \in Payments : Backed(p))
<1>1. Init => \A p \in Payments : Backed(p)
  BY DEF Init, Backed, Called, Executed
<1>2. Shape /\ (\A p \in Payments : Backed(p)) /\ [Next]_vars => (\A p \in Payments : Backed(p))'
  <2>. SUFFICES ASSUME Shape, \A p \in Payments : Backed(p), [Next]_vars, NEW p \in Payments
       PROVE  Backed(p)'
    OBVIOUS
  <2>1. Executed(p) \subseteq Executed(p)'
    BY ExecutedChange
  <2>2. pc[p] = "calling" /\ calls[p][Called(p)] \in {"executed", "repeated"} => Executed(p) # {}
    BY DEF Backed, Executed
  <2>. QED  BY <2>1, <2>2, BackedCalls, BackedResult DEF Backed, Called
<1>. QED  BY <1>1, <1>2, ShapeInvariant, PTL DEF Spec

(***************************************************************************)
(* A payment is reported submitted only if the rail executed it.           *)
(***************************************************************************)
THEOREM SubmittedWasExecuted == Spec => []SubmittedIsTrue
<1>. DEFINE Inv == SubmittedIsTrue /\ (\A d \in dispatched : d.pay \in Payments)
<1>1. Init => Inv
  BY DEF Init, SubmittedIsTrue
<1>2. Shape /\ (\A p \in Payments : Backed(p)) /\ Inv /\ [Next]_vars => Inv'
  <2>. SUFFICES ASSUME Shape, \A p \in Payments : Backed(p), Inv, [Next]_vars PROVE Inv'
    OBVIOUS
  <2>1. \/ UNCHANGED dispatched
        \/ \E p \in Payments : dispatched' = dispatched \cup {[pay |-> p, command |-> Command(p)]}
    BY DEF Next, vars, Submit, Answer, AnswerSubmitted, AnswerRejected, AnswerUnknown, Local,
           Fail, Retry, Dispatch, Rail, RailExecutes, RailRefuses, CallDropped, TimePasses, Crash
  <2>2. \A d \in dispatched' : d.pay \in Payments /\ (d.command = "SUBMITTED" => Executed(d.pay) # {})
    BY <2>1 DEF SubmittedIsTrue, Command, Backed
  <2>3. \A p \in Payments : Executed(p) # {} => Executed(p)' # {}
    BY ExecutedChange
  <2>. QED  BY <2>2, <2>3 DEF SubmittedIsTrue
<1>3. Inv => SubmittedIsTrue
  OBVIOUS
<1>. QED  BY <1>1, <1>2, <1>3, ShapeInvariant, BackedInvariant, PTL DEF Spec

-----------------------------------------------------------------------------
(***************************************************************************)
(* The rest of the type invariant: a submit that sleeps has an attempt     *)
(* left, and one that returned has a result to dispatch.                   *)
(***************************************************************************)
Rest ==
  /\ circuit \in {"CLOSED", "OPEN", "HALF_OPEN"} /\ cooled \in BOOLEAN
  /\ attempt \in [Payments -> 0..MaxRetries]
  /\ \A p \in Payments : submits[p] \in 0..MaxSubmits[p]
  /\ DOMAIN submits = Payments
  /\ dispatched \subseteq [pay : Payments, command : Outcomes]
  /\ \A p \in Payments : pc[p] = "sleeping" => attempt[p] < MaxRetries
  /\ \A p \in Payments : pc[p] = "returned" => result[p] # "none"

LEMMA RestInvariant == Spec => []Rest
<1>1. Init => Rest
  BY RailAssumption DEF Init, Rest
<1>2. Shape /\ Rest /\ [Next]_vars => Rest'
  <2>. SUFFICES ASSUME Shape, Rest, [Next]_vars PROVE Rest'
    OBVIOUS
  <2>. USE RailAssumption DEF Shape, Rest
  <2>1. CASE UNCHANGED vars
    BY <2>1 DEF vars
  <2>2. ASSUME NEW p \in Payments, Submit(p) PROVE Rest'
    <3>1. UNCHANGED <<cooled, dispatched>> /\ circuit' \in {"CLOSED", "OPEN", "HALF_OPEN"}
      BY <2>2 DEF Submit
    <3>2. submits' = [submits EXCEPT ![p] = @ + 1] /\ submits[p] < MaxSubmits[p]
      BY <2>2 DEF Submit, MaySubmit
    <3>3. Admit(p) \/ Return(p, "CIRCUIT_OPEN")
      BY <2>2 DEF Submit
    <3>4. CASE Admit(p)
      BY <3>1, <3>2, <3>4 DEF Admit, CallRail, Goto
    <3>5. CASE Return(p, "CIRCUIT_OPEN")
      BY <3>1, <3>2, <3>5 DEF Return, Goto
    <3>. QED  BY <3>3, <3>4, <3>5
  <2>3. ASSUME NEW p \in Payments, Answer(p) PROVE Rest'
    <3>1. PICK outcome \in Outcomes : Return(p, outcome)
      BY <2>3 DEF Answer, AnswerSubmitted, AnswerRejected, AnswerUnknown, Outcomes
    <3>2. UNCHANGED <<submits, dispatched>> /\ circuit' \in {"CLOSED", "OPEN", "HALF_OPEN"} /\ cooled' \in BOOLEAN
      BY <2>3 DEF Answer, AnswerSubmitted, AnswerRejected, AnswerUnknown, RecordSuccess, RecordFailure
    <3>. QED  BY <3>1, <3>2 DEF Return, Goto, Outcomes
  <2>4. ASSUME NEW p \in Payments, Fail(p) PROVE Rest'
    <3>1. UNCHANGED <<submits, dispatched>> /\ circuit' \in {"CLOSED", "OPEN", "HALF_OPEN"} /\ cooled' \in BOOLEAN
      BY <2>4 DEF Fail, RecordFailure
    <3>2. CASE attempt[p] < MaxRetries /\ Goto(p, "sleeping") /\ UNCHANGED <<attempt, result>>
      BY <3>1, <3>2 DEF Goto
    <3>3. CASE Return(p, "UNKNOWN_EXTERNAL_STATE")
      BY <3>1, <3>3 DEF Return, Goto
    <3>. QED  BY <2>4, <3>2, <3>3 DEF Fail
  <2>5. ASSUME NEW p \in Payments, Retry(p) PROVE Rest'
    BY <2>5 DEF Retry, CallRail, Goto
  <2>6. ASSUME NEW p \in Payments, Dispatch(p) PROVE Rest'
    <3>1. Command(p) \in Outcomes
      BY <2>6 DEF Dispatch, Command, Outcomes
    <3>. QED  BY <2>6, <3>1 DEF Dispatch, Goto
  <2>7. ASSUME NEW p \in Payments, Rail(p) PROVE Rest'
    BY <2>7 DEF Rail, RailExecutes, RailRefuses, CallDropped
  <2>8. CASE TimePasses
    BY <2>8 DEF TimePasses
  <2>9. CASE Crash
    <3>1. /\ UNCHANGED <<submits, dispatched, result>> /\ circuit' = "CLOSED" /\ cooled' = TRUE
          /\ attempt' = [p \in Payments |-> 0]
          /\ \A p \in Payments : pc'[p] \in {"idle", "answered", "lost"}
      BY <2>9 DEF Crash
    <3>2. attempt' \in [Payments -> 0..MaxRetries]
      BY <3>1
    <3>. QED  BY <3>1, <3>2
  <2>. QED  BY <2>1, <2>2, <2>3, <2>4, <2>5, <2>6, <2>7, <2>8, <2>9 DEF Next, Local
<1>. QED  BY <1>1, <1>2, ShapeInvariant, PTL DEF Spec

THEOREM TypeCorrect == Spec => []TypeOK
<1>1. Shape /\ Rest => TypeOK
  BY DEF Shape, Rest, TypeOK
<1>. QED  BY <1>1, ShapeInvariant, RestInvariant, PTL

-----------------------------------------------------------------------------
\* What a payment has spent: its calls, and those its running submit may still make,
\* are at most the attempts of its submits.
Looping(p) == pc[p] \in {"calling", "sleeping"}

Spent(p) ==
  /\ Called(p) <= MaxRetries * submits[p]
  /\ Looping(p) => Called(p) + (MaxRetries - attempt[p]) <= MaxRetries * submits[p]

LEMMA SpentStep ==
  ASSUME Shape, Rest, NEW p \in Payments, Spent(p), [Next]_vars
  PROVE  Spent(p)'
<1>0. /\ MaxRetries \in Nat \ {0} /\ submits[p] \in Nat /\ attempt[p] \in Nat
      /\ calls[p] \in Seq(CallStates) /\ Called(p) \in Nat
  BY RailAssumption DEF Shape, Rest, Called
<1>1. PICK m \in Nat : m = MaxRetries * submits[p]
  BY <1>0
<1>2. MaxRetries * (submits[p] + 1) = m + MaxRetries
  BY <1>0, <1>1
<1>3. ASSUME NEW q \in Payments, Submit(q) PROVE Spent(p)'
  <2>1. CASE p # q
    BY <1>3, <2>1 DEF Submit, Admit, CallRail, Return, Goto, Spent, Looping, Called, Shape, Rest
  <2>2. CASE p = q
    <3>1. submits'[p] = submits[p] + 1
      BY <1>3, <2>2 DEF Submit, Rest
    <3>2. \/ Called(p)' = Called(p) + 1 /\ attempt'[p] = 1
          \/ Called(p)' = Called(p) /\ pc'[p] = "returned"
      <4>1. Admit(p) \/ (Return(p, "CIRCUIT_OPEN") /\ UNCHANGED calls)
        BY <1>3, <2>2, Zenon DEF Submit
      <4>2. CASE Admit(p)
        <5>1. calls'[p] = Append(calls[p], "sent") /\ attempt'[p] = 1
          BY <4>2 DEF Admit, CallRail, Shape, Rest
        <5>. QED  BY <1>0, <5>1 DEF Called
      <4>3. CASE Return(p, "CIRCUIT_OPEN") /\ UNCHANGED calls
        BY <4>3 DEF Return, Goto, Called, Shape
      <4>. QED  BY <4>1, <4>2, <4>3
    <3>3. MaxRetries * submits'[p] = m + MaxRetries
      BY <1>2, <3>1
    <3>. QED  BY <1>0, <1>1, <3>2, <3>3 DEF Spent, Looping
  <2>. QED  BY <2>1, <2>2
<1>4. ASSUME NEW q \in Payments, Retry(q) PROVE Spent(p)'
  <2>1. CASE p # q
    BY <1>4, <2>1 DEF Retry, CallRail, Goto, Spent, Looping, Called, Shape, Rest
  <2>2. CASE p = q
    <3>1. /\ calls'[p] = Append(calls[p], "sent") /\ attempt'[p] = attempt[p] + 1
          /\ submits'[p] = submits[p] /\ Looping(p) /\ attempt[p] < MaxRetries
      BY <1>4, <2>2 DEF Retry, CallRail, Looping, Shape, Rest
    <3>2. Called(p)' = Called(p) + 1
      BY <1>0, <3>1 DEF Called
    <3>. QED  BY <1>0, <1>1, <3>1, <3>2 DEF Spent
  <2>. QED  BY <2>1, <2>2
<1>5. ASSUME UNCHANGED <<calls, submits>>, Looping(p)' => Looping(p) /\ attempt'[p] = attempt[p]
      PROVE  Spent(p)'
  BY <1>5 DEF Spent, Called
<1>6. ASSUME NEW q \in Payments, Answer(q) \/ Fail(q) \/ Dispatch(q) PROVE Spent(p)'
  <2>1. UNCHANGED <<calls, submits>>
    BY <1>6 DEF Answer, AnswerSubmitted, AnswerRejected, AnswerUnknown, Fail, Dispatch
  <2>2. \/ \E outcome \in Outcomes : Return(q, outcome)
        \/ Goto(q, "answered") /\ UNCHANGED attempt
        \/ pc[q] = "calling" /\ Goto(q, "sleeping") /\ UNCHANGED attempt
    BY <1>6, Zenon DEF Answer, AnswerSubmitted, AnswerRejected, AnswerUnknown, Fail, Dispatch, Outcomes
  <2>3. Looping(p)' => Looping(p) /\ attempt'[p] = attempt[p]
    BY <2>2 DEF Return, Goto, Looping, Shape, Rest
  <2>. QED  BY <1>5, <2>1, <2>3
<1>7. ASSUME NEW q \in Payments, Rail(q) PROVE Spent(p)'
  <2>1. PICK k \in 1..Called(q), was \in CallStates :
          calls' = [calls EXCEPT ![q][k] = was] /\ UNCHANGED <<pc, attempt, submits>>
    BY <1>7 DEF Rail, RailExecutes, RailRefuses, CallDropped, Decide, CallStates
  <2>2. calls'[p] = IF p = q THEN [calls[q] EXCEPT ![k] = was] ELSE calls[p]
    BY <2>1 DEF Shape
  <2>3. Called(p)' = Called(p)
    BY <1>0, <2>2 DEF Called
  <2>. QED  BY <2>1, <2>3 DEF Spent, Looping
<1>8. CASE TimePasses \/ UNCHANGED vars
  BY <1>8 DEF TimePasses, vars, Spent, Looping, Called
<1>9. CASE Crash
  <2>1. UNCHANGED <<calls, submits>> /\ ~Looping(p)'
    BY <1>9 DEF Crash, Looping
  <2>. QED  BY <1>5, <2>1
<1>. QED  BY <1>3, <1>4, <1>6, <1>7, <1>8, <1>9 DEF Next, Local

(***************************************************************************)
(* Where the rail honours the idempotency key a payment executes at most   *)
(* once, however often it is called, retried and resubmitted, because all  *)
(* its calls carry one key; and with or without it the payment is called   *)
(* at most as often as its submits had attempts, over any crashes.         *)
(***************************************************************************)
AtMostOne(p) == Executed(p) = {} \/ \E k \in Nat : Executed(p) = {k}

THEOREM IdempotencyKeySuffices == Spec => []ExecutedOnce
<1>. DEFINE Once == \A p \in Payments : Idempotent => AtMostOne(p)
            Bounded == \A p \in Payments : Spent(p)
<1>1. Init => Once
  BY DEF Init, AtMostOne, Executed, Called
<1>2. Shape /\ Once /\ [Next]_vars => Once'
  BY ExecutedChange DEF AtMostOne
<1>3. Init => Bounded
  BY RailAssumption DEF Init, Spent, Looping, Called
<1>4. Shape /\ Rest /\ Bounded /\ [Next]_vars => Bounded'
  BY SpentStep
<1>5. Once /\ Bounded => ExecutedOnce
  <2>. SUFFICES ASSUME NEW p \in Payments, AtMostOne(p) PROVE Cardinality(Executed(p)) <= 1
    BY DEF ExecutedOnce, Spent
  <2>1. CASE Executed(p) = {}
    BY <2>1, FS_EmptySet
  <2>2. ASSUME NEW k \in Nat, Executed(p) = {k} PROVE Cardinality(Executed(p)) <= 1
    <3>1. Cardinality({k}) = 1
      BY FS_Singleton
    <3>. QED  BY <2>2, <3>1
  <2>. QED  BY <2>1, <2>2 DEF AtMostOne
<1>. QED  BY <1>1, <1>2, <1>3, <1>4, <1>5, ShapeInvariant, RestInvariant, PTL DEF Spec

-----------------------------------------------------------------------------
(***************************************************************************)
(* What stands behind a REJECTED: the rail has refused the payment, and    *)
(* where it honours the key it does not both refuse and execute.           *)
(***************************************************************************)
Standing(p) ==
  /\ ~(Executed(p) # {} /\ Refused(p) # {})
  /\ result[p] = "REJECTED" => Refused(p) # {}

LEMMA DecisionsStand ==
  ASSUME Shape, Idempotent, [Next]_vars, NEW p \in Payments, ~(Executed(p) # {} /\ Refused(p) # {})
  PROVE  /\ Refused(p) \subseteq Refused(p)'
         /\ ~(Executed(p)' # {} /\ Refused(p)' # {})
<1>0. calls[p] \in Seq(CallStates) /\ Len(calls[p]) \in Nat
  BY DEF Shape
<1>1. CASE calls'[p] = calls[p]
  BY <1>1 DEF Executed, Refused, Called
<1>2. CASE calls'[p] = Append(calls[p], "sent")
  <2>1. /\ Len(calls'[p]) = Len(calls[p]) + 1
        /\ \A k \in 1..Len(calls'[p]) : calls'[p][k] = IF k = Len(calls[p]) + 1 THEN "sent" ELSE calls[p][k]
    BY <1>0, <1>2
  <2>2. \A k \in 1..Len(calls'[p]) : k \notin 1..Len(calls[p]) => k = Len(calls[p]) + 1
    BY <1>0, <2>1
  <2>3. Executed(p)' = Executed(p)
    BY <1>0, <2>1, <2>2 DEF Executed, Called
  <2>4. Refused(p)' = Refused(p)
    BY <1>0, <2>1, <2>2 DEF Refused, Called
  <2>. QED  BY <2>3, <2>4
<1>3. ASSUME NEW k \in 1..Called(p), NEW s \in CallStates,
             calls[p][k] = "sent", calls'[p] = [calls[p] EXCEPT ![k] = s],
             s = "executed" => Refused(p) = {}, s = "refused" => Executed(p) = {}
      PROVE  /\ Refused(p) \subseteq Refused(p)'
             /\ ~(Executed(p)' # {} /\ Refused(p)' # {})
  <2>1. /\ Len(calls'[p]) = Len(calls[p])
        /\ \A j \in 1..Len(calls[p]) : calls'[p][j] = IF j = k THEN s ELSE calls[p][j]
    BY <1>0, <1>3 DEF Called
  <2>2. /\ Refused(p) \subseteq Refused(p)'
        /\ s # "refused" => Refused(p)' = Refused(p)
        /\ s # "executed" => Executed(p)' = Executed(p)
    BY <1>0, <1>3, <2>1 DEF Executed, Refused, Called
  <2>. QED  BY <1>3, <2>2
<1>4. \/ calls'[p] = calls[p]
      \/ calls'[p] = Append(calls[p], "sent")
      \/ \E k \in 1..Called(p), s \in CallStates :
           /\ calls[p][k] = "sent" /\ calls'[p] = [calls[p] EXCEPT ![k] = s]
           /\ s = "executed" => Refused(p) = {}
           /\ s = "refused" => Executed(p) = {}
  <2>1. ASSUME NEW q \in Payments, CallRail(q) PROVE calls'[p] = calls[p] \/ calls'[p] = Append(calls[p], "sent")
    BY <2>1 DEF CallRail, Shape
  <2>2. ASSUME NEW q \in Payments, Rail(q)
        PROVE  \/ calls'[p] = calls[p]
               \/ \E k \in 1..Called(p), s \in CallStates :
                    /\ calls[p][k] = "sent" /\ calls'[p] = [calls[p] EXCEPT ![k] = s]
                    /\ s = "executed" => Refused(p) = {}
                    /\ s = "refused" => Executed(p) = {}
    <3>1. PICK k \in 1..Called(q), s \in CallStates :
            /\ calls[q][k] = "sent" /\ calls' = [calls EXCEPT ![q][k] = s]
            /\ s = "executed" => Refused(q) = {}
            /\ s = "refused" => Executed(q) = {}
      BY <2>2, OneKey DEF Rail, RailExecutes, RailRefuses, CallDropped, Decide, CallStates
    <3>2. calls'[p] = IF p = q THEN [calls[q] EXCEPT ![k] = s] ELSE calls[p]
      BY <3>1 DEF Shape
    <3>. QED  BY <3>1, <3>2
  <2>3. UNCHANGED calls \/ \E q \in Payments : CallRail(q) \/ Rail(q)
    BY DEF Next, vars, Submit, Admit, Answer, AnswerSubmitted, AnswerRejected, AnswerUnknown,
           Local, Fail, Retry, Dispatch, TimePasses, Crash
  <2>. QED  BY <2>1, <2>2, <2>3
<1>. QED  BY <1>1, <1>2, <1>3, <1>4

\* A step that returns REJECTED has the rail's refusal in hand.
LEMMA RejectedInHand ==
  ASSUME Shape, ~RejectsUnsent, [Next]_vars, NEW p \in Payments, result'[p] = "REJECTED"
  PROVE  result[p] = "REJECTED" \/ (pc[p] = "calling" /\ calls[p][Called(p)] = "refused")
<1>1. CASE UNCHANGED result
  BY <1>1
<1>2. ASSUME NEW q \in Payments, NEW outcome \in Outcomes, Return(q, outcome),
             outcome = "REJECTED" => pc[q] = "calling" /\ calls[q][Called(q)] = "refused"
      PROVE  result[p] = "REJECTED" \/ (pc[p] = "calling" /\ calls[p][Called(p)] = "refused")
  BY <1>2 DEF Return, Shape
<1>3. \/ UNCHANGED result
      \/ \E q \in Payments, outcome \in Outcomes :
           /\ Return(q, outcome)
           /\ outcome = "REJECTED" => pc[q] = "calling" /\ calls[q][Called(q)] = "refused"
  BY DEF Next, vars, Submit, Admit, Answer, AnswerSubmitted, AnswerRejected, AnswerUnknown, Local,
         Fail, Retry, Dispatch, Rail, RailExecutes, RailRefuses, CallDropped, TimePasses, Crash, Outcomes
<1>. QED  BY <1>1, <1>2, <1>3

(***************************************************************************)
(* With a rail that honours the idempotency key, a REJECTED that is the    *)
(* rail's own decision stands: nothing was executed and no call under way  *)
(* can be, however many attempts and submits were given up on before.      *)
(* Both hypotheses are needed: a rail without the key may execute an old   *)
(* call after it refused a new one, and an adapter that answers REJECTED   *)
(* without the rail's decision cannot know what becomes of the old calls.  *)
(***************************************************************************)
THEOREM RejectedStaysRejected == Idempotent /\ ~RejectsUnsent => (Spec => []RejectionIsFinal)
<1>. SUFFICES ASSUME Idempotent, ~RejectsUnsent PROVE Spec => []RejectionIsFinal
  OBVIOUS
<1>. DEFINE Inv == \A p \in Payments : Standing(p)
<1>1. Init => Inv
  BY DEF Init, Standing, Executed, Refused, Called
<1>2. Shape /\ (\A p \in Payments : Backed(p)) /\ Inv /\ [Next]_vars => Inv'
  <2>. SUFFICES ASSUME Shape, NEW p \in Payments, Backed(p), Standing(p), [Next]_vars PROVE Standing(p)'
    OBVIOUS
  <2>1. pc[p] = "calling" /\ calls[p][Called(p)] = "refused" => Refused(p) # {}
    BY DEF Backed, Refused
  <2>2. Refused(p) \subseteq Refused(p)' /\ ~(Executed(p)' # {} /\ Refused(p)' # {})
    BY DecisionsStand DEF Standing
  <2>. QED  BY <2>1, <2>2, RejectedInHand DEF Standing
<1>3. Inv => RejectionIsFinal
  BY OneKey DEF Standing, RejectionIsFinal, MayStillExecute
<1>. QED  BY <1>1, <1>2, <1>3, ShapeInvariant, BackedInvariant, PTL DEF Spec

-----------------------------------------------------------------------------
(***************************************************************************)
(* The rails.  Ran(k, n): request n of submission k was executed.          *)
(***************************************************************************)
Ran(k, n) ==
  submissions[k] # None /\ n \in 1..Len(submissions[k].requests) /\ submissions[k].requests[n] = "executed"

\* The transfers some request of which was executed.
BackedRuns ==
  {x \in R!Drivers \X RailCommands : \E j \in Submissions, m \in 1..3 :
     Ran(j, m) /\ submissions[j].driver = x[1] /\ submissions[j].command = x[2]}

\* Where a submission may be, by the requests it has sent.
Placed(s) ==
  /\ Len(s.requests) <= R!MaxRetries(s.driver)
  /\ R!Scaffold(s.driver) => s.requests = <<>>
  /\ s.at # "returned" => s.answer = None /\ ~ R!Scaffold(s.driver)
  /\ s.at = "called"  => s.attempt = Len(s.requests) /\ s.attempt > 0
  /\ s.at = "token"   => s.attempt = Len(s.requests) + 1 /\ s.attempt <= R!MaxRetries(s.driver)
  /\ s.at = "waiting" => s.attempt = Len(s.requests) /\ s.attempt > 0 /\ s.attempt < R!MaxRetries(s.driver)
  /\ s.answer = "REJECTED" /\ s.attempt = 1 /\ s.driver # "stablecoin" =>
       Len(s.requests) = 1 /\ s.requests[1] \in {"refused", "unauthorized"}

Claims(s) ==
  \/ s.answer \in {"SUBMITTED", "PENDING"}
  \/ \E n \in 1..Len(s.requests) : s.requests[n] = "repeated"

RanOnce ==
  \A k, j \in Submissions : \A n, m \in 1..3 :
    /\ Ran(k, n) /\ Ran(j, m)
    /\ submissions[k].driver = submissions[j].driver /\ submissions[k].command = submissions[j].command
    /\ submissions[k].driver \in R!Keyed \/ k = j
    => k = j /\ n = m

RailTypes ==
  /\ registered \subseteq R!Drivers /\ token \in {"none", "good", "revoked"} /\ wireOpen \in BOOLEAN
  /\ railEnv = None => registered = {}
  /\ submissions \in [Submissions -> Submission \cup {None}]
  /\ progress \in [R!Drivers -> [RailCommands -> Places \cup {None}]]
  /\ reported \in [R!Drivers -> [RailCommands -> Statuses \cup {None}]]

SettledIsSettled ==
  \A d \in R!Drivers, c \in RailCommands : reported[d][c] = "SETTLED" => progress[d][c] \in {"settled", "undone"}

\* A submission is at its place, and what it claims is so.
Stands(s, drivers, backed) ==
  s.driver \in drivers /\ Placed(s) /\ (Claims(s) => <<s.driver, s.command>> \in backed)

RailStanding ==
  \A k \in Submissions : submissions[k] # None => Stands(submissions[k], registered, BackedRuns)

RailsInv == RailTypes /\ RanOnce /\ SettledIsSettled /\ RailStanding

LEMMA RetriesFew ==
  ASSUME NEW d \in R!Drivers
  PROVE  /\ R!MaxRetries(d) \in 1..3
         /\ d \notin R!Keyed => R!MaxRetries(d) = 1 \/ R!Scaffold(d)
BY DEF R!MaxRetries, R!Drivers, R!Ach, R!Keyed, R!Scaffold

Unsettled ==
  {"pending", "processing", "PDNG", "ACCP", "PENDING", "FUNDED", "CREATED",
   "failed", "cancelled", "RJCT", "FAILED", "DECLINE", "REJECTED"}

\* What the driver's words say is settled has settled.
LEMMA WordsAreTrue ==
  ASSUME NEW d \in R!Drivers, NEW p \in Places, NEW w \in R!Words[p]
  PROVE  /\ R!StatusOf(d, w) \in Statuses
         /\ R!StatusOf(d, w) = "SETTLED" => p \in {"settled", "undone"}
<1>. DEFINE Fits(m) == w \in DOMAIN m => m[w] \in Statuses /\ (w \in Unsettled => m[w] # "SETTLED")
<1>0. p \in {"settled", "undone"} \/ w \in Unsettled
  <2>1. R!Words["pending"] \subseteq Unsettled
    BY DEF R!Words, Unsettled
  <2>2. R!Words["failed"] \subseteq Unsettled
    BY DEF R!Words, Unsettled
  <2>. QED  BY <2>1, <2>2 DEF Places
<1>1. Fits(R!DwollaStatus)
  BY DEF Unsettled, Statuses, R!DwollaStatus
<1>2. Fits(R!ModernTreasuryStatus)
  BY DEF Unsettled, Statuses, R!ModernTreasuryStatus
<1>3. Fits(R!ColumnStatus)
  BY DEF Unsettled, Statuses, R!ColumnStatus
<1>4. Fits(R!FedNowStatus)
  BY DEF Unsettled, Statuses, R!FedNowStatus
<1>5. Fits(R!RtpStatus)
  BY <1>4 DEF R!RtpStatus
<1>6. Fits(R!WireStatus)
  BY DEF Unsettled, Statuses, R!WireStatus
<1>7. Fits(R!SepaStatus)
  BY DEF Unsettled, Statuses, R!SepaStatus
<1>8. Fits(R!SwiftStatus)
  BY <1>7 DEF R!SwiftStatus
<1>9. Fits(R!CardStatus)
  BY DEF Unsettled, Statuses, R!CardStatus
<1>10. Fits(R!StablecoinStatus)
  BY DEF Unsettled, Statuses, R!StablecoinStatus
<1>11. Fits(R!SovrStatus)
  BY DEF Unsettled, Statuses, R!SovrStatus
<1>. HIDE DEF Fits
<1>12. d \in DOMAIN R!StatusMaps => Fits(R!StatusMaps[d])
  BY <1>1, <1>2, <1>3, <1>4, <1>5, <1>6, <1>7, <1>8, <1>9, <1>10, <1>11 DEF R!StatusMaps
<1>13. R!Unknown \in Statuses /\ R!Unknown # "SETTLED"
  BY DEF Statuses, R!Unknown
<1>. QED  BY <1>0, <1>12, <1>13 DEF R!StatusOf, Fits

\* A driver's reading of an answer says what its rail did of the request.
LEMMA ReadingsAreTrue ==
  ASSUME NEW d \in R!Drivers, ~ R!Scaffold(d), NEW took \in RequestStates, NEW r \in R!Replies[took]
  PROVE  /\ R!Classify(d, r) \in R!Results
         /\ R!Classify(d, r) \in {"SUBMITTED", "PENDING"} => took \in {"executed", "repeated"}
         /\ R!Classify(d, r) = "REJECTED" /\ d # "stablecoin" => took \in {"refused", "unauthorized"}
<1>. DEFINE Reads(m) == /\ m[r] \in R!Results
                        /\ m[r] \in {"SUBMITTED", "PENDING"} => r \in {"ok", "other"}
                        /\ m[r] = "REJECTED" /\ m # R!StablecoinSubmit => r \in {"invalid", "client"}
<1>0. /\ r \in {"ok", "other", "invalid", "client", "server"}
      /\ r \in {"ok", "other"} => took \in {"executed", "repeated"}
      /\ r \in {"invalid", "client"} => took \in {"refused", "unauthorized"}
  BY DEF R!Replies, R!Done, RequestStates
<1>1. Reads(R!ByStatus)
  BY <1>0 DEF R!ByStatus, R!Results, R!Unknown
<1>2. Reads(R!ByWord)
  BY <1>0 DEF R!ByWord, R!Results, R!Unknown
<1>3. Reads(R!ModernTreasurySubmit)
  BY <1>0 DEF R!ModernTreasurySubmit, R!ByStatus, R!Results, R!Unknown
<1>4. Reads(R!CardSubmit)
  BY <1>0 DEF R!CardSubmit, R!Results, R!Unknown
<1>5. Reads(R!StablecoinSubmit)
  BY <1>0 DEF R!StablecoinSubmit, R!ByStatus, R!Results, R!Unknown
<1>. HIDE DEF Reads
<1>6. Reads(R!Readings[d])
  BY <1>1, <1>2, <1>3, <1>4, <1>5
     DEF R!Readings, R!Drivers, R!Ach, R!Scaffold, R!DwollaSubmit, R!ColumnSubmit, R!FedNowSubmit, R!RtpSubmit,
         R!WireSubmit, R!SepaSubmit, R!SwiftSubmit, R!SovrSubmit
<1>7. d # "stablecoin" => R!Readings[d] # R!StablecoinSubmit
  <2>1. /\ R!ByStatus.server # R!StablecoinSubmit.server /\ R!ByWord.server # R!StablecoinSubmit.server
        /\ R!ModernTreasurySubmit.server # R!StablecoinSubmit.server /\ R!CardSubmit.server # R!StablecoinSubmit.server
    BY DEF R!ByStatus, R!ByWord, R!ModernTreasurySubmit, R!CardSubmit, R!StablecoinSubmit, R!Unknown
  <2>. QED
    BY <2>1 DEF R!Readings, R!Drivers, R!Ach, R!Scaffold, R!DwollaSubmit, R!ColumnSubmit, R!FedNowSubmit, R!RtpSubmit,
         R!WireSubmit, R!SepaSubmit, R!SwiftSubmit, R!SovrSubmit
<1>. QED  BY <1>0, <1>6, <1>7 DEF R!Classify, Reads

-----------------------------------------------------------------------------
\* A submission that goes on with its requests as they are, or with another one that is
\* yet to be answered, changes nothing of what was executed.
GoesOn(s, t) ==
  /\ t.driver = s.driver /\ t.command = s.command
  /\ Len(s.requests) <= Len(t.requests)
  /\ \A n \in 1..Len(s.requests) : t.requests[n] = s.requests[n]
  /\ \A n \in 1..Len(t.requests) : n > Len(s.requests) => t.requests[n] \in {"sent", "unsent"}

LEMMA SubmissionFacts ==
  ASSUME RailsInv, NEW k \in Submissions, submissions[k] # None
  PROVE  /\ submissions[k] \in Submission /\ Stands(submissions[k], registered, BackedRuns)
         /\ Placed(submissions[k])
         /\ Len(submissions[k].requests) \in 0..3 /\ submissions[k].driver \in R!Drivers
         /\ submissions[k].command \in RailCommands /\ submissions[k].requests \in Seq(RequestStates)
         /\ \A n \in 1..Len(submissions[k].requests) : submissions[k].requests[n] \in RequestStates
<1>1. submissions[k] \in Submission
  BY DEF RailsInv, RailTypes
<1>2. Stands(submissions[k], registered, BackedRuns)
  BY DEF RailsInv, RailStanding
<1>3. Placed(submissions[k])
  BY <1>2 DEF Stands
<1>4. submissions[k].driver \in R!Drivers /\ submissions[k].requests \in Seq(RequestStates)
      /\ submissions[k].command \in RailCommands
  BY <1>1 DEF Submission
<1>5. Len(submissions[k].requests) <= R!MaxRetries(submissions[k].driver)
  BY <1>3 DEF Placed
<1>6. R!MaxRetries(submissions[k].driver) \in 1..3
  BY <1>4, RetriesFew
<1>7. Len(submissions[k].requests) \in Nat
  BY <1>4
<1>8. Len(submissions[k].requests) \in 0..3
  <2>1. \A a \in Nat, b \in 1..3 : a <= b => a \in 0..3
    OBVIOUS
  <2>. QED  BY <1>5, <1>6, <1>7, <2>1
<1>9. \A n \in 1..Len(submissions[k].requests) : submissions[k].requests[n] \in RequestStates
  BY <1>4
<1>. QED  BY <1>1, <1>2, <1>3, <1>4, <1>8, <1>9

\* Submission k goes on as s.
Follows(k, s) ==
  IF submissions[k] = None THEN \A n \in 1..Len(s.requests) : s.requests[n] \in {"sent", "unsent"}
  ELSE GoesOn(submissions[k], s)

LEMMA OneGoesOn ==
  ASSUME RailsInv, NEW k \in Submissions, NEW s \in Submission, submissions' = [submissions EXCEPT ![k] = s],
         UNCHANGED registered, Stands(s, registered, BackedRuns), Follows(k, s)
  PROVE  RanOnce' /\ RailStanding' /\ submissions' \in [Submissions -> Submission \cup {None}]
<1>0. submissions' \in [Submissions -> Submission \cup {None}] /\ submissions'[k] = s /\ s # None
      /\ \A j \in Submissions : j # k => submissions'[j] = submissions[j]
  BY RailsAssumption DEF RailsInv, RailTypes
<1>1. ASSUME NEW j \in Submissions, NEW n \in 1..3 PROVE Ran(j, n)' <=> Ran(j, n)
  <2>1. CASE j # k
    BY <1>0, <2>1 DEF Ran
  <2>2. CASE j = k /\ submissions[k] = None
    BY <1>0, <2>2 DEF Ran, Follows
  <2>3. CASE j = k /\ submissions[k] # None
    <3>1. Len(submissions[k].requests) \in Nat /\ Len(s.requests) \in Nat
      <4>1. s.requests \in Seq(RequestStates)
        BY DEF Submission
      <4>. QED  BY <2>3, <4>1, SubmissionFacts
    <3>. QED  BY <1>0, <2>3, <3>1 DEF Ran, GoesOn, Follows
  <2>. QED  BY <2>1, <2>2, <2>3
<1>2. ASSUME NEW j \in Submissions, NEW n \in 1..3, Ran(j, n)
      PROVE  submissions'[j].driver = submissions[j].driver /\ submissions'[j].command = submissions[j].command
  BY <1>0, <1>2 DEF Ran, GoesOn, Follows
<1>3. RanOnce'
  <2>1. RanOnce
    BY DEF RailsInv
  <2>. QED  BY <1>1, <1>2, <2>1 DEF RanOnce
<1>4. BackedRuns \subseteq BackedRuns'
  <2>1. ASSUME NEW x \in R!Drivers \X RailCommands, NEW j \in Submissions, NEW m \in 1..3,
               Ran(j, m), submissions[j].driver = x[1], submissions[j].command = x[2]
        PROVE  x \in BackedRuns'
    BY <1>1, <1>2, <2>1 DEF BackedRuns
  <2>. QED  BY <2>1 DEF BackedRuns
<1>5. ASSUME NEW j \in Submissions, submissions'[j] # None
      PROVE  Stands(submissions'[j], registered', BackedRuns')
  <2>1. CASE j = k
    BY <1>0, <1>4, <2>1 DEF Stands
  <2>2. CASE j # k
    <3>1. submissions'[j] = submissions[j] /\ submissions[j] # None
      BY <1>0, <1>5, <2>2
    <3>2. Stands(submissions[j], registered, BackedRuns)
      BY <3>1, SubmissionFacts
    <3>. QED  BY <1>4, <3>1, <3>2 DEF Stands
  <2>. QED  BY <2>1, <2>2
<1>6. RailStanding'
  BY <1>5 DEF RailStanding
<1>. QED  BY <1>0, <1>3, <1>6

\* The fields of a submission that goes on.
LEMMA Fields ==
  ASSUME NEW s \in Submission, NEW answer, NEW t
  PROVE  /\ t = R!Sent(s) => t = [driver |-> s.driver, command |-> s.command, attempt |-> s.attempt, at |-> "called",
                                 answer |-> s.answer, requests |-> Append(s.requests, "sent")]
         /\ t = R!Waits(s) => t = [driver |-> s.driver, command |-> s.command, attempt |-> s.attempt, at |-> "waiting",
                                  answer |-> s.answer,
                                  requests |-> IF s.at = "token" THEN Append(s.requests, "unsent") ELSE s.requests]
         /\ t = R!Told(s, answer) => t = [driver |-> s.driver, command |-> s.command, attempt |-> s.attempt,
                                         at |-> "returned", answer |-> answer, requests |-> s.requests]
         /\ t = R!Shut(s) => t = [driver |-> s.driver, command |-> s.command, attempt |-> s.attempt + 1,
                                 at |-> "returned", answer |-> "REJECTED", requests |-> s.requests]
<1>1. s = [driver |-> s.driver, command |-> s.command, attempt |-> s.attempt, at |-> s.at, answer |-> s.answer,
           requests |-> s.requests]
  BY DEF Submission
<1>2. t = R!Sent(s) => t = [driver |-> s.driver, command |-> s.command, attempt |-> s.attempt, at |-> "called",
                            answer |-> s.answer, requests |-> Append(s.requests, "sent")]
  BY <1>1 DEF R!Sent
<1>3. t = R!Waits(s) => t = [driver |-> s.driver, command |-> s.command, attempt |-> s.attempt, at |-> "waiting",
                             answer |-> s.answer,
                             requests |-> IF s.at = "token" THEN Append(s.requests, "unsent") ELSE s.requests]
  BY <1>1 DEF R!Waits
<1>4. t = R!Told(s, answer) => t = [driver |-> s.driver, command |-> s.command, attempt |-> s.attempt,
                                    at |-> "returned", answer |-> answer, requests |-> s.requests]
  BY <1>1 DEF R!Told
<1>5. t = R!Shut(s) => t = [driver |-> s.driver, command |-> s.command, attempt |-> s.attempt + 1,
                            at |-> "returned", answer |-> "REJECTED", requests |-> s.requests]
  BY <1>1 DEF R!Shut, R!Told
<1>. QED  BY <1>2, <1>3, <1>4, <1>5

\* The next attempt sends one request more, or waits for a token first.
LEMMA NextAttempt ==
  ASSUME NEW s \in Submission, s.answer = None, ~ R!Scaffold(s.driver), s.attempt = Len(s.requests),
         s.attempt < R!MaxRetries(s.driver), NEW t, t = R!Next1(s)
  PROVE  t \in Submission /\ Placed(t) /\ GoesOn(s, t) /\ t.answer = None
<1>1. /\ s = [driver |-> s.driver, command |-> s.command, attempt |-> s.attempt, at |-> s.at, answer |-> s.answer,
              requests |-> s.requests]
      /\ s.driver \in R!Drivers /\ s.command \in RailCommands /\ s.attempt \in Nat
      /\ s.answer \in R!Results \cup {None} /\ s.requests \in Seq(RequestStates)
  BY DEF Submission
<1>2. "sent" \in RequestStates
  BY DEF RequestStates
<1>3. R!MaxRetries(s.driver) \in 1..3
  BY <1>1, RetriesFew
<1>4. None # "REJECTED"
  BY RailsAssumption DEF R!Results
<1>5. CASE R!NeedsToken(s.driver)
  <2>1. t = [driver |-> s.driver, command |-> s.command, attempt |-> s.attempt + 1, at |-> "token",
             answer |-> s.answer, requests |-> s.requests]
    BY <1>1, <1>5 DEF R!Next1
  <2>2. t \in Submission
    BY <1>1, <2>1 DEF Submission
  <2>3. Placed(t)
    BY <1>1, <1>3, <1>4, <2>1 DEF Placed
  <2>4. GoesOn(s, t)
    BY <1>1, <2>1 DEF GoesOn
  <2>. QED  BY <2>1, <2>2, <2>3, <2>4
<1>6. CASE ~ R!NeedsToken(s.driver)
  <2>1. t = [driver |-> s.driver, command |-> s.command, attempt |-> s.attempt + 1, at |-> "called",
             answer |-> s.answer, requests |-> Append(s.requests, "sent")]
    BY <1>1, <1>6 DEF R!Next1, R!Sent
  <2>2. /\ t.requests \in Seq(RequestStates) /\ Len(t.requests) = Len(s.requests) + 1
        /\ t.requests[Len(s.requests) + 1] = "sent" /\ \A n \in 1..Len(s.requests) : t.requests[n] = s.requests[n]
        /\ Len(s.requests) \in Nat
    BY <1>1, <1>2, <2>1
  <2>3. t \in Submission
    BY <1>1, <2>1, <2>2 DEF Submission
  <2>4. Placed(t)
    BY <1>1, <1>3, <1>4, <2>1, <2>2 DEF Placed
  <2>5. GoesOn(s, t)
    BY <1>1, <2>1, <2>2 DEF GoesOn
  <2>. QED  BY <2>1, <2>3, <2>4, <2>5
<1>. QED  BY <1>5, <1>6

\* A submission that goes on without an answer claims what it claimed before.
LEMMA ClaimsKept ==
  ASSUME NEW s \in Submission, NEW t \in Submission, GoesOn(s, t), Claims(t), t.answer \notin {"SUBMITTED", "PENDING"}
  PROVE  Claims(s)
<1>1. PICK n \in 1..Len(t.requests) : t.requests[n] = "repeated"
  BY DEF Claims
<1>2. Len(s.requests) \in Nat /\ Len(t.requests) \in Nat
  BY DEF Submission
<1>3. n \in 1..Len(s.requests)
  BY <1>1, <1>2 DEF GoesOn
<1>. QED  BY <1>1, <1>3 DEF Claims, GoesOn

\* The step of a submission that goes on and makes no new claim.
LEMMA GoesOnQuietly ==
  ASSUME RailsInv, NEW k \in Submissions, submissions[k] # None, NEW t \in Submission, Placed(t),
         GoesOn(submissions[k], t), t.answer \notin {"SUBMITTED", "PENDING"},
         submissions' = [submissions EXCEPT ![k] = t], UNCHANGED <<railEnv, registered, wireOpen, progress, reported>>,
         token' \in {"none", "good", "revoked"}
  PROVE  RailsInv'
<1>1. Stands(t, registered, BackedRuns)
  <2>1. submissions[k] \in Submission /\ Stands(submissions[k], registered, BackedRuns)
    BY SubmissionFacts
  <2>2. Claims(t) => Claims(submissions[k])
    BY <2>1, ClaimsKept
  <2>3. t.driver = submissions[k].driver /\ t.command = submissions[k].command
    BY DEF GoesOn
  <2>. QED  BY <2>1, <2>2, <2>3 DEF Stands
<1>2. Follows(k, t)
  BY DEF Follows
<1>3. RanOnce' /\ RailStanding' /\ submissions' \in [Submissions -> Submission \cup {None}]
  BY <1>1, <1>2, OneGoesOn
<1>4. RailTypes'
  BY <1>3 DEF RailsInv, RailTypes
<1>5. SettledIsSettled'
  BY DEF RailsInv, SettledIsSettled
<1>. QED  BY <1>3, <1>4, <1>5 DEF RailsInv

LEMMA SubmitKeeps ==
  ASSUME RailsInv, NEW k \in Submissions, NEW d \in R!Drivers, NEW c \in RailCommands, R!Submit(k, d, c)
  PROVE  RailsInv'
<1>. DEFINE new == R!New(d, c)
            t == submissions'[k]
<1>1. /\ submissions[k] = None /\ d \in registered
      /\ submissions' = [submissions EXCEPT ![k] =
           IF R!Scaffold(d) THEN [new EXCEPT !.answer = R!Unknown]
           ELSE IF d = "wire" /\ ~wireOpen THEN [new EXCEPT !.answer = "REJECTED"] ELSE R!Next1(new)]
      /\ UNCHANGED <<railEnv, registered, token, wireOpen, progress, reported>>
  BY DEF R!Submit, R!Rest
<1>2. submissions \in [Submissions -> Submission \cup {None}]
  BY DEF RailsInv, RailTypes
<1>3. new = [driver |-> d, command |-> c, attempt |-> 0, at |-> "returned", answer |-> None, requests |-> <<>>]
  BY DEF R!New
<1>. HIDE DEF new, t
<1>4. new \in Submission /\ new.driver = d /\ new.requests = <<>> /\ Len(new.requests) = 0 /\ new.attempt = 0
      /\ new.answer = None
  <2>1. <<>> \in Seq(RequestStates) /\ Len(<<>>) = 0
    OBVIOUS
  <2>. QED  BY <1>3, <2>1 DEF Submission
<1>5. R!MaxRetries(d) \in 1..3
  BY RetriesFew
<1>6. t = IF R!Scaffold(d) THEN [new EXCEPT !.answer = R!Unknown]
           ELSE IF d = "wire" /\ ~wireOpen THEN [new EXCEPT !.answer = "REJECTED"] ELSE R!Next1(new)
  BY <1>1, <1>2 DEF t
<1>7. /\ t \in Submission /\ Placed(t) /\ t.answer \notin {"SUBMITTED", "PENDING"} /\ t.driver = d
      /\ \A n \in 1..Len(t.requests) : t.requests[n] \in {"sent", "unsent"}
  <2>1. ASSUME NEW a \in {R!Unknown, "REJECTED"}, t = [new EXCEPT !.answer = a]
        PROVE  /\ t \in Submission /\ Placed(t) /\ t.answer \notin {"SUBMITTED", "PENDING"} /\ t.driver = d
               /\ \A n \in 1..Len(t.requests) : t.requests[n] \in {"sent", "unsent"}
    <3>1. t = [driver |-> d, command |-> c, attempt |-> 0, at |-> "returned", answer |-> a, requests |-> <<>>]
      BY <1>3, <2>1
    <3>2. <<>> \in Seq(RequestStates) /\ Len(<<>>) = 0 /\ \A n : n \notin 1..0
      OBVIOUS
    <3>3. a \in R!Results /\ a \notin {"SUBMITTED", "PENDING"}
      BY <2>1 DEF R!Results, R!Unknown
    <3>4. t \in Submission
      BY <3>1, <3>2, <3>3 DEF Submission
    <3>5. Placed(t)
      BY <1>5, <3>1, <3>2 DEF Placed
    <3>. QED  BY <3>1, <3>2, <3>3, <3>4, <3>5
  <2>2. CASE ~ R!Scaffold(d) /\ ~ (d = "wire" /\ ~wireOpen)
    <3>1. t = R!Next1(new)
      BY <1>6, <2>2
    <3>2. t \in Submission /\ Placed(t) /\ GoesOn(new, t) /\ t.answer = None
      BY <1>4, <1>5, <2>2, <3>1, NextAttempt
    <3>3. \A n \in 1..Len(t.requests) : t.requests[n] \in {"sent", "unsent"}
      BY <1>4, <3>2 DEF GoesOn
    <3>4. None \notin {"SUBMITTED", "PENDING"}
      BY RailsAssumption DEF R!Results
    <3>. QED  BY <1>4, <3>2, <3>3, <3>4 DEF GoesOn
  <2>. QED  BY <1>6, <2>1, <2>2
<1>8. ~ Claims(t)
  BY <1>7 DEF Claims
<1>9. Stands(t, registered, BackedRuns) /\ Follows(k, t) /\ submissions' = [submissions EXCEPT ![k] = t]
  BY <1>1, <1>6, <1>7, <1>8 DEF Stands, Follows
<1>10. RanOnce' /\ RailStanding' /\ submissions' \in [Submissions -> Submission \cup {None}]
  BY <1>1, <1>7, <1>9, OneGoesOn
<1>11. RailTypes'
  BY <1>1, <1>10 DEF RailsInv, RailTypes
<1>12. SettledIsSettled'
  BY <1>1 DEF RailsInv, SettledIsSettled
<1>. QED  BY <1>10, <1>11, <1>12 DEF RailsInv

LEMMA TokenFetchedKeeps ==
  ASSUME RailsInv, NEW k \in Submissions, R!TokenFetched(k)
  PROVE  RailsInv'
<1>. DEFINE s == submissions[k]
            t == R!Sent(s)
            u == [driver |-> s.driver, command |-> s.command, attempt |-> s.attempt, at |-> "called",
                  answer |-> s.answer, requests |-> Append(s.requests, "sent")]
<1>1. s # None /\ s.at = "token" /\ token' = "good" /\ UNCHANGED <<railEnv, registered, wireOpen, progress, reported>>
      /\ submissions' = [submissions EXCEPT ![k] = t]
  BY DEF R!TokenFetched
<1>2. s \in Submission /\ Placed(s) /\ s.requests \in Seq(RequestStates) /\ s.driver \in R!Drivers
  BY <1>1, SubmissionFacts
<1>. HIDE DEF s
<1>3. s.attempt \in Nat /\ s.answer = None /\ ~ R!Scaffold(s.driver) /\ s.attempt = Len(s.requests) + 1
      /\ s.attempt <= R!MaxRetries(s.driver)
  BY <1>1, <1>2 DEF Placed, Submission
<1>0. t = R!Sent(s)
  OBVIOUS
<1>. HIDE DEF t
<1>4. t = u
  BY <1>0, <1>2, Fields
<1>5. /\ Append(s.requests, "sent") \in Seq(RequestStates) /\ Len(Append(s.requests, "sent")) = Len(s.requests) + 1
      /\ Append(s.requests, "sent")[Len(s.requests) + 1] = "sent" /\ Len(s.requests) \in Nat
      /\ \A n \in 1..Len(s.requests) : Append(s.requests, "sent")[n] = s.requests[n]
  <2>1. "sent" \in RequestStates
    BY DEF RequestStates
  <2>. QED  BY <1>2, <2>1
<1>6. None \notin {"SUBMITTED", "PENDING", "REJECTED"}
  BY RailsAssumption DEF R!Results
<1>7. R!MaxRetries(s.driver) \in 1..3
  BY <1>2, RetriesFew
<1>. HIDE DEF t
<1>8. t \in Submission
  BY <1>2, <1>3, <1>4, <1>5 DEF Submission
<1>9. Placed(t)
  BY <1>3, <1>4, <1>5, <1>6, <1>7 DEF Placed
<1>10. GoesOn(s, t)
  BY <1>4, <1>5 DEF GoesOn
<1>11. t.answer \notin {"SUBMITTED", "PENDING"} /\ token' \in {"none", "good", "revoked"}
  BY <1>1, <1>3, <1>4, <1>6
<1>. QED  BY <1>1, <1>8, <1>9, <1>10, <1>11, GoesOnQuietly DEF s

LEMMA ExceptionKeeps ==
  ASSUME RailsInv, NEW k \in Submissions, R!Exception(k)
  PROVE  RailsInv'
<1>. DEFINE s == submissions[k]
            sent == IF s.at = "token" THEN Append(s.requests, "unsent") ELSE s.requests
            waits == R!Waits(s)
            fails == R!Told(s, R!Unknown)
<1>1. /\ s # None /\ s.at \in {"called", "token"}
      /\ UNCHANGED <<railEnv, registered, token, wireOpen, progress, reported>>
      /\ IF s.attempt < R!MaxRetries(s.driver) THEN submissions' = [submissions EXCEPT ![k] = waits]
         ELSE submissions' = [submissions EXCEPT ![k] = fails]
  BY DEF R!Exception, R!Return, R!Rest
<1>2. s \in Submission /\ Placed(s) /\ s.requests \in Seq(RequestStates) /\ s.driver \in R!Drivers
  BY <1>1, SubmissionFacts
<1>. HIDE DEF s
<1>3. /\ s.attempt \in Nat /\ s.answer = None /\ ~ R!Scaffold(s.driver) /\ Len(s.requests) \in Nat
      /\ s.attempt = (IF s.at = "token" THEN Len(s.requests) + 1 ELSE Len(s.requests)) /\ s.attempt > 0
      /\ Len(s.requests) <= R!MaxRetries(s.driver) /\ R!MaxRetries(s.driver) \in 1..3
  <2>1. R!MaxRetries(s.driver) \in 1..3
    BY <1>2, RetriesFew
  <2>2. s.attempt \in Nat /\ Len(s.requests) \in Nat
    BY <1>2 DEF Submission
  <2>3. s.answer = None /\ ~ R!Scaffold(s.driver) /\ Len(s.requests) <= R!MaxRetries(s.driver)
    BY <1>1, <1>2 DEF Placed
  <2>4. CASE s.at = "token"
    BY <1>2, <2>1, <2>2, <2>3, <2>4 DEF Placed
  <2>5. CASE s.at = "called"
    BY <1>2, <2>1, <2>2, <2>3, <2>5 DEF Placed
  <2>. QED  BY <1>1, <2>4, <2>5
<1>4. None \notin {"SUBMITTED", "PENDING", "REJECTED"} /\ R!Unknown \notin {"SUBMITTED", "PENDING", "REJECTED"}
      /\ R!Unknown \in R!Results
  BY RailsAssumption DEF R!Results, R!Unknown
<1>7. waits = R!Waits(s) /\ fails = R!Told(s, R!Unknown)
  OBVIOUS
<1>. HIDE DEF waits, fails
<1>5. CASE s.attempt < R!MaxRetries(s.driver)
  <2>1. /\ sent \in Seq(RequestStates) /\ Len(sent) = s.attempt
        /\ \A n \in 1..Len(s.requests) : sent[n] = s.requests[n]
        /\ \A n \in 1..Len(sent) : n > Len(s.requests) => sent[n] \in {"sent", "unsent"}
    <3>1. CASE s.at = "token"
      <4>1. "unsent" \in RequestStates
        BY DEF RequestStates
      <4>. QED  BY <1>2, <1>3, <3>1, <4>1
    <3>2. CASE s.at # "token"
      BY <1>2, <1>3, <3>2
    <3>. QED  BY <3>1, <3>2
  <2>. HIDE DEF sent
  <2>2. waits = [driver |-> s.driver, command |-> s.command, attempt |-> s.attempt, at |-> "waiting",
                 answer |-> s.answer, requests |-> sent]
    BY <1>2, <1>7, Fields DEF sent
  <2>3. submissions' = [submissions EXCEPT ![k] = waits]
    BY <1>1, <1>5
  <2>4. waits \in Submission
    BY <1>2, <2>1, <2>2 DEF Submission
  <2>5. Placed(waits)
    BY <1>3, <1>4, <1>5, <2>1, <2>2 DEF Placed
  <2>6. GoesOn(s, waits)
    BY <1>3, <2>1, <2>2 DEF GoesOn
  <2>7. waits.answer \notin {"SUBMITTED", "PENDING"} /\ token' \in {"none", "good", "revoked"}
    <3>1. waits.answer = None
      BY <1>3, <2>2
    <3>. QED  BY <1>1, <1>4, <3>1 DEF RailsInv, RailTypes
  <2>. QED  BY <1>1, <2>3, <2>4, <2>5, <2>6, <2>7, GoesOnQuietly DEF s
<1>6. CASE ~ (s.attempt < R!MaxRetries(s.driver))
  <2>2. fails = [driver |-> s.driver, command |-> s.command, attempt |-> s.attempt, at |-> "returned",
                 answer |-> R!Unknown, requests |-> s.requests]
    BY <1>2, <1>7, Fields
  <2>3. submissions' = [submissions EXCEPT ![k] = fails]
    BY <1>1, <1>6
  <2>4. fails \in Submission
    BY <1>2, <1>4, <2>2 DEF Submission
  <2>5. Placed(fails)
    BY <1>3, <1>4, <2>2 DEF Placed
  <2>6. GoesOn(s, fails)
    BY <1>3, <2>2 DEF GoesOn
  <2>7. fails.answer \notin {"SUBMITTED", "PENDING"} /\ token' \in {"none", "good", "revoked"}
    <3>1. fails.answer = R!Unknown
      BY <2>2
    <3>. QED  BY <1>1, <1>4, <3>1 DEF RailsInv, RailTypes
  <2>. QED  BY <1>1, <2>3, <2>4, <2>5, <2>6, <2>7, GoesOnQuietly DEF s
<1>. QED  BY <1>5, <1>6

LEMMA RetryKeeps ==
  ASSUME RailsInv, NEW k \in Submissions, R!Retry(k)
  PROVE  RailsInv'
<1>. DEFINE s == submissions[k]
            shut == R!Shut(s)
<1>1. /\ s # None /\ s.at = "waiting"
      /\ UNCHANGED <<railEnv, registered, token, wireOpen, progress, reported>>
      /\ IF s.driver = "wire" /\ ~wireOpen THEN submissions' = [submissions EXCEPT ![k] = shut]
         ELSE submissions' = [submissions EXCEPT ![k] = R!Next1(s)]
  BY DEF R!Retry, R!Rest
<1>2. s \in Submission /\ Placed(s) /\ s.requests \in Seq(RequestStates) /\ s.driver \in R!Drivers
      /\ token' \in {"none", "good", "revoked"}
  BY <1>1, SubmissionFacts DEF RailsInv, RailTypes
<1>. HIDE DEF s
<1>3. /\ s.attempt \in Nat /\ s.answer = None /\ ~ R!Scaffold(s.driver) /\ Len(s.requests) \in Nat
      /\ s.attempt = Len(s.requests) /\ s.attempt > 0 /\ s.attempt < R!MaxRetries(s.driver)
  BY <1>1, <1>2 DEF Placed, Submission
<1>4. CASE s.driver = "wire" /\ ~wireOpen
  <2>1. shut = R!Shut(s)
    OBVIOUS
  <2>3. submissions' = [submissions EXCEPT ![k] = shut]
    BY <1>1, <1>4
  <2>. HIDE DEF shut
  <2>2. shut = [driver |-> s.driver, command |-> s.command, attempt |-> s.attempt + 1, at |-> "returned",
                answer |-> "REJECTED", requests |-> s.requests]
    BY <1>2, <2>1, Fields
  <2>4. shut \in Submission
    BY <1>2, <1>3, <2>2 DEF Submission, R!Results
  <2>5. Placed(shut)
    <3>1. R!MaxRetries(s.driver) \in 1..3
      BY <1>2, RetriesFew
    <3>. QED  BY <1>3, <2>2, <3>1 DEF Placed
  <2>6. GoesOn(s, shut)
    BY <1>3, <2>2 DEF GoesOn
  <2>7. shut.answer \notin {"SUBMITTED", "PENDING"}
    BY <2>2
  <2>. QED  BY <1>1, <1>2, <2>3, <2>4, <2>5, <2>6, <2>7, GoesOnQuietly DEF s
<1>5. CASE ~ (s.driver = "wire" /\ ~wireOpen)
  <2>. DEFINE t == R!Next1(s)
  <2>1. submissions' = [submissions EXCEPT ![k] = t]
    BY <1>1, <1>5
  <2>2. t = R!Next1(s)
    OBVIOUS
  <2>. HIDE DEF t
  <2>3. t \in Submission /\ Placed(t) /\ GoesOn(s, t) /\ t.answer = None
    BY <1>2, <1>3, <2>2, NextAttempt
  <2>4. None \notin {"SUBMITTED", "PENDING"}
    BY RailsAssumption DEF R!Results
  <2>. QED  BY <1>1, <1>2, <2>1, <2>3, <2>4, GoesOnQuietly DEF s
<1>. QED  BY <1>4, <1>5

LEMMA AnsweredKeeps ==
  ASSUME RailsInv, NEW k \in Submissions, R!Answered(k)
  PROVE  RailsInv'
<1>. DEFINE s == submissions[k]
            took == s.requests[s.attempt]
<1>1. s # None /\ s.at = "called" /\ UNCHANGED <<railEnv, registered, token, wireOpen, progress, reported>>
  BY DEF R!Answered, R!Rest
<1>2. PICK r \in R!Replies[took] : submissions' = [submissions EXCEPT ![k] = R!Told(s, R!Classify(s.driver, r))]
  BY DEF R!Answered, R!Return, R!Request
<1>. DEFINE answer == R!Classify(s.driver, r)
            t == R!Told(s, answer)
<1>3. /\ s \in Submission /\ Placed(s) /\ s.requests \in Seq(RequestStates) /\ s.driver \in R!Drivers
      /\ s.command \in RailCommands /\ Stands(s, registered, BackedRuns) /\ Len(s.requests) \in 0..3
      /\ \A n \in 1..Len(s.requests) : s.requests[n] \in RequestStates
  BY <1>1, SubmissionFacts
<1>4. t = R!Told(s, answer) /\ submissions' = [submissions EXCEPT ![k] = t]
  BY <1>2
<1>. HIDE DEF s, answer, t
<1>5. /\ ~ R!Scaffold(s.driver) /\ s.attempt = Len(s.requests) /\ s.attempt \in 1..3 /\ s.attempt \in Nat
      /\ s.attempt \in 1..Len(s.requests)
  <2>1. ~ R!Scaffold(s.driver) /\ s.attempt = Len(s.requests) /\ s.attempt > 0
    BY <1>1, <1>3 DEF Placed
  <2>2. \A a \in 0..3 : a > 0 => a \in 1..3 /\ a \in Nat /\ a \in 1..a
    OBVIOUS
  <2>. QED  BY <1>3, <2>1, <2>2
<1>6. took \in RequestStates /\ took = s.requests[s.attempt]
  BY <1>3, <1>5
<1>. HIDE DEF took
<1>7. /\ answer \in R!Results
      /\ answer \in {"SUBMITTED", "PENDING"} => took \in {"executed", "repeated"}
      /\ answer = "REJECTED" /\ s.driver # "stablecoin" => took \in {"refused", "unauthorized"}
  BY <1>2, <1>3, <1>5, <1>6, ReadingsAreTrue DEF answer
<1>8. t = [driver |-> s.driver, command |-> s.command, attempt |-> s.attempt, at |-> "returned", answer |-> answer,
           requests |-> s.requests]
  BY <1>3, <1>4, Fields
<1>9. t \in Submission
  BY <1>3, <1>5, <1>7, <1>8 DEF Submission
<1>10. Placed(t)
  BY <1>3, <1>5, <1>6, <1>7, <1>8 DEF Placed
<1>11. Claims(t) => <<s.driver, s.command>> \in BackedRuns
  <2>1. CASE took = "executed"
    <3>1. Ran(k, s.attempt)
      BY <1>1, <1>5, <1>6, <2>1 DEF Ran, s
    <3>. QED  BY <1>3, <1>5, <3>1 DEF BackedRuns, s
  <2>2. CASE took # "executed"
    <3>1. Claims(t) => Claims(s)
      BY <1>3, <1>5, <1>6, <1>7, <1>8, <2>2 DEF Claims
    <3>. QED  BY <1>3, <3>1 DEF Stands
  <2>. QED  BY <2>1, <2>2
<1>12. Stands(t, registered, BackedRuns)
  BY <1>3, <1>8, <1>10, <1>11 DEF Stands
<1>13. Follows(k, t)
  BY <1>1, <1>3, <1>8 DEF Follows, GoesOn, s
<1>14. RanOnce' /\ RailStanding' /\ submissions' \in [Submissions -> Submission \cup {None}]
  BY <1>1, <1>4, <1>9, <1>12, <1>13, OneGoesOn
<1>15. RailTypes'
  BY <1>1, <1>14 DEF RailsInv, RailTypes
<1>16. SettledIsSettled'
  BY <1>1 DEF RailsInv, SettledIsSettled
<1>. QED  BY <1>14, <1>15, <1>16 DEF RailsInv

\* What the rail executed of a command, by submissions and their requests.
LEMMA ExecutedIsRan ==
  ASSUME RailsInv, NEW d, NEW c, NEW x
  PROVE  x \in R!Executed(d, c) <=>
           /\ x \in Submissions \X (1..3) /\ Ran(x[1], x[2])
           /\ submissions[x[1]].driver = d /\ submissions[x[1]].command = c
<1>1. ASSUME NEW k \in Submissions, submissions[k] # None
      PROVE  DOMAIN submissions[k].requests = 1..Len(submissions[k].requests)
  BY <1>1, SubmissionFacts
<1>. QED  BY <1>1 DEF R!Executed, R!OfCommand, R!Request, Ran

LEMMA TakeKeeps ==
  ASSUME RailsInv, NEW k \in Submissions, NEW n \in 1..3, R!Take(k, n)
  PROVE  RailsInv'
<1>. DEFINE s == submissions[k]
            before == s.driver \in R!Keyed /\ R!Executed(s.driver, s.command) # {}
<1>1. /\ s # None /\ n \in DOMAIN s.requests /\ s.requests[n] = "sent"
      /\ UNCHANGED <<railEnv, registered, token, wireOpen, reported>>
  BY DEF R!Take, R!Request
<1>2. PICK took \in {"unauthorized", "repeated", "executed", "refused", "broken"} :
        /\ took = "repeated" => before
        /\ took = "executed" => ~ before
        /\ submissions' = [submissions EXCEPT ![k].requests[n] = took]
        /\ progress' = [progress EXCEPT ![s.driver][s.command] = IF took = "executed" /\ @ = None THEN "pending" ELSE @]
  <2>1. PICK took \in IF s.driver = "dwolla" /\ token = "revoked" THEN {"unauthorized"}
                      ELSE IF before THEN {"repeated"} ELSE {"executed", "refused", "broken"} :
          /\ submissions' = [submissions EXCEPT ![k].requests[n] = took]
          /\ progress' = [progress EXCEPT ![s.driver][s.command] = IF took = "executed" /\ @ = None THEN "pending" ELSE @]
    BY DEF R!Take
  <2>. HIDE DEF before
  <2>. QED  BY <2>1
<1>3. /\ s \in Submission /\ Placed(s) /\ s.requests \in Seq(RequestStates) /\ s.driver \in R!Drivers
      /\ s.command \in RailCommands /\ Stands(s, registered, BackedRuns) /\ Len(s.requests) \in 0..3
  BY <1>1, SubmissionFacts
<1>. DEFINE t == [driver |-> s.driver, command |-> s.command, attempt |-> s.attempt, at |-> s.at, answer |-> s.answer,
                  requests |-> [s.requests EXCEPT ![n] = took]]
<1>4. submissions' = [submissions EXCEPT ![k] = t]
  <2>1. s = [driver |-> s.driver, command |-> s.command, attempt |-> s.attempt, at |-> s.at, answer |-> s.answer,
             requests |-> s.requests]
    BY <1>3 DEF Submission
  <2>2. submissions' = [submissions EXCEPT ![k] = [s EXCEPT !.requests = [s.requests EXCEPT ![n] = took]]]
    BY <1>2
  <2>3. ASSUME NEW u, u = [s EXCEPT !.requests = [s.requests EXCEPT ![n] = took]] PROVE u = t
    BY <2>1, <2>3
  <2>. QED  BY <2>2, <2>3
<1>. DEFINE requests1 == [s.requests EXCEPT ![n] = took]
<1>5. /\ n \in 1..Len(s.requests) /\ requests1 \in Seq(RequestStates) /\ Len(requests1) = Len(s.requests)
      /\ requests1[n] = took /\ \A m \in 1..Len(s.requests) : m # n => requests1[m] = s.requests[m]
  <2>1. took \in RequestStates
    BY DEF RequestStates
  <2>. QED  BY <1>1, <1>3, <2>1
<1>6. t = [driver |-> s.driver, command |-> s.command, attempt |-> s.attempt, at |-> s.at, answer |-> s.answer,
           requests |-> requests1]
  OBVIOUS
<1>. HIDE DEF s, t, requests1, before
<1>7. t \in Submission
  BY <1>3, <1>5, <1>6 DEF Submission
<1>8. Placed(t)
  BY <1>1, <1>3, <1>5, <1>6 DEF Placed
<1>9. submissions' \in [Submissions -> Submission \cup {None}] /\ submissions'[k] = t /\ t # None
      /\ \A j \in Submissions : j # k => submissions'[j] = submissions[j]
  BY <1>4, <1>7, RailsAssumption DEF RailsInv, RailTypes
<1>10. ASSUME NEW j \in Submissions, NEW m \in 1..3
       PROVE  Ran(j, m)' <=> Ran(j, m) \/ (j = k /\ m = n /\ took = "executed")
  <2>1. CASE j # k
    BY <1>9, <2>1 DEF Ran
  <2>2. CASE j = k
    BY <1>1, <1>3, <1>5, <1>6, <1>9, <2>2 DEF Ran, s
  <2>. QED  BY <2>1, <2>2
<1>11. ASSUME NEW j \in Submissions, submissions[j] # None
       PROVE  /\ submissions'[j] # None
              /\ submissions'[j].driver = submissions[j].driver /\ submissions'[j].command = submissions[j].command
  BY <1>6, <1>9, <1>11 DEF s
<1>12. ASSUME NEW j \in Submissions PROVE submissions'[j] # None => submissions[j] # None
  BY <1>1, <1>9 DEF s
<1>13. ASSUME NEW j \in Submissions, NEW m \in 1..3, Ran(j, m), took = "executed",
              j = k \/ s.driver \in R!Keyed, submissions[j].driver = s.driver, submissions[j].command = s.command
       PROVE  FALSE
  <2>1. CASE s.driver \in R!Keyed
    <3>1. R!Executed(s.driver, s.command) = {}
      BY <1>2, <1>13, <2>1 DEF before
    <3>2. <<j, m>> \in R!Executed(s.driver, s.command)
      BY <1>13, ExecutedIsRan
    <3>. QED  BY <3>1, <3>2
  <2>2. CASE s.driver \notin R!Keyed
    <3>1. Len(s.requests) <= R!MaxRetries(s.driver) /\ (R!Scaffold(s.driver) => Len(s.requests) = 0)
      BY <1>3 DEF Placed
    <3>2. Len(s.requests) = 1
      <4>1. R!MaxRetries(s.driver) = 1 \/ R!Scaffold(s.driver)
        BY <1>3, <2>2, RetriesFew
      <4>2. \A a \in 0..3 : n \in 1..a => a # 0 /\ (a <= 1 => a = 1)
        OBVIOUS
      <4>3. Len(s.requests) # 0
        BY <1>3, <1>5, <4>2
      <4>4. Len(s.requests) <= 1
        BY <3>1, <4>1, <4>3
      <4>. QED  BY <1>3, <1>5, <4>2, <4>4
    <3>3. m = n
      BY <1>5, <1>13, <2>2, <3>2 DEF Ran, s
    <3>. QED  BY <1>1, <1>13, <2>2, <3>3 DEF Ran, s
  <2>. QED  BY <2>1, <2>2
<1>14. RanOnce'
  <2>1. ASSUME NEW i \in Submissions, NEW j \in Submissions, NEW p \in 1..3, NEW q \in 1..3, Ran(i, p)', Ran(j, q)',
               submissions'[i].driver = submissions'[j].driver, submissions'[i].command = submissions'[j].command,
               submissions'[i].driver \in R!Keyed \/ i = j
        PROVE  i = j /\ p = q
    <3>1. submissions[i] # None /\ submissions[j] # None
      BY <1>12, <2>1 DEF Ran
    <3>2. /\ submissions[i].driver = submissions[j].driver /\ submissions[i].command = submissions[j].command
          /\ submissions[i].driver \in R!Keyed \/ i = j
      BY <1>11, <2>1, <3>1
    <3>3. CASE Ran(i, p) /\ Ran(j, q)
      BY <3>2, <3>3 DEF RailsInv, RanOnce
    <3>4. CASE ~ Ran(i, p)
      <4>1. i = k /\ p = n /\ took = "executed"
        BY <1>10, <2>1, <3>4
      <4>2. Ran(j, q) => FALSE
        BY <1>13, <3>2, <4>1 DEF s
      <4>. QED  BY <1>10, <2>1, <4>1, <4>2
    <3>5. CASE ~ Ran(j, q)
      <4>1. j = k /\ q = n /\ took = "executed"
        BY <1>10, <2>1, <3>5
      <4>2. Ran(i, p) => FALSE
        BY <1>13, <3>2, <4>1 DEF s
      <4>. QED  BY <1>10, <2>1, <4>1, <4>2
    <3>. QED  BY <3>3, <3>4, <3>5
  <2>. QED  BY <2>1 DEF RanOnce
<1>15. BackedRuns \subseteq BackedRuns'
  <2>1. ASSUME NEW x \in R!Drivers \X RailCommands, NEW j \in Submissions, NEW m \in 1..3,
               Ran(j, m), submissions[j].driver = x[1], submissions[j].command = x[2]
        PROVE  x \in BackedRuns'
    <3>1. submissions[j] # None
      BY <2>1 DEF Ran
    <3>2. Ran(j, m)' /\ submissions'[j].driver = x[1] /\ submissions'[j].command = x[2]
      BY <1>10, <1>11, <2>1, <3>1
    <3>. QED  BY <3>2 DEF BackedRuns
  <2>. QED  BY <2>1 DEF BackedRuns
<1>16. RailStanding'
  <2>1. ASSUME NEW j \in Submissions, submissions'[j] # None
        PROVE  Stands(submissions'[j], registered', BackedRuns')
    <3>1. CASE j = k
      <4>1. took = "repeated" => <<s.driver, s.command>> \in BackedRuns
        <5>1. ASSUME took = "repeated" PROVE <<s.driver, s.command>> \in BackedRuns
          <6>1. PICK x : x \in R!Executed(s.driver, s.command)
            BY <1>2, <5>1 DEF before
          <6>2. /\ x \in Submissions \X (1..3) /\ Ran(x[1], x[2])
                /\ submissions[x[1]].driver = s.driver /\ submissions[x[1]].command = s.command
            BY <6>1, ExecutedIsRan
          <6>3. PICK i \in Submissions, m \in 1..3 : Ran(i, m) /\ submissions[i].driver = s.driver
                                                     /\ submissions[i].command = s.command
            BY <6>2
          <6>. QED  BY <1>3, <6>3 DEF BackedRuns
        <5>. QED  BY <5>1
      <4>2. Claims(t) => Claims(s) \/ took = "repeated"
        BY <1>5, <1>6 DEF Claims
      <4>3. Claims(s) => <<s.driver, s.command>> \in BackedRuns
        BY <1>3 DEF Stands
      <4>4. t.driver \in registered' /\ t.driver = s.driver /\ t.command = s.command
        BY <1>1, <1>3, <1>6 DEF Stands
      <4>5. Claims(t) => <<t.driver, t.command>> \in BackedRuns'
        BY <1>15, <4>1, <4>2, <4>3, <4>4
      <4>. QED  BY <1>8, <1>9, <3>1, <4>4, <4>5 DEF Stands
    <3>2. CASE j # k
      <4>1. submissions'[j] = submissions[j] /\ submissions[j] # None
        BY <1>9, <2>1, <3>2
      <4>2. Stands(submissions[j], registered, BackedRuns)
        BY <4>1, SubmissionFacts
      <4>. QED  BY <1>1, <1>15, <4>1, <4>2 DEF Stands
    <3>. QED  BY <3>1, <3>2
  <2>. QED  BY <2>1 DEF RailStanding
<1>17. /\ progress' \in [R!Drivers -> [RailCommands -> Places \cup {None}]]
       /\ \A d \in R!Drivers, c \in RailCommands : progress[d][c] # None => progress'[d][c] = progress[d][c]
  <2>1. progress \in [R!Drivers -> [RailCommands -> Places \cup {None}]]
    BY DEF RailsInv, RailTypes
  <2>2. "pending" \in Places
    BY DEF Places
  <2>. QED  BY <1>2, <1>3, <2>1, <2>2 DEF s
<1>18. SettledIsSettled'
  <2>1. None \notin {"settled", "undone"}
    BY RailsAssumption DEF Places
  <2>. QED  BY <1>1, <1>17, <2>1 DEF RailsInv, SettledIsSettled
<1>19. RailTypes'
  BY <1>1, <1>9, <1>17 DEF RailsInv, RailTypes
<1>. QED  BY <1>14, <1>16, <1>18, <1>19 DEF RailsInv

\* The steps in which no submission moves.
LEMMA SubmissionsStay ==
  ASSUME RailsInv, UNCHANGED submissions, registered \subseteq registered'
  PROVE  RanOnce' /\ RailStanding'
<1>1. \A j, m : Ran(j, m)' <=> Ran(j, m)
  BY DEF Ran
<1>2. RanOnce'
  BY <1>1 DEF RailsInv, RanOnce
<1>3. BackedRuns' = BackedRuns
  BY <1>1 DEF BackedRuns
<1>4. RailStanding'
  BY <1>3 DEF RailsInv, RailStanding, Stands
<1>. QED  BY <1>2, <1>4

LEMMA RailsElsewhere ==
  ASSUME RailsInv,
         \/ \E e \in RailEnvs : R!Bootstrap(e)
         \/ R!TokenLost \/ R!FedwireHours
         \/ UNCHANGED railVars
  PROVE  RailsInv'
<1>1. UNCHANGED <<submissions, progress, reported>> /\ registered \subseteq registered'
  BY DEF R!Bootstrap, R!TokenLost, R!FedwireHours, railVars, RailsInv, RailTypes
<1>2. RailTypes'
  <2>1. CASE \E e \in RailEnvs : R!Bootstrap(e)
    <3>1. PICK e \in RailEnvs : R!Bootstrap(e)
      BY <2>1
    <3>2. registered' \subseteq R!Drivers
      BY <3>1 DEF R!Bootstrap, R!Drivers
    <3>. QED  BY <1>1, <3>1, <3>2, RailsAssumption DEF R!Bootstrap, RailsInv, RailTypes
  <2>2. CASE R!TokenLost
    BY <1>1, <2>2 DEF R!TokenLost, RailsInv, RailTypes
  <2>3. CASE R!FedwireHours
    BY <1>1, <2>3 DEF R!FedwireHours, RailsInv, RailTypes
  <2>4. CASE UNCHANGED railVars
    BY <1>1, <2>4 DEF railVars, RailsInv, RailTypes
  <2>. QED  BY <2>1, <2>2, <2>3, <2>4
<1>3. SettledIsSettled'
  BY <1>1 DEF RailsInv, SettledIsSettled
<1>. QED  BY <1>1, <1>2, <1>3, SubmissionsStay DEF RailsInv

LEMMA ProgressKeeps ==
  ASSUME RailsInv, NEW d \in R!Drivers, NEW c \in RailCommands, R!Progress(d, c)
  PROVE  RailsInv'
<1>1. /\ progress[d][c] \in {"pending", "settled"}
      /\ UNCHANGED <<railEnv, registered, submissions, token, wireOpen, reported>>
  BY DEF R!Progress
<1>2. PICK to \in {"settled", "failed", "undone"} :
        /\ progress' = [progress EXCEPT ![d][c] = to]
        /\ progress[d][c] = "settled" => to = "undone"
  <2>1. PICK to \in IF progress[d][c] = "pending" THEN {"settled", "failed"} ELSE {"undone"} :
          progress' = [progress EXCEPT ![d][c] = to]
    BY DEF R!Progress
  <2>. QED  BY <2>1
<1>3. progress \in [R!Drivers -> [RailCommands -> Places \cup {None}]] /\ to \in Places
  BY <1>2 DEF RailsInv, RailTypes, Places
<1>4. RailTypes'
  BY <1>1, <1>2, <1>3 DEF RailsInv, RailTypes
<1>5. SettledIsSettled'
  BY <1>1, <1>2, <1>3 DEF RailsInv, SettledIsSettled
<1>. QED  BY <1>1, <1>4, <1>5, SubmissionsStay DEF RailsInv

LEMMA QueryKeeps ==
  ASSUME RailsInv, NEW d \in R!Drivers, NEW c \in RailCommands, R!Query(d, c)
  PROVE  RailsInv'
<1>1. progress[d][c] # None /\ UNCHANGED <<railEnv, registered, submissions, token, wireOpen, progress>>
  BY DEF R!Query
<1>2. PICK w \in R!Words[progress[d][c]] : reported' = [reported EXCEPT ![d][c] = R!StatusOf(d, w)]
  BY DEF R!Query
<1>3. progress[d][c] \in Places
  BY <1>1 DEF RailsInv, RailTypes
<1>4. /\ R!StatusOf(d, w) \in Statuses
      /\ R!StatusOf(d, w) = "SETTLED" => progress[d][c] \in {"settled", "undone"}
  BY <1>2, <1>3, WordsAreTrue
<1>5. RailTypes'
  BY <1>1, <1>2, <1>4 DEF RailsInv, RailTypes
<1>6. SettledIsSettled'
  BY <1>1, <1>2, <1>4 DEF RailsInv, RailTypes, SettledIsSettled
<1>. QED  BY <1>1, <1>5, <1>6, SubmissionsStay DEF RailsInv

LEMMA RailsStart == R!Init => RailsInv
<1>. SUFFICES ASSUME R!Init PROVE RailsInv
  OBVIOUS
<1>1. RailTypes
  BY DEF R!Init, RailTypes
<1>2. \A k \in Submissions, n \in 1..3 : ~ Ran(k, n)
  <2>1. ASSUME NEW k \in Submissions, NEW n \in 1..3, Ran(k, n) PROVE FALSE
    BY <2>1 DEF R!Init, Ran
  <2>. QED  BY <2>1
<1>3. RailStanding
  BY DEF R!Init, RailStanding
<1>4. SettledIsSettled
  BY RailsAssumption DEF R!Init, SettledIsSettled, Statuses
<1>. QED  BY <1>1, <1>2, <1>3, <1>4 DEF RailsInv, RanOnce

LEMMA RailsStep == RailsInv /\ (R!Next \/ UNCHANGED railVars) => RailsInv'
<1>. SUFFICES ASSUME RailsInv, R!Next \/ UNCHANGED railVars PROVE RailsInv'
  OBVIOUS
<1>1. \/ \E k \in Submissions, d \in R!Drivers, c \in RailCommands : R!Submit(k, d, c)
      \/ \E k \in Submissions : R!TokenFetched(k) \/ R!Answered(k) \/ R!Exception(k) \/ R!Retry(k)
      \/ \E k \in Submissions, n \in 1..3 : R!Take(k, n)
      \/ \E d \in R!Drivers, c \in RailCommands : R!Progress(d, c) \/ R!Query(d, c)
      \/ \E e \in RailEnvs : R!Bootstrap(e)
      \/ R!TokenLost \/ R!FedwireHours
      \/ UNCHANGED railVars
  BY DEF R!Next
<1>. QED
  BY <1>1, SubmitKeeps, TokenFetchedKeeps, AnsweredKeeps, ExceptionKeeps, RetryKeeps, TakeKeeps, ProgressKeeps,
     QueryKeeps, RailsElsewhere

LEMMA RailsInvImplies == RailsInv => RailsTellTrue
<1>. SUFFICES ASSUME RailsInv PROVE RailsTellTrue
  OBVIOUS
<1>1. R!TypeOK
  <2>1. ASSUME NEW k \in Submissions, submissions[k] # None
        PROVE  /\ submissions[k].driver \in registered
               /\ submissions[k].at \in {"token", "called", "waiting", "returned"}
               /\ submissions[k].answer \in R!Results \cup {None}
    BY <2>1, SubmissionFacts DEF Stands, Submission
  <2>. QED  BY <2>1 DEF RailsInv, RailTypes, R!TypeOK
<1>2. R!ExecutedOnce
  <2>1. ASSUME NEW d \in R!Drivers, NEW c \in RailCommands, NEW x \in R!Executed(d, c), NEW y \in R!Executed(d, c),
               d \in R!Keyed \/ x[1] = y[1]
        PROVE  x = y
    <3>1. /\ x \in Submissions \X (1..3) /\ y \in Submissions \X (1..3) /\ Ran(x[1], x[2]) /\ Ran(y[1], y[2])
          /\ submissions[x[1]].driver = d /\ submissions[y[1]].driver = d
          /\ submissions[x[1]].command = c /\ submissions[y[1]].command = c
      BY <2>1, ExecutedIsRan
    <3>2. x[1] = y[1] /\ x[2] = y[2]
      BY <2>1, <3>1 DEF RailsInv, RanOnce
    <3>. QED  BY <3>1, <3>2
  <2>2. ASSUME NEW d \in R!Drivers, NEW c \in RailCommands, d \in R!Keyed
        PROVE  R!Cardinality(R!Executed(d, c)) <= 1
    <3>1. \A set : R!Cardinality(set) = Cardinality(set)
      BY DEF R!Cardinality, Cardinality
    <3>2. CASE R!Executed(d, c) = {}
      BY <3>1, <3>2, FS_EmptySet
    <3>3. CASE R!Executed(d, c) # {}
      <4>1. PICK x : x \in R!Executed(d, c)
        BY <3>3
      <4>2. R!Executed(d, c) = {x}
        BY <2>1, <2>2, <4>1
      <4>3. Cardinality(R!Executed(d, c)) = 1
        BY <4>2, FS_Singleton
      <4>4. R!Cardinality(R!Executed(d, c)) = 1
        BY <3>1, <4>3
      <4>. QED  BY <4>4
    <3>. QED  BY <3>2, <3>3
  <2>. QED  BY <2>1, <2>2 DEF R!ExecutedOnce
<1>3. R!ResultsAreTrue
  <2>1. ASSUME NEW k \in Submissions, submissions[k] # None, submissions[k].answer \in {"SUBMITTED", "PENDING"}
        PROVE  R!Executed(submissions[k].driver, submissions[k].command) # {}
    <3>1. <<submissions[k].driver, submissions[k].command>> \in BackedRuns
      BY <2>1, SubmissionFacts DEF Stands, Claims
    <3>2. PICK j \in Submissions, m \in 1..3 :
            /\ Ran(j, m) /\ submissions[j].driver = submissions[k].driver
            /\ submissions[j].command = submissions[k].command
      BY <3>1 DEF BackedRuns
    <3>3. <<j, m>> \in R!Executed(submissions[k].driver, submissions[k].command)
      BY <3>2, ExecutedIsRan
    <3>. QED  BY <3>3
  <2>2. ASSUME NEW k \in Submissions, submissions[k] # None, submissions[k].answer = "REJECTED",
               submissions[k].attempt = 1, submissions[k].driver # "stablecoin"
        PROVE  "executed" \notin R!Range(submissions[k].requests)
    <3>1. Len(submissions[k].requests) = 1 /\ submissions[k].requests[1] \in {"refused", "unauthorized"}
      BY <2>2, SubmissionFacts DEF Placed
    <3>2. DOMAIN submissions[k].requests = 1..1
      BY <2>2, <3>1, SubmissionFacts
    <3>. QED  BY <3>1, <3>2 DEF R!Range
  <2>3. SettledIsSettled
    BY DEF RailsInv
  <2>. QED  BY <2>1, <2>2, <2>3 DEF R!ResultsAreTrue, SettledIsSettled
<1>. QED  BY <1>1, <1>2, <1>3 DEF RailsTellTrue

(***************************************************************************)
(* Whatever the keys set, the commands and the answers of the rails: no    *)
(* retry executes a transfer twice, and what a result or a status says of  *)
(* it is true.                                                             *)
(***************************************************************************)
THEOREM RailsTrue == LayerSpec => []RailsTellTrue
<1>1. LayerInit => RailsInv
  BY RailsStart DEF LayerInit
<1>2. RailsInv /\ [LayerNext]_<<railVars, gateVars, serverVars, fanVars, achVars>> => RailsInv'
  BY RailsStep DEF LayerNext
<1>. QED  BY <1>1, <1>2, RailsInvImplies, PTL DEF LayerSpec

-----------------------------------------------------------------------------
(***************************************************************************)
(* The gates.  Where the check of c stands, by the gates it has judged.    *)
(***************************************************************************)
Stopped == {"warning", "rejecting", "failed"}
\* The gate c is at was judged false, and stops it as its fatality says; one without evaluator does not warn.
StopsAs(c, stop, types) ==
  /\ c.evaluated[c.at] = FALSE /\ (G!Fatal(c.gates[c.at]) <=> stop # "warning")
  /\ stop = "warning" => c.gates[c.at].type \in types
Judging(c, types) ==
  /\ Len(c.evaluated) <= Len(c.gates) /\ c.at \in 1..(Len(c.gates) + 1)
  /\ c.pc = "gate" => c.at \in 1..Len(c.gates) /\ Len(c.evaluated) = c.at - 1
  /\ c.pc \in Stopped => c.at \in 1..Len(c.gates) /\ Len(c.evaluated) = c.at /\ StopsAs(c, c.pc, types)
  /\ c.pc = "passed" => Len(c.evaluated) = Len(c.gates)

\* A fatal gate that was judged, other than the one the check failed at, held at some moment.
Held(c, types) ==
  \A n \in 1..Len(c.evaluated) : G!Fatal(c.gates[n]) /\ ~ (c.pc \in {"rejecting", "failed"} /\ n = c.at) =>
    c.gates[n].type \in types /\ \E w \in c.seen : G!Passes(c.gates[n], w, c.x)

\* A check that nothing came between has seen the world as it is.
Calm(c, w) == w \in c.seen /\ (c.calm /\ ~ c.booked => c.seen = {w})

\* An event of the check: of a gate judged false, the last one of a check that failed.
Tells(e, c, types) ==
  /\ e.kind \in {"warning", "rejecting"}
  /\ e.gate \in 1..Len(c.evaluated) /\ c.evaluated[e.gate] = FALSE
  /\ G!Fatal(c.gates[e.gate]) <=> e.kind = "rejecting"
  /\ e.kind = "rejecting" => c.pc = "failed" /\ e.gate = c.at
  /\ e.kind = "warning" => c.gates[e.gate].type \in types
  /\ c.pc = "warning" => e.gate < c.at

Rejection == [call : Checks, kind : {"warning", "rejecting"}, gate : Nat]
GateTypes ==
  /\ evaluators \in Evaluators /\ world \in Worlds /\ changes \in 0..MaxChanges
  /\ checks \in [Checks -> Checked \cup {None}]
  /\ rejections \in Seq(Rejection)

Checking == \A k \in Checks : checks[k] # None => Judging(checks[k], evaluators) /\ Held(checks[k], evaluators) /\ Calm(checks[k], world)

Reported ==
  /\ \A n \in 1..Len(rejections) :
       checks[rejections[n].call] # None /\ Tells(rejections[n], checks[rejections[n].call], evaluators)
  /\ \A a, b \in 1..Len(rejections) : rejections[a] = rejections[b] => a = b

Raced == world.balance < 0 => \E k \in Checks : checks[k] # None /\ checks[k].booked /\ ~ checks[k].calm

GatesInv == GateTypes /\ Checking /\ Reported /\ Raced

-----------------------------------------------------------------------------
\* What a command declares is a list of gates.
LEMMA ListOfGates ==
  ASSUME NEW d \in Declared
  PROVE  d \in Seq(Gates) /\ Len(d) \in Nat
<1>. DEFINE T == {d[n] : n \in DOMAIN d}
<1>1. d \in Seq(T) /\ T \subseteq Gates
  BY GatesAssumption DEF Gates
<1>. HIDE DEF T
<1>. QED  BY <1>1

\* The fields of a check that goes on.
LEMMA JudgedFields ==
  ASSUME NEW c \in Checked, NEW v, NEW t, t = G!Judged(c, v)
  PROVE  t = [gates |-> c.gates, at |-> c.at,
              evaluated |-> Append(c.evaluated, v), x |-> c.x, pc |-> c.pc,
              seen |-> c.seen, calm |-> c.calm, booked |-> c.booked]
<1>1. c = [gates |-> c.gates, at |-> c.at, evaluated |-> c.evaluated, x |-> c.x, pc |-> c.pc,
           seen |-> c.seen, calm |-> c.calm, booked |-> c.booked]
  BY DEF Checked
<1>. QED  BY <1>1 DEF G!Judged

LEMMA MovedFields ==
  ASSUME NEW c \in Checked, NEW stop, NEW t, t = G!Moved(c, stop)
  PROVE  t = [gates |-> c.gates, at |-> c.at, evaluated |-> c.evaluated, x |-> c.x,
              pc |-> stop, seen |-> c.seen, calm |-> c.calm, booked |-> c.booked]
<1>1. c = [gates |-> c.gates, at |-> c.at, evaluated |-> c.evaluated, x |-> c.x, pc |-> c.pc,
           seen |-> c.seen, calm |-> c.calm, booked |-> c.booked]
  BY DEF Checked
<1>. QED  BY <1>1 DEF G!Moved

LEMMA OnwardFields ==
  ASSUME NEW c \in Checked, NEW t, t = G!Onward(c)
  PROVE  t = [gates |-> c.gates, at |-> IF c.at < Len(c.gates) THEN c.at + 1 ELSE c.at,
              evaluated |-> c.evaluated, x |-> c.x, pc |-> IF c.at < Len(c.gates) THEN "gate" ELSE "passed",
              seen |-> c.seen, calm |-> c.calm, booked |-> c.booked]
<1>1. c = [gates |-> c.gates, at |-> c.at, evaluated |-> c.evaluated, x |-> c.x, pc |-> c.pc,
           seen |-> c.seen, calm |-> c.calm, booked |-> c.booked]
  BY DEF Checked
<1>2. CASE c.at < Len(c.gates)
  BY <1>1, <1>2 DEF G!Onward
<1>3. CASE ~ (c.at < Len(c.gates))
  BY <1>1, <1>3 DEF G!Onward
<1>. QED  BY <1>2, <1>3

LEMMA SeesFields ==
  ASSUME NEW c \in Checked, NEW w, NEW books \in BOOLEAN, NEW t, t = G!Sees(c, w, books)
  PROVE  t = [gates |-> c.gates, at |-> c.at, evaluated |-> c.evaluated, x |-> c.x,
              pc |-> c.pc, seen |-> c.seen \cup {w}, calm |-> IF books THEN c.calm ELSE c.calm /\ c.booked,
              booked |-> IF books THEN TRUE ELSE c.booked]
<1>1. c = [gates |-> c.gates, at |-> c.at, evaluated |-> c.evaluated, x |-> c.x, pc |-> c.pc,
           seen |-> c.seen, calm |-> c.calm, booked |-> c.booked]
  BY DEF Checked
<1>2. CASE books
  BY <1>1, <1>2 DEF G!Sees
<1>3. CASE ~ books
  BY <1>1, <1>3 DEF G!Sees
<1>. QED  BY <1>2, <1>3

\* A check that goes on with what it judged and saw.
Extends(c, t) ==
  /\ t.gates = c.gates /\ t.x = c.x
  /\ t.seen = c.seen /\ t.calm = c.calm /\ t.booked = c.booked
  /\ Len(c.evaluated) <= Len(t.evaluated) /\ \A n \in 1..Len(c.evaluated) : t.evaluated[n] = c.evaluated[n]
  /\ c.pc # "failed" /\ (t.pc = "warning" => t.at > Len(c.evaluated))

LEMMA TellsStill ==
  ASSUME NEW c \in Checked, NEW t \in Checked, Extends(c, t), NEW e, Tells(e, c, evaluators)
  PROVE  Tells(e, t, evaluators)
<1>1. Len(c.evaluated) \in Nat /\ Len(t.evaluated) \in Nat /\ t.at \in Nat
  BY DEF Checked
<1>2. e.gate \in 1..Len(c.evaluated) /\ e.gate \in Nat
  BY DEF Tells
<1>3. e.gate \in 1..Len(t.evaluated) /\ t.evaluated[e.gate] = c.evaluated[e.gate] /\ t.gates = c.gates
  BY <1>1, <1>2 DEF Extends
<1>4. e.kind # "rejecting" /\ (t.pc = "warning" => e.gate < t.at)
  BY <1>1, <1>2 DEF Tells, Extends
<1>. QED  BY <1>3, <1>4 DEF Tells

\* Check k goes on as t.
LEMMA OneChecks ==
  ASSUME GatesInv, NEW k \in Checks, checks[k] # None, NEW t \in Checked, Judging(t, evaluators), Held(t, evaluators),
         Extends(checks[k], t), checks' = [checks EXCEPT ![k] = t], UNCHANGED <<evaluators, world, changes>>
  PROVE  /\ checks' \in [Checks -> Checked \cup {None}] /\ checks'[k] = t /\ Checking' /\ Raced'
         /\ \A n \in 1..Len(rejections) :
              checks'[rejections[n].call] # None /\ Tells(rejections[n], checks'[rejections[n].call], evaluators)
<1>1. checks \in [Checks -> Checked \cup {None}]
  BY DEF GatesInv, GateTypes
<1>2. checks[k] \in Checked /\ t # None
  BY <1>1, GatesAssumption
<1>3. /\ checks' \in [Checks -> Checked \cup {None}] /\ checks'[k] = t
      /\ \A j \in Checks : j # k => checks'[j] = checks[j]
  BY <1>1
<1>4. Calm(t, world)
  <2>1. Calm(checks[k], world)
    BY DEF GatesInv, Checking
  <2>. QED  BY <2>1 DEF Calm, Extends
<1>5. ASSUME NEW j \in Checks, checks'[j] # None
      PROVE  Judging(checks'[j], evaluators) /\ Held(checks'[j], evaluators) /\ Calm(checks'[j], world)
  BY <1>3, <1>4, <1>5 DEF GatesInv, Checking
<1>6. Checking'
  BY <1>5 DEF Checking
<1>7. Raced'
  <2>1. ASSUME NEW j \in Checks, checks[j] # None, checks[j].booked, ~ checks[j].calm
        PROVE  checks'[j] # None /\ checks'[j].booked /\ ~ checks'[j].calm
    BY <1>2, <1>3, <2>1 DEF Extends
  <2>. QED  BY <2>1 DEF GatesInv, Raced
<1>8. ASSUME NEW n \in 1..Len(rejections)
      PROVE  checks'[rejections[n].call] # None /\ Tells(rejections[n], checks'[rejections[n].call], evaluators)
  <2>1. rejections[n].call \in Checks
    <3>1. rejections[n] \in Rejection
      BY DEF GatesInv, GateTypes
    <3>. QED  BY <3>1 DEF Rejection
  <2>2. checks[rejections[n].call] # None /\ Tells(rejections[n], checks[rejections[n].call], evaluators)
    BY DEF GatesInv, Reported
  <2>3. CASE rejections[n].call = k
    BY <1>2, <1>3, <2>2, <2>3, TellsStill
  <2>4. CASE rejections[n].call # k
    BY <1>3, <2>1, <2>2, <2>4
  <2>. QED  BY <2>3, <2>4
<1>. QED  BY <1>3, <1>6, <1>7, <1>8

LEMMA QuietCheck ==
  ASSUME GatesInv, NEW k \in Checks, checks[k] # None, NEW t \in Checked, Judging(t, evaluators), Held(t, evaluators),
         Extends(checks[k], t), checks' = [checks EXCEPT ![k] = t], UNCHANGED <<evaluators, world, changes, rejections>>
  PROVE  GatesInv'
<1>1. /\ checks' \in [Checks -> Checked \cup {None}] /\ Checking' /\ Raced'
      /\ \A n \in 1..Len(rejections) :
           checks'[rejections[n].call] # None /\ Tells(rejections[n], checks'[rejections[n].call], evaluators)
  BY OneChecks
<1>2. GateTypes'
  BY <1>1 DEF GatesInv, GateTypes
<1>3. Reported'
  BY <1>1 DEF GatesInv, Reported
<1>. QED  BY <1>1, <1>2, <1>3 DEF GatesInv

LEMMA CheckFacts ==
  ASSUME GatesInv, NEW k \in Checks, checks[k] # None
  PROVE  /\ checks[k] \in Checked /\ Judging(checks[k], evaluators) /\ Held(checks[k], evaluators) /\ Calm(checks[k], world)
         /\ checks[k].gates \in Seq(Gates) /\ Len(checks[k].gates) \in Nat
         /\ checks[k].evaluated \in Seq(BOOLEAN) /\ checks[k].at \in Nat
         /\ Len(checks[k].evaluated) \in Nat /\ checks[k].x \in Payloads
         /\ \A n \in 1..Len(checks[k].gates) : checks[k].gates[n] \in Gates
<1>1. checks[k] \in Checked
  BY DEF GatesInv, GateTypes
<1>2. Judging(checks[k], evaluators) /\ Held(checks[k], evaluators) /\ Calm(checks[k], world)
  BY DEF GatesInv, Checking
<1>3. /\ checks[k].gates \in Seq(Gates) /\ checks[k].at \in Nat
      /\ checks[k].evaluated \in Seq(BOOLEAN) /\ checks[k].x \in Payloads
  BY <1>1 DEF Checked
<1>4. Len(checks[k].gates) \in Nat /\ Len(checks[k].evaluated) \in Nat
  BY <1>3
<1>6. \A n \in 1..Len(checks[k].gates) : checks[k].gates[n] \in Gates
  BY <1>3
<1>. QED  BY <1>1, <1>2, <1>3, <1>4, <1>6

\* A gate more is judged.
LEMMA JudgedFacts ==
  ASSUME GatesInv, NEW k \in Checks, checks[k] # None, checks[k].pc = "gate", NEW v \in BOOLEAN,
         NEW u, u = G!Judged(checks[k], v),
         NEW g, g = checks[k].gates[checks[k].at]
  PROVE  /\ u \in Checked /\ u.gates = checks[k].gates /\ u.x = checks[k].x
         /\ u.at = checks[k].at /\ u.seen = checks[k].seen /\ u.calm = checks[k].calm /\ u.booked = checks[k].booked
         /\ u.at \in 1..Len(u.gates) /\ Len(u.evaluated) = u.at /\ g \in Gates /\ u.evaluated[u.at] = v
         /\ Len(checks[k].evaluated) = u.at - 1
         /\ \A n \in 1..(u.at - 1) : u.evaluated[n] = checks[k].evaluated[n]
<1>. DEFINE c == checks[k]
<1>1. /\ c \in Checked /\ Judging(c, evaluators) /\ c.gates \in Seq(Gates) /\ Len(c.gates) \in Nat /\ c.at \in Nat
      /\ c.evaluated \in Seq(BOOLEAN) /\ Len(c.evaluated) \in Nat
      /\ \A n \in 1..Len(c.gates) : c.gates[n] \in Gates
  BY CheckFacts
<1>2. c.at \in 1..Len(c.gates) /\ Len(c.evaluated) = c.at - 1
  BY <1>1 DEF Judging
<1>3. g \in Gates
  BY <1>1, <1>2
<1>4. u = [gates |-> c.gates, at |-> c.at, evaluated |-> Append(c.evaluated, v), x |-> c.x,
           pc |-> c.pc, seen |-> c.seen, calm |-> c.calm, booked |-> c.booked]
  <2>. HIDE DEF c
  <2>. QED  BY <1>1, JudgedFields DEF c
<1>. HIDE DEF c
<1>5. /\ Append(c.evaluated, v) \in Seq(BOOLEAN) /\ Len(Append(c.evaluated, v)) = c.at
      /\ Append(c.evaluated, v)[c.at] = v
      /\ \A n \in 1..(c.at - 1) : Append(c.evaluated, v)[n] = c.evaluated[n]
  BY <1>1, <1>2
<1>6. u \in Checked
  BY <1>1, <1>4, <1>5 DEF Checked
<1>. QED  BY <1>2, <1>3, <1>4, <1>5, <1>6 DEF c

\* The fatal gates of the first n held.
AllHeld(u, types, n) ==
  \A m \in 1..n : G!Fatal(u.gates[m]) => u.gates[m].type \in types /\ \E w \in u.seen : G!Passes(u.gates[m], w, u.x)

\* The check goes on to the next gate: what u judged is all that was judged, and held.
LEMMA OnwardFacts ==
  ASSUME NEW u \in Checked, u.at \in 1..Len(u.gates), Len(u.evaluated) = u.at,
         NEW types, AllHeld(u, types, Len(u.evaluated)), NEW t, t = G!Onward(u)
  PROVE  /\ t \in Checked /\ Judging(t, types) /\ Held(t, types)
         /\ t.gates = u.gates /\ t.x = u.x /\ t.seen = u.seen /\ t.calm = u.calm
         /\ t.booked = u.booked /\ t.evaluated = u.evaluated /\ t.pc \in {"gate", "passed"}
<1>1. t = [gates |-> u.gates, at |-> IF u.at < Len(u.gates) THEN u.at + 1 ELSE u.at,
           evaluated |-> u.evaluated, x |-> u.x, pc |-> IF u.at < Len(u.gates) THEN "gate" ELSE "passed",
           seen |-> u.seen, calm |-> u.calm, booked |-> u.booked]
  BY OnwardFields
<1>2. Len(u.gates) \in Nat /\ u.at \in Nat
  BY DEF Checked
<1>3. t.at \in Nat /\ t.pc \in {"gate", "passed"}
  BY <1>1, <1>2
<1>4. t \in Checked
  <2>1. /\ u.gates \in Seq(Gates) /\ u.x \in Payloads /\ u.seen \in SUBSET Worlds
        /\ u.evaluated \in Seq(BOOLEAN) /\ u.calm \in BOOLEAN /\ u.booked \in BOOLEAN
    BY DEF Checked
  <2>2. t = [gates |-> u.gates, at |-> t.at, evaluated |-> u.evaluated, x |-> u.x, pc |-> t.pc,
             seen |-> u.seen, calm |-> u.calm, booked |-> u.booked]
    BY <1>1
  <2>. QED  BY <1>3, <2>1, <2>2 DEF Checked
<1>5. Judging(t, types)
  <2>1. CASE u.at < Len(u.gates)
    BY <1>1, <1>2, <2>1 DEF Judging, Stopped
  <2>2. CASE ~ (u.at < Len(u.gates))
    BY <1>1, <1>2, <2>2 DEF Judging, Stopped
  <2>. QED  BY <2>1, <2>2
<1>6. Held(t, types)
  BY <1>1 DEF Held, AllHeld
<1>. QED  BY <1>1, <1>3, <1>4, <1>5, <1>6

\* The check stops at a gate: the one it judged false last.
LEMMA StoppedFacts ==
  ASSUME NEW u \in Checked, u.at \in 1..Len(u.gates), Len(u.evaluated) = u.at,
         NEW stop \in Stopped, NEW types, StopsAs(u, stop, types), AllHeld(u, types, u.at - 1), NEW t, t = G!Moved(u, stop)
  PROVE  /\ t \in Checked /\ Judging(t, types) /\ Held(t, types)
         /\ t.gates = u.gates /\ t.x = u.x /\ t.seen = u.seen /\ t.calm = u.calm
         /\ t.booked = u.booked /\ t.evaluated = u.evaluated /\ t.pc = stop /\ t.at = u.at
<1>1. t = [gates |-> u.gates, at |-> u.at, evaluated |-> u.evaluated, x |-> u.x, pc |-> stop,
           seen |-> u.seen, calm |-> u.calm, booked |-> u.booked]
  BY MovedFields
<1>2. Len(u.gates) \in Nat /\ u.at \in Nat
  BY DEF Checked
<1>3. t \in Checked
  BY <1>1 DEF Checked, Stopped
<1>4. Judging(t, types)
  BY <1>1, <1>2 DEF Judging, Stopped, StopsAs
<1>5. Held(t, types)
  <2>1. ASSUME NEW n \in 1..Len(u.evaluated), G!Fatal(u.gates[n]), ~ (stop \in {"rejecting", "failed"} /\ n = u.at)
        PROVE  n \in 1..(u.at - 1)
    <3>1. n # u.at
      BY <2>1 DEF Stopped, StopsAs
    <3>. QED  BY <1>2, <3>1
  <2>. QED  BY <1>1, <2>1 DEF Held, AllHeld
<1>. QED  BY <1>1, <1>3, <1>4, <1>5

\* UnknownGate and EvaluateGate.
LEMMA GateJudged ==
  ASSUME GatesInv, NEW k \in Checks, G!UnknownGate(k) \/ G!EvaluateGate(k)
  PROVE  GatesInv'
<1>. DEFINE c == checks[k]
            g == c.gates[c.at]
<1>1. c # None /\ c.pc = "gate" /\ UNCHANGED <<evaluators, world, changes, rejections>>
  BY DEF G!UnknownGate, G!EvaluateGate
<1>2. PICK v \in BOOLEAN, onward \in BOOLEAN, stop \in Stopped :
        /\ checks' = [checks EXCEPT ![k] = IF onward THEN G!Onward(G!Judged(c, v)) ELSE G!Moved(G!Judged(c, v), stop)]
        /\ onward /\ G!Fatal(g) => g.type \in evaluators /\ G!Passes(g, world, c.x)
        /\ ~ onward => /\ v = FALSE /\ (G!Fatal(g) <=> stop # "warning") /\ stop # "failed"
                       /\ stop = "warning" => g.type \in evaluators
  <2>1. CASE G!UnknownGate(k)
    <3>1. CASE G!Fatal(g)
      BY <2>1, <3>1 DEF G!UnknownGate, Stopped
    <3>2. CASE ~ G!Fatal(g)
      BY <2>1, <3>2 DEF G!UnknownGate, Stopped
    <3>. QED  BY <3>1, <3>2
  <2>2. CASE G!EvaluateGate(k)
    <3>1. g.type \in evaluators
      BY <2>2 DEF G!EvaluateGate
    <3>2. CASE G!Passes(g, world, c.x) /\ checks' = [checks EXCEPT ![k] = G!Onward(G!Judged(c, TRUE))]
      BY <3>1, <3>2 DEF Stopped
    <3>3. CASE checks' = [checks EXCEPT ![k] = G!Moved(G!Judged(c, FALSE), G!AfterFailure(g))]
      BY <3>1, <3>3 DEF Stopped, G!AfterFailure
    <3>. QED  BY <2>2, <3>2, <3>3 DEF G!EvaluateGate
  <2>. QED  BY <2>1, <2>2
<1>3. /\ c \in Checked /\ Judging(c, evaluators) /\ Held(c, evaluators) /\ world \in c.seen /\ c.gates \in Seq(Gates)
  BY <1>1, CheckFacts DEF Calm
<1>. DEFINE u == G!Judged(c, v)
            t == IF onward THEN G!Onward(u) ELSE G!Moved(u, stop)
<1>4. /\ u \in Checked /\ u.gates = c.gates /\ u.x = c.x
      /\ u.at = c.at /\ u.seen = c.seen /\ u.calm = c.calm /\ u.booked = c.booked
      /\ u.at \in 1..Len(u.gates) /\ Len(u.evaluated) = u.at /\ g \in Gates /\ u.evaluated[u.at] = v
      /\ Len(c.evaluated) = u.at - 1
      /\ \A n \in 1..(u.at - 1) : u.evaluated[n] = c.evaluated[n]
  BY <1>1, JudgedFacts
<1>5. checks' = [checks EXCEPT ![k] = t] /\ g = c.gates[c.at] /\ t = IF onward THEN G!Onward(u) ELSE G!Moved(u, stop)
  BY <1>2
<1>. HIDE DEF c, g, u, t
<1>6. u.at \in Nat /\ \A n \in 1..Len(u.evaluated) : n = u.at \/ n \in 1..(u.at - 1)
  BY <1>4 DEF Checked
<1>8. AllHeld(u, evaluators, u.at - 1)
  BY <1>1, <1>3, <1>4 DEF Held, AllHeld, c
<1>9. CASE onward
  <2>1. AllHeld(u, evaluators, Len(u.evaluated))
    BY <1>2, <1>3, <1>4, <1>5, <1>6, <1>8, <1>9 DEF AllHeld
  <2>2. /\ t \in Checked /\ Judging(t, evaluators) /\ Held(t, evaluators)
        /\ t.gates = u.gates /\ t.x = u.x /\ t.seen = u.seen /\ t.calm = u.calm
        /\ t.booked = u.booked /\ t.evaluated = u.evaluated /\ t.pc \in {"gate", "passed"}
    <3>1. u \in Checked /\ u.at \in 1..Len(u.gates) /\ Len(u.evaluated) = u.at
      BY <1>3, <1>4
    <3>2. t = G!Onward(u)
      BY <1>5, <1>9
    <3>. QED  BY <2>1, <3>1, <3>2, OnwardFacts
  <2>3. Extends(c, t)
    BY <1>1, <1>4, <1>6, <2>2 DEF Extends, c
  <2>. QED  BY <1>1, <1>5, <2>2, <2>3, QuietCheck DEF c
<1>10. CASE ~ onward
  <2>1. StopsAs(u, stop, evaluators)
    BY <1>2, <1>4, <1>5, <1>10 DEF StopsAs
  <2>2. /\ t \in Checked /\ Judging(t, evaluators) /\ Held(t, evaluators)
        /\ t.gates = u.gates /\ t.x = u.x /\ t.seen = u.seen /\ t.calm = u.calm
        /\ t.booked = u.booked /\ t.evaluated = u.evaluated /\ t.pc = stop /\ t.at = u.at
    <3>1. u \in Checked /\ u.at \in 1..Len(u.gates) /\ Len(u.evaluated) = u.at
      BY <1>3, <1>4
    <3>2. t = G!Moved(u, stop)
      BY <1>5, <1>10
    <3>3. stop \in Stopped /\ AllHeld(u, evaluators, u.at - 1) /\ StopsAs(u, stop, evaluators)
      BY <1>2, <1>8, <2>1
    <3>. QED  BY ONLY <3>1, <3>2, <3>3, StoppedFacts
  <2>3. Extends(c, t)
    <3>1. t.gates = c.gates /\ t.x = c.x /\ t.seen = c.seen /\ t.calm = c.calm /\ t.booked = c.booked
      BY <1>4, <2>2
    <3>2. Len(t.evaluated) = t.at /\ t.at \in Nat /\ Len(c.evaluated) = t.at - 1
      BY <1>4, <1>6, <2>2
    <3>3. \A n \in 1..Len(c.evaluated) : t.evaluated[n] = c.evaluated[n]
      BY <1>4, <2>2
    <3>4. c.pc # "failed"
      BY <1>1 DEF c
    <3>. QED  BY <3>1, <3>2, <3>3, <3>4 DEF Extends
  <2>. QED  BY <1>1, <1>5, <2>2, <2>3, QuietCheck DEF c
<1>. QED  BY <1>9, <1>10

LEMMA CheckStarts ==
  ASSUME GatesInv, NEW k \in Checks, NEW gates \in Declared, NEW x \in Payloads, G!Check(k, gates, x)
  PROVE  GatesInv'
<1>. DEFINE t == [gates |-> gates, at |-> 1, evaluated |-> <<>>, x |-> x,
                  pc |-> IF gates = <<>> THEN "passed" ELSE "gate", seen |-> {world}, calm |-> TRUE, booked |-> FALSE]
<1>1. /\ checks[k] = None /\ checks' = [checks EXCEPT ![k] = t]
      /\ UNCHANGED <<evaluators, world, changes, rejections>>
  BY DEF G!Check
<1>2. checks \in [Checks -> Checked \cup {None}] /\ world \in Worlds
  BY DEF GatesInv, GateTypes
<1>3. gates \in Seq(Gates) /\ Len(gates) \in Nat
  BY ListOfGates
<1>4. t.gates = gates /\ t.at = 1 /\ t.evaluated = <<>> /\ t.x = x /\ t.seen = {world}
      /\ t.pc = (IF gates = <<>> THEN "passed" ELSE "gate") /\ t.calm = TRUE /\ t.booked = FALSE
      /\ Len(t.evaluated) = 0
  OBVIOUS
<1>5. <<>> \in Seq(BOOLEAN) /\ Len(<<>>) = 0
  OBVIOUS
<1>6. t \in Checked
  BY <1>2, <1>3, <1>5 DEF Checked
<1>. HIDE DEF t
<1>7. gates # <<>> => Len(gates) > 0
  BY <1>3
<1>8. Judging(t, evaluators)
  BY <1>3, <1>4, <1>7 DEF Judging, Stopped
<1>9. Held(t, evaluators) /\ Calm(t, world)
  BY <1>4 DEF Held, Calm
<1>10. /\ checks' \in [Checks -> Checked \cup {None}] /\ checks'[k] = t
       /\ \A j \in Checks : j # k => checks'[j] = checks[j]
  BY <1>1, <1>2, <1>6
<1>11. GateTypes'
  BY <1>1, <1>10 DEF GatesInv, GateTypes
<1>12. Checking'
  <2>1. ASSUME NEW j \in Checks, checks'[j] # None
        PROVE  Judging(checks'[j], evaluators) /\ Held(checks'[j], evaluators) /\ Calm(checks'[j], world)
    BY <1>8, <1>9, <1>10, <2>1 DEF GatesInv, Checking
  <2>. QED  BY <1>1, <2>1 DEF Checking
<1>13. Reported'
  <2>1. ASSUME NEW n \in 1..Len(rejections)
        PROVE  checks'[rejections[n].call] = checks[rejections[n].call]
    <3>1. rejections[n] \in Rejection
      BY DEF GatesInv, GateTypes
    <3>2. rejections[n].call \in Checks /\ checks[rejections[n].call] # None
      BY <3>1 DEF GatesInv, Reported, Rejection
    <3>. QED  BY <1>1, <1>10, <3>2
  <2>. QED  BY <1>1, <2>1 DEF GatesInv, Reported
<1>14. Raced'
  BY <1>1, <1>10 DEF GatesInv, Raced
<1>. QED  BY <1>11, <1>12, <1>13, <1>14 DEF GatesInv

LEMMA EmitKeeps ==
  ASSUME GatesInv, NEW k \in Checks, G!Emit(k)
  PROVE  GatesInv'
<1>. DEFINE c == checks[k]
            e == [call |-> k, kind |-> c.pc, gate |-> c.at]
            t == IF c.pc = "warning" THEN G!Onward(c) ELSE G!Moved(c, "failed")
<1>1. /\ c # None /\ c.pc \in {"warning", "rejecting"} /\ UNCHANGED <<evaluators, world, changes>>
      /\ checks' = [checks EXCEPT ![k] = t]
      /\ rejections' = rejections \o <<>> \/ rejections' = rejections \o <<e>>
  BY DEF G!Emit
<1>2. /\ c \in Checked /\ Judging(c, evaluators) /\ Held(c, evaluators) /\ c.gates \in Seq(Gates) /\ Len(c.gates) \in Nat
      /\ c.at \in Nat
      /\ \A n \in 1..Len(c.gates) : c.gates[n] \in Gates
  BY <1>1, CheckFacts
<1>3. t = IF c.pc = "warning" THEN G!Onward(c) ELSE G!Moved(c, "failed")
  OBVIOUS
<1>4. e = [call |-> k, kind |-> c.pc, gate |-> c.at]
  OBVIOUS
<1>. HIDE DEF t, e
<1>5. c.at \in 1..Len(c.gates) /\ Len(c.evaluated) = c.at
  BY <1>1, <1>2 DEF Judging, Stopped
<1>14. StopsAs(c, c.pc, evaluators)
  BY <1>1, <1>2 DEF Judging, Stopped
<1>6. /\ t \in Checked /\ Judging(t, evaluators) /\ Held(t, evaluators) /\ Extends(c, t)
      /\ t.evaluated = c.evaluated /\ t.gates = c.gates
      /\ c.pc = "warning" => t.pc \in {"gate", "passed"}
      /\ c.pc = "rejecting" => t.pc = "failed" /\ t.at = c.at
  <2>1. CASE c.pc = "warning"
    <3>1. AllHeld(c, evaluators, Len(c.evaluated))
      BY <1>2, <2>1 DEF Held, AllHeld
    <3>2. t = G!Onward(c)
      BY <1>3, <2>1
    <3>3. /\ t \in Checked /\ Judging(t, evaluators) /\ Held(t, evaluators)
          /\ t.gates = c.gates /\ t.x = c.x /\ t.seen = c.seen /\ t.calm = c.calm
          /\ t.booked = c.booked /\ t.evaluated = c.evaluated /\ t.pc \in {"gate", "passed"}
      BY <1>2, <1>5, <3>1, <3>2, OnwardFacts
    <3>4. Extends(c, t)
      BY <1>5, <2>1, <3>3 DEF Extends
    <3>. QED  BY <2>1, <3>3, <3>4
  <2>2. CASE c.pc = "rejecting"
    <3>1. AllHeld(c, evaluators, c.at - 1)
      <4>1. \A m \in 1..(c.at - 1) : m \in 1..Len(c.evaluated) /\ m # c.at
        BY <1>2, <1>5
      <4>. QED  BY <1>2, <4>1 DEF Held, AllHeld
    <3>2. PICK stop \in Stopped : stop = "failed"
      BY DEF Stopped
    <3>3. t = G!Moved(c, stop) /\ StopsAs(c, stop, evaluators)
      BY <1>3, <1>14, <2>2, <3>2 DEF StopsAs
    <3>4. /\ t \in Checked /\ Judging(t, evaluators) /\ Held(t, evaluators)
          /\ t.gates = c.gates /\ t.x = c.x /\ t.seen = c.seen /\ t.calm = c.calm
          /\ t.booked = c.booked /\ t.evaluated = c.evaluated /\ t.pc = stop /\ t.at = c.at
      <4>1. c \in Checked /\ c.at \in 1..Len(c.gates) /\ Len(c.evaluated) = c.at
        BY <1>2, <1>5
      <4>. HIDE DEF c
      <4>2. t \in Checked /\ Judging(t, evaluators) /\ Held(t, evaluators)
        BY <3>1, <3>3, <4>1, StoppedFacts
      <4>3. t = [gates |-> c.gates, at |-> c.at, evaluated |-> c.evaluated, x |-> c.x,
                 pc |-> stop, seen |-> c.seen, calm |-> c.calm, booked |-> c.booked]
        BY <3>3, <4>1, MovedFields
      <4>. QED  BY <4>2, <4>3
    <3>5. Extends(c, t)
      BY <1>5, <2>2, <3>2, <3>4 DEF Extends
    <3>. QED  BY <2>2, <3>2, <3>4, <3>5
  <2>. QED  BY <1>1, <2>1, <2>2
<1>7. /\ checks' \in [Checks -> Checked \cup {None}] /\ checks'[k] = t /\ Checking' /\ Raced'
      /\ \A n \in 1..Len(rejections) :
           checks'[rejections[n].call] # None /\ Tells(rejections[n], checks'[rejections[n].call], evaluators)
  BY <1>1, <1>6, OneChecks
<1>8. rejections \in Seq(Rejection) /\ Len(rejections) \in Nat
  BY DEF GatesInv, GateTypes
<1>9. e \in Rejection
  BY <1>1, <1>2, <1>4, <1>5 DEF Rejection
<1>10. Tells(e, t, evaluators)
  BY <1>1, <1>2, <1>4, <1>5, <1>6, <1>14 DEF Tells, StopsAs
<1>11. ASSUME NEW n \in 1..Len(rejections), rejections[n] = e PROVE FALSE
  <2>1. Tells(e, c, evaluators)
    BY <1>4, <1>11 DEF GatesInv, Reported
  <2>2. c.pc = "warning" => c.at < c.at
    BY <1>4, <2>1 DEF Tells
  <2>3. c.pc # "rejecting"
    BY <1>4, <2>1 DEF Tells
  <2>. QED  BY <1>1, <1>2, <2>2, <2>3
<1>12. CASE rejections' = rejections \o <<>>
  <2>1. rejections' = rejections
    BY <1>8, <1>12
  <2>2. GateTypes'
    BY <1>1, <1>7, <2>1 DEF GatesInv, GateTypes
  <2>3. Reported'
    BY <1>1, <1>7, <2>1 DEF GatesInv, Reported
  <2>. QED  BY <1>7, <2>2, <2>3 DEF GatesInv
<1>13. CASE rejections' = rejections \o <<e>>
  <2>1. /\ rejections' \in Seq(Rejection) /\ Len(rejections') = Len(rejections) + 1
        /\ rejections'[Len(rejections) + 1] = e /\ \A n \in 1..Len(rejections) : rejections'[n] = rejections[n]
    BY <1>8, <1>9, <1>13
  <2>2. \A n \in 1..Len(rejections') : n \in 1..Len(rejections) \/ n = Len(rejections) + 1
    BY <1>8, <2>1
  <2>3. GateTypes'
    BY <1>1, <1>7, <2>1 DEF GatesInv, GateTypes
  <2>4. Reported'
    <3>1. ASSUME NEW n \in 1..Len(rejections')
          PROVE  checks'[rejections'[n].call] # None /\ Tells(rejections'[n], checks'[rejections'[n].call], evaluators')
      <4>1. CASE n \in 1..Len(rejections)
        BY <1>1, <1>7, <2>1, <4>1
      <4>2. CASE n = Len(rejections) + 1
        <5>1. rejections'[n] = e /\ e.call = k
          BY <1>4, <2>1, <4>2
        <5>2. t # None
          BY <1>6, GatesAssumption
        <5>. QED  BY <1>1, <1>7, <1>10, <5>1, <5>2
      <4>. QED  BY <2>2, <4>1, <4>2
    <3>2. ASSUME NEW a \in 1..Len(rejections'), NEW b \in 1..Len(rejections'), rejections'[a] = rejections'[b]
          PROVE  a = b
      BY <1>11, <2>1, <2>2, <3>2 DEF GatesInv, Reported
    <3>. QED  BY <3>1, <3>2 DEF Reported
  <2>. QED  BY <1>7, <2>3, <2>4 DEF GatesInv
<1>. QED  BY <1>1, <1>12, <1>13

\* Of a passed check each fatal gate held.
LEMMA PassedHeld ==
  ASSUME GatesInv, NEW k \in Checks, checks[k] # None, checks[k].pc = "passed",
         NEW n \in 1..Len(checks[k].gates), G!Fatal(checks[k].gates[n])
  PROVE  /\ checks[k].gates[n].type \in evaluators
         /\ \E w \in checks[k].seen : G!Passes(checks[k].gates[n], w, checks[k].x)
<1>1. Held(checks[k], evaluators) /\ Len(checks[k].evaluated) = Len(checks[k].gates)
  BY CheckFacts DEF Judging
<1>. QED  BY <1>1 DEF Held

\* The others see the world change.
LEMMA WorldChanges ==
  ASSUME GatesInv, NEW w \in Worlds, NEW by, G!Becomes(w, by), UNCHANGED <<evaluators, rejections>>,
         changes' \in 0..MaxChanges,
         \/ by \notin Checks /\ (w.balance < 0 => world.balance < 0)
         \/ by \in Checks /\ checks[by] # None /\ ~ checks[by].booked
            /\ (w.balance < 0 => world.balance < 0 \/ ~ checks[by].calm)
  PROVE  GatesInv'
<1>1. world' = w /\ checks' = [k \in Checks |-> IF checks[k] = None THEN None ELSE G!Sees(checks[k], w, k = by)]
  BY DEF G!Becomes
<1>2. ASSUME NEW k \in Checks, checks[k] # None
      PROVE  /\ checks'[k] \in Checked /\ checks'[k] # None /\ Judging(checks'[k], evaluators) /\ Held(checks'[k], evaluators)
             /\ Calm(checks'[k], w)
             /\ checks'[k].calm = (IF k = by THEN checks[k].calm ELSE checks[k].calm /\ checks[k].booked)
             /\ checks'[k].booked = (IF k = by THEN TRUE ELSE checks[k].booked)
             /\ \A e : Tells(e, checks[k], evaluators) => Tells(e, checks'[k], evaluators)
  <2>. DEFINE c == checks[k]
              t == checks'[k]
  <2>1. PICK books \in BOOLEAN : books <=> k = by
    OBVIOUS
  <2>2. t = G!Sees(c, w, books)
    BY <1>1, <1>2, <2>1 DEF G!Sees
  <2>3. c \in Checked /\ Judging(c, evaluators) /\ Held(c, evaluators)
    BY <1>2, CheckFacts
  <2>. HIDE DEF c, t
  <2>4. t = [gates |-> c.gates, at |-> c.at, evaluated |-> c.evaluated, x |-> c.x,
             pc |-> c.pc, seen |-> c.seen \cup {w}, calm |-> IF books THEN c.calm ELSE c.calm /\ c.booked,
             booked |-> IF books THEN TRUE ELSE c.booked]
    BY <2>2, <2>3, SeesFields
  <2>5. /\ c.gates \in Seq(Gates) /\ c.x \in Payloads /\ c.seen \in SUBSET Worlds
        /\ c.evaluated \in Seq(BOOLEAN) /\ c.calm \in BOOLEAN /\ c.booked \in BOOLEAN
        /\ c.at \in Nat /\ c.pc \in {"gate", "warning", "rejecting", "passed", "failed"}
    BY <2>3 DEF Checked
  <2>6. /\ t.gates = c.gates /\ t.x = c.x /\ t.seen = c.seen \cup {w} /\ t.pc = c.pc
        /\ t.evaluated = c.evaluated /\ t.at = c.at
        /\ t.calm = (IF books THEN c.calm ELSE c.calm /\ c.booked) /\ t.booked = (IF books THEN TRUE ELSE c.booked)
    BY <2>4
  <2>7. t.seen \in SUBSET Worlds /\ t.calm \in BOOLEAN /\ t.booked \in BOOLEAN
    BY <2>5, <2>6
  <2>8. t \in Checked
    <3>1. t = [gates |-> c.gates, at |-> c.at, evaluated |-> c.evaluated, x |-> c.x,
               pc |-> c.pc, seen |-> t.seen, calm |-> t.calm, booked |-> t.booked]
      BY <2>4
    <3>. QED  BY <2>5, <2>7, <3>1 DEF Checked
  <2>9. Judging(t, evaluators)
    BY <2>3, <2>6 DEF Judging, StopsAs
  <2>10. Held(t, evaluators)
    BY <2>3, <2>6 DEF Held
  <2>11. Calm(t, w)
    BY <2>5, <2>6 DEF Calm
  <2>12. \A e : Tells(e, c, evaluators) => Tells(e, t, evaluators)
    BY <2>6 DEF Tells
  <2>13. t # None
    BY <2>8, GatesAssumption
  <2>. QED  BY <2>1, <2>6, <2>8, <2>9, <2>10, <2>11, <2>12, <2>13 DEF c, t
<1>3. checks' \in [Checks -> Checked \cup {None}] /\ \A k \in Checks : checks'[k] # None => checks[k] # None
  <2>1. \A k \in Checks : checks'[k] \in Checked \cup {None} /\ (checks[k] = None => checks'[k] = None)
    BY <1>1, <1>2
  <2>. QED  BY <1>1, <2>1
<1>4. GateTypes'
  BY <1>1, <1>3 DEF GatesInv, GateTypes
<1>5. Checking'
  BY <1>1, <1>2, <1>3 DEF Checking
<1>6. Reported'
  <2>1. ASSUME NEW n \in 1..Len(rejections)
        PROVE  checks'[rejections[n].call] # None /\ Tells(rejections[n], checks'[rejections[n].call], evaluators)
    <3>1. rejections[n] \in Rejection
      BY DEF GatesInv, GateTypes
    <3>2. rejections[n].call \in Checks /\ checks[rejections[n].call] # None
          /\ Tells(rejections[n], checks[rejections[n].call], evaluators)
      BY <3>1 DEF GatesInv, Reported, Rejection
    <3>. QED  BY <1>2, <3>2
  <2>. QED  BY <2>1 DEF GatesInv, Reported
<1>7. Raced'
  <2>. SUFFICES ASSUME w.balance < 0
                PROVE  \E k \in Checks : checks'[k] # None /\ checks'[k].booked /\ ~ checks'[k].calm
    BY <1>1 DEF Raced
  <2>1. CASE world.balance < 0
    <3>1. PICK k \in Checks : checks[k] # None /\ checks[k].booked /\ ~ checks[k].calm
      BY <2>1 DEF GatesInv, Raced
    <3>2. checks'[k] # None /\ checks'[k].booked /\ ~ checks'[k].calm
      BY <1>2, <3>1
    <3>. QED  BY <3>2
  <2>2. CASE ~ (world.balance < 0)
    <3>1. by \in Checks /\ checks[by] # None /\ ~ checks[by].calm
      BY <2>2
    <3>2. checks'[by] # None /\ checks'[by].booked /\ ~ checks'[by].calm
      BY <1>2, <3>1
    <3>. QED  BY <3>1, <3>2
  <2>. QED  BY <2>1, <2>2
<1>. QED  BY <1>4, <1>5, <1>6, <1>7 DEF GatesInv

LEMMA BookKeeps ==
  ASSUME GatesInv, NEW k \in Checks, G!Book(k)
  PROVE  GatesInv'
<1>1. /\ checks[k] # None /\ checks[k].pc = "passed" /\ ~ checks[k].booked
      /\ G!Becomes([world EXCEPT !.balance = world.balance - checks[k].x.amount], k)
      /\ UNCHANGED <<evaluators, changes, rejections>>
  BY DEF G!Book
<1>2. PICK n \in DOMAIN checks[k].gates : checks[k].gates[n].type = "BALANCE_SUFFICIENT" /\ G!Fatal(checks[k].gates[n])
  BY DEF G!Book
<1>3. /\ checks[k].gates \in Seq(Gates) /\ checks[k].x \in Payloads /\ checks[k] \in Checked /\ Calm(checks[k], world)
      /\ world \in Worlds /\ changes \in 0..MaxChanges
  BY <1>1, CheckFacts DEF GatesInv, GateTypes
<1>4. n \in 1..Len(checks[k].gates)
  BY <1>3
<1>5. PICK v \in checks[k].seen : G!Passes(checks[k].gates[n], v, checks[k].x)
  BY <1>1, <1>2, <1>4, PassedHeld
<1>6. G!BalanceGate(v, checks[k].x)
  BY <1>2, <1>5 DEF G!Passes, G!Complete, G!Incomplete
<1>7. checks[k].x.amount \in Int /\ v.balance >= checks[k].x.amount
  BY <1>3, <1>6, GatesAssumption DEF G!BalanceGate, G!IsAmount
<1>. DEFINE w == [world EXCEPT !.balance = world.balance - checks[k].x.amount]
<1>8. w \in Worlds /\ w.balance = world.balance - checks[k].x.amount /\ world.balance \in Int
  BY <1>3, <1>7 DEF Worlds
<1>9. checks[k].calm => v = world
  BY <1>1, <1>3, <1>5 DEF Calm
<1>10. w.balance < 0 => world.balance < 0 \/ ~ checks[k].calm
  BY <1>7, <1>8, <1>9
<1>. HIDE DEF w
<1>. QED  BY <1>1, <1>3, <1>8, <1>10, WorldChanges DEF w

LEMMA ChangeKeeps ==
  ASSUME GatesInv, G!Change
  PROVE  GatesInv'
<1>1. world \in Worlds /\ changes \in 0..MaxChanges
  BY DEF GatesInv, GateTypes
<1>2. PICK w \in {[world EXCEPT !.approvals = 1 - world.approvals], [world EXCEPT !.status = "FROZEN"],
                  [world EXCEPT !.open = ~ world.open], [world EXCEPT !.state = "CLOSED"], [world EXCEPT !.limit = None],
                  [world EXCEPT !.balance = 1], [world EXCEPT !.holds = {"REVIEW"}],
                  [world EXCEPT !.holds = world.holds \cup {"SANCTIONS"}]} :
        (w.balance = world.balance \/ world.balance > 1) /\ G!Becomes(w, None)
  BY DEF G!Change
<1>3. w \in Worlds /\ w.balance \in {world.balance, 1} /\ world.balance \in Int
  <2>1. /\ world.balance \in Int /\ world.status \in {"ACTIVE", "FROZEN"} /\ world.state \in {"OPEN", "CLOSED"}
        /\ world.limit \in {2, None} /\ world.approvals \in Int /\ world.holds \in SUBSET {"REVIEW", "SANCTIONS"}
        /\ world.open \in BOOLEAN
        /\ world = [balance |-> world.balance, status |-> world.status, state |-> world.state, limit |-> world.limit,
                    approvals |-> world.approvals, holds |-> world.holds, open |-> world.open]
    BY <1>1 DEF Worlds
  <2>2. CASE w = [world EXCEPT !.approvals = 1 - world.approvals]
    BY <2>1, <2>2 DEF Worlds
  <2>3. CASE w = [world EXCEPT !.status = "FROZEN"]
    BY <2>1, <2>3 DEF Worlds
  <2>4. CASE w = [world EXCEPT !.open = ~ world.open]
    BY <2>1, <2>4 DEF Worlds
  <2>5. CASE w = [world EXCEPT !.state = "CLOSED"]
    BY <2>1, <2>5 DEF Worlds
  <2>6. CASE w = [world EXCEPT !.limit = None]
    BY <2>1, <2>6 DEF Worlds
  <2>7. CASE w = [world EXCEPT !.balance = 1]
    BY <2>1, <2>7 DEF Worlds
  <2>8. CASE w = [world EXCEPT !.holds = {"REVIEW"}]
    BY <2>1, <2>8 DEF Worlds
  <2>9. CASE w = [world EXCEPT !.holds = world.holds \cup {"SANCTIONS"}]
    BY <2>1, <2>9 DEF Worlds
  <2>. QED  BY <1>2, <2>1, <2>2, <2>3, <2>4, <2>5, <2>6, <2>7, <2>8, <2>9
<1>4. changes' \in 0..MaxChanges /\ UNCHANGED <<evaluators, rejections>>
  BY <1>1, GatesAssumption DEF G!Change
<1>5. w.balance < 0 => world.balance < 0
  BY <1>3
<1>6. None \notin Checks
  BY GatesAssumption
<1>. QED  BY <1>2, <1>3, <1>4, <1>5, <1>6, WorldChanges

LEMMA GatesStart == G!Init => GatesInv
<1>. SUFFICES ASSUME G!Init PROVE GatesInv
  OBVIOUS
<1>1. \A k \in Checks : checks[k] = None
  BY DEF G!Init
<1>2. GateTypes
  <2>1. world \in Worlds
    BY DEF G!Init, Worlds
  <2>2. rejections \in Seq(Rejection)
    BY DEF G!Init
  <2>. QED  BY <2>1, <2>2, GatesAssumption DEF G!Init, GateTypes
<1>3. Checking
  BY <1>1 DEF Checking
<1>4. Reported
  <2>1. Len(rejections) = 0
    BY DEF G!Init
  <2>. QED  BY <2>1 DEF Reported
<1>5. Raced
  <2>1. world.balance = 2
    BY DEF G!Init
  <2>. QED  BY <2>1 DEF Raced
<1>. QED  BY <1>2, <1>3, <1>4, <1>5 DEF GatesInv

LEMMA GatesStep == GatesInv /\ (G!Next \/ UNCHANGED gateVars) => GatesInv'
<1>. SUFFICES ASSUME GatesInv, G!Next \/ UNCHANGED gateVars PROVE GatesInv'
  OBVIOUS
<1>1. CASE UNCHANGED gateVars
  BY <1>1 DEF gateVars, GatesInv, GateTypes, Checking, Reported, Raced
<1>2. CASE G!Next
  <2>1. \/ \E k \in Checks, d \in Declared, x \in Payloads : G!Check(k, d, x)
        \/ \E k \in Checks : G!UnknownGate(k) \/ G!EvaluateGate(k)
        \/ \E k \in Checks : G!Emit(k)
        \/ \E k \in Checks : G!Book(k)
        \/ G!Change
    BY <1>2 DEF G!Next
  <2>. QED  BY <2>1, CheckStarts, GateJudged, EmitKeeps, BookKeeps, ChangeKeeps
<1>. QED  BY <1>1, <1>2

LEMMA GatesInvImplies == GatesInv => GatesDecide
<1>. SUFFICES ASSUME GatesInv PROVE GatesDecide
  OBVIOUS
<1>1. rejections \in Seq(Rejection) /\ DOMAIN rejections = 1..Len(rejections)
  BY DEF GatesInv, GateTypes
<1>2. \A n \in DOMAIN rejections : rejections[n] \in Rejection
  BY <1>1
<1>3. G!TypeOK
  <2>1. ASSUME NEW k \in Checks, checks[k] # None
        PROVE  /\ checks[k].pc \in {"gate", "warning", "rejecting", "passed", "failed"}
               /\ checks[k].at \in 1..(Len(checks[k].gates) + 1) /\ Len(checks[k].evaluated) <= Len(checks[k].gates)
    BY <2>1, CheckFacts DEF Judging, Checked
  <2>2. world.balance \in Int
    BY DEF GatesInv, GateTypes, Worlds
  <2>3. \A n \in DOMAIN rejections : rejections[n].call \in Checks
    BY <1>2 DEF Rejection
  <2>. QED  BY <2>1, <2>2, <2>3 DEF GatesInv, GateTypes, G!TypeOK
<1>4. G!GatesHeld
  <2>1. ASSUME NEW k \in Checks, checks[k] # None, checks[k].pc = "passed",
               NEW n \in DOMAIN checks[k].gates, G!Fatal(checks[k].gates[n])
        PROVE  /\ checks[k].gates[n].type \in evaluators
               /\ \E w \in checks[k].seen : G!Passes(checks[k].gates[n], w, checks[k].x)
    <3>1. checks[k].gates \in Seq(Gates)
      BY <2>1, CheckFacts
    <3>2. n \in 1..Len(checks[k].gates)
      BY <3>1
    <3>. QED  BY <2>1, <3>2, PassedHeld
  <2>. QED  BY <2>1 DEF G!GatesHeld
<1>5. G!EventsFollowChecks
  <2>1. ASSUME NEW n \in DOMAIN rejections
        PROVE  LET call == checks[rejections[n].call]  g == call.gates[rejections[n].gate] IN
                 /\ rejections[n].gate \in DOMAIN call.evaluated /\ ~ call.evaluated[rejections[n].gate]
                 /\ rejections[n].kind = "rejecting" =>
                      call.pc = "failed" /\ rejections[n].gate = Len(call.evaluated) /\ G!Fatal(g)
                 /\ rejections[n].kind = "warning" => g.type \in evaluators /\ ~ G!Fatal(g)
    <3>. DEFINE e == rejections[n]
                c == checks[e.call]
    <3>1. e.call \in Checks /\ c # None /\ Tells(e, c, evaluators)
      BY <1>1, <1>2 DEF GatesInv, Reported, Rejection
    <3>2. Judging(c, evaluators) /\ c.evaluated \in Seq(BOOLEAN) /\ Len(c.evaluated) \in Nat
      BY <3>1, CheckFacts
    <3>. HIDE DEF e, c
    <3>3. e.gate \in DOMAIN c.evaluated
      BY <3>1, <3>2 DEF Tells
    <3>4. ~ c.evaluated[e.gate]
      BY <3>1 DEF Tells
    <3>5. e.kind = "rejecting" => c.pc = "failed" /\ e.gate = Len(c.evaluated) /\ G!Fatal(c.gates[e.gate])
      BY <3>1, <3>2 DEF Tells, Judging, Stopped
    <3>6. e.kind = "warning" => c.gates[e.gate].type \in evaluators /\ ~ G!Fatal(c.gates[e.gate])
      BY <3>1 DEF Tells
    <3>. QED  BY <3>3, <3>4, <3>5, <3>6 DEF e, c
  <2>. QED  BY <1>1, <2>1 DEF G!EventsFollowChecks, GatesInv, Reported
<1>6. G!OverdrawnOnlyByRace
  BY DEF GatesInv, Raced, G!OverdrawnOnlyByRace
<1>. QED  BY <1>3, <1>4, <1>5, <1>6 DEF GatesDecide

(***************************************************************************)
(* Whatever commands declare, gates are configured with and the world does *)
(* between two gates: a command that passed was let pass by each fatal     *)
(* gate, the store has the events of the checks and no others, and what is *)
(* overdrawn was changed between its check and its booking.                *)
(***************************************************************************)
THEOREM GatesAreDecisive == LayerSpec => []GatesDecide
<1>1. LayerInit => GatesInv
  BY GatesStart DEF LayerInit
<1>2. GatesInv /\ [LayerNext]_<<railVars, gateVars, serverVars, fanVars, achVars>> => GatesInv'
  BY GatesStep DEF LayerNext
<1>. QED  BY <1>1, <1>2, GatesInvImplies, PTL DEF LayerSpec

-----------------------------------------------------------------------------
(***************************************************************************)
(* The server.  What each step of the boot that is behind has given.       *)
(***************************************************************************)
Booting == {"config", "jwt", "kafka", "redis", "store", "selftest", "cors", "listen"}
Fresh   == {"down", "config"}
BootInv ==
  /\ env \in Envs /\ phase \in Booting \cup {"down", "up"}
  /\ boots \in 0..MaxBoots /\ (phase # "down" => boots > 0)
  /\ jwt \in {None, 0} \cup 1..MaxBoots /\ online \subseteq {"kafka", "redis"}
  /\ phase \notin Fresh => ~ S!ConfigThrows(env) /\ build = [hash |-> S!BuildHash(env), attested |-> S!Attested(env)]
  /\ phase \notin Fresh \cup {"jwt"} => ~ S!JwtThrows(env) /\ jwt = S!JwtKey(env, boots)
  /\ phase \notin Fresh \cup {"jwt", "kafka"} => (env.node = "production" /\ env.kafka => "kafka" \in online)
  /\ phase \in {"store", "selftest", "cors", "listen", "up"} =>
       (env.node = "production" /\ env.redis => "redis" \in online)
  /\ phase \in {"cors", "listen", "up"} => ~ S!SelfTestThrows(env)
  /\ phase \in {"listen", "up"} => ~ S!CorsThrows(env)

LEMMA PhaseFacts ==
  /\ DOMAIN S!Phases = 1..8 /\ Len(S!Phases) = 8 /\ Head(S!Phases) = "config" /\ S!Range(S!Phases) = Booting
  /\ S!Phases[1] = "config" /\ S!Phases[2] = "jwt" /\ S!Phases[3] = "kafka" /\ S!Phases[4] = "redis"
  /\ S!Phases[5] = "store" /\ S!Phases[6] = "selftest" /\ S!Phases[7] = "cors" /\ S!Phases[8] = "listen"
<1>1. DOMAIN S!Phases = 1..8 /\ Len(S!Phases) = 8 /\ Head(S!Phases) = "config"
  BY DEF S!Phases
<1>2. /\ S!Phases[1] = "config" /\ S!Phases[2] = "jwt" /\ S!Phases[3] = "kafka" /\ S!Phases[4] = "redis"
      /\ S!Phases[5] = "store" /\ S!Phases[6] = "selftest" /\ S!Phases[7] = "cors" /\ S!Phases[8] = "listen"
  BY DEF S!Phases
<1>3. S!Range(S!Phases) = {S!Phases[n] : n \in 1..8}
  BY <1>1 DEF S!Range
<1>4. \A n \in 1..8 : n \in {1, 2, 3, 4, 5, 6, 7, 8}
  OBVIOUS
<1>5. S!Range(S!Phases) = Booting
  BY <1>2, <1>3, <1>4 DEF Booting
<1>. QED  BY <1>1, <1>2, <1>5

LEMMA BootStart == S!Init => BootInv
BY ServerAssumption DEF S!Init, BootInv, Booting, Fresh

\* One step of the boot, from its nth phase to the next.
LEMMA BootGoesOn ==
  ASSUME BootInv, S!BootStep
  PROVE  BootInv'
<1>1. PICK n \in DOMAIN S!Phases, luck \in BOOLEAN :
        /\ phase = S!Phases[n]
        /\ phase' = IF S!Throws(phase, env, luck) THEN "down" ELSE IF n = Len(S!Phases) THEN "up" ELSE S!Phases[n + 1]
        /\ build' = IF phase = "config" THEN [hash |-> S!BuildHash(env), attested |-> S!Attested(env)] ELSE build
        /\ jwt' = IF phase = "jwt" THEN S!JwtKey(env, boots) ELSE jwt
        /\ online' = IF S!Connects(phase, env, luck) THEN online \cup {phase} ELSE online
        /\ UNCHANGED <<env, boots, now, hits, S!clients, requests, passed, submitted>>
  BY DEF S!BootStep
<1>2. n \in {1, 2, 3, 4, 5, 6, 7, 8}
  BY PhaseFacts
<1>3. env' = env /\ boots' = boots /\ phase # "down" /\ phase # "up" /\ phase \in Booting
  BY <1>1, <1>2, PhaseFacts DEF Booting
<1>4. CASE phase' = "down"
  <2>1. jwt' \in {None, 0} \cup 1..MaxBoots
    BY <1>1, <1>3, ServerAssumption DEF BootInv, S!JwtKey, S!Pem
  <2>2. online' \subseteq {"kafka", "redis"}
    BY <1>1 DEF BootInv, S!Connects
  <2>. QED  BY <1>3, <1>4, <2>1, <2>2 DEF BootInv, Fresh
<1>5. CASE phase' # "down"
  <2>0. ~ S!Throws(phase, env, luck) /\ phase' = IF n = 8 THEN "up" ELSE S!Phases[n + 1]
    BY <1>1, <1>5, PhaseFacts
  <2>1. CASE n = 1
    <3>1. phase = "config" /\ phase' = "jwt"
      BY <1>1, <2>0, <2>1, PhaseFacts
    <3>2. ~ S!ConfigThrows(env) /\ build' = [hash |-> S!BuildHash(env), attested |-> S!Attested(env)]
      BY <1>1, <2>0, <3>1 DEF S!Throws
    <3>3. jwt' = jwt /\ online' = online
      BY <1>1, <3>1 DEF S!Connects
    <3>. QED  BY <1>3, <3>1, <3>2, <3>3 DEF BootInv, Fresh, Booting
  <2>2. CASE n = 2
    <3>1. phase = "jwt" /\ phase' = "kafka"
      BY <1>1, <2>0, <2>2, PhaseFacts
    <3>2. ~ S!JwtThrows(env) /\ jwt' = S!JwtKey(env, boots)
      BY <1>1, <2>0, <3>1 DEF S!Throws
    <3>3. build' = build /\ online' = online
      BY <1>1, <3>1 DEF S!Connects
    <3>4. jwt' \in {None, 0} \cup 1..MaxBoots
      BY <1>3, <3>2, ServerAssumption DEF BootInv, S!JwtKey, S!Pem
    <3>. QED  BY <1>3, <3>1, <3>2, <3>3, <3>4 DEF BootInv, Fresh, Booting
  <2>3. CASE n = 3
    <3>1. phase = "kafka" /\ phase' = "redis"
      BY <1>1, <2>0, <2>3, PhaseFacts
    <3>2. build' = build /\ jwt' = jwt /\ online \subseteq online' /\ online' \subseteq {"kafka", "redis"}
      BY <1>1, <3>1 DEF BootInv, S!Connects
    <3>3. env.node = "production" /\ env.kafka => "kafka" \in online'
      BY <1>1, <2>0, <3>1 DEF S!Throws, S!Connects
    <3>. QED  BY <1>3, <3>1, <3>2, <3>3 DEF BootInv, Fresh, Booting
  <2>4. CASE n = 4
    <3>1. phase = "redis" /\ phase' = "store"
      BY <1>1, <2>0, <2>4, PhaseFacts
    <3>2. build' = build /\ jwt' = jwt /\ online \subseteq online' /\ online' \subseteq {"kafka", "redis"}
      BY <1>1, <3>1 DEF BootInv, S!Connects
    <3>3. env.node = "production" /\ env.redis => "redis" \in online'
      BY <1>1, <2>0, <3>1 DEF S!Throws, S!Connects
    <3>. QED  BY <1>3, <3>1, <3>2, <3>3 DEF BootInv, Fresh, Booting
  <2>5. CASE n \in 5..8
    <3>1. /\ phase \in {"store", "selftest", "cors", "listen"}
          /\ phase' = (IF phase = "store" THEN "selftest" ELSE IF phase = "selftest" THEN "cors"
                       ELSE IF phase = "cors" THEN "listen" ELSE "up")
      BY <1>1, <1>2, <2>0, <2>5, PhaseFacts
    <3>2. build' = build /\ jwt' = jwt /\ online' = online
      BY <1>1, <3>1 DEF S!Connects
    <3>3. (phase = "selftest" => ~ S!SelfTestThrows(env)) /\ (phase = "cors" => ~ S!CorsThrows(env))
      BY <2>0 DEF S!Throws
    <3>. QED  BY <1>3, <3>1, <3>2, <3>3 DEF BootInv, Fresh, Booting
  <2>. QED  BY <1>2, <2>1, <2>2, <2>3, <2>4, <2>5
<1>. QED  BY <1>4, <1>5

LEMMA BootSteps ==
  ASSUME BootInv, S!Next \/ UNCHANGED serverVars
  PROVE  BootInv'
<1>1. CASE S!BootStep
  BY <1>1, BootGoesOn
<1>2. CASE S!Start
  BY <1>2, PhaseFacts, ServerAssumption DEF BootInv, S!Start, Fresh, Booting
<1>3. CASE S!Crash
  BY <1>3 DEF BootInv, S!Crash, Fresh, Booting
<1>4. CASE UNCHANGED <<env, phase, boots, jwt, build, online>>
  BY <1>4 DEF BootInv
<1>5. ASSUME ~ (S!BootStep \/ S!Start \/ S!Crash) PROVE UNCHANGED <<env, phase, boots, jwt, build, online>>
  BY <1>5 DEF S!Next, S!Tick, S!SessionCreate, S!SessionAnswer, S!Sign, S!Receive, S!LimitRequest, S!Handle, S!process,
     serverVars
<1>. QED  BY <1>1, <1>2, <1>3, <1>4, <1>5

LEMMA BootsClosed ==
  ASSUME BootInv
  PROVE  S!FailsClosed
<1>. SUFFICES ASSUME phase = "up", env.node = "production" PROVE
       /\ jwt = S!Pem /\ ~env.autoGrant /\ env.registries /\ env.cors
       /\ (env.kafka => "kafka" \in online) /\ (env.redis => "redis" \in online)
       /\ env.attestation # None => env.attestation = build.hash \/ S!Named(env) = None
       /\ S!Health = "HEALTHY" => {env.manifest, build.hash, build.attested} \ {None} = {build.hash}
  BY DEF S!FailsClosed
<1>1. /\ ~ S!ConfigThrows(env) /\ build = [hash |-> S!BuildHash(env), attested |-> S!Attested(env)]
      /\ ~ S!JwtThrows(env) /\ jwt = S!JwtKey(env, boots) /\ ~ S!SelfTestThrows(env) /\ ~ S!CorsThrows(env)
      /\ (env.kafka => "kafka" \in online) /\ (env.redis => "redis" \in online)
  BY DEF BootInv, Fresh
<1>2. env.keys \in {"good", "bad", None}
  BY ServerAssumption DEF BootInv
<1>3. jwt = S!Pem
  BY <1>1, <1>2 DEF S!JwtThrows, S!JwtKey, S!Secret
<1>4. ~ env.autoGrant /\ env.registries /\ env.cors
  BY <1>1 DEF S!ConfigThrows, S!SelfTestThrows, S!CorsThrows, S!ProdLike
<1>5. env.attestation # None => env.attestation = build.hash \/ S!Named(env) = None
  BY <1>1 DEF S!ConfigThrows, S!BuildHash
<1>6. S!Health = "HEALTHY" => {env.manifest, build.hash, build.attested} \ {None} = {build.hash}
  BY DEF S!Health, S!Provenance
<1>. QED  BY <1>1, <1>3, <1>4, <1>5, <1>6

-----------------------------------------------------------------------------
(***************************************************************************)
(* Requests and tokens.  A token is of a session the bus accepted, and so  *)
(* is whatever is done with it.                                            *)
(***************************************************************************)
SessionCalls == [pc : {"submitting", "signing", "answered", "lost"}, actor : Actors, type : ActorTypes]
Tokens       == [actor : Actors, type : ActorTypes, key : {None, 0} \cup 1..MaxBoots, exp : Int]
RouteCalls   == [pc : {"limiting", "handling", "answered", "lost"}, route : Routes, token : Tokens \cup {None}]

OfSession(t, made) == [actor |-> t.actor, type |-> t.type] \in made
\* What is known of a request, by how far it is.
Known(c, made, signed) ==
  /\ c.pc = "signing" => OfSession(c, made)
  /\ c.pc \in {"limiting", "handling"} => c.token \in signed \cup {None}
ActTypes ==
  /\ now \in 0..MaxTime /\ tokens \subseteq Tokens
  /\ requests \in [Requests -> SessionCalls \cup RouteCalls \cup {None}]
ActKnown == \A r \in Requests : requests[r] # None => Known(requests[r], sessions, tokens)
TokensOfSessions == \A t \in tokens : OfSession(t, sessions)
Acted(s, made) == OfSession(s, made) /\ s.at < s.token.exp /\ s.token.key \in {0, s.boot}
ActInv == ActTypes /\ ActKnown /\ TokensOfSessions /\ \A s \in submitted : Acted(s, sessions)

LEMMA ActStart == S!Init => ActInv
BY ServerAssumption DEF S!Init, ActInv, ActTypes, ActKnown, TokensOfSessions

\* A request moved on.
LEMMA MovedCall ==
  ASSUME NEW c \in SessionCalls \cup RouteCalls, NEW p, NEW t, t = [c EXCEPT !.pc = p]
  PROVE  /\ c \in SessionCalls => t = [pc |-> p, actor |-> c.actor, type |-> c.type]
         /\ c \in RouteCalls => t = [pc |-> p, route |-> c.route, token |-> c.token]
<1>1. CASE c \in SessionCalls
  <2>1. c = [pc |-> c.pc, actor |-> c.actor, type |-> c.type]
    BY <1>1 DEF SessionCalls
  <2>2. t = [pc |-> p, actor |-> c.actor, type |-> c.type]
    BY <2>1
  <2>3. c \notin RouteCalls
    BY <2>1 DEF RouteCalls
  <2>. QED  BY <2>2, <2>3
<1>2. CASE c \in RouteCalls
  <2>1. c = [pc |-> c.pc, route |-> c.route, token |-> c.token]
    BY <1>2 DEF RouteCalls
  <2>2. t = [pc |-> p, route |-> c.route, token |-> c.token]
    BY <2>1
  <2>3. c \notin SessionCalls
    BY <2>1 DEF SessionCalls
  <2>. QED  BY <2>2, <2>3
<1>. QED  BY <1>1, <1>2

\* A request that is where the server waits for it.
LEMMA WaitingCall ==
  ASSUME ActTypes, NEW r \in Requests, NEW p, S!At(r, p)
  PROVE  /\ phase = "up" /\ requests[r] # None /\ requests[r].pc = p /\ requests[r] \in SessionCalls \cup RouteCalls
         /\ p \in {"submitting", "signing"} => requests[r] \in SessionCalls
         /\ p \in {"limiting", "handling"} => requests[r] \in RouteCalls
<1>1. phase = "up" /\ requests[r] # None /\ requests[r].pc = p
  BY DEF S!At
<1>2. requests[r] \in SessionCalls \cup RouteCalls
  BY <1>1 DEF ActTypes
<1>3. p \in {"submitting", "signing"} => requests[r] \in SessionCalls
  BY <1>1, <1>2 DEF RouteCalls
<1>4. p \in {"limiting", "handling"} => requests[r] \in RouteCalls
  BY <1>1, <1>2 DEF SessionCalls
<1>. QED  BY <1>1, <1>2, <1>3, <1>4

LEMMA GoesTo ==
  ASSUME ActTypes, NEW r \in Requests, requests[r] \in SessionCalls \cup RouteCalls, NEW p, S!Goto(r, p)
  PROVE  \E t : /\ requests' = [requests EXCEPT ![r] = t]
                /\ requests[r] \in SessionCalls => t = [pc |-> p, actor |-> requests[r].actor, type |-> requests[r].type]
                /\ requests[r] \in RouteCalls => t = [pc |-> p, route |-> requests[r].route, token |-> requests[r].token]
<1>. DEFINE t == [requests[r] EXCEPT !.pc = p]
<1>1. requests' = [requests EXCEPT ![r] = t]
  BY DEF S!Goto
<1>2. /\ requests[r] \in SessionCalls => t = [pc |-> p, actor |-> requests[r].actor, type |-> requests[r].type]
      /\ requests[r] \in RouteCalls => t = [pc |-> p, route |-> requests[r].route, token |-> requests[r].token]
  BY MovedCall
<1>. QED  BY <1>1, <1>2

\* One request moves; sessions and tokens may come in addition.
LEMMA OneRequest ==
  ASSUME ActInv, NEW r \in Requests, NEW t \in SessionCalls \cup RouteCalls, requests' = [requests EXCEPT ![r] = t],
         now' = now, sessions \subseteq sessions', tokens \subseteq tokens', tokens' \subseteq Tokens,
         \A k \in tokens' : OfSession(k, sessions'), Known(t, sessions', tokens')
  PROVE  ActTypes' /\ ActKnown' /\ TokensOfSessions' /\ \A s \in submitted : Acted(s, sessions')
<1>1. ActTypes'
  BY DEF ActInv, ActTypes
<1>2. ActKnown'
  <2>1. ASSUME NEW q \in Requests, requests'[q] # None PROVE Known(requests'[q], sessions', tokens')
    <3>1. CASE q = r
      BY <3>1 DEF ActInv, ActTypes
    <3>2. CASE q # r
      <4>1. requests'[q] = requests[q] /\ requests[q] # None /\ Known(requests[q], sessions, tokens)
        BY <2>1, <3>2 DEF ActInv, ActTypes, ActKnown
      <4>. QED  BY <4>1 DEF Known, OfSession
    <3>. QED  BY <3>1, <3>2
  <2>. QED  BY <2>1 DEF ActKnown
<1>3. TokensOfSessions'
  BY DEF TokensOfSessions
<1>4. \A s \in submitted : Acted(s, sessions')
  BY DEF ActInv, Acted, OfSession
<1>. QED  BY <1>1, <1>2, <1>3, <1>4

LEMMA CrashActs ==
  ASSUME ActInv, S!Crash
  PROVE  ActInv'
<1>1. UNCHANGED <<now, sessions, tokens, submitted>>
  BY DEF S!Crash, S!clients
<1>2. ASSUME NEW r \in Requests
      PROVE  /\ requests'[r] \in SessionCalls \cup RouteCalls \cup {None}
             /\ requests'[r] # None => Known(requests'[r], sessions, tokens)
  <2>1. requests'[r] = IF requests[r] = None THEN None ELSE [requests[r] EXCEPT !.pc = "lost"]
    BY DEF S!Crash
  <2>2. CASE requests[r] = None
    BY <2>1, <2>2
  <2>3. CASE requests[r] # None
    <3>1. requests[r] \in SessionCalls \cup RouteCalls /\ requests'[r] = [requests[r] EXCEPT !.pc = "lost"]
      BY <2>1, <2>3 DEF ActInv, ActTypes
    <3>2. /\ requests[r] \in SessionCalls =>
               requests'[r] = [pc |-> "lost", actor |-> requests[r].actor, type |-> requests[r].type]
          /\ requests[r] \in RouteCalls =>
               requests'[r] = [pc |-> "lost", route |-> requests[r].route, token |-> requests[r].token]
      BY <3>1, MovedCall
    <3>3. CASE requests[r] \in SessionCalls
      BY <3>2, <3>3 DEF SessionCalls, Known
    <3>4. CASE requests[r] \in RouteCalls
      BY <3>2, <3>4 DEF RouteCalls, Known
    <3>. QED  BY <3>1, <3>3, <3>4
  <2>. QED  BY <2>2, <2>3
<1>3. ActTypes'
  <2>1. requests' = [r \in Requests |-> requests'[r]]
    BY DEF S!Crash
  <2>. QED  BY <1>1, <1>2, <2>1 DEF ActInv, ActTypes
<1>4. ActKnown'
  BY <1>1, <1>2 DEF ActKnown
<1>. QED  BY <1>1, <1>3, <1>4 DEF ActInv, TokensOfSessions

LEMMA SessionActs ==
  ASSUME ActInv, NEW r \in Requests,
         \/ \E a \in Actors, t \in ActorTypes : S!SessionCreate(r, a, t)
         \/ \E accepted \in BOOLEAN : S!SessionAnswer(r, accepted)
  PROVE  ActInv'
<1>1. CASE \E a \in Actors, t \in ActorTypes : S!SessionCreate(r, a, t)
  <2>1. PICK a \in Actors, t \in ActorTypes : S!SessionCreate(r, a, t)
    BY <1>1
  <2>2. PICK c : c = [pc |-> "submitting", actor |-> a, type |-> t]
    OBVIOUS
  <2>3. /\ requests' = [requests EXCEPT ![r] = c] /\ UNCHANGED <<now, sessions, tokens, submitted>>
    BY <2>1, <2>2 DEF S!SessionCreate, S!Arrive, S!clients
  <2>4. c \in SessionCalls /\ Known(c, sessions', tokens')
    BY <2>2 DEF SessionCalls, Known
  <2>5. tokens' \subseteq Tokens /\ \A k \in tokens' : OfSession(k, sessions')
    BY <2>3 DEF ActInv, ActTypes, TokensOfSessions
  <2>6. ActTypes' /\ ActKnown' /\ TokensOfSessions' /\ \A s \in submitted : Acted(s, sessions')
    BY <2>3, <2>4, <2>5, OneRequest
  <2>. QED  BY <2>3, <2>6 DEF ActInv
<1>2. CASE \E accepted \in BOOLEAN : S!SessionAnswer(r, accepted)
  <2>1. PICK accepted \in BOOLEAN : S!SessionAnswer(r, accepted)
    BY <1>2
  <2>2. requests[r] \in SessionCalls
    BY <2>1, WaitingCall DEF S!SessionAnswer, ActInv
  <2>3. S!Goto(r, IF accepted THEN "signing" ELSE "answered") /\ UNCHANGED <<now, tokens, submitted>>
    BY <2>1 DEF S!SessionAnswer
  <2>4. PICK c : /\ requests' = [requests EXCEPT ![r] = c]
                 /\ c = [pc |-> IF accepted THEN "signing" ELSE "answered", actor |-> requests[r].actor, type |-> requests[r].type]
    BY <2>2, <2>3, GoesTo DEF ActInv
  <2>5. sessions' = IF accepted THEN sessions \cup {[actor |-> requests[r].actor, type |-> requests[r].type]} ELSE sessions
    BY <2>1 DEF S!SessionAnswer
  <2>6. c \in SessionCalls
    BY <2>2, <2>4 DEF SessionCalls
  <2>7. Known(c, sessions', tokens')
    BY <2>4, <2>5 DEF Known, OfSession
  <2>8. sessions \subseteq sessions' /\ tokens' \subseteq Tokens /\ \A k \in tokens' : OfSession(k, sessions')
    BY <2>3, <2>5 DEF ActInv, ActTypes, TokensOfSessions, OfSession
  <2>9. ActTypes' /\ ActKnown' /\ TokensOfSessions' /\ \A s \in submitted : Acted(s, sessions')
    BY <2>3, <2>4, <2>6, <2>7, <2>8, OneRequest
  <2>. QED  BY <2>3, <2>9 DEF ActInv
<1>. QED  BY <1>1, <1>2

LEMMA SignActs ==
  ASSUME ActInv, BootInv, NEW r \in Requests, S!Sign(r)
  PROVE  ActInv'
<1>1. requests[r] \in SessionCalls /\ requests[r].pc = "signing" /\ requests[r] # None
  BY WaitingCall DEF S!Sign, ActInv
<1>2. S!Goto(r, "answered") /\ UNCHANGED <<now, sessions, submitted>>
  BY DEF S!Sign
<1>3. PICK c : /\ requests' = [requests EXCEPT ![r] = c]
               /\ c = [pc |-> "answered", actor |-> requests[r].actor, type |-> requests[r].type]
  BY <1>1, <1>2, GoesTo DEF ActInv
<1>4. PICK k : /\ k = [actor |-> requests[r].actor, type |-> requests[r].type, key |-> jwt, exp |-> now + Ttl]
               /\ tokens' = tokens \cup {k}
  BY DEF S!Sign
<1>5. now + Ttl \in Int /\ jwt \in {None, 0} \cup 1..MaxBoots
  BY ServerAssumption DEF ActInv, ActTypes, BootInv
<1>6. k \in Tokens
  BY <1>1, <1>4, <1>5 DEF Tokens, SessionCalls
<1>7. OfSession(requests[r], sessions)
  BY <1>1 DEF ActInv, ActKnown, Known
<1>8. OfSession(k, sessions)
  BY <1>4, <1>7 DEF OfSession
<1>9. c \in SessionCalls /\ Known(c, sessions', tokens')
  BY <1>1, <1>3 DEF SessionCalls, Known
<1>10. tokens \subseteq tokens' /\ tokens' \subseteq Tokens /\ \A t \in tokens' : OfSession(t, sessions')
  BY <1>2, <1>4, <1>6, <1>8 DEF ActInv, ActTypes, TokensOfSessions
<1>11. ActTypes' /\ ActKnown' /\ TokensOfSessions' /\ \A s \in submitted : Acted(s, sessions')
  BY <1>2, <1>3, <1>9, <1>10, OneRequest
<1>. QED  BY <1>2, <1>11 DEF ActInv

LEMMA ReceiveActs ==
  ASSUME ActInv, NEW r \in Requests,
         \/ \E route \in Routes, sent \in tokens \cup {None} : S!Receive(r, route, sent)
         \/ S!LimitRequest(r)
  PROVE  ActInv'
<1>1. UNCHANGED <<now, sessions, tokens, submitted>>
  BY DEF S!Receive, S!LimitRequest, S!clients
<1>2. CASE \E route \in Routes, sent \in tokens \cup {None} : S!Receive(r, route, sent)
  <2>1. PICK route \in Routes, sent \in tokens \cup {None} : S!Receive(r, route, sent)
    BY <1>2
  <2>2. PICK c : c = [pc |-> IF S!Limited THEN "limiting" ELSE "handling", route |-> route, token |-> sent]
    OBVIOUS
  <2>3. requests' = [requests EXCEPT ![r] = c]
    BY <2>1, <2>2 DEF S!Receive, S!Arrive
  <2>4. c \in RouteCalls
    BY <2>2 DEF RouteCalls, ActInv, ActTypes
  <2>5. Known(c, sessions, tokens)
    BY <2>2 DEF Known
  <2>6. tokens \subseteq Tokens /\ \A k \in tokens : OfSession(k, sessions)
    BY DEF ActInv, ActTypes, TokensOfSessions
  <2>7. ActTypes' /\ ActKnown' /\ TokensOfSessions' /\ \A s \in submitted : Acted(s, sessions')
    BY <1>1, <2>3, <2>4, <2>5, <2>6, OneRequest
  <2>. QED  BY <1>1, <2>7 DEF ActInv
<1>3. CASE S!LimitRequest(r)
  <2>1. requests[r] \in RouteCalls /\ requests[r].pc = "limiting" /\ requests[r] # None
    BY <1>3, WaitingCall DEF S!LimitRequest, ActInv
  <2>2. PICK p \in {"handling", "answered"} : S!Goto(r, p)
    BY <1>3 DEF S!LimitRequest
  <2>3. PICK c : /\ requests' = [requests EXCEPT ![r] = c]
                 /\ c = [pc |-> p, route |-> requests[r].route, token |-> requests[r].token]
    BY <2>1, <2>2, GoesTo DEF ActInv
  <2>4. c \in RouteCalls
    BY <2>1, <2>3 DEF RouteCalls
  <2>5. Known(requests[r], sessions, tokens)
    BY <2>1 DEF ActInv, ActKnown
  <2>6. Known(c, sessions, tokens)
    BY <2>1, <2>3, <2>5 DEF Known
  <2>7. tokens \subseteq Tokens /\ \A k \in tokens : OfSession(k, sessions)
    BY DEF ActInv, ActTypes, TokensOfSessions
  <2>8. ActTypes' /\ ActKnown' /\ TokensOfSessions' /\ \A s \in submitted : Acted(s, sessions')
    BY <1>1, <2>3, <2>4, <2>6, <2>7, OneRequest
  <2>. QED  BY <1>1, <2>8 DEF ActInv
<1>. QED  BY <1>2, <1>3

\* What is submitted has a token that verified a moment ago.
LEMMA HandleActs ==
  ASSUME ActInv, BootInv, NEW r \in Requests, S!Handle(r)
  PROVE  ActInv'
<1>1. requests[r] \in RouteCalls /\ requests[r].pc = "handling" /\ requests[r] # None /\ phase = "up"
  BY WaitingCall DEF S!Handle, ActInv
<1>2. UNCHANGED <<now, sessions, tokens>> /\ S!Goto(r, "answered")
  BY DEF S!Handle, S!clients, S!Unauthenticated, S!GrantRoute, S!RevokeRoute, S!SagaRoute, S!UniversalRoute, S!RailRoute,
     S!Command, S!Incomplete
<1>3. PICK c : /\ requests' = [requests EXCEPT ![r] = c]
               /\ c = [pc |-> "answered", route |-> requests[r].route, token |-> requests[r].token]
  BY <1>1, <1>2, GoesTo DEF ActInv
<1>4. c \in RouteCalls /\ Known(c, sessions, tokens)
  BY <1>1, <1>3 DEF RouteCalls, Known
<1>5. tokens \subseteq Tokens /\ \A k \in tokens : OfSession(k, sessions)
  BY DEF ActInv, ActTypes, TokensOfSessions
<1>6. ActTypes' /\ ActKnown' /\ TokensOfSessions' /\ \A s \in submitted : Acted(s, sessions')
  BY <1>2, <1>3, <1>4, <1>5, OneRequest
<1>7. ASSUME NEW s \in submitted' PROVE Acted(s, sessions)
  <2>1. CASE s \in submitted
    BY <2>1 DEF ActInv
  <2>2. CASE s \notin submitted
    <3>. DEFINE used == requests[r].token
    <3>1. PICK route : S!Command(r, route)
      BY <1>7, <2>2 DEF S!Handle, S!Unauthenticated, S!GrantRoute, S!RevokeRoute, S!SagaRoute, S!UniversalRoute, S!RailRoute,
         S!Incomplete
    <3>2. S!Verify(used) /\ s = [route |-> route, actor |-> used.actor, type |-> used.type, at |-> now, boot |-> boots,
                                  token |-> used]
      BY <1>7, <2>2, <3>1 DEF S!Command
    <3>3. used \in tokens /\ used.key = jwt /\ now < used.exp
      BY <1>1, <3>2 DEF S!Verify, ActInv, ActKnown, Known
    <3>4. jwt \in {0, boots}
      BY <1>1 DEF BootInv, Fresh, S!JwtKey, S!Pem
    <3>5. OfSession(used, sessions)
      BY <3>3 DEF ActInv, TokensOfSessions
    <3>. HIDE DEF used
    <3>. QED  BY <3>2, <3>3, <3>4, <3>5 DEF Acted, OfSession
  <2>. QED  BY <2>1, <2>2
<1>. QED  BY <1>2, <1>6, <1>7 DEF ActInv

LEMMA ActSteps ==
  ASSUME ActInv, BootInv, S!Next \/ UNCHANGED serverVars
  PROVE  ActInv'
<1>1. CASE S!Crash
  BY <1>1, CrashActs
<1>2. CASE S!Start \/ S!BootStep \/ UNCHANGED serverVars
  <2>1. UNCHANGED <<now, sessions, tokens, requests, submitted>>
    BY <1>2 DEF S!Start, S!BootStep, S!clients, serverVars
  <2>. QED  BY <2>1 DEF ActInv, ActTypes, ActKnown, TokensOfSessions
<1>3. CASE S!Tick
  <2>1. UNCHANGED <<sessions, tokens, requests, submitted>> /\ now' \in 0..MaxTime
    BY <1>3, ServerAssumption DEF S!Tick, S!clients, ActInv, ActTypes
  <2>. QED  BY <2>1 DEF ActInv, ActTypes, ActKnown, TokensOfSessions
<1>4. ASSUME NEW r \in Requests,
             \/ \E a \in Actors, t \in ActorTypes : S!SessionCreate(r, a, t)
             \/ \E accepted \in BOOLEAN : S!SessionAnswer(r, accepted)
             \/ S!Sign(r)
             \/ \E route \in Routes, sent \in tokens \cup {None} : S!Receive(r, route, sent)
             \/ S!LimitRequest(r) \/ S!Handle(r)
      PROVE  ActInv'
  BY <1>4, SessionActs, SignActs, ReceiveActs, HandleActs
<1>. QED  BY <1>1, <1>2, <1>3, <1>4 DEF S!Next

LEMMA ActsInSession == ActInv => S!ActedInSession
BY DEF ActInv, Acted, OfSession, S!ActedInSession, S!Pem

-----------------------------------------------------------------------------
(***************************************************************************)
(* The limiter.  Its hits of a key are at least what it let through of it  *)
(* in the window that is open.                                             *)
(***************************************************************************)
LEMMA SameServerFilters == \A s, K : S!Filter(s, K) = Filter(s, K)
BY DEF S!Filter, Filter, S!Kept, Kept

From(u) == {t \in Int : t >= u}
Since(key, u, through)   == {q \in through : q.key = key /\ q.at >= u}
InWindow(key, t, through) == {q \in through : q.key = key /\ q.at \in (t - Window + 1)..t}
HitsIn(memory, key) == IF key \in DOMAIN memory THEN memory[key] ELSE <<>>

Remembered(memory, time) ==
  \A k \in DOMAIN memory : memory[k] \in Seq(0..time) /\ Len(memory[k]) \in 1..Limit
Counted(key, u, memory, through) == Cardinality(Since(key, u, through)) <= Len(Filter(HitsIn(memory, key), From(u)))
LimitInv ==
  /\ now \in 0..MaxTime /\ IsFiniteSet(passed) /\ \A q \in passed : q.at \in 0..now
  /\ Remembered(hits, now)
  /\ \A key : \A u \in Int : u > now - Window => Counted(key, u, hits, passed)
  /\ \A key : \A t \in 0..now : Cardinality(InWindow(key, t, passed)) <= Limit

LEMMA NonePassed ==
  ASSUME NEW key
  PROVE  /\ \A u : Since(key, u, {}) = {}
         /\ \A t : InWindow(key, t, {}) = {}
         /\ Cardinality({}) = 0 /\ IsFiniteSet({})
<1>1. \A u : Since(key, u, {}) = {}
  BY DEF Since
<1>2. \A t : InWindow(key, t, {}) = {}
  BY DEF InWindow
<1>. QED  BY <1>1, <1>2, FS_EmptySet

\* A boot begins without memory and has let nothing through.
LEMMA LimitFresh ==
  ASSUME NEW time \in 0..MaxTime
  PROVE  /\ Remembered(<<>>, time)
         /\ \A key : \A u \in Int : Counted(key, u, <<>>, {})
         /\ \A key : \A t \in 0..time : Cardinality(InWindow(key, t, {})) <= Limit
<1>1. DOMAIN <<>> = {}
  OBVIOUS
<1>2. ASSUME NEW key, NEW u \in Int PROVE Counted(key, u, <<>>, {})
  <2>1. HitsIn(<<>>, key) = <<>>
    BY <1>1 DEF HitsIn
  <2>2. Len(Filter(HitsIn(<<>>, key), From(u))) = 0
    BY <2>1, FilterEmpty
  <2>3. Cardinality(Since(key, u, {})) = 0
    BY NonePassed
  <2>. QED  BY <2>2, <2>3 DEF Counted
<1>3. ASSUME NEW key, NEW t \in 0..time PROVE Cardinality(InWindow(key, t, {})) <= Limit
  <2>1. Cardinality(InWindow(key, t, {})) = 0
    BY NonePassed
  <2>. QED  BY <2>1, ServerAssumption
<1>. QED  BY <1>1, <1>2, <1>3 DEF Remembered

LEMMA LimitStart == S!Init => LimitInv
<1>. SUFFICES ASSUME S!Init PROVE LimitInv
  OBVIOUS
<1>1. now = 0 /\ hits = <<>> /\ passed = {} /\ 0 \in 0..MaxTime
  BY ServerAssumption DEF S!Init
<1>2. IsFiniteSet({})
  BY FS_EmptySet
<1>. QED  BY <1>1, <1>2, LimitFresh DEF LimitInv

\* A tick: the window that is open is no larger than it was.
LEMMA LimitTicks ==
  ASSUME LimitInv, S!Tick
  PROVE  LimitInv'
<1>1. now' = now + 1 /\ hits' = hits /\ passed' = passed /\ now' \in 0..MaxTime /\ now \in Nat
  BY ServerAssumption DEF S!Tick, LimitInv
<1>2. Remembered(hits, now')
  BY <1>1 DEF LimitInv, Remembered
<1>3. ASSUME NEW key, NEW u \in Int, u > now' - Window PROVE Counted(key, u, hits, passed)
  BY <1>1, <1>3, ServerAssumption DEF LimitInv
<1>4. ASSUME NEW key, NEW t \in 0..now' PROVE Cardinality(InWindow(key, t, passed)) <= Limit
  <2>1. CASE t \in 0..now
    BY <2>1 DEF LimitInv
  <2>2. CASE t \notin 0..now
    <3>1. t = now + 1
      BY <1>1, <2>2
    <3>2. InWindow(key, t, passed) \subseteq InWindow(key, now, passed)
      BY <1>1, <3>1, ServerAssumption DEF InWindow, LimitInv
    <3>3. IsFiniteSet(InWindow(key, now, passed))
      BY FS_Subset DEF InWindow, LimitInv
    <3>4. /\ Cardinality(InWindow(key, t, passed)) \in Nat /\ Cardinality(InWindow(key, now, passed)) \in Nat
          /\ Cardinality(InWindow(key, t, passed)) <= Cardinality(InWindow(key, now, passed))
      BY <3>2, <3>3, FS_Subset, FS_CardinalityType
    <3>5. Cardinality(InWindow(key, now, passed)) <= Limit
      BY <1>1 DEF LimitInv
    <3>. QED  BY <3>4, <3>5, ServerAssumption
  <2>. QED  BY <2>1, <2>2
<1>. QED  BY <1>1, <1>2, <1>3, <1>4 DEF LimitInv

\* The hits of a key that are still in the window.
LEMMA RecentHits ==
  ASSUME LimitInv, NEW key
  PROVE  /\ S!Recent(key) \in Seq(0..now) /\ Len(S!Recent(key)) \in Nat
         /\ \A u \in Int : u > now - Window => Filter(S!Recent(key), From(u)) = Filter(HitsIn(hits, key), From(u))
         /\ S!Recent(key) = Filter(HitsIn(hits, key), From(now - Window + 1))
<1>. DEFINE K == {t \in 0..now : now - t < Window}
            s == HitsIn(hits, key)
<1>1. s \in Seq(0..now)
  <2>1. CASE key \in DOMAIN hits
    BY <2>1 DEF LimitInv, Remembered, HitsIn
  <2>2. CASE key \notin DOMAIN hits
    <3>1. s = <<>>
      BY <2>2 DEF HitsIn
    <3>. QED  BY <3>1
  <2>. QED  BY <2>1, <2>2
<1>2. S!Recent(key) = Filter(s, K)
  BY SameServerFilters DEF S!Recent, S!HitsOf, HitsIn
<1>. HIDE DEF s
<1>3. now \in Int /\ Window \in Int
  BY ServerAssumption DEF LimitInv
<1>4. S!Recent(key) \in Seq((0..now) \cap K)
  BY <1>1, <1>2, FilterIsList
<1>5. ASSUME NEW u \in Int, u > now - Window PROVE Filter(S!Recent(key), From(u)) = Filter(s, From(u))
  <2>1. \A t \in 0..now : t \in From(u) <=> t \in K /\ t \in From(u)
    BY <1>3, <1>5 DEF From
  <2>2. PICK members, kept, chosen : members = 0..now /\ kept = K /\ chosen = From(u)
    OBVIOUS
  <2>3. s \in Seq(members) /\ \A t \in members : t \in chosen <=> t \in kept /\ t \in chosen
    BY <1>1, <2>1, <2>2
  <2>4. Filter(Filter(s, kept), chosen) = Filter(s, chosen)
    BY <2>3, FilterTwice
  <2>. QED  BY <1>2, <2>2, <2>4
<1>6. now - Window + 1 \in Int /\ now - Window + 1 > now - Window
  BY <1>3
<1>7. Filter(S!Recent(key), From(now - Window + 1)) = S!Recent(key)
  <2>1. \A n \in 1..Len(S!Recent(key)) : S!Recent(key)[n] \in From(now - Window + 1)
    <3>1. ASSUME NEW n \in 1..Len(S!Recent(key)) PROVE S!Recent(key)[n] \in From(now - Window + 1)
      <4>1. S!Recent(key)[n] \in K
        BY <1>4
      <4>. QED  BY <1>3, <4>1 DEF From
    <3>. QED  BY <3>1
  <2>. QED  BY <1>4, <2>1, FilterAll
<1>8. Filter(S!Recent(key), From(now - Window + 1)) = Filter(s, From(now - Window + 1))
  BY <1>5, <1>6
<1>9. S!Recent(key) \in Seq(0..now) /\ Len(S!Recent(key)) \in Nat
  <2>1. PICK rec : rec = S!Recent(key) /\ rec \in Seq((0..now) \cap K)
    BY <1>4
  <2>2. PICK members, kept : members = 0..now /\ kept = (0..now) \cap K
    OBVIOUS
  <2>3. rec \in Seq(kept) /\ kept \subseteq members
    BY <2>1, <2>2
  <2>4. rec \in Seq(members) /\ Len(rec) \in Nat
    BY ONLY <2>3
  <2>. QED  BY <2>1, <2>2, <2>4
<1>. QED  BY <1>5, <1>7, <1>8, <1>9 DEF s

LEMMA OneMore ==
  ASSUME NEW set, IsFiniteSet(set), NEW x
  PROVE  /\ Cardinality(set) \in Nat /\ Cardinality(set \cup {x}) \in Nat /\ IsFiniteSet(set \cup {x})
         /\ Cardinality(set \cup {x}) <= Cardinality(set) + 1
<1>1. Cardinality(set) \in Nat
  BY FS_CardinalityType
<1>2. IsFiniteSet(set \cup {x}) /\ Cardinality(set \cup {x}) = IF x \in set THEN Cardinality(set) ELSE Cardinality(set) + 1
  BY FS_AddElement
<1>. QED  BY <1>1, <1>2

\* A request is let through, and remembered.
LEMMA LetThrough ==
  ASSUME LimitInv, NEW key, NEW r, NEW x, x = [key |-> key, at |-> now, by |-> r], S!Allowed(key), NEW memory,
         memory = [k \in DOMAIN hits \cup {key} |-> IF k = key THEN Append(S!Recent(key), now) ELSE hits[k]]
  PROVE  /\ IsFiniteSet(passed \cup {x}) /\ \A q \in passed \cup {x} : q.at \in 0..now
         /\ Remembered(memory, now)
         /\ \A k : \A u \in Int : u > now - Window => Counted(k, u, memory, passed \cup {x})
         /\ \A k : \A t \in 0..now : Cardinality(InWindow(k, t, passed \cup {x})) <= Limit
<1>0. now \in 0..now /\ now \in Nat /\ Window \in Nat /\ Limit \in Nat /\ IsFiniteSet(passed) /\ x.key = key /\ x.at = now
  BY ServerAssumption DEF LimitInv
<1>1. IsFiniteSet(passed \cup {x}) /\ \A q \in passed \cup {x} : q.at \in 0..now
  <2>1. IsFiniteSet(passed \cup {x})
    BY <1>0, FS_AddElement
  <2>. QED  BY <1>0, <2>1 DEF LimitInv
<1>2. PICK rec : rec = S!Recent(key)
  OBVIOUS
<1>3. /\ rec \in Seq(0..now) /\ Len(rec) \in Nat /\ Len(rec) < Limit
      /\ \A u \in Int : u > now - Window => Filter(rec, From(u)) = Filter(HitsIn(hits, key), From(u))
      /\ rec = Filter(HitsIn(hits, key), From(now - Window + 1))
  BY <1>2, RecentHits DEF S!Allowed
<1>4. memory[key] = Append(rec, now) /\ HitsIn(memory, key) = Append(rec, now)
  BY <1>2 DEF HitsIn
<1>5. Remembered(memory, now)
  <2>1. ASSUME NEW k \in DOMAIN memory PROVE memory[k] \in Seq(0..now) /\ Len(memory[k]) \in 1..Limit
    <3>1. CASE k = key
      <4>1. Append(rec, now) \in Seq(0..now) /\ Len(Append(rec, now)) = Len(rec) + 1
        BY <1>0, <1>3
      <4>2. Len(rec) + 1 \in 1..Limit
        BY <1>0, <1>3
      <4>. QED  BY <1>4, <3>1, <4>1, <4>2
    <3>2. CASE k # key
      BY <3>2 DEF LimitInv, Remembered
    <3>. QED  BY <3>1, <3>2
  <2>. QED  BY <2>1 DEF Remembered
<1>6. ASSUME NEW k, k # key
      PROVE  /\ \A u \in Int : Since(k, u, passed \cup {x}) = Since(k, u, passed)
             /\ \A t : InWindow(k, t, passed \cup {x}) = InWindow(k, t, passed)
             /\ HitsIn(memory, k) = HitsIn(hits, k)
  BY <1>0, <1>6 DEF Since, InWindow, HitsIn
<1>7. ASSUME NEW u \in Int, u > now - Window PROVE Counted(key, u, memory, passed \cup {x})
  <2>1. Filter(Append(rec, now), From(u)) = IF now \in From(u) THEN Append(Filter(rec, From(u)), now) ELSE Filter(rec, From(u))
    <3>1. PICK members, e : members = 0..now /\ e = now
      OBVIOUS
    <3>2. rec \in Seq(members) /\ e \in members
      BY <1>0, <1>3, <3>1
    <3>3. Filter(Append(rec, e), From(u)) = IF e \in From(u) THEN Append(Filter(rec, From(u)), e) ELSE Filter(rec, From(u))
      BY <3>2, FilterAppend
    <3>. QED  BY <3>1, <3>3
  <2>2. Counted(key, u, hits, passed)
    BY <1>7 DEF LimitInv
  <2>3. Filter(rec, From(u)) = Filter(HitsIn(hits, key), From(u)) /\ Filter(rec, From(u)) \in Seq((0..now) \cap From(u))
    BY <1>3, <1>7, FilterIsList
  <2>4. IsFiniteSet(Since(key, u, passed))
    BY <1>0, FS_Subset DEF Since
  <2>5. CASE u <= now
    <3>1. Since(key, u, passed \cup {x}) = Since(key, u, passed) \cup {x}
      BY <1>0, <2>5 DEF Since
    <3>2. Cardinality(Since(key, u, passed) \cup {x}) <= Cardinality(Since(key, u, passed)) + 1
          /\ Cardinality(Since(key, u, passed)) \in Nat /\ Cardinality(Since(key, u, passed) \cup {x}) \in Nat
      BY <2>4, OneMore
    <3>3. Len(Filter(HitsIn(memory, key), From(u))) = Len(Filter(rec, From(u))) + 1 /\ Len(Filter(rec, From(u))) \in Nat
      <4>1. now \in From(u)
        BY <1>0, <2>5 DEF From
      <4>2. Filter(HitsIn(memory, key), From(u)) = Append(Filter(rec, From(u)), now)
        BY <1>4, <2>1, <4>1
      <4>. QED  BY <2>3, <4>2
    <3>4. Cardinality(Since(key, u, passed)) <= Len(Filter(rec, From(u)))
      BY <2>2, <2>3 DEF Counted
    <3>5. Cardinality(Since(key, u, passed \cup {x})) <= Len(Filter(HitsIn(memory, key), From(u)))
      <4>1. PICK a, b : a = Cardinality(Since(key, u, passed) \cup {x}) /\ b = Cardinality(Since(key, u, passed))
        OBVIOUS
      <4>2. Cardinality(Since(key, u, passed \cup {x})) = a
        BY <3>1, <4>1
      <4>3. PICK m, n : m = Len(Filter(HitsIn(memory, key), From(u))) /\ n = Len(Filter(rec, From(u)))
        OBVIOUS
      <4>4. a \in Nat /\ b \in Nat /\ n \in Nat /\ a <= b + 1 /\ m = n + 1 /\ b <= n
        BY <3>2, <3>3, <3>4, <4>1, <4>3
      <4>5. a <= m
        BY <4>4
      <4>. QED  BY <4>2, <4>3, <4>5
    <3>. QED  BY <3>5 DEF Counted
  <2>6. CASE u > now
    <3>1. Since(key, u, passed \cup {x}) = {}
      BY <1>0, <1>1, <2>6 DEF Since
    <3>2. now \notin From(u)
      BY <1>0, <2>6 DEF From
    <3>3. Filter(HitsIn(memory, key), From(u)) = Filter(rec, From(u))
      BY <1>4, <2>1, <3>2
    <3>4. Len(Filter(rec, From(u))) \in Nat
      BY <2>3
    <3>5. Cardinality({}) = 0
      BY FS_EmptySet
    <3>6. Cardinality(Since(key, u, passed \cup {x})) = 0
      BY <3>1, <3>5
    <3>. QED  BY <3>3, <3>4, <3>6 DEF Counted
  <2>. QED  BY <1>0, <2>5, <2>6
<1>8. ASSUME NEW k, NEW u \in Int, u > now - Window PROVE Counted(k, u, memory, passed \cup {x})
  <2>1. CASE k # key
    BY <1>6, <1>8, <2>1 DEF LimitInv, Counted
  <2>. QED  BY <1>7, <1>8, <2>1
<1>9. ASSUME NEW t \in 0..now PROVE Cardinality(InWindow(key, t, passed \cup {x})) <= Limit
  <2>1. CASE t # now
    <3>1. InWindow(key, t, passed \cup {x}) = InWindow(key, t, passed)
      BY <1>0, <2>1 DEF InWindow
    <3>. QED  BY <3>1 DEF LimitInv
  <2>2. CASE t = now
    <3>1. InWindow(key, now, passed \cup {x}) = Since(key, now - Window + 1, passed) \cup {x} \/ Window = 0
      BY <1>0 DEF InWindow, Since, LimitInv
    <3>2. now - Window + 1 \in Int /\ now - Window + 1 > now - Window
      BY <1>0
    <3>3. Counted(key, now - Window + 1, hits, passed)
      BY <3>2 DEF LimitInv
    <3>4. IsFiniteSet(Since(key, now - Window + 1, passed))
      BY <1>0, FS_Subset DEF Since
    <3>5. /\ Cardinality(Since(key, now - Window + 1, passed) \cup {x}) <= Cardinality(Since(key, now - Window + 1, passed)) + 1
          /\ Cardinality(Since(key, now - Window + 1, passed)) \in Nat
          /\ Cardinality(Since(key, now - Window + 1, passed) \cup {x}) \in Nat
      BY <3>4, OneMore
    <3>6. Cardinality(Since(key, now - Window + 1, passed)) <= Len(rec)
      BY <1>3, <3>3 DEF Counted
    <3>7. Cardinality(Since(key, now - Window + 1, passed) \cup {x}) <= Limit
      BY <1>0, <1>3, <3>5, <3>6
    <3>8. CASE Window = 0
      <4>1. InWindow(key, now, passed \cup {x}) = {}
        BY <1>0, <3>8 DEF InWindow
      <4>2. Cardinality({}) = 0
        BY FS_EmptySet
      <4>3. Cardinality(InWindow(key, t, passed \cup {x})) = 0
        BY <2>2, <4>1, <4>2
      <4>. QED  BY <1>0, <4>3
    <3>. QED  BY <2>2, <3>1, <3>7, <3>8
  <2>. QED  BY <2>1, <2>2
<1>10. ASSUME NEW k, NEW t \in 0..now PROVE Cardinality(InWindow(k, t, passed \cup {x})) <= Limit
  <2>1. CASE k # key
    BY <1>6, <2>1 DEF LimitInv
  <2>. QED  BY <1>9, <2>1
<1>. QED  BY <1>1, <1>5, <1>8, <1>10

LEMMA LimitSteps ==
  ASSUME LimitInv, S!Next \/ UNCHANGED serverVars
  PROVE  LimitInv'
<1>1. CASE UNCHANGED <<now, hits, passed>>
  BY <1>1 DEF LimitInv
<1>2. CASE S!Tick
  BY <1>2, LimitTicks
<1>3. CASE S!Start
  <2>1. now' = now /\ hits' = <<>> /\ passed' = {} /\ now \in 0..MaxTime
    BY <1>3 DEF S!Start, LimitInv
  <2>2. IsFiniteSet({})
    BY FS_EmptySet
  <2>. QED  BY <2>1, <2>2, LimitFresh DEF LimitInv
<1>4. ASSUME NEW r \in Requests, S!LimitRequest(r) PROVE LimitInv'
  <2>1. PICK key : key = S!Key(requests[r].token)
    OBVIOUS
  <2>2. CASE S!Allowed(key)
    <3>1. PICK x : x = [key |-> key, at |-> now, by |-> r]
      OBVIOUS
    <3>2. /\ hits' = [k \in DOMAIN hits \cup {key} |-> IF k = key THEN Append(S!Recent(key), now) ELSE hits[k]]
          /\ passed' = passed \cup {x} /\ now' = now
      BY <1>4, <2>1, <2>2, <3>1 DEF S!LimitRequest
    <3>3. /\ IsFiniteSet(passed') /\ \A q \in passed' : q.at \in 0..now
          /\ Remembered(hits', now)
          /\ \A k : \A u \in Int : u > now - Window => Counted(k, u, hits', passed')
          /\ \A k : \A t \in 0..now : Cardinality(InWindow(k, t, passed')) <= Limit
      BY <2>2, <3>1, <3>2, LetThrough
    <3>. QED  BY <3>2, <3>3 DEF LimitInv
  <2>3. CASE ~ S!Allowed(key)
    BY <1>1, <1>4, <2>1, <2>3 DEF S!LimitRequest
  <2>. QED  BY <2>2, <2>3
<1>5. ASSUME ~ (S!Tick \/ S!Start \/ \E r \in Requests : S!LimitRequest(r)) PROVE UNCHANGED <<now, hits, passed>>
  BY <1>5 DEF S!Next, S!BootStep, S!Crash, S!SessionCreate, S!SessionAnswer, S!Sign, S!Receive, S!Handle, serverVars
<1>. QED  BY <1>1, <1>2, <1>3, <1>4, <1>5

LEMMA LimitIsKept ==
  ASSUME LimitInv
  PROVE  S!LimitHolds /\ \A k \in DOMAIN hits : Len(hits[k]) \in 1..Limit
<1>1. \A set : S!Cardinality(set) = Cardinality(set)
  BY DEF S!Cardinality, Cardinality
<1>2. ASSUME NEW t \in 0..now, NEW p \in passed
      PROVE  S!Cardinality({q \in passed : q.key = p.key /\ q.at \in (t - Window + 1)..t}) <= Limit
  <2>1. {q \in passed : q.key = p.key /\ q.at \in (t - Window + 1)..t} = InWindow(p.key, t, passed)
    BY DEF InWindow
  <2>2. Cardinality(InWindow(p.key, t, passed)) <= Limit
    BY DEF LimitInv
  <2>. QED  BY <1>1, <2>1, <2>2
<1>. QED  BY <1>2 DEF S!LimitHolds, LimitInv, Remembered

-----------------------------------------------------------------------------
(***************************************************************************)
(* The publisher.  A socket has heard of the events it wants that are past *)
(* the DIDService, and of none twice.                                      *)
(***************************************************************************)
Mute   == {"did", "lost"}
Stages == {"did", "kafka", "redis", "done", "lost"}
Event  == [name : {e.name : e \in Names}, actor : {e.actor : e \in Names}, boot : Nat]
Socket == [since : Nat, filter : {e.actor : e \in Names} \cup {None}, got : Seq(Nat)]
Credential == [actor : {e.actor : e \in Names}, key : Nat, of : Nat]

Ident(e, services) == services.did /\ e.name \in {"identity.actor.registered", "identity.actor.verified"}
Distinct(list)     == \A a, b \in 1..Len(list) : list[a] = list[b] => a = b

Heard(c, events, stages, services) ==
  /\ c.since <= Len(events) /\ Distinct(c.got)
  /\ \A a \in 1..Len(c.got) :
       /\ c.got[a] \in 1..Len(events) /\ stages[c.got[a]] \notin Mute /\ F!Wants(c, events[c.got[a]])
       /\ c.got[a] <= c.since => Ident(events[c.got[a]], services)
  /\ \A n \in 1..Len(events) :
       n > c.since /\ F!Wants(c, events[n]) /\ stages[n] \notin Mute => \E a \in 1..Len(c.got) : c.got[a] = n
  /\ \A a, b \in 1..Len(c.got) : a < b /\ c.got[a] > c.got[b] => Ident(events[c.got[b]], services)

Sent(list, stages, before) ==
  Distinct(list) /\ \A a \in 1..Len(list) : list[a] \in 1..Len(stages) /\ stages[list[a]] \notin before

Issued(list, events, stages, keys) ==
  /\ \A a, b \in 1..Len(list) : list[a].of = list[b].of => a = b
  /\ \A a \in 1..Len(list) : /\ list[a].of \in 1..Len(events) /\ stages[list[a].of] # "did"
                             /\ list[a].key = IF keys THEN 0 ELSE events[list[a].of].boot

FanTypes ==
  /\ config \in Configs /\ boot \in Nat \ {0}
  /\ log \in Seq(Event) /\ jobs \in Seq(Stages) /\ Len(jobs) = Len(log)
  /\ sockets \in [Sockets -> Socket \cup {None}]
  /\ kafka \in Seq(Nat) /\ redis \in Seq(Nat) /\ credentials \in Seq(Credential)

JobsDue ==
  \A n \in 1..Len(jobs) : /\ jobs[n] = "did" => Ident(log[n], config)
                          /\ jobs[n] \notin {"done", "lost"} => log[n].boot = boot

FanInv ==
  /\ FanTypes /\ JobsDue
  /\ \A s \in Sockets : sockets[s] # None => Heard(sockets[s], log, jobs, config)
  /\ Sent(kafka, jobs, {"did", "kafka"}) /\ Sent(redis, jobs, {"did", "kafka", "redis"})
  /\ Issued(credentials, log, jobs, config.keys)

LEMMA FanStart == F!Init => FanInv
<1>. SUFFICES ASSUME F!Init PROVE FanInv
  OBVIOUS
<1>1. /\ config \in Configs /\ boot = 1 /\ log = <<>> /\ jobs = <<>> /\ kafka = <<>> /\ redis = <<>> /\ credentials = <<>>
      /\ sockets = [s \in Sockets |-> None]
  BY DEF F!Init
<1>2. FanTypes
  BY <1>1 DEF FanTypes
<1>3. JobsDue
  BY <1>1 DEF JobsDue
<1>4. Sent(kafka, jobs, {"did", "kafka"}) /\ Sent(redis, jobs, {"did", "kafka", "redis"})
  BY <1>1 DEF Sent, Distinct
<1>5. Issued(credentials, log, jobs, config.keys)
  BY <1>1 DEF Issued
<1>. QED  BY <1>1, <1>2, <1>3, <1>4, <1>5 DEF FanInv

\* Events that come or go on without the socket being told.
LEMMA HearsNothing ==
  ASSUME NEW c \in Socket, NEW events \in Seq(Event), NEW stages, NEW services, Heard(c, events, stages, services),
         NEW after \in Seq(Event), NEW stages2, Len(events) <= Len(after),
         \A k \in 1..Len(events) : after[k] = events[k],
         \A k \in 1..Len(events) : F!Wants(c, after[k]) => (stages2[k] \in Mute <=> stages[k] \in Mute),
         \A k \in 1..Len(after) : k > Len(events) /\ F!Wants(c, after[k]) => stages2[k] \in Mute
  PROVE  Heard(c, after, stages2, services)
<1>0. Len(events) \in Nat /\ Len(after) \in Nat /\ c.since \in Nat /\ c.got \in Seq(Nat) /\ Len(c.got) \in Nat
  BY DEF Socket
<1>1. c.since <= Len(after) /\ Distinct(c.got)
  BY <1>0 DEF Heard
<1>2. ASSUME NEW a \in 1..Len(c.got)
      PROVE  /\ c.got[a] \in 1..Len(after) /\ stages2[c.got[a]] \notin Mute /\ F!Wants(c, after[c.got[a]])
             /\ c.got[a] <= c.since => Ident(after[c.got[a]], services)
             /\ after[c.got[a]] = events[c.got[a]]
  <2>1. /\ c.got[a] \in 1..Len(events) /\ stages[c.got[a]] \notin Mute /\ F!Wants(c, events[c.got[a]])
        /\ c.got[a] <= c.since => Ident(events[c.got[a]], services)
    BY DEF Heard
  <2>2. after[c.got[a]] = events[c.got[a]] /\ c.got[a] \in 1..Len(after)
    BY <1>0, <2>1
  <2>. QED  BY <2>1, <2>2
<1>3. ASSUME NEW n \in 1..Len(after), n > c.since, F!Wants(c, after[n]), stages2[n] \notin Mute
      PROVE  \E a \in 1..Len(c.got) : c.got[a] = n
  <2>1. n \in 1..Len(events)
    BY <1>0, <1>3
  <2>2. after[n] = events[n] /\ stages[n] \notin Mute
    BY <1>3, <2>1
  <2>. QED  BY <1>3, <2>1, <2>2 DEF Heard
<1>4. ASSUME NEW a \in 1..Len(c.got), NEW b \in 1..Len(c.got), a < b, c.got[a] > c.got[b]
      PROVE  Ident(after[c.got[b]], services)
  <2>1. after[c.got[b]] = events[c.got[b]]
    BY <1>2
  <2>2. Ident(events[c.got[b]], services)
    BY <1>4 DEF Heard
  <2>. QED  BY <2>1, <2>2
<1>. QED  BY <1>1, <1>2, <1>3, <1>4 DEF Heard

LEMMA ToldFields ==
  ASSUME NEW c \in Socket, NEW n \in Nat, NEW t, t = [since |-> c.since, filter |-> c.filter, got |-> Append(c.got, n)]
  PROVE  /\ t = [since |-> c.since, filter |-> c.filter, got |-> Append(c.got, n)] /\ t \in Socket
         /\ t.since = c.since /\ t.filter = c.filter /\ t.got = Append(c.got, n)
         /\ c.got \in Seq(Nat) /\ Len(c.got) \in Nat /\ Len(t.got) = Len(c.got) + 1 /\ t.got[Len(c.got) + 1] = n
         /\ \A a \in 1..Len(c.got) : t.got[a] = c.got[a]
<1>2. t = [since |-> c.since, filter |-> c.filter, got |-> Append(c.got, n)]
  OBVIOUS
<1>3. c.got \in Seq(Nat) /\ Len(c.got) \in Nat /\ c.since \in Nat /\ c.filter \in {e.actor : e \in Names} \cup {None}
  BY DEF Socket
<1>4. t.since = c.since /\ t.filter = c.filter /\ t.got = Append(c.got, n)
  BY <1>2
<1>5. Append(c.got, n) \in Seq(Nat)
  BY <1>3
<1>6. t \in Socket
  BY <1>2, <1>3, <1>5 DEF Socket
<1>7. /\ Len(t.got) = Len(c.got) + 1 /\ t.got[Len(c.got) + 1] = n
      /\ \A a \in 1..Len(c.got) : t.got[a] = c.got[a]
  BY <1>3, <1>4
<1>. QED  BY <1>2, <1>3, <1>4, <1>6, <1>7

\* The socket is told of event n: a new one, or one the DIDService held up.
LEMMA HearsOf ==
  ASSUME NEW c \in Socket, NEW events \in Seq(Event), NEW stages, NEW services, Heard(c, events, stages, services),
         NEW after \in Seq(Event), NEW stages2, Len(events) <= Len(after),
         \A k \in 1..Len(events) : after[k] = events[k],
         NEW n \in 1..Len(after), F!Wants(c, after[n]), stages2[n] \notin Mute,
         n > Len(events) \/ (stages[n] = "did" /\ Ident(after[n], services)),
         \A k \in 1..Len(events) : k # n => (stages2[k] \in Mute <=> stages[k] \in Mute),
         \A k \in 1..Len(after) : k > Len(events) => k = n,
         NEW t, t = [since |-> c.since, filter |-> c.filter, got |-> Append(c.got, n)]
  PROVE  Heard(t, after, stages2, services)
<1>0. Len(events) \in Nat /\ Len(after) \in Nat /\ c.since \in Nat /\ n \in Nat
  BY DEF Socket
<1>. DEFINE last == Len(c.got) + 1
<1>1. /\ t \in Socket /\ t.since = c.since /\ t.filter = c.filter /\ Len(c.got) \in Nat
      /\ Len(t.got) = last /\ t.got[last] = n /\ \A a \in 1..Len(c.got) : t.got[a] = c.got[a]
  BY <1>0, ToldFields
<1>. HIDE DEF last
<1>2. last \in Nat /\ \A a \in 1..last : a = last \/ a \in 1..Len(c.got)
  BY <1>1 DEF last
<1>3. ASSUME NEW e PROVE F!Wants(t, e) <=> F!Wants(c, e)
  BY <1>1 DEF F!Wants
<1>4. ASSUME NEW a \in 1..Len(c.got)
      PROVE  /\ t.got[a] = c.got[a] /\ c.got[a] \in 1..Len(events) /\ c.got[a] \in 1..Len(after) /\ c.got[a] # n
             /\ after[c.got[a]] = events[c.got[a]] /\ stages[c.got[a]] \notin Mute /\ stages2[c.got[a]] \notin Mute
             /\ F!Wants(t, after[c.got[a]])
             /\ c.got[a] <= c.since => Ident(after[c.got[a]], services)
  <2>1. /\ c.got[a] \in 1..Len(events) /\ stages[c.got[a]] \notin Mute /\ F!Wants(c, events[c.got[a]])
        /\ c.got[a] <= c.since => Ident(events[c.got[a]], services)
    BY DEF Heard
  <2>2. after[c.got[a]] = events[c.got[a]] /\ c.got[a] \in 1..Len(after)
    BY <1>0, <2>1
  <2>3. c.got[a] # n
    BY <1>0, <2>1 DEF Mute
  <2>4. stages2[c.got[a]] \notin Mute
    BY <2>1, <2>3
  <2>. QED  BY <1>1, <1>3, <2>1, <2>2, <2>3, <2>4
<1>5. Distinct(t.got)
  <2>1. ASSUME NEW a \in 1..last, NEW b \in 1..last, t.got[a] = t.got[b] PROVE a = b
    <3>1. CASE a \in 1..Len(c.got) /\ b \in 1..Len(c.got)
      BY <1>4, <2>1, <3>1 DEF Heard, Distinct
    <3>2. CASE a = last \/ b = last
      BY <1>1, <1>2, <1>4, <2>1, <3>2
    <3>. QED  BY <1>2, <3>1, <3>2
  <2>. QED  BY <1>1, <2>1 DEF Distinct
<1>6. t.since <= Len(after)
  BY <1>0, <1>1 DEF Heard
<1>7. ASSUME NEW a \in 1..last
      PROVE  /\ t.got[a] \in 1..Len(after) /\ stages2[t.got[a]] \notin Mute /\ F!Wants(t, after[t.got[a]])
             /\ t.got[a] <= t.since => Ident(after[t.got[a]], services)
  <2>1. CASE a \in 1..Len(c.got)
    BY <1>1, <1>4, <2>1
  <2>2. CASE a = last
    <3>1. n <= c.since => Ident(after[n], services)
      BY <1>0 DEF Heard
    <3>. QED  BY <1>1, <1>3, <2>2, <3>1
  <2>. QED  BY <1>2, <2>1, <2>2
<1>8. ASSUME NEW k \in 1..Len(after), k > t.since, F!Wants(t, after[k]), stages2[k] \notin Mute
      PROVE  \E a \in 1..last : t.got[a] = k
  <2>1. CASE k = n
    <3>1. last \in 1..last
      BY <1>1 DEF last
    <3>. QED  BY <1>1, <2>1, <3>1
  <2>2. CASE k # n
    <3>1. k \in 1..Len(events)
      BY <1>0, <2>2
    <3>2. stages[k] \notin Mute /\ F!Wants(c, events[k]) /\ k > c.since
      BY <1>1, <1>3, <1>8, <2>2, <3>1
    <3>3. PICK a \in 1..Len(c.got) : c.got[a] = k
      BY <3>1, <3>2 DEF Heard
    <3>4. a \in 1..last /\ t.got[a] = k
      BY <1>1, <3>3 DEF last
    <3>. QED  BY <3>4
  <2>. QED  BY <2>1, <2>2
<1>9. ASSUME NEW a \in 1..last, NEW b \in 1..last, a < b, t.got[a] > t.got[b]
      PROVE  Ident(after[t.got[b]], services)
  <2>1. a \in 1..Len(c.got)
    BY <1>1, <1>9 DEF last
  <2>2. CASE b \in 1..Len(c.got)
    <3>1. Ident(events[c.got[b]], services)
      BY <1>4, <1>9, <2>1, <2>2 DEF Heard
    <3>. QED  BY <1>4, <2>2, <3>1
  <2>3. CASE b = last
    <3>1. c.got[a] \in 1..Len(events) /\ c.got[a] > n
      BY <1>1, <1>4, <1>9, <2>1, <2>3
    <3>2. Ident(after[n], services)
      BY <1>0, <3>1
    <3>. QED  BY <1>1, <2>3, <3>2
  <2>. QED  BY <1>2, <2>2, <2>3
<1>. QED  BY <1>1, <1>5, <1>6, <1>7, <1>8, <1>9 DEF Heard

LEMMA SentStays ==
  ASSUME NEW list, NEW stages, NEW stages2, NEW before, Sent(list, stages, before),
         Len(stages) \in Nat, Len(stages2) \in Nat, Len(stages) <= Len(stages2),
         \A k \in 1..Len(stages) : stages[k] \notin before => stages2[k] \notin before
  PROVE  Sent(list, stages2, before)
<1>1. ASSUME NEW a \in 1..Len(list) PROVE list[a] \in 1..Len(stages2) /\ stages2[list[a]] \notin before
  <2>1. list[a] \in 1..Len(stages) /\ stages[list[a]] \notin before
    BY DEF Sent
  <2>. QED  BY <2>1
<1>. QED  BY <1>1 DEF Sent

LEMMA SentOneMore ==
  ASSUME NEW list \in Seq(Nat), NEW stages, NEW stages2, NEW before, Sent(list, stages, before),
         Len(stages) \in Nat, Len(stages2) = Len(stages),
         NEW n \in 1..Len(stages), stages[n] \in before, stages2[n] \notin before,
         \A k \in 1..Len(stages) : stages[k] \notin before => stages2[k] \notin before
  PROVE  Sent(Append(list, n), stages2, before) /\ Append(list, n) \in Seq(Nat)
<1>. DEFINE more == Append(list, n)
            last == Len(list) + 1
<1>1. /\ Len(more) = last /\ more[last] = n /\ Len(list) \in Nat /\ \A a \in 1..Len(list) : more[a] = list[a]
      /\ more \in Seq(Nat)
  OBVIOUS
<1>. HIDE DEF more
<1>2. ASSUME NEW a \in 1..Len(list)
      PROVE  list[a] \in 1..Len(stages) /\ stages2[list[a]] \notin before /\ list[a] # n /\ more[a] = list[a]
  BY <1>1 DEF Sent
<1>3. \A a \in 1..last : a = last \/ a \in 1..Len(list)
  BY <1>1
<1>. HIDE DEF last
<1>4. ASSUME NEW a \in 1..last PROVE more[a] \in 1..Len(stages2) /\ stages2[more[a]] \notin before
  BY <1>1, <1>2, <1>3
<1>5. ASSUME NEW a \in 1..last, NEW b \in 1..last, more[a] = more[b] PROVE a = b
  <2>1. CASE a \in 1..Len(list) /\ b \in 1..Len(list)
    BY <1>2, <1>5, <2>1 DEF Sent, Distinct
  <2>2. CASE a = last \/ b = last
    BY <1>1, <1>2, <1>3, <1>5, <2>2
  <2>. QED  BY <1>3, <2>1, <2>2
<1>6. Sent(more, stages2, before)
  BY <1>1, <1>4, <1>5 DEF Sent, Distinct
<1>. QED  BY <1>1, <1>6 DEF more

LEMMA IssuedStays ==
  ASSUME NEW list, NEW events, NEW after, NEW stages, NEW stages2, NEW keys, Issued(list, events, stages, keys),
         Len(events) \in Nat, Len(after) \in Nat, Len(events) <= Len(after),
         \A k \in 1..Len(events) : after[k] = events[k] /\ (stages[k] # "did" => stages2[k] # "did")
  PROVE  Issued(list, after, stages2, keys)
<1>1. ASSUME NEW a \in 1..Len(list)
      PROVE  /\ list[a].of \in 1..Len(after) /\ stages2[list[a].of] # "did"
             /\ list[a].key = IF keys THEN 0 ELSE after[list[a].of].boot
  <2>1. /\ list[a].of \in 1..Len(events) /\ stages[list[a].of] # "did"
        /\ list[a].key = IF keys THEN 0 ELSE events[list[a].of].boot
    BY DEF Issued
  <2>2. list[a].of \in 1..Len(after) /\ after[list[a].of] = events[list[a].of]
    BY <2>1
  <2>. QED  BY <2>1, <2>2
<1>2. \A a, b \in 1..Len(list) : list[a].of = list[b].of => a = b
  BY DEF Issued
<1>. QED  BY <1>1, <1>2 DEF Issued

LEMMA IssuedOneMore ==
  ASSUME NEW list \in Seq(Credential), NEW events, NEW stages, NEW stages2, NEW keys, Issued(list, events, stages, keys),
         Len(events) \in Nat, NEW n \in 1..Len(events), stages[n] = "did", stages2[n] # "did",
         \A k \in 1..Len(events) : stages[k] # "did" => stages2[k] # "did",
         NEW c \in Credential, c.of = n, c.key = IF keys THEN 0 ELSE events[n].boot
  PROVE  Issued(Append(list, c), events, stages2, keys) /\ Append(list, c) \in Seq(Credential)
<1>. DEFINE more == Append(list, c)
            last == Len(list) + 1
<1>1. /\ Len(more) = last /\ more[last] = c /\ Len(list) \in Nat /\ \A a \in 1..Len(list) : more[a] = list[a]
      /\ more \in Seq(Credential)
  OBVIOUS
<1>. HIDE DEF more
<1>2. ASSUME NEW a \in 1..Len(list)
      PROVE  /\ list[a].of \in 1..Len(events) /\ stages2[list[a].of] # "did" /\ list[a].of # n /\ more[a] = list[a]
             /\ list[a].key = IF keys THEN 0 ELSE events[list[a].of].boot
  BY <1>1 DEF Issued
<1>3. \A a \in 1..last : a = last \/ a \in 1..Len(list)
  BY <1>1
<1>. HIDE DEF last
<1>4. ASSUME NEW a \in 1..last
      PROVE  /\ more[a].of \in 1..Len(events) /\ stages2[more[a].of] # "did"
             /\ more[a].key = IF keys THEN 0 ELSE events[more[a].of].boot
  <2>1. CASE a \in 1..Len(list)
    BY <1>2, <2>1
  <2>2. CASE a = last
    BY <1>1, <2>2
  <2>. QED  BY <1>3, <2>1, <2>2
<1>5. ASSUME NEW a \in 1..last, NEW b \in 1..last, more[a].of = more[b].of PROVE a = b
  <2>1. CASE a \in 1..Len(list) /\ b \in 1..Len(list)
    BY <1>2, <1>5, <2>1 DEF Issued
  <2>2. CASE a = last \/ b = last
    BY <1>1, <1>2, <1>3, <1>5, <2>2
  <2>. QED  BY <1>3, <2>1, <2>2
<1>6. Issued(more, events, stages2, keys)
  BY <1>1, <1>4, <1>5 DEF Issued
<1>. QED  BY <1>1, <1>6 DEF more

LEMMA FanConnects ==
  ASSUME FanInv, NEW s \in Sockets,
         F!Close(s) \/ \E f \in {e.actor : e \in Names} \cup {None} : F!Connect(s, f)
  PROVE  FanInv'
<1>1. UNCHANGED <<config, boot, log, jobs, kafka, redis, credentials>>
  BY DEF F!Close, F!Connect
<1>2. PICK t : /\ sockets' = [sockets EXCEPT ![s] = t] /\ t \in Socket \cup {None}
               /\ t # None => Heard(t, log, jobs, config)
  <2>1. CASE F!Close(s)
    BY <2>1 DEF F!Close
  <2>2. CASE \E f \in {e.actor : e \in Names} \cup {None} : F!Connect(s, f)
    <3>1. PICK f \in {e.actor : e \in Names} \cup {None} : F!Connect(s, f)
      BY <2>2
    <3>2. PICK t : t = [since |-> Len(log), filter |-> f, got |-> <<>>]
      OBVIOUS
    <3>3. sockets' = [sockets EXCEPT ![s] = t]
      BY <3>1, <3>2 DEF F!Connect
    <3>4. Len(log) \in Nat
      BY DEF FanInv, FanTypes
    <3>5. t \in Socket
      BY <3>2, <3>4 DEF Socket
    <3>6. t.since = Len(log) /\ t.got = <<>> /\ Len(t.got) = 0
      BY <3>2
    <3>7. Heard(t, log, jobs, config)
      BY <3>4, <3>6 DEF Heard, Distinct
    <3>. QED  BY <3>3, <3>5, <3>7
  <2>. QED  BY <2>1, <2>2
<1>3. sockets' \in [Sockets -> Socket \cup {None}]
  BY <1>2 DEF FanInv, FanTypes
<1>4. FanTypes'
  BY <1>1, <1>3 DEF FanInv, FanTypes
<1>5. ASSUME NEW q \in Sockets, sockets'[q] # None PROVE Heard(sockets'[q], log, jobs, config)
  <2>1. CASE q = s
    BY <1>2, <1>5, <2>1 DEF FanInv, FanTypes
  <2>2. CASE q # s
    BY <1>2, <1>5, <2>2 DEF FanInv, FanTypes
  <2>. QED  BY <2>1, <2>2
<1>. QED  BY <1>1, <1>4, <1>5 DEF FanInv, JobsDue

\* Every socket that wants event n is told.
LEMMA AllHear ==
  ASSUME FanInv, NEW n \in 1..Len(log'), sockets' = F!Told(n), log' \in Seq(Event), Len(log) <= Len(log'),
         \A k \in 1..Len(log) : log'[k] = log[k],
         jobs'[n] \notin Mute, n > Len(log) \/ (jobs[n] = "did" /\ Ident(log'[n], config)),
         \A k \in 1..Len(log) : k # n => (jobs'[k] \in Mute <=> jobs[k] \in Mute),
         \A k \in 1..Len(log') : k > Len(log) => k = n
  PROVE  /\ sockets' \in [Sockets -> Socket \cup {None}]
         /\ \A s \in Sockets : sockets'[s] # None => Heard(sockets'[s], log', jobs', config)
<1>0. log \in Seq(Event) /\ Len(log) \in Nat /\ Len(log') \in Nat /\ n \in Nat /\ sockets \in [Sockets -> Socket \cup {None}]
  BY DEF FanInv, FanTypes
<1>1. ASSUME NEW s \in Sockets
      PROVE  /\ sockets'[s] \in Socket \cup {None}
             /\ sockets'[s] # None => Heard(sockets'[s], log', jobs', config)
  <2>1. sockets'[s] = IF sockets[s] # None /\ F!Wants(sockets[s], log'[n]) THEN [sockets[s] EXCEPT !.got = Append(@, n)]
                      ELSE sockets[s]
    BY DEF F!Told
  <2>2. CASE sockets[s] = None
    BY <2>1, <2>2
  <2>3. CASE sockets[s] # None
    <3>1. PICK c : c = sockets[s] /\ c \in Socket /\ Heard(c, log, jobs, config)
      BY <1>0, <2>3 DEF FanInv
    <3>2. PICK events, after, stages, stages2 : events = log /\ after = log' /\ stages = jobs /\ stages2 = jobs'
      OBVIOUS
    <3>3. CASE F!Wants(c, log'[n])
      <4>1. PICK t : t = sockets'[s] /\ t = [since |-> c.since, filter |-> c.filter, got |-> Append(c.got, n)]
        <5>1. c = [since |-> c.since, filter |-> c.filter, got |-> c.got]
          BY <3>1 DEF Socket
        <5>2. sockets'[s] = [c EXCEPT !.got = Append(@, n)]
          BY <2>1, <2>3, <3>1, <3>3
        <5>3. sockets'[s] = [since |-> c.since, filter |-> c.filter, got |-> Append(c.got, n)]
          BY <5>1, <5>2
        <5>. QED  BY <5>3
      <4>2. Heard(t, after, stages2, config)
        BY <1>0, <3>1, <3>2, <3>3, <4>1, HearsOf
      <4>3. t \in Socket
        BY <1>0, <3>1, <4>1, ToldFields
      <4>. QED  BY <3>2, <4>1, <4>2, <4>3
    <3>4. CASE ~ F!Wants(c, log'[n])
      <4>1. sockets'[s] = c
        BY <2>1, <3>1, <3>4
      <4>2. \A k \in 1..Len(events) : F!Wants(c, after[k]) => (stages2[k] \in Mute <=> stages[k] \in Mute)
        BY <3>2, <3>4
      <4>3. \A k \in 1..Len(after) : k > Len(events) /\ F!Wants(c, after[k]) => stages2[k] \in Mute
        BY <3>2, <3>4
      <4>4. Heard(c, after, stages2, config)
        BY <1>0, <3>1, <3>2, <4>2, <4>3, HearsNothing
      <4>. QED  BY <3>1, <3>2, <4>1, <4>4
    <3>. QED  BY <3>3, <3>4
  <2>. QED  BY <2>2, <2>3
<1>2. sockets' = [s \in Sockets |-> sockets'[s]]
  BY DEF F!Told
<1>. QED  BY <1>1, <1>2

LEMMA FanPublishes ==
  ASSUME FanInv, NEW name \in Names, F!Publish(name)
  PROVE  FanInv'
<1>1. PICK e : /\ e = [name |-> name.name, actor |-> name.actor, boot |-> boot] /\ log' = Append(log, e)
               /\ jobs' = Append(jobs, IF F!Identity(e) THEN "did" ELSE "kafka")
               /\ sockets' = IF F!Identity(e) THEN sockets ELSE F!Told(Len(log'))
               /\ UNCHANGED <<config, boot, kafka, redis, credentials>>
  BY DEF F!Publish
<1>2. PICK job : job = (IF F!Identity(e) THEN "did" ELSE "kafka") /\ jobs' = Append(jobs, job) /\ job \in Stages
  BY <1>1 DEF Stages
<1>3. /\ log \in Seq(Event) /\ Len(log) \in Nat /\ jobs \in Seq(Stages) /\ Len(jobs) = Len(log) /\ boot \in Nat
      /\ sockets \in [Sockets -> Socket \cup {None}]
  BY DEF FanInv, FanTypes
<1>4. e \in Event /\ (F!Identity(e) <=> Ident(e, config)) /\ e.boot = boot
  BY <1>1, <1>3 DEF Event, F!Identity, Ident
<1>5. /\ log' \in Seq(Event) /\ Len(log') = Len(log) + 1 /\ log'[Len(log) + 1] = e
      /\ \A k \in 1..Len(log) : log'[k] = log[k]
  BY <1>1, <1>3, <1>4
<1>6. /\ jobs' \in Seq(Stages) /\ Len(jobs') = Len(jobs) + 1 /\ jobs'[Len(log) + 1] = job
      /\ \A k \in 1..Len(log) : jobs'[k] = jobs[k]
  BY <1>2, <1>3
<1>7. PICK n : n = Len(log) + 1
  OBVIOUS
<1>8. n \in Nat /\ n \in 1..Len(log') /\ \A k \in 1..Len(log') : k = n \/ k \in 1..Len(log)
  BY <1>3, <1>5, <1>7
<1>9. /\ sockets' \in [Sockets -> Socket \cup {None}]
      /\ \A s \in Sockets : sockets'[s] # None => Heard(sockets'[s], log', jobs', config)
  <2>1. CASE F!Identity(e)
    <3>1. sockets' = sockets /\ job = "did"
      BY <1>1, <1>2, <2>1
    <3>2. ASSUME NEW s \in Sockets, sockets[s] # None PROVE Heard(sockets[s], log', jobs', config)
      <4>1. PICK c : c = sockets[s] /\ c \in Socket /\ Heard(c, log, jobs, config)
        BY <1>3, <3>2 DEF FanInv
      <4>2. PICK events, after, stages, stages2 : events = log /\ after = log' /\ stages = jobs /\ stages2 = jobs'
        OBVIOUS
      <4>3. \A k \in 1..Len(after) : k > Len(events) /\ F!Wants(c, after[k]) => stages2[k] \in Mute
        BY <1>3, <1>6, <1>7, <1>8, <3>1, <4>2 DEF Mute
      <4>4. \A k \in 1..Len(events) : stages2[k] = stages[k] /\ after[k] = events[k]
        BY <1>5, <1>6, <4>2
      <4>5. events \in Seq(Event) /\ after \in Seq(Event) /\ Len(events) <= Len(after) /\ Heard(c, events, stages, config)
        BY <1>3, <1>5, <4>1, <4>2
      <4>6. Heard(c, after, stages2, config)
        BY <4>1, <4>3, <4>4, <4>5, HearsNothing
      <4>. QED  BY <4>1, <4>2, <4>6
    <3>. QED  BY <1>3, <3>1, <3>2
  <2>2. CASE ~ F!Identity(e)
    <3>1. sockets' = F!Told(n) /\ jobs'[n] \notin Mute
      BY <1>1, <1>2, <1>5, <1>6, <1>7, <2>2 DEF Mute
    <3>2. \A k \in 1..Len(log) : k # n => (jobs'[k] \in Mute <=> jobs[k] \in Mute)
      BY <1>6
    <3>3. n > Len(log) /\ Len(log) <= Len(log') /\ \A k \in 1..Len(log') : k > Len(log) => k = n
      BY <1>3, <1>5, <1>7, <1>8
    <3>. QED  BY <1>5, <1>8, <3>1, <3>2, <3>3, AllHear
  <2>. QED  BY <2>1, <2>2
<1>10. FanTypes'
  BY <1>1, <1>3, <1>5, <1>6, <1>9 DEF FanInv, FanTypes
<1>11. JobsDue'
  <2>1. ASSUME NEW k \in 1..Len(jobs')
        PROVE  (jobs'[k] = "did" => Ident(log'[k], config)) /\ (jobs'[k] \notin {"done", "lost"} => log'[k].boot = boot)
    <3>1. CASE k \in 1..Len(log)
      BY <1>3, <1>5, <1>6, <3>1 DEF FanInv, JobsDue
    <3>2. CASE k = n
      BY <1>2, <1>4, <1>5, <1>6, <1>7, <3>2
    <3>. QED  BY <1>3, <1>5, <1>6, <1>8, <3>1, <3>2
  <2>. QED  BY <1>1, <2>1 DEF JobsDue
<1>12. Sent(kafka, jobs', {"did", "kafka"}) /\ Sent(redis, jobs', {"did", "kafka", "redis"})
  <2>1. Len(jobs) \in Nat /\ Len(jobs') \in Nat /\ Len(jobs) <= Len(jobs') /\ \A k \in 1..Len(jobs) : jobs'[k] = jobs[k]
    BY <1>3, <1>6
  <2>2. Sent(kafka, jobs, {"did", "kafka"}) /\ Sent(redis, jobs, {"did", "kafka", "redis"})
    BY DEF FanInv
  <2>3. PICK stages, stages2 : stages = jobs /\ stages2 = jobs'
    OBVIOUS
  <2>4. Sent(kafka, stages2, {"did", "kafka"}) /\ Sent(redis, stages2, {"did", "kafka", "redis"})
    BY <2>1, <2>2, <2>3, SentStays
  <2>. QED  BY <2>3, <2>4
<1>13. Issued(credentials, log', jobs', config.keys)
  <2>1. PICK events, after, stages, stages2 : events = log /\ after = log' /\ stages = jobs /\ stages2 = jobs'
    OBVIOUS
  <2>2. /\ Len(events) \in Nat /\ Len(after) \in Nat /\ Len(events) <= Len(after)
        /\ \A k \in 1..Len(events) : after[k] = events[k] /\ (stages[k] # "did" => stages2[k] # "did")
    BY <1>3, <1>5, <1>6, <2>1
  <2>3. Issued(credentials, events, stages, config.keys)
    BY <2>1 DEF FanInv
  <2>4. Issued(credentials, after, stages2, config.keys)
    BY <2>2, <2>3, IssuedStays
  <2>. QED  BY <2>1, <2>4
<1>. QED  BY <1>1, <1>9, <1>10, <1>11, <1>12, <1>13 DEF FanInv

\* Event n has come a stage further.
LEMMA JobMoves ==
  ASSUME FanInv, NEW n \in 1..Len(log), NEW from \in {"did", "kafka", "redis"}, NEW to \in {"kafka", "redis", "done"},
         jobs[n] = from, jobs' = [jobs EXCEPT ![n] = to], log' = log, config' = config, boot' = boot
  PROVE  /\ jobs' \in Seq(Stages) /\ Len(jobs') = Len(jobs) /\ Len(jobs) = Len(log) /\ Len(log) \in Nat
         /\ jobs'[n] = to /\ \A k \in 1..Len(jobs) : k # n => jobs'[k] = jobs[k]
         /\ JobsDue'
<1>1. jobs \in Seq(Stages) /\ Len(jobs) = Len(log) /\ Len(log) \in Nat
  BY DEF FanInv, FanTypes
<1>2. /\ jobs' \in Seq(Stages) /\ Len(jobs') = Len(jobs)
      /\ jobs'[n] = to /\ \A k \in 1..Len(jobs) : k # n => jobs'[k] = jobs[k]
  BY <1>1 DEF Stages
<1>3. JobsDue'
  <2>1. ASSUME NEW k \in 1..Len(jobs)
        PROVE  (jobs'[k] = "did" => Ident(log[k], config)) /\ (jobs'[k] \notin {"done", "lost"} => log[k].boot = boot)
    <3>1. CASE k = n
      BY <1>1, <1>2, <3>1 DEF FanInv, JobsDue
    <3>2. CASE k # n
      BY <1>2, <3>2 DEF FanInv, JobsDue
    <3>. QED  BY <3>1, <3>2
  <2>. QED  BY <1>2, <2>1 DEF JobsDue
<1>. QED  BY <1>1, <1>2, <1>3

LEMMA FanProcesses ==
  ASSUME FanInv, NEW n \in DOMAIN log, NEW ok \in BOOLEAN, F!ProcessEvent(n, ok)
  PROVE  FanInv'
<1>1. /\ jobs[n] = "did" /\ jobs' = [jobs EXCEPT ![n] = "kafka"] /\ log' = log /\ sockets' = F!Told(n)
      /\ UNCHANGED <<config, boot, kafka, redis>>
      /\ credentials' = IF ok /\ log[n].name = "identity.actor.verified" THEN F!IssueVerifiableCredential(n) ELSE credentials
  BY DEF F!ProcessEvent
<1>2. n \in 1..Len(log) /\ log \in Seq(Event) /\ Len(log) \in Nat
  BY DEF FanInv, FanTypes
<1>3. /\ jobs' \in Seq(Stages) /\ Len(jobs') = Len(jobs) /\ Len(jobs) = Len(log)
      /\ jobs'[n] = "kafka" /\ \A k \in 1..Len(jobs) : k # n => jobs'[k] = jobs[k]
      /\ JobsDue'
  BY <1>1, <1>2, JobMoves
<1>4. Ident(log[n], config) /\ log[n].boot = boot
  BY <1>1, <1>2, <1>3 DEF FanInv, JobsDue
<1>5. /\ sockets' \in [Sockets -> Socket \cup {None}]
      /\ \A s \in Sockets : sockets'[s] # None => Heard(sockets'[s], log', jobs', config)
  <2>1. jobs'[n] \notin Mute /\ \A k \in 1..Len(log) : k # n => (jobs'[k] \in Mute <=> jobs[k] \in Mute)
    BY <1>3 DEF Mute
  <2>2. n \in 1..Len(log') /\ log' \in Seq(Event) /\ Len(log) <= Len(log') /\ \A k \in 1..Len(log) : log'[k] = log[k]
    BY <1>1, <1>2
  <2>3. (n > Len(log) \/ (jobs[n] = "did" /\ Ident(log'[n], config))) /\ \A k \in 1..Len(log') : k > Len(log) => k = n
    BY <1>1, <1>2, <1>4
  <2>. QED  BY <1>1, <2>1, <2>2, <2>3, AllHear
<1>6. Sent(kafka, jobs', {"did", "kafka"}) /\ Sent(redis, jobs', {"did", "kafka", "redis"})
  <2>1. PICK stages, stages2 : stages = jobs /\ stages2 = jobs'
    OBVIOUS
  <2>2. /\ Len(stages) \in Nat /\ Len(stages2) \in Nat /\ Len(stages) <= Len(stages2)
        /\ \A k \in 1..Len(stages) : stages[k] \notin {"did", "kafka"} => stages2[k] \notin {"did", "kafka"}
        /\ \A k \in 1..Len(stages) : stages[k] \notin {"did", "kafka", "redis"} => stages2[k] \notin {"did", "kafka", "redis"}
    BY <1>1, <1>2, <1>3, <2>1
  <2>3. Sent(kafka, stages, {"did", "kafka"}) /\ Sent(redis, stages, {"did", "kafka", "redis"})
    BY <2>1 DEF FanInv
  <2>4. Sent(kafka, stages2, {"did", "kafka"}) /\ Sent(redis, stages2, {"did", "kafka", "redis"})
    BY <2>2, <2>3, SentStays
  <2>. QED  BY <2>1, <2>4
<1>7. Issued(credentials', log', jobs', config.keys) /\ credentials' \in Seq(Credential)
  <2>1. PICK stages, stages2 : stages = jobs /\ stages2 = jobs'
    OBVIOUS
  <2>2. /\ stages[n] = "did" /\ stages2[n] # "did"
        /\ \A k \in 1..Len(log) : stages[k] # "did" => stages2[k] # "did"
    BY <1>1, <1>3, <2>1
  <2>3. Issued(credentials, log, stages, config.keys) /\ credentials \in Seq(Credential)
    BY <2>1 DEF FanInv, FanTypes
  <2>4. CASE credentials' = credentials
    <3>1. Issued(credentials, log, stages2, config.keys)
      BY <1>2, <2>2, <2>3, IssuedStays
    <3>. QED  BY <1>1, <2>1, <2>3, <2>4, <3>1
  <2>5. CASE credentials' = F!IssueVerifiableCredential(n)
    <3>1. PICK c : c = [actor |-> log[n].actor, key |-> F!PublicKey, of |-> n]
      OBVIOUS
    <3>2. credentials' = Append(credentials, c)
      BY <2>5, <3>1 DEF F!IssueVerifiableCredential
    <3>3. F!PublicKey = IF config.keys THEN 0 ELSE log[n].boot
      BY <1>4 DEF F!PublicKey
    <3>4. F!PublicKey \in Nat
      BY DEF F!PublicKey, FanInv, FanTypes
    <3>5. log[n] \in Event
      BY <1>2
    <3>6. c \in Credential /\ c.of = n /\ c.key = IF config.keys THEN 0 ELSE log[n].boot
      BY <1>2, <3>1, <3>3, <3>4, <3>5 DEF Credential, Event
    <3>7. Issued(Append(credentials, c), log, stages2, config.keys) /\ Append(credentials, c) \in Seq(Credential)
      BY <1>2, <2>2, <2>3, <3>6, IssuedOneMore
    <3>. QED  BY <1>1, <2>1, <3>2, <3>7
  <2>. QED  BY <1>1, <2>4, <2>5
<1>8. FanTypes'
  BY <1>1, <1>2, <1>3, <1>5, <1>7 DEF FanInv, FanTypes
<1>. QED  BY <1>1, <1>3, <1>5, <1>6, <1>7, <1>8 DEF FanInv

\* An event past the DIDService goes on to the brokers: no socket is told.
LEMMA BrokersMute ==
  ASSUME FanInv, NEW n \in 1..Len(log), NEW from \in {"kafka", "redis"}, NEW to \in {"redis", "done"},
         jobs[n] = from, jobs' = [jobs EXCEPT ![n] = to],
         UNCHANGED <<config, boot, log, sockets, credentials>>
  PROVE  /\ \A s \in Sockets : sockets[s] # None => Heard(sockets[s], log, jobs', config)
         /\ Issued(credentials, log, jobs', config.keys)
         /\ jobs' \in Seq(Stages) /\ Len(jobs') = Len(jobs) /\ Len(jobs) = Len(log) /\ Len(log) \in Nat
         /\ jobs'[n] = to /\ \A k \in 1..Len(jobs) : k # n => jobs'[k] = jobs[k]
         /\ JobsDue'
<1>1. /\ jobs' \in Seq(Stages) /\ Len(jobs') = Len(jobs) /\ Len(jobs) = Len(log) /\ Len(log) \in Nat
      /\ jobs'[n] = to /\ \A k \in 1..Len(jobs) : k # n => jobs'[k] = jobs[k]
      /\ JobsDue'
  BY JobMoves
<1>2. PICK stages, stages2 : stages = jobs /\ stages2 = jobs'
  OBVIOUS
<1>3. \A k \in 1..Len(log) : (stages2[k] \in Mute <=> stages[k] \in Mute) /\ (stages[k] # "did" => stages2[k] # "did")
  BY <1>1, <1>2 DEF Mute
<1>4. log \in Seq(Event) /\ sockets \in [Sockets -> Socket \cup {None}]
  BY DEF FanInv, FanTypes
<1>5. ASSUME NEW s \in Sockets, sockets[s] # None PROVE Heard(sockets[s], log, stages2, config)
  <2>1. PICK c : c = sockets[s] /\ c \in Socket /\ Heard(c, log, stages, config)
    BY <1>2, <1>4, <1>5 DEF FanInv
  <2>2. \A k \in 1..Len(log) : k > Len(log) /\ F!Wants(c, log[k]) => stages2[k] \in Mute
    BY <1>1
  <2>3. Len(log) <= Len(log)
    BY <1>1
  <2>4. Heard(c, log, stages2, config)
    BY <1>3, <1>4, <2>1, <2>2, <2>3, HearsNothing
  <2>. QED  BY <2>1, <2>4
<1>6. Issued(credentials, log, stages2, config.keys)
  <2>1. Issued(credentials, log, stages, config.keys)
    BY <1>2 DEF FanInv
  <2>. QED  BY <1>1, <1>3, <2>1, IssuedStays
<1>. QED  BY <1>1, <1>2, <1>5, <1>6

\* A broker is sent event n, or not.
LEMMA BrokerTakes ==
  ASSUME NEW list \in Seq(Nat), NEW list2, NEW n \in 1..Len(jobs), NEW before, Sent(list, jobs, before),
         list2 \in {list, Append(list, n)}, Len(jobs) \in Nat, Len(jobs') = Len(jobs),
         jobs[n] \in before, jobs'[n] \notin before,
         \A k \in 1..Len(jobs) : k # n => jobs'[k] = jobs[k]
  PROVE  Sent(list2, jobs', before) /\ list2 \in Seq(Nat)
<1>1. PICK stages, stages2 : stages = jobs /\ stages2 = jobs'
  OBVIOUS
<1>2. \A k \in 1..Len(stages) : stages[k] \notin before => stages2[k] \notin before
  BY <1>1
<1>3. CASE list2 = list
  <2>1. Sent(list, stages2, before)
    BY <1>1, <1>2, SentStays
  <2>. QED  BY <1>1, <1>3, <2>1
<1>4. CASE list2 = Append(list, n)
  <2>1. Sent(Append(list, n), stages2, before) /\ Append(list, n) \in Seq(Nat)
    BY <1>1, <1>2, SentOneMore
  <2>. QED  BY <1>1, <1>4, <2>1
<1>. QED  BY <1>3, <1>4

LEMMA FanBrokers ==
  ASSUME FanInv, NEW n \in DOMAIN log, NEW reached \in BOOLEAN, F!Kafka(n, reached) \/ F!Redis(n, reached)
  PROVE  FanInv'
<1>0. n \in 1..Len(log) /\ Len(log) \in Nat /\ Len(jobs) = Len(log) /\ kafka \in Seq(Nat) /\ redis \in Seq(Nat)
  BY DEF FanInv, FanTypes
<1>1. CASE F!Kafka(n, reached)
  <2>1. /\ jobs[n] = "kafka" /\ jobs' = [jobs EXCEPT ![n] = "redis"] /\ kafka' \in {kafka, Append(kafka, n)}
        /\ UNCHANGED <<config, boot, log, sockets, redis, credentials>>
    BY <1>1 DEF F!Kafka
  <2>2. /\ \A s \in Sockets : sockets[s] # None => Heard(sockets[s], log, jobs', config)
        /\ Issued(credentials, log, jobs', config.keys)
        /\ jobs' \in Seq(Stages) /\ Len(jobs') = Len(jobs)
        /\ jobs'[n] = "redis" /\ \A k \in 1..Len(jobs) : k # n => jobs'[k] = jobs[k]
        /\ JobsDue'
    BY <1>0, <2>1, BrokersMute
  <2>3. Sent(kafka', jobs', {"did", "kafka"}) /\ kafka' \in Seq(Nat)
    <3>1. Sent(kafka, jobs, {"did", "kafka"})
      BY DEF FanInv
    <3>2. PICK before : before = {"did", "kafka"}
      OBVIOUS
    <3>3. jobs[n] \in before /\ jobs'[n] \notin before /\ Sent(kafka, jobs, before)
      BY <2>1, <2>2, <3>1, <3>2
    <3>4. Sent(kafka', jobs', before) /\ kafka' \in Seq(Nat)
      BY <1>0, <2>1, <2>2, <3>3, BrokerTakes
    <3>. QED  BY <3>2, <3>4
  <2>4. Sent(redis, jobs', {"did", "kafka", "redis"})
    <3>1. PICK stages, stages2 : stages = jobs /\ stages2 = jobs'
      OBVIOUS
    <3>2. \A k \in 1..Len(stages) : stages[k] \notin {"did", "kafka", "redis"} => stages2[k] \notin {"did", "kafka", "redis"}
      BY <2>1, <2>2, <3>1
    <3>3. Sent(redis, stages, {"did", "kafka", "redis"})
      BY <3>1 DEF FanInv
    <3>4. Len(stages) \in Nat /\ Len(stages2) \in Nat /\ Len(stages) <= Len(stages2)
      BY <1>0, <2>2, <3>1
    <3>5. Sent(redis, stages2, {"did", "kafka", "redis"})
      BY <3>2, <3>3, <3>4, SentStays
    <3>. QED  BY <3>1, <3>5
  <2>5. FanTypes'
    BY <2>1, <2>2, <2>3 DEF FanInv, FanTypes
  <2>. QED  BY <2>1, <2>2, <2>3, <2>4, <2>5 DEF FanInv
<1>2. CASE F!Redis(n, reached)
  <2>1. /\ jobs[n] = "redis" /\ jobs' = [jobs EXCEPT ![n] = "done"] /\ redis' \in {redis, Append(redis, n)}
        /\ UNCHANGED <<config, boot, log, sockets, kafka, credentials>>
    BY <1>2 DEF F!Redis
  <2>2. /\ \A s \in Sockets : sockets[s] # None => Heard(sockets[s], log, jobs', config)
        /\ Issued(credentials, log, jobs', config.keys)
        /\ jobs' \in Seq(Stages) /\ Len(jobs') = Len(jobs)
        /\ jobs'[n] = "done" /\ \A k \in 1..Len(jobs) : k # n => jobs'[k] = jobs[k]
        /\ JobsDue'
    BY <1>0, <2>1, BrokersMute
  <2>3. Sent(redis', jobs', {"did", "kafka", "redis"}) /\ redis' \in Seq(Nat)
    <3>1. Sent(redis, jobs, {"did", "kafka", "redis"})
      BY DEF FanInv
    <3>2. PICK before : before = {"did", "kafka", "redis"}
      OBVIOUS
    <3>3. jobs[n] \in before /\ jobs'[n] \notin before /\ Sent(redis, jobs, before)
      BY <2>1, <2>2, <3>1, <3>2
    <3>4. Sent(redis', jobs', before) /\ redis' \in Seq(Nat)
      BY <1>0, <2>1, <2>2, <3>3, BrokerTakes
    <3>. QED  BY <3>2, <3>4
  <2>4. Sent(kafka, jobs', {"did", "kafka"})
    <3>1. PICK stages, stages2 : stages = jobs /\ stages2 = jobs'
      OBVIOUS
    <3>2. \A k \in 1..Len(stages) : stages[k] \notin {"did", "kafka"} => stages2[k] \notin {"did", "kafka"}
      BY <2>1, <2>2, <3>1
    <3>3. Sent(kafka, stages, {"did", "kafka"})
      BY <3>1 DEF FanInv
    <3>4. Len(stages) \in Nat /\ Len(stages2) \in Nat /\ Len(stages) <= Len(stages2)
      BY <1>0, <2>2, <3>1
    <3>5. Sent(kafka, stages2, {"did", "kafka"})
      BY <3>2, <3>3, <3>4, SentStays
    <3>. QED  BY <3>1, <3>5
  <2>5. FanTypes'
    BY <2>1, <2>2, <2>3 DEF FanInv, FanTypes
  <2>. QED  BY <2>1, <2>2, <2>3, <2>4, <2>5 DEF FanInv
<1>. QED  BY <1>1, <1>2

LEMMA FanRestarts ==
  ASSUME FanInv, F!Restart
  PROVE  FanInv'
<1>1. /\ boot' = boot + 1 /\ jobs' = [n \in DOMAIN jobs |-> IF jobs[n] = "done" THEN "done" ELSE "lost"]
      /\ sockets' = [s \in Sockets |-> None] /\ UNCHANGED <<config, log, kafka, redis, credentials>>
  BY DEF F!Restart
<1>2. jobs \in Seq(Stages) /\ Len(jobs) = Len(log) /\ Len(log) \in Nat
  BY DEF FanInv, FanTypes
<1>3. /\ Len(jobs') = Len(jobs) /\ jobs' \in Seq(Stages)
      /\ \A k \in 1..Len(jobs) : jobs'[k] \in {"done", "lost"} /\ (jobs'[k] = "done" <=> jobs[k] = "done")
  <2>1. jobs' = [n \in 1..Len(jobs) |-> IF jobs[n] = "done" THEN "done" ELSE "lost"]
    BY <1>1, <1>2
  <2>2. \A k \in 1..Len(jobs) : jobs'[k] \in {"done", "lost"} /\ (jobs'[k] = "done" <=> jobs[k] = "done")
    BY <2>1
  <2>. QED  BY <1>2, <2>1, <2>2 DEF Stages
<1>4. FanTypes'
  BY <1>1, <1>3 DEF FanInv, FanTypes
<1>5. JobsDue'
  BY <1>3 DEF JobsDue
<1>6. \A s \in Sockets : sockets'[s] = None
  BY <1>1
<1>7. PICK stages, stages2 : stages = jobs /\ stages2 = jobs'
  OBVIOUS
<1>8. /\ Sent(kafka, stages, {"did", "kafka"}) /\ Sent(redis, stages, {"did", "kafka", "redis"})
      /\ Issued(credentials, log, stages, config.keys)
      /\ Len(stages) \in Nat /\ Len(stages2) \in Nat /\ Len(stages) <= Len(stages2) /\ Len(log) <= Len(log)
      /\ \A k \in 1..Len(stages) : stages2[k] \notin {"did", "kafka"} /\ stages2[k] \notin {"did", "kafka", "redis"}
      /\ \A k \in 1..Len(log) : stages2[k] # "did"
  BY <1>2, <1>3, <1>7 DEF FanInv
<1>9. Sent(kafka, stages2, {"did", "kafka"}) /\ Sent(redis, stages2, {"did", "kafka", "redis"})
  BY <1>8, SentStays
<1>10. Issued(credentials, log, stages2, config.keys)
  BY <1>2, <1>8, IssuedStays
<1>. QED  BY <1>1, <1>4, <1>5, <1>6, <1>7, <1>9, <1>10 DEF FanInv

LEMMA FanSteps ==
  ASSUME FanInv, F!Next \/ UNCHANGED fanVars
  PROVE  FanInv'
<1>1. CASE UNCHANGED fanVars
  BY <1>1 DEF fanVars, FanInv, FanTypes, JobsDue
<1>2. CASE F!Next
  BY <1>2, FanConnects, FanPublishes, FanProcesses, FanBrokers, FanRestarts DEF F!Next, F!Work
<1>. QED  BY <1>1, <1>2

LEMMA FanInvImplies ==
  ASSUME FanInv
  PROVE  F!TypeOK /\ F!SubscribersHear /\ F!CredentialsVerify
<1>0. /\ log \in Seq(Event) /\ Len(log) \in Nat /\ jobs \in Seq(Stages) /\ Len(jobs) = Len(log)
      /\ sockets \in [Sockets -> Socket \cup {None}] /\ kafka \in Seq(Nat) /\ redis \in Seq(Nat)
      /\ credentials \in Seq(Credential)
  BY DEF FanInv, FanTypes
<1>1. ASSUME NEW s \in Sockets, sockets[s] # None
      PROVE  LET got == sockets[s].got IN
               /\ F!Range(got) \subseteq DOMAIN log
               /\ F!IsInjective(got)
               /\ F!Range(got) = {n \in DOMAIN log : n > sockets[s].since /\ F!Wants(sockets[s], log[n]) /\ jobs[n] \notin {"did", "lost"}}
                                 \cup {n \in F!Range(got) : n <= sockets[s].since}
               /\ \A n \in F!Range(got) : n <= sockets[s].since => F!Identity(log[n])
               /\ \A m, n \in DOMAIN got : m < n /\ got[m] > got[n] => F!Identity(log[got[n]])
  <2>1. PICK c : c = sockets[s] /\ c \in Socket /\ Heard(c, log, jobs, config)
    BY <1>0, <1>1 DEF FanInv
  <2>2. c.got \in Seq(Nat) /\ DOMAIN c.got = 1..Len(c.got) /\ c.since \in Nat /\ DOMAIN log = 1..Len(log)
    BY <1>0, <2>1 DEF Socket
  <2>3. \A n : n \in F!Range(c.got) <=> \E a \in 1..Len(c.got) : c.got[a] = n
    BY <2>2 DEF F!Range
  <2>4. F!Range(c.got) \subseteq DOMAIN log
    BY <2>1, <2>2, <2>3 DEF Heard
  <2>5. F!IsInjective(c.got)
    BY <2>1, <2>2 DEF Heard, Distinct, F!IsInjective
  <2>6. ASSUME NEW n
        PROVE  n \in F!Range(c.got) <=>
                 \/ n \in DOMAIN log /\ n > c.since /\ F!Wants(c, log[n]) /\ jobs[n] \notin {"did", "lost"}
                 \/ n \in F!Range(c.got) /\ n <= c.since
    <3>1. ASSUME n \in F!Range(c.got), ~ n <= c.since
          PROVE  n \in DOMAIN log /\ n > c.since /\ F!Wants(c, log[n]) /\ jobs[n] \notin {"did", "lost"}
      <4>1. PICK a \in 1..Len(c.got) : c.got[a] = n
        BY <2>3, <3>1
      <4>2. n \in 1..Len(log) /\ jobs[n] \notin Mute /\ F!Wants(c, log[n])
        BY <2>1, <4>1 DEF Heard
      <4>. QED  BY <1>0, <2>2, <3>1, <4>2 DEF Mute
    <3>2. ASSUME n \in DOMAIN log, n > c.since, F!Wants(c, log[n]), jobs[n] \notin {"did", "lost"}
          PROVE  n \in F!Range(c.got)
      <4>1. \E a \in 1..Len(c.got) : c.got[a] = n
        BY <2>1, <2>2, <3>2 DEF Heard, Mute
      <4>. QED  BY <2>3, <4>1
    <3>. QED  BY <3>1, <3>2
  <2>7. F!Range(c.got) = {n \in DOMAIN log : n > c.since /\ F!Wants(c, log[n]) /\ jobs[n] \notin {"did", "lost"}}
                         \cup {n \in F!Range(c.got) : n <= c.since}
    BY <2>6
  <2>8. ASSUME NEW n \in F!Range(c.got), n <= c.since PROVE F!Identity(log[n])
    <3>1. Ident(log[n], config)
      BY <2>1, <2>3, <2>8 DEF Heard
    <3>. QED  BY <3>1 DEF Ident, F!Identity
  <2>9. ASSUME NEW m \in DOMAIN c.got, NEW n \in DOMAIN c.got, m < n, c.got[m] > c.got[n] PROVE F!Identity(log[c.got[n]])
    <3>1. Ident(log[c.got[n]], config)
      BY <2>1, <2>2, <2>9 DEF Heard
    <3>. QED  BY <3>1 DEF Ident, F!Identity
  <2>. QED  BY <2>1, <2>4, <2>5, <2>7, <2>8, <2>9
<1>2. F!TypeOK
  <2>1. \A n \in DOMAIN jobs : jobs[n] \in {"did", "kafka", "redis", "done", "lost"}
    BY <1>0 DEF Stages
  <2>. QED  BY <1>0, <1>1, <2>1 DEF F!TypeOK
<1>3. F!SubscribersHear
  <2>1. F!IsInjective(kafka) /\ F!IsInjective(redis)
    <3>1. DOMAIN kafka = 1..Len(kafka) /\ DOMAIN redis = 1..Len(redis)
      BY <1>0
    <3>2. Distinct(kafka) /\ Distinct(redis)
      BY DEF FanInv, Sent
    <3>. QED  BY <3>1, <3>2 DEF Distinct, F!IsInjective
  <2>. QED  BY <1>1, <2>1 DEF F!SubscribersHear
<1>4. F!CredentialsVerify
  <2>1. \A m, n \in DOMAIN credentials : credentials[m].of = credentials[n].of => m = n
    <3>1. DOMAIN credentials = 1..Len(credentials)
      BY <1>0
    <3>2. \A m, n \in 1..Len(credentials) : credentials[m].of = credentials[n].of => m = n
      BY DEF FanInv, Issued
    <3>. QED  BY <3>1, <3>2
  <2>2. ASSUME NEW c \in F!Range(credentials)
        PROVE  F!CredentialVerifies(c) <=> (config.keys \/ log[c.of].boot = boot)
    <3>1. PICK a \in 1..Len(credentials) : c = credentials[a]
      BY <1>0 DEF F!Range
    <3>2. c.key = IF config.keys THEN 0 ELSE log[c.of].boot
      BY <3>1 DEF FanInv, Issued
    <3>3. config.keys \in BOOLEAN
      BY FanAssumption DEF FanInv, FanTypes
    <3>. QED  BY <3>2, <3>3 DEF F!CredentialVerifies, F!PublicKey
  <2>. QED  BY <2>1, <2>2 DEF F!CredentialsVerify
<1>. QED  BY <1>2, <1>3, <1>4

-----------------------------------------------------------------------------
(***************************************************************************)
(* The breaker of AchAdapter.  It has no more failures than calls failed,  *)
(* is half open with no more successes than came since, and is not closed  *)
(* with the failures that opened it, or a late success has forgotten them. *)
(***************************************************************************)
FailedOf(all) == {k \in AchCalls : all[k] # None /\ all[k].pc = "failed"}
AchInv ==
  /\ state \in {"CLOSED", "OPEN", "HALF_OPEN"} /\ achCalls \in [AchCalls -> AchCall \cup {None}]
  /\ clock \in Nat /\ lastFailure \in 0..clock /\ probes \in Nat /\ late \in BOOLEAN
  /\ successes \in 0..(SuccessThreshold - 1) /\ (state = "HALF_OPEN" => successes <= probes)
  /\ achFailures \in Nat /\ achFailures <= Cardinality(FailedOf(achCalls))
  /\ state # "CLOSED" /\ ~ late => achFailures >= FailureThreshold

\* What a step of the breaker may not do.
Recovers ==
  /\ state # "CLOSED" /\ state' = "CLOSED" => probes' >= SuccessThreshold
  /\ state = "HALF_OPEN" /\ (\E k \in AchCalls : achCalls[k] # achCalls'[k] /\ achCalls'[k].pc = "failed") /\ ~late => state' = "OPEN"

LEMMA AchStart == B!Init => AchInv
<1>. SUFFICES ASSUME B!Init PROVE AchInv
  OBVIOUS
<1>1. FailedOf(achCalls) = {}
  BY DEF B!Init, FailedOf
<1>2. Cardinality(FailedOf(achCalls)) = 0
  BY <1>1, FS_EmptySet
<1>3. achCalls = [k \in AchCalls |-> None] /\ achCalls \in [AchCalls -> AchCall \cup {None}]
  BY DEF B!Init
<1>4. successes \in 0..(SuccessThreshold - 1)
  BY AchAssumption DEF B!Init
<1>5. state = "CLOSED" /\ successes = 0 /\ achFailures = 0 /\ lastFailure = 0 /\ clock = 0 /\ probes = 0 /\ late = FALSE
  BY DEF B!Init
<1>6. clock \in Nat /\ lastFailure \in 0..clock /\ probes \in Nat /\ successes <= probes
  BY <1>5
<1>8. late \in BOOLEAN
  BY <1>5, Zenon
<1>7. achFailures \in Nat /\ achFailures <= Cardinality(FailedOf(achCalls))
  BY <1>2, <1>5
<1>. QED  BY <1>3, <1>4, <1>5, <1>6, <1>7, <1>8 DEF AchInv

LEMMA FailedFinite ==
  ASSUME NEW all
  PROVE  IsFiniteSet(FailedOf(all)) /\ Cardinality(FailedOf(all)) \in Nat /\ Cardinality(FailedOf(all)) <= Cardinality(AchCalls)
<1>1. FailedOf(all) \subseteq AchCalls /\ IsFiniteSet(AchCalls)
  BY AchAssumption DEF FailedOf
<1>. QED  BY <1>1, FS_Subset, FS_CardinalityType

LEMMA EndedCall ==
  ASSUME NEW c \in AchCall, NEW p, NEW t, t = [c EXCEPT !.pc = p]
  PROVE  t = [good |-> c.good, pc |-> p]
<1>1. c = [good |-> c.good, pc |-> c.pc]
  BY DEF AchCall
<1>. QED  BY <1>1

LEMMA AchExecutes ==
  ASSUME AchInv, NEW k \in AchCalls, NEW op, NEW good \in BOOLEAN, B!Execute(k, op, good)
  PROVE  AchInv' /\ Recovers
<1>0. PICK p : p = IF state = "OPEN" /\ ~ B!TimedOut THEN "refused" ELSE "waiting"
  OBVIOUS
<1>1. PICK t : t = [good |-> good, pc |-> p] /\ achCalls' = [achCalls EXCEPT ![k] = t]
  BY <1>0 DEF B!Execute
<1>2. /\ achCalls[k] = None /\ UNCHANGED <<achFailures, lastFailure, clock, late>>
      /\ \/ UNCHANGED <<state, successes, probes>>
         \/ state = "OPEN" /\ state' = "HALF_OPEN" /\ successes' = 0 /\ probes' = 0
  BY DEF B!Execute
<1>3. t \in AchCall /\ t.pc = p /\ p # "failed"
  BY <1>0, <1>1 DEF AchCall
<1>4. achCalls' \in [AchCalls -> AchCall \cup {None}] /\ achCalls'[k] = t /\ \A q \in AchCalls : q # k => achCalls'[q] = achCalls[q]
  BY <1>1, <1>3 DEF AchInv
<1>5. FailedOf(achCalls') = FailedOf(achCalls)
  BY <1>2, <1>3, <1>4 DEF FailedOf
<1>6. AchInv'
  BY <1>2, <1>4, <1>5, AchAssumption DEF AchInv
<1>7. \A q \in AchCalls : achCalls[q] # achCalls'[q] => achCalls'[q].pc # "failed"
  BY <1>3, <1>4
<1>. QED  BY <1>2, <1>6, <1>7 DEF Recovers

LEMMA AchSucceeds ==
  ASSUME AchInv, NEW k \in AchCalls, B!Succeed(k)
  PROVE  AchInv' /\ Recovers
<1>1. achCalls[k] \in AchCall /\ achCalls[k].pc = "waiting"
  BY DEF B!Succeed, AchInv
<1>2. PICK t : t = [good |-> achCalls[k].good, pc |-> "done"] /\ achCalls' = [achCalls EXCEPT ![k] = t]
  <2>1. achCalls' = [achCalls EXCEPT ![k] = [achCalls[k] EXCEPT !.pc = "done"]]
    BY DEF B!Succeed
  <2>. QED  BY <1>1, <2>1, EndedCall
<1>3. t \in AchCall /\ t.pc = "done"
  BY <1>1, <1>2 DEF AchCall
<1>4. achCalls' \in [AchCalls -> AchCall \cup {None}] /\ achCalls'[k] = t /\ \A q \in AchCalls : q # k => achCalls'[q] = achCalls[q]
  BY <1>2, <1>3 DEF AchInv
<1>5. FailedOf(achCalls') = FailedOf(achCalls)
  BY <1>1, <1>3, <1>4 DEF FailedOf
<1>6. \A q \in AchCalls : achCalls[q] # achCalls'[q] => achCalls'[q].pc # "failed"
  BY <1>3, <1>4
<1>. DEFINE closes == state = "HALF_OPEN" /\ successes + 1 >= SuccessThreshold
<1>7. /\ successes' = IF state # "HALF_OPEN" THEN successes ELSE IF closes THEN 0 ELSE successes + 1
      /\ state' = IF closes THEN "CLOSED" ELSE state
      /\ achFailures' = IF closes \/ state # "HALF_OPEN" THEN 0 ELSE achFailures
      /\ probes' = IF state = "HALF_OPEN" THEN probes + 1 ELSE probes
      /\ late' = IF state = "OPEN" THEN TRUE ELSE IF state = "HALF_OPEN" THEN late ELSE FALSE
      /\ UNCHANGED <<lastFailure, clock>>
  BY DEF B!Succeed, B!OnSuccess
<1>8. Cardinality(FailedOf(achCalls)) \in Nat
  BY FailedFinite
<1>9. AchInv'
  <2>1. /\ state' \in {"CLOSED", "OPEN", "HALF_OPEN"} /\ clock' \in Nat /\ lastFailure' \in 0..clock' /\ probes' \in Nat
        /\ late' \in BOOLEAN
    <3>1. state' \in {"CLOSED", "OPEN", "HALF_OPEN"}
      BY <1>7 DEF AchInv
    <3>2. clock' \in Nat /\ lastFailure' \in 0..clock' /\ probes' \in Nat
      BY <1>7 DEF AchInv
    <3>3. late' \in BOOLEAN
      BY <1>7, Zenon DEF AchInv
    <3>. QED  BY <3>1, <3>2, <3>3
  <2>2. successes' \in 0..(SuccessThreshold - 1) /\ (state' = "HALF_OPEN" => successes' <= probes')
    BY <1>7, AchAssumption DEF AchInv
  <2>3. achFailures' \in Nat /\ achFailures' <= Cardinality(FailedOf(achCalls))
    BY <1>7, <1>8 DEF AchInv
  <2>4. state' # "CLOSED" /\ ~ late' => achFailures' >= FailureThreshold
    BY <1>7 DEF AchInv
  <2>. QED  BY <1>4, <1>5, <2>1, <2>2, <2>3, <2>4 DEF AchInv
<1>10. Recovers
  <2>1. ASSUME state # "CLOSED", state' = "CLOSED" PROVE probes' >= SuccessThreshold
    BY <1>7, <2>1, AchAssumption DEF AchInv
  <2>. QED  BY <1>6, <2>1 DEF Recovers
<1>. QED  BY <1>9, <1>10

LEMMA AchFails ==
  ASSUME AchInv, NEW k \in AchCalls, B!Fail(k)
  PROVE  AchInv' /\ Recovers
<1>1. achCalls[k] \in AchCall /\ achCalls[k].pc = "waiting"
  BY DEF B!Fail, AchInv
<1>2. PICK t : t = [good |-> achCalls[k].good, pc |-> "failed"] /\ achCalls' = [achCalls EXCEPT ![k] = t]
  <2>1. achCalls' = [achCalls EXCEPT ![k] = [achCalls[k] EXCEPT !.pc = "failed"]]
    BY DEF B!Fail
  <2>. QED  BY <1>1, <2>1, EndedCall
<1>3. t \in AchCall /\ t.pc = "failed" /\ t # None
  BY <1>1, <1>2, AchAssumption DEF AchCall
<1>4. achCalls' \in [AchCalls -> AchCall \cup {None}] /\ achCalls'[k] = t /\ \A q \in AchCalls : q # k => achCalls'[q] = achCalls[q]
  BY <1>2, <1>3 DEF AchInv
<1>5. FailedOf(achCalls') = FailedOf(achCalls) \cup {k} /\ k \notin FailedOf(achCalls)
  BY <1>1, <1>3, <1>4 DEF FailedOf
<1>6. Cardinality(FailedOf(achCalls')) = Cardinality(FailedOf(achCalls)) + 1 /\ Cardinality(FailedOf(achCalls)) \in Nat
  BY <1>5, FailedFinite, FS_AddElement
<1>7. /\ achFailures' = achFailures + 1 /\ lastFailure' = clock
      /\ state' = IF achFailures + 1 >= FailureThreshold THEN "OPEN" ELSE state
      /\ late' = IF state = "CLOSED" THEN FALSE ELSE late
      /\ UNCHANGED <<successes, clock, probes>>
  BY DEF B!Fail
<1>8. AchInv'
  <2>1. /\ state' \in {"CLOSED", "OPEN", "HALF_OPEN"} /\ clock' \in Nat /\ lastFailure' \in 0..clock' /\ probes' \in Nat
        /\ late' \in BOOLEAN /\ successes' \in 0..(SuccessThreshold - 1) /\ (state' = "HALF_OPEN" => successes' <= probes')
    <3>1. state' \in {"CLOSED", "OPEN", "HALF_OPEN"}
      BY <1>7 DEF AchInv
    <3>2. clock' \in Nat /\ lastFailure' \in 0..clock' /\ probes' \in Nat
      BY <1>7 DEF AchInv
    <3>3. late' \in BOOLEAN
      BY <1>7, Zenon DEF AchInv
    <3>4. successes' \in 0..(SuccessThreshold - 1) /\ (state' = "HALF_OPEN" => successes' <= probes')
      BY <1>7 DEF AchInv
    <3>. QED  BY <3>1, <3>2, <3>3, <3>4
  <2>2. achFailures' \in Nat /\ achFailures' <= Cardinality(FailedOf(achCalls'))
    BY <1>6, <1>7 DEF AchInv
  <2>3. state' # "CLOSED" /\ ~ late' => achFailures' >= FailureThreshold
    BY <1>7, AchAssumption DEF AchInv
  <2>. QED  BY <1>4, <2>1, <2>2, <2>3 DEF AchInv
<1>9. Recovers
  BY <1>7, AchAssumption DEF AchInv, Recovers
<1>. QED  BY <1>8, <1>9

LEMMA AchSteps ==
  ASSUME AchInv, B!Next \/ UNCHANGED achVars
  PROVE  AchInv' /\ (B!Next => Recovers)
<1>1. CASE UNCHANGED achVars
  BY <1>1 DEF achVars, AchInv, Recovers
<1>2. CASE B!Tick
  <2>1. clock' = clock + 1 /\ UNCHANGED <<state, achFailures, successes, lastFailure, achCalls, probes, late>>
    BY <1>2 DEF B!Tick
  <2>. QED  BY <2>1 DEF AchInv, Recovers
<1>3. ASSUME NEW k \in AchCalls, B!Succeed(k) \/ B!Fail(k) \/ \E op \in B!Operations, good \in BOOLEAN : B!Execute(k, op, good)
      PROVE  AchInv' /\ Recovers
  BY <1>3, AchExecutes, AchSucceeds, AchFails
<1>. QED  BY <1>1, <1>2, <1>3 DEF B!Next

LEMMA AchTypes == AchInv => B!TypeOK
<1>1. \A set : B!Cardinality(set) = Cardinality(set)
  BY DEF B!Cardinality, Cardinality
<1>2. ASSUME AchInv PROVE achFailures \in 0..B!Cardinality(AchCalls)
  <2>1. /\ Cardinality(FailedOf(achCalls)) \in Nat /\ Cardinality(FailedOf(achCalls)) <= Cardinality(AchCalls)
        /\ Cardinality(AchCalls) \in Nat
    BY FailedFinite, FS_CardinalityType, AchAssumption
  <2>. QED  BY <1>1, <1>2, <2>1 DEF AchInv
<1>. QED  BY <1>2 DEF AchInv, B!TypeOK

(***************************************************************************)
(* CircuitBreaker: for any thresholds and however calls overlap, it closes *)
(* only after as many successes as it asks for since it was half open, and *)
(* a failure while it is half open opens it, unless a call from before     *)
(* succeeded while it was open.                                            *)
(***************************************************************************)
THEOREM BreakerRecoversOnly == LayerSpec => B!BreakerRecovers
<1>1. LayerInit => AchInv
  BY AchStart DEF LayerInit
<1>2. AchInv /\ [LayerNext]_<<railVars, gateVars, serverVars, fanVars, achVars>> => AchInv' /\ [Recovers]_B!vars
  <2>1. ASSUME AchInv, LayerNext PROVE AchInv' /\ [Recovers]_B!vars
    <3>1. B!Next \/ UNCHANGED achVars
      BY <2>1 DEF LayerNext
    <3>2. UNCHANGED achVars => UNCHANGED B!vars
      BY DEF achVars, B!vars
    <3>. QED  BY <2>1, <3>1, <3>2, AchSteps
  <2>2. ASSUME AchInv, UNCHANGED <<railVars, gateVars, serverVars, fanVars, achVars>> PROVE AchInv' /\ [Recovers]_B!vars
    <3>1. UNCHANGED achVars /\ UNCHANGED B!vars
      BY <2>2 DEF achVars, B!vars
    <3>. QED  BY <2>2, <3>1, AchSteps
  <2>. QED  BY <2>1, <2>2
<1>. QED  BY <1>1, <1>2, PTL DEF LayerSpec, Recovers, B!BreakerRecovers

-----------------------------------------------------------------------------
ServingInv == BootInv /\ ActInv /\ LimitInv /\ FanInv /\ AchInv

LEMMA ServingStart == LayerInit => ServingInv
BY BootStart, ActStart, LimitStart, FanStart, AchStart DEF LayerInit, ServingInv

LEMMA ServingSteps ==
  ASSUME ServingInv, LayerNext \/ UNCHANGED <<railVars, gateVars, serverVars, fanVars, achVars>>
  PROVE  ServingInv'
<1>1. /\ S!Next \/ UNCHANGED serverVars
      /\ F!Next \/ UNCHANGED fanVars
      /\ B!Next \/ UNCHANGED achVars
  BY DEF LayerNext
<1>2. BootInv /\ ActInv /\ LimitInv /\ FanInv /\ AchInv
  BY DEF ServingInv
<1>3. BootInv'
  BY <1>1, <1>2, BootSteps
<1>4. ActInv'
  BY <1>1, <1>2, ActSteps
<1>5. LimitInv'
  BY <1>1, <1>2, LimitSteps
<1>6. FanInv'
  BY <1>1, <1>2, FanSteps
<1>7. AchInv'
  BY <1>1, <1>2, AchSteps
<1>. QED  BY <1>3, <1>4, <1>5, <1>6, <1>7 DEF ServingInv

LEMMA ServingInvImplies ==
  ASSUME ServingInv
  PROVE  ServerKeepsFaith
<1>1. BootInv /\ ActInv /\ LimitInv /\ FanInv /\ AchInv
  BY DEF ServingInv
<1>2. S!TypeOK
  <2>1. /\ phase \in Booting \cup {"down", "up"} /\ boots \in 0..MaxBoots /\ jwt \in {None, 0} \cup 1..MaxBoots
        /\ online \subseteq {"kafka", "redis"}
    BY <1>1 DEF BootInv
  <2>2. now \in 0..MaxTime
    BY <1>1 DEF LimitInv
  <2>3. \A k \in DOMAIN hits : Len(hits[k]) \in 1..Limit
    BY <1>1, LimitIsKept
  <2>4. S!Range(S!Phases) = Booting /\ S!Pem = 0
    BY PhaseFacts DEF S!Pem
  <2>. QED  BY <2>1, <2>2, <2>3, <2>4 DEF S!TypeOK
<1>3. F!TypeOK /\ F!SubscribersHear /\ F!CredentialsVerify
  BY <1>1, FanInvImplies
<1>4. B!TypeOK
  BY <1>1, AchTypes
<1>5. S!FailsClosed /\ S!ActedInSession /\ S!LimitHolds
  BY <1>1, BootsClosed, ActsInSession, LimitIsKept
<1>. QED  BY <1>2, <1>3, <1>4, <1>5 DEF ServerKeepsFaith

(***************************************************************************)
(* The server, for any clients, environments and bounds: what listens in   *)
(* production has what it was told to have, a command comes of a session   *)
(* the bus accepted and a token that had not expired, each key gets at     *)
(* most its limit in any window; subscribers hear each event once, and     *)
(* each credential verifies while its key lasts.                           *)
(***************************************************************************)
THEOREM ServerFaithful == LayerSpec => []ServerKeepsFaith
<1>1. ServingInv /\ [LayerNext]_<<railVars, gateVars, serverVars, fanVars, achVars>> => ServingInv'
  BY ServingSteps
<1>. QED  BY <1>1, ServingStart, ServingInvImplies, PTL DEF LayerSpec
=============================================================================
