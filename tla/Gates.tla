-------------------------------- MODULE Gates --------------------------------
(***************************************************************************)
(* The execution gates of a command, as its registry entry lists them:     *)
(* ExecutionGateEnforcer takes the list as it was written, evaluates the   *)
(* gates one after another and awaits each, and what they look at          *)
(* (balances, holds, approvals, the clock) changes meanwhile.  A command   *)
(* that passed is booked afterwards, by others.                            *)
(***************************************************************************)
EXTENDS Integers, Sequences, FiniteSets

CONSTANTS
  Calls,      \* calls of check
  Declared,   \* lists of gates as a command declares them: [type, static, fatal, complete]
  Payloads,   \* payloads: [account, amount], either may be None, an amount may be Text
  Evaluators, \* sets of gate types the enforcer may be made with
  MaxAmount, StaticLimit, Quorum,  \* configuration of the gates
  MaxChanges, \* bound on the changes of the world
  None, Text

VARIABLES
  evaluators, \* the types in ExecutionGateEnforcer.evaluators
  world,      \* what the handles of the gates answer
  changes,    \* how often the world changed
  calls,      \* the calls of check; seen, calm and booked are about them, not in the code
  events      \* rejections and warnings in the event store

vars == <<evaluators, world, changes, calls, events>>

Init ==
  /\ evaluators \in Evaluators
  /\ world = [balance |-> 2, status |-> "ACTIVE", state |-> "OPEN", limit |-> 2, approvals |-> 0, holds |-> {}, open |-> TRUE]
  /\ changes = 0 /\ calls = [k \in Calls |-> None] /\ events = <<>>

-----------------------------------------------------------------------------
(***************************************************************************)
(* The evaluators.  Amounts are integers when BigInt takes them.  A gate   *)
(* is complete when it has the whole configuration its type reads: without *)
(* it most fail, but a quorum of no number, a window of no hours and holds *)
(* of no type stop nothing.                                                *)
(***************************************************************************)
IsAmount(a) == a \notin {None, Text}

BalanceGate(w, x) == x.account # None /\ IsAmount(x.amount) /\ x.amount > 0 /\ w.balance # None /\ w.balance >= x.amount
StateGate(w) == w.state = "OPEN"
\* An amount below zero is within every limit.
AuthorizationLimitGate(w, x) == IsAmount(x.amount) /\ w.limit # None /\ x.amount <= w.limit
StaticLimitGate(x) == IsAmount(x.amount) /\ StaticLimit # None /\ x.amount <= StaticLimit
AmountWithinLimitGate(x) == IsAmount(x.amount) /\ x.amount > 0 /\ x.amount <= MaxAmount
TimeWindowGate(w) == w.open
ApprovalQuorumGate(w) == w.approvals >= Quorum
ComplianceHoldGate(w) == "SANCTIONS" \notin w.holds
AccountActiveGate(w, x) == x.account # None /\ w.status = "ACTIVE"

Incomplete(g, w) ==
  g.type \in {"APPROVAL_QUORUM", "TIME_WINDOW"} \/ (g.type = "COMPLIANCE_HOLD_ABSENT" /\ w.holds = {})
Complete(g, w, x) ==
  \/ g.type = "BALANCE_SUFFICIENT" /\ BalanceGate(w, x)
  \/ g.type = "STATE_PRECONDITION" /\ StateGate(w)
  \/ g.type = "AUTHORIZATION_LIMIT" /\ (IF g.static THEN StaticLimitGate(x) ELSE AuthorizationLimitGate(w, x))
  \/ g.type = "AMOUNT_WITHIN_LIMIT" /\ AmountWithinLimitGate(x)
  \/ g.type = "TIME_WINDOW" /\ TimeWindowGate(w)
  \/ g.type = "APPROVAL_QUORUM" /\ ApprovalQuorumGate(w)
  \/ g.type = "COMPLIANCE_HOLD_ABSENT" /\ ComplianceHoldGate(w)
  \/ g.type = "ACCOUNT_ACTIVE" /\ AccountActiveGate(w, x)
Passes(g, w, x) == IF g.complete THEN Complete(g, w, x) ELSE Incomplete(g, w)

\* Evaluators that ask a handle, which may throw.
Asks(g) == g.type \notin {"AMOUNT_WITHIN_LIMIT", "TIME_WINDOW"} /\ ~(g.type = "AUTHORIZATION_LIMIT" /\ g.static)

-----------------------------------------------------------------------------
(***************************************************************************)
(* check: one action per gate, and one per event it appends and awaits.    *)
(***************************************************************************)
Judged(call, passed) == [call EXCEPT !.evaluated = Append(@, passed)]
\* On to the next gate, or done.
Onward(call)    == IF call.at < Len(call.gates) THEN [call EXCEPT !.at = @ + 1, !.pc = "gate"]
                   ELSE [call EXCEPT !.pc = "passed"]
Moved(call, pc) == [call EXCEPT !.pc = pc]

Check(k, gates, x) ==
  /\ calls[k] = None
  /\ calls' = [calls EXCEPT ![k] = [gates |-> gates, at |-> 1, evaluated |-> <<>>, x |-> x,
                                    pc |-> IF gates = <<>> THEN "passed" ELSE "gate",
                                    seen |-> {world}, calm |-> TRUE, booked |-> FALSE]]
  /\ UNCHANGED <<evaluators, world, changes, events>>

\* A gate decides only when it says so: nothing fills in what it leaves out.
Fatal(g) == g.fatal = TRUE
AfterFailure(g) == IF Fatal(g) THEN "rejecting" ELSE "warning"

\* A seeded fault: a gate without an evaluator is passed over, fatal or not.
UnknownGateOpen(k) ==
  /\ calls[k] # None /\ calls[k].pc = "gate" /\ calls[k].gates[calls[k].at].type \notin evaluators
  /\ calls' = [calls EXCEPT ![k] = Onward(Judged(@, FALSE))]
  /\ UNCHANGED <<evaluators, world, changes, events>>
\* No evaluator: a fatal gate fails closed, another one is passed over without a warning.
UnknownGate(k) ==
  /\ calls[k] # None /\ calls[k].pc = "gate"
  /\ LET call == calls[k]  g == call.gates[call.at] IN
       /\ g.type \notin evaluators
       /\ calls' = [calls EXCEPT ![k] = IF Fatal(g) THEN Moved(Judged(call, FALSE), "rejecting") ELSE Onward(Judged(call, FALSE))]
  /\ UNCHANGED <<evaluators, world, changes, events>>

EvaluateGate(k) ==
  /\ calls[k] # None /\ calls[k].pc = "gate"
  /\ LET call == calls[k]  g == call.gates[call.at] IN
       /\ g.type \in evaluators
       /\ \/ /\ Passes(g, world, call.x)
             /\ calls' = [calls EXCEPT ![k] = Onward(Judged(call, TRUE))]
          \/ /\ Asks(g) \/ ~Passes(g, world, call.x)
             /\ calls' = [calls EXCEPT ![k] = Moved(Judged(call, FALSE), AfterFailure(g))]
  /\ UNCHANGED <<evaluators, world, changes, events>>

\* emitAdvisoryEvent and emitRejectionEvent: the store may refuse, which changes nothing else.  An event is told here by
\* the place of its gate.
Emit(k) ==
  /\ calls[k] # None /\ calls[k].pc \in {"warning", "rejecting"}
  /\ \E event \in {<<>>, <<[call |-> k, kind |-> calls[k].pc, gate |-> calls[k].at]>>} : events' = events \o event
  /\ calls' = [calls EXCEPT ![k] = IF @.pc = "warning" THEN Onward(@) ELSE Moved(@, "failed")]
  /\ UNCHANGED <<evaluators, world, changes>>

\* The world, as the others know it.
Sees(call, w, books) ==
  IF books THEN [call EXCEPT !.booked = TRUE, !.seen = @ \cup {w}]
  ELSE [call EXCEPT !.calm = @ /\ call.booked, !.seen = @ \cup {w}]
Becomes(w, by) ==
  /\ world' = w
  /\ calls' = [k \in Calls |-> IF calls[k] = None THEN None ELSE Sees(calls[k], w, k = by)]

Change ==
  /\ changes < MaxChanges /\ changes' = changes + 1
  /\ \E w \in {[world EXCEPT !.approvals = 1 - @], [world EXCEPT !.status = "FROZEN"], [world EXCEPT !.open = ~@],
               [world EXCEPT !.state = "CLOSED"], [world EXCEPT !.limit = None], [world EXCEPT !.balance = 1],
               [world EXCEPT !.holds = {"REVIEW"}], [world EXCEPT !.holds = @ \cup {"SANCTIONS"}]} :
       w # world /\ (w.balance = world.balance \/ world.balance > 1) /\ Becomes(w, None)
  /\ UNCHANGED <<evaluators, events>>

\* A command that passed its fatal balance gate takes its amount out.
Book(k) ==
  /\ calls[k] # None /\ calls[k].pc = "passed" /\ ~calls[k].booked
  /\ \E n \in DOMAIN calls[k].gates : calls[k].gates[n].type = "BALANCE_SUFFICIENT" /\ Fatal(calls[k].gates[n])
  /\ Becomes([world EXCEPT !.balance = @ - calls[k].x.amount], k)
  /\ UNCHANGED <<evaluators, changes, events>>

Next ==
  \/ \E k \in Calls, d \in Declared, x \in Payloads : Check(k, d, x)
  \/ \E k \in Calls : UnknownGate(k) \/ EvaluateGate(k) \/ Emit(k) \/ Book(k)
  \/ Change

Spec == Init /\ [][Next]_vars

-----------------------------------------------------------------------------
TypeOK ==
  /\ evaluators \in Evaluators /\ world.balance \in Int /\ changes \in 0..MaxChanges
  /\ \A k \in Calls : calls[k] # None =>
       /\ calls[k].pc \in {"gate", "warning", "rejecting", "passed", "failed"}
       /\ calls[k].at \in 1..(Len(calls[k].gates) + 1) /\ Len(calls[k].evaluated) <= Len(calls[k].gates)
  /\ \A n \in DOMAIN events : events[n].call \in Calls

(***************************************************************************)
(* Whatever changes between the gates: a command passes only if each gate  *)
(* that calls itself fatal has an evaluator and was satisfied at some      *)
(* moment of the check.                                                    *)
(***************************************************************************)
GatesHeld ==
  \A k \in Calls : calls[k] # None /\ calls[k].pc = "passed" =>
    \A n \in DOMAIN calls[k].gates : Fatal(calls[k].gates[n]) =>
      LET g == calls[k].gates[n]
      IN g.type \in evaluators /\ \E w \in calls[k].seen : Passes(g, w, calls[k].x)

(***************************************************************************)
(* A rejection in the event store is of a failed check, by the last gate   *)
(* it judged, which is fatal; a warning is of a gate that is not, failed   *)
(* and has an evaluator; none of them is there twice.                      *)
(***************************************************************************)
EventsFollowChecks ==
  /\ \A n \in DOMAIN events :
       LET call == calls[events[n].call]  g == call.gates[events[n].gate] IN
         /\ events[n].gate \in DOMAIN call.evaluated /\ ~call.evaluated[events[n].gate]
         /\ events[n].kind = "rejecting" => call.pc = "failed" /\ events[n].gate = Len(call.evaluated) /\ Fatal(g)
         /\ events[n].kind = "warning" => g.type \in evaluators /\ ~Fatal(g)
  /\ \A a, b \in DOMAIN events : events[a] = events[b] => a = b

(***************************************************************************)
(* Nothing holds what a balance gate saw until the booking: an account is  *)
(* overdrawn only if something came between the two.                       *)
(***************************************************************************)
OverdrawnOnlyByRace == world.balance < 0 => \E k \in Calls : calls[k] # None /\ calls[k].booked /\ ~calls[k].calm
=============================================================================
