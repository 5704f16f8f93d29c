--------------------------- MODULE AtomicCommand ---------------------------
(***************************************************************************)
(* What the write path promises: a command takes effect at one instant, on *)
(* all its aggregates or on none, each moving from the state it is in      *)
(* along a declared transition, and the caller is told which it was.       *)
(* CommandKernel implements this when commands on one aggregate do not     *)
(* overlap.                                                                *)
(***************************************************************************)
EXTENDS Naturals, Sequences

CONSTANTS Commands, Aggregates, Managed, States, NoState, InitialState, Machine, Batch

VARIABLES
  state,    \* the state of each aggregate, or NoState before its first event
  done,     \* the commands that have taken effect
  answer    \* what each caller was told

vars == <<state, done, answer>>

\* The events of the command c on the aggregate a.
EventsOn(c, a) == {Batch[c][i].event : i \in {j \in 1..Len(Batch[c]) : Batch[c][j].agg = a}}

\* Where an event may take an aggregate.
Targets(a, s, ev) ==
  IF s = NoState THEN {InitialState[a]}
  ELSE {t.to : t \in {u \in Machine[a] : u.from = s /\ u.event = ev}}

Init ==
  /\ state  = [a \in Aggregates |-> NoState]
  /\ done   = {}
  /\ answer = [c \in Commands |-> "none"]

Execute(c) ==
  /\ c \notin done /\ answer[c] = "none"
  /\ state' \in [Aggregates -> States \cup {NoState}]
  /\ \A a \in Aggregates :
       IF a \in Managed /\ EventsOn(c, a) # {}
       THEN /\ \A ev \in EventsOn(c, a) : Targets(a, state[a], ev) # {}
            /\ \E ev \in EventsOn(c, a) : state'[a] \in Targets(a, state[a], ev)
       ELSE state'[a] = state[a]
  /\ done' = done \cup {c}
  /\ UNCHANGED answer

Accept(c) ==
  /\ answer[c] = "none" /\ (c \in done \/ Len(Batch[c]) = 0)
  /\ answer' = [answer EXCEPT ![c] = "accepted"]
  /\ UNCHANGED <<state, done>>

Reject(c) ==
  /\ answer[c] = "none" /\ c \notin done
  /\ answer' = [answer EXCEPT ![c] = "rejected"]
  /\ UNCHANGED <<state, done>>

Next == \E c \in Commands : Execute(c) \/ Accept(c) \/ Reject(c)

Spec == Init /\ [][Next]_vars
=============================================================================
