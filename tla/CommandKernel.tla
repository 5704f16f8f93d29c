--------------------------- MODULE CommandKernel ---------------------------
(***************************************************************************)
(* The write path of the runtime: KernelExecutor.execute plans the state   *)
(* transitions and events of one command, AtomicCommit.execute writes the  *)
(* transitions into the StateRegistry and then appends the events in one   *)
(* batch, and StateRegistry.rebuildFromEvents restores the registry from   *)
(* the log when the process starts.                                        *)
(*                                                                         *)
(* Every `await' of that path is a step, so that commands whose requests   *)
(* overlap interleave where the code lets them.  The registry is volatile  *)
(* (the server always hands the kernel a wrapped store, which selects the  *)
(* in-memory registry); the event log is durable.                          *)
(***************************************************************************)
EXTENDS Naturals, Sequences, FiniteSets

CONSTANTS
  Commands,      \* the command envelopes submitted; each is executed at most once
  Aggregates,    \* the domain:aggregate:id keys of the registry
  Managed,       \* the aggregates that have a state machine in machines.registry.json
  States,        \* the states of those machines
  NoState,       \* no record in the registry; written INIT in a transition
  Unread,        \* a key AtomicCommit.prepare has not read, or rolled back already
  InitialState,  \* [Managed -> States], initial_state of the machine
  Machine,       \* [Managed -> set of transitions [from, event, to]]
  Batch,         \* [Commands -> Seq([event, agg])], the success events of each command
  Overlap,       \* TRUE: commands on a common aggregate may be in flight together
  FineClock,     \* TRUE: two batches never get the same millisecond timestamp
  AckMayBeLost   \* TRUE: COMMIT may take effect and still be reported as an error

StateOrNone == States \cup {NoState}
AggsOf(c)   == {Batch[c][i].agg : i \in 1..Len(Batch[c])}
KeysOf(c)   == AggsOf(c) \cap Managed

ASSUME KernelAssumption ==
  /\ Managed \subseteq Aggregates
  /\ NoState \notin States /\ Unread \notin StateOrNone
  /\ InitialState \in [Managed -> States]
  /\ \A a \in Managed : \A t \in Machine[a] : t.from \in States /\ t.to \in States
  /\ DOMAIN Batch = Commands
  /\ \A c \in Commands : /\ Len(Batch[c]) \in Nat
                         /\ \A i \in 1..Len(Batch[c]) : Batch[c][i].agg \in Aggregates
  /\ Overlap \in BOOLEAN /\ FineClock \in BOOLEAN /\ AckMayBeLost \in BOOLEAN

VARIABLES
  registry,   \* StateRegistry.states
  history,    \* StateRegistry.history, the number of transitions kept per key
  log,        \* the durable events
  clock,      \* the millisecond clock the envelopes are stamped with
  pc,         \* how far the execution of each command has come
  plan,       \* plan.transitions of each command, one entry per success event
  prepared,   \* AtomicCommit's captured previousState per key
  written,    \* how many of the command's setState calls are done
  stamp       \* the timestamp of the command's envelopes

vars == <<registry, history, log, clock, pc, plan, prepared, written, stamp>>

Active   == {"planning", "fetching", "preparing", "loading", "writing",
             "appending", "stamped", "committed", "rollingBack"}
Answered == {"accepted", "rejected", "failed"}
Dirty    == {"writing", "appending", "stamped", "rollingBack"}

InFlight == {c \in Commands : pc[c] \in Active}

(***************************************************************************)
(* The events of a command as they are appended, and what the registry is  *)
(* rebuilt from: for each key the transition with the greatest timestamp.  *)
(* Events of one millisecond are ordered by their random event_id, so any  *)
(* of them may come last.                                                  *)
(***************************************************************************)
NewEvents(c) ==
  {[cmd |-> c, pos |-> i, agg |-> Batch[c][i].agg,
    from |-> plan[c][i].from, to |-> plan[c][i].to, ts |-> stamp[c]]
     : i \in 1..Len(Batch[c])}

TransitionsOf(a) == {e \in log : e.agg = a /\ e.to # NoState}
Latest(a) == {e \in TransitionsOf(a) : \A f \in TransitionsOf(a) : f.ts <= e.ts}

Candidates == {e \in log : e \in Latest(e.agg)}
Rebuilt(a, s) ==
  \/ TransitionsOf(a) = {} /\ s = NoState
  \/ \E e \in Latest(a) : s = e.to

(***************************************************************************)
(* findTransition.  A machine lists at most one target per state and event *)
(* that the lookup can return: the first one.                              *)
(***************************************************************************)
\* A seeded fault: the lookup forgets to compare the current state.
MatchingAnyState(a, s, ev) == {t \in Machine[a] : t.event = ev}
Matching(a, s, ev) == {t \in Machine[a] : t.from = s /\ t.event = ev}
Target(a, s, ev)   == (CHOOSE t \in Matching(a, s, ev) : TRUE).to

\* StateRegistry.getState falls back to the initial state when no record is left.
CurrentState(a) == IF registry[a] = NoState THEN InitialState[a] ELSE registry[a]

Goto(c, label) == pc' = [pc EXCEPT ![c] = label]

NothingRead == [a \in Aggregates |-> Unread]

\* execute returns or throws: its locals are gone.
Answer(c, label) ==
  /\ Goto(c, label)
  /\ plan'     = [plan     EXCEPT ![c] = <<>>]
  /\ prepared' = [prepared EXCEPT ![c] = NothingRead]
  /\ written'  = [written  EXCEPT ![c] = 0]
  /\ stamp'    = [stamp    EXCEPT ![c] = 0]

-----------------------------------------------------------------------------
Init ==
  /\ registry = [a \in Aggregates |-> NoState]
  /\ history  = [a \in Aggregates |-> 0]
  /\ log      = {}
  /\ clock    = 0
  /\ pc       = [c \in Commands |-> "idle"]
  /\ plan     = [c \in Commands |-> <<>>]
  /\ prepared = [c \in Commands |-> NothingRead]
  /\ written  = [c \in Commands |-> 0]
  /\ stamp    = [c \in Commands |-> 0]

(***************************************************************************)
(* The gates before planning (identity, authority, capability, execution   *)
(* gates, validation rules) read no registry state and write nothing here: *)
(* a command passes them or is answered REJECTED.                          *)
(***************************************************************************)
Admit(c) ==
  /\ pc[c] = "idle"
  /\ Overlap \/ \A d \in InFlight : AggsOf(c) \cap AggsOf(d) = {}
  /\ Goto(c, "planning")
  /\ UNCHANGED <<registry, history, log, clock, plan, prepared, written, stamp>>

Refuse(c) ==
  /\ pc[c] = "idle"
  /\ Goto(c, "rejected")
  /\ UNCHANGED <<registry, history, log, clock, plan, prepared, written, stamp>>

\* planTransitionsAndEvents, one success event: await hasState.
PlanProbe(c) ==
  /\ pc[c] = "planning" /\ Len(plan[c]) < Len(Batch[c])
  /\ LET a == Batch[c][Len(plan[c]) + 1].agg
     IN  \/ /\ a \notin Managed
            /\ plan' = [plan EXCEPT ![c] = Append(@, [from |-> NoState, to |-> NoState])]
            /\ UNCHANGED pc
         \/ /\ a \in Managed /\ registry[a] = NoState
            /\ plan' = [plan EXCEPT ![c] =
                          Append(@, [from |-> NoState, to |-> InitialState[a]])]
            /\ UNCHANGED pc
         \/ /\ a \in Managed /\ registry[a] # NoState
            /\ Goto(c, "fetching")
            /\ UNCHANGED plan
  /\ UNCHANGED <<registry, history, log, clock, prepared, written, stamp>>

\* A seeded fault: instead of the InvalidStateTransitionError the command plans again,
\* in the hope that a command in flight makes its event legal.
PlanFetchRetries(c) ==
  /\ pc[c] = "fetching"
  /\ LET b == Batch[c][Len(plan[c]) + 1]
         s == CurrentState(b.agg)
     IN  plan' = [plan EXCEPT ![c] =
                    IF Matching(b.agg, s, b.event) = {} THEN <<>>
                    ELSE Append(@, [from |-> s, to |-> Target(b.agg, s, b.event)])]
  /\ Goto(c, "planning")
  /\ UNCHANGED <<registry, history, log, clock, prepared, written, stamp>>

\* ... then await getState and lookupTransition, or InvalidStateTransitionError.
PlanFetch(c) ==
  /\ pc[c] = "fetching"
  /\ LET b == Batch[c][Len(plan[c]) + 1]
         s == CurrentState(b.agg)
     IN  \/ /\ Matching(b.agg, s, b.event) # {}
            /\ plan' = [plan EXCEPT ![c] =
                          Append(@, [from |-> s, to |-> Target(b.agg, s, b.event)])]
            /\ Goto(c, "planning")
            /\ UNCHANGED <<prepared, written, stamp>>
         \/ /\ Matching(b.agg, s, b.event) = {}
            /\ Answer(c, "rejected")
  /\ UNCHANGED <<registry, history, log, clock>>

PlanDone(c) ==
  /\ pc[c] = "planning" /\ Len(plan[c]) = Len(Batch[c])
  /\ Goto(c, "preparing")
  /\ UNCHANGED <<registry, history, log, clock, plan, prepared, written, stamp>>

\* AtomicCommit.prepare walks the updates and reads each key once.
NextKey(c, i) ==
  /\ i \in 1..Len(Batch[c])
  /\ Batch[c][i].agg \in Managed /\ prepared[c][Batch[c][i].agg] = Unread
  /\ \A j \in 1..(i - 1) :
        Batch[c][j].agg \in Managed => prepared[c][Batch[c][j].agg] # Unread

PrepareProbe(c) ==
  /\ pc[c] = "preparing"
  /\ \E i \in 1..Len(Batch[c]) :
       /\ NextKey(c, i)
       /\ \/ /\ registry[Batch[c][i].agg] = NoState
             /\ prepared' = [prepared EXCEPT ![c][Batch[c][i].agg] = NoState]
             /\ UNCHANGED pc
          \/ /\ registry[Batch[c][i].agg] # NoState
             /\ Goto(c, "loading")
             /\ UNCHANGED prepared
  /\ UNCHANGED <<registry, history, log, clock, plan, written, stamp>>

PrepareFetch(c) ==
  /\ pc[c] = "loading"
  /\ \E i \in 1..Len(Batch[c]) :
       /\ NextKey(c, i)
       /\ prepared' = [prepared EXCEPT ![c][Batch[c][i].agg] = CurrentState(Batch[c][i].agg)]
  /\ Goto(c, "preparing")
  /\ UNCHANGED <<registry, history, log, clock, plan, written, stamp>>

PrepareDone(c) ==
  /\ pc[c] = "preparing"
  /\ \A a \in KeysOf(c) : prepared[c][a] # Unread
  /\ Goto(c, "writing")
  /\ UNCHANGED <<registry, history, log, clock, plan, prepared, written, stamp>>

\* Phase 2: one awaited setState per planned transition.
SetState(c) ==
  /\ pc[c] = "writing" /\ written[c] < Len(Batch[c])
  /\ LET i == written[c] + 1
         a == Batch[c][i].agg
     IN  IF plan[c][i].to = NoState
         THEN UNCHANGED <<registry, history>>
         ELSE /\ registry' = [registry EXCEPT ![a] = plan[c][i].to]
              /\ history'  = [history  EXCEPT ![a] = @ + 1]
  /\ written' = [written EXCEPT ![c] = @ + 1]
  /\ UNCHANGED <<log, clock, pc, plan, prepared, stamp>>

WriteDone(c) ==
  /\ pc[c] = "writing" /\ written[c] = Len(Batch[c])
  /\ Goto(c, "appending")
  /\ UNCHANGED <<registry, history, log, clock, plan, prepared, written, stamp>>

\* A seeded fault: one append per event instead of one for the batch.
CommitOneByOne(c) ==
  /\ pc[c] = "stamped"
  /\ \E e \in NewEvents(c) \ log : log' = log \cup {e}
  /\ Goto(c, IF NewEvents(c) \subseteq log' THEN "committed" ELSE "stamped")
  /\ UNCHANGED <<registry, history, clock, plan, prepared, written, stamp>>

(***************************************************************************)
(* Phase 3, appendManyAtomic: the envelopes are stamped, then the batch is *)
(* made durable at once (COMMIT, or the rename of the JSON file), then the *)
(* promise resolves.                                                       *)
(***************************************************************************)
Stamp(c) ==
  /\ pc[c] = "appending"
  /\ stamp' = [stamp EXCEPT ![c] = clock]
  /\ clock' \in IF FineClock THEN {clock + 1} ELSE {clock, clock + 1}
  /\ Goto(c, "stamped")
  /\ UNCHANGED <<registry, history, log, plan, prepared, written>>

Commit(c) ==
  /\ pc[c] = "stamped"
  /\ log' = log \cup NewEvents(c)
  /\ Goto(c, "committed")
  /\ UNCHANGED <<registry, history, clock, plan, prepared, written, stamp>>

Reply(c) ==
  /\ pc[c] = "committed"
  /\ Answer(c, "accepted")
  /\ UNCHANGED <<registry, history, log, clock>>

\* A seeded fault: the failure is reported without the rollback.
AppendFailsNoRollback(c) ==
  /\ pc[c] = "stamped"
  /\ Answer(c, "failed")
  /\ UNCHANGED <<registry, history, log, clock>>

\* A seeded fault: an error after the commit, such as a failing publish, is
\* taken for a failed append.
AppendFailsLate(c) ==
  /\ pc[c] \in {"stamped", "committed"}
  /\ Goto(c, "rollingBack")
  /\ UNCHANGED <<registry, history, log, clock, plan, prepared, written, stamp>>

\* The store throws: nothing was committed, or (AckMayBeLost) the connection
\* broke after the server had committed.
AppendFails(c) ==
  /\ \/ pc[c] = "stamped"
     \/ pc[c] = "committed" /\ AckMayBeLost
  /\ Goto(c, "rollingBack")
  /\ UNCHANGED <<registry, history, log, clock, plan, prepared, written, stamp>>

\* Phase 4: the prepared keys in reverse order, one awaited rollbackState each.
LastKey(c, i) ==
  /\ i \in 1..Len(Batch[c])
  /\ prepared[c][Batch[c][i].agg] # Unread
  /\ \A j \in 1..Len(Batch[c]) :
       prepared[c][Batch[c][j].agg] # Unread =>
         \E k \in 1..i : Batch[c][k].agg = Batch[c][j].agg
  /\ \A k \in 1..(i - 1) : Batch[c][k].agg # Batch[c][i].agg

\* A seeded fault: the history record stays.
RollbackKeepsHistory(c) ==
  /\ pc[c] = "rollingBack"
  /\ \E i \in 1..Len(Batch[c]) :
       /\ LastKey(c, i)
       /\ registry' = [registry EXCEPT ![Batch[c][i].agg] = prepared[c][Batch[c][i].agg]]
       /\ prepared' = [prepared EXCEPT ![c][Batch[c][i].agg] = Unread]
  /\ UNCHANGED <<history, log, clock, pc, plan, written, stamp>>

\* A seeded fault: the captured state is cleared before it is used.
RollbackAfterClear(c) ==
  /\ pc[c] = "rollingBack"
  /\ \E i \in 1..Len(Batch[c]) :
       /\ LastKey(c, i)
       /\ prepared' = [prepared EXCEPT ![c][Batch[c][i].agg] = Unread]
       /\ registry' = [registry EXCEPT ![Batch[c][i].agg] = Unread]
  /\ UNCHANGED <<history, log, clock, pc, plan, written, stamp>>

Rollback(c) ==
  /\ pc[c] = "rollingBack"
  /\ \E i \in 1..Len(Batch[c]) :
       LET a == Batch[c][i].agg
       IN  /\ LastKey(c, i)
           /\ registry' = [registry EXCEPT ![a] = prepared[c][a]]
           /\ history'  = [history  EXCEPT ![a] = IF @ = 0 THEN 0 ELSE @ - 1]
           /\ prepared' = [prepared EXCEPT ![c][a] = Unread]
  /\ UNCHANGED <<log, clock, pc, plan, written, stamp>>

RollbackDone(c) ==
  /\ pc[c] = "rollingBack"
  /\ \A a \in KeysOf(c) : prepared[c][a] = Unread
  /\ Answer(c, "failed")
  /\ UNCHANGED <<registry, history, log, clock>>

(***************************************************************************)
(* The process stops at any point and boots again: what was in flight is   *)
(* never answered and the registry is rebuilt from the log.                *)
(***************************************************************************)
Restart ==
  /\ pc' = [c \in Commands |-> IF pc[c] \in Active THEN "lost" ELSE pc[c]]
  /\ plan'     = [c \in Commands |-> <<>>]
  /\ prepared' = [c \in Commands |-> NothingRead]
  /\ written'  = [c \in Commands |-> 0]
  /\ stamp'    = [c \in Commands |-> 0]
  /\ \E last \in SUBSET Candidates :   \* the events that sort last, one per key
       /\ \A e, f \in last : e.agg = f.agg => e = f
       /\ \A e \in Candidates : \E f \in last : e.agg = f.agg
       /\ registry' = [a \in Aggregates |->
                         IF \E e \in last : e.agg = a
                         THEN (CHOOSE e \in last : e.agg = a).to ELSE NoState]
  /\ history' = [a \in Aggregates |-> Cardinality(TransitionsOf(a))]
  /\ UNCHANGED <<log, clock>>

-----------------------------------------------------------------------------
Step(c) ==
  \/ PlanProbe(c) \/ PlanFetch(c) \/ PlanDone(c)
  \/ PrepareProbe(c) \/ PrepareFetch(c) \/ PrepareDone(c)
  \/ SetState(c) \/ WriteDone(c)
  \/ Stamp(c) \/ Commit(c) \/ Reply(c) \/ AppendFails(c)
  \/ Rollback(c) \/ RollbackDone(c)

Next ==
  \/ \E c \in Commands : Admit(c) \/ Refuse(c) \/ Step(c)
  \/ Restart

Spec == Init /\ [][Next]_vars

\* An awaited promise of a running process settles.
FairSpec == Spec /\ \A c \in Commands : WF_vars(Step(c))
-----------------------------------------------------------------------------
TypeOK ==
  /\ registry \in [Aggregates -> StateOrNone]
  /\ history  \in [Aggregates -> Nat]
  /\ \A e \in log : /\ e.cmd \in Commands /\ e.agg \in Aggregates /\ e.ts \in Nat
                    /\ e.from \in StateOrNone /\ e.to \in StateOrNone
  /\ clock \in Nat
  /\ pc \in [Commands -> Active \cup Answered \cup {"idle", "lost"}]
  /\ plan \in [Commands -> Seq([from : StateOrNone, to : StateOrNone])]
  /\ prepared \in [Commands -> [Aggregates -> StateOrNone \cup {Unread}]]
  /\ written \in [Commands -> Nat]
  /\ stamp \in [Commands -> Nat]

Positions(c) == {e.pos : e \in {f \in log : f.cmd = c}}

(***************************************************************************)
(* What the caller is told agrees with the log: an ACCEPTED command has    *)
(* its whole batch in the log, a REJECTED one (refused by a gate, by       *)
(* findTransition, or by AtomicCommitFailureError after a rollback) has    *)
(* nothing in it, and no batch is ever half there - whatever overlaps,     *)
(* fails or crashes, as long as the store's answer is reliable.            *)
(***************************************************************************)
AnswerMatchesLog ==
  \A c \in Commands :
    /\ pc[c] = "accepted" => Positions(c) = 1..Len(Batch[c])
    /\ pc[c] \in {"rejected", "failed"} => Positions(c) = {}
    /\ Positions(c) \in {{}, 1..Len(Batch[c])}

(***************************************************************************)
(* INV-001, "No state may change without a corresponding event": a key no  *)
(* command is in the middle of writing holds exactly the state that a      *)
(* rebuild from the log would give it, so a crash there loses nothing and  *)
(* invents nothing.                                                        *)
(***************************************************************************)
Settled(a) == \A c \in Commands : pc[c] \in Dirty => a \notin KeysOf(c)

StateMatchesLog ==
  \A a \in Aggregates : Settled(a) =>
    \A s \in StateOrNone : Rebuilt(a, s) => s = registry[a]

(***************************************************************************)
(* The transitions of a key recorded by different commands form a chain:   *)
(* each starts in the state the batch before it left, and the first starts *)
(* from nothing.  Two commands planned from the same state break it.       *)
(***************************************************************************)
Follows(e, f) ==
  /\ e.ts < f.ts
  /\ \A g \in TransitionsOf(f.agg) : ~(e.ts < g.ts /\ g.ts < f.ts)

ChainIntact ==
  \A f \in log : f.to # NoState =>
    IF \E e \in TransitionsOf(f.agg) : e.ts < f.ts
    THEN \A e \in TransitionsOf(f.agg) : Follows(e, f) => f.from = e.to
    ELSE f.from = NoState

(***************************************************************************)
(* Every transition in the log is one its machine allows: the creation of  *)
(* the aggregate in its initial state, or a declared transition for the    *)
(* event - also when the command read a state another one was writing.     *)
(***************************************************************************)
LegalTransitions ==
  \A e \in log : e.to # NoState =>
    \/ e.from = NoState /\ e.to = InitialState[e.agg]
    \/ \E t \in Machine[e.agg] :
         t.from = e.from /\ t.event = Batch[e.cmd][e.pos].event /\ t.to = e.to

(***************************************************************************)
(* A settled key keeps one history record per transition in the log: a     *)
(* rolled-back command leaves no phantom transition for getHistory and     *)
(* snapshot to return.                                                     *)
(***************************************************************************)
HistoryMatchesLog ==
  \A a \in Aggregates :
    (\A c \in InFlight : a \notin KeysOf(c)) =>
      history[a] = Cardinality(TransitionsOf(a))

\* The two records of the past: the transitions of the log form one chain per aggregate,
\* and the history of the registry counts them, also after rollbacks and restarts.
LogIsOneChain == ChainIntact /\ HistoryMatchesLog

(***************************************************************************)
(* A command that was admitted is answered, or the process died under it:  *)
(* no interleaving leaves it waiting.                                      *)
(***************************************************************************)
EveryCommandEnds ==
  \A c \in Commands : pc[c] \in Active ~> pc[c] \in Answered \cup {"lost"}

(***************************************************************************)
(* The write path is atomic: with the state of each aggregate read off the *)
(* log, every step is a step of AtomicCommand or changes nothing there.    *)
(***************************************************************************)
LoggedState ==
  [a \in Aggregates |->
     IF TransitionsOf(a) = {} THEN NoState ELSE (CHOOSE e \in Latest(a) : TRUE).to]

ToldCaller ==
  [c \in Commands |->
     CASE pc[c] = "accepted" -> "accepted"
       [] pc[c] \in {"rejected", "failed"} -> "rejected"
       [] OTHER -> "none"]

Atomic == INSTANCE AtomicCommand WITH
            state <- LoggedState, done <- {e.cmd : e \in log}, answer <- ToldCaller

IsAtomic == Atomic!Spec
=============================================================================
