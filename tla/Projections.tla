---------------------------- MODULE Projections ----------------------------
(***************************************************************************)
(* The ProjectionEngine and its read models.  Four are here, one for each  *)
(* way a read model is written in projections/ (the others: ReadModels):   *)
(*   view      generic-event-projection.ts, the record of an aggregate     *)
(*             merged from the events whose projection_effect names it     *)
(*   timeline  audit-timeline.ts, one record per event, subscribed to '*'  *)
(*   status    payment-status.ts, the last known step of a payment; its    *)
(*             handleEvent makes an entry for any event it is given        *)
(*   pending   treasury-dashboard.ts, a global counter with a floor of 0   *)
(*                                                                         *)
(* CommandBus.submit hands the events of an accepted command to            *)
(* handleEvent after its awaits; other events only reach the log.  Booting *)
(* rebuilds every model from the whole log.                                *)
(***************************************************************************)
EXTENDS Integers, Sequences, FiniteSets, Functions

CONSTANTS
  Commands,       \* the accepted commands, each once
  Batches,        \* per aggregate, what one command on it may emit: sequences of kinds
  Aside,          \* kinds written to the log but handed to no handleEvent
  Kinds,          \* event names
  Aggregates,     \* aggregate ids
  Fields,         \* fields of a record of the view
  Sets,           \* the fields each kind writes; none: the view is not its target
  Inserts,        \* kinds whose projection_effect.operation is 'insert'
  PaymentEvents,  \* source events of payment_status
  Counted,        \* source events of treasury_dashboard, with what they add
  Ttl,            \* ttlMs of the query cache
  MaxTime,        \* bound on the clock
  MaxAside,       \* bound on the events written aside
  MaxBoots,       \* bound on restarts
  Overlaps,       \* how commands may overlap: "none", "apart" (not on one aggregate), "any"
  AckMayBeLost    \* TRUE: a commit may become durable and still throw

ASSUME ProjectionsAssumption ==
  /\ Aside \subseteq Kinds /\ Inserts \subseteq Kinds /\ PaymentEvents \subseteq Kinds
  /\ Batches \in [Aggregates -> SUBSET Seq(Kinds)]
  /\ Sets \in [Kinds -> SUBSET Fields]
  /\ DOMAIN Counted \subseteq Kinds /\ \A k \in DOMAIN Counted : Counted[k] \in {-1, 1}
  /\ Ttl \in Nat \ {0} /\ MaxTime \in Nat \ {0} /\ MaxAside \in Nat /\ MaxBoots \in Nat
  /\ Overlaps \subseteq {"none", "apart", "any"} /\ AckMayBeLost \in BOOLEAN
  /\ "aside" \notin Commands /\ "absent" \notin Kinds

VARIABLES
  overlap,    \* how the commands of this behaviour overlap
  log,        \* the events of the store, in getAll order
  models,     \* the read models
  pc,         \* per command: "idle", "open" from its commit to handleEvent, "lost" when
              \* its durable commit threw, "done"
  inHand,     \* the ids of result.events
  cache,      \* the cached answer to query('audit_timeline')
  answer,     \* the last answer given
  handledAt,  \* when each event reached the timeline
  now, boots

vars == <<overlap, log, models, pc, inHand, cache, answer, handledAt, now, boots>>

None      == [at |-> 0, ids |-> {}]   \* no cache entry, and no answer yet
Ids       == DOMAIN log
Open      == {c \in Commands : pc[c] = "open"}
NoRecord  == [f \in Fields |-> -1]
Event(kind, agg, by) == [kind |-> kind, agg |-> agg, by |-> by]

Cleared   == [view |-> [a \in Aggregates |-> NoRecord], timeline |-> {},
              status |-> [a \in Aggregates |-> "absent"], pending |-> 0]

Init ==
  /\ overlap \in Overlaps
  /\ log = <<>> /\ models = Cleared
  /\ pc = [c \in Commands |-> "idle"] /\ inHand = [c \in Commands |-> <<>>]
  /\ cache = None /\ answer = None
  /\ handledAt = <<>>
  /\ now = 1 /\ boots = 0

-----------------------------------------------------------------------------
(***************************************************************************)
(* What each read model makes of event number i, an event of l.            *)
(***************************************************************************)
\* LAST_WRITE_WINS; an insert starts from an empty record.
Merged(view, l, i) ==
  LET e == l[i]
      old == IF e.kind \in Inserts \/ view[e.agg] = NoRecord
               THEN [f \in Fields |-> 0] ELSE view[e.agg]
  IN  IF Sets[e.kind] = {} THEN view
        ELSE [view EXCEPT ![e.agg] = [f \in Fields |-> IF f \in Sets[e.kind] THEN i ELSE old[f]]]

StatusAfter(status, e) ==
  [status EXCEPT ![e.agg] = IF e.kind \in PaymentEvents THEN e.kind
                              ELSE IF @ = "absent" THEN "UNKNOWN" ELSE @]

\* A seeded fault: The counter has no floor.
PendingUnfloored(n, e) ==
  IF e.kind \notin DOMAIN Counted THEN n ELSE n + Counted[e.kind]

PendingAfter(n, e) ==
  IF e.kind \notin DOMAIN Counted THEN n
    ELSE IF n + Counted[e.kind] < 0 THEN 0 ELSE n + Counted[e.kind]

\* What becomes of the models m when event number i of l is handed over: by handleEvent
\* of the engine only to the models subscribed to it, or its target, by buildFromGenesis
\* to each.  The timeline is subscribed to '*'.
Taken(m, l, i, to) ==
  [view |-> Merged(m.view, l, i), timeline |-> m.timeline \cup {i},
   status |-> IF to = "all" \/ l[i].kind \in PaymentEvents THEN StatusAfter(m.status, l[i]) ELSE m.status,
   pending |-> PendingAfter(m.pending, l[i])]

\* How far the models have come after n of the events that q numbers.
Fed(m, l, q, to) ==
  LET f[n \in 0..Len(q)] == IF n = 0 THEN m ELSE Taken(f[n - 1], l, q[n], to)
  IN f

InOrder(l) == [i \in 1..Len(l) |-> i]
Rebuilt(l) == Fed(Cleared, l, InOrder(l), "all")[Len(l)]

-----------------------------------------------------------------------------
Meets(c, a) ==
  CASE overlap = "none"  -> Open # {}
    [] overlap = "apart" -> \E d \in Open : \E i \in DOMAIN inHand[d] : log[inHand[d][i]].agg = a
    [] OTHER -> FALSE

\* The kernel's commit of the command's events; what awaits come after it are still open.
Commit(c) ==
  /\ pc[c] = "idle"
  /\ \E a \in Aggregates : \E b \in Batches[a] :
       /\ ~ Meets(c, a)
       /\ log' = log \o [i \in DOMAIN b |-> Event(b[i], a, c)]
       /\ \/ /\ pc' = [pc EXCEPT ![c] = "open"]
             /\ inHand' = [inHand EXCEPT ![c] = [i \in DOMAIN b |-> Len(log) + i]]
          \/ AckMayBeLost /\ pc' = [pc EXCEPT ![c] = "lost"] /\ UNCHANGED inHand
  /\ UNCHANGED <<overlap, models, cache, answer, handledAt, now, boots>>

\* for (const event of result.events) projectionEngine.handleEvent(event).
\* No compiled event carries invalidation_keys, so the cache stays.
Project(c) ==
  /\ c \in Open
  /\ models' = Fed(models, log, inHand[c], "subscribed")[Len(inHand[c])]
  /\ handledAt' = [i \in DOMAIN handledAt \cup Range(inHand[c]) |->
                     IF i \in DOMAIN handledAt THEN handledAt[i] ELSE now]
  /\ pc' = [pc EXCEPT ![c] = "done"]
  /\ UNCHANGED <<overlap, log, inHand, cache, answer, now, boots>>

\* executeUnknownCommand, emitSagaEvent: appended, and projected by nobody.
AppendAside ==
  /\ Cardinality({i \in Ids : log[i].by = "aside"}) < MaxAside
  /\ \E k \in Aside, a \in Aggregates : log' = Append(log, Event(k, a, "aside"))
  /\ UNCHANGED <<overlap, models, pc, inHand, cache, answer, handledAt, now, boots>>

\* A seeded fault: A cache entry never expires.
CacheHitForever == cache # None

CacheHit == cache # None /\ cache.at + Ttl > now

Query ==
  /\ LET data == IF CacheHit THEN cache.ids ELSE models.timeline IN
       /\ cache' = IF CacheHit THEN cache ELSE [at |-> now, ids |-> data]
       /\ answer' = [at |-> now, ids |-> data]
  /\ UNCHANGED <<overlap, log, models, pc, inHand, handledAt, now, boots>>

Tick ==
  /\ now < MaxTime /\ now' = now + 1
  /\ UNCHANGED <<overlap, log, models, pc, inHand, cache, answer, handledAt, boots>>

\* A seeded fault: buildFromGenesis without state.clear().
RestartWithoutClear ==
  /\ boots < MaxBoots /\ boots' = boots + 1
  /\ models' = Fed(models, log, InOrder(log), "all")[Len(log)]
  /\ handledAt' = [i \in Ids |-> IF i \in DOMAIN handledAt THEN handledAt[i] ELSE now]
  /\ cache' = None
  /\ pc' = [c \in Commands |-> IF pc[c] = "idle" THEN "idle" ELSE "done"]
  /\ UNCHANGED <<overlap, log, inHand, answer, now>>

\* The process stops and boots: rebuildFromGenesis(getAll()), which clears the cache.
Restart ==
  /\ boots < MaxBoots /\ boots' = boots + 1
  /\ models' = Rebuilt(log)
  /\ handledAt' = [i \in Ids |-> IF i \in DOMAIN handledAt THEN handledAt[i] ELSE now]
  /\ cache' = None
  /\ pc' = [c \in Commands |-> IF pc[c] = "idle" THEN "idle" ELSE "done"]
  /\ UNCHANGED <<overlap, log, inHand, answer, now>>

Next ==
  \/ \E c \in Commands : Commit(c) \/ Project(c)
  \/ AppendAside \/ Query \/ Tick \/ Restart

Spec == Init /\ [][Next]_vars

-----------------------------------------------------------------------------
TypeOK ==
  /\ overlap \in Overlaps
  /\ log \in Seq([kind : Kinds, agg : Aggregates, by : Commands \cup {"aside"}])
  /\ models \in [view : [Aggregates -> [Fields -> -1..Len(log)]], timeline : SUBSET Ids,
                 status : [Aggregates -> PaymentEvents \cup {"absent", "UNKNOWN"}],
                 pending : Nat]
  /\ pc \in [Commands -> {"idle", "open", "lost", "done"}] /\ inHand \in [Commands -> Seq(Ids)]
  /\ cache \in [at : 0..now, ids : SUBSET Ids] /\ answer \in [at : 0..now, ids : SUBSET Ids]
  /\ DOMAIN handledAt = models.timeline /\ \A i \in DOMAIN handledAt : handledAt[i] \in 1..now
  /\ now \in 1..MaxTime /\ boots \in 0..MaxBoots

\* Events not handed over: an open command still holds them, or its commit threw.
Withheld == {i \in Ids : \E c \in Commands : log[i].by = c /\ pc[c] \in {"open", "lost"}}
Waits(a) == \E i \in Withheld : log[i].agg = a

\* INV-006, "rebuild from genesis" (projectionEngine.ts:90): a generic view that runs
\* incrementally holds, for every aggregate with nothing withheld, what a replay of the
\* log would give, so the last event of the log wins each field.
ViewFollowsLog ==
  LET genesis == Rebuilt(log) IN
    \A a \in Aggregates : ~ Waits(a) => models.view[a] = genesis.view[a]

\* The floored counter of treasury_dashboard is the one a replay would count.
CounterFollowsLog ==
  (\A i \in Withheld : log[i].kind \notin DOMAIN Counted)
    => models.pending = Rebuilt(log).pending

\* payment_status shows the last payment event the log has of each payment, whatever
\* else was handed to it when it was rebuilt.
StatusIsLastStep ==
  \A a \in Aggregates :
    LET own == {i \in Ids : log[i].agg = a /\ log[i].kind \in PaymentEvents} IN
      own # {} /\ ~ Waits(a) =>
        \E i \in own : models.status[a] = log[i].kind /\ \A j \in own : j <= i

\* The timeline never shows an event the log does not have, and misses only what is
\* withheld and what no command wrote.
TimelineKnowsCommands ==
  /\ models.timeline \subseteq Ids
  /\ \A i \in Ids : log[i].by # "aside" => i \in models.timeline \cup Withheld

\* ProjectionEngine: what the read models show is what a replay of the log gives, for all
\* that is not withheld from them.  When commands overlap on one aggregate only the
\* timeline keeps this.
ReadModelsFollowLog ==
  /\ TimelineKnowsCommands
  /\ overlap # "any" => ViewFollowsLog /\ CounterFollowsLog /\ StatusIsLastStep

\* ttlMs (projectionEngine.ts:43): an answer lacks no event that had been projected
\* for the lifetime of a cache entry.
AnswerWithinTtl ==
  \A i \in DOMAIN handledAt : handledAt[i] + Ttl <= answer.at => i \in answer.ids
=============================================================================
