------------------------------ MODULE EventLog ------------------------------
(***************************************************************************)
(* The JSON event store: EventStore with its indexes and its file, behind  *)
(* EventStoreEnforcementWrapper with the AuditTrailEnforcer and the        *)
(* EventOrderingEnforcer.                                                  *)
(*                                                                         *)
(* append goes through the enforcers, with an await before the inner       *)
(* append; appendManyAtomic is forwarded to the store as it is and is one  *)
(* step.  The file is replaced as a whole, by a rename.                    *)
(***************************************************************************)
EXTENDS Integers, Sequences, FiniteSets, SequencesExt, Lists

CONSTANTS
  Ids,           \* the events
  Requests,      \* calls of append or appendManyAtomic, each made once
  Batch,         \* [Requests -> Seq(Ids)], the events of each
  Single,        \* those that call append
  Denials,       \* those that AuthorityBoundaryEnforcer.deny makes
  Keys,          \* keys of aggregateIndex, correlationGroups and causationGraph
  KeysOf,        \* [Ids -> SUBSET Keys], the keys an event is filed under
  Stream,        \* [Ids -> Streams], aggregate_id
  Streams,
  Number,        \* [Ids -> Nat], the sequence an event is given, 0: none
  Cause,         \* [Ids -> Ids \cup {Root}], causation_id
  Root,          \* of an event whose causation_id is its correlation_id
  Overlap,       \* TRUE: numbered calls of append for one stream may be in flight together
  MaxRestarts    \* bound on the times the process starts again

ASSUME EventLogAssumption ==
  /\ Batch \in [Requests -> Seq(Ids)] /\ Single \subseteq Requests
  /\ \A r \in Requests : Batch[r] # <<>>
  /\ \A r \in Single : Len(Batch[r]) = 1
  /\ \A r, q \in Requests : r # q => Range(Batch[r]) \cap Range(Batch[q]) = {}
  /\ \A r \in Requests : IsInjective(Batch[r])
  /\ Denials \subseteq Single
  /\ KeysOf \in [Ids -> SUBSET Keys] /\ Stream \in [Ids -> Streams]
  /\ Number \in [Ids -> Nat] /\ Cause \in [Ids -> Ids \cup {Root}] /\ Root \notin Ids
  /\ Overlap \in BOOLEAN /\ MaxRestarts \in Nat

VARIABLES
  mem,         \* the store: events, sequence and the three indexes
  file,        \* the events in the file
  last,        \* InMemorySequenceTracker.sequences, 0: none
  pc,          \* how far each call has come
  seen,        \* what getLastSequence gave it
  published,   \* the events handed to the publisher
  booted,      \* how many events the constructor loaded
  restarts,
  \* For the properties to speak of; the code keeps neither.
  blind,       \* load() failed, and the file has not been written since
  forgotten    \* the events of a file that such a store has replaced

vars == <<mem, file, last, pc, seen, published, booted, restarts, blind, forgotten>>
disk == <<file, blind, forgotten>>

Empty == [events |-> <<>>, sequence |-> 0, index |-> [k \in Keys |-> <<>>]]
The(r) == Batch[r][1]
FiledUnder(k) == {e \in Ids : k \in KeysOf[e]}
Answered == {"accepted", "failed", "refused"}
Goto(r, label) == pc' = [pc EXCEPT ![r] = label]

Init ==
  /\ mem = Empty /\ file = <<>>
  /\ last = [a \in Streams |-> 0]
  /\ pc = [r \in Requests |-> "idle"] /\ seen = [r \in Requests |-> 0]
  /\ published = {} /\ booted = 0 /\ restarts = 0
  /\ blind = FALSE /\ forgotten = {}

-----------------------------------------------------------------------------
(***************************************************************************)
(* EventStore.                                                             *)
(***************************************************************************)
\* commitEnvelope for each of the events es.
Commit(es) ==
  [events   |-> mem.events \o es,
   sequence |-> mem.sequence + Len(es),
   index    |-> [k \in Keys |-> mem.index[k] \o Filter(es, FiledUnder(k))]]

\* validateCausation: the cause is there already, or there is nothing at all.
Caused(es) ==
  \A i \in DOMAIN es :
    \/ Cause[es[i]] = Root
    \/ Cause[es[i]] \in Range(mem.events) \cup {es[j] : j \in 1..i-1}
    \/ i = 1 /\ mem.events = <<>>

Publish(es) == published' = published \cup Range(es)

\* persist: the file is replaced by what the store holds.
Persist(log) ==
  /\ file' = log
  /\ blind' = FALSE /\ forgotten' = forgotten \cup (IF blind THEN Range(file) ELSE {})

\* A seeded fault: the events before the one that throws stay.
AppendManyAtomicPartly(r, strict) ==
  \/ Caused(Batch[r]) /\ mem' = Commit(Batch[r]) /\ Persist(mem'.events)
       /\ Publish(Batch[r]) /\ Goto(r, "accepted")
  \/ /\ ~ Caused(Batch[r]) /\ Caused(<<The(r)>>)
     /\ mem' = Commit(<<The(r)>>) /\ Goto(r, "failed") /\ UNCHANGED <<disk, published>>

\* A seeded fault: the file is written in place, and a write that fails has emptied it.
AppendManyAtomicInPlace(r, strict) ==
  \/ Caused(Batch[r]) /\ mem' = Commit(Batch[r]) /\ Persist(mem'.events)
       /\ Publish(Batch[r]) /\ Goto(r, "accepted")
  \/ /\ Caused(Batch[r]) /\ strict /\ Goto(r, "failed")
     /\ file' = <<>> /\ UNCHANGED <<mem, published, blind, forgotten>>

\* appendManyAtomic; strict: a failing write of the file throws, and all is restored.
AppendManyAtomic(r, strict) ==
  \/ /\ Caused(Batch[r])
     /\ mem' = Commit(Batch[r]) /\ Publish(Batch[r]) /\ Goto(r, "accepted")
     /\ Persist(mem'.events) \/ (~ strict /\ UNCHANGED disk)
  \/ /\ Caused(Batch[r]) => strict
     /\ Goto(r, "failed") /\ UNCHANGED <<mem, disk, published>>

AppendBatch(r) ==
  /\ pc[r] = "idle" /\ r \notin Single
  /\ AppendManyAtomic(r, TRUE)
  /\ UNCHANGED <<last, seen, booted, restarts>>

-----------------------------------------------------------------------------
(***************************************************************************)
(* EventStoreEnforcementWrapper.append.  Between two awaits other calls    *)
(* run: calls made together (Promise.all) interleave here, and a tracker   *)
(* that does I/O widens the gap.                                           *)
(***************************************************************************)
Alone(r) ==
  \A q \in Single : Number[The(q)] > 0 /\ Stream[The(q)] = Stream[The(r)]
                      => pc[q] \notin {"read", "checked"}

\* A seeded fault: no last sequence is read as -1.
AuditMinus(r) ==
  /\ pc[r] = "idle" /\ r \in Single
  /\ Goto(r, "read") /\ seen' = [seen EXCEPT ![r] = last[Stream[The(r)]] - 1]
  /\ UNCHANGED <<mem, disk, last, published, booted, restarts>>

\* The audit enforcer; the events of deny() lack command_id and the names it looks for.
Audit(r) ==
  /\ pc[r] = "idle" /\ r \in Single
  /\ Overlap \/ Number[The(r)] = 0 \/ Alone(r)
  /\ IF r \in Denials THEN Goto(r, "refused") /\ UNCHANGED seen
     ELSE /\ Goto(r, IF Number[The(r)] = 0 THEN "checked" ELSE "read")
          /\ seen' = [seen EXCEPT ![r] = last[Stream[The(r)]]]
  /\ UNCHANGED <<mem, disk, last, published, booted, restarts>>

\* The ordering enforcer, after getLastSequence answered.
CheckOrder(r) ==
  /\ pc[r] = "read"
  /\ IF Number[The(r)] = seen[r] + 1
       THEN Goto(r, "checked") /\ last' = [last EXCEPT ![Stream[The(r)]] = Number[The(r)]]
       ELSE Goto(r, "refused") /\ UNCHANGED last
  /\ UNCHANGED <<mem, disk, seen, published, booted, restarts>>

AppendInner(r) ==
  /\ pc[r] = "checked"
  /\ AppendManyAtomic(r, FALSE)
  /\ UNCHANGED <<last, seen, booted, restarts>>

\* load puts the file in place, or an error of the read or of the parser is caught:
\* the store starts empty beside a file it has not seen.
Load ==
  \/ /\ mem' = [events |-> file, sequence |-> Len(file),
                index  |-> [k \in Keys |-> Filter(file, FiledUnder(k))]]
     /\ booted' = Len(file) /\ blind' = FALSE
  \/ /\ file # <<>>
     /\ mem' = Empty /\ booted' = 0 /\ blind' = TRUE

\* The process stops and starts: the constructor loads the file.
Restart ==
  /\ restarts < MaxRestarts /\ restarts' = restarts + 1
  /\ Load
  /\ last' = [a \in Streams |-> 0]
  /\ pc' = [r \in Requests |-> IF pc[r] \in {"read", "checked"} THEN "lost" ELSE pc[r]]
  /\ UNCHANGED <<file, seen, published, forgotten>>

Step(r) == AppendBatch(r) \/ Audit(r) \/ CheckOrder(r) \/ AppendInner(r)
Next == (\E r \in Requests : Step(r)) \/ Restart
Spec == Init /\ [][Next]_vars

-----------------------------------------------------------------------------
TypeOK ==
  /\ mem.events \in Seq(Ids) /\ mem.sequence \in Nat
  /\ mem.index \in [Keys -> Seq(Ids)]
  /\ file \in Seq(Ids)
  /\ last \in [Streams -> Nat] /\ seen \in [Requests -> Nat]
  /\ pc \in [Requests -> Answered \cup {"idle", "read", "checked", "lost"}]
  /\ published \subseteq Ids
  /\ booted \in 0..Len(mem.events) /\ restarts \in 0..MaxRestarts
  /\ blind \in BOOLEAN /\ forgotten \subseteq Ids

\* getByAggregate, getByCorrelation and the causation graph show what the log holds, in
\* its order, and the counter counts it, after failed batches and reloads too.
IndexesMatchLog ==
  /\ mem.sequence = Len(mem.events)
  /\ \A k \in Keys : mem.index[k] = Filter(mem.events, FiledUnder(k))

\* "callers do not observe partial event batches" (eventStore.ts:244-246): a batch is in
\* the log in one piece, or none of it is, in memory and in the file.
WholeBatches ==
  \A r \in Requests : \A log \in {mem.events, file} :
    \/ Range(Batch[r]) \cap Range(log) = {}
    \/ \E n \in 0..Len(log) - Len(Batch[r]) : SubSeq(log, n + 1, n + Len(Batch[r])) = Batch[r]

\* appendManyAtomic returns when its events are in the file, and they stay, but for a
\* store that could not load the file and replaced it; when it throws, none of them is
\* anywhere.
BatchAnswerIsTrue ==
  \A r \in Requests \ Single :
    /\ pc[r] = "accepted" => Range(Batch[r]) \subseteq Range(file) \cup forgotten
    /\ pc[r] = "failed" =>
         Range(Batch[r]) \cap (Range(mem.events) \cup Range(file) \cup published) = {}

\* Nothing is on file that the store does not show, in the same order, unless the store
\* could not load the file.
FileIsShown == blind \/ IsPrefix(file, mem.events)

\* The cause of every event but the first is an earlier event of the log, in memory and
\* in the file that a restart loads without validating it.
CausationClosed ==
  \A log \in {mem.events, file} : \A i \in 2..Len(log) :
    Cause[log[i]] = Root \/ \E j \in 1..i-1 : log[j] = Cause[log[i]]

(***************************************************************************)
(* INV-001: the file is rewritten as a whole each time, and no write,      *)
(* failing write, restored batch or restart loses or reorders what it      *)
(* held.  The one exception is the first write of a store whose load       *)
(* failed: load() warns and goes on, and the file is replaced.             *)
(***************************************************************************)
FileOnlyGrows == [][IsPrefix(file, file') \/ blind]_vars

\* Where the log has the numbered events of a stream that this process appended.
Numbered(a) ==
  {n \in booted + 1..Len(mem.events) : Stream[mem.events[n]] = a /\ Number[mem.events[n]] > 0}

\* INV-007 (EventOrderingEnforcer.ts:5-7): the sequences a process lets into a stream grow
\* strictly, whatever batches and appends without a number come in between; one is missing
\* only where the append that the enforcer had let through failed in the store.
SequencesInOrder ==
  \A a \in Streams : \A n \in Numbered(a) :
    /\ \A m \in Numbered(a) : m < n => Number[mem.events[m]] < Number[mem.events[n]]
    /\ \A i \in 1..Number[mem.events[n]] - 1 :
         \/ \E m \in Numbered(a) : Number[mem.events[m]] = i
         \/ \E r \in Single : pc[r] = "failed" /\ Stream[The(r)] = a /\ Number[The(r)] = i

(***************************************************************************)
(* What the store shows, what it has on file and what its callers were     *)
(* told agree: the indexes and the counter with the log, the file with the *)
(* log unless it could not be loaded, each batch whole or absent, every    *)
(* answer true, every cause before its effect, and the numbers of a stream *)
(* in order.                                                               *)
(***************************************************************************)
StoreMatchesFile ==
  /\ IndexesMatchLog /\ WholeBatches /\ BatchAnswerIsTrue /\ FileIsShown
  /\ CausationClosed /\ SequencesInOrder
=============================================================================
