------------------------------- MODULE FanOut -------------------------------
(***************************************************************************)
(* What becomes of an event after it was appended: the store calls the     *)
(* publisher of the server for each event and waits for none; the          *)
(* publisher lets the DIDService look at it first, then tells the          *)
(* WebSocket subscribers, Kafka and Redis, one after the other.  Brokers   *)
(* and the database answer or fail at any time.                            *)
(***************************************************************************)
EXTENDS Integers, Sequences, SequencesExt, FiniteSets, Functions

CONSTANTS
  Sockets,   \* WebSocket connections
  Names,     \* [name, actor] of events that may be appended
  MaxEvents, MaxBoots, \* bounds
  Configs,   \* [did, kafka, redis, keys]: services that are connected, and whether keys are given
  None

VARIABLES
  config, boot, \* the running server and the number of its boot
  log,       \* the event store: [name, actor, boot]
  jobs,      \* for each event of this boot how far its publisher is
  sockets,   \* for each: [since, filter, got], None when closed; since: events before it connected
  kafka, redis, \* what the brokers have, in the order they got it
  documents, credentials \* tables of the DIDService: [actor, key], and [actor, key, of]

vars == <<config, boot, log, jobs, sockets, kafka, redis, documents, credentials>>

Init ==
  /\ config \in Configs /\ boot = 1
  /\ log = <<>> /\ jobs = <<>> /\ sockets = [s \in Sockets |-> None]
  /\ kafka = <<>> /\ redis = <<>> /\ documents = {} /\ credentials = <<>>

\* getPublicKeyJwk: the keys of the environment, or those drawn at this boot.
PublicKey == IF config.keys THEN 0 ELSE boot

-----------------------------------------------------------------------------
\* LocalBus.on and off, with the filter of the query.
Connect(s, filter) ==
  /\ sockets[s] = None
  /\ sockets' = [sockets EXCEPT ![s] = [since |-> Len(log), filter |-> filter, got |-> <<>>]]
  /\ UNCHANGED <<config, boot, log, jobs, kafka, redis, documents, credentials>>
Close(s) ==
  /\ sockets[s] # None /\ sockets' = [sockets EXCEPT ![s] = None]
  /\ UNCHANGED <<config, boot, log, jobs, kafka, redis, documents, credentials>>

Wants(socket, e) == socket.filter \in {None, e.actor}
Told(n) ==
  [s \in Sockets |-> IF sockets[s] # None /\ Wants(sockets[s], log'[n]) THEN [sockets[s] EXCEPT !.got = Append(@, n)] ELSE sockets[s]]

\* Events the DIDService waits for its tables with.
Identity(e) == config.did /\ e.name \in {"identity.actor.registered", "identity.actor.verified"}

\* publish: the callback runs to its first wait, which for other events is the one of Kafka.
Publish(name) ==
  /\ Len(log) < MaxEvents
  /\ LET e == [name |-> name.name, actor |-> name.actor, boot |-> boot] IN
       /\ log' = Append(log, e)
       /\ jobs' = Append(jobs, IF Identity(e) THEN "did" ELSE "kafka")
       /\ sockets' = IF Identity(e) THEN sockets ELSE Told(Len(log'))
  /\ UNCHANGED <<config, boot, kafka, redis, documents, credentials>>

\* processEvent, which may fail without consequence.  A document replaces the one before it.
CreateDIDDocument(e) == {d \in documents : d.actor # e.actor} \cup {[actor |-> e.actor, key |-> PublicKey]}
IssueVerifiableCredential(n) == Append(credentials, [actor |-> log[n].actor, key |-> PublicKey, of |-> n])
ProcessEvent(n, ok) ==
  /\ jobs[n] = "did" /\ jobs' = [jobs EXCEPT ![n] = "kafka"]
  /\ documents' = IF ok /\ log[n].name = "identity.actor.registered" THEN CreateDIDDocument(log[n]) ELSE documents
  /\ credentials' = IF ok /\ log[n].name = "identity.actor.verified" THEN IssueVerifiableCredential(n) ELSE credentials
  /\ log' = log /\ sockets' = Told(n)
  /\ UNCHANGED <<config, boot, kafka, redis>>

\* A send to Kafka may reach it although it fails; a NullPublisher takes nothing.
Kafka(n, reached) ==
  /\ jobs[n] = "kafka" /\ jobs' = [jobs EXCEPT ![n] = "redis"]
  /\ kafka' = IF config.kafka /\ reached THEN Append(kafka, n) ELSE kafka
  /\ UNCHANGED <<config, boot, log, sockets, redis, documents, credentials>>
Redis(n, reached) ==
  /\ jobs[n] = "redis" /\ jobs' = [jobs EXCEPT ![n] = "done"]
  /\ redis' = IF config.redis /\ reached THEN Append(redis, n) ELSE redis
  /\ UNCHANGED <<config, boot, log, sockets, kafka, documents, credentials>>

\* The process ends with its publishers and connections; nothing publishes the rest later.
Restart ==
  /\ boot < MaxBoots /\ boot' = boot + 1
  /\ jobs' = [n \in DOMAIN jobs |-> IF jobs[n] = "done" THEN "done" ELSE "lost"]
  /\ sockets' = [s \in Sockets |-> None]
  /\ UNCHANGED <<config, log, kafka, redis, documents, credentials>>

Work == \E n \in DOMAIN log, ok \in BOOLEAN : ProcessEvent(n, ok) \/ Kafka(n, ok) \/ Redis(n, ok)
Next ==
  \/ \E s \in Sockets : Close(s) \/ \E f \in {e.actor : e \in Names} \cup {None} : Connect(s, f)
  \/ \E e \in Names : Publish(e)
  \/ Work \/ Restart

Spec == Init /\ [][Next]_vars

-----------------------------------------------------------------------------
\* verifyVerifiableCredential takes the key of the server.
CredentialVerifies(c) == c.key = PublicKey

TypeOK ==
  /\ Len(jobs) = Len(log) /\ \A n \in DOMAIN jobs : jobs[n] \in {"did", "kafka", "redis", "done", "lost"}
  /\ \A s \in Sockets : sockets[s] # None => Range(sockets[s].got) \subseteq DOMAIN log

(***************************************************************************)
(* A subscriber hears of each event it asked for once, and of nothing that *)
(* happened before it came; an event is overtaken only when the DIDService *)
(* held it up.  Brokers may be sent events in another order than the log,  *)
(* but none of them twice.                                                 *)
(***************************************************************************)
SubscribersHear ==
  /\ \A s \in Sockets : sockets[s] # None =>
       LET got == sockets[s].got IN
         /\ IsInjective(got)
         /\ Range(got) = {n \in DOMAIN log : n > sockets[s].since /\ Wants(sockets[s], log[n]) /\ jobs[n] \notin {"did", "lost"}}
                         \cup {n \in Range(got) : n <= sockets[s].since}
         /\ \A n \in Range(got) : n <= sockets[s].since => Identity(log[n])
         /\ \A m, n \in DOMAIN got : m < n /\ got[m] > got[n] => Identity(log[got[n]])
  /\ IsInjective(kafka) /\ IsInjective(redis)

(***************************************************************************)
(* A credential is of an event of the log, one of each; with keys from the *)
(* environment all of them verify after any number of restarts, and of     *)
(* those drawn at a boot only the ones that it issued.                     *)
(***************************************************************************)
CredentialsVerify ==
  /\ \A m, n \in DOMAIN credentials : credentials[m].of = credentials[n].of => m = n
  /\ \A c \in Range(credentials) : CredentialVerifies(c) <=> (config.keys \/ log[c.of].boot = boot)
=============================================================================
