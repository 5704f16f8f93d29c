# SOVR Protocol: TLA+ verification

TLA+ models of the SOVR Protocol: of its runtime (`src/packages/runtime/src`), its compiler
(`src/packages/compiler/src`) and the scripts of its ledger genesis (`src/scripts`); the TLC
configurations that check them on small instances; and TLAPS proofs of what matters most for
every value of the constants.

All paths below are relative to `src/`; `runtime/` stands for `packages/runtime/src/`,
`compiler/` for `packages/compiler/src/`.

1. [The system](#1-the-system)
2. [Modules and how they correspond to the code](#2-modules-and-how-they-correspond-to-the-code)
3. [What is checked](#3-what-is-checked)
4. [What is proved](#4-what-is-proved)
5. [Where the code and its documents disagree](#5-where-the-code-and-its-documents-disagree)
6. [What is not modelled](#6-what-is-not-modelled)
7. [Plan](#7-plan)

## 1. The system

A corpus of YAML documents (`01_constitution.yaml` to `acceptance-tests.yaml`) describes
commands, events, state machines, projections, sagas and invariants. A compiler turns it into
JSON registries (`generated/registries`: 118 commands, 292 events, 47 machines, 57
projections). The runtime executes commands against those registries: it decides whether an
actor may issue one, plans the state transitions and events, commits both, and hands the
events to read models, rails, sagas and subscribers. Beside it stand a second, older write
path (orchestration and agents), used by tests only, and a TigerBeetle ledger that scripts
bring to life once, under a ceremony of documents and approvals.

The process is one Node.js event loop. Nothing runs in parallel, but every `await` lets
another request run, so the unit of atomicity is the code between two awaits. State is
either in memory (gone with the process) or in the event store (a JSON file or
PostgreSQL), on the ledger, or in files that one tool writes and another reads. That is where
the hard behaviour comes from: interleaving at awaits, state read before an await and used
after it, a crash between a durable write and the change in memory that belongs to it, an
acknowledgement that is lost, a call that outlives its timeout, a document that was true when
it was written.

### Inventory

**Command kernel** (`runtime/execution/kernel-executor.ts`, `atomic-commit.ts`,
`state-registry.ts`). State: the registry (current state and history per
`domain:aggregate:id` key), in memory. Operations: `execute` (gates, plan, commit),
`AtomicCommit.execute` (prepare, set states, append, roll back), `rebuildFromEvents` at
boot. Hard: the registry is shared and written before the append is durable; nothing
serialises commands on one aggregate; a rollback must undo exactly its own writes; a
rebuild orders by millisecond. Correct when answers, log, registry, history and the
declared machines agree.

**PostgreSQL event store** (`runtime/adapters/postgres-event-store.ts`). State: the events
table. `appendManyAtomic` is one transaction. Hard: an error after the server has
committed. Correct when a batch is all or nothing and its answer says which.

**JSON event store** (`runtime/server/eventStore.ts`) **with its enforcement wrapper**
(`runtime/execution/EventStoreEnforcementWrapper.ts`, `EventOrderingEnforcer.ts`,
`AuditTrailEnforcer.ts`). State: events, sequence counter, three indexes, a file replaced
by rename, a sequence tracker. Operations: `append`, `appendManyAtomic`, load, persist,
the publisher. Hard: a batch that fails half way, a write of the file that fails, a
restart, the tracker read and written around an await. Correct when indexes match the log,
batches are whole, causes precede effects and nothing durable disappears.

**Authority** (`runtime/server/commandBus.ts`, `capabilityEngine.ts`,
`runtime/execution/AuthorityBoundaryEnforcer.ts`, `CapabilityBoundaryEnforcer.ts`). State:
grants and revocations per actor, a cache of answers, all in memory. Operations: `submit`
with its gates, `check`, `grant`, `revoke`, the seeding of sessions, and the
materialisation of committed grants and revocations. Hard: three looks at the grants with
awaits in between, a cache of 300 s, an effect carried out after its commit, a restart
that forgets. Correct when nothing is committed without a grant, a revocation holds, and
only governance grants.

**Gates, machines and guards** (`runtime/execution/ExecutionGateEnforcer.ts`, `gates/`,
`state-machine-interpreter.ts`, `vel-parser.ts`, `vel-ast-evaluator.ts`). State: a state per
aggregate in memory; what evaluators look at (balances, limits, approvals, holds, the clock) is
elsewhere and changes. Hard: each gate is awaited, missing facts and missing evaluators, guards
that do not parse. Correct when what passed satisfied every gate that calls itself fatal, and no
guard passes for want of a fact unless it negates.

**Rail drivers** (`runtime/adapters/base/BaseRailDriver.ts`, `adapters/BoundaryEventBus.ts`,
and thirteen drivers with their registry under `adapters/`). State: a circuit breaker per rail;
a token for one. Operations: `submit` with retries, a timeout race and the breaker; the
translation of a result into a `payment.rail.*` command; status queries. Hard: a timeout
does not cancel the call, so an old call may take effect while a new one is awaited; many
payments share one breaker; callers submit again; a driver may take an answer for what it is
not. Correct when a payment executes once and what is said of it is true of the rail.
`AchAdapter` has a breaker of another kind (`adapters/circuit-breaker.ts`).

**Projections** (`runtime/server/projectionEngine.ts`, `runtime/projections/*.ts`). State:
seventeen kinds of read model in memory and a query cache. Operations: `handleEvent`,
`query`, `rebuildFromGenesis`. Hard: events are handed over after awaits, so not in log
order; a rebuild takes another path than the incremental update; cached answers. Correct when
a model is what a replay of the log would give and an answer is not too old.

**Sagas** (`runtime/execution/saga-interpreter.ts`, `saga-registry.ts`). State: instances in
memory. Operations: `start` runs the steps through the command bus, `compensate` undoes
the completed ones in reverse. Hard: refused compensations, lost acknowledgements, a saga
event that cannot be appended, a crash under way. Correct when effects are undone in
reverse, each once, and COMPLETED and COMPENSATED mean what they say.

**HTTP server** (`runtime/server/index.ts`, `boot/`, `config`, `server/auth`,
`middleware`). State: the boot, the JWT key, the limiter's memory. Operations: a boot of
eight steps that must fail closed, session and token, limiter, the routes that hand commands
to the bus. Hard: any step of the boot may fail, tokens outlive the process and the session,
a token is verified twice. Correct when production never listens without what it owes, and
nothing is done for a caller without a session.

**Publishers and DID service** (`runtime/server/index.ts:272`, `publisher/`,
`identity/did-service.ts`). The store calls the publisher for each event and waits for none.
Hard: order, loss at a restart, keys of one boot.

**Orchestration** (`runtime/orchestration`): workflow engine, coordinator with router, policy
gateway and dispatcher, an event store of its own chained by hashes, four domain stores.
**Agents** (`runtime/agent`): intents, plans, missions, an executor. Hard: workflows, direct
commands and rules interleave; two runners on one mission. Correct when reports, stores,
balances and chain agree.

**Genesis** (`runtime/ledger/tigerbeetle`, `scripts/*phase10*`): accounts and one transfer,
created by a ceremony or a script, attested, locked, enabled and tested by others, each of
which reads documents the last one left. Hard: a run dies between two calls and is taken up
by another; a reset; certificates older than the ledger. Correct when a genesis is whole and
the papers tell the truth about the ledger.

**Compiler** (`compiler/`): twenty passes in the order of a registry, a second run for
determinism, artifacts written one by one, package, verify, boot. Hard: the tree is read
several times and may be edited, the process may stop between two files. Correct when what is
published was checked, is of one build, and is what a boot attests.

### How the parts interact

```
 YAML corpus --- Compiler ---> generated/registries, manifest, certificate --- boot
                                      |
HTTP (Server: session, token, limiter) | agents / sagas
        | submit(envelope)
   CommandBus  -- gates: identity, capability (CapabilityEngine.check), policy
        | execute
   KernelExecutor -- AuthorityBoundaryEnforcer, ExecutionGateEnforcer, capability again, machines
        | plan: StateRegistry.hasState / getState, machine lookup
        | AtomicCommit: setState*, appendManyAtomic, rollbackState*
        v
   Event store (JSON file or PostgreSQL) -- publisher: DIDService, sockets, Kafka, Redis
        | events of an ACCEPTED command
   CommandBus: materializeAuthorityEffects -> CapabilityEngine.grant / revoke
        |      ProjectionEngine.handleEvent -> read models
        v
   BoundaryEventBus -> BaseRailDriver -> driver -> rail; result -> payment.rail.* command

 WorkflowEngine -> TransactionCoordinator -> router, policy, dispatcher (its own store)
 scripts of phase 10 -> TigerBeetle; documents under governance/ and generated/
```

The calls are ordinary asynchronous calls; there is no queue. What connects the models is
therefore what one component may assume of the answer of another. `CommandKernel`
establishes that an answer matches the log, except when an acknowledgement is lost;
`Authority` takes the kernel's commit as one step, `Saga` and `Projections` take commands
as atomic and keep the lost acknowledgement as a constant of their own; `Server` takes the
bus as something that accepts or rejects. `RailAdapters` says which answers the drivers of
`RailDriver` can give.

## 2. Modules and how they correspond to the code

| Module | Models | Steps are |
| --- | --- | --- |
| `CommandKernel` | the write path: plan, atomic commit, registry, rebuild | one per awaited call of `KernelExecutor.execute` and `AtomicCommit.execute` |
| `AtomicCommand` | the abstract specification of a command: one instant, all or nothing | `Execute`, `Accept`, `Reject` |
| `RailDriver` | `BaseRailDriver.submit`, the breaker, the bus translation, the rail as environment | one per await of `submit`, plus the rail's own decisions |
| `RailAdapters` | the thirteen drivers of the registry: what each makes of an answer, keys, tokens, opening hours, status words | one per call of the rail and its answer, exception, timeout |
| `AchRail` | `AchAdapter` behind the generic `CircuitBreaker` | begin and end of each call |
| `Authority` | `CommandBus.submit`, `CapabilityEngine`, the boundary, the effects | one per look at the grants, the commit, the effect |
| `Gates` | the enforcer over the gates a command declares, eight evaluators, a changing world | one per gate and per awaited event |
| `Machines` | the state machine interpreter, VEL parser and evaluator | one per transition |
| `Projections` | `ProjectionEngine` and four read models | commit, hand-over of a command's events, query, restart |
| `ReadModels` | the other thirteen read models, one reducer each | commit, hand-over, midnight, restart |
| `Saga` | `SagaInterpreter`, `SagaRegistry` | one per submitted command and appended saga event |
| `EventLog` | `EventStore` behind its wrapper and the two enforcers | `appendManyAtomic` is one step; `append` has one per await |
| `Server` | boot, sessions, tokens, limiter, routes | one per step of the boot and per await of a request |
| `FanOut` | the publisher callback: DID service, sockets, Kafka, Redis | one per await of the callback |
| `Orchestration` | intents, workflows, coordinator, rules, chained store | one per step of a workflow |
| `Domains` | treasury, vaults, payments, agents of `orchestration/domains` | one per method |
| `Agents` | intents, plans, `MissionRuntime`, `MissionExecutor` | one per step awaited |
| `Genesis` | the write ceremony and the scripts of phases 10D to 10E.10 | one per call of the ledger or document written |
| `Compiler` | passes, compile, verify, package, boot | one per pass, run and file written |
| `History` | `EventLog` and `Saga` side by side | a step of either |
| `OrchestrationLayer` | `Orchestration`, `Domains` and `Agents` side by side, and what their constants are | a step of one of them |
| `PlatformLayer` | `RailAdapters`, `Gates`, `Server`, `FanOut` and `AchRail` side by side, and what their constants are | a step of one of them |
| `MC*` | instances of these for TLC | |
| `Lists` | `Filter` and `Total` (a sum) of lists, as recursive functions a proof can look into | |
| `CommandKernelProofs`, `AuthorityProofs`, `ProjectionsProofs`, `HistoryProofs`, `GenesisProofs`, `OrchestrationProofs`, `PlatformProofs` | theorems and proofs about the module of that name (`OrchestrationProofs`: about `OrchestrationLayer`; `PlatformProofs`: about `RailDriver` and `PlatformLayer`) | |
| `ListsProofs` | induction over numbers and lists, and what `Filter` and `Total` return | |

The data is abstract: a command is a model value with the sequence of events it emits, an
envelope has only the fields the decisions read, payloads and names carry no content.
What a command does comes from the registries: the machines and batches of
`MCCommandKernel`, the events of `MCProjections` and the step shapes of
`MCHistory` are fragments of `generated/registries`.

### CommandKernel

`registry` and `history` are `StateRegistry.states` and `.history`; `log` is the event
store; `plan`, `prepared`, `written` and `stamp` are locals of an execution, and `pc` says
before which await it stands.

| Action | Code |
| --- | --- |
| `Admit`, `Refuse` | `execute` up to planning; every gate reads no registry state and ends in REJECTED |
| `PlanProbe`, `PlanFetch`, `PlanDone` | `findTransition`: await `hasState`, then await `getState` and look up, or throw |
| `PrepareProbe`, `PrepareFetch`, `PrepareDone` | `AtomicCommit.prepare`, one entry per key |
| `SetState`, `WriteDone` | phase 2, one awaited `setState` per planned transition |
| `Stamp`, `Commit`, `Reply` | `appendManyAtomic`: envelopes stamped, batch durable, promise resolved |
| `AppendFails`, `Rollback`, `RollbackDone` | phase 4, the prepared keys in reverse order |
| `Restart` | the process dies anywhere; `rebuildFromEvents` |

Three constants say in which circumstances a run or a theorem is meant: `Overlap`
(commands on a common aggregate may be in flight together: the code does not prevent it),
`FineClock` (two batches never share a millisecond: the code does not ensure it) and
`AckMayBeLost` (COMMIT may take effect and be reported as an error).

### AtomicCommand

The abstract specification: `Execute` moves every aggregate of a command along a declared
transition at one instant, `Accept` and `Reject` tell the caller. `CommandKernel!IsAtomic`
maps the state of an aggregate to what the log says of it, the set of executed commands to
those with an event in the log, and the answers to those given.

### RailDriver

`circuit`, `failures` and `cooled` are the three fields of the breaker, the last one as
whether `circuitBreakerResetMs` have passed. `calls[p]` is the sequence of calls of
`submitToRail` for payment `p` with what became of each: a call is `sent` until the rail
executes, refuses or repeats it or it is dropped, whether or not anyone waits for it. `Submit` is
`submit` with `checkCircuit` up to the first await; `AnswerSubmitted`, `AnswerRejected` and
`AnswerUnknown` are the branches on the outcome; `Fail` is a timeout or an exception,
`Retry` the next turn of the loop, `Dispatch` is `translateResultToCommand`. `Key` is the
`Idempotency-Key` the driver sends with a call, `payload.commandId` at every attempt and at
every resubmission. `Idempotent` says that the rail honours it: such a rail decides once per
key, so that two calls under different keys are two payments to it and at-most-once is the
driver's doing. `RejectsUnsent` says that a concrete driver answers REJECTED without the
rail's decision on the call.

### RailAdapters and AchRail

`registered` is what the registry bootstrap registers in an environment of keys and
credentials. A submission is the loop of `BaseRailDriver` over one driver; `requests` is what
it has sent, with what the rail made of each; `Readings` has each driver's reading of an answer
(`Classify`) and `StatusMaps` its reading of a status word. The rail (`Take`, `Progress`) executes a
request once per key and moves on by itself. `AchRail` has the calls of `AchAdapter` that are
in flight; `late` remembers that a success came while the breaker was OPEN.

`PlatformLayer` lets each of the two, of `Gates` and of the two modules of the server take a step
at any time. They share no state: a driver is called by the bus, a gate by the kernel, a
publisher by the store, each with what it is given.

### Authority

`grants[a]` is the list of an actor's grants, numbered in list order because the boundary
takes the first match; `Anyone` is the key `*`. `Gate` is `submit` up to the kernel
(`CapabilityEngine.check` with its cache and the session grant), `Boundary` is
`AuthorityBoundaryEnforcer.check`, `Recheck` is `KernelExecutor.capabilityCheck`, `Commit`
and `Fails` stand for the rest of the kernel, `Effects` is
`materializeAuthorityEffects`. `Init` and `Restart` leave what the constructor leaves:
`rebuildFromStore` runs before the grant store is assigned. `Root` is the actor id
`governance`, for which the seeded `governance.*` matches every capability. `since` and `earlier` are
history variables for the properties. `orderly` is chosen in `Init` and never changes: it says
that the callers submit one grant or revocation at a time and that the process does not stop.

### Gates and Machines

The enforcer is given `execution_gates` as the command declares them: the registries carry the
list as it was written (`generators/registries.ts:126`) and the kernel hands it over
(`kernel-executor.ts:173`). So a gate without `fatal` only warns (`Fatal`), and one without the
configuration of its type is judged without it (`complete`, `Incomplete`). `Check` begins a
check, `EvaluateGate` awaits one evaluator, `Emit` the event of a failure, `UnknownGate` meets a
type without evaluator; `Change` moves the world between any two of them and `Book` is the
booking, which the code leaves to others. In `Machines`, `ParseExpression` is `VELParser` on the
words of a condition, to its depth of nesting, `EvalAst` is `VELASTEvaluator`,
`TransitionAggregate` and `ResetAggregate` are the interpreter's.

### Projections and ReadModels

Four read models are in `Projections`, one for each way a read model is written: a record per
aggregate merged last-write-wins (`generic-event-projection.ts`), a record per event
subscribed to `*` (`audit-timeline.ts`), a status per key that makes an entry for any event
(`payment-status.ts`), a counter cut off at 0 (`treasury-dashboard.ts`). `Dispatched` is the
incremental path (`handleEvent` of the engine, which filters by subscription), `Taken` the
one of `buildFromGenesis`, which does not. `Commit` makes a command's events durable and
`Project` hands them over; in between the command is `open`, and `lost` when the commit
threw although it was durable. `overlap` is chosen in `Init`: commands take turns (`none`),
overlap on different aggregates (`apart`) or in any way. `query` is modelled for the timeline,
whose answer is the set of the events it has.

`ReadModels` has a reducer for each of the other thirteen (`PortfolioAfter` and so on), with
the same two ways of feeding it. `model` is the incremental state; `Rebuilt` what
`buildFromGenesis` would make of the log now. The order of the events of one aggregate is
that of the machines (`MayFollow` of `MCProjections`).

### Saga and EventLog

`Saga` has one action per awaited call: `ExecuteStep`, `EmitCompleted`, `EmitFailed`,
`Complete`, `BeginCompensation`, `SkipStep`, `UndoStep`, `EndCompensation`, and `Crash`.
`effects[s]` is what other components hold of a saga's commands; `completed`, `failed` and
`undone` are the lists of the instance. A step may have a command, a compensation, both or
neither.

In `EventLog`, `mem` is the store (events, counter and indexes), `file` the JSON file.
`AppendBatch` is `appendManyAtomic`, one synchronous step; `Audit`, `CheckOrder` and
`AppendInner` are `EventStoreEnforcementWrapper.append`, which awaits between the enforcers
and the inner append. `Persist` replaces the file. `Restart` runs `Load`, which takes over what
is on file without validating it, or fails: the error is caught and the store starts empty
beside the file. Two variables are there for the properties alone: `blind`, the store has not
been able to load the file and has not written it since, and `forgotten`, the events of a file
that such a store has replaced.

`History` has the two side by side. What a saga depends on of the store is whether an append
throws and whether an acknowledgement is lost, which are constants of `Saga`, so they share no
variable and each goes on whatever the other does.

### Server and FanOut

`env` is the environment the process finds; `Phases` are the steps of `bootKernel` and
`buildServer`, each of which may throw (`Throws`), by what is missing or by bad luck
outside. `jwt` is the key of the boot: of the environment, or drawn anew. `SessionCreate` and
`Sign` are the two sides of the await in the session route, `Receive`, `LimitRequest` and
`Handle` the preHandler, the limiter and the handler of the other routes; `sessions` are the
`identity.session.create` commands the bus accepted, of which no event is kept, `submitted` is
what reached the bus and `passed` what the limiter let through. In `FanOut`, `jobs[n]` is how far
the callback of event `n` is; `Told` is the local bus.

### Orchestration, Domains and Agents

`Start`, `NextStep` and `End` are `WorkflowEngine.execute` around its awaits; a step is
`TransactionCoordinator.execute` as a whole, because it runs without an await of its own.
`ChangeRules` is the policy gateway's `addRule` and `removeRule`. `store` is the chained
event store, `txlog` the transaction log. `Domains` has one action per method; its `log` is
the domain's. `Agents!RuntimeExecute` is one step, for `MissionRuntime.executeMission` has no
await; `Begin` and `StepDone` are the executor's loop around `invokeDomainHandler`.
`OrchestrationLayer` lets each of the three take a step at any time; they share no state, since
the coordinator calls no domain and the agents hand their commands to nobody.

### Genesis

`account[a]` and `transfer[t]` are 0 or the run that created them; `script` is the program at
work and the call it stands before; `file` the documents, `signed` the approvals of the
operator, `era` the formats of the data file. `Crash` ends a script between any two of its
calls. `plan` says which scripts and how many runs a behaviour may have (a bound).

### Compiler

A tree is a function from documents to contents, so a hash is the content itself. `run` is a
compile under way: the tree it has read (`ctx`), the passes still to do (`todo`) and the
diagnostics; `StartRun`, `Turn`, `Passed` and `Unless` are `PassRunner`, `Pass001` to
`Pass020` the handlers, `ValidateReferences` the loops of `validate.ts`. `RunIsolatedCompile`
is the second run, `Identical` the comparison, `WriteFile` the artifacts one by one,
`Bundled` what `package` finds, `RunPOST`, `Tampered` and `RunBootSequence` the boot.
`BusCovers` is how `CommandBus` reads the registry it is given.

## 3. What is checked

Run TLC from this directory, for example
`tlc -workers 2 -config KernelSettlement.cfg MCCommandKernel`.

| Run (config, module) | States | Shows |
| --- | --- | --- |
| `KernelSettlement`, `MCCommandKernel` | 16 k | while commands on one aggregate do not overlap, the registry is what a rebuild gives (`StateMatchesLog`), transitions chain and rollbacks leave no phantom history (`LogIsOneChain`), and the write path implements `AtomicCommand` (`IsAtomic`) |
| `KernelOverlap`, `MCCommandKernel` | 28 k | what survives free overlap: `AnswerMatchesLog`, `LegalTransitions`, and every command ends |
| `KernelOverlapState`, `MCCommandKernel` | violated | what does not: `StateMatchesLog` |
| `Rail`, `MCRailDriver` | 247 k | breaker and count agree, "submitted" is true of the rail, a payment executes once over resubmissions and crashes, a rejection by the rail stands, every submit is answered |
| `RailOpenRetry`, `MCRailDriver` | violated | a resubmission refused by the open circuit is dispatched as rejected (`RejectedIsTrue`) |
| `Authority`, `MCAuthority` | 305 k | nothing is committed without an unexpired grant and only governance grants; a revocation holds, the engine follows the log and no entitled command is denied |
| `Projections`, `MCProjections` | 1.2 M | what the seventeen read models show is what a rebuild gives, for what is not withheld from them (`ReadModelsFollowLog`); an answer lacks nothing that had been projected for the lifetime of a cache entry |
| `History`, `MCHistory` | 699 k | indexes, batches, answers, causes and numbers agree with the log and its file, which only grows unless a restart could not load it; effects of sagas are undone in reverse and once, COMPLETED and COMPENSATED mean what they say, every saga ends |
| `Genesis`, `MCGenesis` | 1.3 M | a complete genesis is the work of one run (`CompleteByOneRun`); a policy is enabled only over a whole genesis, and a certified pipeline has moved its unit itself (`PapersTellTrue`) |
| `GenesisLock`, `MCGenesis` | violated | a lock certificate of another transfer than the genesis (`LockedIsGenesis`) |
| `Orchestration`, `MCOrchestration` | 235 k | a workflow left in the store the steps it reports, the store is one chain and its accepted commands the transaction log; pools and lifecycles follow their log; dependencies of missions hold under concurrent runners; workflows and executor runs end |
| `Platform`, `MCPlatform` | 637 k | seven parts that share no state, see below |

`Platform` has one property per question and part:

| Property | Says |
| --- | --- |
| `RailsTellTrue` | thirteen drivers, with retries, late and wrong answers: a request with a key executes once, one without at most once for each submission; a result or a status is true of the rail |
| `GatesDecide` | what passed satisfied each gate that calls itself fatal at some moment of the check; the events are those of the checks; an overdraft takes a race |
| `ServerKeepsFaith` | production listens only with what it owes, who acts has a session the bus accepted and a token that had not expired, no window of one boot has more than the limit; subscribers hear each event once, credentials verify as long as their key lasts |
| `BuildsAreSound` | what is published was checked, is of one build, and is what a boot attests |
| `NoWayBack` | a guard is parsed as written, and fails when a fact is missing (unless it negates); an aggregate leaves a final state only by a reset or when its caller names another state; the breaker of `AchAdapter` closes only after its probes |

Where one run has several scenarios or subjects, a variable chosen in the initial state says
which part moves; the parts share no variable, so the run is the union of theirs.
Every run but `Platform` and the two of one violated property has one type invariant; in
`Platform` what a type says is part of the invariant of the part. For every property there is
an operator marked "A seeded fault" beside the definition it would replace: a plausible
slip in the code that the property catches (a dropped rollback, a cache not cleared, a
comparison off by one).

### Bounds, and why they are enough

- *Commands, payments, sagas, calls.* Each is issued a bounded number of times because it
  is an identity: two executions of one kind of command are two commands. Two or three in
  flight are needed for every hazard of interleaving (one that reads, one that
  writes between, one that fails); `KernelOverlap` has three, one of them with two events
  of one aggregate and one of an aggregate without a machine, `KernelSettlement` four, one
  over two aggregates. Crashes are unbounded there: `Restart` is always enabled.
- *RailDriver.* `MaxRetries = 2` is the least for which a retry races a late call;
  `Threshold = 2` opens the circuit within one submit and across two payments. Two scenarios
  (`again`): each payment is submitted once; or the first may be submitted again and the rail
  never comes to the calls of the second, which then only wears down the breaker.
- *RailAdapters.* One driver at a time, since drivers share no state; a command is submitted
  twice where no key is sent (card) and where the rail may close (wire), and its status is
  then not asked for. The number of attempts is the code's.
- *AchRail.* Five calls, two failures to open, two successes to close, time to 2 with a
  timeout of 1: a call from before the opening can end while it is OPEN or HALF_OPEN.
- *Authority.* Two scenarios: `orderly` has authority commands one at a time and holds time
  still, because its question is the order of grants, revocations and looks; the other has
  overlap, restarts, and `MaxTime = 2`, `Ttl = 2` with a grant that ends at 1, so that an
  answer outlives its grant within the cache lifetime. Before the others the
  actor id `governance` tries a session.
- *Gates.* Seven declared lists, the empty one among them, cover every evaluator, with and without
  its configuration, fatal or not, and three sets of registered evaluators; one change of the
  world; two checks at once only where both take funds, which is where they can hurt each other.
- *Machines.* Conditions over two fields up to three operators deep, with a parser that
  goes two deep (the code's limit is larger, its handling of the limit the same); a machine
  with two transitions of one trigger, a guard that does not parse and one out of its final
  state.
- *Projections.* `Ttl = 2`, `MaxTime = 5` in the scenario of the cache lets an entry be made,
  expire and be made anew; one event aside and one restart suffice for an event that one path
  takes and the other does not. `ReadModels`: three events of two aggregates and of events of
  other domains, one restart, one midnight.
- *Saga.* Plans of four steps have every shape of the compiled definitions, two sagas
  interleave, one crash. The store may fail at any append.
- *EventLog.* Two batches of two, one dependent on the middle of the other; numbers 1, 1, 2;
  two restarts, either of which may fail to load the file: a store that replaced the file can be
  started again.
- *Server.* Every environment of the switches the boot reads goes through two boots; requests
  come to a production and a development environment only, in the order of their ids: a
  session, a command, and in production a third of any kind. `Limit = 1`, `Window = 2`,
  tokens of two ticks, time to 3, so that a token expires between the two verifications and
  outlives a boot.
- *FanOut.* Two events, one subscriber, one restart.
- *Orchestration, Domains, Agents.* Two calls, three rules with two changes; two aggregates of
  a kind; two runs of the executor beside the runtime on one mission, planned or given.
- *Genesis.* Three accounts, of which two are the heartbeat's, one id for the pipeline test,
  one format. Two plans of an operator: `OnLedger` has three writing runs, `OnPaper` one run
  and every other script.
- *Compiler.* 41 trees: one that compiles and what may be wrong with it, each through every
  command. At most two commands and three edits. Edits fall between the two readings of a run or
  between two runs, among the documents the properties tell apart; elsewhere a run does not
  look at the tree. Verify is a first command, because it writes nothing.

### Fairness, and why the code justifies it

- `CommandKernel!FairSpec`: weak fairness of `Step(c)`. Every await of the path is a call
  to the in-memory registry or to the store, and a promise of the store settles, by success
  or by failure (`AppendFails` is a step). `Restart` is not fair and not needed.
- `RailDriver`: weak fairness of `Fail`, `Retry` and `Dispatch` of each payment:
  timers fire, and what follows them is local. Nothing is assumed of the rail.
- `Saga`: weak fairness of `Run(s)`: the command bus and the store answer every
  call. `submitCommand` is awaited without a limit, so this is an assumption on the bus
  that `EveryCommandEnds` discharges for the kernel.
- `Orchestration`: weak fairness of `NextStep` and `End` of each call: what is awaited has
  resolved already and the event loop comes to it. `Agents`: weak fairness of `StepDone`: the
  handler is a timer of 10 ms. No other part has liveness properties, and none states fairness.

`CHECK_DEADLOCK FALSE` appears where all work may be done and the process idle. In
`CommandKernel` a restart is always possible, and in `Genesis` a signature, so there the check
is left on and says nothing more.

### Assumptions of the runs

- `KernelSettlement`: no overlap on an aggregate, a fine clock, reliable acknowledgement.
- `Rail`: an idempotency key that is honoured; REJECTED only by decision of the rail.
- `Authority`, scenario `orderly`: one authority command at a time, no expiry, no restart, no
  revocation of a governance actor's own capabilities.
- `Projections`: overlap is a choice of the initial state. With overlap on one aggregate only the
  timeline is compared; one aggregate is counted, because the counter is cut off at 0. For the
  other read models, overlap leaves the fields that do not depend on the order between
  aggregates (`OrderFree`); fields that count foreign events on a rebuild or compare with the
  clock are not compared (`Tainted`).
- `History`: numbered calls for one stream one at a time.
- `Genesis`: one script at a time; documents are written as a whole.
- `Platform`: generators of the compiler are deterministic. An edit during a run excuses what
  is published, unless the second run certified it identical; `PublishedIsSound` then holds it to
  account for up to two edits, because a third can hide the first two from both runs.

Each assumption is a constant of the module or a visible choice in the MC module. What
fails without it is in section 5.

## 4. What is proved

Run `tlapm` on each of the eight `*Proofs` modules, for example `tlapm HistoryProofs.tla`. The
theorems hold for every value of the constants that satisfies the named assumption of the
module, with the extra hypotheses below and nothing else. A hypothesis is a
circumstance the code does not ensure by itself, and each is needed: what fails without it is
in section 5.

| Theorem | Extra hypothesis | Says |
| --- | --- | --- |
| `CommandKernelProofs!TypeCorrect` | | `TypeOK` |
| `CommandKernelProofs!LogIsLegal` | | `LegalTransitions`: every logged transition is one of its machine, under any overlap, failure and crash |
| `CommandKernelProofs!AnswersMatchLog` | `~AckMayBeLost` | `AnswerMatchesLog`, under any overlap and crash |
| `CommandKernelProofs!StateFollowsLog` | `Serial`, `OneTarget` | `StateMatchesLog`: the registry is what a rebuild gives |
| `CommandKernelProofs!LogAndHistoryAgree` | `Serial`, `OnePerKey` | `LogIsOneChain`: transitions chain, the history has one record each |
| `CommandKernelProofs!WritePathIsAtomic` | `Serial`, `OneTarget` | `IsAtomic`: the write path implements `AtomicCommand` |
| `PlatformProofs!TypeCorrect` | | `TypeOK` |
| `PlatformProofs!CircuitFollowsCount` | | `CircuitMatchesCount`: breaker and failure count agree |
| `PlatformProofs!SubmittedWasExecuted` | | `SubmittedIsTrue`: "submitted" only for an executed payment |
| `PlatformProofs!IdempotencyKeySuffices` | | `ExecutedOnce`: with a key that is honoured a payment executes at most once, and with or without it it is called at most as often as its submits had attempts, for any number of retries, submits and crashes |
| `PlatformProofs!RejectedStaysRejected` | `Idempotent`, `~RejectsUnsent` | `RejectionIsFinal`: what was reported rejected never executes |
| `AuthorityProofs!TypeCorrect` | | `TypeOK` |
| `AuthorityProofs!NothingWithoutGrant` | | `CommittedWasGranted`: INV-003 with expiry, cache, overlap and restarts |
| `AuthorityProofs!GrantsComeFromGovernance` | | `OnlyGovernanceGrants`: INV-004 |
| `AuthorityProofs!OnlyEndedGrantsShadow` | | a command is denied only if it is not due, or an ended grant stands before its renewal |
| `AuthorityProofs!NothingDueIsDenied` | `EndTogether` | `DeniedOnlyUnentitled` |
| `AuthorityProofs!RevocationStands` | `GovernorsKeep` | `Revocation`: while `orderly`, engine and log agree and a revocation holds |
| `ProjectionsProofs!TypeCorrect` | | `TypeOK` |
| `ProjectionsProofs!TimelineIsComplete` | | the timeline has every event of a command but the withheld ones, under any overlap |
| `ProjectionsProofs!RecordsFollowLog` | `AsideSilent` | unless commands overlap on one aggregate, records and statuses are those of a rebuild, whatever else overlaps |
| `ProjectionsProofs!ReadModelsAreTrue` | `AsideSilent`, `CounterTurns` | `ReadModelsFollowLog`: the floored counter as well |
| `ProjectionsProofs!AnswersAreFresh` | | `AnswerWithinTtl`, for every lifetime of an entry |
| `HistoryProofs!TypeCorrect` | `PlansAreLists` | `TypesOK` of store and sagas |
| `HistoryProofs!FileGrows` | | `FileOnlyGrows`: INV-001 for the file, but for the first write of a store whose load failed |
| `HistoryProofs!RecordIsTrue` | | indexes, whole batches, answers and causes agree with log and file, under any interleaving and with loads that fail |
| `HistoryProofs!StoreIsTrue` | `~Overlap`, `BatchesUnnumbered` | `StoreMatchesFile`: the numbers of a stream are in order as well |
| `HistoryProofs!SagasTellTrue` | `PlansAreLists` | `SagaOutcomes`: reverse order, nothing undone that was not done, COMPLETED and COMPENSATED are true |
| `OrchestrationProofs!TypeCorrect` | | `TypeOK` of the three parts |
| `OrchestrationProofs!WorkflowsTellTrue` | | `WorkflowsFollowStore`: workflows, store, chain and transaction log agree, for any plans, routes and changes of the rules |
| `OrchestrationProofs!DomainsTellTrue` | | `DomainsFollowLog`: no value is made or lost, none is moved twice, lifecycles are what the log tells |
| `OrchestrationProofs!MissionsTellTrue` | | `MissionsFollowPlan`, for any number of runs on one mission |
| `PlatformProofs!RailsTrue` | | `RailsTellTrue`: no retry executes a transfer twice, results and statuses are true, for any commands, keys and answers of the rails |
| `PlatformProofs!GatesAreDecisive` | | `GatesDecide`: what passed satisfied every gate that calls itself fatal, for any declarations, evaluators and changes of the world |
| `PlatformProofs!ServerFaithful` | | `ServerKeepsFaith`: the boot fails closed, who acts has a session, the limit holds in every window, subscribers hear once, credentials verify |
| `PlatformProofs!BreakerRecoversOnly` | | `AchRail!BreakerRecovers`: how the breaker of `AchAdapter` closes and reopens, however its calls overlap |
| `GenesisProofs!TypeCorrect` | | `TypeOK` |
| `GenesisProofs!CompletedByOneRun` | | `CompleteByOneRun` |
| `GenesisProofs!PapersAreTrue` | | `PapersTellTrue` |

The hypotheses:

- `Serial` is `~Overlap`, `FineClock` and `~AckMayBeLost`: commands on an aggregate take turns,
  no two batches share a millisecond, the store's answer is reliable. `OneTarget`: events of
  one batch on one aggregate that are legal from one state lead to one state. `OnePerKey`: a
  batch has at most one event per aggregate with a machine; with two, a rollback leaves a
  history record behind.
- `Idempotent` and `RejectsUnsent` are constants of `RailDriver` (section 2).
- `EndTogether`: the grants an actor is given of one capability for one scope end together, and
  none ends of the three capabilities the engine gives itself. `GovernorsKeep`: nobody
  revokes the two capabilities a governance actor is seeded with, because its next session
  gives them back.
- `BatchesUnnumbered`: events of `appendManyAtomic` carry no sequence, as no caller in the
  repository gives them one; the sequence enforcer looks at `append` only.
- `AsideSilent`: what is written to the log aside of commands writes no record, is no payment
  event and is not counted. It holds of `unknown.command.received`, and not of every event of a rail
  (section 5). `CounterTurns`: commands do not overlap at all, or only the commands of one
  aggregate are counted. Two counted transfers that are handed over in another order than that
  of the log can leave another count, since the counter is cut off at 0.
- `PlansAreLists`: the plan of a saga is a list of steps, with or without command and
  compensation. It is the type of the compiled definitions.

The assumptions of `OrchestrationLayer` (and likewise of the other modules) say what the
code's types say: `None` is none of the values it stands beside, amounts are integers, the
treasury's two pools are two, and no step of a plan that is handed over has run. Those of
`PlatformLayer` are `RailsAssumption` (about `None`), `GatesAssumption` (a command declares a list
of gates; amounts are integers, missing or no numbers), `ServerAssumption` (bounds and times are numbers, an environment
has a good key, a bad one or none), `FanAssumption` (so has a publisher's) and `AchAssumption` (the
calls of a behaviour are finitely many, the thresholds numbers, the second positive:
`achAdapter.ts:27` has 5 and 2).

The arguments, by the invariant that is inductive where the property is not:

- *Kernel.* `TypeOK` is not inductive: what `Commit` puts into the log has a type only if
  every event of the batch has its row in the plan. `PlanInv` says how far each plan has
  come and that each of its rows is legal for its event; `TypeOK /\ PlanInv` is inductive, with
  one lemma per way a step changes the plan (`AnswerKeepsInv`, `PlanGrows`, `Moves`).
  `FiniteLog` is needed because a rebuild counts history records. `LogIsLegal` follows:
  legality speaks of the machine and the planned `from`, not of the registry, which is why
  it survives any overlap. `AnswersMatchLog` rests on `AnswerInv`, which ties `pc` to the
  positions of the command's events in the log, and `NoOtherCommit`.
- *Kernel, serial.* `SerialInv` says for each key of a command in flight what it read
  (`ReadInv`: the planned `from` and the prepared value are what the log gives) and what it
  wrote (`WriteInv`: registry and log differ exactly by the rows written), for each free key
  that registry and log agree (`FreeInv`), that no two commands in flight share a key (`Apart`)
  and that stamps are above every logged time of their keys (`LogInv`), so that the newest
  record of a key is well defined. `StateFollowsLog` is its consequence; the chain adds that
  the `from` of a record is the `to` of the record before it and that the counter of the
  history counts them, through rollbacks. For the refinement every step is shown to be
  `Execute` (only `Commit` is), `Accept`, `Reject` or a stutter of `AtomicCommand`.
- *Rail.* `Shape` is the part of the type invariant the other proofs need. `CallsChange` and
  `ExecutedChange` say what one step can do to the calls of a payment: add one that is
  `sent`, or decide one that was. `OneKey` says that the calls that carry the key of a call
  are all the calls of its payment, so that with `Idempotent` a call becomes `executed` only
  when none is; `Spent` counts the calls a submit has left in its loop against the attempts
  of all submits. `Backed` says that a result SUBMITTED has an executed call behind it, because
  the rail answers `repeated` only after an execution. `Standing` is the counterpart for
  rejections: no payment is both executed and refused, and a result REJECTED has a refusal.
- *Authority, commits.* The engine is a volatile shadow of the log: `Backed` says that every
  grant not made by the engine itself comes from a committed grant command, `Logged` where a
  command in the log can stand. `BoundaryCovers` turns the boundary's look at the engine
  into `Covered`, a fact about the log, and `Passed` carries it to the commit: the log only
  grows, so whatever happens to the engine meanwhile does not matter. `ByGovernance` says that
  a grant command past the gates has a governance issuer.
- *Authority, denials.* `CacheTrue`: a cached "no" that has not expired is still right, since
  grants come only with a cleared cache. So a gate never denies what is due, and
  what is left is the boundary, which takes the first match: `Shadowed`.
- *Authority, revocations.* `EngineInv`: for each actor and capability the engine holds the
  terms of the grants that stand, those answered after the last revocation; it needs that at
  most one authority command is in flight, so that effects follow the order of the log.
  `RevokedInv`: after a revocation the capability is gone or was granted again.
  `PassedAgain` carries that past the boundary, as `Passed` does, to the commit.
- *Projections.* A rebuild is a fold, so nothing is said of it but what one event does: `ViewShows`
  and `StatusShows` describe a record and a status by the set of events they have taken, the last
  of which wins, and `CountedTo` the counter by how far into the log it has come. Each step of
  either path keeps them for a larger set (`ReplaySteps`, `ReplayShows`), and two records that show
  the same set are one (`OneView`). `OrderInv` is why the sets suffice: what is in hand comes after
  all that was handed over of its aggregate. `HandInv` ties what a command holds to its events
  in the log, `CacheInv` an entry to what had been handed over when it was made.
- *Event log.* `LogInv`: the file is a prefix of the log unless the store could not load it, a
  call not accepted has no event in either or in what was published, each batch is in both in one
  piece or not at all, every cause stands before its effect in both. It holds under any interleaving because
  `appendManyAtomic` does not await. `OrderInv` is about numbers: the tracker is at least every
  number since the boot, and the gaps below it belong to calls that failed.
- *Saga.* `Progress` has seven parts, among them `Counts` (the completed steps are 1 to k),
  `Ordered` (effects ascend, then undoings descend), `Bounded` (where the next one may be) and
  `Undid` (what compensation has left behind is undone or on record as failed). Sagas share
  nothing but the count of crashes, so each step is argued for one saga (`Same` for the rest).
- *Orchestration.* `OrchestrationInv` has for each call the events it left in the store, the
  mutations it left in the transaction log and its entries among the completed (`CallSound`):
  `Reported` says they are those of the steps up to the one it is at, `Closed` that it
  is entered once. `Chained` and `Agrees` are about the store and the log. One lemma says what one
  `executeCommand` adds to each (`Dispatched`), and so no call disturbs another.
- *Domains.* `Balanced`: each pool is what it began with and the sum (`Total`) of what the executed
  requests of the log moved; `OnRecord`: a request is EXECUTED exactly when the log has it once.
  `Tells` has the states of vaults and payments as the last move the log tells of them; payments
  need that their moves are in the order of the lifecycle (`Path`).
- *Agents.* `MissionSound`: what is done of a mission was met, and a planned one that completed is
  all done. `RunSound` is about a run that waits: all before its step is done, if it did
  them itself and was not dry (`Behind`). Every step only takes a mission further (`Further`),
  which keeps both for the other runs (`RunStays`). `RunAll` and `Advance` are recursive functions;
  what they do is said by one lemma each over the positions of the plan.
- *Rail adapters.* `Placed` says where a submission may be by the requests it has sent, and that
  a first answer REJECTED had one request, which was refused. `RanOnce` generalises the
  property to pairs of requests of any two submissions, `Claims` that who is told SUBMITTED, or
  finds its key taken, has an executed request behind it (`BackedRuns`). The tables of
  answers and words are proved to fit what the rail did by cases (`ReadingsAreTrue`, `WordsAreTrue`),
  so the rest of the proof is the same for all thirteen drivers (`GoesOnQuietly`, `OneGoesOn`).
- *Gates.* `Judging` ties `evaluated` to the gates up to `at`; `Held` is the property for the gates
  judged so far, of which a fatal one that failed ends the check; `Calm` says that a check
  nothing came between has seen only the world as it is,
  which is what an overdraft without a race would contradict (`Raced`). `Tells` is about an event
  already emitted, so it must not mention what a later step of its check may change.
- *Server.* `BootInv` has what each phase that is behind has given, so that `FailsClosed` is its
  instance at `up`. `TokensOfSessions` with `Known` carries the accepted session over the await to
  the token and from the token to the command. For the limiter the window is
  the difficulty: `Counted` says that for every `u` in the window that is open the hits in memory
  from `u` on are at least the requests let through from `u` on; the filter that forgets
  old hits keeps it, because a filter after a filter is one filter (`FilterTwice`).
- *Publishers.* `Heard` has the subscriber's list complete, without repetition and in order for the
  events that are past the DID service; `Sent` and `Issued` are the counterparts for brokers and
  credentials. `JobsDue`: a callback that is under way is of this boot, which is why the key a
  credential is signed with is the one of its event.
- *Breaker of AchAdapter.* `AchInv`: not closed and nothing late means failures at the threshold, so
  the next failure opens it; the successes counted since it was half open are at most `probes`.
- *Genesis.* `PapersInv` ties each document to the era it was written in: in that era what it
  says of the ledger stays true, because the ledger only grows (`LedgerGrows`), and after a
  format it says nothing. `ScriptInv` is what a script under way has itself seen or
  created; the two together with `TypeOK` are inductive.

*Induction.* The library's induction theorems take a predicate as a parameter, which the
installed provers cannot instantiate. `ListsProofs` derives from `WFMin`, which speaks of a
set, that a set of numbers has a least element (`Least`) and that a set with 0 and every
successor is all of them; a statement about every list becomes one about the set of lengths for
which it holds. `Filter` in `Lists` is defined through a function on numbers for this reason,
and `AuthorityProofs` uses `Least` for the newest number of a list of grants.

`LayerSpec` and `HistorySpec` let the parts interleave in any way; the runs have some of these
interleavings only, since a run moves one part at a time.

Only model-checked: the liveness properties (`EveryCommandEnds`, `EverySubmitAnswered`,
`EverySagaEnds`, `EverythingEnds`), which are out of the prover's reach; `OtherModelsFollowLog`,
thirteen reducers each of which would need what the four of `Projections` needed;
`BuildsAreSound`, which would need what each of the twenty passes leaves of a tree; and the part of
`NoWayBack` that is about `Machines`, whose recursive operators the provers do not take.

## 5. Where the code and its documents disagree

Three disagreements are runs of their own.

- **`KernelOverlapState`.** `atomic-commit.ts:45` writes the shared registry before the
  awaited append and nothing serialises commands on one aggregate. A command that reads or
  sets the state in between, followed by a failing append and its rollback, leaves the
  registry in a state that the log does not give: `01_constitution.yaml:49`, "No state may
  change without a corresponding event."
- **`RailOpenRetry`.** A payment whose first submit ended UNKNOWN is submitted again while
  the circuit is open. `BaseRailDriver.ts:163` returns CIRCUIT_OPEN and the bus dispatches
  `payment.rail.rejected`, although the earlier call may have executed or still may;
  `:270-271` ask for UNKNOWN in that situation.
- **`GenesisLock`.** `attest-phase10e8.js:195` writes the lock certificate before it verifies
  (`:209`) that the one transfer is 190481. Over the ledger of the runtime's own ceremony,
  whose transfer has the id 1 (`genesis-write-ceremony.ts:62`), the certificate stays and
  `enable-phase10e9.js` accepts it.

Others showed when an assumption of section 3 is dropped, by changing a constant or the MC
module, or while the code was translated.

*Kernel, authority, gates*

- Two events of one aggregate in one millisecond are rebuilt in the order of their random
  `event_id` (`state-registry.ts:209`): `FineClock = FALSE`, `StateMatchesLog` fails.
- An error after COMMIT is taken for a failed append (`postgres-event-store.ts:50`):
  `AckMayBeLost = TRUE`, `AnswerMatchesLog` fails.
- A rolled-back command with two events of one aggregate leaves a history record behind
  (`state-registry.ts:165`).
- The kernel sets `causation_id` to the correlation id (`kernel-executor.ts:402`), where
  `acceptance-tests.yaml:492-495` has the id of the event before.
- Overlapping grant and revoke commands take effect in the order opposite to the log, a
  restart forgets all grants, a session gives a revoked capability back to a governance
  actor, a grant renewed after its expiry stays denied at the boundary.
- The actor id `governance` can commit nothing. Its seeded `governance.*` matches whatever it asks
  for (`capabilityEngine.ts:147`), so it is given no session grant, and the boundary then looks
  for a grant of exactly `identity.session.create` (`AuthorityBoundaryEnforcer.ts:142`). The
  governance actors of the tests have other ids. In the run, its session is never committed.
- `kernel-executor.ts:195` asks `getState(aggregateId, aggregateId)`, a key nothing sets, so
  the sovereignty gate never refuses. Compiled transitions of generated machines have no `from`.
- `GateExtractionPass` would make a gate without `fatal` fatal (`GateExtractionPass.ts:173`) and drop
  and report one it cannot compile, but nothing imports it (`compiler/src/index.ts:9-31`). At run
  time a gate without `fatal` only warns, a quorum without `required` and a window without hours
  let everything pass, and gates carry `gate_id` where the enforcer reads `gateId`. The bus
  registers no evaluators, or two under `SOVR_TEST_XXIII_GATES` (`commandBus.ts:179-184`). The
  generated registries have gates AMOUNT_WITHIN_LIMIT with `fatal: true` only, which without
  evaluator refuse.
- A condition negated by NOT passes for a missing fact, which `MissingFailsClosed` excludes.
- `transitionAggregate` believes the state its caller names, so an aggregate can be moved out
  of a final state; `FinalIsFinal` is about the state that is named.

*Rails*

- Concrete drivers answer REJECTED without the rail's decision: `FedwireDriver.ts:55`, when
  the wire has closed between two attempts, and `StablecoinDriver.ts:72` for whatever is no
  success. `RejectsUnsent = TRUE`, `RejectionIsFinal` fails; `ResultsAreTrue` names both.
- Every submit that finds the breaker HALF_OPEN is let through, where `BaseRailDriver.ts:354`
  speaks of one probe. In `CircuitBreaker`, a success of a call begun before the breaker
  opened forgets the failures, after which a failing probe leaves it HALF_OPEN.

*Read models*

- Projections of overlapping commands on one aggregate are applied in the order of their
  hand-over, not of the log; a rebuilt `payment_status` has entries the incremental one has
  not (`acceptance-tests.yaml:612`); a query may be older than the last event (`:619`);
  events of sagas, rails and unknown commands reach no model before the next boot.
- A rebuild counts foreign events in `currency_breakdown` and `by_currency`;
  `resolved_today` of the governance dashboard depends on the clock of the rebuild; available
  funds and liquidity depend on the order of hand-over.
- `treasury.liquidity.check`, `.allocate` and `hybrid.reorg.*`, which reducers look for, are
  names of no compiled event. `vault_holdings` counts a reserve as locked when it is created and
  again when it is locked, and takes a rejected asset from REGISTERED whatever state it had; a
  funded escrow stays ACTIVE; an escalation is RESOLVED only if the payload names it.

*Sagas and event store*

- A refused compensation still ends in COMPENSATED; a saga whose event cannot be appended,
  or whose process stops, is resumed by nobody; `final_states` of a definition is not read.
- `load` catches any error of the read or of the parser (`eventStore.ts:126-128`) and goes on with
  an empty store; the next write (`:131-143`) replaces the file, and all it held is gone, where
  `:272` says that an event cannot be deleted, by INV-001. The model has the step, and
  `FileOnlyGrows` and `BatchAnswerIsTrue` hold but for it: without `blind` and `forgotten` both
  fail. `CommandKernel` and the modules that read a log take it to be durable.
- `append` swallows a failing write of the file (`eventStore.ts:239`), so an event that was
  published can be gone after a restart. The sequence tracker starts empty after a restart
  and moves on before the inner append, which may fail; two numbered calls made together both
  pass (no caller passes a number). The first event of an empty log may
  name any cause. The audit enforcer refuses the events of
  `AuthorityBoundaryEnforcer.deny`, so denials are in no log.

*Server and publishers*

- `identity.session.create` has no resulting events, so the kernel commits none
  (`kernel-executor.ts:300`, `integration.test.ts:154-167`): after a restart only the token tells of
  the session. The token is verified twice with an await between, and may expire there; tokens
  outlive `identity.session.terminate`. A boot manifest of another build is not refused in production
  and shows in the health only. Staging accepts keys drawn at boot. The limiter's memory ends
  with the process; the global limiter's key generator reads `request.identityContext`, which
  nothing sets.
- An event the DID service holds up is overtaken by later ones, and a crash loses the
  publication of durable events; credentials signed with a key of one boot verify in no other.

*Orchestration and agents*

- Under the routes of `phase10e11.test.ts` a workflow of CREATE_PAYMENT_INTENT fails at its
  first step. A dry run of a chained mission fails every step but the first, and one of a
  single step marks it COMPLETED with its step PENDING. The runtime marks a mission COMPLETED
  although steps FAILED (`mission-runtime/index.ts:79`), which the property excludes for
  planned missions only.

*Genesis*

- `prepare` of 10E.5 never completes, because steps 002 and 005 return false. Gate 005 writes
  `proven_empty` without reading the ledger; a run of one gate overwrites the summary of all.
  The investigation compares a string with a BigInt, so its transfer match always fails. Audit
  10E trusts a ceremony file that a format has made stale. The hash of the write ceremony calls
  `require` (`genesis-write-ceremony.ts:111`) in a package of ES modules: built and run by node it
  throws, and a ceremony that wrote everything is recorded as a failure; under a loader that
  supplies it, it succeeds. The model has both. `execute-phase10e5-genesis.js` and
  `execute-phase10e10.js` ask for no approval.

*Compiler*

- The output of a failed determinism check is written before the command exits with 1;
  `package` bundles what it finds, also what says `identical: false`; a stop between two files
  leaves a mixed set. The lock is verified on one reading of the constitution and the build
  made of a second.
- `boot` compiles anew what it runs but attests the build hash of the manifest; the bootloader
  does not see deleted or added inputs; it exits with 0 when POST or the bootloader fail;
  `final_health` is a constant. The constitution registry reads
  `protocolManifest.constitution.lock_hash` (generators/registries.ts:265), while the check of the
  lock hash reads `protocol.constitution.lock_hash` (index.ts:148); where the manifest keeps it
  under `protocol`, the registry's `hash` stays empty.
- Without a command catalog no machine is validated. A command with a machine that is also
  `lifecycle_exempt` is exempt at the bus without a check of its governance reference. Three
  edits, there, back and there again, can certify a build that no lock covers.

## 6. What is not modelled

- *Parts without state of the protocol*: `TigerBeetleDriver` (its `connect` always throws and
  every operation needs a connection), the SDK, Merkle roots and reconstruction, reserve
  accounting, the simulation runner (it awaits one command after the other), the loaders of
  generated registries, the generators of text and the scripts that write reports.
- *Parts nobody asks*: `SagaCompensationEnforcer` (built, never called), agent policy (nothing
  reads its answer), agent memory and audit (lists that are only appended to), `advance` of the
  saga interpreter, `enforceEvent` and `enforceCapability`, `GateExtractionPass` (imported by nothing),
  `StateSovereigntyEnforcer` (asked about a state that is never set). `ConstitutionalSupremacyEnforcer`
  looks up a name that `CommandBus` has looked up before.
- *Payloads of events.* `buildEnvelope` spreads the payload of the caller
  (`kernel-executor.ts:408-413`). `CommandKernel!NewEvents` takes it to have no field
  `_state_transitions` (or `state_transitions`) of its own: with one, an event without a machine would make a rebuild apply
  what the caller wrote (`state-registry.ts:245-248`), which the registry before the restart did
  not hold.
- *Within modelled parts*: `queryStatus` of the base driver and inbound rail events (a
  read and a stateless translation; `queryRailStatus` of the drivers is in `RailAdapters`),
  payload mapping of sagas, per-grant constraints such as amounts and time
  windows (refusals in `Authority`), queries of the event store (they return what the indexes
  hold), the instruction evaluator (`genericDeclarativeAssertion` always holds, the rest are
  refusals of `CommandKernel!Refuse`), migrations and row mapping of PostgreSQL, read-only
  routes and the global limiter of the server, displays of the boot, amounts that are not
  numbers in the treasury, rates, averages and texts of read models.

## 7. Plan

Done, in the order of importance of what they protect: `CommandKernel` with
`AtomicCommand`, `RailDriver`, `Authority`, `Projections` with `ReadModels`, `Saga`,
`EventLog`; `Genesis`; `Orchestration`, `Domains`, `Agents`; `RailAdapters`, `Gates`,
`Machines`, `Server`, `FanOut`, `AchRail`; `Compiler`; proofs for `CommandKernel` (with the
refinement), `RailDriver`, `Authority`, `Projections`, `EventLog`, `Saga`, `Orchestration`,
`Domains`, `Agents`, `Genesis`, `RailAdapters`, `Gates`, `Server`, `FanOut` and `AchRail`: every
safety property of the runs but `OtherModelsFollowLog`, `BuildsAreSound` and the guards of
`NoWayBack`.

Theorems next:

- `Compiler`: `OneBuild` and `AttestedIsInputs`, from what each artifact on disk was written of.
- `ReadModels`: the reducers that write one record for an aggregate, as `ViewShows` does for the four
  of `Projections`.

Models next: `Gates` in place of `Refuse` in `CommandKernel`, and the drivers of `RailAdapters`
in place of `RejectsUnsent` in `RailDriver`, so that their interplay is checked rather than
argued.
