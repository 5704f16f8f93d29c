------------------------------- MODULE Genesis -------------------------------
(***************************************************************************)
(* The genesis of the TigerBeetle ledger: the ceremony of the runtime      *)
(* (GenesisWriteCeremony over TigerBeetleTransport) and the scripts of     *)
(* phases 10D to 10E.10, which read and write the ledger and hand their    *)
(* verdicts to one another as documents under governance/ and generated/.  *)
(* One script runs at a time.  It may die between any two of its calls;    *)
(* the ledger and the documents written so far stay.                       *)
(***************************************************************************)
EXTENDS Integers, FiniteSets

CONSTANTS
  Accounts,   \* the accounts of GENESIS_TRANSACTION_SET.json
  Debit, Credit, \* the two of them every transfer here moves one unit between
  Heartbeat,  \* transfer 190481
  Legacy,     \* transfer 1, the id the runtime's ceremony computes
  Moves,      \* ids the pipeline test may draw
  None,
  Plans,      \* what an operator sets out to do: [scripts, approvals] it uses, and a
              \* bound [runs] on the scripts that write to the ledger
  MaxEras     \* bound on the times the operator formats the cluster

Transfers == {Heartbeat, Legacy} \cup Moves
Approvals == {"genesis", "reset", "write", "operator"}
AllScripts == {"shadow", "gates", "ceremony", "writer", "genesis", "reset", "lock", "enable",
               "pipeline", "audit"}

ASSUME GenesisAssumption ==
  /\ {Debit, Credit} \subseteq Accounts /\ IsFiniteSet(Moves) /\ MaxEras \in Nat
  /\ Plans \subseteq [scripts : SUBSET AllScripts, approvals : SUBSET Approvals, runs : Nat]

VARIABLES
  plan,      \* the plan of this operator
  account,   \* of each account the run that created it, 0: not there
  transfer,  \* likewise of each transfer
  era,       \* how often the cluster was formatted
  run,       \* how many writing scripts were started
  script,    \* the script that runs and where it is
  signed,    \* the approvals that stand in governance/tigerbeetle
  file       \* the documents: of each its content, None: not written

vars == <<plan, account, transfer, era, run, script, signed, file>>

Idle     == [at |-> "idle"]
Present  == {a \in Accounts : account[a] # 0}
Booked   == {t \in Transfers : transfer[t] # 0}
Complete == Present = Accounts
Ledger   == [accounts |-> Present, transfers |-> Booked, era |-> era]
Approved(d) == d \in signed

\* "verdict" is the last of the summaries that no script reads again.
Documents == {"shadow", "attestation", "verdict", "final", "ceremony", "evidence", "reset",
              "lock", "policy", "event", "pipeline"}
Write(d, v) == file' = [file EXCEPT ![d] = v]
At(l)       == script.at = l
Exit        == script' = Idle
Runs(s)     == s \in plan.scripts /\ At("idle")
Unwritten   == UNCHANGED <<plan, account, transfer, era, run>>

Init ==
  /\ plan \in Plans
  /\ account = [a \in Accounts |-> 0] /\ transfer = [t \in Transfers |-> 0]
  /\ era = 0 /\ run = 0 /\ script = Idle /\ signed = {}
  /\ file = [d \in Documents |-> None]

-----------------------------------------------------------------------------
(***************************************************************************)
(* The cluster.  A call creates what is not there yet; the ids it holds    *)
(* already are answered "exists".  A transfer needs both its accounts.     *)
(***************************************************************************)
CreateAccounts(made) == account' = [a \in Accounts |-> IF a \in made /\ account[a] = 0 THEN run ELSE account[a]]
\* A seeded fault: a transfer between accounts that are not there.
CanBookAnything(t)   == transfer[t] = 0
CanBook(t)           == transfer[t] = 0 /\ {Debit, Credit} \subseteq Present
CreateTransfer(t)    == transfer' = IF CanBook(t) THEN [transfer EXCEPT ![t] = run] ELSE transfer

\* The operator edits an approval, or formats the cluster as the reset instructions tell.
Sign(d) ==
  /\ At("idle") /\ d \in plan.approvals /\ signed' = (signed \ {d}) \cup ({d} \ signed)
  /\ Unwritten /\ UNCHANGED <<script, file>>

Format ==
  /\ Runs("reset") /\ file["reset"] = "READY_FOR_RESET" /\ era < MaxEras
  /\ account' = [a \in Accounts |-> 0] /\ transfer' = [t \in Transfers |-> 0]
  /\ era' = era + 1
  /\ UNCHANGED <<plan, run, script, signed, file>>

Begin(s, at) ==
  /\ Runs(s) /\ run < plan.runs
  /\ run' = run + 1 /\ script' = at
  /\ UNCHANGED <<plan, account, transfer, era, signed, file>>

-----------------------------------------------------------------------------
(***************************************************************************)
(* Shadow execution and the attestation of 10E.2, which read nothing of    *)
(* the ledger: one maps events to the transfers they would be, the other   *)
(* states that the ledger is empty.                                        *)
(***************************************************************************)
LedgerEvents == {"ledger.entry.posted", "treasury.transfer.settled", "treasury.transfer.reserved",
                 "treasury.settlement.confirmed"}
Shadow(events, unmapped) ==
  /\ Runs("shadow") /\ ~(unmapped /\ events \cap LedgerEvents # {})
  /\ Write("shadow", [verified |-> events \cap LedgerEvents # {}])
  /\ Unwritten /\ UNCHANGED <<script, signed>>

Attestation ==
  /\ Runs("gates") /\ Write("attestation", [provenEmpty |-> TRUE])
  /\ Unwritten /\ UNCHANGED <<script, signed>>

(***************************************************************************)
(* Phase 10E.4: ten gates, each a document and a verdict, of which one may *)
(* be run alone; the live ones are skipped on request.  world is what they *)
(* find of the repository: HEAD and a clean tree, a readable data          *)
(* directory, account ids that match the schema.                           *)
(***************************************************************************)
World == [clean : BOOLEAN, readable : BOOLEAN, ids : BOOLEAN]

Gate001(world) == world.clean
Gate002 == TRUE
Gate003 == TRUE
Gate004(world) == world.readable
Gate005 == TRUE
Gate006(world) == world.ids
Gate007 == TRUE
Gate008 == TRUE
Gate009 == TRUE
Gate010 == Approved("genesis")

GatePasses(world) ==
  [g \in 1..10 |-> CASE g = 1 -> Gate001(world) [] g = 2 -> Gate002 [] g = 3 -> Gate003
                     [] g = 4 -> Gate004(world) [] g = 5 -> Gate005 [] g = 6 -> Gate006(world)
                     [] g = 7 -> Gate007 [] g = 8 -> Gate008 [] g = 9 -> Gate009 [] OTHER -> Gate010]

\* The summary of the run; GATE_007 throws when there is no shadow execution, and the run
\* ends without one.
RunGates(gates, world) ==
  /\ Runs("gates") /\ (7 \in gates => file["shadow"] # None)
  /\ Write("verdict", [by |-> "gates", all |-> \A g \in gates : GatePasses(world)[g]])
  /\ Unwritten /\ UNCHANGED <<script, signed>>

(***************************************************************************)
(* Phase 10E.5: prepare runs seven steps and asks for all of them; execute *)
(* writes the record of a genesis.                                         *)
(***************************************************************************)
Step001(world) == world.clean
Step002 == FALSE
Step003 == TRUE
Step004(world) == world.readable
Step005 == FALSE
Step006 == TRUE
Step007 == Approved("genesis")

PrepareCeremony(world) ==
  /\ Runs("ceremony")
  /\ Write("verdict", [by |-> "prepare", all |-> Step001(world) /\ Step002 /\ Step003 /\ Step004(world) /\ Step005 /\ Step006 /\ Step007])
  /\ Unwritten /\ UNCHANGED <<script, signed>>

RecordCeremony ==
  /\ Runs("ceremony") /\ Approved("genesis")
  /\ Write("final", [status |-> "PENDING_READBACK_VERIFICATION", run |-> 0, era |-> era])
  /\ Unwritten /\ UNCHANGED <<script, signed>>

-----------------------------------------------------------------------------
(***************************************************************************)
(* GenesisWriteCeremony.execute through the transport, whose writes are    *)
(* off until they are authorised: accounts, the transfer with the id 1,    *)
(* and the accounts read back.  An answer "exists" counts as created; any  *)
(* other refusal ends the run with a failure that is written down.  The    *)
(* hash of the result calls require, which a module of this package has    *)
(* only under a loader that supplies it: without it that throws and the    *)
(* result is a failure.                                                    *)
(***************************************************************************)
BeginWriteCeremony == Approved("write") /\ Begin("writer", [at |-> "writer.accounts"])

WriteFailed == Write("ceremony", [success |-> FALSE]) /\ Exit

WriteAccounts ==
  /\ At("writer.accounts")
  /\ \/ CreateAccounts(Accounts) /\ script' = [at |-> "writer.transfer"] /\ UNCHANGED file
     \/ \E made \in SUBSET Accounts : made # Accounts /\ CreateAccounts(made) /\ WriteFailed
  /\ UNCHANGED <<plan, transfer, era, run, signed>>

WriteTransfer ==
  /\ At("writer.transfer")
  /\ CreateTransfer(Legacy)
  /\ IF Legacy \in Booked \/ CanBook(Legacy) THEN script' = [at |-> "writer.readback"] /\ UNCHANGED file
                                             ELSE WriteFailed
  /\ UNCHANGED <<plan, account, era, run, signed>>

WriteReadBack ==
  /\ At("writer.readback")
  /\ \E required \in BOOLEAN : Write("ceremony", [success |-> required /\ Complete])
  /\ Exit
  /\ Unwritten /\ UNCHANGED signed

(***************************************************************************)
(* execute-phase10e5-genesis: refuses a ledger that holds anything of the  *)
(* genesis, creates the accounts (a refusal is only logged) and the        *)
(* transfer, and reads both back before it records GENESIS_COMPLETE.       *)
(***************************************************************************)
BeginGenesis == Begin("genesis", [at |-> "genesis.check"])

\* A seeded fault: the script goes on where an earlier run stopped.
CheckEmptyNot ==
  /\ At("genesis.check") /\ script' = [at |-> "genesis.accounts"]
  /\ Unwritten /\ UNCHANGED <<signed, file>>

CheckEmpty ==
  /\ At("genesis.check")
  /\ IF Present = {} /\ Heartbeat \notin Booked THEN script' = [at |-> "genesis.accounts"] ELSE Exit
  /\ Unwritten /\ UNCHANGED <<signed, file>>

GenesisAccounts ==
  /\ At("genesis.accounts")
  /\ \E made \in SUBSET Accounts : CreateAccounts(made)
  /\ script' = [at |-> "genesis.transfer"]
  /\ UNCHANGED <<plan, transfer, era, run, signed, file>>

GenesisTransfer ==
  /\ At("genesis.transfer")
  /\ CreateTransfer(Heartbeat)
  /\ IF CanBook(Heartbeat) THEN script' = [at |-> "genesis.readback"] ELSE Exit
  /\ UNCHANGED <<plan, account, era, run, signed, file>>

GenesisReadBack ==
  /\ At("genesis.readback")
  /\ IF Complete /\ Heartbeat \in Booked
     THEN Write("final", [status |-> "GENESIS_COMPLETE", run |-> run, era |-> era])
     ELSE UNCHANGED file
  /\ Exit /\ Unwritten /\ UNCHANGED signed

-----------------------------------------------------------------------------
(***************************************************************************)
(* Phase 10E.6: the investigation keeps a snapshot (its comparison of the  *)
(* transfer with the manifest compares a string with a BigInt and fails);  *)
(* the reset asks for the evidence, an approval, a running server and a    *)
(* cluster that is still the snapshot's; the operator formats it; verify   *)
(* certifies that it is empty.                                             *)
(***************************************************************************)
TransferMatches == FALSE
Investigate ==
  /\ Runs("reset")
  /\ Write("evidence", [accounts |-> Cardinality(Present), transfers |-> Booked, match |-> Complete /\ TransferMatches])
  /\ Unwritten /\ UNCHANGED <<script, signed>>

GateR001 == file["evidence"] # None
GateR002 == Approved("reset")
GateR004 ==
  LET seen == IF file["evidence"] = None THEN [accounts |-> 0, transfers |-> {}] ELSE file["evidence"]
  IN  seen.accounts = Cardinality(Present) /\ seen.transfers = Booked

PrepareReset(running) ==
  /\ Runs("reset")
  /\ Write("reset", IF GateR001 /\ GateR002 /\ running /\ GateR004 THEN "READY_FOR_RESET" ELSE "PREREQUISITES_NOT_MET")
  /\ Unwritten /\ UNCHANGED <<script, signed>>

VerifyReset ==
  /\ Runs("reset") /\ Ledger = [accounts |-> {}, transfers |-> {}, era |-> era]
  /\ Write("verdict", [by |-> "verify", all |-> TRUE])
  /\ Unwritten /\ UNCHANGED <<script, signed>>

-----------------------------------------------------------------------------
(***************************************************************************)
(* Phase 10E.8: reads the ledger, writes snapshot, root hash and lock      *)
(* certificate, and verifies the transfer last.  The root hash is the      *)
(* ledger's content with its timestamps, which a new cluster changes.      *)
(***************************************************************************)
\* A seeded fault: the number of accounts found is not compared with eight.
AttestReadAny ==
  /\ Runs("lock") /\ Cardinality(Booked) = 1
  /\ script' = [at |-> "lock.write", root |-> Ledger]
  /\ Unwritten /\ UNCHANGED <<signed, file>>

AttestRead ==
  /\ Runs("lock") /\ Complete /\ Cardinality(Booked) = 1
  /\ script' = [at |-> "lock.write", root |-> Ledger]
  /\ Unwritten /\ UNCHANGED <<signed, file>>

AttestWrite ==
  /\ At("lock.write")
  /\ Write("lock", script.root)
  /\ Exit /\ Unwritten /\ UNCHANGED signed

(***************************************************************************)
(* Phase 10E.9: the ledger's root hash has to be the certificate's; then   *)
(* the domains and the mutation policy are declared active.                *)
(***************************************************************************)
VerifyIntegrity ==
  /\ Runs("enable") /\ file["lock"] # None
  /\ script' = IF file["lock"] = Ledger THEN [at |-> "enable.activate", root |-> Ledger] ELSE Idle
  /\ Unwritten /\ UNCHANGED <<signed, file>>

Activate ==
  /\ At("enable.activate")
  /\ Write("policy", script.root)
  /\ Exit /\ Unwritten /\ UNCHANGED signed

-----------------------------------------------------------------------------
(***************************************************************************)
(* Phase 10E.10: one unit is moved under an id drawn from the clock, the   *)
(* answer of the cluster is not looked at; the balances before and after   *)
(* have to differ by one, then the event is recorded, the ledger read      *)
(* again and the pipeline certified.                                       *)
(***************************************************************************)
Balance == Cardinality(Booked)   \* every transfer moves one unit

BeginPipeline(t) == Begin("pipeline", [at |-> "pipeline.move", id |-> t, before |-> Balance])

Move ==
  /\ At("pipeline.move")
  /\ CreateTransfer(script.id) /\ script' = [script EXCEPT !.at = "pipeline.validate"]
  /\ UNCHANGED <<plan, account, era, run, signed, file>>

ValidateEntry ==
  /\ At("pipeline.validate")
  /\ IF Balance - script.before = 1
     THEN Write("event", script.id) /\ script' = [script EXCEPT !.at = "pipeline.replay"]
     ELSE Exit /\ UNCHANGED file
  /\ Unwritten /\ UNCHANGED signed

Replay ==
  /\ At("pipeline.replay")
  /\ IF Complete /\ Heartbeat \in Booked
     THEN Write("pipeline", [id |-> script.id, run |-> run, era |-> era])
     ELSE UNCHANGED file
  /\ Exit /\ Unwritten /\ UNCHANGED signed

(***************************************************************************)
(* The audits: each gathers certificates, artefacts, approvals and what    *)
(* earlier scripts left.  found: the files they ask for are there and the  *)
(* certificates pass or wait for the genesis.                              *)
(***************************************************************************)
Audit10D(found)  == found /\ ~Approved("write")
Audit10E2(found) == found /\ Approved("write") /\ Approved("operator") /\ file["attestation"] # None
Audit10E(found)  == found /\ Approved("write") /\ file["ceremony"] # None /\ file["ceremony"].success

Audit(found) ==
  /\ Runs("audit")
  /\ \/ Write("verdict", [by |-> "10D", all |-> Audit10D(found)])
     \/ Write("verdict", [by |-> "10E.2", all |-> Audit10E2(found)])
     \/ Write("verdict", [by |-> "10E", all |-> Audit10E(found)])
  /\ Unwritten /\ UNCHANGED <<script, signed>>

\* The script dies, or the cluster does not answer it.
Crash ==
  /\ ~At("idle") /\ Exit
  /\ Unwritten /\ UNCHANGED <<signed, file>>

Next ==
  \/ \E d \in Approvals : Sign(d)
  \/ \E events \in SUBSET (LedgerEvents \cup {"agent.created"}), u \in BOOLEAN : Shadow(events, u)
  \/ Attestation
  \/ \E g \in {1..10, {1, 4, 6, 7, 8, 9, 10}} \cup {{n} : n \in 1..10}, w \in World : RunGates(g, w)
  \/ \E w \in World : PrepareCeremony(w)
  \/ RecordCeremony
  \/ BeginWriteCeremony \/ WriteAccounts \/ WriteTransfer \/ WriteReadBack
  \/ BeginGenesis \/ CheckEmpty \/ GenesisAccounts \/ GenesisTransfer \/ GenesisReadBack
  \/ Format \/ Investigate \/ VerifyReset \/ (\E up \in BOOLEAN : PrepareReset(up))
  \/ AttestRead \/ AttestWrite \/ VerifyIntegrity \/ Activate
  \/ \E t \in Moves \cup {Heartbeat} : BeginPipeline(t)
  \/ Move \/ ValidateEntry \/ Replay
  \/ \E found \in BOOLEAN : Audit(found)
  \/ Crash

Spec == Init /\ [][Next]_vars
-----------------------------------------------------------------------------
TypeOK ==
  /\ plan.scripts \subseteq AllScripts /\ plan.approvals \subseteq Approvals /\ plan.runs \in Nat
  /\ account \in [Accounts -> 0..plan.runs] /\ transfer \in [Transfers -> 0..plan.runs]
  /\ era \in 0..MaxEras /\ run \in 0..plan.runs
  /\ signed \subseteq Approvals /\ DOMAIN file = Documents
  /\ \A t \in Booked : {Debit, Credit} \subseteq Present

\* A genesis recorded as complete was made whole by the one run that recorded it: a run that
\* died half way is never completed by another (execute-phase10e5-genesis STEP 2 to 5).
CompleteByOneRun ==
  LET g == file["final"]
  IN  g # None /\ g.era = era /\ g.status = "GENESIS_COMPLETE" =>
          /\ \A a \in Accounts : account[a] = g.run
          /\ transfer[Heartbeat] = g.run

\* The policy of 10E.9 is active only over a ledger that had all accounts and one transfer,
\* whatever ran between lock, reset and enablement; while the cluster is not formatted it
\* still holds them.
EnabledOverGenesis ==
  LET p == file["policy"]
  IN  p # None => /\ p.accounts = Accounts /\ Cardinality(p.transfers) = 1
                  /\ (p.era = era => p.accounts \subseteq Present /\ p.transfers \subseteq Booked)

\* A pipeline certified by 10E.10 has moved its unit itself, on a ledger with its genesis,
\* although the answer of the cluster is not looked at and the id may be taken.
CertifiedMovedItself ==
  LET p == file["pipeline"]
  IN  p # None /\ p.era = era => transfer[p.id] = p.run /\ Heartbeat \in Booked /\ Complete

(***************************************************************************)
(* Papers tell the ledger's truth: the policy is enabled only over a whole *)
(* genesis, and a certified pipeline has moved its unit itself.            *)
(***************************************************************************)
PapersTellTrue == EnabledOverGenesis /\ CertifiedMovedItself

\* "Transfer (1) | 190481" (SOVR-GENESIS-000002-PHASE10E.8_DIRECTIVE.yaml): what a lock
\* certificate locks is the genesis heartbeat.
LockedIsGenesis == file["lock"] # None => file["lock"].transfers = {Heartbeat}
=============================================================================
