---------------------------- MODULE ReadModels ----------------------------
(***************************************************************************)
(* The other thirteen hand-written models of projections/, one reducer     *)
(* each: what handleEvent makes of an event.  A model is a map from keys   *)
(* to entries; a reducer takes the map to the next one.  The engine and    *)
(* its two ways of feeding a model are those of Projections:               *)
(*   live     the events of accepted commands, after the awaits of         *)
(*            CommandBus.submit, only those the model subscribes to        *)
(*   rebuild  every event of the log, whatever its name, in log order      *)
(* One model is looked at in each behaviour, the subject.                  *)
(*                                                                         *)
(* An event has the owner, actor or rail its key is read from, one unit as *)
(* its amount and the day of its timestamp.  Valuations are the name of    *)
(* the event that set them; texts, rates and averages are left out.        *)
(***************************************************************************)
EXTENDS Integers, Sequences, FiniteSets, SequencesExt, TLC

CONSTANTS
  Subjects,     \* the models looked at
  Aggregates,   \* assets, transfers, escrows, ...: integers that number no event
  Keys,         \* per model and event name, the owners, identities or rails an event may name
  Own,          \* an event that names none
  Elsewhere,    \* the aggregate of the alien event
  Names,        \* per model, the event names that occur
  MayFollow,    \* per model and event name, the last names of its aggregate it may follow
  Alien,        \* an event name no model but '*' subscribes to
  MaxEvents,    \* bound on the log
  MaxDay,       \* bound on the calendar
  MaxBoots      \* bound on restarts

VARIABLES
  subject,      \* the model looked at
  overlap,      \* TRUE: commands on different aggregates may overlap
  log,          \* the events of the store
  waiting,      \* ids of events committed and not yet handed over
  model,        \* the live read model
  day, boots

vars == <<subject, overlap, log, waiting, model, day, boots>>

Ids == DOMAIN log
Cut(n) == IF n < 0 THEN 0 ELSE n                    \* Math.max(0, n)
Entry(s, k, new) == IF k \in DOMAIN s THEN s[k] ELSE new
Put(s, k, entry) == (k :> entry) @@ s
Same(s, k, entry) == IF k \in DOMAIN s THEN Put(s, k, entry) ELSE s

-----------------------------------------------------------------------------
(***************************************************************************)
(* The reducers.                                                           *)
(***************************************************************************)
\* Keyed by the owner the payload names, or else by the actor: an asset whose later
\* events name somebody else stays as it was registered.
PortfolioAfter(s, e) ==
  LET old == Entry(s, e.key, [assets |-> <<>>, collateral |-> 0])
      has == e.agg \in DOMAIN old.assets
      Asset(f, v) == IF has THEN [old EXCEPT !.assets[e.agg][f] = v] ELSE old
  IN Put(s, e.key,
    CASE e.name = "vault.asset.registered" ->
           IF has THEN old
             ELSE [old EXCEPT !.assets = Put(@, e.agg, [state |-> "REGISTERED", value |-> e.name])]
      [] e.name = "vault.asset.verified" -> Asset("state", "VERIFIED")
      [] e.name = "vault.asset.impaired" ->
           IF has THEN [old EXCEPT !.assets[e.agg] = [state |-> "IMPAIRED", value |-> e.name]] ELSE old
      [] e.name \in {"vault.asset.write_down", "vault.valuation.updated"} -> Asset("value", e.name)
      [] e.name = "vault.ownership.transferred" ->   \* to somebody who is not the key
           [old EXCEPT !.assets = [a \in DOMAIN @ \ {e.agg} |-> @[a]]]
      [] e.name \in {"vault.collateral.added", "vault.collateral.revalued"} ->
           [old EXCEPT !.collateral = @ + 1]
      [] e.name = "vault.collateral.released" -> [old EXCEPT !.collateral = Cut(@ - 1)]
      [] OTHER -> old)

\* currency_breakdown counts the amount of whatever event it is handed.
AccountSummaryAfter(s, e) ==
  LET seen == Entry(s, e.key, [available |-> 0, reserved |-> 0, total |-> 0, pending |-> 0, breakdown |-> 0])
      old == [seen EXCEPT !.breakdown = @ + 1]
      over == [old EXCEPT !.pending = Cut(@ - 1), !.reserved = Cut(@ - 1)]
  IN Put(s, e.key,
    CASE e.name = "treasury.transfer.requested" -> [old EXCEPT !.pending = @ + 1, !.total = @ + 1]
      [] e.name = "treasury.transfer.authorized" ->
           [old EXCEPT !.reserved = @ + 1, !.available = Cut(old.total - old.reserved - 1)]
      [] e.name = "treasury.transfer.settled" -> [over EXCEPT !.available = Cut(@ - 1)]
      [] e.name \in {"treasury.transfer.failed", "treasury.transfer.expired"} -> [over EXCEPT !.available = @ + 1]
      [] e.name = "treasury.liquidity.warning" -> [old EXCEPT !.available = 0]
      [] OTHER -> old)

SettlementSummaryAfter(s, e) ==
  LET old == Entry(s, e.key, [settled |-> 0, failed |-> 0, fees |-> 0, toReconcile |-> 0, discrepancies |-> 0])
  IN Put(s, e.key,
    CASE e.name = "payment.rail.confirmed" -> [old EXCEPT !.settled = @ + 1, !.toReconcile = Cut(@ - 1)]
      [] e.name = "payment.rail.failed" -> [old EXCEPT !.failed = @ + 1]
      [] e.name = "payment.reconciliation.completed" -> [old EXCEPT !.toReconcile = Cut(@ - 1)]
      [] e.name = "payment.reconciliation.discrepancy" ->
           [old EXCEPT !.discrepancies = @ + 1, !.toReconcile = @ + 1]
      [] e.name = "payment.receipt.issued" -> [old EXCEPT !.fees = @ + 1]
      [] OTHER -> old)

\* No compiled event raises total_liquidity: treasury.liquidity.check is the name of no
\* event, so it only falls.
LiquidityPositionAfter(s, e) ==
  LET seen == Entry(s, "global", [total |-> 0, available |-> 0, reserved |-> 0, inflows |-> 0,
                                  warnings |-> 0, byCurrency |-> 0])
      old == [seen EXCEPT !.byCurrency = @ + 1]
  IN Put(s, "global",
    CASE e.name = "treasury.liquidity.warning" -> [old EXCEPT !.warnings = @ + 1, !.available = 0]
      [] e.name = "treasury.transfer.settled" ->
           [old EXCEPT !.reserved = Cut(@ - 1), !.available = Cut(@ - 1), !.total = @ - 1]
      [] e.name = "treasury.transfer.failed" -> [old EXCEPT !.reserved = Cut(@ - 1), !.available = @ + 1]
      [] e.name = "treasury.settlement.confirmed" -> [old EXCEPT !.inflows = @ + 1]
      [] OTHER -> old)

\* A verified asset that is rejected is taken from REGISTERED, where it no longer is; a
\* reservation that is created and then locked counts twice.
VaultHoldingsAfter(s, e) ==
  LET old == Entry(s, "global", [registered |-> 0, verified |-> 0, rejected |-> 0, impaired |-> 0,
                                 byType |-> 0, reserves |-> 0, proofs |-> 0, lapsed |-> 0, collateral |-> 0])
  IN Put(s, "global",
    CASE e.name = "vault.asset.registered" -> [old EXCEPT !.registered = @ + 1, !.byType = @ + 1]
      [] e.name = "vault.asset.verified" -> [old EXCEPT !.verified = @ + 1, !.registered = Cut(@ - 1)]
      [] e.name = "vault.asset.rejected" -> [old EXCEPT !.rejected = @ + 1, !.registered = Cut(@ - 1)]
      [] e.name = "vault.asset.impaired" -> [old EXCEPT !.impaired = @ + 1, !.verified = Cut(@ - 1)]
      [] e.name \in {"vault.reserve.created", "vault.reserve.locked"} -> [old EXCEPT !.reserves = @ + 1]
      [] e.name \in {"vault.reserve.released", "vault.reserve.expired"} -> [old EXCEPT !.reserves = Cut(@ - 1)]
      [] e.name = "vault.custody.attested" -> [old EXCEPT !.proofs = @ + 1]
      [] e.name = "vault.custody.proof_expired" -> [old EXCEPT !.proofs = Cut(@ - 1), !.lapsed = @ + 1]
      [] e.name \in {"vault.collateral.added", "vault.collateral.revalued"} -> [old EXCEPT !.collateral = @ + 1]
      [] e.name = "vault.collateral.released" -> [old EXCEPT !.collateral = Cut(@ - 1)]
      [] OTHER -> old)

EscrowAfter(s, e) ==
  LET now(state, amount) == [state |-> state, amount |-> amount]
      known == e.agg \in DOMAIN s
  IN CASE e.name = "escrow.account.created" -> Put(s, e.agg, now("ACTIVE", 1))
       [] e.name = "escrow.account.funded" ->
            Put(s, e.agg, IF known THEN now(s[e.agg].state, s[e.agg].amount + 1) ELSE now("FUNDED", 1))
       [] e.name = "escrow.account.released" -> Same(s, e.agg, now("RELEASED", 0))
       [] e.name = "escrow.account.cancelled" /\ known -> Put(s, e.agg, now("CANCELLED", s[e.agg].amount))
       [] OTHER -> s

IdentityAfter(s, e) ==
  LET k == IF e.key = Own THEN e.agg ELSE e.key
      old == Entry(s, k, [state |-> "UNKNOWN", credentials |-> 0, delegations |-> 0, sessions |-> 0])
  IN Put(s, k,
    CASE e.name = "identity.actor.registered" -> [old EXCEPT !.state = "REGISTERED"]
      [] e.name = "identity.actor.verified"   -> [old EXCEPT !.state = "VERIFIED"]
      [] e.name = "identity.actor.suspended"  -> [old EXCEPT !.state = "SUSPENDED"]
      [] e.name = "identity.actor.revoked"    -> [old EXCEPT !.state = "REVOKED"]
      [] e.name = "identity.credential.issued"   -> [old EXCEPT !.credentials = @ + 1]
      [] e.name \in {"identity.credential.expired", "identity.credential.revoked"} ->
           [old EXCEPT !.credentials = Cut(@ - 1)]
      [] e.name = "identity.delegation.created"  -> [old EXCEPT !.delegations = @ + 1]
      [] e.name \in {"identity.delegation.revoked", "identity.delegation.expired"} ->
           [old EXCEPT !.delegations = Cut(@ - 1)]
      [] e.name = "identity.session.created"     -> [old EXCEPT !.sessions = @ + 1]
      [] e.name = "identity.session.terminated"  -> [old EXCEPT !.sessions = Cut(@ - 1)]
      [] OTHER -> old)

\* One record per event, of any name.
AgentActivityAfter(s, e) ==
  Put(s, e.id, [status |-> CASE e.name = "agent.execution.started"   -> "STARTED"
                             [] e.name = "agent.execution.completed" -> "COMPLETED"
                             [] e.name = "agent.execution.failed"    -> "FAILED"
                             [] e.name = "agent.execution.escalated" -> "ESCALATED"
                             [] e.name = "agent.quota.exceeded"      -> "QUOTA_EXCEEDED"
                             [] OTHER -> "RECORDED"])

IntentQueueAfter(s, e) ==
  LET Now(state, step) == Same(s, e.agg, [state |-> state, step |-> step])
      step == IF e.agg \in DOMAIN s THEN s[e.agg].step ELSE 0
  IN CASE e.name = "intent.enriching.started"   -> Put(s, e.agg, [state |-> "ENRICHING", step |-> 0])
       [] e.name = "intent.enriching.completed" -> Now("ENRICHED", step)
       [] e.name = "intent.enriching.failed"    -> Now("ENRICHMENT_FAILED", step)
       [] e.name = "intent.validation.completed" -> Now("VALIDATED", step)
       [] e.name = "intent.multi_step.step_completed" -> Now("STEP_COMPLETED", step + 1)
       [] e.name = "intent.multi_step.completed" -> Now("COMPLETED", -1)   \* total_steps
       [] e.name = "intent.multi_step.failed"    -> Now("FAILED", step)
       [] OTHER -> s

\* A decision is kept under the id the payload names or under the event's own: a
\* resolution that names no decision finds none.
PolicyDecisionsAfter(s, e) ==
  LET decision == IF e.key = Own THEN e.id ELSE e.agg
      Decided(d) == Put(s, decision, [decision |-> d])
  IN CASE e.name = "policy.evaluation.completed" -> Decided("ALLOW")
       [] e.name = "policy.evaluation.denied"    -> Decided("DENY")
       [] e.name = "policy.evaluation.escalated" -> Decided("ESCALATE")
       [] e.name = "policy.evaluation.deferred"  -> Decided("DEFER")
       [] e.name = "policy.escalation.created"   -> Put(s, e.agg, [decision |-> "ESCALATE"])
       [] e.name = "policy.escalation.resolved"  -> Same(s, decision, [decision |-> "RESOLVED"])
       [] e.name = "policy.rule.activated"       -> Put(s, e.agg, [decision |-> "ALLOW"])
       [] e.name = "policy.rule.deactivated"     -> Same(s, e.agg, [decision |-> "DEACTIVATED"])
       [] OTHER -> s

\* The calendar day is that of the machine when the event is handed over.
GovernanceAfter(s, e, today) ==
  LET old == Entry(s, "global", [escalations |-> 0, resolvedToday |-> 0, agentsToday |-> 0, discrepancies |-> 0])
      sameDay == IF e.day = today THEN 1 ELSE 0
  IN Put(s, "global",
    CASE e.name = "policy.escalation.created"  -> [old EXCEPT !.escalations = @ + 1]
      [] e.name = "policy.escalation.resolved" ->
           [old EXCEPT !.escalations = Cut(@ - 1), !.resolvedToday = @ + sameDay]
      [] e.name = "agent.execution.escalated"  -> [old EXCEPT !.agentsToday = @ + sameDay]
      [] e.name = "payment.reconciliation.discrepancy" -> [old EXCEPT !.discrepancies = @ + 1]
      [] OTHER -> old)

RiskAfter(s, e) ==
  LET old == Entry(s, "global", [marginCalls |-> 0, coverage |-> "1.00", concentration |-> 0,
                                 impaired |-> 0, warnings |-> 0, exposure |-> 0])
  IN Put(s, "global",
    CASE e.name = "vault.asset.registered" -> [old EXCEPT !.concentration = @ + 1, !.exposure = @ + 1]
      [] e.name = "vault.asset.impaired"   -> [old EXCEPT !.impaired = @ + 1, !.exposure = @ + 1]
      [] e.name \in {"vault.asset.write_down", "vault.reserve.expired"} -> [old EXCEPT !.exposure = @ - 1]
      [] e.name = "vault.valuation.updated" -> [old EXCEPT !.exposure = 1]
      [] e.name = "vault.collateral.valued" -> [old EXCEPT !.coverage = e.name]
      [] e.name = "vault.collateral.margin_call" -> [old EXCEPT !.marginCalls = @ + 1]
      [] e.name = "vault.collateral.liquidation_initiated" -> [old EXCEPT !.marginCalls = Cut(@ - 1)]
      [] e.name = "treasury.liquidity.warning" -> [old EXCEPT !.warnings = @ + 1]
      [] OTHER -> old)

ComplianceAfter(s, e) ==
  LET old == Entry(s, "global", [denials |-> 0, escalations |-> 0, discrepancies |-> 0]) IN
    Put(s, "global",
      CASE e.name = "policy.evaluation.denied"  -> [old EXCEPT !.denials = @ + 1]
        [] e.name = "agent.execution.escalated" -> [old EXCEPT !.escalations = @ + 1]
        [] e.name = "payment.reconciliation.discrepancy" -> [old EXCEPT !.discrepancies = @ + 1]
        [] OTHER -> old)

After(s, e, today) ==
  CASE subject = "portfolio"          -> PortfolioAfter(s, e)
    [] subject = "account_summary"    -> AccountSummaryAfter(s, e)
    [] subject = "settlement_summary" -> SettlementSummaryAfter(s, e)
    [] subject = "liquidity_position" -> LiquidityPositionAfter(s, e)
    [] subject = "vault_holdings"     -> VaultHoldingsAfter(s, e)
    [] subject = "escrow_account_view" -> EscrowAfter(s, e)
    [] subject = "identity_directory" -> IdentityAfter(s, e)
    [] subject = "agent_activity"     -> AgentActivityAfter(s, e)
    [] subject = "intent_queue"       -> IntentQueueAfter(s, e)
    [] subject = "policy_decisions"   -> PolicyDecisionsAfter(s, e)
    [] subject = "governance_dashboard" -> GovernanceAfter(s, e, today)
    [] subject = "risk_dashboard"     -> RiskAfter(s, e)
    [] OTHER                          -> ComplianceAfter(s, e)

\* buildFromGenesis: cleared, then every event in log order.
Rebuilt == FoldLeft(LAMBDA s, e : After(s, e, day), <<>>, log)

-----------------------------------------------------------------------------
Init ==
  /\ subject \in Subjects /\ overlap \in BOOLEAN
  /\ log = <<>> /\ waiting = {} /\ model = <<>>
  /\ day = 1 /\ boots = 0

LastOf(a) ==
  LET own == {i \in Ids : log[i].agg = a} IN
    IF own = {} THEN "none" ELSE log[CHOOSE i \in own : \A j \in own : j <= i].name

\* The kernel's commit of a command on aggregate a; its events are handed over later.
Commit(a) ==
  /\ Len(log) < MaxEvents
  /\ IF overlap THEN \A i \in waiting : log[i].agg # a ELSE waiting = {}
  /\ \E n \in Names[subject] : \E k \in Keys[subject][n] :
       /\ LastOf(a) \in MayFollow[subject][n]
       /\ log' = Append(log, [id |-> Len(log) + 1, name |-> n, agg |-> a, key |-> k, day |-> day])
  /\ waiting' = waiting \cup {Len(log) + 1}
  /\ UNCHANGED <<subject, overlap, model, day, boots>>

\* An event of another domain: no model but the one of '*' is handed it.
CommitAlien(k) ==
  /\ Len(log) < MaxEvents /\ \A i \in Ids : log[i].name # Alien
  /\ log' = Append(log, [id |-> Len(log) + 1, name |-> Alien, agg |-> Elsewhere, key |-> k, day |-> day])
  /\ UNCHANGED <<subject, overlap, waiting, model, day, boots>>

HandOver(i) ==
  /\ i \in waiting /\ waiting' = waiting \ {i}
  /\ model' = After(model, log[i], day)
  /\ UNCHANGED <<subject, overlap, log, day, boots>>

Midnight ==
  /\ subject = "governance_dashboard" /\ day < MaxDay /\ day' = day + 1
  /\ UNCHANGED <<subject, overlap, log, waiting, model, boots>>

\* A seeded fault: buildFromGenesis without state.clear().
RestartWithoutClear ==
  /\ boots < MaxBoots /\ boots' = boots + 1
  /\ model' = FoldLeft(LAMBDA s, e : After(s, e, day), model, log) /\ waiting' = {}
  /\ UNCHANGED <<subject, overlap, log, day>>

Restart ==
  /\ boots < MaxBoots /\ boots' = boots + 1
  /\ model' = Rebuilt /\ waiting' = {}
  /\ UNCHANGED <<subject, overlap, log, day>>

Next ==
  \/ \E a \in Aggregates : Commit(a)
  \/ \E k \in UNION Range(Keys[subject]) : CommitAlien(k)
  \/ \E i \in Ids : HandOver(i)
  \/ Midnight \/ Restart

-----------------------------------------------------------------------------
\* What a rebuild adds to: these fields of an entry count events of other domains, or
\* compare a timestamp with the clock.
Tainted == {"breakdown", "byCurrency", "resolvedToday", "agentsToday"}

\* The fields whose value does not depend on the order between aggregates.
OrderFree ==
  {"assets", "total", "settled", "failed", "fees", "discrepancies", "inflows", "warnings", "byType",
   "rejected", "impaired", "lapsed", "state", "amount", "status", "step", "decision", "concentration",
   "denials"}

Compared(entry) ==
  LET fields == (DOMAIN entry \ Tainted) \cap (IF overlap THEN OrderFree ELSE DOMAIN entry) IN
    [f \in fields |-> entry[f]]

\* Every map shows at most what the log gives it a reason for, and no counter of the kinds
\* that are cut off at 0 falls below it.
TypeOK ==
  /\ subject \in Subjects /\ waiting \subseteq Ids
  /\ \A k \in DOMAIN model : \A f \in DOMAIN model[k] :
       f \in {"pending", "reserved", "toReconcile", "registered", "verified", "reserves", "proofs",
              "credentials", "delegations", "sessions", "escalations", "marginCalls"}
         => model[k][f] \in 0..Len(log)

\* INV-006 (projectionEngine.ts:89): with nothing waiting, what a model shows of its own
\* events is what a rebuild from genesis shows, whatever events of other domains the
\* rebuild is handed on the way; when commands overlap this holds of the fields that do
\* not depend on the order between aggregates.
ReadModelFollowsLog ==
  waiting = {} =>
    LET genesis == Rebuilt IN
      \A k \in DOMAIN model : k \in DOMAIN genesis /\ Compared(model[k]) = Compared(genesis[k])
=============================================================================
