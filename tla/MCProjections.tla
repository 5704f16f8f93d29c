--------------------------- MODULE MCProjections ---------------------------
(***************************************************************************)
(* Projections and ReadModels for TLC, in three scenarios of one run:      *)
(*   replay  a payment whose confirmation emits two events, a transfer     *)
(*           that may be authorized and fail, and events that reach the    *)
(*           log only; commands on different aggregates overlap            *)
(*   cache   queries, and commands that overlap on one payment             *)
(*   models  one of the other read models, the subject                     *)
(***************************************************************************)
EXTENDS Projections

CONSTANTS payment, transfer, c1, c2, c3

VARIABLES
  scenario,
  subject, overlapping, events, waiting, model, day, starts   \* of ReadModels

MCKinds == {"created", "completed", "confirmed", "requested", "authorized", "failed", "unknown"}
MCFields == {"body", "state"}
MCSets == [created |-> {"body"}, completed |-> {"body", "state"}, confirmed |-> {"state"},
           requested |-> {"body"}, authorized |-> {"body", "state"}, failed |-> {"state"},
           unknown |-> {}]
MCInserts == {"created", "requested"}
MCPayment == {"created", "completed", "confirmed"}
MCCounted == [requested |-> 1, authorized |-> -1, failed |-> -1]

PaymentBatches  == {<<"created">>, <<"completed", "confirmed">>}
TransferBatches == {<<"requested">>, <<"authorized">>, <<"failed">>}
MCBatches == [a \in {payment, transfer} |-> IF a = payment THEN PaymentBatches ELSE TransferBatches]

-----------------------------------------------------------------------------
(***************************************************************************)
(* The event names of each model, whom they may name, and the order in     *)
(* which the machines of their aggregates let them come.                   *)
(***************************************************************************)
Names == [
  portfolio |-> {"vault.asset.registered", "vault.asset.verified", "vault.asset.impaired", "vault.ownership.transferred",
                 "vault.collateral.added", "vault.collateral.released"},
  account_summary |-> {"treasury.transfer.requested", "treasury.transfer.authorized", "treasury.transfer.settled",
                       "treasury.transfer.failed", "treasury.transfer.expired", "treasury.liquidity.warning"},
  settlement_summary |-> {"payment.rail.confirmed", "payment.rail.failed", "payment.reconciliation.completed",
                          "payment.reconciliation.discrepancy", "payment.receipt.issued"},
  liquidity_position |-> {"treasury.liquidity.warning", "treasury.transfer.settled", "treasury.transfer.failed",
                          "treasury.settlement.confirmed"},
  vault_holdings |-> {"vault.asset.registered", "vault.asset.verified", "vault.asset.rejected", "vault.asset.impaired",
                      "vault.reserve.created", "vault.reserve.locked", "vault.reserve.released", "vault.custody.attested",
                      "vault.custody.proof_expired", "vault.collateral.added", "vault.collateral.released"},
  escrow_account_view |-> {"escrow.account.created", "escrow.account.funded", "escrow.account.released",
                           "escrow.account.cancelled"},
  identity_directory |-> {"identity.actor.registered", "identity.actor.verified", "identity.actor.suspended",
                          "identity.actor.revoked", "identity.credential.issued", "identity.credential.revoked",
                          "identity.session.created", "identity.session.terminated"},
  agent_activity |-> {"agent.execution.started", "agent.execution.completed", "agent.execution.failed",
                      "agent.execution.escalated"},
  intent_queue |-> {"intent.enriching.started", "intent.enriching.completed", "intent.enriching.failed",
                    "intent.validation.completed", "intent.multi_step.step_completed", "intent.multi_step.completed"},
  policy_decisions |-> {"policy.evaluation.completed", "policy.evaluation.denied", "policy.escalation.created",
                        "policy.escalation.resolved", "policy.rule.activated", "policy.rule.deactivated"},
  governance_dashboard |-> {"policy.escalation.created", "policy.escalation.resolved", "agent.execution.escalated"},
  risk_dashboard |-> {"vault.asset.registered", "vault.asset.impaired", "vault.collateral.margin_call",
                      "vault.collateral.liquidation_initiated", "treasury.liquidity.warning"},
  compliance_report |-> {"policy.evaluation.denied", "agent.execution.escalated", "payment.reconciliation.discrepancy"}]
AllNames == UNION Range(Names)

NamesOwner == {"portfolio", "account_summary", "settlement_summary"}
OfActor    == {"identity.actor.registered", "identity.actor.verified", "identity.actor.suspended", "identity.actor.revoked"}
Keys == [s \in DOMAIN Names |-> [n \in Names[s] |->
  CASE s \in NamesOwner -> {1, 2}
    [] s = "identity_directory" /\ n \notin OfActor -> {101, 0}
    [] s = "policy_decisions" /\ n = "policy.escalation.resolved" -> {0, 1}
    [] OTHER -> {0}]]

Firsts   == {"vault.asset.registered", "vault.reserve.created", "vault.collateral.added", "vault.custody.attested",
             "treasury.transfer.requested"}
Requests == {"treasury.transfer.requested", "treasury.transfer.authorized"}
MayFollow == [s \in DOMAIN Names |-> [n \in AllNames |->
  CASE n \in Firsts -> {"none"}
    [] n = "vault.asset.verified" -> {"vault.asset.registered"}
    [] n \in {"vault.asset.rejected", "vault.asset.impaired", "vault.ownership.transferred"} ->
         {"vault.asset.registered", "vault.asset.verified"}
    [] n = "vault.reserve.locked"   -> {"vault.reserve.created"}
    [] n = "vault.reserve.released" -> {"vault.reserve.created", "vault.reserve.locked"}
    [] n = "vault.collateral.released"    -> {"vault.collateral.added"}
    [] n = "vault.custody.proof_expired"  -> {"vault.custody.attested"}
    [] n = "treasury.transfer.authorized" -> {"treasury.transfer.requested"}
    [] n \in {"treasury.transfer.settled", "treasury.transfer.failed", "treasury.transfer.expired"}
       /\ s = "account_summary" -> Requests
    [] OTHER -> AllNames \cup {"none"}]]

M == INSTANCE ReadModels WITH
  log <- events, overlap <- overlapping, boots <- starts, Subjects <- DOMAIN Names, Aggregates <- {101, 102}, Own <- 0, Elsewhere <- 100,
  Alien <- "alien", MaxEvents <- 3, MaxDay <- 2, MaxBoots <- 1

-----------------------------------------------------------------------------
modelVars == <<subject, overlapping, events, waiting, model, day, starts>>

\* Two commands on one payment.
OnePayment == pc'[c3] = "idle" /\ \A i \in DOMAIN log' : log'[i].agg = payment

MCInit ==
  /\ scenario \in {"replay", "cache", "models"}
  /\ Init /\ (overlap = "any" <=> scenario = "cache")
  /\ IF scenario = "models" THEN TRUE ELSE subject = "portfolio" /\ overlapping = FALSE
  /\ M!Init

MCNext ==
  /\ UNCHANGED scenario
  /\ \/ scenario = "replay" /\ Next /\ now' = now /\ answer' = answer /\ UNCHANGED modelVars
     \/ scenario = "cache" /\ Next /\ OnePayment /\ UNCHANGED modelVars
     \/ scenario = "models" /\ M!Next /\ UNCHANGED vars

MCSpec == MCInit /\ [][MCNext]_<<scenario, vars, modelVars>>

-----------------------------------------------------------------------------
(***************************************************************************)
(* The thirteen other models: with nothing waiting each shows what a       *)
(* rebuild shows, and none counts more than the log has events.            *)
(***************************************************************************)
OtherModelsFollowLog == M!TypeOK /\ M!ReadModelFollowsLog
=============================================================================
