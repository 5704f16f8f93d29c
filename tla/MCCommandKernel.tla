-------------------------- MODULE MCCommandKernel --------------------------
(***************************************************************************)
(* Instances of CommandKernel on fragments of the compiled corpus          *)
(* (generated/registries): the settlement commands of the certification    *)
(* domain, whose SignAttestation touches two aggregates, and               *)
(* ledger.period.close, which emits two events of one aggregate and one    *)
(* of an aggregate without a machine.                                      *)
(***************************************************************************)
EXTENDS CommandKernel

CONSTANTS sr, ep, ap, en

Ev(e, a) == [event |-> e, agg |-> a]
T(f, e, t) == [from |-> f, event |-> e, to |-> t]

MCMachine == [a \in {sr, ep, ap} |->
  CASE a = sr -> {T("PENDING", "SettlementExecuted", "LEDGER_POSTED"),
                  T("PENDING", "SettlementCancelled", "CANCELLED"),
                  T("LEDGER_POSTED", "SettlementFinalized", "FINALIZED"),
                  T("FINALIZED", "SettlementDisputed", "DISPUTED")}
    [] a = ep -> {T("GENERATED", "AttestationSigned", "SIGNED")}
    [] a = ap -> {T("ACTIVE", "ledger.period.closing", "ACTIVE"),
                  T("ACTIVE", "ledger.period.closed", "ACTIVE")}]
MCInitialState == [a \in {sr, ep, ap} |->
  CASE a = sr -> "PENDING" [] a = ep -> "GENERATED" [] a = ap -> "ACTIVE"]
MCStates == {"PENDING", "LEDGER_POSTED", "CANCELLED", "FINALIZED", "DISPUTED",
             "GENERATED", "SIGNED", "ACTIVE"}

\* Settlement: created, executed or cancelled, then signed together with its evidence.
SettlementCommands == {"AuthorizeSettlement", "ExecuteSettlement",
                       "CancelSettlement", "SignAttestation"}
SettlementBatch == [c \in SettlementCommands |->
  CASE c = "AuthorizeSettlement" -> <<Ev("SettlementAuthorized", sr)>>
    [] c = "ExecuteSettlement" -> <<Ev("SettlementExecuted", sr)>>
    [] c = "CancelSettlement" -> <<Ev("SettlementCancelled", sr)>>
    [] c = "SignAttestation" -> <<Ev("AttestationSigned", ep), Ev("SettlementFinalized", sr)>>]

\* Overlapping: an execution and a signature that race for one record, and the closing
\* of a period, whose three events are two of the period and one without a machine.
OverlapCommands == {"ExecuteSettlement", "SignAttestation", "ledger.period.close"}
OverlapBatch == [c \in OverlapCommands |->
  IF c = "ledger.period.close"
  THEN <<Ev("ledger.period.closing", ap), Ev("ledger.entry.posted", en),
         Ev("ledger.period.closed", ap)>>
  ELSE SettlementBatch[c]]

\* Two settlements of one record that race.
RaceCommands == {"AuthorizeSettlement", "ExecuteSettlement", "CancelSettlement"}
RaceBatch == [c \in RaceCommands |-> SettlementBatch[c]]
=============================================================================
