--------------------------- MODULE MCOrchestration ---------------------------
(***************************************************************************)
(* OrchestrationLayer for TLC.  Its parts share no state, nor do the four  *)
(* stores of Domains, so one run checks them side by side: subject says    *)
(* which moves, the others stay as they began.                             *)
(***************************************************************************)
EXTENDS OrchestrationLayer, TLC

VARIABLE subject

\* The routes of phase10e11.test.ts: three may mutate of the treasury's, one of the payments'.
MCRoutes ==
  [t \in {"CREATE_VAULT_INTENT", "OPEN_VAULT", "LOCK_VAULT", "CREATE_PAYMENT_INTENT", "AUTHORIZE_PAYMENT"} |-> FALSE]
    @@ [t \in {"CREATE_ALLOCATION_REQUEST", "APPROVE_ALLOCATION", "EXECUTE_ALLOCATION",
               "EXECUTE_INTERNAL_SETTLEMENT"} |-> TRUE]
MaxAmount == [domain |-> "treasury", action |-> "DENY", actors |-> {}, max |-> 1]
OnlyHuman == [domain |-> "all", action |-> "ESCALATE", actors |-> {"human"}, max |-> 0]
Watch     == [domain |-> "all", action |-> "ALLOW", actors |-> {"human"}, max |-> 0]
MCRuleSet   == {OnlyHuman, Watch}
MCInitRules == {MaxAmount}

Intent(type, amount, policy) == [type |-> type, actor |-> "agent", amount |-> amount, policy |-> policy]
MCSubmitted ==
  {Intent("CREATE_ALLOCATION_REQUEST", 1, TRUE), Intent("CREATE_ALLOCATION_REQUEST", 2, TRUE),
   Intent("CREATE_PAYMENT_INTENT", 1, TRUE), Intent("RELEASE_VAULT", 1, TRUE), Intent("LOCK_VAULT", None, FALSE)}

Command(type, auth) == [type |-> type, domain |-> "vault", actor |-> "agent", amount |-> 0, auth |-> auth]
MCCommands ==
  {Command("OPEN_VAULT", ""), Command("OPEN_VAULT", "LEDGER_MUTATION_AUTHORIZED"),
   Command("EXECUTE_ALLOCATION", "LEDGER_MUTATION_AUTHORIZED")}

Payload(from, to, amount) == [from |-> from, to |-> to, amount |-> amount]
MCPayloads ==
  {Payload("reserve", "operating", 2), Payload("reserve", "operating", 1), Payload("operating", "operating", 0),
   Payload("reserve", "reserve", 1), Payload("operating", "reserve", -1), Payload("reserve", "unknown", 1)}

\* Lists of steps a caller may make: out of order, and with a dependency no step has.
Given(id, needs) == [id |-> id, type |-> "LOCK_VAULT", domain |-> "vault", needs |-> needs, status |-> "PENDING"]
MCStepLists   == {<<Given(2, {1}), Given(1, {})>>, <<Given(1, {}), Given(2, {9})>>}
MCObjectives  == {{"vault", "transfer"}, {"treasury"}, {"payment"}, {}}
MCPermissions == [create_intent |-> "ALLOWED", create_command |-> "REQUIRES_POLICY"]

MCInit ==
  /\ subject \in {"orchestration", "treasury", "vaults", "payments", "runtime", "agents"}
  /\ LayerInit

MCNext ==
  /\ UNCHANGED subject
  /\ \/ subject = "orchestration" /\ O!Next /\ UNCHANGED <<dVars, aVars>>
     \/ /\ \/ subject = "treasury" /\ D!TreasuryNext
           \/ subject = "vaults" /\ D!VaultNext
           \/ subject = "payments" /\ D!PaymentNext
           \/ subject = "runtime" /\ D!AgentNext
        /\ UNCHANGED <<oVars, aVars>>
     \/ subject = "agents" /\ A!Next /\ UNCHANGED <<oVars, dVars>>

MCSpec == MCInit /\ [][MCNext]_<<subject, oVars, dVars, aVars>> /\ O!Fairness /\ A!Fairness
=============================================================================
