----------------------------- MODULE MCGenesis -----------------------------
(***************************************************************************)
(* Instance of Genesis with three accounts, two of them the heartbeat's.   *)
(***************************************************************************)
EXTENDS Genesis

CONSTANTS d, c, o, m1

\* On the ledger: a genesis by the runtime's ceremony or by the script, lost and taken up
\* again, a reset, the lock and its enablement, the pipeline test.
OnLedger == [scripts   |-> {"writer", "genesis", "reset", "lock", "enable", "pipeline"},
             approvals |-> {"write", "reset"}, runs |-> 3]
\* On paper: what the other scripts say meanwhile.
OnPaper  == [scripts   |-> {"shadow", "gates", "ceremony", "audit", "writer", "genesis"},
             approvals |-> Approvals, runs |-> 1]
MCPlans == {OnLedger, OnPaper}
=============================================================================
