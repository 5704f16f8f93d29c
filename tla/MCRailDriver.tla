---------------------------- MODULE MCRailDriver ----------------------------
(***************************************************************************)
(* RailDriver for two payments on one driver, in two scenarios: each is    *)
(* submitted once and the rail may decide every call; or the first may be  *)
(* submitted again, and the rail never comes to the calls of the second,   *)
(* which then only wears down the breaker they share.                      *)
(***************************************************************************)
EXTENDS RailDriver

CONSTANTS p1, p2
SecondTry == [p \in Payments |-> IF p = p1 THEN 2 ELSE 1]

VARIABLE again   \* which of the two scenarios

MCInit == Init /\ again \in BOOLEAN
MCNext ==
  /\ Next /\ UNCHANGED again
  /\ IF again THEN \A k \in DOMAIN calls'[p2] : calls'[p2][k] = "sent"
              ELSE submits'[p1] <= 1

MCSpec     == MCInit /\ [][MCNext]_<<vars, again>>
MCFairSpec == MCSpec /\ \A p \in Payments : WF_vars(Local(p))
=============================================================================
