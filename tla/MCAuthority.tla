----------------------------- MODULE MCAuthority -----------------------------
(***************************************************************************)
(* Authority for a governance actor, the actor id 'governance' that the    *)
(* constructor seeds, and an ai_agent that uses one capability on two      *)
(* aggregates, in two scenarios.                                           *)
(*                                                                         *)
(* "orderly": authority commands one at a time, no clock and no restart;   *)
(* what is promised of them is stated for this scenario.                   *)
(* "agent": an agent that was given the capability to grant and another    *)
(* one that ends, and that claims the first where its command needs the    *)
(* second; commands overlap, time passes and the process restarts.         *)
(***************************************************************************)
EXTENDS Authority

CONSTANTS gov, root, agent, x, y

MCActors    == {gov, root, agent}
MCGovernors == {gov, root}
MCScopes    == {x, y}
MCCaps      == {"grant", "revoke", "session", "create", "read"}

Use(scope, target) ==
  [kind |-> "use", actor |-> agent, claimed |-> "create", needs |-> "create",
   scope |-> scope, target |-> target]
Session(a) ==
  [kind |-> "session", actor |-> a, claimed |-> "session", needs |-> "session",
   scope |-> x, target |-> x]
GrantTo(by, cap, covers, until) ==
  [kind |-> "grant", actor |-> by, claimed |-> "grant", needs |-> "grant",
   scope |-> x, target |-> x, to |-> agent, what |-> cap, covers |-> covers, until |-> until]
RevokeFrom(a, cap) ==
  [kind |-> "revoke", actor |-> gov, claimed |-> "revoke", needs |-> "revoke",
   scope |-> x, target |-> x, to |-> a, what |-> cap]

MCCmd ==
  [login |-> Session(gov), seat |-> Session(root), give |-> GrantTo(gov, "create", {x}, 9),
   give2 |-> GrantTo(gov, "create", {x, y}, 9), take |-> RevokeFrom(agent, "create"),
   use |-> Use(x, x), use2 |-> Use(x, y),
   trust |-> GrantTo(gov, "grant", {x, y}, 9), self |-> GrantTo(agent, "create", {x, y}, 9),
   brief |-> GrantTo(gov, "create", {x}, 1), other |-> [Use(x, x) EXCEPT !.claimed = "grant"]]
MCCommands == DOMAIN MCCmd

\* Granted, revoked, granted again, and used meanwhile.
Orderly == {"login", "give", "give2", "take", "use", "use2"}
Agent   == {"login", "trust", "self", "brief", "other"}

\* The actor id 'governance' has had its answer before the others come.
Seated == pc["seat"] \notin {"new"} \cup InSubmit

MCNext ==
  /\ \/ orderly /\ \E c \in Orderly : Step(c)
     \/ ~orderly /\ (Step("seat") \/ (Seated /\ \E c \in Agent : Step(c)) \/ TimePasses \/ Restart)
  /\ UNCHANGED orderly
MCSpec == Init /\ [][MCNext]_vars
=============================================================================
