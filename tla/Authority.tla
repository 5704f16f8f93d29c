----------------------------- MODULE Authority -----------------------------
(***************************************************************************)
(* Who may do what: CommandBus.submit with its gates, the CapabilityEngine *)
(* (grants, revocations and the 300 s answer cache), the check of the same *)
(* grants by AuthorityBoundaryEnforcer inside KernelExecutor.execute, and  *)
(* materializeAuthorityEffects, which carries out a committed grant or     *)
(* revocation in the engine.                                               *)
(*                                                                         *)
(* The rest of the kernel is one step here, Commit or Fails; CommandKernel *)
(* models it.  The engine lives in memory; what is committed is durable.   *)
(***************************************************************************)
EXTENDS Integers, Sequences

CONSTANTS
  Actors,         \* actor ids
  Governors,      \* those of actor_type governance
  Anyone,         \* the key '*', whose grants every actor's check looks at too
  System,         \* granted_by of the grants the engine makes itself
  Caps,           \* capability ids
  GrantCap, RevokeCap, SessionCap,   \* governance.capability.grant, ..., identity.session.create
  AnyCap, GovernanceCaps,   \* the capability patterns '*' and 'governance.*'
  Root,           \* the actor id 'governance'
  Scopes,         \* what scopes and aggregate ids are told apart by a scope pattern
  Commands,       \* the envelopes submitted, each once
  Cmd,            \* what each of them says
  Ttl,            \* cacheTtlMs
  Forever,        \* a grant without expires_at
  MaxTime         \* bound on the clock

Kinds    == {"grant", "revoke", "session", "use"}
Patterns == SUBSET Scopes
Holders  == Actors \cup {Anyone}
CapPatterns == Caps \cup {AnyCap, GovernanceCaps}

ASSUME AuthorityAssumption ==
  /\ Governors \subseteq Actors
  /\ Anyone \notin Actors /\ System \notin Actors
  /\ {GrantCap, RevokeCap, SessionCap} \subseteq Caps
  /\ AnyCap \notin Caps /\ GovernanceCaps \notin Caps /\ AnyCap # GovernanceCaps
  /\ GrantCap # SessionCap /\ RevokeCap # SessionCap
  /\ Ttl \in Nat /\ MaxTime \in Nat /\ Forever \in Nat /\ Forever > MaxTime
  /\ \A c \in Commands :
       /\ Cmd[c].kind \in Kinds /\ Cmd[c].actor \in Actors
       /\ Cmd[c].claimed \in Caps   \* capability_id of the envelope
       /\ Cmd[c].needs \in Caps     \* what the command definition asks for
       /\ Cmd[c].scope \in Scopes /\ Cmd[c].target \in Scopes
       /\ (Cmd[c].kind = "session" => Cmd[c].needs = SessionCap)
       /\ (Cmd[c].kind \in {"grant", "revoke"} =>
             Cmd[c].to \in Holders /\ Cmd[c].what \in CapPatterns)
       /\ (Cmd[c].kind = "grant" =>
             Cmd[c].covers \in Patterns /\ Cmd[c].until \in 0..Forever)

VARIABLES
  grants,     \* CapabilityEngine.grants: each list as its entries, numbered in its order
  revoked,    \* CapabilityEngine.revoked
  cache,      \* CapabilityEngine.cache; expires = 0 where there is no entry
  now,        \* Date.now()
  pc,         \* how far each submit has come
  log,        \* the commands committed, in order
  since,      \* when each command was submitted
  earlier,    \* the commands that had been answered ACCEPTED by then
  orderly     \* the callers: TRUE: grants and revocations are submitted one at a time, and
              \* the process does not stop

vars == <<grants, revoked, cache, now, pc, log, since, earlier, orderly>>

InSubmit == {"gated", "bounded", "cleared", "committed"}
Authoritative(c) == Cmd[c].kind \in {"grant", "revoke"}
Pending == {c \in Commands : Authoritative(c) /\ pc[c] \in InSubmit}

Newest(a) == CHOOSE n \in {0} \cup {g.nr : g \in grants[a]} : \A g \in grants[a] : g.nr <= n
Grant(nr, cap, covers, until, by) ==
  [nr |-> nr, cap |-> cap, covers |-> covers, until |-> until, by |-> by]
Expired(g) == g.until < now

-----------------------------------------------------------------------------
(***************************************************************************)
(* CapabilityEngine.check: the cached answer if it has not expired,        *)
(* otherwise any live grant of the actor or of '*' that matches; without   *)
(* one, an expired match or a revocation denies, and identity.session      *)
(* .create is granted on the spot.                                         *)
(***************************************************************************)
NoCache == [k \in Actors \X Caps \X Scopes |-> [result |-> FALSE, expires |-> 0]]

CacheHit(k) == cache[k].expires > now

Matches(a, cap, scope) ==
  {g \in grants[a] \cup grants[Anyone] :
     /\ \/ g.cap \in {cap, AnyCap}
        \/ g.cap = GovernanceCaps /\ (cap \in {GrantCap, RevokeCap} \/ a = Root)
     /\ scope \in g.covers}

DefaultGranted(a, cap, scope) ==
  /\ cap = SessionCap /\ <<a, cap>> \notin revoked
  /\ Matches(a, cap, scope) = {}

Allowed(a, cap, scope) ==
  IF CacheHit(<<a, cap, scope>>) THEN cache[<<a, cap, scope>>].result
  ELSE \/ \E g \in Matches(a, cap, scope) : ~Expired(g)
       \/ DefaultGranted(a, cap, scope)

AfterCheck(a, cap, scope) ==
  LET k == <<a, cap, scope>>
      answer == [result |-> Allowed(a, cap, scope), expires |-> now + Ttl]
  IN  IF CacheHit(k) THEN UNCHANGED <<grants, revoked, cache>>
      ELSE IF DefaultGranted(a, cap, scope)
      THEN /\ grants' = [grants EXCEPT ![a] =
                           @ \cup {Grant(Newest(a) + 1, cap, Scopes, Forever, System)}]
           /\ cache'  = [NoCache EXCEPT ![k] = answer]
           /\ UNCHANGED revoked
      ELSE /\ cache'  = [cache EXCEPT ![k] = answer]
           /\ UNCHANGED <<grants, revoked>>

\* A seeded fault: who gave the grant is not kept.
DoGrantAnonymous(a, cap, covers, until, by) ==
  /\ grants'  = [grants EXCEPT ![a] =
                   @ \cup {[nr |-> Newest(a) + 1, cap |-> cap, covers |-> covers, until |-> until]}]
  /\ revoked' = revoked \ {<<a, cap>>}
  /\ cache'   = NoCache

\* A seeded fault: the cached answers survive a grant.
DoGrantKeepsCache(a, cap, covers, until, by) ==
  /\ grants'  = [grants EXCEPT ![a] = @ \cup {Grant(Newest(a) + 1, cap, covers, until, by)}]
  /\ revoked' = revoked \ {<<a, cap>>}
  /\ UNCHANGED cache

\* CapabilityEngine.grant
DoGrant(a, cap, covers, until, by) ==
  /\ grants'  = [grants EXCEPT ![a] = @ \cup {Grant(Newest(a) + 1, cap, covers, until, by)}]
  /\ revoked' = revoked \ {<<a, cap>>}
  /\ cache'   = NoCache

\* CapabilityEngine.revoke: every grant of exactly this capability goes.
DoRevoke(a, cap) ==
  /\ grants'  = [grants EXCEPT ![a] = {g \in @ : g.cap # cap}]
  /\ revoked' = revoked \cup {<<a, cap>>}
  /\ cache'   = NoCache

\* seedCompiledTypeDefaults: what a governance actor is given with its session.
DoSeed(a) ==
  LET given   == {cap \in {GrantCap, RevokeCap} : \A g \in grants[a] : g.cap # cap}
      nr(cap) == Newest(a) + IF cap = RevokeCap /\ GrantCap \in given THEN 2 ELSE 1
  IN  /\ grants'  = [grants EXCEPT ![a] =
                       @ \cup {Grant(nr(cap), cap, Scopes, Forever, System) : cap \in given}]
      /\ revoked' = revoked \ {<<a, cap>> : cap \in given}
      /\ cache'   = IF given = {} THEN cache ELSE NoCache

-----------------------------------------------------------------------------
(***************************************************************************)
(* AuthorityBoundaryEnforcer.check: the first grant of exactly the needed  *)
(* capability that covers the aggregate decides.                           *)
(***************************************************************************)
Candidates(c) ==
  {g \in grants[Cmd[c].actor] : g.cap = Cmd[c].needs /\ Cmd[c].target \in g.covers}

\* A seeded fault: the boundary trusts the earlier check about the expiry.
WithinAuthorityEver(c) == Candidates(c) # {}

WithinAuthority(c) ==
  \E g \in Candidates(c) : ~Expired(g) /\ \A h \in Candidates(c) : g.nr <= h.nr

\* A seeded fault: no actor type is asked for.
PermittedToAll(c) == TRUE

\* The gates on the envelope alone: the issuer's actor types, and INV-004.
Permitted(c) == Authoritative(c) => Cmd[c].actor \in Governors

Goto(c, label) == pc' = [pc EXCEPT ![c] = label]

-----------------------------------------------------------------------------
\* What the constructor leaves; rebuildFromStore runs before there is a store.
BootGrants ==
  [a \in Holders |->
     IF a = Root THEN {Grant(1, GovernanceCaps, Scopes, Forever, System)} ELSE {}]

Init ==
  /\ grants  = BootGrants
  /\ revoked = {}
  /\ cache   = NoCache
  /\ now     = 0
  /\ pc      = [c \in Commands |-> "new"]
  /\ log     = <<>>
  /\ since   = [c \in Commands |-> 0]
  /\ earlier = [c \in Commands |-> {}]
  /\ orderly \in BOOLEAN

\* submit up to the kernel: identity gate, capability gate, policy gate.
Gate(c) ==
  /\ pc[c] = "new" /\ Permitted(c)
  /\ Authoritative(c) /\ orderly => Pending = {}
  /\ Goto(c, IF Allowed(Cmd[c].actor, Cmd[c].claimed, Cmd[c].scope)
             THEN "gated" ELSE "denied")
  /\ AfterCheck(Cmd[c].actor, Cmd[c].claimed, Cmd[c].scope)
  /\ since'   = [since EXCEPT ![c] = now]
  /\ earlier' = [earlier EXCEPT ![c] = {d \in Commands : pc[d] = "accepted"}]
  /\ UNCHANGED <<now, log>>

\* The identity, policy, coverage or constitutional gate says no.
Refuse(c) ==
  /\ pc[c] = "new"
  /\ Goto(c, "refused")
  /\ UNCHANGED <<grants, revoked, cache, now, log, since, earlier>>

Boundary(c) ==
  /\ pc[c] = "gated"
  /\ Goto(c, IF WithinAuthority(c) THEN "bounded" ELSE "denied")
  /\ UNCHANGED <<grants, revoked, cache, now, log, since, earlier>>

\* KernelExecutor.capabilityCheck asks the engine again.
Recheck(c) ==
  /\ pc[c] = "bounded"
  /\ Goto(c, IF Allowed(Cmd[c].actor, Cmd[c].claimed, Cmd[c].scope)
             THEN "cleared" ELSE "denied")
  /\ AfterCheck(Cmd[c].actor, Cmd[c].claimed, Cmd[c].scope)
  /\ UNCHANGED <<now, log, since, earlier>>

Commit(c) ==
  /\ pc[c] = "cleared"
  /\ log' = Append(log, c)
  /\ Goto(c, "committed")
  /\ UNCHANGED <<grants, revoked, cache, now, since, earlier>>

\* A gate, a validation rule, the state machine or the store refuses.
Fails(c) ==
  /\ pc[c] \in {"bounded", "cleared"}
  /\ Goto(c, "refused")
  /\ UNCHANGED <<grants, revoked, cache, now, log, since, earlier>>

\* A seeded fault: a revocation is recorded and never carried out.
EffectsOfGrantsOnly(c) ==
  /\ pc[c] = "committed"
  /\ Goto(c, "accepted")
  /\ CASE Cmd[c].kind = "grant" ->
            DoGrant(Cmd[c].to, Cmd[c].what, Cmd[c].covers, Cmd[c].until, Cmd[c].actor)
       [] Cmd[c].kind = "session" -> DoSeed(Cmd[c].actor)
       [] OTHER -> UNCHANGED <<grants, revoked, cache>>
  /\ UNCHANGED <<now, log, since, earlier>>

\* materializeAuthorityEffects, once execute has answered ACCEPTED.
Effects(c) ==
  /\ pc[c] = "committed"
  /\ Goto(c, "accepted")
  /\ \/ /\ Cmd[c].kind = "grant"
        /\ DoGrant(Cmd[c].to, Cmd[c].what, Cmd[c].covers, Cmd[c].until, Cmd[c].actor)
     \/ /\ Cmd[c].kind = "revoke"
        /\ DoRevoke(Cmd[c].to, Cmd[c].what)
     \/ /\ Cmd[c].kind = "session" /\ Cmd[c].actor \in Governors
        /\ DoSeed(Cmd[c].actor)
     \/ /\ \/ Cmd[c].kind = "use"
           \/ Cmd[c].kind = "session" /\ Cmd[c].actor \notin Governors
        /\ UNCHANGED <<grants, revoked, cache>>
  /\ UNCHANGED <<now, log, since, earlier>>

TimePasses ==
  /\ now < MaxTime
  /\ now' = now + 1
  /\ UNCHANGED <<grants, revoked, cache, pc, log, since, earlier>>

\* The process boots: the engine is the constructor's, what was in flight is gone.
Restart ==
  /\ ~orderly
  /\ grants'  = BootGrants
  /\ revoked' = {}
  /\ cache'   = NoCache
  /\ pc'      = [c \in Commands |-> IF pc[c] \in InSubmit THEN "lost" ELSE pc[c]]
  /\ UNCHANGED <<now, log, since, earlier>>

Step(c) == Gate(c) \/ Refuse(c) \/ Boundary(c) \/ Recheck(c) \/ Commit(c) \/ Fails(c) \/ Effects(c)

Next ==
  /\ (\E c \in Commands : Step(c)) \/ TimePasses \/ Restart
  /\ UNCHANGED orderly

Spec == Init /\ [][Next]_vars
-----------------------------------------------------------------------------
GrantRecords ==
  [nr : Nat, cap : CapPatterns, covers : Patterns, until : 0..Forever, by : Actors \cup {System}]

TypeOK ==
  /\ grants \in [Holders -> SUBSET GrantRecords]
  /\ revoked \subseteq Holders \X CapPatterns
  /\ cache \in [Actors \X Caps \X Scopes -> [result : BOOLEAN, expires : Nat]]
  /\ now \in 0..MaxTime
  /\ pc \in [Commands -> InSubmit \cup {"new", "denied", "refused", "accepted", "lost"}]
  /\ log \in Seq(Commands)
  /\ since \in [Commands -> 0..MaxTime]
  /\ earlier \in [Commands -> SUBSET Commands]
  /\ orderly \in BOOLEAN

Committed    == {log[i] : i \in 1..Len(log)}
Before(c, d) == \E i, j \in 1..Len(log) : i < j /\ log[i] = c /\ log[j] = d

\* The grants the compiled defaults give without a command.
ByDefault(c) ==
  \/ Cmd[c].needs = SessionCap
  \/ Cmd[c].needs \in {GrantCap, RevokeCap} /\ Cmd[c].actor \in Governors

Gives(g, c) ==
  /\ Cmd[g].kind = "grant" /\ Cmd[g].to = Cmd[c].actor /\ Cmd[g].what = Cmd[c].needs
  /\ Cmd[c].target \in Cmd[g].covers

(***************************************************************************)
(* INV-003: whatever is committed rests on a grant that was committed      *)
(* before it, names its actor and the capability the command needs, covers *)
(* the aggregate and had not expired when the command was submitted - also *)
(* when the cached answer is older than the expiry, when the envelope      *)
(* claims another capability, and over restarts.                           *)
(***************************************************************************)
CommittedWasGranted ==
  \A c \in Committed : ~ByDefault(c) =>
    \E g \in Committed : Before(g, c) /\ Gives(g, c) /\ Cmd[g].until >= since[c]

(***************************************************************************)
(* A revocation that has been answered holds: a command submitted after it *)
(* is committed only if the capability was granted again in between.       *)
(***************************************************************************)
Takes(r, c) ==
  Cmd[r].kind = "revoke" /\ Cmd[r].to = Cmd[c].actor /\ Cmd[r].what = Cmd[c].needs

RevocationHolds ==
  \A c \in Committed : \A r \in earlier[c] : Takes(r, c) =>
    \E g \in Committed : /\ Before(r, g) /\ Before(g, c) /\ Cmd[g].kind = "grant"
                         /\ Cmd[g].to = Cmd[c].actor /\ Cmd[g].what = Cmd[c].needs

(***************************************************************************)
(* When no committed grant or revocation waits for its effect, the engine  *)
(* holds for each actor and capability exactly the grants the log has      *)
(* recorded since the last revocation.                                     *)
(***************************************************************************)
LoggedGrants(a, cap) ==
  {g \in Committed : /\ Cmd[g].kind = "grant" /\ Cmd[g].to = a /\ Cmd[g].what = cap
                     /\ \A r \in Committed :
                          Cmd[r].kind = "revoke" /\ Cmd[r].to = a /\ Cmd[r].what = cap
                            => Before(r, g)}

EngineMatchesLog ==
  (\A c \in Commands : Authoritative(c) => pc[c] # "committed") =>
    \A a \in Holders, cap \in CapPatterns :
      {<<g.covers, g.until, g.by>> : g \in {h \in grants[a] : h.cap = cap /\ h.by # System}} =
      {<<Cmd[g].covers, Cmd[g].until, Cmd[g].actor>> : g \in LoggedGrants(a, cap)}

(***************************************************************************)
(* Of authority commands that come one at a time: the engine follows the   *)
(* log, and a revocation holds.  When they overlap or the process restarts *)
(* neither is so.                                                          *)
(***************************************************************************)
Revocation == orderly => RevocationHolds /\ EngineMatchesLog

(***************************************************************************)
(* INV-004: a grant the engine did not make itself was made by a           *)
(* governance actor, even if someone else was given the capability to      *)
(* grant.                                                                  *)
(***************************************************************************)
OnlyGovernanceGrants ==
  \A a \in Holders : \A g \in grants[a] : g.by \in Governors \cup {System}

(***************************************************************************)
(* No command is denied at a moment when its actor holds a live grant of   *)
(* the needed capability for its scope and aggregate: neither an answer    *)
(* cached before the grant nor an older grant stands in its way.           *)
(***************************************************************************)
Entitled(c) ==
  \E g \in grants[Cmd[c].actor] :
    /\ g.cap = Cmd[c].needs /\ Cmd[c].claimed = Cmd[c].needs
    /\ {Cmd[c].scope, Cmd[c].target} \subseteq g.covers
    /\ ~Expired(g)

DeniedOnlyUnentitled ==
  [][\A c \in Commands : pc[c] # "denied" /\ pc'[c] = "denied" => ~Entitled(c)]_vars
=============================================================================
