-------------------------- MODULE AuthorityProofs --------------------------
(***************************************************************************)
(* Theorems about Authority for any actors, commands, cache lifetime and   *)
(* interleaving, restarts included.                                        *)
(***************************************************************************)
EXTENDS Authority, ListsProofs

\* The part of the type invariant the proofs need.
Shape ==
  /\ grants = [a \in Holders |-> grants[a]]
  /\ pc = [c \in Commands |-> pc[c]]
  /\ since \in [Commands -> 0..MaxTime]
  /\ now \in 0..MaxTime
  /\ log \in Seq(Commands)

LEMMA ShapeInvariant == Spec => []Shape
<1>. USE AuthorityAssumption
<1>1. Init => Shape
  BY DEF Init, Shape, BootGrants
<1>2. Shape /\ [Next]_vars => Shape'
  <2>. SUFFICES ASSUME Shape, [Next]_vars PROVE Shape'
    OBVIOUS
  <2>. USE DEF Shape, Goto
  <2>1. CASE UNCHANGED vars
    BY <2>1 DEF vars
  <2>2. ASSUME NEW a, NEW cap, NEW s, AfterCheck(a, cap, s)
        PROVE  grants' = [b \in Holders |-> grants'[b]]
    BY <2>2 DEF AfterCheck
  <2>3. ASSUME NEW c \in Commands, Step(c) PROVE Shape'
    <3>1. CASE Gate(c)
      BY <2>2, <3>1 DEF Gate
    <3>2. CASE Refuse(c) \/ Boundary(c) \/ Fails(c)
      BY <3>2 DEF Refuse, Boundary, Fails
    <3>3. CASE Recheck(c)
      BY <2>2, <3>3 DEF Recheck
    <3>4. CASE Commit(c)
      <4>1. Append(log, c) \in Seq(Commands)
        OBVIOUS
      <4>. QED  BY <3>4, <4>1 DEF Commit
    <3>5. CASE Effects(c)
      <4>1. ASSUME NEW a, NEW cap, NEW S, NEW u, NEW b,
                   DoGrant(a, cap, S, u, b) \/ DoRevoke(a, cap) \/ DoSeed(a)
            PROVE  grants' = [x \in Holders |-> grants'[x]]
        BY <4>1 DEF DoGrant, DoRevoke, DoSeed
      <4>2. grants' = [x \in Holders |-> grants'[x]]
        BY <3>5, <4>1 DEF Effects
      <4>. QED  BY <3>5, <4>2 DEF Effects
    <3>. QED  BY <2>3, <3>1, <3>2, <3>3, <3>4, <3>5 DEF Step
  <2>4. CASE TimePasses
    BY <2>4 DEF TimePasses
  <2>5. CASE Restart
    BY <2>5 DEF Restart, BootGrants
  <2>. QED  BY <2>1, <2>3, <2>4, <2>5 DEF Next
<1>. QED  BY <1>1, <1>2, PTL DEF Spec

-----------------------------------------------------------------------------
(***************************************************************************)
(* Where the grants of the engine come from.                               *)
(***************************************************************************)
\* A grant the compiled defaults allow the engine to make itself.
DefaultFor(a, g) ==
  /\ g.by = System /\ g.until = Forever
  /\ \/ g.cap \in {SessionCap, GovernanceCaps}
     \/ g.cap \in {GrantCap, RevokeCap} /\ a \in Governors

\* The grant that the command d makes.
MadeBy(d, a, g) ==
  /\ Cmd[d].kind = "grant" /\ Cmd[d].to = a
  /\ g.cap = Cmd[d].what /\ g.covers = Cmd[d].covers
  /\ g.until = Cmd[d].until /\ g.by = Cmd[d].actor

LEMMA GrantsStep ==
  ASSUME Shape, [Next]_vars, NEW a \in Holders, NEW g \in grants'[a]
  PROVE  \/ g \in grants[a]
         \/ DefaultFor(a, g)
         \/ \E d \in Commands : pc[d] = "committed" /\ MadeBy(d, a, g)
<1>. USE AuthorityAssumption DEF Shape
<1>1. CASE UNCHANGED vars
  BY <1>1 DEF vars
<1>2. ASSUME NEW b, NEW cap, NEW s, AfterCheck(b, cap, s)
      PROVE  g \in grants[a] \/ DefaultFor(a, g)
  <2>1. CASE UNCHANGED grants
    BY <2>1
  <2>2. CASE /\ cap = SessionCap
             /\ grants' = [grants EXCEPT ![b] =
                            @ \cup {Grant(Newest(b) + 1, cap, Scopes, Forever, System)}]
    <3>1. g \in grants[a] \/ g = Grant(Newest(b) + 1, cap, Scopes, Forever, System)
      BY <2>2, Zenon
    <3>. QED  BY <2>2, <3>1 DEF DefaultFor, Grant
  <2>. QED  BY <1>2, <2>1, <2>2, Zenon DEF AfterCheck, DefaultGranted
<1>3. ASSUME NEW c \in Commands, Step(c)
      PROVE  \/ g \in grants[a] \/ DefaultFor(a, g)
             \/ \E d \in Commands : pc[d] = "committed" /\ MadeBy(d, a, g)
  <2>1. CASE Gate(c)
    BY <1>2, <2>1 DEF Gate
  <2>2. CASE Refuse(c) \/ Boundary(c) \/ Fails(c) \/ Commit(c)
    BY <2>2 DEF Refuse, Boundary, Fails, Commit
  <2>3. CASE Recheck(c)
    BY <1>2, <2>3 DEF Recheck
  <2>4. CASE Effects(c)
    <3>1. CASE Cmd[c].kind = "grant"
               /\ DoGrant(Cmd[c].to, Cmd[c].what, Cmd[c].covers, Cmd[c].until, Cmd[c].actor)
      <4>1. PICK n : grants' = [grants EXCEPT ![Cmd[c].to] =
                                  @ \cup {Grant(n, Cmd[c].what, Cmd[c].covers,
                                               Cmd[c].until, Cmd[c].actor)}]
        BY <3>1, Zenon DEF DoGrant
      <4>2. \/ g \in grants[a]
            \/ a = Cmd[c].to /\ g = Grant(n, Cmd[c].what, Cmd[c].covers,
                                          Cmd[c].until, Cmd[c].actor)
        BY <4>1, Zenon
      <4>3. pc[c] = "committed"
        BY <2>4 DEF Effects
      <4>4. ASSUME a = Cmd[c].to, g = Grant(n, Cmd[c].what, Cmd[c].covers,
                                            Cmd[c].until, Cmd[c].actor)
            PROVE  MadeBy(c, a, g)
        BY <3>1, <4>4 DEF MadeBy, Grant
      <4>. QED  BY <4>2, <4>3, <4>4
    <3>2. CASE DoRevoke(Cmd[c].to, Cmd[c].what)
      BY <3>2 DEF DoRevoke
    <3>3. CASE Cmd[c].actor \in Governors /\ DoSeed(Cmd[c].actor)
      <4>. DEFINE b       == Cmd[c].actor
                  given   == {cap \in {GrantCap, RevokeCap} : \A h \in grants[b] : h.cap # cap}
                  nr(cap) == Newest(b) + IF cap = RevokeCap /\ GrantCap \in given THEN 2 ELSE 1
                  seeds   == {Grant(nr(cap), cap, Scopes, Forever, System) : cap \in given}
      <4>1. grants' = [grants EXCEPT ![b] = @ \cup seeds]
        BY <3>3, Zenon DEF DoSeed
      <4>2. \A h \in seeds : h.by = System /\ h.until = Forever /\ h.cap \in {GrantCap, RevokeCap}
        BY DEF Grant
      <4>. HIDE DEF seeds
      <4>. QED  BY <3>3, <4>1, <4>2 DEF DefaultFor
    <3>. QED  BY <2>4, <3>1, <3>2, <3>3 DEF Effects
  <2>. QED  BY <1>3, <2>1, <2>2, <2>3, <2>4 DEF Step
<1>4. CASE TimePasses
  BY <1>4 DEF TimePasses
<1>5. CASE Restart
  BY <1>5 DEF Restart, BootGrants, DefaultFor, Grant
<1>. QED  BY <1>1, <1>3, <1>4, <1>5 DEF Next

-----------------------------------------------------------------------------
(***************************************************************************)
(* The log only grows, by the command that commits.                        *)
(***************************************************************************)
LEMMA LogStep ==
  ASSUME [Next]_vars
  PROVE  \/ UNCHANGED log
         \/ \E c \in Commands : Commit(c)
<1>1. ASSUME NEW c \in Commands, Step(c) PROVE UNCHANGED log \/ Commit(c)
  BY <1>1 DEF Step, Gate, Refuse, Boundary, Recheck, Fails, Effects
<1>. QED  BY <1>1 DEF Next, vars, TimePasses, Restart

LEMMA LogGrows ==
  ASSUME Shape, [Next]_vars
  PROVE  /\ \A c \in Committed : c \in Committed'
         /\ \A c, d : Before(c, d) => Before(c, d)'
<1>1. CASE UNCHANGED log
  BY <1>1 DEF Committed, Before
<1>2. ASSUME NEW e \in Commands, log' = Append(log, e)
      PROVE  /\ \A c \in Committed : c \in Committed'
             /\ \A c, d : Before(c, d) => Before(c, d)'
  <2>1. Len(log') = Len(log) + 1 /\ \A i \in 1..Len(log) : log'[i] = log[i]
    BY <1>2 DEF Shape
  <2>2. 1..Len(log) \subseteq 1..Len(log')
    BY <2>1 DEF Shape
  <2>. QED  BY <2>1, <2>2 DEF Committed, Before
<1>. QED  BY <1>1, <1>2, LogStep DEF Commit

\* What a commit adds to the log comes after everything in it.
LEMMA CommitAppends ==
  ASSUME Shape, NEW e \in Commands, log' = Append(log, e)
  PROVE  /\ \A c \in Committed' : c \in Committed \/ c = e
         /\ \A g \in Committed : Before(g, e)'
<1>1. /\ Len(log') = Len(log) + 1 /\ Len(log) \in Nat
      /\ \A i \in 1..Len(log) : log'[i] = log[i]
      /\ log'[Len(log) + 1] = e
  BY DEF Shape
<1>. QED  BY <1>1 DEF Committed, Before

\* pc and log tell the same: what is committed has passed Commit.
Logged ==
  \A c \in Commands :
    /\ c \in Committed => pc[c] \in {"committed", "accepted", "lost"}
    /\ pc[c] = "committed" => c \in Committed
    /\ since[c] <= now

LEMMA LoggedInvariant == Spec => []Logged
<1>. USE AuthorityAssumption
<1>1. Init => Logged
  BY DEF Init, Logged, Committed
<1>2. Shape /\ Logged /\ [Next]_vars => Logged'
  <2>. SUFFICES ASSUME Shape, Logged, [Next]_vars, NEW d \in Commands
                PROVE  /\ d \in Committed' => pc'[d] \in {"committed", "accepted", "lost"}
                       /\ pc'[d] = "committed" => d \in Committed'
                       /\ since'[d] <= now'
    BY DEF Logged
  <2>. USE DEF Shape, Logged, Goto
  <2>1. CASE UNCHANGED vars
    BY <2>1 DEF vars, Committed
  <2>2. ASSUME NEW c \in Commands, Step(c), ~Commit(c)
        PROVE  /\ d \in Committed' => pc'[d] \in {"committed", "accepted", "lost"}
               /\ pc'[d] = "committed" => d \in Committed'
               /\ since'[d] <= now'
    <3>1. CASE Gate(c)
      BY <3>1 DEF Gate, Committed
    <3>2. CASE Refuse(c) \/ Boundary(c) \/ Recheck(c) \/ Fails(c) \/ Effects(c)
      <4>1. UNCHANGED <<log, since, now>>
        BY <3>2 DEF Refuse, Boundary, Recheck, Fails, Effects
      <4>2. /\ pc[c] = "committed" \/ pc[c] \in {"new", "gated", "bounded", "cleared"}
            /\ pc[c] = "committed" => pc' = [pc EXCEPT ![c] = "accepted"]
            /\ pc[c] # "committed" =>
                 \E label : pc' = [pc EXCEPT ![c] = label] /\ label # "committed"
        BY <3>2 DEF Refuse, Boundary, Recheck, Fails, Effects
      <4>3. Committed' = Committed
        BY <4>1 DEF Committed
      <4>. QED  BY <4>1, <4>2, <4>3
    <3>. QED  BY <2>2, <3>1, <3>2 DEF Step
  <2>3. ASSUME NEW c \in Commands, Commit(c)
        PROVE  /\ d \in Committed' => pc'[d] \in {"committed", "accepted", "lost"}
               /\ pc'[d] = "committed" => d \in Committed'
               /\ since'[d] <= now'
    <3>1. d \in Committed' => d \in Committed \/ d = c
      BY <2>3, CommitAppends DEF Commit
    <3>2. c \in Committed'
      BY <2>3 DEF Commit, Committed
    <3>3. d \in Committed => d \in Committed'
      BY LogGrows
    <3>. QED  BY <2>3, <3>1, <3>2, <3>3 DEF Commit
  <2>4. CASE TimePasses
    BY <2>4 DEF TimePasses, Committed
  <2>5. CASE Restart
    BY <2>5 DEF Restart, Committed, InSubmit
  <2>. QED  BY <2>1, <2>2, <2>3, <2>4, <2>5 DEF Next
<1>. QED  BY <1>1, <1>2, ShapeInvariant, PTL DEF Spec

-----------------------------------------------------------------------------
(***************************************************************************)
(* Every grant the engine holds is a compiled default or was committed.    *)
(***************************************************************************)
Backed ==
  \A a \in Holders : \A g \in grants[a] :
    DefaultFor(a, g) \/ \E d \in Committed : MadeBy(d, a, g)

LEMMA BackedInvariant == Spec => []Backed
<1>1. Init => Backed
  BY DEF Init, Backed, BootGrants, DefaultFor, Grant
<1>2. Shape /\ Logged /\ Backed /\ [Next]_vars => Backed'
  <2>. SUFFICES ASSUME Shape, Logged, Backed, [Next]_vars,
                       NEW a \in Holders, NEW g \in grants'[a]
                PROVE  DefaultFor(a, g) \/ \E d \in Committed' : MadeBy(d, a, g)
    BY DEF Backed, DefaultFor, MadeBy
  <2>1. \/ DefaultFor(a, g)
        \/ \E d \in Committed : MadeBy(d, a, g)
    BY GrantsStep DEF Backed, Logged
  <2>. QED  BY <2>1, LogGrows
<1>. QED  BY <1>1, <1>2, ShapeInvariant, LoggedInvariant, PTL DEF Spec

(***************************************************************************)
(* The inductive part of CommittedWasGranted: a command that has passed    *)
(* the boundary has its grant in the log already, whatever happens to the  *)
(* engine before it commits.                                               *)
(***************************************************************************)
Covered(c) ==
  ByDefault(c) \/ \E g \in Committed : Gives(g, c) /\ Cmd[g].until >= since[c]

Passed == \A c \in Commands : pc[c] \in {"bounded", "cleared"} => Covered(c)

LEMMA BoundaryCovers ==
  ASSUME Shape, Logged, Backed, NEW c \in Commands, WithinAuthority(c)
  PROVE  Covered(c)
<1>. USE AuthorityAssumption
<1>1. PICK g \in grants[Cmd[c].actor] :
        g.cap = Cmd[c].needs /\ Cmd[c].target \in g.covers /\ ~(g.until < now)
  BY DEF WithinAuthority, Candidates, Expired
<1>2. Cmd[c].actor \in Holders
  BY DEF Holders
<1>3. CASE DefaultFor(Cmd[c].actor, g)
  <2>1. g.cap # GovernanceCaps
    BY <1>1
  <2>. QED  BY <1>1, <1>3, <2>1 DEF DefaultFor, ByDefault, Covered
<1>4. ASSUME NEW d \in Committed, MadeBy(d, Cmd[c].actor, g) PROVE Covered(c)
  <2>1. Gives(d, c)
    BY <1>1, <1>4 DEF MadeBy, Gives
  <2>2. d \in Commands
    BY DEF Committed, Shape
  <2>3. Cmd[d].until \in 0..Forever /\ g.until = Cmd[d].until
    BY <1>4, <2>2 DEF MadeBy
  <2>4. Cmd[d].until >= since[c]
    BY <1>1, <2>3 DEF Logged, Shape
  <2>. QED  BY <2>1, <2>4 DEF Covered
<1>. QED  BY <1>2, <1>3, <1>4 DEF Backed

LEMMA CoveredStays ==
  ASSUME Shape, [Next]_vars, NEW c, Covered(c), UNCHANGED since
  PROVE  Covered(c)'
BY LogGrows DEF Covered, ByDefault, Gives

LEMMA SinceChanges ==
  ASSUME Shape, [Next]_vars, NEW c \in Commands, pc[c] # "new"
  PROVE  since'[c] = since[c]
<1>1. ASSUME NEW d \in Commands, Step(d) PROVE since'[c] = since[c]
  BY <1>1 DEF Step, Gate, Refuse, Boundary, Recheck, Commit, Fails, Effects, Shape
<1>. QED  BY <1>1 DEF Next, vars, TimePasses, Restart

LEMMA PassedInvariant == Spec => []Passed
<1>1. Init => Passed
  BY DEF Init, Passed
<1>2. Shape /\ Logged /\ Backed /\ Passed /\ [Next]_vars => Passed'
  <2>. SUFFICES ASSUME Shape, Logged, Backed, Passed, [Next]_vars, NEW c \in Commands,
                       pc'[c] \in {"bounded", "cleared"}
                PROVE  Covered(c)'
    BY DEF Passed
  <2>1. \/ pc[c] \in {"bounded", "cleared"}
        \/ pc[c] = "gated" /\ WithinAuthority(c)
    <3>1. ASSUME NEW d \in Commands, Step(d)
          PROVE  \/ pc[c] \in {"bounded", "cleared"}
                 \/ pc[c] = "gated" /\ WithinAuthority(c)
      BY <3>1 DEF Step, Gate, Refuse, Boundary, Recheck, Commit, Fails, Effects, Goto, Shape
    <3>2. CASE Restart
      BY <3>2 DEF Restart, InSubmit
    <3>. QED  BY <3>1, <3>2 DEF Next, vars, TimePasses
  <2>2. Covered(c) /\ since'[c] = since[c]
    BY <2>1, BoundaryCovers, SinceChanges DEF Passed
  <2>. QED  BY <2>2, LogGrows DEF Covered, ByDefault, Gives
<1>. QED  BY <1>1, <1>2, ShapeInvariant, LoggedInvariant, BackedInvariant, PTL DEF Spec

(***************************************************************************)
(* INV-003: whatever is committed rests on a committed grant that names    *)
(* its actor and capability, covers its aggregate and had not expired when *)
(* it was submitted.                                                       *)
(***************************************************************************)
THEOREM NothingWithoutGrant == Spec => []CommittedWasGranted
<1>1. Init => CommittedWasGranted
  BY DEF Init, CommittedWasGranted, Committed
<1>2. Shape /\ Logged /\ Passed /\ CommittedWasGranted /\ [Next]_vars => CommittedWasGranted'
  <2>. SUFFICES ASSUME Shape, Logged, Passed, CommittedWasGranted, [Next]_vars,
                       NEW c \in Committed', ~ByDefault(c)
                PROVE  \E g \in Committed' :
                         Before(g, c)' /\ Gives(g, c) /\ Cmd[g].until >= since'[c]
    BY DEF CommittedWasGranted, ByDefault, Gives
  <2>1. CASE c \in Committed
    <3>1. c \in Commands /\ pc[c] # "new"
      BY <2>1 DEF Committed, Shape, Logged
    <3>2. since'[c] = since[c]
      BY <3>1, SinceChanges
    <3>. QED  BY <2>1, <3>2, LogGrows DEF CommittedWasGranted
  <2>2. CASE c \notin Committed
    <3>1. PICK e \in Commands : Commit(e)
      BY <2>2, LogStep DEF Committed
    <3>2. c = e /\ \A g \in Committed : Before(g, c)'
      BY <2>2, <3>1, CommitAppends DEF Commit
    <3>3. PICK g \in Committed : Gives(g, c) /\ Cmd[g].until >= since[c]
      BY <3>1, <3>2 DEF Commit, Passed, Covered
    <3>. QED  BY <3>1, <3>2, <3>3, LogGrows DEF Commit
  <2>. QED  BY <2>1, <2>2
<1>. QED  BY <1>1, <1>2, ShapeInvariant, LoggedInvariant, PassedInvariant, PTL DEF Spec

-----------------------------------------------------------------------------
(***************************************************************************)
(* INV-004: only governance actors make grants, whoever holds the          *)
(* capability to.                                                          *)
(***************************************************************************)
ByGovernance ==
  \A c \in Commands : Cmd[c].kind = "grant" /\ pc[c] \in InSubmit => Cmd[c].actor \in Governors

THEOREM GrantsComeFromGovernance == Spec => []OnlyGovernanceGrants
<1>1. Init => ByGovernance /\ OnlyGovernanceGrants
  BY DEF Init, ByGovernance, InSubmit, OnlyGovernanceGrants, BootGrants, Grant
<1>2. Shape /\ ByGovernance /\ [Next]_vars => ByGovernance'
  <2>. SUFFICES ASSUME Shape, ByGovernance, [Next]_vars, NEW c \in Commands,
                       Cmd[c].kind = "grant", pc'[c] \in InSubmit, Cmd[c].actor \notin Governors
                PROVE  FALSE
    BY DEF ByGovernance
  <2>. USE DEF Shape, ByGovernance, InSubmit
  <2>1. ASSUME NEW d \in Commands, Step(d) PROVE FALSE
    BY <2>1 DEF Step, Gate, Refuse, Boundary, Recheck, Commit, Fails, Effects, Goto,
                Permitted, Authoritative
  <2>2. CASE Restart
    BY <2>2 DEF Restart
  <2>. QED  BY <2>1, <2>2 DEF Next, vars, TimePasses
<1>3. Shape /\ ByGovernance /\ OnlyGovernanceGrants /\ [Next]_vars => OnlyGovernanceGrants'
  <2>. SUFFICES ASSUME Shape, ByGovernance, OnlyGovernanceGrants, [Next]_vars,
                       NEW a \in Holders, NEW g \in grants'[a]
                PROVE  g.by \in Governors \cup {System}
    BY DEF OnlyGovernanceGrants
  <2>. QED  BY GrantsStep DEF OnlyGovernanceGrants, ByGovernance, InSubmit, DefaultFor, MadeBy
<1>. QED  BY <1>1, <1>2, <1>3, ShapeInvariant, PTL DEF Spec

-----------------------------------------------------------------------------
(***************************************************************************)
(* Types.  The numbers of an actor's grants are bounded, so that there is  *)
(* a newest one.                                                           *)
(***************************************************************************)
Counted == \A a \in Holders : \E m \in Nat : \A g \in grants[a] : g.nr <= m

EngineType ==
  /\ grants \in [Holders -> SUBSET GrantRecords]
  /\ revoked \subseteq Holders \X CapPatterns
  /\ cache \in [Actors \X Caps \X Scopes -> [result : BOOLEAN, expires : Nat]]
  /\ Counted

LEMMA NewestIsNumber ==
  ASSUME EngineType, NEW a \in Holders
  PROVE  Newest(a) \in Nat /\ \A g \in grants[a] : g.nr <= Newest(a)
<1>. DEFINE N == {0} \cup {g.nr : g \in grants[a]}
            U == {m \in Nat : \A n \in N : n <= m}
<1>1. grants[a] \subseteq GrantRecords /\ \A g \in grants[a] : g.nr \in Nat
  BY DEF EngineType, GrantRecords
<1>2. N \subseteq Nat /\ 0 \in N
  BY <1>1
<1>3. U \subseteq Nat /\ U # {}
  <2>1. PICK m \in Nat : \A g \in grants[a] : g.nr <= m
    BY DEF EngineType, Counted
  <2>2. \A n \in N : n <= m
    BY <2>1
  <2>. QED  BY <2>2
<1>4. PICK u \in U : \A m \in U : u <= m
  <2>. HIDE DEF U
  <2>. QED  BY <1>3, Least
<1>5. u \in N
  <2>. SUFFICES ASSUME u \notin N PROVE FALSE
    OBVIOUS
  <2>1. u \in Nat /\ \A n \in N : n \in Nat /\ n <= u /\ n # u
    BY <1>2
  <2>2. u # 0 /\ \A n \in N : n <= u - 1
    <3>1. u # 0
      BY <1>2, <2>1
    <3>2. ASSUME NEW n \in N PROVE n <= u - 1
      <4>1. n \in Nat /\ n <= u /\ n # u /\ u \in Nat
        BY <2>1
      <4>. HIDE DEF N, U
      <4>. QED  BY <4>1
    <3>. QED  BY <3>1, <3>2
  <2>3. u - 1 \in U
    BY <2>1, <2>2
  <2>. QED  BY <1>4, <2>1, <2>3
<1>6. \E n \in N : \A g \in grants[a] : g.nr <= n
  BY <1>5
<1>7. Newest(a) \in N /\ \A g \in grants[a] : g.nr <= Newest(a)
  <2>. HIDE DEF N
  <2>1. Newest(a) = CHOOSE n \in N : \A g \in grants[a] : g.nr <= n
    BY DEF Newest, N
  <2>. QED  BY <1>6, <2>1
<1>. QED  BY <1>2, <1>7

LEMMA GrantIsRecord ==
  ASSUME NEW nr \in Nat, NEW cap \in CapPatterns, NEW covers \in Patterns,
         NEW until \in 0..Forever, NEW by \in Actors \cup {System}
  PROVE  Grant(nr, cap, covers, until, by) \in GrantRecords
BY DEF Grant, GrantRecords

\* The grants the engine makes itself.
LEMMA SystemGrant ==
  ASSUME NEW nr \in Nat, NEW cap \in Caps \cup {GovernanceCaps}
  PROVE  Grant(nr, cap, Scopes, Forever, System) \in GrantRecords
<1>1. cap \in CapPatterns /\ Scopes \in Patterns /\ Forever \in 0..Forever /\ System \in Actors \cup {System}
  BY AuthorityAssumption DEF CapPatterns, Patterns
<1>. QED  BY <1>1, GrantIsRecord

LEMMA NoCacheType == NoCache \in [Actors \X Caps \X Scopes -> [result : BOOLEAN, expires : Nat]]
BY DEF NoCache

LEMMA AddedGrants ==
  ASSUME EngineType, NEW a \in Holders, NEW S \in SUBSET GrantRecords,
         NEW m \in Nat, \A g \in S : g.nr <= m,
         grants' = [grants EXCEPT ![a] = @ \cup S]
  PROVE  grants' \in [Holders -> SUBSET GrantRecords] /\ Counted'
<1>1. grants' \in [Holders -> SUBSET GrantRecords]
  BY DEF EngineType
<1>2. ASSUME NEW b \in Holders PROVE \E n \in Nat : \A g \in grants'[b] : g.nr <= n
  <2>1. PICK n \in Nat : \A g \in grants[b] : g.nr <= n
    BY DEF EngineType, Counted
  <2>2. \A g \in grants'[b] : g \in grants[b] \/ g \in S
    BY DEF EngineType
  <2>3. \A g \in grants'[b] : g.nr \in Nat
    BY <1>1 DEF GrantRecords
  <2>4. PICK k \in Nat : m <= k /\ n <= k
    <3>1. CASE m <= n
      BY <3>1
    <3>2. CASE n <= m
      BY <3>2
    <3>. QED  BY <3>1, <3>2
  <2>5. \A g \in grants'[b] : g.nr <= k
    <3>1. ASSUME NEW g \in grants'[b] PROVE g.nr <= k
      <4>1. g.nr <= n \/ g.nr <= m
        BY <2>1, <2>2
      <4>2. g.nr \in Nat
        BY <2>3
      <4>. QED  BY <2>4, <4>1, <4>2
    <3>. QED  BY <3>1
  <2>. QED  BY <2>5
<1>. QED  BY <1>1, <1>2 DEF Counted

LEMMA CheckKeepsType ==
  ASSUME EngineType, now \in Nat, NEW a \in Actors, NEW cap \in Caps, NEW scope \in Scopes,
         AfterCheck(a, cap, scope)
  PROVE  EngineType'
<1>. DEFINE k      == <<a, cap, scope>>
            answer == [result |-> Allowed(a, cap, scope), expires |-> now + Ttl]
            given  == Grant(Newest(a) + 1, cap, Scopes, Forever, System)
<1>0. k \in Actors \X Caps \X Scopes /\ a \in Holders
  BY DEF Holders
<1>1. answer \in [result : BOOLEAN, expires : Nat]
  <2>1. now + Ttl \in Nat
    BY AuthorityAssumption
  <2>2. Allowed(a, cap, scope) \in BOOLEAN
    BY <1>0 DEF Allowed, EngineType
  <2>. QED  BY <2>1, <2>2
<1>2. CASE UNCHANGED <<grants, revoked, cache>>
  BY <1>2 DEF EngineType, Counted
<1>3. CASE cache' = [cache EXCEPT ![k] = answer] /\ UNCHANGED <<grants, revoked>>
  <2>1. cache' \in [Actors \X Caps \X Scopes -> [result : BOOLEAN, expires : Nat]]
    <3>. HIDE DEF answer, k
    <3>. QED  BY <1>0, <1>1, <1>3 DEF EngineType
  <2>. QED  BY <1>3, <2>1 DEF EngineType, Counted
<1>4. CASE /\ grants' = [grants EXCEPT ![a] = @ \cup {given}]
           /\ cache' = [NoCache EXCEPT ![k] = answer] /\ UNCHANGED revoked
  <2>1. cache' \in [Actors \X Caps \X Scopes -> [result : BOOLEAN, expires : Nat]]
    <3>. HIDE DEF answer, k
    <3>. QED  BY <1>0, <1>1, <1>4, NoCacheType
  <2>2. Newest(a) + 1 \in Nat
    BY <1>0, NewestIsNumber
  <2>3. given \in GrantRecords /\ given.nr = Newest(a) + 1
    BY <2>2, SystemGrant DEF Grant
  <2>4. grants' \in [Holders -> SUBSET GrantRecords] /\ Counted'
    <3>. DEFINE S == {given}
    <3>1. S \in SUBSET GrantRecords /\ \A g \in S : g.nr <= Newest(a) + 1
      BY <2>2, <2>3
    <3>2. grants' = [grants EXCEPT ![a] = @ \cup S]
      BY <1>4
    <3>. HIDE DEF S
    <3>. QED  BY <1>0, <2>2, <3>1, <3>2, AddedGrants
  <2>. QED  BY <1>4, <2>1, <2>4 DEF EngineType
<1>. QED  BY <1>2, <1>3, <1>4, Zenon DEF AfterCheck

LEMMA GrantKeepsType ==
  ASSUME EngineType, NEW a \in Holders, NEW cap \in CapPatterns, NEW covers \in Patterns,
         NEW until \in 0..Forever, NEW by \in Actors, DoGrant(a, cap, covers, until, by)
  PROVE  EngineType'
<1>. DEFINE g0 == Grant(Newest(a) + 1, cap, covers, until, by)
            S  == {g0}
<1>1. Newest(a) + 1 \in Nat
  BY NewestIsNumber
<1>2. g0 \in GrantRecords /\ g0.nr = Newest(a) + 1
  BY <1>1, GrantIsRecord DEF Grant
<1>3. S \in SUBSET GrantRecords /\ \A g \in S : g.nr <= Newest(a) + 1
  BY <1>1, <1>2
<1>4. grants' = [grants EXCEPT ![a] = @ \cup S]
  BY DEF DoGrant
<1>5. grants' \in [Holders -> SUBSET GrantRecords] /\ Counted'
  <2>. HIDE DEF S
  <2>. QED  BY <1>1, <1>3, <1>4, AddedGrants
<1>. QED  BY <1>5, NoCacheType DEF EngineType, DoGrant

LEMMA RevokeKeepsType ==
  ASSUME EngineType, NEW a \in Holders, NEW cap \in CapPatterns, DoRevoke(a, cap)
  PROVE  EngineType'
<1>1. /\ grants' \in [Holders -> SUBSET GrantRecords]
      /\ \A b \in Holders : grants'[b] \subseteq grants[b]
  BY DEF EngineType, DoRevoke
<1>2. Counted'
  BY <1>1 DEF EngineType, Counted
<1>. QED  BY <1>1, <1>2, NoCacheType DEF EngineType, DoRevoke

LEMMA SeedKeepsType ==
  ASSUME EngineType, NEW a \in Holders, DoSeed(a)
  PROVE  EngineType'
<1>. DEFINE given   == {cap \in {GrantCap, RevokeCap} : \A g \in grants[a] : g.cap # cap}
            nr(cap) == Newest(a) + IF cap = RevokeCap /\ GrantCap \in given THEN 2 ELSE 1
            S       == {Grant(nr(cap), cap, Scopes, Forever, System) : cap \in given}
<1>1. Newest(a) \in Nat /\ Newest(a) + 2 \in Nat
  BY NewestIsNumber
<1>2. \A cap : nr(cap) \in Nat /\ nr(cap) <= Newest(a) + 2
  BY <1>1
<1>3. S \in SUBSET GrantRecords /\ \A g \in S : g.nr <= Newest(a) + 2
  <2>1. ASSUME NEW cap \in given
        PROVE  /\ Grant(nr(cap), cap, Scopes, Forever, System) \in GrantRecords
               /\ Grant(nr(cap), cap, Scopes, Forever, System).nr <= Newest(a) + 2
    <3>1. cap \in Caps \cup {GovernanceCaps}
      BY AuthorityAssumption
    <3>2. nr(cap) \in Nat /\ nr(cap) <= Newest(a) + 2
      BY <1>2
    <3>. HIDE DEF nr
    <3>3. Grant(nr(cap), cap, Scopes, Forever, System) \in GrantRecords
      BY <3>1, <3>2, SystemGrant
    <3>4. Grant(nr(cap), cap, Scopes, Forever, System).nr = nr(cap)
      BY DEF Grant
    <3>. QED  BY <3>2, <3>3, <3>4
  <2>. HIDE DEF nr, given
  <2>. QED  BY <2>1
<1>4. grants' = [grants EXCEPT ![a] = @ \cup S]
  BY Zenon DEF DoSeed
<1>5. grants' \in [Holders -> SUBSET GrantRecords] /\ Counted'
  <2>. HIDE DEF S
  <2>. QED  BY <1>1, <1>3, <1>4, AddedGrants
<1>6. revoked' \subseteq revoked /\ (cache' = cache \/ cache' = NoCache)
  BY DEF DoSeed
<1>. QED  BY <1>5, <1>6, NoCacheType DEF EngineType

\* What a command of each kind says.
LEMMA Says ==
  ASSUME NEW c \in Commands
  PROVE  /\ Cmd[c].actor \in Actors /\ Cmd[c].actor \in Holders /\ Cmd[c].claimed \in Caps
         /\ Cmd[c].scope \in Scopes
         /\ Authoritative(c) => Cmd[c].to \in Holders /\ Cmd[c].what \in CapPatterns
         /\ Cmd[c].kind = "grant" => Cmd[c].covers \in Patterns /\ Cmd[c].until \in 0..Forever
BY AuthorityAssumption DEF AuthorityAssumption, Authoritative, Holders

LEMMA BootType ==
  /\ BootGrants \in [Holders -> SUBSET GrantRecords]
  /\ \A a \in Holders : \A g \in BootGrants[a] : g.nr <= 1
<1>1. Grant(1, GovernanceCaps, Scopes, Forever, System) \in GrantRecords
  BY SystemGrant
<1>2. Grant(1, GovernanceCaps, Scopes, Forever, System).nr <= 1
  BY DEF Grant
<1>. QED  BY <1>1, <1>2 DEF BootGrants

Labels == InSubmit \cup {"new", "denied", "refused", "accepted", "lost"}

LEMMA EngineStepTypes ==
  ASSUME TypeOK, Counted, NEW c \in Commands, Gate(c) \/ Recheck(c) \/ Effects(c)
  PROVE  EngineType'
<1>0. EngineType /\ now \in Nat
  BY DEF TypeOK, EngineType
<1>1. CASE Gate(c) \/ Recheck(c)
  <2>1. AfterCheck(Cmd[c].actor, Cmd[c].claimed, Cmd[c].scope)
    BY <1>1 DEF Gate, Recheck
  <2>2. Cmd[c].actor \in Actors /\ Cmd[c].claimed \in Caps /\ Cmd[c].scope \in Scopes
    BY Says
  <2>. QED  BY <1>0, <2>1, <2>2, CheckKeepsType
<1>2. CASE Effects(c)
  <2>1. CASE Cmd[c].kind = "grant"
             /\ DoGrant(Cmd[c].to, Cmd[c].what, Cmd[c].covers, Cmd[c].until, Cmd[c].actor)
    <3>1. /\ Cmd[c].to \in Holders /\ Cmd[c].what \in CapPatterns
          /\ Cmd[c].covers \in Patterns /\ Cmd[c].until \in 0..Forever /\ Cmd[c].actor \in Actors
      BY <2>1, Says DEF Authoritative
    <3>2. DoGrant(Cmd[c].to, Cmd[c].what, Cmd[c].covers, Cmd[c].until, Cmd[c].actor)
      BY <2>1
    <3>. QED  BY <1>0, <3>1, <3>2, GrantKeepsType
  <2>2. CASE Cmd[c].kind = "revoke" /\ DoRevoke(Cmd[c].to, Cmd[c].what)
    <3>1. Cmd[c].to \in Holders /\ Cmd[c].what \in CapPatterns
      BY <2>2, Says DEF Authoritative
    <3>. QED  BY <1>0, <2>2, <3>1, RevokeKeepsType
  <2>3. CASE DoSeed(Cmd[c].actor)
    <3>1. Cmd[c].actor \in Holders
      BY Says
    <3>. QED  BY <1>0, <2>3, <3>1, SeedKeepsType
  <2>4. CASE UNCHANGED <<grants, revoked, cache>>
    BY <1>0, <2>4 DEF EngineType, Counted
  <2>. QED  BY <1>2, <2>1, <2>2, <2>3, <2>4 DEF Effects
<1>. QED  BY <1>1, <1>2

LEMMA OthersTypes ==
  ASSUME TypeOK, NEW c \in Commands, Step(c)
  PROVE  /\ now' \in 0..MaxTime /\ pc' \in [Commands -> Labels] /\ log' \in Seq(Commands)
         /\ since' \in [Commands -> 0..MaxTime] /\ earlier' \in [Commands -> SUBSET Commands]
<1>. USE DEF TypeOK, Goto, Labels, InSubmit
<1>1. CASE Gate(c)
  <2>1. now' \in 0..MaxTime /\ log' \in Seq(Commands) /\ pc' \in [Commands -> Labels]
    BY <1>1 DEF Gate
  <2>2. since' \in [Commands -> 0..MaxTime] /\ earlier' \in [Commands -> SUBSET Commands]
    BY <1>1 DEF Gate
  <2>. QED  BY <2>1, <2>2
<1>2. CASE Refuse(c) \/ Boundary(c) \/ Fails(c)
  BY <1>2 DEF Refuse, Boundary, Fails
<1>3. CASE Recheck(c)
  BY <1>3 DEF Recheck
<1>4. CASE Commit(c)
  <2>1. Append(log, c) \in Seq(Commands)
    OBVIOUS
  <2>. QED  BY <1>4, <2>1 DEF Commit
<1>5. CASE Effects(c)
  BY <1>5 DEF Effects
<1>. QED  BY <1>1, <1>2, <1>3, <1>4, <1>5 DEF Step

LEMMA TypeInvariant == Spec => [](TypeOK /\ Counted)
<1>1. Init => TypeOK /\ Counted
  <2>. SUFFICES ASSUME Init PROVE TypeOK /\ Counted
    OBVIOUS
  <2>1. Counted
    BY BootType DEF Init, Counted
  <2>2. 0 \in 0..MaxTime /\ <<>> \in Seq(Commands) /\ [c \in Commands |-> 0] \in [Commands -> 0..MaxTime]
    BY AuthorityAssumption DEF AuthorityAssumption
  <2>. QED  BY <2>1, <2>2, BootType, NoCacheType DEF Init, TypeOK
<1>2. TypeOK /\ Counted /\ [Next]_vars => TypeOK' /\ Counted'
  <2>. SUFFICES ASSUME TypeOK, Counted, [Next]_vars PROVE TypeOK' /\ Counted'
    OBVIOUS
  <2>1. CASE UNCHANGED vars
    BY <2>1 DEF vars, TypeOK, Counted
  <2>2. ASSUME NEW c \in Commands, Step(c), orderly' = orderly PROVE TypeOK' /\ Counted'
    <3>1. EngineType'
      <4>1. CASE Gate(c) \/ Recheck(c) \/ Effects(c)
        BY <4>1, EngineStepTypes
      <4>2. CASE UNCHANGED <<grants, revoked, cache>>
        BY <4>2 DEF EngineType, TypeOK, Counted
      <4>. QED  BY <2>2, <4>1, <4>2 DEF Step, Refuse, Boundary, Fails, Commit
    <3>. QED  BY <2>2, <3>1, OthersTypes DEF EngineType, TypeOK, Labels
  <2>3. CASE TimePasses /\ orderly' = orderly
    <3>1. now' \in 0..MaxTime
      BY <2>3, AuthorityAssumption DEF TimePasses, TypeOK, AuthorityAssumption
    <3>. QED  BY <2>3, <3>1 DEF TimePasses, TypeOK, Counted
  <2>4. CASE Restart /\ orderly' = orderly
    <3>1. Counted'
      BY <2>4, BootType DEF Restart, Counted
    <3>2. pc' \in [Commands -> InSubmit \cup {"new", "denied", "refused", "accepted", "lost"}]
      BY <2>4 DEF Restart, TypeOK, InSubmit
    <3>. QED  BY <2>4, <3>1, <3>2, BootType, NoCacheType DEF Restart, TypeOK
  <2>. QED  BY <2>1, <2>2, <2>3, <2>4 DEF Next
<1>. QED  BY <1>1, <1>2, PTL DEF Spec

(***************************************************************************)
(* Every variable keeps its type; in particular every grant the engine     *)
(* holds has the fields a check looks at, whoever made it.                 *)
(***************************************************************************)
THEOREM TypeCorrect == Spec => []TypeOK
<1>. QED  BY TypeInvariant, PTL

-----------------------------------------------------------------------------
(***************************************************************************)
(* The cache.  An answer that is kept and says no was given when the actor *)
(* had no live grant, and it has been given none since: whatever adds a    *)
(* grant throws the answers away.                                          *)
(***************************************************************************)
LiveMatch(a, cap, s) == \E g \in Matches(a, cap, s) : ~Expired(g)

CacheTrue ==
  \A a \in Actors, cap \in Caps, s \in Scopes :
    CacheHit(<<a, cap, s>>) /\ ~cache[<<a, cap, s>>].result => ~LiveMatch(a, cap, s)

LEMMA NoCacheTrue ==
  ASSUME cache' = NoCache \/ (cache' = cache /\ grants' = grants),
         CacheTrue, TypeOK, now' = now
  PROVE  CacheTrue'
<1>1. CASE cache' = NoCache
  <2>1. ASSUME NEW a \in Actors, NEW cap \in Caps, NEW s \in Scopes PROVE ~CacheHit(<<a, cap, s>>)'
    <3>1. cache'[<<a, cap, s>>].expires = 0 /\ now \in Nat
      BY <1>1 DEF NoCache, TypeOK
    <3>. QED  BY <3>1 DEF CacheHit
  <2>. QED  BY <2>1 DEF CacheTrue
<1>2. CASE cache' = cache /\ grants' = grants
  BY <1>2 DEF CacheTrue, CacheHit, LiveMatch, Matches, Expired
<1>. QED  BY <1>1, <1>2

LEMMA CheckKeepsCacheTrue ==
  ASSUME TypeOK, CacheTrue, now' = now, NEW a \in Actors, NEW cap \in Caps, NEW s \in Scopes,
         AfterCheck(a, cap, s)
  PROVE  CacheTrue'
<1>. DEFINE k == <<a, cap, s>>
            answer == [result |-> Allowed(a, cap, s), expires |-> now + Ttl]
<1>1. CASE UNCHANGED <<grants, revoked, cache>>
  BY <1>1, NoCacheTrue
<1>2. CASE ~CacheHit(k) /\ DefaultGranted(a, cap, s) /\ cache' = [NoCache EXCEPT ![k] = answer]
  <2>1. answer.result <=> TRUE
    BY <1>2 DEF Allowed
  <2>2. ASSUME NEW b \in Actors, NEW e \in Caps, NEW t \in Scopes
        PROVE  ~(CacheHit(<<b, e, t>>)' /\ ~cache'[<<b, e, t>>].result)
    <3>1. CASE <<b, e, t>> = k
      <4>1. cache'[<<b, e, t>>] = answer
        BY <1>2, <3>1 DEF NoCache
      <4>. QED  BY <2>1, <4>1
    <3>2. CASE <<b, e, t>> # k
      <4>1. cache'[<<b, e, t>>].expires = 0 /\ now \in Nat
        BY <1>2, <3>2 DEF NoCache, TypeOK
      <4>. QED  BY <4>1 DEF CacheHit
    <3>. QED  BY <3>1, <3>2
  <2>. QED  BY <2>2 DEF CacheTrue
<1>3. CASE /\ ~CacheHit(k) /\ ~DefaultGranted(a, cap, s)
           /\ cache' = [cache EXCEPT ![k] = answer] /\ grants' = grants
  <2>1. answer.result <=> LiveMatch(a, cap, s)
    BY <1>3 DEF Allowed, LiveMatch
  <2>2. \A b, e, t : LiveMatch(b, e, t)' <=> LiveMatch(b, e, t)
    BY <1>3 DEF LiveMatch, Matches, Expired
  <2>3. ASSUME NEW b \in Actors, NEW e \in Caps, NEW t \in Scopes,
               CacheHit(<<b, e, t>>)', ~cache'[<<b, e, t>>].result
        PROVE  ~LiveMatch(b, e, t)'
    <3>0. <<b, e, t>> \in Actors \X Caps \X Scopes
      OBVIOUS
    <3>1. CASE <<b, e, t>> = k
      <4>1. cache'[<<b, e, t>>] = answer /\ b = a /\ e = cap /\ t = s
        <5>. HIDE DEF answer
        <5>. QED  BY <1>3, <3>0, <3>1 DEF TypeOK
      <4>2. ~answer.result
        BY <2>3, <4>1
      <4>3. ~LiveMatch(a, cap, s)
        BY <2>1, <4>2
      <4>. QED  BY <2>2, <4>1, <4>3
    <3>2. CASE <<b, e, t>> # k
      <4>1. cache'[<<b, e, t>>] = cache[<<b, e, t>>]
        <5>. HIDE DEF answer
        <5>. QED  BY <1>3, <3>0, <3>2 DEF TypeOK
      <4>2. CacheHit(<<b, e, t>>) /\ ~cache[<<b, e, t>>].result
        BY <2>3, <4>1 DEF CacheHit
      <4>3. ~LiveMatch(b, e, t)
        BY <4>2 DEF CacheTrue
      <4>. QED  BY <2>2, <4>3
    <3>. QED  BY <3>1, <3>2
  <2>. QED  BY <2>3 DEF CacheTrue
<1>. QED  BY <1>1, <1>2, <1>3, Zenon DEF AfterCheck

LEMMA CacheInvariant == Spec => []CacheTrue
<1>1. Init => CacheTrue
  <2>. SUFFICES ASSUME Init, NEW a \in Actors, NEW cap \in Caps, NEW s \in Scopes
                PROVE  ~CacheHit(<<a, cap, s>>)
    BY DEF CacheTrue
  <2>1. cache[<<a, cap, s>>].expires = 0 /\ now = 0
    BY DEF Init, NoCache
  <2>. QED  BY <2>1 DEF CacheHit
<1>2. TypeOK /\ CacheTrue /\ [Next]_vars => CacheTrue'
  <2>. SUFFICES ASSUME TypeOK, CacheTrue, [Next]_vars PROVE CacheTrue'
    OBVIOUS
  <2>1. CASE UNCHANGED vars
    BY <2>1, NoCacheTrue DEF vars
  <2>2. ASSUME NEW c \in Commands, Step(c) PROVE CacheTrue'
    <3>1. CASE Gate(c) \/ Recheck(c)
      <4>1. AfterCheck(Cmd[c].actor, Cmd[c].claimed, Cmd[c].scope) /\ now' = now
        BY <3>1 DEF Gate, Recheck
      <4>2. Cmd[c].actor \in Actors /\ Cmd[c].claimed \in Caps /\ Cmd[c].scope \in Scopes
        BY Says
      <4>. QED  BY <4>1, <4>2, CheckKeepsCacheTrue
    <3>2. CASE Refuse(c) \/ Boundary(c) \/ Fails(c) \/ Commit(c)
      BY <3>2, NoCacheTrue DEF Refuse, Boundary, Fails, Commit
    <3>3. CASE Effects(c)
      <4>1. ASSUME DoSeed(Cmd[c].actor)
            PROVE  cache' = NoCache \/ (cache' = cache /\ grants' = grants)
        <5>. DEFINE b       == Cmd[c].actor
                    given   == {cap \in {GrantCap, RevokeCap} : \A g \in grants[b] : g.cap # cap}
                    nr(cap) == Newest(b) + IF cap = RevokeCap /\ GrantCap \in given THEN 2 ELSE 1
                    seeds   == {Grant(nr(cap), cap, Scopes, Forever, System) : cap \in given}
        <5>1. grants' = [grants EXCEPT ![b] = @ \cup seeds] /\ cache' = IF given = {} THEN cache ELSE NoCache
          BY <4>1, Zenon DEF DoSeed
        <5>2. given = {} => seeds = {}
          OBVIOUS
        <5>3. given = {} => grants' = grants
          <6>. HIDE DEF seeds, given
          <6>. QED  BY <5>1, <5>2 DEF TypeOK
        <5>. QED  BY <5>1, <5>3
      <4>2. cache' = NoCache \/ (cache' = cache /\ grants' = grants)
        BY <3>3, <4>1 DEF Effects, DoGrant, DoRevoke
      <4>. QED  BY <3>3, <4>2, NoCacheTrue DEF Effects
    <3>. QED  BY <2>2, <3>1, <3>2, <3>3 DEF Step
  <2>3. CASE TimePasses
    <3>1. ASSUME NEW a \in Actors, NEW cap \in Caps, NEW s \in Scopes,
                 CacheHit(<<a, cap, s>>)', ~cache'[<<a, cap, s>>].result, LiveMatch(a, cap, s)'
          PROVE  FALSE
      <4>1. <<a, cap, s>> \in Actors \X Caps \X Scopes /\ now \in Nat /\ now' = now + 1
        BY <2>3 DEF TimePasses, TypeOK
      <4>2. cache[<<a, cap, s>>].expires \in Nat /\ cache' = cache /\ grants' = grants
        BY <2>3, <4>1 DEF TimePasses, TypeOK
      <4>3. CacheHit(<<a, cap, s>>) /\ ~cache[<<a, cap, s>>].result
        BY <3>1, <4>1, <4>2 DEF CacheHit
      <4>4. PICK g \in Matches(a, cap, s) : ~(g.until < now + 1)
        BY <3>1, <4>1, <4>2 DEF LiveMatch, Matches, Expired
      <4>5. g.until \in Nat
        BY AuthorityAssumption DEF Matches, TypeOK, GrantRecords, Holders, AuthorityAssumption
      <4>6. ~Expired(g)
        BY <4>1, <4>4, <4>5 DEF Expired
      <4>. QED  BY <4>3, <4>4, <4>6 DEF CacheTrue, LiveMatch
    <3>. QED  BY <3>1 DEF CacheTrue
  <2>4. CASE Restart
    BY <2>4, NoCacheTrue DEF Restart
  <2>. QED  BY <2>1, <2>2, <2>3, <2>4 DEF Next
<1>. QED  BY <1>1, <1>2, TypeInvariant, PTL DEF Spec

\* An ended grant that the boundary finds among those of the command's capability.
Shadowed(c) == \E h \in Candidates(c) : Expired(h)

LEMMA DeniedStep ==
  ASSUME TypeOK, CacheTrue, [Next]_vars, NEW c \in Commands, pc[c] # "denied", pc'[c] = "denied"
  PROVE  ~Entitled(c) \/ Shadowed(c)
<1>. SUFFICES ASSUME NEW g \in grants[Cmd[c].actor],
                     g.cap = Cmd[c].needs, Cmd[c].claimed = Cmd[c].needs,
                     Cmd[c].scope \in g.covers, Cmd[c].target \in g.covers, ~Expired(g)
              PROVE  Shadowed(c)
  BY DEF Entitled
<1>. DEFINE a == Cmd[c].actor
            n == Cmd[c].needs
            s == Cmd[c].scope
<1>1. a \in Actors /\ a \in Holders /\ n \in Caps /\ s \in Scopes
  BY Says
<1>2. \/ (Gate(c) \/ Recheck(c)) /\ ~Allowed(a, n, s)
      \/ Boundary(c) /\ ~WithinAuthority(c)
  <2>1. ASSUME NEW d \in Commands, Step(d)
        PROVE  \/ (Gate(c) \/ Recheck(c)) /\ ~Allowed(a, n, s)
               \/ Boundary(c) /\ ~WithinAuthority(c)
    <3>1. d = c
      BY <2>1 DEF Step, Gate, Refuse, Boundary, Recheck, Commit, Fails, Effects, Goto, TypeOK
    <3>2. Step(c)
      BY <2>1, <3>1
    <3>3. CASE Gate(c)
      BY <3>3 DEF Gate, Goto, TypeOK
    <3>4. CASE Recheck(c)
      BY <3>4 DEF Recheck, Goto, TypeOK
    <3>5. CASE Boundary(c)
      BY <3>5 DEF Boundary, Goto, TypeOK
    <3>. QED  BY <3>2, <3>3, <3>4, <3>5 DEF Step, Refuse, Commit, Fails, Effects, Goto, TypeOK
  <2>2. CASE Restart
    BY <2>2 DEF Restart, TypeOK
  <2>. QED  BY <2>1, <2>2 DEF Next, vars, TimePasses
<1>3. LiveMatch(a, n, s)
  BY <1>1 DEF LiveMatch, Matches
<1>4. Allowed(a, n, s)
  <2>1. CASE CacheHit(<<a, n, s>>)
    <3>1. cache[<<a, n, s>>].result
      BY <1>1, <1>3, <2>1 DEF CacheTrue
    <3>. QED  BY <2>1, <3>1 DEF Allowed
  <2>2. CASE ~CacheHit(<<a, n, s>>)
    BY <1>3, <2>2 DEF Allowed, LiveMatch
  <2>. QED  BY <2>1, <2>2
<1>5. ~WithinAuthority(c) /\ g \in Candidates(c)
  BY <1>2, <1>4 DEF Candidates
<1>6. \A h \in Candidates(c) : h.nr \in Nat
  BY <1>1 DEF Candidates, TypeOK, GrantRecords
<1>7. PICK h \in Candidates(c) : \A i \in Candidates(c) : h.nr <= i.nr
  <2>. DEFINE S == {h.nr : h \in Candidates(c)}
  <2>1. S \subseteq Nat /\ S # {}
    BY <1>5, <1>6
  <2>2. \E m \in S : \A k \in S : m <= k
    <3>. HIDE DEF S
    <3>. QED  BY <2>1, Least
  <2>. QED  BY <2>2
<1>. QED  BY <1>5, <1>7 DEF WithinAuthority, Shadowed

(***************************************************************************)
(* Whatever overlaps, ends or restarts: no command is denied that is due,  *)
(* but for an ended grant of the same capability that the boundary finds   *)
(* (AuthorityBoundaryEnforcer.findMatchingGrant takes the first).          *)
(***************************************************************************)
THEOREM OnlyEndedGrantsShadow ==
  Spec => [][\A c \in Commands : pc[c] # "denied" /\ pc'[c] = "denied"
                => ~Entitled(c) \/ Shadowed(c)]_vars
<1>1. TypeOK /\ CacheTrue /\ [Next]_vars =>
        [\A c \in Commands : pc[c] # "denied" /\ pc'[c] = "denied" => ~Entitled(c) \/ Shadowed(c)]_vars
  BY DeniedStep
<1>. QED  BY <1>1, TypeInvariant, CacheInvariant, PTL DEF Spec

\* Grants that an actor is given of one capability for one scope end together; those of the
\* capabilities the engine gives itself never end.
EndTogether ==
  \A d, e \in Commands :
    /\ Cmd[d].kind = "grant" /\ Cmd[d].what \in {SessionCap, GrantCap, RevokeCap} => Cmd[d].until = Forever
    /\ /\ Cmd[d].kind = "grant" /\ Cmd[e].kind = "grant"
       /\ Cmd[d].to = Cmd[e].to /\ Cmd[d].what = Cmd[e].what
       /\ Cmd[d].covers \cap Cmd[e].covers # {}
       => Cmd[d].until = Cmd[e].until

LEMMA NothingShadows ==
  ASSUME EndTogether, TypeOK, Shape, Backed, NEW c \in Commands, Entitled(c)
  PROVE  ~Shadowed(c)
<1>. SUFFICES ASSUME NEW g \in grants[Cmd[c].actor], NEW h \in grants[Cmd[c].actor],
                     g.cap = Cmd[c].needs, h.cap = Cmd[c].needs,
                     Cmd[c].target \in g.covers, Cmd[c].target \in h.covers,
                     ~(g.until < now), h.until < now
              PROVE  FALSE
  BY DEF Entitled, Shadowed, Candidates, Expired
<1>1. Cmd[c].actor \in Holders /\ Cmd[c].needs \in Caps
  BY AuthorityAssumption DEF AuthorityAssumption, Holders
<1>2. /\ DefaultFor(Cmd[c].actor, g) \/ \E d \in Committed : MadeBy(d, Cmd[c].actor, g)
      /\ DefaultFor(Cmd[c].actor, h) \/ \E d \in Committed : MadeBy(d, Cmd[c].actor, h)
  BY <1>1 DEF Backed
<1>3. Committed \subseteq Commands
  BY DEF Committed, Shape
<1>4. h.until # Forever
  BY AuthorityAssumption DEF AuthorityAssumption, TypeOK
<1>5. PICK e \in Commands : MadeBy(e, Cmd[c].actor, h)
  BY <1>2, <1>3, <1>4 DEF DefaultFor
<1>6. CASE DefaultFor(Cmd[c].actor, g)
  <2>1. Cmd[c].needs \in {SessionCap, GrantCap, RevokeCap}
    BY <1>1, <1>6, AuthorityAssumption DEF AuthorityAssumption, DefaultFor
  <2>. QED  BY <1>4, <1>5, <2>1 DEF EndTogether, MadeBy
<1>7. ASSUME NEW d \in Commands, MadeBy(d, Cmd[c].actor, g) PROVE FALSE
  <2>1. Cmd[d].until = Cmd[e].until
    BY <1>5, <1>7 DEF EndTogether, MadeBy
  <2>. QED  BY <1>5, <1>7, <2>1 DEF MadeBy
<1>. QED  BY <1>2, <1>3, <1>6, <1>7

(***************************************************************************)
(* As long as no grant is renewed with another end, no command is denied   *)
(* that is due: an answer cached before the grant does not stand in its    *)
(* way (capabilityEngine.ts, cache.clear in grant and revoke).             *)
(***************************************************************************)
THEOREM NothingDueIsDenied == EndTogether => (Spec => DeniedOnlyUnentitled)
<1>. SUFFICES ASSUME EndTogether PROVE Spec => DeniedOnlyUnentitled
  OBVIOUS
<1>1. TypeOK /\ CacheTrue /\ Shape /\ Backed /\ [Next]_vars =>
        [\A c \in Commands : pc[c] # "denied" /\ pc'[c] = "denied" => ~Entitled(c)]_vars
  BY DeniedStep, NothingShadows
<1>. QED  BY <1>1, TypeInvariant, CacheInvariant, ShapeInvariant, BackedInvariant, PTL
          DEF Spec, DeniedOnlyUnentitled

-----------------------------------------------------------------------------
(***************************************************************************)
(* Authority commands one at a time.  What a step does to the engine: it   *)
(* answers one committed grant or revocation by carrying it out, or it     *)
(* touches nothing a command has put there.                                *)
(***************************************************************************)
\* The grants of an actor that commands have made.
Given(a) == {g \in grants[a] : g.by # System}

\* The actor has lost the capability and the engine will not give it back by itself.
Without(a, cap) == <<a, cap>> \in revoked /\ \A g \in grants[a] : g.cap # cap

Seeded(a, cap) == a \in Governors /\ cap \in {GrantCap, RevokeCap}

Quiet ==
  /\ \A a \in Holders : Given(a)' = Given(a)
  /\ \A a \in Holders, cap \in CapPatterns : Without(a, cap) /\ ~Seeded(a, cap) => Without(a, cap)'
  /\ \A c \in Commands : Authoritative(c) => (pc'[c] = "accepted" <=> pc[c] = "accepted")

CarriesOut(c) ==
  /\ pc[c] = "committed" /\ pc' = [pc EXCEPT ![c] = "accepted"] /\ log' = log
  /\ \/ /\ Cmd[c].kind = "grant"
        /\ DoGrant(Cmd[c].to, Cmd[c].what, Cmd[c].covers, Cmd[c].until, Cmd[c].actor)
     \/ /\ Cmd[c].kind = "revoke"
        /\ DoRevoke(Cmd[c].to, Cmd[c].what)

LEMMA SameEngine ==
  ASSUME grants' = grants, revoked' = revoked
  PROVE  /\ \A a \in Holders : Given(a)' = Given(a)
         /\ \A a \in Holders, cap \in CapPatterns : Without(a, cap) /\ ~Seeded(a, cap) => Without(a, cap)'
BY DEF Given, Without

\* What the engine gives by itself: the default session, and the seeds of a governor.
LEMMA OwnGrants ==
  ASSUME TypeOK, NEW b \in Holders, NEW S, NEW C,
         grants' = [grants EXCEPT ![b] = @ \cup S],
         \A g \in S : g.by = System /\ g.cap \in C,
         revoked' = revoked \/ revoked' = revoked \ {<<b, cap>> : cap \in C},
         \A cap \in C : <<b, cap>> \notin revoked \/ Seeded(b, cap)
  PROVE  /\ \A a \in Holders : Given(a)' = Given(a)
         /\ \A a \in Holders, cap \in CapPatterns : Without(a, cap) /\ ~Seeded(a, cap) => Without(a, cap)'
<1>1. \A a \in Holders : grants'[a] = IF a = b THEN grants[a] \cup S ELSE grants[a]
  BY DEF TypeOK
<1>2. \A a \in Holders : Given(a)' = Given(a)
  BY <1>1 DEF Given
<1>3. ASSUME NEW a \in Holders, NEW cap \in CapPatterns, Without(a, cap), ~Seeded(a, cap)
      PROVE  Without(a, cap)'
  <2>1. ~(a = b /\ cap \in C)
    BY <1>3 DEF Without
  <2>2. <<a, cap>> \in revoked'
    <3>1. \A e \in C : <<b, e>> # <<a, cap>>
      BY <2>1
    <3>. QED  BY <1>3, <3>1 DEF Without
  <2>3. \A g \in grants'[a] : g.cap # cap
    BY <1>1, <1>3, <2>1 DEF Without
  <2>. QED  BY <2>2, <2>3 DEF Without
<1>. QED  BY <1>2, <1>3

LEMMA CheckIsQuiet ==
  ASSUME TypeOK, NEW a \in Actors, NEW cap \in Caps, NEW s \in Scopes, AfterCheck(a, cap, s)
  PROVE  /\ \A b \in Holders : Given(b)' = Given(b)
         /\ \A b \in Holders, e \in CapPatterns : Without(b, e) /\ ~Seeded(b, e) => Without(b, e)'
<1>1. CASE UNCHANGED <<grants, revoked>>
  BY <1>1, SameEngine
<1>2. CASE /\ DefaultGranted(a, cap, s)
           /\ grants' = [grants EXCEPT ![a] = @ \cup {Grant(Newest(a) + 1, cap, Scopes, Forever, System)}]
           /\ UNCHANGED revoked
  <2>. DEFINE S == {Grant(Newest(a) + 1, cap, Scopes, Forever, System)}
              C == {cap}
  <2>1. \A g \in S : g.by = System /\ g.cap \in C
    BY DEF Grant
  <2>2. \A e \in C : <<a, e>> \notin revoked \/ Seeded(a, e)
    BY <1>2 DEF DefaultGranted
  <2>3. a \in Holders
    BY DEF Holders
  <2>4. grants' = [grants EXCEPT ![a] = @ \cup S] /\ (revoked' = revoked \/ revoked' = revoked \ {<<a, e>> : e \in C})
    BY <1>2
  <2>. HIDE DEF S, C
  <2>. QED  BY <2>1, <2>2, <2>3, <2>4, OwnGrants
<1>. QED  BY <1>1, <1>2, Zenon DEF AfterCheck

LEMMA SeedIsQuiet ==
  ASSUME TypeOK, NEW a \in Governors, DoSeed(a)
  PROVE  /\ \A b \in Holders : Given(b)' = Given(b)
         /\ \A b \in Holders, e \in CapPatterns : Without(b, e) /\ ~Seeded(b, e) => Without(b, e)'
<1>. DEFINE given   == {cap \in {GrantCap, RevokeCap} : \A g \in grants[a] : g.cap # cap}
            nr(cap) == Newest(a) + IF cap = RevokeCap /\ GrantCap \in given THEN 2 ELSE 1
            S       == {Grant(nr(cap), cap, Scopes, Forever, System) : cap \in given}
<1>1. grants' = [grants EXCEPT ![a] = @ \cup S] /\ revoked' = revoked \ {<<a, cap>> : cap \in given}
  BY Zenon DEF DoSeed
<1>2. \A g \in S : g.by = System /\ g.cap \in given
  <2>. HIDE DEF given, nr
  <2>. QED  BY DEF Grant
<1>3. \A cap \in given : <<a, cap>> \notin revoked \/ Seeded(a, cap)
  BY DEF Seeded
<1>4. a \in Holders
  BY AuthorityAssumption DEF AuthorityAssumption, Holders
<1>. HIDE DEF S, given
<1>. QED  BY <1>1, <1>2, <1>3, <1>4, OwnGrants

LEMMA QuietOrCarriesOut ==
  ASSUME TypeOK, orderly, [Next]_vars
  PROVE  Quiet \/ \E c \in Commands : CarriesOut(c)
<1>. USE DEF Goto
<1>1. CASE UNCHANGED vars
  BY <1>1, SameEngine DEF vars, Quiet
<1>2. CASE TimePasses
  BY <1>2, SameEngine DEF TimePasses, Quiet
<1>3. ASSUME NEW c \in Commands, Step(c)
      PROVE  Quiet \/ CarriesOut(c)
  <2>1. CASE Gate(c) \/ Recheck(c)
    <3>1. AfterCheck(Cmd[c].actor, Cmd[c].claimed, Cmd[c].scope)
      BY <2>1 DEF Gate, Recheck
    <3>2. Cmd[c].actor \in Actors /\ Cmd[c].claimed \in Caps /\ Cmd[c].scope \in Scopes
      BY Says
    <3>3. \A d \in Commands : pc'[d] = "accepted" <=> pc[d] = "accepted"
      BY <2>1 DEF Gate, Recheck, TypeOK
    <3>. QED  BY <3>1, <3>2, <3>3, CheckIsQuiet DEF Quiet
  <2>2. CASE Refuse(c) \/ Boundary(c) \/ Commit(c) \/ Fails(c)
    <3>1. \A d \in Commands : pc'[d] = "accepted" <=> pc[d] = "accepted"
      BY <2>2 DEF Refuse, Boundary, Commit, Fails, TypeOK
    <3>2. grants' = grants /\ revoked' = revoked
      BY <2>2 DEF Refuse, Boundary, Commit, Fails
    <3>. QED  BY <3>1, <3>2, SameEngine DEF Quiet
  <2>3. CASE Effects(c) /\ ~Authoritative(c)
    <3>1. \A d \in Commands : Authoritative(d) => (pc'[d] = "accepted" <=> pc[d] = "accepted")
      BY <2>3 DEF Effects, TypeOK
    <3>2. CASE Cmd[c].actor \in Governors /\ DoSeed(Cmd[c].actor)
      BY <3>1, <3>2, SeedIsQuiet DEF Quiet
    <3>3. CASE UNCHANGED <<grants, revoked, cache>>
      BY <3>1, <3>3, SameEngine DEF Quiet
    <3>. QED  BY <2>3, <3>2, <3>3 DEF Effects, Authoritative
  <2>4. CASE Effects(c) /\ Authoritative(c)
    BY <2>4 DEF Effects, Authoritative, CarriesOut
  <2>. QED  BY <1>3, <2>1, <2>2, <2>3, <2>4 DEF Step
<1>4. ~Restart
  BY DEF Restart
<1>. QED  BY <1>1, <1>2, <1>3, <1>4 DEF Next

-----------------------------------------------------------------------------
(***************************************************************************)
(* The order of authority commands that come one at a time: what has been  *)
(* answered was committed before what has not.                             *)
(***************************************************************************)
NoRepeats == \A i, j \in 1..Len(log) : log[i] = log[j] => i = j

Serial ==
  /\ NoRepeats
  /\ \A c \in Commands : pc[c] = "accepted" => c \in Committed
  /\ orderly =>
       /\ \A c, d \in Pending : c = d
       /\ \A c \in Commands : pc[c] # "lost"
       /\ \A r, g \in Commands :
            Authoritative(r) /\ Authoritative(g) /\ pc[r] = "accepted" /\ pc[g] = "committed" => Before(r, g)

\* Of two commands in the log one is before the other, and no step changes which.
LEMMA BeforeStays ==
  ASSUME Shape, Logged, [Next]_vars, NEW c \in Committed, NEW d \in Committed
  PROVE  Before(c, d)' <=> Before(c, d)
<1>1. CASE UNCHANGED log
  BY <1>1 DEF Before
<1>2. ASSUME NEW e \in Commands, Commit(e), Before(c, d)' PROVE Before(c, d)
  <2>1. /\ log' = Append(log, e) /\ Len(log') = Len(log) + 1 /\ Len(log) \in Nat
        /\ log'[Len(log) + 1] = e
        /\ \A i \in 1..Len(log) : log'[i] = log[i]
    BY <1>2 DEF Commit, Shape
  <2>2. PICK i \in 1..Len(log'), j \in 1..Len(log') : i < j /\ log'[i] = c /\ log'[j] = d
    BY <1>2 DEF Before
  <2>3. e \notin Committed
    BY <1>2 DEF Commit, Logged
  <2>4. j # Len(log) + 1
    BY <2>1, <2>2, <2>3
  <2>5. i \in 1..Len(log) /\ j \in 1..Len(log)
    BY <2>1, <2>2, <2>4
  <2>. QED  BY <2>1, <2>2, <2>5 DEF Before
<1>3. Before(c, d) => Before(c, d)'
  BY LogGrows
<1>. QED  BY <1>1, <1>2, <1>3, LogStep

LEMMA BeforeIsStrict ==
  ASSUME Shape, NoRepeats, NEW c, NEW d, Before(c, d)
  PROVE  ~Before(d, c) /\ c # d
<1>1. PICK i \in 1..Len(log), j \in 1..Len(log) : i < j /\ log[i] = c /\ log[j] = d
  BY DEF Before
<1>2. Len(log) \in Nat
  BY DEF Shape
<1>3. ASSUME NEW k \in 1..Len(log), NEW l \in 1..Len(log), k < l, log[k] = d, log[l] = c
      PROVE  FALSE
  <2>1. l = i /\ k = j
    BY <1>1, <1>3 DEF NoRepeats
  <2>. QED  BY <1>1, <1>2, <1>3, <2>1
<1>4. c # d
  BY <1>1, <1>2 DEF NoRepeats
<1>. QED  BY <1>3, <1>4 DEF Before

LEMMA NoRepeatsStep ==
  ASSUME Shape, Logged, NoRepeats, [Next]_vars
  PROVE  NoRepeats'
<1>1. CASE UNCHANGED log
  BY <1>1 DEF NoRepeats
<1>2. ASSUME NEW e \in Commands, Commit(e) PROVE NoRepeats'
  <2>1. /\ Len(log') = Len(log) + 1 /\ Len(log) \in Nat
        /\ log'[Len(log) + 1] = e
        /\ \A i \in 1..Len(log) : log'[i] = log[i]
    BY <1>2 DEF Commit, Shape
  <2>2. \A i \in 1..Len(log) : log[i] # e
    BY <1>2 DEF Commit, Logged, Committed
  <2>3. ASSUME NEW i \in 1..Len(log'), NEW j \in 1..Len(log'), log'[i] = log'[j] PROVE i = j
    <3>1. (i \in 1..Len(log) \/ i = Len(log) + 1) /\ (j \in 1..Len(log) \/ j = Len(log) + 1)
      BY <2>1
    <3>2. CASE i \in 1..Len(log) /\ j \in 1..Len(log)
      BY <2>1, <2>3, <3>2 DEF NoRepeats
    <3>3. CASE i = Len(log) + 1 \/ j = Len(log) + 1
      BY <2>1, <2>2, <2>3, <3>1, <3>3
    <3>. QED  BY <3>1, <3>2, <3>3
  <2>. QED  BY <2>3 DEF NoRepeats
<1>. QED  BY <1>1, <1>2, LogStep

LEMMA AcceptedStep ==
  ASSUME TypeOK, Shape, Logged, [Next]_vars, NEW c \in Commands, pc'[c] = "accepted",
         pc[c] = "accepted" => c \in Committed
  PROVE  c \in Committed'
<1>1. pc[c] \in {"accepted", "committed"}
  <2>1. ASSUME NEW d \in Commands, Step(d) PROVE pc[c] \in {"accepted", "committed"}
    <3>1. CASE Effects(d)
      BY <3>1 DEF Effects, Goto, TypeOK
    <3>2. CASE Gate(d) \/ Refuse(d) \/ Boundary(d) \/ Recheck(d) \/ Commit(d) \/ Fails(d)
      BY <3>2 DEF Gate, Refuse, Boundary, Recheck, Commit, Fails, Goto, TypeOK
    <3>. QED  BY <2>1, <3>1, <3>2 DEF Step
  <2>2. CASE Restart
    BY <2>2 DEF Restart, TypeOK
  <2>. QED  BY <2>1, <2>2 DEF Next, vars, TimePasses
<1>2. c \in Committed
  BY <1>1 DEF Logged
<1>. QED  BY <1>2, LogGrows

\* How a step moves a command on, along the path of a submit.
MovesOn(c) ==
  /\ \A d \in Commands \ {c} : pc'[d] = pc[d]
  /\ \/ /\ pc[c] = "new" /\ pc'[c] \in {"gated", "denied", "refused"}
        /\ pc'[c] = "gated" /\ Authoritative(c) => Pending = {}
     \/ pc[c] \in {"gated", "bounded", "cleared"} /\ pc'[c] \in {"bounded", "cleared", "denied", "refused"}
     \/ pc[c] = "cleared" /\ pc'[c] = "committed" /\ Commit(c)
     \/ pc[c] = "committed" /\ pc'[c] = "accepted"

LEMMA PcStep ==
  ASSUME TypeOK, orderly, [Next]_vars
  PROVE  pc' = pc \/ \E c \in Commands : MovesOn(c)
<1>1. ASSUME NEW c \in Commands, Step(c)
      PROVE  MovesOn(c)
  <2>. USE DEF Goto, TypeOK, MovesOn
  <2>1. CASE Gate(c)
    BY <2>1 DEF Gate
  <2>2. CASE Refuse(c)
    BY <2>2 DEF Refuse
  <2>3. CASE Boundary(c) \/ Recheck(c) \/ Fails(c)
    BY <2>3 DEF Boundary, Recheck, Fails
  <2>4. CASE Commit(c)
    BY <2>4 DEF Commit
  <2>5. CASE Effects(c)
    BY <2>5 DEF Effects
  <2>. QED  BY <1>1, <2>1, <2>2, <2>3, <2>4, <2>5 DEF Step
<1>2. ~Restart
  BY DEF Restart
<1>. QED  BY <1>1, <1>2 DEF Next, vars, TimePasses

LEMMA SerialInvariant == Spec => []Serial
<1>1. Init => Serial
  BY DEF Init, Serial, NoRepeats, Pending, InSubmit
<1>2. TypeOK /\ Shape /\ Logged /\ Serial /\ [Next]_vars => Serial'
  <2>. SUFFICES ASSUME TypeOK, Shape, Logged, Serial, [Next]_vars PROVE Serial'
    OBVIOUS
  <2>1. NoRepeats'
    BY NoRepeatsStep DEF Serial
  <2>2. \A c \in Commands : pc'[c] = "accepted" => c \in Committed'
    BY AcceptedStep DEF Serial
  <2>3. ASSUME orderly'
        PROVE  /\ \A c, d \in Pending' : c = d
               /\ \A c \in Commands : pc'[c] # "lost"
               /\ \A r, g \in Commands :
                    Authoritative(r) /\ Authoritative(g) /\ pc'[r] = "accepted" /\ pc'[g] = "committed" => Before(r, g)'
    <3>0. /\ orderly
          /\ \A c, d \in Pending : c = d
          /\ \A c \in Commands : pc[c] # "lost"
          /\ \A r, g \in Commands :
               Authoritative(r) /\ Authoritative(g) /\ pc[r] = "accepted" /\ pc[g] = "committed" => Before(r, g)
      BY <2>3 DEF Next, vars, Serial
    <3>1. CASE pc' = pc
      BY <3>0, <3>1, LogGrows DEF Pending, Authoritative
    <3>2. ASSUME NEW c \in Commands, MovesOn(c)
          PROVE  /\ \A d, e \in Pending' : d = e
                 /\ \A d \in Commands : pc'[d] # "lost"
                 /\ \A r, g \in Commands :
                      Authoritative(r) /\ Authoritative(g) /\ pc'[r] = "accepted" /\ pc'[g] = "committed" => Before(r, g)'
      <4>1. Pending' \subseteq Pending \/ (Pending = {} /\ Pending' \subseteq {c})
        <5>1. \A d \in Pending' : d \in Pending \/ (d = c /\ pc[c] = "new" /\ Authoritative(c))
          BY <3>2 DEF MovesOn, Pending, InSubmit, Authoritative
        <5>. QED  BY <3>2, <5>1 DEF MovesOn, Pending, InSubmit
      <4>2. \A d, e \in Pending' : d = e
        BY <3>0, <4>1
      <4>3. \A d \in Commands : pc'[d] # "lost"
        BY <3>0, <3>2 DEF MovesOn
      <4>4. ASSUME NEW r \in Commands, NEW g \in Commands, Authoritative(r), Authoritative(g),
                   pc'[r] = "accepted", pc'[g] = "committed"
            PROVE  Before(r, g)'
        <5>1. CASE r # c /\ g # c
          BY <3>0, <3>2, <4>4, <5>1, LogGrows DEF MovesOn
        <5>2. CASE g = c
          <6>1. Commit(c) /\ r # c /\ pc[r] = "accepted"
            BY <3>2, <4>4, <5>2 DEF MovesOn
          <6>2. r \in Committed
            BY <6>1 DEF Serial
          <6>. QED  BY <5>2, <6>1, <6>2, CommitAppends DEF Commit
        <5>3. CASE r = c
          <6>1. g # c /\ pc[g] = "committed" /\ pc[c] = "committed"
            BY <3>2, <4>4, <5>3 DEF MovesOn
          <6>2. g \in Pending
            BY <4>4, <6>1 DEF Pending, InSubmit
          <6>4. c \in Pending
            BY <4>4, <5>3, <6>1 DEF Pending, InSubmit
          <6>. QED  BY <3>0, <6>1, <6>2, <6>4
        <5>. QED  BY <5>1, <5>2, <5>3
      <4>. QED  BY <4>2, <4>3, <4>4
    <3>. QED  BY <3>0, <3>1, <3>2, PcStep
  <2>. QED  BY <2>1, <2>2, <2>3 DEF Serial, Authoritative
<1>. QED  BY <1>1, <1>2, TypeInvariant, ShapeInvariant, LoggedInvariant, PTL DEF Spec

-----------------------------------------------------------------------------
(***************************************************************************)
(* The engine and the commands that have been answered.                    *)
(***************************************************************************)
GrantsOf(d, a, cap)  == Cmd[d].kind = "grant"  /\ Cmd[d].to = a /\ Cmd[d].what = cap
RevokesOf(d, a, cap) == Cmd[d].kind = "revoke" /\ Cmd[d].to = a /\ Cmd[d].what = cap

Answered == {c \in Commands : Authoritative(c) /\ pc[c] = "accepted"}

\* The answered grants of an actor and capability that no answered revocation follows.
Standing(a, cap) ==
  {g \in Answered : GrantsOf(g, a, cap) /\ \A r \in Answered : RevokesOf(r, a, cap) => Before(r, g)}

Terms(d)    == <<Cmd[d].covers, Cmd[d].until, Cmd[d].actor>>
TermsOf(S)  == {Terms(d) : d \in S}
Held(a, cap) == {<<g.covers, g.until, g.by>> : g \in {h \in Given(a) : h.cap = cap}}

EngineInv == orderly => \A a \in Holders, cap \in CapPatterns : Held(a, cap) = TermsOf(Standing(a, cap))

\* After an answered revocation the capability is gone, or was granted again.
Lost(r) ==
  \/ \E g \in Committed : GrantsOf(g, Cmd[r].to, Cmd[r].what) /\ Before(r, g)
  \/ Without(Cmd[r].to, Cmd[r].what)

RevokedInv == orderly => \A r \in Answered : Cmd[r].kind = "revoke" => Lost(r)

\* A revocation of the capabilities a governor is seeded with is not one of them: the next
\* session of that governor gives them back (seedCompiledTypeDefaults).
GovernorsKeep ==
  \A r \in Commands : Cmd[r].kind = "revoke" /\ Cmd[r].what \in {GrantCap, RevokeCap} => Cmd[r].to \notin Governors

\* What a grant or a revocation that is carried out does to the books.
LEMMA CarriedOut ==
  ASSUME TypeOK, Shape, Logged, Serial, orderly, NEW c \in Commands, CarriesOut(c)
  PROVE  /\ Answered' = Answered \cup {c} /\ c \notin Answered /\ c \in Committed /\ c \in Commands
         /\ \A r \in Answered : Before(r, c) /\ ~Before(c, r)
         /\ Authoritative(c)
<1>1. Authoritative(c) /\ pc[c] = "committed" /\ c \in Committed
  BY DEF CarriesOut, Authoritative, Logged
<1>2. Answered' = Answered \cup {c} /\ c \notin Answered
  BY <1>1 DEF CarriesOut, Answered, Authoritative, TypeOK
<1>3. ASSUME NEW r \in Answered PROVE Before(r, c) /\ ~Before(c, r)
  <2>1. Before(r, c)
    BY <1>1, <1>3 DEF Serial, Answered
  <2>. QED  BY <2>1, BeforeIsStrict DEF Serial
<1>. QED  BY <1>1, <1>2, <1>3

LEMMA BooksGrant ==
  ASSUME TypeOK, Shape, Logged, Serial, orderly, NEW c \in Commands, CarriesOut(c),
         NEW a \in Holders, NEW cap \in CapPatterns, Cmd[c].kind = "grant"
  PROVE  /\ Standing(a, cap)' = Standing(a, cap) \cup (IF GrantsOf(c, a, cap) THEN {c} ELSE {})
         /\ Held(a, cap)' = Held(a, cap) \cup (IF GrantsOf(c, a, cap) THEN {Terms(c)} ELSE {})
<1>1. /\ Answered' = Answered \cup {c} /\ c \notin Answered
      /\ \A r \in Answered : Before(r, c) /\ ~Before(c, r)
  BY CarriedOut
<1>2. \A d, e : Before(d, e)' <=> Before(d, e)
  BY DEF CarriesOut, Before
<1>3. ~RevokesOf(c, a, cap)
  BY DEF RevokesOf
<1>4. Standing(a, cap)' = Standing(a, cap) \cup (IF GrantsOf(c, a, cap) THEN {c} ELSE {})
  BY <1>1, <1>2, <1>3 DEF Standing, GrantsOf, RevokesOf
<1>5. PICK n : grants' = [grants EXCEPT ![Cmd[c].to] =
                            @ \cup {Grant(n, Cmd[c].what, Cmd[c].covers, Cmd[c].until, Cmd[c].actor)}]
  BY Zenon DEF CarriesOut, DoGrant
<1>. DEFINE g0 == Grant(n, Cmd[c].what, Cmd[c].covers, Cmd[c].until, Cmd[c].actor)
<1>6. /\ g0.by # System /\ g0.cap = Cmd[c].what
      /\ <<g0.covers, g0.until, g0.by>> = Terms(c)
  <2>1. Cmd[c].actor # System
    BY AuthorityAssumption DEF AuthorityAssumption
  <2>. QED  BY <2>1 DEF Grant, Terms
<1>7. grants'[a] = IF a = Cmd[c].to THEN grants[a] \cup {g0} ELSE grants[a]
  <2>. HIDE DEF g0
  <2>1. grants' = [grants EXCEPT ![Cmd[c].to] = @ \cup {g0}]
    BY <1>5 DEF g0
  <2>. QED  BY <2>1 DEF TypeOK
<1>8. Held(a, cap)' = Held(a, cap) \cup (IF GrantsOf(c, a, cap) THEN {Terms(c)} ELSE {})
  <2>. HIDE DEF g0
  <2>1. CASE GrantsOf(c, a, cap)
    <3>1. {h \in Given(a)' : h.cap = cap} = {h \in Given(a) : h.cap = cap} \cup {g0}
      BY <1>6, <1>7, <2>1 DEF Given, GrantsOf
    <3>. QED  BY <1>6, <2>1, <3>1 DEF Held
  <2>2. CASE ~GrantsOf(c, a, cap)
    <3>1. {h \in Given(a)' : h.cap = cap} = {h \in Given(a) : h.cap = cap}
      BY <1>6, <1>7, <2>2 DEF Given, GrantsOf
    <3>. QED  BY <2>2, <3>1 DEF Held
  <2>. QED  BY <2>1, <2>2
<1>. QED  BY <1>4, <1>8

LEMMA BooksRevoke ==
  ASSUME TypeOK, Shape, Logged, Serial, orderly, NEW c \in Commands, CarriesOut(c),
         NEW a \in Holders, NEW cap \in CapPatterns, Cmd[c].kind = "revoke"
  PROVE  /\ Standing(a, cap)' = IF RevokesOf(c, a, cap) THEN {} ELSE Standing(a, cap)
         /\ Held(a, cap)' = IF RevokesOf(c, a, cap) THEN {} ELSE Held(a, cap)
<1>1. /\ Answered' = Answered \cup {c} /\ c \notin Answered
      /\ \A r \in Answered : Before(r, c) /\ ~Before(c, r)
  BY CarriedOut
<1>2. \A d, e : Before(d, e)' <=> Before(d, e)
  BY DEF CarriesOut, Before
<1>3. ~GrantsOf(c, a, cap)
  BY DEF GrantsOf
<1>4. Standing(a, cap)' = IF RevokesOf(c, a, cap) THEN {} ELSE Standing(a, cap)
  BY <1>1, <1>2, <1>3 DEF Standing, GrantsOf, RevokesOf
<1>5. grants' = [grants EXCEPT ![Cmd[c].to] = {g \in @ : g.cap # Cmd[c].what}]
  BY DEF CarriesOut, DoRevoke
<1>6. {h \in Given(a)' : h.cap = cap} = IF RevokesOf(c, a, cap) THEN {} ELSE {h \in Given(a) : h.cap = cap}
  BY <1>5 DEF TypeOK, Given, RevokesOf
<1>7. Held(a, cap)' = IF RevokesOf(c, a, cap) THEN {} ELSE Held(a, cap)
  BY <1>6 DEF Held
<1>. QED  BY <1>4, <1>7

LEMMA BooksQuiet ==
  ASSUME TypeOK, Shape, Logged, Serial, [Next]_vars, Quiet
  PROVE  /\ Answered' = Answered
         /\ \A a \in Holders, cap \in CapPatterns :
              Standing(a, cap)' = Standing(a, cap) /\ Held(a, cap)' = Held(a, cap)
<1>1. Answered' = Answered
  BY DEF Quiet, Answered, Authoritative
<1>2. Answered \subseteq Committed
  BY DEF Serial, Answered
<1>3. \A r, g \in Answered : Before(r, g)' <=> Before(r, g)
  BY <1>2, BeforeStays
<1>4. ASSUME NEW a \in Holders, NEW cap \in CapPatterns
      PROVE  Standing(a, cap)' = Standing(a, cap) /\ Held(a, cap)' = Held(a, cap)
  <2>1. Standing(a, cap)' = Standing(a, cap)
    BY <1>1, <1>3 DEF Standing, GrantsOf, RevokesOf
  <2>2. Held(a, cap)' = Held(a, cap)
    BY DEF Quiet, Held
  <2>. QED  BY <2>1, <2>2
<1>. QED  BY <1>1, <1>4

LEMMA EngineInvariant == Spec => []EngineInv
<1>1. Init => EngineInv
  <2>. SUFFICES ASSUME Init, NEW a \in Holders, NEW cap \in CapPatterns
                PROVE  Held(a, cap) = TermsOf(Standing(a, cap))
    BY DEF EngineInv
  <2>1. Given(a) = {}
    BY DEF Init, Given, BootGrants, Grant
  <2>2. Answered = {}
    BY DEF Init, Answered
  <2>. QED  BY <2>1, <2>2 DEF Held, TermsOf, Standing
<1>2. TypeOK /\ Shape /\ Logged /\ Serial /\ EngineInv /\ [Next]_vars => EngineInv'
  <2>. SUFFICES ASSUME TypeOK, Shape, Logged, Serial, EngineInv, [Next]_vars, orderly',
                       NEW a \in Holders, NEW cap \in CapPatterns
                PROVE  Held(a, cap)' = TermsOf(Standing(a, cap))'
    BY DEF EngineInv
  <2>1. orderly /\ Held(a, cap) = TermsOf(Standing(a, cap))
    BY DEF Next, vars, EngineInv
  <2>2. CASE Quiet
    BY <2>1, <2>2, BooksQuiet DEF TermsOf, Terms
  <2>3. ASSUME NEW c \in Commands, CarriesOut(c) PROVE Held(a, cap)' = TermsOf(Standing(a, cap))'
    <3>1. CASE Cmd[c].kind = "grant"
      BY <2>1, <2>3, <3>1, BooksGrant DEF TermsOf, Terms
    <3>2. CASE Cmd[c].kind = "revoke"
      BY <2>1, <2>3, <3>2, BooksRevoke DEF TermsOf, Terms
    <3>. QED  BY <2>3, <3>1, <3>2 DEF CarriesOut
  <2>. QED  BY <2>1, <2>2, <2>3, QuietOrCarriesOut
<1>. QED  BY <1>1, <1>2, TypeInvariant, ShapeInvariant, LoggedInvariant, SerialInvariant, PTL DEF Spec

LEMMA RevokedInvariant == GovernorsKeep => (Spec => []RevokedInv)
<1>. SUFFICES ASSUME GovernorsKeep PROVE Spec => []RevokedInv
  OBVIOUS
<1>1. Init => RevokedInv
  BY DEF Init, RevokedInv, Answered
<1>2. TypeOK /\ Shape /\ Logged /\ Serial /\ RevokedInv /\ [Next]_vars => RevokedInv'
  <2>. SUFFICES ASSUME TypeOK, Shape, Logged, Serial, RevokedInv, [Next]_vars, orderly',
                       NEW r \in Answered', Cmd[r].kind = "revoke"
                PROVE  Lost(r)'
    BY DEF RevokedInv
  <2>0. /\ orderly /\ r \in Commands /\ Cmd[r].to \in Holders /\ Cmd[r].what \in CapPatterns
        /\ ~Seeded(Cmd[r].to, Cmd[r].what)
    <3>1. orderly /\ r \in Commands
      BY DEF Next, vars, Answered
    <3>. QED  BY <3>1, Says DEF GovernorsKeep, Seeded, Authoritative
  <2>. DEFINE a   == Cmd[r].to
              cap == Cmd[r].what
  <2>1. ASSUME r \in Answered, Without(a, cap) => Lost(r)' PROVE Lost(r)'
    <3>1. Lost(r)
      BY <2>0, <2>1 DEF RevokedInv
    <3>2. ASSUME NEW g \in Committed, GrantsOf(g, a, cap), Before(r, g) PROVE Lost(r)'
      <4>1. g \in Committed' /\ Before(r, g)'
        BY <3>2, LogGrows
      <4>. QED  BY <3>2, <4>1 DEF Lost, GrantsOf
    <3>. QED  BY <2>1, <3>1, <3>2 DEF Lost
  <2>2. CASE Quiet
    <3>1. r \in Answered
      BY <2>2, BooksQuiet
    <3>2. Without(a, cap) => Without(a, cap)'
      BY <2>0, <2>2 DEF Quiet
    <3>. QED  BY <2>1, <3>1, <3>2 DEF Lost
  <2>3. ASSUME NEW c \in Commands, CarriesOut(c) PROVE Lost(r)'
    <3>0. Answered' = Answered \cup {c} /\ c \in Committed /\ \A q \in Answered : Before(q, c)
      BY <2>0, <2>3, CarriedOut
    <3>1. CASE Cmd[c].kind = "grant" /\ GrantsOf(c, a, cap)
      <4>1. r \in Answered /\ Before(r, c)
        BY <3>0, <3>1
      <4>2. c \in Committed' /\ Before(r, c)'
        BY <3>0, <4>1, LogGrows
      <4>. QED  BY <3>1, <4>2 DEF Lost, GrantsOf
    <3>2. CASE Cmd[c].kind = "grant" /\ ~GrantsOf(c, a, cap)
      <4>1. r \in Answered
        BY <3>0, <3>2
      <4>2. PICK g0 : /\ grants' = [grants EXCEPT ![Cmd[c].to] = @ \cup {g0}]
                      /\ g0.cap = Cmd[c].what
        <5>1. PICK n : grants' = [grants EXCEPT ![Cmd[c].to] =
                                    @ \cup {Grant(n, Cmd[c].what, Cmd[c].covers, Cmd[c].until, Cmd[c].actor)}]
          BY <2>3, <3>2, Zenon DEF CarriesOut, DoGrant
        <5>2. Grant(n, Cmd[c].what, Cmd[c].covers, Cmd[c].until, Cmd[c].actor).cap = Cmd[c].what
          BY DEF Grant
        <5>. QED  BY <5>1, <5>2
      <4>3. revoked' = revoked \ {<<Cmd[c].to, Cmd[c].what>>}
        BY <2>3, <3>2 DEF CarriesOut, DoGrant
      <4>4. ~(Cmd[c].to = a /\ Cmd[c].what = cap)
        BY <3>2 DEF GrantsOf
      <4>5. ASSUME Without(a, cap) PROVE Without(a, cap)'
        <5>1. <<a, cap>> \in revoked'
          BY <4>3, <4>4, <4>5 DEF Without
        <5>2. \A g \in grants'[a] : g.cap # cap
          <6>1. grants'[a] = IF a = Cmd[c].to THEN grants[a] \cup {g0} ELSE grants[a]
            BY <2>0, <4>2 DEF TypeOK
          <6>. QED  BY <4>2, <4>4, <4>5, <6>1 DEF Without
        <5>. QED  BY <5>1, <5>2 DEF Without
      <4>. QED  BY <2>1, <4>1, <4>5 DEF Lost
    <3>3. CASE Cmd[c].kind = "revoke"
      <4>1. /\ grants' = [grants EXCEPT ![Cmd[c].to] = {g \in @ : g.cap # Cmd[c].what}]
            /\ revoked' = revoked \cup {<<Cmd[c].to, Cmd[c].what>>}
        BY <2>3, <3>3 DEF CarriesOut, DoRevoke
      <4>2. Without(a, cap) \/ r = c => Without(a, cap)'
        BY <2>0, <4>1 DEF TypeOK, Without
      <4>3. CASE r = c
        BY <4>2, <4>3 DEF Lost
      <4>4. CASE r \in Answered
        BY <2>1, <4>2, <4>4 DEF Lost
      <4>. QED  BY <3>0, <4>3, <4>4
    <3>. QED  BY <2>3, <3>1, <3>2, <3>3 DEF CarriesOut
  <2>. QED  BY <2>0, <2>2, <2>3, QuietOrCarriesOut
<1>. QED  BY <1>1, <1>2, TypeInvariant, ShapeInvariant, LoggedInvariant, SerialInvariant, PTL DEF Spec

(***************************************************************************)
(* A command that was submitted after the revocation was answered and has  *)
(* passed the boundary: the capability was granted again in between.       *)
(***************************************************************************)
Regranted(r, c) == \E g \in Committed : GrantsOf(g, Cmd[c].actor, Cmd[c].needs) /\ Before(r, g)

PassedAgain ==
  \A c \in Commands : \A r \in earlier[c] :
    /\ r \in Commands /\ (Takes(r, c) => r \in Answered)
    /\ orderly /\ Takes(r, c) /\ pc[c] \in {"bounded", "cleared"} => Regranted(r, c)

HoldsSinceThen ==
  orderly => \A c \in Committed : \A r \in earlier[c] : Takes(r, c) =>
    \E g \in Committed : Before(r, g) /\ Before(g, c) /\ GrantsOf(g, Cmd[c].actor, Cmd[c].needs)

LEMMA EarlierChanges ==
  ASSUME TypeOK, [Next]_vars, NEW c \in Commands, NEW r \in earlier'[c]
  PROVE  \/ r \in earlier[c]
         \/ pc[c] = "new" /\ pc'[c] \in {"gated", "denied"} /\ r \in Commands /\ pc[r] = "accepted"
<1>1. ASSUME NEW d \in Commands, Step(d)
      PROVE  \/ r \in earlier[c]
             \/ pc[c] = "new" /\ pc'[c] \in {"gated", "denied"} /\ r \in Commands /\ pc[r] = "accepted"
  <2>1. CASE Gate(d)
    BY <2>1 DEF Gate, Goto, TypeOK
  <2>. QED  BY <1>1, <2>1 DEF Step, Refuse, Boundary, Recheck, Commit, Fails, Effects
<1>. QED  BY <1>1 DEF Next, vars, TimePasses, Restart

LEMMA AcceptedStays ==
  ASSUME TypeOK, [Next]_vars, NEW r \in Commands, pc[r] = "accepted"
  PROVE  pc'[r] = "accepted"
<1>1. ASSUME NEW d \in Commands, Step(d) PROVE pc'[r] = "accepted"
  BY <1>1 DEF Step, Gate, Refuse, Boundary, Recheck, Commit, Fails, Effects, Goto, TypeOK
<1>. QED  BY <1>1 DEF Next, vars, TimePasses, Restart, InSubmit, TypeOK

LEMMA PassedAgainStep ==
  ASSUME GovernorsKeep, TypeOK, Shape, Logged, Serial, RevokedInv, PassedAgain, [Next]_vars
  PROVE  PassedAgain'
<1>. SUFFICES ASSUME NEW c \in Commands, NEW r \in earlier'[c]
              PROVE  /\ r \in Commands /\ (Takes(r, c) => r \in Answered')
                     /\ orderly' /\ Takes(r, c) /\ pc'[c] \in {"bounded", "cleared"} => Regranted(r, c)'
  BY DEF PassedAgain, Takes
<1>1. r \in Commands /\ (Takes(r, c) => r \in Answered)
  BY EarlierChanges DEF PassedAgain, Answered, Takes, Authoritative
<1>2. Takes(r, c) => r \in Answered'
  BY <1>1, AcceptedStays DEF Answered, Authoritative
<1>3. ASSUME orderly', Takes(r, c), pc'[c] \in {"bounded", "cleared"} PROVE Regranted(r, c)'
  <2>1. orderly
    BY <1>3 DEF Next, vars
  <2>2. \/ pc[c] \in {"bounded", "cleared"}
        \/ pc[c] = "gated" /\ WithinAuthority(c)
    <3>1. ASSUME NEW d \in Commands, Step(d)
          PROVE  \/ pc[c] \in {"bounded", "cleared"}
                 \/ pc[c] = "gated" /\ WithinAuthority(c)
      BY <1>3, <3>1 DEF Step, Gate, Refuse, Boundary, Recheck, Commit, Fails, Effects, Goto, TypeOK
    <3>. QED  BY <1>3, <2>1, <3>1 DEF Next, vars, TimePasses, Restart
  <2>3. r \in earlier[c]
    BY <2>2, EarlierChanges
  <2>4. Regranted(r, c)
    <3>1. CASE pc[c] \in {"bounded", "cleared"}
      BY <1>3, <2>1, <2>3, <3>1 DEF PassedAgain
    <3>2. CASE WithinAuthority(c)
      <4>1. Lost(r)
        BY <1>1, <1>3, <2>1 DEF RevokedInv, Takes
      <4>2. ~Without(Cmd[r].to, Cmd[r].what)
        BY <1>3, <3>2 DEF WithinAuthority, Candidates, Without, Takes
      <4>. QED  BY <1>3, <4>1, <4>2 DEF Lost, Regranted, Takes
    <3>. QED  BY <2>2, <3>1, <3>2
  <2>5. PICK g \in Committed : GrantsOf(g, Cmd[c].actor, Cmd[c].needs) /\ Before(r, g)
    BY <2>4 DEF Regranted
  <2>6. g \in Committed' /\ Before(r, g)'
    BY <2>5, LogGrows
  <2>. QED  BY <2>5, <2>6 DEF Regranted, GrantsOf
<1>. QED  BY <1>1, <1>2, <1>3

LEMMA HoldsStep ==
  ASSUME TypeOK, Shape, Logged, PassedAgain, HoldsSinceThen, [Next]_vars
  PROVE  HoldsSinceThen'
<1>. SUFFICES ASSUME orderly', NEW c \in Committed', NEW r \in earlier'[c], Takes(r, c)
              PROVE  \E g \in Committed' : /\ Before(r, g)' /\ Before(g, c)'
                                           /\ GrantsOf(g, Cmd[c].actor, Cmd[c].needs)
  BY DEF HoldsSinceThen, Takes, GrantsOf
<1>1. orderly
  BY DEF Next, vars
<1>2. CASE c \in Committed
  <2>1. c \in Commands /\ pc[c] # "new"
    BY <1>2 DEF Committed, Shape, Logged
  <2>2. r \in earlier[c]
    BY <2>1, EarlierChanges
  <2>3. PICK g \in Committed : Before(r, g) /\ Before(g, c) /\ GrantsOf(g, Cmd[c].actor, Cmd[c].needs)
    BY <1>1, <1>2, <2>2 DEF HoldsSinceThen
  <2>. QED  BY <2>3, LogGrows
<1>3. CASE c \notin Committed
  <2>1. PICK e \in Commands : Commit(e)
    BY <1>3, LogStep DEF Committed
  <2>2. c = e /\ \A g \in Committed : Before(g, c)'
    BY <1>3, <2>1, CommitAppends DEF Commit
  <2>3. r \in earlier[c]
    BY <2>1, <2>2 DEF Commit
  <2>4. PICK g \in Committed : GrantsOf(g, Cmd[c].actor, Cmd[c].needs) /\ Before(r, g)
    BY <1>1, <2>1, <2>2, <2>3 DEF Commit, PassedAgain, Regranted
  <2>. QED  BY <2>2, <2>4, LogGrows
<1>. QED  BY <1>2, <1>3

(***************************************************************************)
(* Of authority commands that come one at a time, in a process that does   *)
(* not stop: the engine holds exactly the grants of the log that no later  *)
(* revocation took, and a command submitted after a revocation was         *)
(* answered is committed only when the capability was granted again -      *)
(* unless it is one a governor's next session gives back.                  *)
(***************************************************************************)
THEOREM RevocationStands == GovernorsKeep => (Spec => []Revocation)
<1>. SUFFICES ASSUME GovernorsKeep PROVE Spec => []Revocation
  OBVIOUS
<1>1. Spec => []PassedAgain
  <2>1. Init => PassedAgain
    BY DEF Init, PassedAgain
  <2>2. TypeOK /\ Shape /\ Logged /\ Serial /\ RevokedInv /\ PassedAgain /\ [Next]_vars => PassedAgain'
    BY PassedAgainStep
  <2>. QED  BY <2>1, <2>2, TypeInvariant, ShapeInvariant, LoggedInvariant, SerialInvariant, RevokedInvariant, PTL
            DEF Spec
<1>2. Spec => []HoldsSinceThen
  <2>1. Init => HoldsSinceThen
    BY DEF Init, HoldsSinceThen, Committed
  <2>2. TypeOK /\ Shape /\ Logged /\ PassedAgain /\ HoldsSinceThen /\ [Next]_vars => HoldsSinceThen'
    BY HoldsStep
  <2>. QED  BY <1>1, <2>1, <2>2, TypeInvariant, ShapeInvariant, LoggedInvariant, PTL DEF Spec
<1>3. HoldsSinceThen /\ orderly => RevocationHolds
  BY DEF HoldsSinceThen, RevocationHolds, GrantsOf
<1>4. ASSUME Shape, Logged, Serial, EngineInv, orderly PROVE EngineMatchesLog
  <2>. SUFFICES ASSUME \A c \in Commands : Authoritative(c) => pc[c] # "committed",
                       NEW a \in Holders, NEW cap \in CapPatterns
                PROVE  {<<g.covers, g.until, g.by>> : g \in {h \in grants[a] : h.cap = cap /\ h.by # System}} =
                       {<<Cmd[g].covers, Cmd[g].until, Cmd[g].actor>> : g \in LoggedGrants(a, cap)}
    BY DEF EngineMatchesLog
  <2>1. Committed \subseteq Commands
    BY <1>4 DEF Committed, Shape
  <2>2. \A d : d \in Committed /\ Authoritative(d) <=> d \in Answered
    BY <1>4, <2>1 DEF Logged, Serial, Answered
  <2>3. LoggedGrants(a, cap) = Standing(a, cap)
    BY <2>2 DEF LoggedGrants, Standing, GrantsOf, RevokesOf, Authoritative
  <2>4. Held(a, cap) = TermsOf(Standing(a, cap))
    BY <1>4 DEF EngineInv
  <2>5. {h \in grants[a] : h.cap = cap /\ h.by # System} = {h \in Given(a) : h.cap = cap}
    BY DEF Given
  <2>. QED  BY <2>3, <2>4, <2>5 DEF Held, TermsOf, Terms
<1>5. Shape /\ Logged /\ Serial /\ EngineInv /\ HoldsSinceThen => Revocation
  BY <1>3, <1>4 DEF Revocation
<1>. QED  BY <1>2, <1>5, ShapeInvariant, LoggedInvariant, SerialInvariant, EngineInvariant, PTL
=============================================================================
