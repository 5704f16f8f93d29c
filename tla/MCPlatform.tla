------------------------------ MODULE MCPlatform ------------------------------
(***************************************************************************)
(* PlatformLayer, Machines and Compiler for TLC.  Their parts share no     *)
(* state, so one run checks them side by side: subject says which moves,   *)
(* the others stay as they began.                                          *)
(***************************************************************************)
EXTENDS PlatformLayer, SequencesExt

CONSTANT Null

VARIABLES
  subject,
  ast, context, states, last,                 \* of Machines
  tree, edits, given, run, out, exit, torn    \* of Compiler

machineVars == <<ast, context, states, last>>
buildVars   == <<tree, edits, given, run, out, exit, torn>>

-----------------------------------------------------------------------------
\* Each driver alone, with its key and credentials that validate.
Rails == {"dwolla", "modern_treasury", "column", "fednow", "rtp", "wire", "sepa", "swift", "card", "stablecoin", "evm"}
MCRailEnvs ==
  {[keys |-> {d}, valid |-> {d, "oracle"}] : d \in Rails}
    \cup {[keys |-> {"card"}, valid |-> {}], [keys |-> {}, valid |-> Rails]}
\* A command is submitted twice where no key is sent and where the wire may close; its status is then not asked for.
TwoSubmissions ==
  submissions'[2] # None =>
    /\ registered \subseteq {"sovr", "card"} \/ registered \subseteq {"sovr", "wire"}
    /\ \A d \in registered : reported'[d]["c1"] = None

-----------------------------------------------------------------------------
Gate(type, fatal) == [type |-> type, static |-> FALSE, fatal |-> fatal, complete |-> TRUE]
Funds    == <<Gate("BALANCE_SUFFICIENT", TRUE), Gate("COMPLIANCE_HOLD_ABSENT", TRUE), Gate("TIME_WINDOW", FALSE)>>
Limits   == <<[Gate("AUTHORIZATION_LIMIT", TRUE) EXCEPT !.static = TRUE], Gate("AUTHORIZATION_LIMIT", None),
              Gate("APPROVAL_QUORUM", TRUE)>>
Account  == <<Gate("KYC_VERIFIED", FALSE), Gate("ACCOUNT_ACTIVE", TRUE), Gate("STATE_PRECONDITION", TRUE)>>
Partial  == <<Gate("AMOUNT_WITHIN_LIMIT", TRUE), [Gate("APPROVAL_QUORUM", TRUE) EXCEPT !.complete = FALSE],
              [Gate("COMPLIANCE_HOLD_ABSENT", TRUE) EXCEPT !.complete = FALSE]>>
Depends  == <<Gate("DEPENDENCY_SATISFIED", TRUE)>>
Unheard  == <<Gate("UNHEARD_OF", None)>>
AllEvaluators ==
  {"BALANCE_SUFFICIENT", "STATE_PRECONDITION", "AUTHORIZATION_LIMIT", "TIME_WINDOW", "APPROVAL_QUORUM",
   "COMPLIANCE_HOLD_ABSENT", "ACCOUNT_ACTIVE", "AMOUNT_WITHIN_LIMIT"}
MCDeclared   == {<<>>, Funds, Limits, Account, Partial, Depends, Unheard}
MCPayloads   ==
  {[account |-> "acc", amount |-> 2], [account |-> "acc", amount |-> -1], [account |-> None, amount |-> 1],
   [account |-> "acc", amount |-> Text]}
MCEvaluators == {{}, {"TIME_WINDOW", "AMOUNT_WITHIN_LIMIT"}, AllEvaluators}
\* Two commands are checked at once when both take funds.
TwoChecks == checks'[2] # None => checks'[1] # None /\ \A k \in {1, 2} : checks'[k].gates = Funds

-----------------------------------------------------------------------------
\* Conditions of two fields, nested as deep as the parser goes and one deeper.
ML == INSTANCE Machines WITH
  Conditions <- {}, Aggregates <- {}, Machine <- [states |-> {}], Triggers <- {}, Contexts <- {}, Fields <- {}, Values <- {},
  AllowUnresolved <- FALSE, MaxDepth <- 0
Leaf == {ML!Identifier("f"), ML!Exists("f"), ML!Member("g", {1}), ML!Compare("f", "<=", 0), ML!Compare("g", "!=", 0)}
Both(Lefts, Rights) == {ML!Bool(op, l, r) : op \in {"AND", "OR"}, l \in Lefts, r \in Rights}
Small      == {ML!Not(e) : e \in Leaf} \cup Both({ML!Identifier("f"), ML!Compare("g", "!=", 0)}, Leaf)
Conditions == Leaf \cup Small \cup {ML!Not(e) : e \in Small} \cup Both(Small, Small) \cup {ML!Not(ML!Not(ML!Not(e))) : e \in Leaf}
Transition(from, to, trigger, emits, invalid, guard) ==
  [from |-> from, to |-> to, trigger |-> trigger, emits |-> emits, invalid |-> invalid, guard |-> guard]
Machine ==
  [initial |-> "A", finals |-> {"D"}, states |-> {"A", "B", "C", "D"},
   transitions |-> <<Transition("A", "B", "go", {"Went"}, FALSE, ML!Compare("f", "<=", 0)),
                     Transition("A", "C", "go", {"Went"}, FALSE, ML!Literal(TRUE)),
                     Transition("B", "C", "go", {}, TRUE, ML!Literal(TRUE)),
                     Transition("B", "D", "end", {"Ended"}, FALSE, ML!Exists("f")),
                     Transition("C", "D", "end", {"Ended"}, FALSE, ML!Error),
                     Transition("D", "A", "end", {}, FALSE, ML!Literal(TRUE))>>]
M == INSTANCE Machines WITH
  Aggregates <- {"a1", "a2"}, Triggers <- {"go", "end", "Ended"}, Fields <- {"f", "g"}, Values <- {0, 1},
  Contexts <- UNION {[D -> {0, 1, Null}] : D \in SUBSET {"f", "g"}}, AllowUnresolved <- FALSE, MaxDepth <- 2

-----------------------------------------------------------------------------
Production == [node |-> "production", jwtSecret |-> TRUE, keys |-> "good", manifest |-> "h1", attestation |-> "h1",
               bootManifest |-> "h1", envHash |-> None, autoGrant |-> FALSE, kafka |-> TRUE, redis |-> TRUE, db |-> TRUE,
               cors |-> TRUE, registries |-> TRUE]
Development == [Production EXCEPT !.node = "development", !.keys = None, !.kafka = FALSE, !.redis = FALSE, !.db = FALSE]
MCEnvs ==
  {Production, Development}
            \cup [node : {"production", "staging"}, jwtSecret : BOOLEAN, keys : {"good", "bad", None}, manifest : {"h1", None},
                  attestation : {"h1", "h2", None}, bootManifest : {"h1", "h2"}, envHash : {None, "h1"}, autoGrant : BOOLEAN,
                  kafka : {TRUE}, redis : {FALSE}, db : {FALSE}, cors : BOOLEAN, registries : BOOLEAN]
\* Requests come in the order of their ids, to two environments, the first for a session, the second for a command, and
\* the third to Production alone.
Busy ==
  /\ \A r \in {1, 2, 3} : requests'[r] # None => env \in {Production, Development} /\ (r > 1 => requests'[r - 1] # None)
  /\ requests'[3] # None => env = Production
  /\ requests'[1] # None => "type" \in DOMAIN requests'[1]
  /\ requests'[2] # None => "route" \in DOMAIN requests'[2] /\ requests'[2].route = "command"

-----------------------------------------------------------------------------
MCNames ==
  {[name |-> n, actor |-> "a1"] : n \in {"identity.actor.registered", "identity.actor.verified", "vault.asset.registered"}}
    \cup {[name |-> "vault.asset.registered", actor |-> "a2"]}
MCConfigs ==
  {[did |-> TRUE, kafka |-> TRUE, redis |-> TRUE, keys |-> k] : k \in BOOLEAN}
    \cup {[did |-> FALSE, kafka |-> FALSE, redis |-> TRUE, keys |-> FALSE]}

-----------------------------------------------------------------------------
\* A protocol that compiles, and what may be wrong with it.
CT == INSTANCE Compiler WITH Trees <- [none |-> None], Edited <- {}, MaxEdits <- 0, MaxCommands <- 0
ProtocolPass(id, deps) == [id |-> id, deps |-> deps, det |-> TRUE]
ProtocolPasses == <<ProtocolPass(1, {}), ProtocolPass(2, {1}), ProtocolPass(6, {2}), ProtocolPass(8, {6}), ProtocolPass(13, {8}), ProtocolPass(15, {13}),
            ProtocolPass(16, {15}), ProtocolPass(17, {15}), ProtocolPass(18, {16, 17}), ProtocolPass(19, {18}), ProtocolPass(20, {19})>>
Constitution(version, invariants) == [version |-> version, invariants |-> invariants]
CatalogCommand(aggregate, emits, capability) ==
  [domain |-> "vault", aggregate |-> aggregate, emits |-> emits, capability |-> capability, gates |-> TRUE,
   exempt |-> FALSE, ref |-> None, reason |-> FALSE]
Arrow(command, trigger, emits, condition) == [command |-> command, trigger |-> trigger, emits |-> emits, condition |-> condition]
Vault(transitions) == [vault |-> [domain |-> "vault", aggregate |-> "Asset", allowed |-> {"register"}, transitions |-> transitions]]
Protocol ==
  [passes |-> [passes |-> ProtocolPasses],
   manifest |-> [status |-> "LOCKED", lock |-> Constitution(1, 1..10), domains |-> {"vault"}], constitution |-> Constitution(1, 1..10),
   model |-> [entities |-> {"vault.Asset"}, fields |-> {"value"}],
   commands |-> [commands |-> [register |-> CatalogCommand("Asset", {"Registered"}, "vault.write"),
                               sweep |-> [CatalogCommand(None, {"Swept"}, "system.internal") EXCEPT !.exempt = TRUE, !.ref = "ADR-1", !.reason = TRUE]],
                 exemptions |-> [x \in {} |-> x], failOnUncovered |-> TRUE, sections |-> {{"inputs"}}],
   events |-> [events |-> {"Registered", "Swept"}, envelope |-> 10],
   machines |-> [machines |-> Vault({Arrow("register", "Registered", {"Registered"}, [valid |-> TRUE, fields |-> {"value"}])})],
   capabilities |-> [capabilities |-> {"vault.write"}],
   sagas |-> [sagas |-> {[id |-> "s", live |-> TRUE, steps |-> {"register", "system.internal.wait"}]}],
   adr |-> [decisions |-> {"ADR-1"}],
   other |-> [mirrors |-> {"register"}]]
Without(t, d) == [x \in DOMAIN t \ {d} |-> t[x]]
With(t, ts) == [t EXCEPT !["machines"].machines = Vault(ts)]
Registry(t, ps) == [t EXCEPT !["passes"].passes = ps]
UnknownEvent(t) == [t EXCEPT !["commands"].commands["register"].emits = {"Lost"}]
Exempted(ref, reason) == [exempt |-> TRUE, ref |-> ref, reason |-> reason]
ProtocolTrees ==
  [good      |-> Protocol,
   other     |-> [Protocol EXCEPT !["other"].mirrors = {"unheard"}],
   fewer     |-> Without(Protocol, "other"),
   unlocked  |-> [Protocol EXCEPT !["constitution"] = Constitution(2, 1..10)],
   unchecked |-> Registry(UnknownEvent(Protocol), SelectSeq(ProtocolPasses, LAMBDA p : p.id # 6)),
   event     |-> UnknownEvent(Protocol),
   noted     |-> [x \in DOMAIN Protocol \cup {"status"} |-> IF x = "status" THEN CT!NullDoc ELSE Protocol[x]],
   status    |-> [Protocol EXCEPT !["manifest"].status = "DRAFT"],
   nolock    |-> Without(Protocol, "constitution"),
   incomplete|-> [Protocol EXCEPT !["constitution"] = Constitution(1, 1..9), !["manifest"].lock = Constitution(1, 1..9)],
   null      |-> [Protocol EXCEPT !["other"] = CT!NullDoc],
   bad       |-> [Protocol EXCEPT !["sagas"] = CT!Bad],
   badlock   |-> [Protocol EXCEPT !["constitution"] = CT!Bad],
   envelope  |-> [Protocol EXCEPT !["events"].envelope = 9],
   noevents  |-> Without(Protocol, "events"),
   power     |-> Without(Protocol, "capabilities"),
   gates     |-> [Protocol EXCEPT !["commands"].commands["register"].gates = FALSE],
   allowed   |-> [Protocol EXCEPT !["machines"].machines["vault"].allowed = {"unheard"}],
   prose     |-> [Protocol EXCEPT !["machines"].machines["vault"].allowed = {"system clock"}],
   trigger   |-> With(Protocol, {Arrow("register", "Lost", {}, None)}),
   emits     |-> With(Protocol, {Arrow("register", "Registered", {"Lost"}, None)}),
   guard     |-> With(Protocol, {Arrow(None, "Registered", {}, [valid |-> FALSE])}),
   field     |-> With(Protocol, {Arrow(None, "Registered", {}, [valid |-> TRUE, fields |-> {"lost"}])}),
   saga      |-> [Protocol EXCEPT !["sagas"].sagas = {[id |-> "s", live |-> TRUE, steps |-> {"unheard"}]}],
   template  |-> [Protocol EXCEPT !["sagas"].sagas = {[id |-> "s", live |-> FALSE, steps |-> {"unheard"}]}],
   dropped   |-> [Protocol EXCEPT !["commands"].sections = {{"inputs", "outputs"}}],
   uncovered |-> Without(Protocol, "machines"),
   tolerated |-> [Without(Protocol, "machines") EXCEPT !["commands"].failOnUncovered = FALSE],
   listed    |-> [Without(Protocol, "machines") EXCEPT !["commands"].exemptions = [register |-> Exempted("ADR-1", TRUE)]],
   noadr     |-> Without(Protocol, "adr"),
   noreason  |-> [Protocol EXCEPT !["commands"].commands["sweep"].reason = FALSE],
   nocatalog |-> Without(Protocol, "commands"),
   noorder   |-> Registry(Protocol, <<>>),
   nopasses  |-> Without(Protocol, "passes"),
   twice     |-> Registry(Protocol, Append(ProtocolPasses, ProtocolPass(1, {}))),
   unknown   |-> Registry(Protocol, Append(ProtocolPasses, ProtocolPass(21, {22}))),
   unhandled |-> Registry(Protocol, Append(ProtocolPasses, ProtocolPass(21, {20}))),
   random    |-> Registry(Protocol, [ProtocolPasses EXCEPT ![3].det = FALSE]),
   cycle     |-> Registry(Protocol, [ProtocolPasses EXCEPT ![3].deps = {8}]),
   reversed  |-> Registry(Protocol, Reverse(ProtocolPasses)),
   loose     |-> Registry(Protocol, Reverse([n \in DOMAIN ProtocolPasses |-> ProtocolPass(ProtocolPasses[n].id, {})]))]
C == INSTANCE Compiler WITH
  Trees <- ProtocolTrees, Edited <- {"good", "other", "fewer", "unlocked", "unchecked", "event"}, MaxEdits <- 3, MaxCommands <- 2
\* The tree is edited between the two readings of a run and between two runs, to the lock, to a document nothing
\* refers to, and from passes that skip a check to those that make it; verify is the first command.
Edits ==
  /\ edits' # edits =>
       /\ {tree, tree'} \in {{"good", x} : x \in {"unlocked", "other", "fewer"}} \cup {{"unchecked", "event"}}
       /\ run # None => run.ctx.parsed = None \/ run.todo = <<>>
       /\ edits > 0 => tree' \in {"good", "unlocked", "unchecked", "event"}
  /\ given' = 2 /\ run' # None => run'.cmd # "verify"

-----------------------------------------------------------------------------
MCInit ==
  /\ subject \in {"rails", "gates", "machines", "server", "fanout", "ach", "compiler"}
  \* Those that have a choice at the start make it only when they move.
  /\ IF subject = "gates" THEN TRUE ELSE evaluators = {}
  /\ IF subject = "machines" THEN TRUE ELSE ast = None
  /\ IF subject = "server" THEN TRUE ELSE env = Production
  /\ IF subject = "fanout" THEN TRUE ELSE config = [did |-> FALSE, kafka |-> FALSE, redis |-> TRUE, keys |-> FALSE]
  /\ IF subject = "compiler" THEN TRUE ELSE tree = "good"
  /\ R!Init /\ G!Init /\ M!Init /\ S!Init /\ F!Init /\ B!Init /\ C!Init

MCNext ==
  /\ UNCHANGED subject
  /\ \/ subject = "rails" /\ R!Next /\ TwoSubmissions
        /\ UNCHANGED <<gateVars, machineVars, serverVars, fanVars, achVars, buildVars>>
     \/ subject = "gates" /\ G!Next /\ TwoChecks
        /\ UNCHANGED <<railVars, machineVars, serverVars, fanVars, achVars, buildVars>>
     \/ subject = "machines" /\ M!Next
        /\ UNCHANGED <<railVars, gateVars, serverVars, fanVars, achVars, buildVars>>
     \/ subject = "server" /\ S!Next /\ Busy
        /\ UNCHANGED <<railVars, gateVars, machineVars, fanVars, achVars, buildVars>>
     \/ subject = "fanout" /\ F!Next
        /\ UNCHANGED <<railVars, gateVars, machineVars, serverVars, achVars, buildVars>>
     \/ subject = "ach" /\ B!Next
        /\ UNCHANGED <<railVars, gateVars, machineVars, serverVars, fanVars, buildVars>>
     \/ subject = "compiler" /\ C!Next /\ Edits
        /\ UNCHANGED <<railVars, gateVars, machineVars, serverVars, fanVars, achVars>>

MCSpec == MCInit /\ [][MCNext]_<<subject, railVars, gateVars, machineVars, serverVars, fanVars, achVars, buildVars>>

-----------------------------------------------------------------------------
(***************************************************************************)
(* The compiler: what is published was checked, is of one build, and is    *)
(* what a boot attests.                                                    *)
(***************************************************************************)
BuildsAreSound == C!TypeOK /\ C!PublishedIsSound /\ C!OneBuild /\ C!AttestedIsInputs

(***************************************************************************)
(* The guards of StateMachineInterpreter: a guard is parsed as it was      *)
(* written and, unless it negates, fails when a fact is missing.           *)
(***************************************************************************)
MachinesFollowGuards == M!TypeOK /\ M!ParsedAsWritten /\ M!MissingFailsClosed

(***************************************************************************)
(* What a step may not do: an aggregate does not leave a final state of    *)
(* its own accord, guards are read as they were written, and the breaker   *)
(* of AchAdapter does not close before its probes succeeded.               *)
(***************************************************************************)
NoWayBack == []MachinesFollowGuards /\ M!FinalIsFinal /\ B!BreakerRecovers
=============================================================================
