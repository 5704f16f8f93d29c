------------------------------ MODULE Compiler ------------------------------
(***************************************************************************)
(* The protocol compiler and its command line (packages/compiler/src): a   *)
(* run takes the documents of the working tree through the passes of the   *)
(* pass registry and halts after the first that leaves an ERROR or a FATAL *)
(* diagnostic.  compile runs twice, the second time as a process of its    *)
(* own, and writes its artifacts one file after the other; package bundles *)
(* what it finds; boot checks the inputs against the manifest, runs once   *)
(* more and attests.  The tree may be edited and the process may stop      *)
(* between any two of these steps.                                         *)
(*                                                                         *)
(* A tree is a function from its documents to their contents, so a hash is *)
(* the content itself.  Diagnostics are kept as their code and severity.   *)
(* One file is written at once.                                            *)
(***************************************************************************)
EXTENDS Integers, Sequences, FiniteSets, SequencesExt

CONSTANTS
  None,         \* no value
  Trees,        \* a function from names to the trees there may be
  Edited,       \* the trees an edit may lead to
  MaxEdits,     \* how often the tree is edited
  MaxCommands   \* how many commands are given

VARIABLES
  tree,     \* the name of the working tree
  edits,    \* how often it was edited
  given,    \* how many commands were given
  run,      \* the command at work: its passes still to do, its context and what it has to write
  out,      \* the files of generated/ and dist/, each with the build it belongs to
  exit,     \* how the last command ended
  torn      \* the commands whose last write stopped halfway

vars == <<tree, edits, given, run, out, exit, torn>>

Now == Trees[tree]

\* The files in the order writeOutput has them; some registries sort after the registry manifest.
Generated == <<"certification", "manifest", "commands", "registry.manifest", "validation">>
BootFiles == <<"attestation", "boot-manifest">>

-----------------------------------------------------------------------------
(* The pass registry *)
Ids(ps) == {ps[n].id : n \in DOMAIN ps}

\* computeTopologicalOrder: of the passes that may run the first one listed.
Order(ps) ==
  LET from[done \in SUBSET DOMAIN ps] ==
        LET ready == {n \in DOMAIN ps \ done : ps[n].deps \subseteq {ps[m].id : m \in done}}
            first == CHOOSE n \in ready : \A m \in ready : n <= m
        IN  IF ready = {} THEN <<>> ELSE <<ps[first].id>> \o from[done \cup {first}]
  IN  from[{}]

RegistryThrows(ps) ==
  \/ ps = <<>>
  \/ Cardinality(Ids(ps)) < Len(ps)
  \/ \E n \in DOMAIN ps : ~ps[n].det \/ ~(ps[n].deps \subseteq Ids(ps))
  \/ Len(Order(ps)) < Len(ps)

-----------------------------------------------------------------------------
(* What the passes find *)
Diagnostic(code, severity) == [code |-> code, severity |-> severity]
Err(code, found)  == IF found THEN {Diagnostic(code, "ERROR")} ELSE {}
Warn(code, found) == IF found THEN {Diagnostic(code, "WARNING")} ELSE {}
Blocking(ds) == \E d \in ds : d.severity \in {"ERROR", "FATAL"}

\* A document without content, and one that is no YAML.
NullDoc == [null |-> TRUE]
Bad  == [bad |-> TRUE]
Has(t, d) == d \in DOMAIN t
\* discoverProtocolInputs: documents on the state of the project are no inputs.
Discover(t) == DOMAIN t \ {"status"}
\* loadYamlFile throws: the document is gone, or no YAML.
Unreadable(t, ds) == \E d \in ds : ~Has(t, d) \/ t[d] = Bad
Empty == [x \in {} |-> x]
Commands(t)     == IF Has(t, "commands") THEN t["commands"].commands ELSE Empty
Events(t)       == IF Has(t, "events") THEN t["events"].events ELSE {}
Capabilities(t) == IF Has(t, "capabilities") THEN t["capabilities"].capabilities ELSE {}
Machines(t)     == IF Has(t, "machines") THEN t["machines"].machines ELSE Empty
Sagas(t)        == IF Has(t, "sagas") THEN t["sagas"].sagas ELSE {}
Adrs(t)         == IF Has(t, "adr") THEN t["adr"].decisions ELSE {}
Transitions(t)  == UNION {Machines(t)[m].transitions : m \in DOMAIN Machines(t)}

\* PASS-001: the lock of the constitution.
LockOf(t) ==
  IF ~Has(t, "manifest") \/ ~Has(t, "constitution") THEN {Diagnostic("CONST-LOCK-001", "FATAL")}
  ELSE IF t["manifest"] = NullDoc \/ t["manifest"].status # "LOCKED" \/ t["manifest"].lock # t["constitution"] THEN {Diagnostic("CONST-LOCK-002", "FATAL")}
  ELSE {}

\* PASS-002
ParseProtocol(t) == Err("SYNTAX-002", \E d \in DOMAIN t : t[d] = NullDoc)

\* PASS-006: validateReferences, one definition for each of its loops.
EnvelopeOf(t) == Err("SEM-003", ~Has(t, "events") \/ t["events"].envelope < 10)
Wildcards == {None, "system.internal", "varies by rail", "treasury.*"}
CommandRefs(t) ==
  IF ~Has(t, "commands") \/ ~Has(t, "events") THEN {}
  ELSE LET cs == {Commands(t)[c] : c \in DOMAIN Commands(t)}
       IN  Err("REF-003", \E c \in cs : ~(c.emits \subseteq Events(t)))
             \cup Err("REF-004", \E c \in cs : c.capability \notin Wildcards \cup Capabilities(t))
             \cup Err("SEM-004", \E c \in cs : ~c.gates)
Prose == {None, "system clock"}
MachineRefs(t) ==
  LET named == UNION {Machines(t)[m].allowed : m \in DOMAIN Machines(t)} \cup {x.command : x \in Transitions(t)}
  IN  Err("REF-002", ~(named \subseteq DOMAIN Commands(t) \cup Prose))
TriggerRefs(t) == Err("REF-008", \E x \in Transitions(t) : x.trigger \notin Events(t) \/ ~(x.emits \subseteq Events(t)))
SagaRefs(t) ==
  LET lost(live) == \E s \in Sagas(t) : s.live = live /\ ~(s.steps \subseteq DOMAIN Commands(t) \cup Prose \cup {"system.internal.wait"})
  IN  Err("REF-005", lost(TRUE)) \cup Warn("REF-005", lost(FALSE))
ShapeKeys == {"inputs", "outputs", "preconditions", "resulting_events", "required_payload"}
DroppedRefs(t) ==
  LET other == IF Has(t, "other") THEN t["other"].mirrors ELSE {}
  IN  Err("REF-006", Has(t, "commands") /\ \E keys \in t["commands"].sections : Cardinality(keys \cap ShapeKeys) >= 2)
        \cup Warn("REF-007", other \cap DOMAIN Commands(t) # {}) \cup Warn("REF-006", other \ DOMAIN Commands(t) # {})
InvariantRefs(t) == Err("INV-003", Has(t, "constitution") /\ ~(1..10 \subseteq t["constitution"].invariants))
ValidateReferences(t) ==
  EnvelopeOf(t) \cup CommandRefs(t) \cup SagaRefs(t) \cup DroppedRefs(t) \cup InvariantRefs(t)
    \cup (IF Has(t, "machines") /\ Has(t, "commands") THEN MachineRefs(t) \cup TriggerRefs(t) ELSE {})

\* PASS-008: the guards; a trivial one is None.
Guards(t) == {x.condition : x \in Transitions(t)} \ {None}
CollectDomainFields(t) == {"amount", "status"} \cup (IF Has(t, "model") THEN t["model"].fields ELSE {})
SemanticAnalysis(t) ==
  Err("SEM-001", \E g \in Guards(t) : ~g.valid)
    \cup Warn("SEM-002", \E g \in Guards(t) : g.valid /\ ~(g.fields \subseteq CollectDomainFields(t)))

\* PASS-013: the nodes and the edges of the IR.
Domains(t) == t["manifest"].domains
Nodes(t) ==
  ({"domain"} \X Domains(t))
    \cup ({"entity"} \X (IF Has(t, "model") THEN t["model"].entities ELSE {}))
    \cup ({"command"} \X DOMAIN Commands(t)) \cup ({"event"} \X Events(t)) \cup ({"capability"} \X Capabilities(t))
    \cup {<<"saga", s.id>> : s \in Sagas(t)} \cup ({"state_machine"} \X DOMAIN Machines(t))
Edges(t) ==
  UNION {LET c == Commands(t)[n] IN
           {<<<<"domain", c.domain>>, <<"command", n>>>>}
             \cup {<<<<"command", n>>, <<"event", e>>>> : e \in c.emits}
             \cup {<<<<"command", n>>, <<"capability", p>>>> : p \in {c.capability} \ {None}} : n \in DOMAIN Commands(t)}
    \cup {<<<<"domain", Machines(t)[m].domain>>, <<"state_machine", m>>>> : m \in DOMAIN Machines(t)}

\* PASS-018: computeCommandLifecycleCoverage; a machine of the aggregate comes before an exemption.
Exemption(t, c) ==
  LET listed == t["commands"].exemptions
  IN  IF c \in DOMAIN listed THEN listed[c] ELSE IF Commands(t)[c].exempt THEN Commands(t)[c] ELSE None
Governs(t, m, c) ==
  Commands(t)[c].aggregate # None /\ Machines(t)[m].domain = Commands(t)[c].domain
    /\ Machines(t)[m].aggregate = Commands(t)[c].aggregate
HasMachine(t, c) == \E m \in DOMAIN Machines(t) : Governs(t, m, c)
Exempt(t, c) == Commands(t)[c].exempt \/ (Exemption(t, c) # None /\ Exemption(t, c).exempt)
Valid(t, c) ==
  LET x == Exemption(t, c)
  IN  /\ (IF x.ref # None THEN x.ref ELSE Commands(t)[c].ref) \in Adrs(t)
      /\ x.reason \/ Commands(t)[c].reason
Uncovered(t)         == {c \in DOMAIN Commands(t) : ~HasMachine(t, c) /\ ~Exempt(t, c)}
InvalidExemptions(t) == {c \in DOMAIN Commands(t) : ~HasMachine(t, c) /\ Exempt(t, c) /\ ~Valid(t, c)}

\* PASS-020
Lifecycle(t) ==
  Err("LIFECYCLE-002", InvalidExemptions(t) # {})
    \cup Err("LIFECYCLE-001", Has(t, "commands") /\ t["commands"].failOnUncovered /\ Uncovered(t) # {})

-----------------------------------------------------------------------------
(* A run of the compiler *)
NewContext == [found |-> {}, parsed |-> None, diags |-> {}, have |-> {}]

\* The command ends, with exit code 0 or not.
Exit(cmd, ok) == run' = None /\ exit' = [cmd |-> cmd, ok |-> ok]

\* fromFile, registerMany, and run: first is the build of the run before, where there was one.
StartRun(cmd, first, manifest, began) ==
  IF ~Has(Now, "passes") \/ RegistryThrows(Now["passes"].passes) THEN Exit(cmd, FALSE)
  ELSE /\ run' = [cmd |-> cmd, began |-> began, todo |-> Order(Now["passes"].passes), ctx |-> NewContext, first |-> first,
                  manifest |-> manifest, files |-> <<>>, content |-> None]
       /\ exit' = None

AtWork == run # None
Turn(p) == AtWork /\ run.todo # <<>> /\ Head(run.todo) = p
Steady  == UNCHANGED <<tree, edits, given, out, torn>>

\* What follows each pass: assertFailClosed.
Passed(ctx) ==
  IF Blocking(ctx.diags) THEN Exit(run.cmd, FALSE)
  ELSE run' = [run EXCEPT !.todo = Tail(run.todo), !.ctx = ctx] /\ UNCHANGED exit

\* A handler that lacks what an earlier pass should have left throws, which halts as well.
Unless(throws, ctx) == IF throws THEN Exit(run.cmd, FALSE) ELSE Passed(ctx)
Needs(things) == ~(things \subseteq run.ctx.have)
Finds(ds)  == [run.ctx EXCEPT !.diags = @ \cup ds]
Makes(things) == [run.ctx EXCEPT !.have = @ \cup things]

Pass001 ==
  /\ Turn(1)
  /\ Unless(Unreadable(Now, {"manifest", "constitution"} \cap Discover(Now)),
            [Finds(LockOf(Now)) EXCEPT !.found = Discover(Now)])
  /\ Steady

\* The documents found before are read now.
Pass002 ==
  /\ Turn(2)
  /\ LET found == run.ctx.found
     IN  IF Unreadable(Now, found) THEN Exit(run.cmd, FALSE)
         ELSE LET read == [d \in found |-> Now[d]]
              IN  Passed([Finds(ParseProtocol(read)) EXCEPT !.parsed = read, !.have = @ \cup {"parsed"}])
  /\ Steady

Pass006 == Turn(6) /\ Unless(Needs({"parsed"}), Finds(ValidateReferences(run.ctx.parsed))) /\ Steady
Pass008 == Turn(8) /\ Unless(Needs({"parsed"}), Finds(SemanticAnalysis(run.ctx.parsed))) /\ Steady
Pass013 == Turn(13) /\ Unless(Needs({"parsed"}), Makes({"ir"})) /\ Steady
Pass015 == Turn(15) /\ Unless(Needs({"ir", "parsed"}), Makes({"generated"})) /\ Steady
Pass018 == Turn(18) /\ Unless(Needs({"ir", "generated", "parsed"}), Makes({"hashes"})) /\ Steady
Pass019 == Turn(19) /\ Unless(Needs({"ir", "generated", "hashes"}), Makes({"manifest"})) /\ Steady
Pass020 == Turn(20) /\ Passed(IF "hashes" \in run.ctx.have THEN Finds(Lifecycle(run.ctx.parsed)) ELSE run.ctx) /\ Steady

\* The other passes note a sentence of evidence; a pass without a handler throws.
Noted == (1..20) \ {1, 2, 6, 8, 13, 15, 18, 19, 20}
OtherPass ==
  /\ AtWork /\ run.todo # <<>>
  /\ \/ Head(run.todo) \in Noted /\ Passed(run.ctx)
     \/ Head(run.todo) \notin 1..20 /\ Exit(run.cmd, FALSE)
  /\ Steady

-----------------------------------------------------------------------------
(* The commands *)
\* What the files will say; edits counts those since the command was given.
Content(build, identical, booted) ==
  [build |-> build, identical |-> identical, booted |-> booted, edits |-> edits - run.began]
Writes(files, content) == run' = [run EXCEPT !.files = files, !.content = content] /\ UNCHANGED exit

\* A seeded fault: the build hash of the manifest is compared with itself.
IdenticalAlways(run1, run2) == TRUE
\* verifyAgainstTree: two trees of files are identical when every file is, and they are made of the inputs alone.
Identical(run1, run2) == run1 = run2
\* runIsolatedCompile: once more, as a process of its own.
RunIsolatedCompile(build) == StartRun(run.cmd, build, None, run.began)
\* runBootSequence: every stage passes whatever the IR holds, and what is attested is the build of the manifest.
RunBootSequence(ir) == Content(run.manifest, TRUE, ir)
\* The run is over.  compile and verify run twice; compile writes its first output, identical to the second or not.
Finish ==
  /\ AtWork /\ run.todo = <<>> /\ run.content = None
  /\ LET build == run.ctx.parsed
     IN  IF Needs({"ir", "generated", "hashes", "manifest"}) THEN Exit(run.cmd, FALSE)
         ELSE CASE run.cmd = "package" -> Writes(Generated, Content(build, FALSE, None))
                [] run.cmd = "boot"    -> Writes(BootFiles, RunBootSequence(build))
                [] run.cmd \in {"compile", "verify"} /\ run.first = None -> RunIsolatedCompile(build)
                [] run.cmd = "compile" /\ run.first # None -> Writes(Generated, Content(run.first, Identical(run.first, build), None))
                [] run.cmd = "verify" /\ run.first # None -> Exit("verify", Identical(run.first, build))
  /\ Steady

\* A bundle keeps which files it found, and whether a write had been cut off.
Bundled == out' = [out EXCEPT !["bundle"] = [files |-> {out[f] : f \in ToSet(Generated)}, torn |-> "generated" \in torn]]
WriteFile ==
  /\ AtWork /\ run.files # <<>>
  /\ out' = [out EXCEPT ![Head(run.files)] = run.content]
  /\ run' = [run EXCEPT !.files = Tail(@)]
  /\ UNCHANGED <<tree, edits, given, exit, torn>>
\* The last file is written: package bundles now; compile fails when its runs differed.
EndWrite ==
  /\ AtWork /\ run.content # None /\ run.files = <<>>
  /\ IF run.cmd = "package" THEN Bundled ELSE UNCHANGED out
  /\ Exit(run.cmd, run.cmd = "compile" => run.content.identical)
  /\ torn' = torn \ {IF run.cmd = "boot" THEN "boot" ELSE "generated"}
  /\ UNCHANGED <<tree, edits, given>>

Given(cmd) == ~AtWork /\ given < MaxCommands /\ given' = given + 1 /\ UNCHANGED <<tree, edits, torn>>

Compile == Given("compile") /\ StartRun("compile", None, None, edits) /\ UNCHANGED out
Verify  == Given("verify") /\ StartRun("verify", None, None, edits) /\ UNCHANGED out
\* package compiles only when the manifests are missing, and takes what there is.
Package ==
  /\ Given("package")
  /\ IF out["manifest"] = None \/ out["registry.manifest"] = None
     THEN StartRun("package", None, None, edits) /\ UNCHANGED out
     ELSE IF out["certification"] = None THEN Exit("package", FALSE) /\ UNCHANGED out
     ELSE Bundled /\ Exit("package", TRUE)

\* runBootloader: only a document that is still there and can be read is compared.
Tampered(build) == \E d \in DOMAIN build \cap Discover(Now) : Now[d] # Bad /\ Now[d] # build[d]
\* runPOST depends on the memory and the version of Node.
RunPOST == BOOLEAN
\* A self test that failed, or a bootloader that did, is told on the console; the exit code stays 0.
Boot ==
  /\ Given("boot")
  /\ \E post \in RunPOST :
       IF ~post \/ out["manifest"] = None \/ Tampered(out["manifest"].build) THEN Exit("boot", TRUE)
       ELSE StartRun("boot", None, out["manifest"].build, edits)
  /\ UNCHANGED out

-----------------------------------------------------------------------------
Edit ==
  /\ edits < MaxEdits /\ edits' = edits + 1
  /\ tree' \in Edited \ {tree}
  /\ UNCHANGED <<given, run, out, exit, torn>>

Crash ==
  /\ AtWork
  /\ run' = None /\ exit' = None
  /\ torn' = IF run.files \in {<<>>, Generated, BootFiles} THEN torn
             ELSE torn \cup {IF run.cmd = "boot" THEN "boot" ELSE "generated"}
  /\ UNCHANGED <<tree, edits, given, out>>

Init ==
  /\ tree \in DOMAIN Trees /\ edits = 0 /\ given = 0
  /\ run = None /\ exit = None /\ torn = {}
  /\ out = [f \in ToSet(Generated) \cup ToSet(BootFiles) \cup {"bundle"} |-> None]

Next ==
  \/ Compile \/ Verify \/ Package \/ Boot \/ Edit \/ Crash
  \/ Pass001 \/ Pass002 \/ Pass006 \/ Pass008 \/ Pass013 \/ Pass015 \/ Pass018 \/ Pass019 \/ Pass020 \/ OtherPass
  \/ Finish \/ WriteFile \/ EndWrite

Spec == Init /\ [][Next]_vars

-----------------------------------------------------------------------------
(***************************************************************************)
(* The types: a command has at most one build before it and its files left *)
(* to write are the last of the list it writes.                            *)
(***************************************************************************)
TypeOK ==
  /\ tree \in DOMAIN Trees /\ edits \in 0..MaxEdits /\ given \in 0..MaxCommands
  /\ torn \subseteq {"generated", "boot"}
  /\ exit # None => exit.cmd \in {"compile", "verify", "package", "boot"} /\ exit.ok \in BOOLEAN
  /\ run # None =>
       /\ run.cmd \in {"compile", "verify", "package", "boot"}
       /\ run.began \in 0..edits
       /\ IsSuffix(run.files, IF run.cmd = "boot" THEN BootFiles ELSE Generated)
       /\ run.ctx.have \subseteq {"parsed", "ir", "generated", "hashes", "manifest"}

\* What the authority loader finds in commands.registry.json and machines.registry.json of a build.
CommandRegistry(t) ==
  [c \in DOMAIN Commands(t) |-> [domain |-> Commands(t)[c].domain, aggregate |-> Commands(t)[c].aggregate,
                                 lifecycle_exempt |-> Exempt(t, c)]]
MachineRegistry(t) == {[domain |-> Machines(t)[m].domain, aggregate |-> Machines(t)[m].aggregate] : m \in DOMAIN Machines(t)}
\* Whether CommandBus has a command executed, by the coverage it builds from the two.
BusCovers(t, c) ==
  LET entry == CommandRegistry(t)[c]
  IN  \/ \E m \in MachineRegistry(t) : entry.aggregate # None /\ m.domain = entry.domain /\ m.aggregate = entry.aggregate
      \/ entry.lifecycle_exempt

\* The build of a registry with all the passes that check or produce something.
Full(build) == (1..20) \ Noted \subseteq Ids(build["passes"].passes)
\* The lock holds, no reference hangs, the guards parse, and the bus executes every command, one without a machine
\* only by a decision on record.
Sound(t) ==
  /\ t["manifest"].lock = t["constitution"] /\ 1..10 \subseteq t["constitution"].invariants
  /\ \A e \in Edges(t) : e[2][1] = "event" => e[2] \in Nodes(t)
  /\ Has(t, "commands") =>
       /\ \A x \in Transitions(t) : {<<"event", e>> : e \in {x.trigger} \cup x.emits} \subseteq Nodes(t)
       /\ \A s \in Sagas(t) : s.live => \A c \in s.steps \ Prose : <<"command", c>> \in Nodes(t) \/ c = "system.internal.wait"
       /\ t["commands"].failOnUncovered => \A c \in DOMAIN Commands(t) : BusCovers(t, c)
       /\ \A c \in DOMAIN Commands(t) : CommandRegistry(t)[c].lifecycle_exempt => HasMachine(t, c) \/ Valid(t, c)
  /\ \A g \in Guards(t) : g.valid

Written == {out[f] : f \in ToSet(Generated)} \ {None}
(***************************************************************************)
(* What is written was checked: the build of a file is sound when the      *)
(* documents stood still while the command ran, and when it is certified   *)
(* identical it takes three edits during the two runs to be otherwise.     *)
(***************************************************************************)
PublishedIsSound ==
  \A c \in Written : Full(c.build) /\ (c.edits = 0 \/ (c.identical /\ c.edits < 3)) => Sound(c.build)

(***************************************************************************)
(* The certificate, the manifest and the registries are of one build and   *)
(* agree on its determinism, in generated/ and in the bundle, unless a     *)
(* write was cut off; and a compile that ends well left such a set.        *)
(***************************************************************************)
OneBuild ==
  /\ "generated" \notin torn /\ (AtWork => run.content = None) => Cardinality({out[f] : f \in ToSet(Generated)}) = 1
  /\ out["bundle"] # None /\ ~out["bundle"].torn => Cardinality(out["bundle"].files) = 1
  /\ exit # None /\ exit.cmd = "compile" /\ exit.ok => \A f \in ToSet(Generated) : out[f] # None /\ out[f].identical

(***************************************************************************)
(* A boot attests the build of the manifest only over inputs that agree    *)
(* with it wherever both have a document, unless they changed during boot; *)
(* and what it ran to attest it was checked.                               *)
(***************************************************************************)
AttestedIsInputs ==
  LET a == out["attestation"]
  IN  a # None /\ a.edits = 0 =>
        /\ \A d \in DOMAIN a.build \cap DOMAIN a.booted : a.booted[d] = a.build[d]
        /\ Full(a.booted) => Sound(a.booted)
=============================================================================
