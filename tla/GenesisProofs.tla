---------------------------- MODULE GenesisProofs ----------------------------
(***************************************************************************)
(* Theorems about Genesis for any accounts, plans of the operator, dying   *)
(* scripts and formatted clusters.                                         *)
(*                                                                         *)
(* Between two formats of the cluster the ledger only grows, and a record  *)
(* on it keeps the run that made it; so what a document says of an era     *)
(* stays true in that era, and a document of an earlier era says nothing   *)
(* of the ledger that is.                                                  *)
(***************************************************************************)
EXTENDS Genesis, FiniteSetTheorems, TLAPS

\* What a lock certificate, and a policy enabled on it, say of the ledger.
OverGenesis(p) ==
  /\ p.accounts = Accounts /\ Cardinality(p.transfers) = 1
  /\ p.era \in Nat /\ p.era <= era
  /\ p.era = era => p.accounts \subseteq Present /\ p.transfers \subseteq Booked

\* What the record of a genesis says.
MadeWhole(g) ==
  /\ g.era \in Nat /\ g.era <= era
  /\ g.status = "GENESIS_COMPLETE" /\ g.era = era =>
       /\ g.run \in Nat \ {0} /\ transfer[Heartbeat] = g.run
       /\ \A a \in Accounts : account[a] = g.run

\* What the certificate of the pipeline says.
Moved(p) ==
  /\ p.era \in Nat /\ p.era <= era
  /\ p.era = era => /\ p.id \in Transfers /\ p.run \in Nat \ {0} /\ transfer[p.id] = p.run
                    /\ transfer[Heartbeat] # 0 /\ \A a \in Accounts : account[a] # 0

PapersInv ==
  /\ file["final"] # None => MadeWhole(file["final"])
  /\ file["lock"] # None => OverGenesis(file["lock"])
  /\ file["policy"] # None => OverGenesis(file["policy"])
  /\ file["pipeline"] # None => Moved(file["pipeline"])

\* What a script knows of the ledger where it is; nothing else writes while it runs.
ScriptInv ==
  /\ script.at \notin {"idle", "lock.write", "enable.activate"} => run # 0
  /\ At("genesis.accounts") => (\A a \in Accounts : account[a] = 0) /\ transfer[Heartbeat] = 0
  /\ At("genesis.transfer") => (\A a \in Accounts : account[a] \in {0, run}) /\ transfer[Heartbeat] = 0
  /\ At("genesis.readback") => (\A a \in Accounts : account[a] \in {0, run}) /\ transfer[Heartbeat] = run
  /\ script.at \in {"lock.write", "enable.activate"} => OverGenesis(script.root)
  /\ script.at \in {"pipeline.move", "pipeline.validate", "pipeline.replay"} =>
       /\ script = [at |-> script.at, id |-> script.id, before |-> script.before]
       /\ script.id \in Transfers
  /\ At("pipeline.move") => script.before = Cardinality(Booked)
  /\ At("pipeline.validate") => transfer[script.id] = run \/ script.before = Cardinality(Booked)
  /\ At("pipeline.replay") => transfer[script.id] = run

GenesisInv == TypeOK /\ PapersInv /\ ScriptInv

-----------------------------------------------------------------------------
(***************************************************************************)
(* The ledger.                                                             *)
(***************************************************************************)
\* Nothing that is on the ledger changes.
LedgerGrows ==
  /\ era' = era
  /\ \A a \in Accounts : account[a] # 0 => account'[a] = account[a]
  /\ \A t \in Transfers : transfer[t] # 0 => transfer'[t] = transfer[t]

LEMMA SaidStays ==
  ASSUME TypeOK, LedgerGrows \/ era' = era + 1, NEW p
  PROVE  /\ OverGenesis(p) => OverGenesis(p)'
         /\ MadeWhole(p) => MadeWhole(p)'
         /\ Moved(p) => Moved(p)'
<1>1. era \in Nat /\ Heartbeat \in Transfers
  BY GenesisAssumption DEF GenesisAssumption, TypeOK, Transfers
<1>2. CASE era' = era + 1
  BY <1>1, <1>2 DEF OverGenesis, MadeWhole, Moved
<1>3. CASE LedgerGrows
  <2>1. Present \subseteq Present' /\ Booked \subseteq Booked'
    BY <1>3 DEF LedgerGrows, Present, Booked
  <2>2. OverGenesis(p) => OverGenesis(p)'
    BY <1>3, <2>1 DEF OverGenesis, LedgerGrows
  <2>3. MadeWhole(p) => MadeWhole(p)'
    BY <1>1, <1>3 DEF MadeWhole, LedgerGrows
  <2>4. Moved(p) => Moved(p)'
    BY <1>1, <1>3 DEF Moved, LedgerGrows
  <2>. QED  BY <2>2, <2>3, <2>4
<1>. QED  BY <1>2, <1>3

LEMMA BookedIsCounted == Cardinality(Booked) \in Nat
<1>0. IsFiniteSet({Heartbeat})
  BY FS_Singleton
<1>1. IsFiniteSet({Heartbeat} \cup {Legacy}) /\ IsFiniteSet(Moves)
  BY <1>0, FS_AddElement, GenesisAssumption DEF GenesisAssumption
<1>2. IsFiniteSet(Transfers)
  <2>1. Transfers = ({Heartbeat} \cup {Legacy}) \cup Moves
    BY DEF Transfers
  <2>. QED  BY <1>1, <2>1, FS_Union
<1>3. Booked \subseteq Transfers
  BY DEF Booked
<1>4. IsFiniteSet(Booked)
  BY <1>2, <1>3, FS_Subset
<1>. QED  BY <1>4, FS_CardinalityType

LEMMA Created ==
  ASSUME TypeOK, ScriptInv, run # 0, era' = era,
         \/ transfer' = transfer /\ \E made \in SUBSET Accounts : CreateAccounts(made)
         \/ account' = account /\ \E t \in Transfers : CreateTransfer(t)
  PROVE  /\ LedgerGrows
         /\ account' \in [Accounts -> 0..plan.runs] /\ transfer' \in [Transfers -> 0..plan.runs]
         /\ \A t \in Booked' : {Debit, Credit} \subseteq Present'
         /\ \A a \in Accounts : account'[a] \in {account[a], run}
<1>0. /\ account \in [Accounts -> 0..plan.runs] /\ transfer \in [Transfers -> 0..plan.runs]
      /\ run \in 0..plan.runs /\ {Debit, Credit} \subseteq Accounts
      /\ \A t \in Booked : {Debit, Credit} \subseteq Present
  BY GenesisAssumption DEF TypeOK, GenesisAssumption
<1>1. CASE transfer' = transfer /\ \E made \in SUBSET Accounts : CreateAccounts(made)
  <2>1. PICK made : account' = [a \in Accounts |-> IF a \in made /\ account[a] = 0 THEN run ELSE account[a]]
    BY <1>1 DEF CreateAccounts
  <2>2. Booked' = Booked /\ Present \subseteq Present'
    BY <1>1, <2>1 DEF Booked, Present
  <2>. QED  BY <1>0, <1>1, <2>1, <2>2 DEF LedgerGrows
<1>2. CASE account' = account /\ \E t \in Transfers : CreateTransfer(t)
  <2>1. PICK t \in Transfers : transfer' = IF CanBook(t) THEN [transfer EXCEPT ![t] = run] ELSE transfer
    BY <1>2 DEF CreateTransfer
  <2>2. Present' = Present /\ \A u \in Booked' : u \in Booked \/ CanBook(t)
    BY <1>0, <1>2, <2>1 DEF Booked, Present
  <2>3. \A u \in Booked' : {Debit, Credit} \subseteq Present'
    BY <1>0, <2>2 DEF CanBook
  <2>4. transfer' \in [Transfers -> 0..plan.runs] /\ LedgerGrows
    BY <1>0, <1>2, <2>1 DEF LedgerGrows, CanBook
  <2>. QED  BY <1>0, <1>2, <2>3, <2>4
<1>. QED  BY <1>1, <1>2

-----------------------------------------------------------------------------
(***************************************************************************)
(* The documents.                                                          *)
(***************************************************************************)
\* A document that is written is true of the ledger that is then, or says nothing of it.
Truly(d, v) ==
  /\ d = "final" => MadeWhole(v)
  /\ d \in {"lock", "policy"} => OverGenesis(v)
  /\ d = "pipeline" => Moved(v)

LEMMA PapersKept ==
  ASSUME TypeOK, PapersInv, LedgerGrows \/ era' = era + 1, NEW d \in Documents, NEW v,
         file' = file \/ (Write(d, v) /\ Truly(d, v)')
  PROVE  PapersInv' /\ DOMAIN file' = Documents
<1>1. DOMAIN file = Documents /\ {"final", "lock", "policy", "pipeline"} \subseteq Documents
  BY DEF TypeOK, Documents
<1>2. ASSUME NEW e \in {"final", "lock", "policy", "pipeline"}
      PROVE  file'[e] = file[e] \/ (e = d /\ file'[e] = v /\ Truly(e, v)')
  BY <1>1 DEF Write
<1>3. PICK f : f = file
  OBVIOUS
<1>4. file'["final"] # None => MadeWhole(file["final"])'
  <2>1. CASE file'["final"] = f["final"]
    <3>1. MadeWhole(f["final"]) => MadeWhole(f["final"])'
      BY SaidStays
    <3>. QED  BY <1>3, <2>1, <3>1 DEF PapersInv, MadeWhole
  <2>2. CASE file'["final"] = v /\ Truly("final", v)'
    BY <2>2 DEF Truly, MadeWhole
  <2>. QED  BY <1>2, <1>3, <2>1, <2>2
<1>5. ASSUME NEW e \in {"lock", "policy"}, file'[e] # None
      PROVE  OverGenesis(file[e])'
  <2>1. CASE file'[e] = f[e]
    <3>1. OverGenesis(f[e]) => OverGenesis(f[e])'
      BY SaidStays
    <3>. QED  BY <1>3, <1>5, <2>1, <3>1 DEF PapersInv, OverGenesis
  <2>2. CASE file'[e] = v /\ Truly(e, v)'
    BY <2>2 DEF Truly, OverGenesis
  <2>. QED  BY <1>2, <1>3, <2>1, <2>2
<1>6. file'["pipeline"] # None => Moved(file["pipeline"])'
  <2>1. CASE file'["pipeline"] = f["pipeline"]
    <3>1. Moved(f["pipeline"]) => Moved(f["pipeline"])'
      BY SaidStays
    <3>. QED  BY <1>3, <2>1, <3>1 DEF PapersInv, Moved
  <2>2. CASE file'["pipeline"] = v /\ Truly("pipeline", v)'
    BY <2>2 DEF Truly, Moved
  <2>. QED  BY <1>2, <1>3, <2>1, <2>2
<1>7. DOMAIN file' = Documents
  BY <1>1 DEF Write
<1>. QED  BY <1>4, <1>5, <1>6, <1>7 DEF PapersInv

\* The documents that say nothing of the ledger, or nothing any theorem is about.
Plain == Documents \ {"final", "lock", "policy", "pipeline"}

\* The steps that leave the ledger alone and write at most a plain document.
OnPaperOnly ==
  /\ Unwritten /\ signed' \subseteq Approvals /\ script' \in {script, Idle}
  /\ file' = file \/ \E d \in Plain : \E v : Write(d, v)

LEMMA StaysSaid ==
  ASSUME Unwritten, TypeOK
  PROVE  LedgerGrows /\ Present' = Present /\ Booked' = Booked
BY DEF Unwritten, LedgerGrows, Present, Booked

LEMMA PaperStep ==
  ASSUME GenesisInv, OnPaperOnly
  PROVE  GenesisInv'
<1>. USE DEF GenesisInv
<1>1. LedgerGrows /\ Present' = Present /\ Booked' = Booked
  BY StaysSaid DEF OnPaperOnly
<1>2. PICK d \in Plain : file' = file \/ \E v : Write(d, v)
  BY DEF OnPaperOnly, Plain, Documents
<1>2a. PICK v : file' = file \/ Write(d, v)
  BY <1>2
<1>3. d \in Documents /\ Truly(d, v)'
  BY DEF Plain, Truly
<1>4. PapersInv' /\ DOMAIN file' = Documents
  BY <1>1, <1>2a, <1>3, PapersKept
<1>5. TypeOK'
  BY <1>1, <1>4 DEF TypeOK, OnPaperOnly, Unwritten
<1>6. ScriptInv'
  <2>1. CASE script' = Idle
    BY <2>1 DEF ScriptInv, Idle, At
  <2>2. CASE script' = script
    BY <1>1, <2>2 DEF ScriptInv, At, OnPaperOnly, Unwritten, OverGenesis
  <2>. QED  BY <2>1, <2>2 DEF OnPaperOnly
<1>. QED  BY <1>4, <1>5, <1>6

-----------------------------------------------------------------------------
(***************************************************************************)
(* The invariant.                                                          *)
(***************************************************************************)
LEMMA InvInit == Init => GenesisInv
<1>. SUFFICES ASSUME Init PROVE GenesisInv
  OBVIOUS
<1>1. TypeOK
  <2>1. [a \in Accounts |-> 0] \in [Accounts -> 0..plan.runs] /\ [t \in Transfers |-> 0] \in [Transfers -> 0..plan.runs]
    BY GenesisAssumption DEF Init, GenesisAssumption
  <2>2. plan.scripts \subseteq AllScripts /\ plan.approvals \subseteq Approvals /\ plan.runs \in Nat
    BY GenesisAssumption DEF Init, GenesisAssumption
  <2>3. Booked = {}
    BY DEF Init, Booked
  <2>. QED  BY <2>1, <2>2, <2>3, GenesisAssumption DEF Init, TypeOK, GenesisAssumption
<1>2. PapersInv
  BY DEF Init, PapersInv, Documents
<1>3. ScriptInv
  BY DEF Init, ScriptInv, Idle, At
<1>. QED  BY <1>1, <1>2, <1>3 DEF GenesisInv

\* A script starts to write.
LEMMA BeginStep ==
  ASSUME GenesisInv, NEW s, NEW at, Begin(s, at),
         at.at \in {"writer.accounts", "genesis.check", "pipeline.move"},
         at.at = "pipeline.move" =>
            \E t \in Transfers : at = [at |-> "pipeline.move", id |-> t, before |-> Cardinality(Booked)]
  PROVE  GenesisInv'
<1>. USE DEF GenesisInv
<1>1. LedgerGrows /\ Present' = Present /\ Booked' = Booked
  BY DEF Begin, LedgerGrows, Present, Booked
<1>2. PapersInv' /\ DOMAIN file' = Documents
  <2>1. "shadow" \in Documents /\ file' = file
    BY DEF Documents, Begin
  <2>. QED  BY <1>1, <2>1, PapersKept
<1>3. TypeOK' /\ run' # 0
  BY <1>1, <1>2 DEF TypeOK, Begin
<1>4. ScriptInv'
  BY <1>1, <1>3 DEF ScriptInv, At, Begin
<1>. QED  BY <1>2, <1>3, <1>4

\* A call that creates.
LEMMA CreateStep ==
  ASSUME GenesisInv, run # 0, UNCHANGED <<plan, era, run, signed>>,
         \/ transfer' = transfer /\ \E made \in SUBSET Accounts : CreateAccounts(made)
         \/ account' = account /\ \E t \in Transfers : CreateTransfer(t),
         file' = file \/ \E d \in Plain : \E v : Write(d, v)
  PROVE  TypeOK' /\ PapersInv'
<1>. USE DEF GenesisInv
<1>1. /\ LedgerGrows
      /\ account' \in [Accounts -> 0..plan.runs] /\ transfer' \in [Transfers -> 0..plan.runs]
      /\ \A t \in Booked' : {Debit, Credit} \subseteq Present'
  BY Created
<1>2. PICK d \in Plain : file' = file \/ \E v : Write(d, v)
  BY DEF Plain, Documents
<1>2a. PICK v : file' = file \/ Write(d, v)
  BY <1>2
<1>3. d \in Documents /\ Truly(d, v)'
  BY DEF Plain, Truly
<1>4. PapersInv' /\ DOMAIN file' = Documents
  BY <1>1, <1>2a, <1>3, PapersKept
<1>5. TypeOK'
  BY <1>1, <1>4 DEF TypeOK
<1>. QED  BY <1>4, <1>5

\* A step of a script that reads, and writes at most a document that is true.
LEMMA ReadStep ==
  ASSUME GenesisInv, Unwritten, signed' = signed, NEW d \in Documents, NEW v,
         file' = file \/ (Write(d, v) /\ Truly(d, v))
  PROVE  /\ TypeOK' /\ PapersInv' /\ Present' = Present /\ Booked' = Booked
         /\ \A p : OverGenesis(p) => OverGenesis(p)'
<1>. USE DEF GenesisInv
<1>1. LedgerGrows /\ Present' = Present /\ Booked' = Booked
  BY StaysSaid
<1>2. Truly(d, v) => Truly(d, v)'
  <2>1. /\ OverGenesis(v) => OverGenesis(v)'
        /\ MadeWhole(v) => MadeWhole(v)'
        /\ Moved(v) => Moved(v)'
    BY <1>1, SaidStays
  <2>. QED  BY <2>1 DEF Truly
<1>3. PapersInv' /\ DOMAIN file' = Documents
  BY <1>1, <1>2, PapersKept
<1>4. TypeOK'
  BY <1>1, <1>3 DEF TypeOK, Unwritten
<1>5. ASSUME NEW p PROVE OverGenesis(p) => OverGenesis(p)'
  BY <1>1, SaidStays
<1>. QED  BY <1>1, <1>3, <1>4, <1>5

LEMMA WriterSteps ==
  ASSUME GenesisInv, WriteAccounts \/ WriteTransfer
  PROVE  GenesisInv'
<1>. USE DEF GenesisInv
<1>0. run # 0 /\ "ceremony" \in Plain /\ Legacy \in Transfers
  BY DEF ScriptInv, At, WriteAccounts, WriteTransfer, Plain, Documents, Transfers
<1>1. TypeOK' /\ PapersInv'
  <2>1. UNCHANGED <<plan, era, run, signed>>
    BY DEF WriteAccounts, WriteTransfer
  <2>2. \/ transfer' = transfer /\ \E made \in SUBSET Accounts : CreateAccounts(made)
        \/ account' = account /\ \E t \in Transfers : CreateTransfer(t)
    <3>1. CASE WriteAccounts
      BY <3>1 DEF WriteAccounts
    <3>2. CASE WriteTransfer
      BY <1>0, <3>2 DEF WriteTransfer
    <3>. QED  BY <3>1, <3>2
  <2>3. file' = file \/ \E d \in Plain : \E v : Write(d, v)
    BY <1>0 DEF WriteAccounts, WriteTransfer, WriteFailed
  <2>. QED  BY <1>0, <2>1, <2>2, <2>3, CreateStep
<1>2. script'.at \in {"idle", "writer.transfer", "writer.readback"} /\ run' # 0
  BY <1>0 DEF WriteAccounts, WriteTransfer, WriteFailed, Exit, Idle
<1>3. ScriptInv'
  BY <1>2 DEF ScriptInv, At
<1>. QED  BY <1>1, <1>3

LEMMA GenesisCreates ==
  ASSUME GenesisInv, GenesisAccounts \/ GenesisTransfer
  PROVE  GenesisInv'
<1>. USE DEF GenesisInv
<1>0. run # 0 /\ Heartbeat \in Transfers /\ transfer[Heartbeat] = 0
  BY DEF ScriptInv, At, GenesisAccounts, GenesisTransfer, Transfers
<1>1. UNCHANGED <<plan, era, run, signed, file>>
  BY DEF GenesisAccounts, GenesisTransfer
<1>2. \/ transfer' = transfer /\ \E made \in SUBSET Accounts : CreateAccounts(made)
      \/ account' = account /\ \E t \in Transfers : CreateTransfer(t)
  BY <1>0 DEF GenesisAccounts, GenesisTransfer
<1>3. TypeOK' /\ PapersInv'
  BY <1>0, <1>1, <1>2, CreateStep
<1>4. \A a \in Accounts : account'[a] \in {account[a], run}
  BY <1>0, <1>1, <1>2, Created
<1>5. \A a \in Accounts : account'[a] \in {0, run}
  BY <1>4 DEF ScriptInv, At, GenesisAccounts, GenesisTransfer
<1>6. CASE GenesisAccounts
  <2>1. script'.at = "genesis.transfer" /\ transfer'[Heartbeat] = 0
    BY <1>0, <1>6 DEF GenesisAccounts
  <2>. QED  BY <1>0, <1>1, <1>3, <1>5, <2>1 DEF ScriptInv, At
<1>7. CASE GenesisTransfer
  <2>1. CASE CanBook(Heartbeat)
    <3>1. script'.at = "genesis.readback" /\ transfer'[Heartbeat] = run
      BY <1>0, <1>7, <2>1 DEF GenesisTransfer, CreateTransfer, TypeOK
    <3>. QED  BY <1>0, <1>1, <1>3, <1>5, <3>1 DEF ScriptInv, At
  <2>2. CASE ~CanBook(Heartbeat)
    <3>1. script'.at = "idle"
      BY <1>7, <2>2 DEF GenesisTransfer, Exit, Idle
    <3>. QED  BY <1>3, <3>1 DEF ScriptInv, At
  <2>. QED  BY <2>1, <2>2
<1>. QED  BY <1>6, <1>7

LEMMA MoveStep ==
  ASSUME GenesisInv, Move
  PROVE  GenesisInv'
<1>. USE DEF GenesisInv
<1>0. /\ run # 0 /\ script = [at |-> script.at, id |-> script.id, before |-> script.before]
      /\ script.id \in Transfers /\ script.before = Cardinality(Booked)
  BY DEF ScriptInv, At, Move
<1>1. UNCHANGED <<plan, account, era, run, signed, file>>
  BY DEF Move
<1>2. account' = account /\ \E t \in Transfers : CreateTransfer(t)
  BY <1>0, <1>1 DEF Move
<1>3. TypeOK' /\ PapersInv'
  BY <1>0, <1>1, <1>2, CreateStep
<1>4. /\ script' = [at |-> "pipeline.validate", id |-> script.id, before |-> script.before]
      /\ script'.at = "pipeline.validate" /\ script'.id = script.id /\ script'.before = script.before
  BY <1>0 DEF Move
<1>5. transfer'[script.id] = run \/ script.before = Cardinality(Booked')
  <2>1. CASE CanBook(script.id)
    BY <1>0, <2>1 DEF Move, CreateTransfer, TypeOK
  <2>2. CASE ~CanBook(script.id)
    <3>1. Booked' = Booked
      BY <2>2 DEF Move, CreateTransfer, Booked
    <3>. QED  BY <1>0, <3>1
  <2>. QED  BY <2>1, <2>2
<1>6. ScriptInv'
  BY <1>0, <1>1, <1>4, <1>5 DEF ScriptInv, At
<1>. QED  BY <1>3, <1>6

LEMMA FormatStep ==
  ASSUME GenesisInv, Format
  PROVE  GenesisInv'
<1>. USE DEF GenesisInv
<1>1. PapersInv' /\ DOMAIN file' = Documents
  <2>1. "shadow" \in Documents /\ file' = file /\ era' = era + 1
    BY DEF Documents, Format
  <2>. QED  BY <2>1, PapersKept
<1>2. TypeOK'
  <2>1. [a \in Accounts |-> 0] \in [Accounts -> 0..plan.runs] /\ [t \in Transfers |-> 0] \in [Transfers -> 0..plan.runs]
    BY DEF TypeOK
  <2>2. Booked' = {}
    BY DEF Format, Booked
  <2>3. era' \in 0..MaxEras
    BY GenesisAssumption DEF Format, TypeOK, GenesisAssumption
  <2>. QED  BY <1>1, <2>1, <2>2, <2>3 DEF TypeOK, Format
<1>3. ScriptInv'
  BY DEF ScriptInv, At, Format, Runs
<1>. QED  BY <1>1, <1>2, <1>3

\* The scripts that read, and what they do not write.
LEMMA CheckSteps ==
  ASSUME GenesisInv, CheckEmpty \/ AttestRead \/ VerifyIntegrity
  PROVE  GenesisInv'
<1>. USE DEF GenesisInv
<1>1. Unwritten /\ signed' = signed /\ file' = file /\ "shadow" \in Documents
  BY DEF CheckEmpty, AttestRead, VerifyIntegrity, Documents
<1>2. /\ TypeOK' /\ PapersInv' /\ Present' = Present /\ Booked' = Booked
      /\ \A p : OverGenesis(p) => OverGenesis(p)'
  BY <1>1, ReadStep
<1>3. CASE CheckEmpty
  <2>1. CASE Present = {} /\ Heartbeat \notin Booked
    <3>1. run # 0 /\ script'.at = "genesis.accounts"
      BY <1>3, <2>1 DEF CheckEmpty, ScriptInv, At
    <3>2. (\A a \in Accounts : account[a] = 0) /\ transfer[Heartbeat] = 0
      BY <2>1 DEF Present, Booked, Transfers
    <3>. QED  BY <1>1, <1>2, <3>1, <3>2 DEF ScriptInv, At, Unwritten
  <2>2. CASE ~(Present = {} /\ Heartbeat \notin Booked)
    BY <1>2, <1>3, <2>2 DEF CheckEmpty, Exit, Idle, ScriptInv, At
  <2>. QED  BY <2>1, <2>2
<1>4. ASSUME NEW r, r = Ledger, OverGenesis(r), script'.root = r, script'.at \in {"lock.write", "enable.activate"}
      PROVE  GenesisInv'
  BY <1>2, <1>4 DEF ScriptInv, At, OverGenesis
<1>5. PICK r : r = Ledger
  OBVIOUS
<1>6. CASE AttestRead
  <2>1. era \in Nat
    BY GenesisAssumption DEF GenesisAssumption, TypeOK
  <2>2. OverGenesis(r)
    BY <1>5, <1>6, <2>1 DEF AttestRead, Complete, Ledger, OverGenesis
  <2>3. script'.root = r /\ script'.at = "lock.write"
    BY <1>5, <1>6 DEF AttestRead
  <2>. QED  BY <1>4, <1>5, <2>2, <2>3
<1>7. CASE VerifyIntegrity
  <2>1. CASE file["lock"] = Ledger
    <3>1. OverGenesis(r)
      BY <1>5, <1>7, <2>1 DEF VerifyIntegrity, PapersInv
    <3>2. script'.root = r /\ script'.at = "enable.activate"
      BY <1>5, <1>7, <2>1 DEF VerifyIntegrity
    <3>. QED  BY <1>4, <1>5, <3>1, <3>2
  <2>2. CASE file["lock"] # Ledger
    BY <1>2, <1>7, <2>2 DEF VerifyIntegrity, Idle, ScriptInv, At
  <2>. QED  BY <2>1, <2>2
<1>. QED  BY <1>3, <1>6, <1>7

\* The scripts that end with a document about the ledger, or with none.
LEMMA CertifySteps ==
  ASSUME GenesisInv, RecordCeremony \/ GenesisReadBack \/ AttestWrite \/ Activate \/ ValidateEntry \/ Replay
  PROVE  GenesisInv'
<1>. USE DEF GenesisInv
<1>0. /\ {"final", "lock", "policy", "event", "pipeline"} \subseteq Documents /\ Heartbeat \in Transfers
      /\ era \in Nat /\ run \in Nat
  BY GenesisAssumption DEF Documents, Transfers, GenesisAssumption, TypeOK
<1>1. Unwritten /\ signed' = signed
  BY DEF RecordCeremony, GenesisReadBack, AttestWrite, Activate, ValidateEntry, Replay, Unwritten
<1>2. ASSUME NEW d \in Documents, NEW v, Truly(d, v), file' = file \/ Write(d, v)
      PROVE  TypeOK' /\ PapersInv' /\ Present' = Present /\ Booked' = Booked
  BY <1>1, <1>2, ReadStep
<1>3. CASE RecordCeremony
  <2>1. PICK v : v = [status |-> "PENDING_READBACK_VERIFICATION", run |-> 0, era |-> era]
    OBVIOUS
  <2>2. Truly("final", v) /\ Write("final", v)
    BY <1>0, <1>3, <2>1 DEF RecordCeremony, Truly, MadeWhole
  <2>3. script' = script /\ At("idle")
    BY <1>3 DEF RecordCeremony, Runs
  <2>. QED  BY <1>0, <1>2, <2>2, <2>3 DEF ScriptInv, At
<1>4. CASE GenesisReadBack
  <2>1. PICK v : v = [status |-> "GENESIS_COMPLETE", run |-> run, era |-> era]
    OBVIOUS
  <2>2. run # 0 /\ (\A a \in Accounts : account[a] \in {0, run}) /\ transfer[Heartbeat] = run
    BY <1>4 DEF GenesisReadBack, ScriptInv, At
  <2>3. file' = file \/ (Write("final", v) /\ Complete)
    BY <1>4, <2>1 DEF GenesisReadBack
  <2>4. ScriptInv'
    BY <1>4 DEF GenesisReadBack, Exit, Idle, ScriptInv, At
  <2>5. CASE Complete
    <3>1. \A a \in Accounts : account[a] = run
      BY <2>2, <2>5 DEF Complete, Present
    <3>2. Truly("final", v)
      BY <1>0, <2>1, <2>2, <3>1 DEF Truly, MadeWhole
    <3>. QED  BY <1>0, <1>2, <2>3, <2>4, <3>2
  <2>6. CASE ~Complete
    <3>1. Truly("event", v) /\ file' = file
      BY <2>3, <2>6 DEF Truly
    <3>. QED  BY <1>0, <1>2, <2>4, <3>1
  <2>. QED  BY <2>5, <2>6
<1>5. CASE AttestWrite \/ Activate
  <2>1. PICK v : v = script.root
    OBVIOUS
  <2>2. OverGenesis(v)
    BY <1>5, <2>1 DEF AttestWrite, Activate, ScriptInv, At, OverGenesis
  <2>3. PICK d \in {"lock", "policy"} : Write(d, v)
    BY <1>5, <2>1 DEF AttestWrite, Activate
  <2>4. Truly(d, v)
    BY <2>2, <2>3 DEF Truly
  <2>5. ScriptInv'
    BY <1>5 DEF AttestWrite, Activate, Exit, Idle, ScriptInv, At
  <2>. QED  BY <1>0, <1>2, <2>3, <2>4, <2>5
<1>6. CASE ValidateEntry
  <2>0. /\ run # 0 /\ script = [at |-> script.at, id |-> script.id, before |-> script.before]
        /\ script.id \in Transfers
        /\ transfer[script.id] = run \/ script.before = Cardinality(Booked)
    BY <1>6 DEF ValidateEntry, ScriptInv, At
  <2>1. PICK v : v = script.id
    OBVIOUS
  <2>2. Truly("event", v) /\ (file' = file \/ Write("event", v))
    BY <1>6, <2>1 DEF Truly, ValidateEntry
  <2>3. TypeOK' /\ PapersInv' /\ Present' = Present /\ Booked' = Booked
    BY <1>0, <1>2, <2>2
  <2>4. CASE Balance - script.before = 1
    <3>1. transfer[script.id] = run
      <4>1. Cardinality(Booked) - Cardinality(Booked) # 1
        BY BookedIsCounted
      <4>. QED  BY <2>0, <2>4, <4>1 DEF Balance
    <3>2. /\ script' = [at |-> "pipeline.replay", id |-> script.id, before |-> script.before]
          /\ script'.at = "pipeline.replay" /\ script'.id = script.id /\ script'.before = script.before
      BY <1>6, <2>0, <2>4 DEF ValidateEntry
    <3>. QED  BY <1>1, <2>0, <2>3, <3>1, <3>2 DEF ScriptInv, At, Unwritten
  <2>5. CASE Balance - script.before # 1
    BY <1>6, <2>3, <2>5 DEF ValidateEntry, Exit, Idle, ScriptInv, At
  <2>. QED  BY <2>4, <2>5
<1>7. CASE Replay
  <2>1. PICK v : v = [id |-> script.id, run |-> run, era |-> era]
    OBVIOUS
  <2>2. run # 0 /\ script.id \in Transfers /\ transfer[script.id] = run
    BY <1>7 DEF Replay, ScriptInv, At
  <2>3. file' = file \/ (Write("pipeline", v) /\ Complete /\ Heartbeat \in Booked)
    BY <1>7, <2>1 DEF Replay
  <2>4. ScriptInv'
    BY <1>7 DEF Replay, Exit, Idle, ScriptInv, At
  <2>5. CASE Complete /\ Heartbeat \in Booked
    <3>1. Truly("pipeline", v)
      BY <1>0, <2>1, <2>2, <2>5 DEF Truly, Moved, Complete, Present, Booked
    <3>. QED  BY <1>0, <1>2, <2>3, <2>4, <3>1
  <2>6. CASE ~(Complete /\ Heartbeat \in Booked)
    <3>1. Truly("event", v) /\ file' = file
      BY <2>3, <2>6 DEF Truly
    <3>. QED  BY <1>0, <1>2, <2>4, <3>1
  <2>. QED  BY <2>5, <2>6
<1>. QED  BY <1>3, <1>4, <1>5, <1>6, <1>7

LEMMA InvStep == GenesisInv /\ [Next]_vars => GenesisInv'
<1>. SUFFICES ASSUME GenesisInv, [Next]_vars PROVE GenesisInv'
  OBVIOUS
<1>0. /\ {"shadow", "attestation", "verdict", "ceremony", "evidence", "reset"} \subseteq Plain
      /\ signed \subseteq Approvals /\ Heartbeat \in Transfers /\ Moves \subseteq Transfers
  BY DEF Plain, Documents, GenesisInv, TypeOK, Transfers
<1>1. CASE UNCHANGED vars
  BY <1>0, <1>1, PaperStep DEF vars, OnPaperOnly, Unwritten
<1>2. ASSUME NEW d \in Approvals, Sign(d)
      PROVE  GenesisInv'
  BY <1>0, <1>2, PaperStep DEF Sign, OnPaperOnly
<1>3. ASSUME NEW events, NEW u, Shadow(events, u)
      PROVE  GenesisInv'
  BY <1>0, <1>3, PaperStep DEF Shadow, OnPaperOnly
<1>4. CASE Attestation
  BY <1>0, <1>4, PaperStep DEF Attestation, OnPaperOnly
<1>5. ASSUME NEW g, NEW w, RunGates(g, w)
      PROVE  GenesisInv'
  BY <1>0, <1>5, PaperStep DEF RunGates, OnPaperOnly
<1>6. ASSUME NEW w, PrepareCeremony(w)
      PROVE  GenesisInv'
  BY <1>0, <1>6, PaperStep DEF PrepareCeremony, OnPaperOnly
<1>7. CASE WriteReadBack
  BY <1>0, <1>7, PaperStep DEF WriteReadBack, Exit, OnPaperOnly
<1>8. CASE Investigate
  BY <1>0, <1>8, PaperStep DEF Investigate, OnPaperOnly
<1>9. CASE VerifyReset
  BY <1>0, <1>9, PaperStep DEF VerifyReset, OnPaperOnly
<1>10. ASSUME NEW up, PrepareReset(up)
       PROVE  GenesisInv'
  BY <1>0, <1>10, PaperStep DEF PrepareReset, OnPaperOnly
<1>11. ASSUME NEW found, Audit(found)
       PROVE  GenesisInv'
  BY <1>0, <1>11, PaperStep DEF Audit, OnPaperOnly
<1>12. CASE Crash
  BY <1>0, <1>12, PaperStep DEF Crash, Exit, OnPaperOnly
<1>13. CASE BeginWriteCeremony
  <2>1. PICK at : at = [at |-> "writer.accounts"]
    OBVIOUS
  <2>2. Begin("writer", at) /\ at.at = "writer.accounts"
    BY <1>13, <2>1 DEF BeginWriteCeremony
  <2>. QED  BY <2>2, BeginStep
<1>14. CASE BeginGenesis
  <2>1. PICK at : at = [at |-> "genesis.check"]
    OBVIOUS
  <2>2. Begin("genesis", at) /\ at.at = "genesis.check"
    BY <1>14, <2>1 DEF BeginGenesis
  <2>. QED  BY <2>2, BeginStep
<1>15. ASSUME NEW t \in Moves \cup {Heartbeat}, BeginPipeline(t)
       PROVE  GenesisInv'
  <2>1. PICK at : at = [at |-> "pipeline.move", id |-> t, before |-> Cardinality(Booked)]
    OBVIOUS
  <2>2. Begin("pipeline", at) /\ at.at = "pipeline.move"
    BY <1>15, <2>1 DEF BeginPipeline, Balance
  <2>3. \E x \in Transfers : at = [at |-> "pipeline.move", id |-> x, before |-> Cardinality(Booked)]
    BY <1>0, <2>1
  <2>. QED  BY <2>2, <2>3, BeginStep
<1>16. CASE WriteAccounts \/ WriteTransfer
  BY <1>16, WriterSteps
<1>17. CASE GenesisAccounts \/ GenesisTransfer
  BY <1>17, GenesisCreates
<1>18. CASE Move
  BY <1>18, MoveStep
<1>19. CASE Format
  BY <1>19, FormatStep
<1>20. CASE CheckEmpty \/ AttestRead \/ VerifyIntegrity
  BY <1>20, CheckSteps
<1>21. CASE RecordCeremony \/ GenesisReadBack \/ AttestWrite \/ Activate \/ ValidateEntry \/ Replay
  BY <1>21, CertifySteps
<1>. QED
  BY <1>1, <1>2, <1>3, <1>4, <1>5, <1>6, <1>7, <1>8, <1>9, <1>10, <1>11, <1>12, <1>13, <1>14,
     <1>15, <1>16, <1>17, <1>18, <1>19, <1>20, <1>21
  DEF Next

LEMMA AlwaysInv == Spec => []GenesisInv
<1>1. Init => GenesisInv
  BY InvInit
<1>2. GenesisInv /\ [Next]_vars => GenesisInv'
  BY InvStep
<1>. QED  BY <1>1, <1>2, PTL DEF Spec

-----------------------------------------------------------------------------
(***************************************************************************)
(* What an account or a transfer is marked with is a run that was; a       *)
(* transfer is on the ledger only with both its accounts (transport.ts,    *)
(* the scripts of phases 10D to 10E.10).                                   *)
(***************************************************************************)
THEOREM TypeCorrect == Spec => []TypeOK
<1>1. GenesisInv => TypeOK
  BY DEF GenesisInv
<1>. QED  BY <1>1, AlwaysInv, PTL

(***************************************************************************)
(* GENESIS_COMPLETE is recorded only by the run that created every account *)
(* and the heartbeat itself, and stays so until the cluster is formatted:  *)
(* the check for an empty ledger and the reading back suffice, although a  *)
(* refused account is only logged and any script may die between two calls *)
(* (execute-phase10e5-genesis.ts, STEP 2 to 5).                            *)
(***************************************************************************)
THEOREM CompletedByOneRun == Spec => []CompleteByOneRun
<1>1. GenesisInv => CompleteByOneRun
  BY DEF GenesisInv, PapersInv, MadeWhole, CompleteByOneRun
<1>. QED  BY <1>1, AlwaysInv, PTL

(***************************************************************************)
(* The policy of 10E.9 is written only over a ledger that was whole, and   *)
(* the pipeline of 10E.10 is certified only by the run that moved the      *)
(* unit, although the answer of the cluster is not looked at.              *)
(***************************************************************************)
THEOREM PapersAreTrue == Spec => []PapersTellTrue
<1>1. ASSUME GenesisInv PROVE EnabledOverGenesis
  BY <1>1 DEF GenesisInv, PapersInv, OverGenesis, EnabledOverGenesis
<1>2. ASSUME GenesisInv PROVE CertifiedMovedItself
  <2>1. CASE file["pipeline"] # None /\ file["pipeline"].era = era
    <3>1. /\ transfer[file["pipeline"].id] = file["pipeline"].run
          /\ transfer[Heartbeat] # 0 /\ \A a \in Accounts : account[a] # 0
      BY <1>2, <2>1 DEF GenesisInv, PapersInv, Moved
    <3>. QED  BY <3>1 DEF CertifiedMovedItself, Complete, Present, Booked, Transfers
  <2>. QED  BY <2>1 DEF CertifiedMovedItself
<1>3. GenesisInv => PapersTellTrue
  BY <1>1, <1>2 DEF PapersTellTrue
<1>. QED  BY <1>3, AlwaysInv, PTL
=============================================================================
