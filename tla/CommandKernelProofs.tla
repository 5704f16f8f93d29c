------------------------ MODULE CommandKernelProofs ------------------------
(***************************************************************************)
(* Theorems about CommandKernel for every set of commands, aggregates and  *)
(* machines.                                                               *)
(***************************************************************************)
EXTENDS CommandKernel, FiniteSetTheorems, TLAPS

Lab == Active \cup Answered \cup {"idle", "lost"}
Row == [from : StateOrNone, to : StateOrNone]

(***************************************************************************)
(* The history counter is a number because the log is finite.              *)
(***************************************************************************)
FiniteLog == IsFiniteSet(log)

LEMMA NewEventsFinite ==
  ASSUME NEW c \in Commands
  PROVE  IsFiniteSet(NewEvents(c))
<1>1. IsFiniteSet(1..Len(Batch[c]))
  BY KernelAssumption, FS_Interval
<1>. DEFINE f == [i \in 1..Len(Batch[c]) |->
                    [cmd |-> c, pos |-> i, agg |-> Batch[c][i].agg,
                     from |-> plan[c][i].from, to |-> plan[c][i].to, ts |-> stamp[c]]]
<1>2. f \in Surjection(1..Len(Batch[c]), NewEvents(c))
  BY DEF Surjection, NewEvents
<1>. HIDE DEF f
<1>. QED  BY <1>1, <1>2, FS_Surjection

LEMMA FiniteLogInvariant == Spec => []FiniteLog
<1>1. Init => FiniteLog
  BY FS_EmptySet DEF Init, FiniteLog
<1>2. FiniteLog /\ [Next]_vars => FiniteLog'
  <2>. SUFFICES ASSUME FiniteLog, [Next]_vars PROVE FiniteLog'
    OBVIOUS
  <2>1. UNCHANGED log => FiniteLog'
    BY DEF FiniteLog
  <2>2. ASSUME NEW c \in Commands, Commit(c) PROVE FiniteLog'
    BY <2>2, NewEventsFinite, FS_Union DEF Commit, FiniteLog
  <2>3. \A c \in Commands : Admit(c) \/ Refuse(c) => UNCHANGED log
    BY DEF Admit, Refuse
  <2>4. \A c \in Commands : Step(c) => Commit(c) \/ UNCHANGED log
    BY DEF Step, PlanProbe, PlanFetch, PlanDone, PrepareProbe, PrepareFetch, PrepareDone,
           SetState, WriteDone, Stamp, Reply, AppendFails, Rollback, RollbackDone
  <2>5. Restart => UNCHANGED log
    BY DEF Restart
  <2>. QED  BY <2>1, <2>2, <2>3, <2>4, <2>5 DEF Next, vars
<1>. QED  BY <1>1, <1>2, PTL DEF Spec

-----------------------------------------------------------------------------
(***************************************************************************)
(* How far the plan of a command in flight has come, whatever overlaps.    *)
(***************************************************************************)
Planned == {"preparing", "loading", "writing", "appending", "stamped",
            "committed", "rollingBack"}

LegalRow(b, r) ==
  /\ b.agg \notin Managed => r.from = NoState /\ r.to = NoState
  /\ b.agg \in Managed =>
       /\ r.to \in States
       /\ \/ r.from = NoState /\ r.to = InitialState[b.agg]
          \/ /\ r.from \in States /\ Matching(b.agg, r.from, b.event) # {}
             /\ r.to = Target(b.agg, r.from, b.event)

PlanInv ==
  \A c \in Commands :
    /\ Len(plan[c]) <= Len(Batch[c])
    /\ pc[c] = "fetching" => /\ Len(plan[c]) < Len(Batch[c])
                             /\ Batch[c][Len(plan[c]) + 1].agg \in Managed
    /\ pc[c] \in Planned => Len(plan[c]) = Len(Batch[c])
    /\ \A i \in 1..Len(plan[c]) : LegalRow(Batch[c][i], plan[c][i])
    /\ written[c] <= Len(Batch[c])

LEMMA TargetType ==
  ASSUME NEW a \in Managed, NEW s \in States, NEW ev, Matching(a, s, ev) # {}
  PROVE  Target(a, s, ev) \in States
<1>1. PICK t : t = (CHOOSE x \in Matching(a, s, ev) : TRUE) /\ t \in Matching(a, s, ev)
  OBVIOUS
<1>. QED  BY <1>1, KernelAssumption DEF Target, Matching

LEMMA CurrentStateType ==
  ASSUME TypeOK, NEW a \in Managed
  PROVE  CurrentState(a) \in States
BY KernelAssumption DEF TypeOK, CurrentState, StateOrNone

(***************************************************************************)
(* Every variable keeps its type, from the plan's being as long as the     *)
(* batch when the writes start.                                            *)
(***************************************************************************)
LEMMA BatchFacts ==
  ASSUME NEW c \in Commands
  PROVE  /\ Len(Batch[c]) \in Nat
         /\ \A i \in 1..Len(Batch[c]) : Batch[c][i].agg \in Aggregates
         /\ Managed \subseteq Aggregates
         /\ NoState \notin States /\ Unread \notin StateOrNone
         /\ \A a \in Managed : InitialState[a] \in States
BY KernelAssumption

LEMMA InitInv == Init => TypeOK /\ PlanInv
BY KernelAssumption DEF Init, TypeOK, PlanInv, NothingRead, StateOrNone, Planned, Active, Answered

LEMMA AnswerKeepsInv ==
  ASSUME TypeOK, PlanInv, NEW c \in Commands, NEW label \in Answered, Answer(c, label),
         UNCHANGED <<registry, history, log, clock>>
  PROVE  TypeOK' /\ PlanInv'
<1>1. TypeOK'
  <2>1. plan' \in [Commands -> Seq([from : StateOrNone, to : StateOrNone])]
    <3>1. <<>> \in Seq([from : StateOrNone, to : StateOrNone])
      OBVIOUS
    <3>. QED  BY <3>1, Zenon DEF TypeOK, Answer
  <2>2. prepared' \in [Commands -> [Aggregates -> StateOrNone \cup {Unread}]]
    BY DEF TypeOK, Answer, NothingRead
  <2>3. written' \in [Commands -> Nat] /\ stamp' \in [Commands -> Nat]
    BY DEF TypeOK, Answer
  <2>4. pc' \in [Commands -> Active \cup Answered \cup {"idle", "lost"}]
    BY DEF TypeOK, Answer, Goto
  <2>. QED  BY <2>1, <2>2, <2>3, <2>4 DEF TypeOK
<1>2. PlanInv'
  <2>. SUFFICES ASSUME NEW d \in Commands
       PROVE  (/\ Len(plan[d]) <= Len(Batch[d])
               /\ pc[d] = "fetching" => /\ Len(plan[d]) < Len(Batch[d])
                                        /\ Batch[d][Len(plan[d]) + 1].agg \in Managed
               /\ pc[d] \in Planned => Len(plan[d]) = Len(Batch[d])
               /\ \A i \in 1..Len(plan[d]) : LegalRow(Batch[d][i], plan[d][i])
               /\ written[d] <= Len(Batch[d]))'
    BY DEF PlanInv
  <2>1. CASE d # c
    BY <2>1 DEF TypeOK, PlanInv, Answer, Goto
  <2>2. CASE d = c
    <3>1. plan'[c] = <<>> /\ pc'[c] = label /\ written'[c] = 0
      BY DEF TypeOK, Answer, Goto
    <3>. QED  BY <2>2, <3>1, BatchFacts DEF Planned, Answered
  <2>. QED  BY <2>1, <2>2
<1>. QED  BY <1>1, <1>2

\* A row of the plan, appended by PlanProbe and PlanFetch.
LEMMA PlanGrows ==
  ASSUME TypeOK, PlanInv, NEW c \in Commands, NEW r \in Row,
         pc[c] \in {"planning", "fetching"}, Len(plan[c]) < Len(Batch[c]),
         plan' = [plan EXCEPT ![c] = Append(@, r)],
         pc' = [pc EXCEPT ![c] = "planning"],
         LegalRow(Batch[c][Len(plan[c]) + 1], r),
         UNCHANGED <<registry, history, log, clock, prepared, written, stamp>>
  PROVE  TypeOK' /\ PlanInv'
<1>1. plan[c] \in Seq(Row)
  BY DEF TypeOK, Row
<1>2. /\ Append(plan[c], r) \in Seq(Row)
      /\ Len(Append(plan[c], r)) = Len(plan[c]) + 1
      /\ \A i \in 1..Len(plan[c]) : Append(plan[c], r)[i] = plan[c][i]
      /\ Append(plan[c], r)[Len(plan[c]) + 1] = r
  BY <1>1
<1>3. plan' \in [Commands -> Seq(Row)]
  BY <1>2, Zenon DEF TypeOK, Row
<1>4. TypeOK'
  BY <1>3 DEF TypeOK, Row, Active
<1>5. PlanInv'
  <2>. SUFFICES ASSUME NEW d \in Commands
       PROVE  (/\ Len(plan[d]) <= Len(Batch[d])
               /\ pc[d] = "fetching" => /\ Len(plan[d]) < Len(Batch[d])
                                        /\ Batch[d][Len(plan[d]) + 1].agg \in Managed
               /\ pc[d] \in Planned => Len(plan[d]) = Len(Batch[d])
               /\ \A i \in 1..Len(plan[d]) : LegalRow(Batch[d][i], plan[d][i])
               /\ written[d] <= Len(Batch[d]))'
    BY DEF PlanInv
  <2>1. CASE d # c
    BY <2>1 DEF TypeOK, PlanInv
  <2>2. CASE d = c
    <3>1. plan'[c] = Append(plan[c], r) /\ pc'[c] = "planning" /\ written'[c] = written[c]
      BY DEF TypeOK
    <3>2. Len(plan'[c]) = Len(plan[c]) + 1 /\ Len(plan[c]) \in Nat /\ Len(Batch[c]) \in Nat
      BY <1>1, <1>2, <3>1, BatchFacts
    <3>3. \A i \in 1..Len(plan[c]) : LegalRow(Batch[c][i], plan'[c][i])
      BY <1>2, <3>1 DEF PlanInv
    <3>4. LegalRow(Batch[c][Len(plan[c]) + 1], plan'[c][Len(plan[c]) + 1])
      BY <1>2, <3>1
    <3>5. \A i \in 1..Len(plan'[c]) : LegalRow(Batch[c][i], plan'[c][i])
      BY <3>2, <3>3, <3>4
    <3>. QED  BY <2>2, <3>1, <3>2, <3>5 DEF PlanInv, Planned
  <2>. QED  BY <2>1, <2>2
<1>. QED  BY <1>4, <1>5

\* Steps that move one command on without touching its plan.
LEMMA Moves ==
  ASSUME TypeOK, PlanInv, NEW c \in Commands, NEW label,
         label \in Active \cup Answered, label # "fetching",
         label \in Planned => Len(plan[c]) = Len(Batch[c]),
         Goto(c, label), UNCHANGED <<log, plan>>,
         registry' \in [Aggregates -> StateOrNone], history' \in [Aggregates -> Nat],
         clock' \in Nat, stamp' \in [Commands -> Nat], written' = written,
         prepared' \in [Commands -> [Aggregates -> StateOrNone \cup {Unread}]]
  PROVE  TypeOK' /\ PlanInv'
<1>1. TypeOK'
  BY DEF TypeOK, Goto
<1>2. PlanInv'
  BY DEF TypeOK, PlanInv, Goto
<1>. QED  BY <1>1, <1>2

LEMMA PlanRow ==
  ASSUME TypeOK, NEW c \in Commands, NEW i \in 1..Len(plan[c])
  PROVE  plan[c][i] \in Row
<1>1. plan[c] \in Seq(Row)
  BY DEF TypeOK, Row
<1>. QED  BY <1>1

LEMMA StepInv ==
  ASSUME TypeOK, PlanInv, NEW c \in Commands, Admit(c) \/ Refuse(c) \/ Step(c)
  PROVE  TypeOK' /\ PlanInv'
<1>1. CASE Admit(c)
  BY <1>1, Moves DEF TypeOK, Admit, Active, Planned
<1>2. CASE Refuse(c)
  BY <1>2, Moves DEF TypeOK, Refuse, Answered, Planned
<1>3. CASE PlanProbe(c)
  <2>. DEFINE a == Batch[c][Len(plan[c]) + 1].agg
  <2>0. Len(plan[c]) < Len(Batch[c]) /\ pc[c] = "planning"
    BY <1>3 DEF PlanProbe
  <2>1. CASE a \notin Managed \/ registry[a] = NoState
    <3>. DEFINE r == [from |-> NoState, to |-> IF a \in Managed THEN InitialState[a] ELSE NoState]
    <3>1. /\ plan' = [plan EXCEPT ![c] = Append(@, r)] /\ UNCHANGED pc
          /\ UNCHANGED <<registry, history, log, clock, prepared, written, stamp>>
      BY <1>3, <2>1 DEF PlanProbe
    <3>2. pc' = [pc EXCEPT ![c] = "planning"]
      BY <2>0, <3>1 DEF TypeOK
    <3>3. r \in Row /\ LegalRow(Batch[c][Len(plan[c]) + 1], r)
      BY BatchFacts DEF Row, LegalRow, StateOrNone
    <3>. QED  BY <2>0, <3>1, <3>2, <3>3, PlanGrows
  <2>2. CASE a \in Managed /\ registry[a] # NoState
    <3>1. Goto(c, "fetching") /\ UNCHANGED <<plan, registry, history, log, clock, prepared, written, stamp>>
      BY <1>3, <2>2 DEF PlanProbe
    <3>2. TypeOK'
      BY <3>1 DEF TypeOK, Goto, Active
    <3>3. PlanInv'
      BY <2>0, <2>2, <3>1 DEF TypeOK, PlanInv, Goto, Planned
    <3>. QED  BY <3>2, <3>3
  <2>. QED  BY <2>1, <2>2
<1>4. CASE PlanFetch(c)
  <2>. DEFINE b == Batch[c][Len(plan[c]) + 1]
              s == CurrentState(b.agg)
  <2>0. /\ Len(plan[c]) < Len(Batch[c]) /\ pc[c] = "fetching" /\ b.agg \in Managed
        /\ UNCHANGED <<registry, history, log, clock>>
    BY <1>4 DEF PlanFetch, PlanInv
  <2>s. s \in States
    BY <2>0, CurrentStateType
  <2>1. CASE Matching(b.agg, s, b.event) # {}
    <3>. DEFINE r == [from |-> s, to |-> Target(b.agg, s, b.event)]
    <3>1. /\ plan' = [plan EXCEPT ![c] = Append(@, r)] /\ pc' = [pc EXCEPT ![c] = "planning"]
          /\ UNCHANGED <<prepared, written, stamp>>
      BY <1>4, <2>1 DEF PlanFetch, Goto
    <3>2. Target(b.agg, s, b.event) \in States
      BY <2>0, <2>s, <2>1, TargetType
    <3>3. r \in Row /\ LegalRow(b, r)
      BY <2>0, <2>s, <2>1, <3>2 DEF Row, LegalRow, StateOrNone
    <3>. HIDE DEF r
    <3>. QED  BY <2>0, <3>1, <3>3, PlanGrows
  <2>2. CASE Matching(b.agg, s, b.event) = {}
    <3>1. Answer(c, "rejected")
      BY <1>4, <2>2 DEF PlanFetch
    <3>. QED  BY <2>0, <3>1, AnswerKeepsInv DEF Answered
  <2>. QED  BY <2>1, <2>2
<1>5. CASE PlanDone(c)
  BY <1>5, Moves DEF TypeOK, PlanDone, Active, Planned
<1>6. CASE PrepareProbe(c)
  <2>1. PICK i \in 1..Len(Batch[c]) :
          /\ \/ prepared' = [prepared EXCEPT ![c][Batch[c][i].agg] = NoState] /\ UNCHANGED pc
             \/ Goto(c, "loading") /\ UNCHANGED prepared
          /\ pc[c] = "preparing" /\ UNCHANGED <<registry, history, log, clock, plan, written, stamp>>
    BY <1>6 DEF PrepareProbe
  <2>2. prepared' \in [Commands -> [Aggregates -> StateOrNone \cup {Unread}]]
    <3>1. CASE prepared' = [prepared EXCEPT ![c][Batch[c][i].agg] = NoState]
      BY <3>1, BatchFacts DEF TypeOK, StateOrNone
    <3>. QED  BY <2>1, <3>1 DEF TypeOK
  <2>3. Goto(c, "preparing") \/ Goto(c, "loading")
    BY <2>1 DEF TypeOK, Goto
  <2>4. Len(plan[c]) = Len(Batch[c])
    BY <2>1 DEF PlanInv, Planned
  <2>. QED  BY <2>1, <2>2, <2>3, <2>4, Moves DEF TypeOK, Active
<1>7. CASE PrepareFetch(c)
  <2>1. PICK i \in 1..Len(Batch[c]) :
          /\ NextKey(c, i)
          /\ prepared' = [prepared EXCEPT ![c][Batch[c][i].agg] = CurrentState(Batch[c][i].agg)]
          /\ pc[c] = "loading" /\ Goto(c, "preparing")
          /\ UNCHANGED <<registry, history, log, clock, plan, written, stamp>>
    BY <1>7 DEF PrepareFetch
  <2>2. CurrentState(Batch[c][i].agg) \in StateOrNone
    BY <2>1, CurrentStateType DEF NextKey, StateOrNone
  <2>3. prepared' \in [Commands -> [Aggregates -> StateOrNone \cup {Unread}]]
    BY <2>1, <2>2, BatchFacts DEF TypeOK
  <2>4. Len(plan[c]) = Len(Batch[c])
    BY <2>1 DEF PlanInv, Planned
  <2>. QED  BY <2>1, <2>3, <2>4, Moves DEF TypeOK, Active
<1>8. CASE PrepareDone(c)
  BY <1>8, Moves DEF TypeOK, PrepareDone, Active, Planned, PlanInv
<1>9. CASE SetState(c)
  <2>. DEFINE i == written[c] + 1
              a == Batch[c][i].agg
  <2>1. /\ pc[c] = "writing" /\ written[c] < Len(Batch[c])
        /\ written' = [written EXCEPT ![c] = @ + 1]
        /\ UNCHANGED <<log, clock, pc, plan, prepared, stamp>>
        /\ \/ UNCHANGED <<registry, history>>
           \/ /\ plan[c][i].to # NoState
              /\ registry' = [registry EXCEPT ![a] = plan[c][i].to]
              /\ history'  = [history  EXCEPT ![a] = @ + 1]
    BY <1>9 DEF SetState
  <2>2. i \in 1..Len(Batch[c]) /\ Len(plan[c]) = Len(Batch[c])
    BY <2>1, BatchFacts DEF TypeOK, PlanInv, Planned
  <2>3. plan[c][i] \in Row
    BY <2>2, PlanRow
  <2>4. a \in Aggregates /\ plan[c][i].to \in StateOrNone
    BY <2>2, <2>3, BatchFacts DEF Row
  <2>5. registry' \in [Aggregates -> StateOrNone] /\ history' \in [Aggregates -> Nat]
    <3>1. CASE registry' = [registry EXCEPT ![a] = plan[c][i].to]
               /\ history' = [history EXCEPT ![a] = @ + 1]
      <4>. HIDE DEF a
      <4>. QED  BY <2>4, <3>1 DEF TypeOK
    <3>. QED  BY <2>1, <3>1 DEF TypeOK
  <2>b. written' \in [Commands -> Nat]
    BY <2>1 DEF TypeOK
  <2>6. TypeOK'
    BY <2>1, <2>5, <2>b DEF TypeOK
  <2>7. PlanInv'
    BY <2>1, BatchFacts DEF TypeOK, PlanInv
  <2>. QED  BY <2>6, <2>7
<1>10. CASE WriteDone(c)
  BY <1>10, Moves DEF TypeOK, WriteDone, Active, Planned, PlanInv
<1>11. CASE Stamp(c)
  <2>1. clock' \in Nat /\ stamp' \in [Commands -> Nat]
    BY <1>11 DEF Stamp, TypeOK
  <2>. QED  BY <1>11, <2>1, Moves DEF TypeOK, Stamp, Active, Planned, PlanInv
<1>12. CASE Commit(c)
  <2>1. /\ pc[c] = "stamped" /\ Goto(c, "committed") /\ log' = log \cup NewEvents(c)
        /\ UNCHANGED <<registry, history, clock, plan, prepared, written, stamp>>
    BY <1>12 DEF Commit
  <2>2. Len(plan[c]) = Len(Batch[c])
    BY <2>1 DEF PlanInv, Planned
  <2>3. \A e \in NewEvents(c) : /\ e.cmd \in Commands /\ e.agg \in Aggregates /\ e.ts \in Nat
                               /\ e.from \in StateOrNone /\ e.to \in StateOrNone
    <3>1. \A i \in 1..Len(Batch[c]) : plan[c][i] \in Row
      BY <2>2, PlanRow
    <3>2. stamp[c] \in Nat
      BY DEF TypeOK
    <3>. QED  BY <3>1, <3>2, BatchFacts DEF NewEvents, Row
  <2>4. TypeOK'
    BY <2>1, <2>3 DEF TypeOK, Goto, Active
  <2>5. PlanInv'
    BY <2>1, <2>2 DEF TypeOK, PlanInv, Goto
  <2>. QED  BY <2>4, <2>5
<1>13. CASE Reply(c)
  BY <1>13, AnswerKeepsInv DEF Reply, Answered
<1>14. CASE AppendFails(c)
  BY <1>14, Moves DEF TypeOK, AppendFails, Active, Planned, PlanInv
<1>15. CASE Rollback(c)
  <2>1. PICK i \in 1..Len(Batch[c]) :
           LET a == Batch[c][i].agg
           IN  /\ LastKey(c, i)
               /\ registry' = [registry EXCEPT ![a] = prepared[c][a]]
               /\ history'  = [history  EXCEPT ![a] = IF @ = 0 THEN 0 ELSE @ - 1]
               /\ prepared' = [prepared EXCEPT ![c][a] = Unread]
               /\ pc[c] = "rollingBack" /\ UNCHANGED <<log, clock, pc, plan, written, stamp>>
    BY <1>15 DEF Rollback
  <2>. DEFINE a == Batch[c][i].agg
  <2>2. a \in Aggregates /\ prepared[c][a] \in StateOrNone
    BY <2>1, BatchFacts DEF TypeOK, LastKey
  <2>3. registry' \in [Aggregates -> StateOrNone]
    BY <2>1, <2>2 DEF TypeOK
  <2>4. history' \in [Aggregates -> Nat]
    BY <2>1, <2>2 DEF TypeOK
  <2>5. prepared' \in [Commands -> [Aggregates -> StateOrNone \cup {Unread}]]
    BY <2>1, <2>2 DEF TypeOK
  <2>6. TypeOK'
    BY <2>1, <2>3, <2>4, <2>5 DEF TypeOK
  <2>7. PlanInv'
    BY <2>1 DEF PlanInv
  <2>. QED  BY <2>6, <2>7
<1>16. CASE RollbackDone(c)
  BY <1>16, AnswerKeepsInv DEF RollbackDone, Answered
<1>. QED  BY <1>1, <1>2, <1>3, <1>4, <1>5, <1>6, <1>7, <1>8, <1>9, <1>10, <1>11, <1>12,
            <1>13, <1>14, <1>15, <1>16 DEF Step

\* Booting: the registry is filled from the log, nothing is in flight.
LEMMA RestartInv ==
  ASSUME TypeOK, PlanInv, FiniteLog, Restart
  PROVE  TypeOK' /\ PlanInv'
<1>1. PICK last \in SUBSET Candidates :
        /\ \A e \in Candidates : \E f \in last : e.agg = f.agg
        /\ registry' = [a \in Aggregates |->
                         IF \E e \in last : e.agg = a
                         THEN (CHOOSE e \in last : e.agg = a).to ELSE NoState]
  BY DEF Restart
<1>2. registry' \in [Aggregates -> StateOrNone]
  <2>. SUFFICES ASSUME NEW a \in Aggregates, \E e \in last : e.agg = a
       PROVE  (CHOOSE e \in last : e.agg = a).to \in StateOrNone
    BY <1>1 DEF StateOrNone
  <2>1. (CHOOSE e \in last : e.agg = a) \in last
    OBVIOUS
  <2>. QED  BY <2>1 DEF Candidates, TypeOK
<1>3. history' \in [Aggregates -> Nat]
  <2>. SUFFICES ASSUME NEW a \in Aggregates PROVE Cardinality(TransitionsOf(a)) \in Nat
    BY DEF Restart
  <2>1. TransitionsOf(a) \in SUBSET log
    BY DEF TransitionsOf
  <2>. QED  BY <2>1, FS_Subset, FS_CardinalityType DEF FiniteLog
<1>4. /\ plan' \in [Commands -> Seq([from : StateOrNone, to : StateOrNone])]
      /\ prepared' \in [Commands -> [Aggregates -> StateOrNone \cup {Unread}]]
      /\ written' \in [Commands -> Nat] /\ stamp' \in [Commands -> Nat]
      /\ pc' \in [Commands -> Active \cup Answered \cup {"idle", "lost"}]
  BY DEF Restart, NothingRead, TypeOK
<1>5. TypeOK'
  BY <1>2, <1>3, <1>4 DEF TypeOK, Restart
<1>6. PlanInv'
  BY BatchFacts DEF Restart, PlanInv, Planned, Active
<1>. QED  BY <1>5, <1>6

LEMMA PlanInvariant == Spec => [](TypeOK /\ PlanInv)
<1>1. Init => TypeOK /\ PlanInv
  BY InitInv
<1>2. TypeOK /\ PlanInv /\ FiniteLog /\ [Next]_vars => TypeOK' /\ PlanInv'
  <2>. SUFFICES ASSUME TypeOK, PlanInv, FiniteLog, [Next]_vars PROVE TypeOK' /\ PlanInv'
    OBVIOUS
  <2>1. CASE UNCHANGED vars
    BY <2>1 DEF vars, TypeOK, PlanInv
  <2>2. CASE \E c \in Commands : Admit(c) \/ Refuse(c) \/ Step(c)
    BY <2>2, StepInv
  <2>3. CASE Restart
    BY <2>3, RestartInv
  <2>. QED  BY <2>1, <2>2, <2>3 DEF Next
<1>. QED  BY <1>1, <1>2, FiniteLogInvariant, PTL DEF Spec

(***************************************************************************)
(* Every variable keeps its type, however commands overlap, fail or crash. *)
(***************************************************************************)
THEOREM TypeCorrect == Spec => []TypeOK
BY PlanInvariant, PTL

-----------------------------------------------------------------------------
\* Only Commit changes the log.
LEMMA LogGrows ==
  ASSUME [Next]_vars
  PROVE  \/ UNCHANGED log
         \/ \E c \in Commands : Commit(c)
<1>1. \A c \in Commands : Admit(c) \/ Refuse(c) => UNCHANGED log
  BY DEF Admit, Refuse
<1>2. \A c \in Commands : Step(c) => Commit(c) \/ UNCHANGED log
  BY DEF Step, PlanProbe, PlanFetch, PlanDone, PrepareProbe, PrepareFetch, PrepareDone,
         SetState, WriteDone, Stamp, Reply, AppendFails, Rollback, RollbackDone
<1>. QED  BY <1>1, <1>2 DEF Next, vars, Restart

(***************************************************************************)
(* Whatever overlaps, fails or crashes, every transition in the log is the *)
(* creation of its aggregate or a declared transition for its event.       *)
(***************************************************************************)
THEOREM LogIsLegal == Spec => []LegalTransitions
<1>1. Init => LegalTransitions
  BY DEF Init, LegalTransitions
<1>2. TypeOK /\ PlanInv /\ LegalTransitions /\ [Next]_vars => LegalTransitions'
  <2>. SUFFICES ASSUME TypeOK, PlanInv, LegalTransitions, [Next]_vars
       PROVE  LegalTransitions'
    OBVIOUS
  <2>1. CASE UNCHANGED log
    BY <2>1 DEF LegalTransitions
  <2>2. ASSUME NEW c \in Commands, Commit(c) PROVE LegalTransitions'
    <3>1. log' = log \cup NewEvents(c) /\ Len(plan[c]) = Len(Batch[c])
      BY <2>2 DEF Commit, PlanInv, Planned
    <3>2. ASSUME NEW e \in NewEvents(c), e.to # NoState
          PROVE  \/ e.from = NoState /\ e.to = InitialState[e.agg]
                 \/ \E t \in Machine[e.agg] :
                      t.from = e.from /\ t.event = Batch[e.cmd][e.pos].event /\ t.to = e.to
      <4>1. PICK i \in 1..Len(Batch[c]) :
              /\ e.cmd = c /\ e.pos = i /\ e.agg = Batch[c][i].agg
              /\ e.from = plan[c][i].from /\ e.to = plan[c][i].to
        BY DEF NewEvents
      <4>2. LegalRow(Batch[c][i], plan[c][i])
        BY <3>1 DEF PlanInv
      <4>3. CASE e.from = NoState /\ e.to = InitialState[e.agg]
        BY <4>3
      <4>4. CASE /\ Matching(e.agg, e.from, Batch[c][i].event) # {}
                 /\ e.to = Target(e.agg, e.from, Batch[c][i].event)
        <5>1. PICK t : /\ t \in Matching(e.agg, e.from, Batch[c][i].event)
                       /\ t = (CHOOSE x \in Matching(e.agg, e.from, Batch[c][i].event) : TRUE)
          BY <4>4
        <5>. QED  BY <4>1, <4>4, <5>1 DEF Matching, Target
      <4>. QED  BY <3>2, <4>1, <4>2, <4>3, <4>4 DEF LegalRow
    <3>. QED  BY <3>1, <3>2 DEF LegalTransitions
  <2>. QED  BY <2>1, <2>2, LogGrows
<1>. QED  BY <1>1, <1>2, PlanInvariant, PTL DEF Spec

-----------------------------------------------------------------------------
(***************************************************************************)
(* Commands and their events.  Only a command past Commit has any, and it  *)
(* has them all.                                                           *)
(***************************************************************************)
Durable == {"committed", "accepted"}

AnswerInv(c) ==
  /\ pc[c] \in Durable => Positions(c) = 1..Len(Batch[c])
  /\ pc[c] \notin Durable \cup {"lost"} => Positions(c) = {}
  /\ Positions(c) \in {{}, 1..Len(Batch[c])}

\* No other step takes a command across Commit, in either direction.
LEMMA NoOtherCommit ==
  ASSUME TypeOK, ~AckMayBeLost, NEW c \in Commands, UNCHANGED log,
         Admit(c) \/ Refuse(c) \/ Step(c)
  PROVE  \/ \E label \in Active \cup Answered :
              /\ pc' = [pc EXCEPT ![c] = label] /\ pc[c] # "lost"
              /\ label \in Durable <=> pc[c] \in Durable
         \/ Commit(c)
<1>. SUFFICES ASSUME ~Commit(c)
     PROVE  \E label \in Active \cup Answered :
              /\ pc' = [pc EXCEPT ![c] = label] /\ pc[c] # "lost"
              /\ label \in Durable <=> pc[c] \in Durable
  OBVIOUS
<1>1. CASE UNCHANGED pc /\ pc[c] \in Active
  <2>1. pc' = [pc EXCEPT ![c] = pc[c]] /\ pc[c] # "lost"
    BY <1>1 DEF TypeOK, Active
  <2>. QED  BY <1>1, <2>1
<1>2. CASE Admit(c) \/ Refuse(c)
  BY <1>2 DEF Admit, Refuse, Goto, Durable, Active, Answered
<1>3. CASE PlanProbe(c) \/ PlanFetch(c) \/ PlanDone(c)
  BY <1>1, <1>3 DEF PlanProbe, PlanFetch, PlanDone, Goto, Answer, Durable, Active, Answered
<1>4. CASE PrepareProbe(c) \/ PrepareFetch(c) \/ PrepareDone(c)
  BY <1>1, <1>4 DEF PrepareProbe, PrepareFetch, PrepareDone, Goto, Durable, Active
<1>5. CASE SetState(c) \/ WriteDone(c) \/ Stamp(c) \/ Reply(c)
  BY <1>1, <1>5 DEF SetState, WriteDone, Stamp, Reply, Goto, Answer, Durable, Active, Answered
<1>6. CASE AppendFails(c) \/ Rollback(c) \/ RollbackDone(c)
  BY <1>1, <1>6 DEF AppendFails, Rollback, RollbackDone, Goto, Answer, Durable, Active, Answered
<1>. QED  BY <1>2, <1>3, <1>4, <1>5, <1>6 DEF Step

LEMMA CommitPositions ==
  ASSUME NEW c \in Commands, Commit(c)
  PROVE  /\ Positions(c)' = Positions(c) \cup 1..Len(Batch[c])
         /\ \A d \in Commands \ {c} : Positions(d)' = Positions(d)
<1>1. log' = log \cup NewEvents(c)
  BY DEF Commit
<1>2. {e.pos : e \in NewEvents(c)} = 1..Len(Batch[c]) /\ \A e \in NewEvents(c) : e.cmd = c
  <2>1. \A e \in NewEvents(c) : e.cmd = c /\ e.pos \in 1..Len(Batch[c])
    BY DEF NewEvents
  <2>2. \A i \in 1..Len(Batch[c]) : \E e \in NewEvents(c) : e.pos = i
    <3>. TAKE i \in 1..Len(Batch[c])
    <3>. DEFINE e == [cmd |-> c, pos |-> i, agg |-> Batch[c][i].agg,
                      from |-> plan[c][i].from, to |-> plan[c][i].to, ts |-> stamp[c]]
    <3>1. e \in NewEvents(c)
      BY DEF NewEvents
    <3>. QED  BY <3>1
  <2>. QED  BY <2>1, <2>2
<1>3. {f \in log' : f.cmd = c} = {f \in log : f.cmd = c} \cup NewEvents(c)
  BY <1>1, <1>2
<1>4. Positions(c)' = Positions(c) \cup 1..Len(Batch[c])
  BY <1>2, <1>3 DEF Positions
<1>5. ASSUME NEW d \in Commands \ {c} PROVE Positions(d)' = Positions(d)
  <2>1. {f \in log' : f.cmd = d} = {f \in log : f.cmd = d}
    BY <1>1, <1>2
  <2>. QED  BY <2>1 DEF Positions
<1>. QED  BY <1>4, <1>5

LEMMA AnswerInvariant == ~AckMayBeLost => (Spec => [](\A c \in Commands : AnswerInv(c)))
<1>. SUFFICES ASSUME ~AckMayBeLost PROVE Spec => [](\A c \in Commands : AnswerInv(c))
  OBVIOUS
<1>. DEFINE Inv == \A c \in Commands : AnswerInv(c)
<1>1. Init => Inv
  BY DEF Init, AnswerInv, Positions, Durable
<1>2. TypeOK /\ Inv /\ [Next]_vars => Inv'
  <2>. SUFFICES ASSUME TypeOK, Inv, [Next]_vars, NEW d \in Commands PROVE AnswerInv(d)'
    OBVIOUS
  <2>1. CASE UNCHANGED vars
    BY <2>1 DEF vars, AnswerInv, Positions
  <2>2. ASSUME NEW c \in Commands, Commit(c) PROVE AnswerInv(d)'
    <3>1. pc[c] = "stamped" /\ pc'[c] = "committed" /\ (d # c => pc'[d] = pc[d])
      BY <2>2 DEF Commit, Goto, TypeOK
    <3>2. CASE d = c
      <4>1. Positions(c) = {}
        BY <3>1 DEF AnswerInv, Durable
      <4>. QED  BY <2>2, <3>1, <3>2, <4>1, CommitPositions DEF AnswerInv, Durable
    <3>3. CASE d # c
      BY <2>2, <3>1, <3>3, CommitPositions DEF AnswerInv
    <3>. QED  BY <3>2, <3>3
  <2>3. ASSUME NEW c \in Commands, UNCHANGED log, Admit(c) \/ Refuse(c) \/ Step(c), ~Commit(c)
        PROVE  AnswerInv(d)'
    <3>1. Positions(d)' = Positions(d)
      BY <2>3 DEF Positions
    <3>2. PICK label \in Active \cup Answered :
            /\ pc' = [pc EXCEPT ![c] = label] /\ pc[c] # "lost"
            /\ label \in Durable <=> pc[c] \in Durable
      BY <2>3, NoOtherCommit
    <3>. QED  BY <3>1, <3>2 DEF AnswerInv, TypeOK, Durable, Active, Answered
  <2>4. CASE Restart
    <3>1. Positions(d)' = Positions(d) /\ pc'[d] \in {pc[d], "lost"}
      BY <2>4 DEF Restart, Positions
    <3>. QED  BY <3>1 DEF AnswerInv, Durable
  <2>5. \A c \in Commands : Admit(c) \/ Refuse(c) \/ Step(c) => UNCHANGED log \/ Commit(c)
    BY DEF Admit, Refuse, Step, PlanProbe, PlanFetch, PlanDone, PrepareProbe, PrepareFetch,
           PrepareDone, SetState, WriteDone, Stamp, Reply, AppendFails, Rollback, RollbackDone
  <2>. QED  BY <2>1, <2>2, <2>3, <2>4, <2>5 DEF Next
<1>. QED  BY <1>1, <1>2, TypeCorrect, PTL DEF Spec

(***************************************************************************)
(* As long as the store's answer is reliable, what a caller is told agrees *)
(* with the log and no batch is ever half in it - for commands that        *)
(* overlap in any way, fail anywhere and are cut off by crashes.           *)
(***************************************************************************)
THEOREM AnswersMatchLog == ~AckMayBeLost => (Spec => []AnswerMatchesLog)
<1>1. (\A c \in Commands : AnswerInv(c)) => AnswerMatchesLog
  BY DEF AnswerInv, AnswerMatchesLog, Durable
<1>. QED  BY <1>1, AnswerInvariant, PTL

-----------------------------------------------------------------------------
(***************************************************************************)
(* CommandKernel when the commands on an aggregate take turns: the         *)
(* registry and the log of state transitions agree, the log is one chain   *)
(* of states per aggregate, and the whole write path implements            *)
(* AtomicCommand.  Overlap breaks each of them (KernelOverlapState), so    *)
(* the hypotheses are named here and appear in every theorem.              *)
(***************************************************************************)
\* Commands one at a time on an aggregate, batches that never share a millisecond and a
\* store whose answer can be relied on.
Serial == ~Overlap /\ FineClock /\ ~AckMayBeLost

\* The events of a batch on one aggregate lead to one state, as those of one transition do.
OneTarget ==
  \A c \in Commands : \A i, j \in 1..Len(Batch[c]) :
    Batch[c][i].agg = Batch[c][j].agg /\ Batch[c][i].agg \in Managed =>
      \A s \in States :
        /\ Matching(Batch[c][i].agg, s, Batch[c][i].event) # {}
        /\ Matching(Batch[c][j].agg, s, Batch[c][j].event) # {}
        => Target(Batch[c][i].agg, s, Batch[c][i].event) = Target(Batch[c][j].agg, s, Batch[c][j].event)

Logged(a) == IF TransitionsOf(a) = {} THEN NoState ELSE (CHOOSE e \in Latest(a) : TRUE).to

Reading == {"planning", "fetching", "preparing", "loading"}
Holding == {"writing", "appending", "stamped"}

\* A key of a command in flight: what the log says of it, what the command read and what it wrote.
ReadInv(c, a) ==
  /\ pc[c] \in Reading \cup {"committed"} => registry[a] = Logged(a)
  /\ pc[c] # "committed" =>
       /\ \A i \in 1..Len(plan[c]) : Batch[c][i].agg = a => plan[c][i].from = Logged(a)
       /\ prepared[c][a] \in {Unread, Logged(a)}
  /\ pc[c] = "fetching" /\ Batch[c][Len(plan[c]) + 1].agg = a => registry[a] # NoState
  /\ pc[c] = "loading" =>
       \A i \in 1..Len(Batch[c]) : NextKey(c, i) /\ Batch[c][i].agg = a => registry[a] # NoState

WriteInv(c, a) ==
  /\ pc[c] \in Holding =>
       /\ prepared[c][a] # Unread
       /\ \A i \in 1..written[c] : Batch[c][i].agg = a => registry[a] = plan[c][i].to
       /\ (\A i \in 1..written[c] : Batch[c][i].agg # a) => registry[a] = Logged(a)
  /\ pc[c] = "rollingBack" /\ prepared[c][a] = Unread => registry[a] = Logged(a)

CommandInv(c) ==
  /\ pc[c] \in Active => \A a \in KeysOf(c) : ReadInv(c, a) /\ WriteInv(c, a)
  /\ pc[c] \notin Active => plan[c] = <<>> /\ prepared[c] = NothingRead
  /\ pc[c] \in Reading \/ pc[c] \notin Active => written[c] = 0
  /\ pc[c] \in {"appending", "stamped"} => written[c] = Len(Batch[c])
  /\ pc[c] = "stamped" => /\ stamp[c] < clock
                          /\ \A e \in log : e.agg \in AggsOf(c) => e.ts < stamp[c]
  /\ \A a \in Aggregates \ KeysOf(c) : prepared[c][a] = Unread

Apart == \A c, d \in InFlight : c # d => AggsOf(c) \cap AggsOf(d) = {}

LogInv ==
  /\ \A e \in log : e.ts < clock /\ (e.to # NoState => e.agg \in Managed)
  /\ \A a \in Aggregates : /\ TransitionsOf(a) # {} => Latest(a) # {}
                           /\ \A e, f \in Latest(a) : e.to = f.to

Free(a) == \A c \in InFlight : a \notin KeysOf(c)
FreeInv == \A a \in Aggregates : Free(a) => registry[a] = Logged(a)

SerialInv == Apart /\ LogInv /\ FreeInv /\ \A c \in Commands : CommandInv(c)

-----------------------------------------------------------------------------
LEMMA SerialInit == Init => SerialInv
<1>. SUFFICES ASSUME Init PROVE SerialInv
  OBVIOUS
<1>1. \A c \in Commands : pc[c] = "idle" /\ prepared[c] = NothingRead
  BY DEF Init
<1>2. \A a \in Aggregates : TransitionsOf(a) = {} /\ Logged(a) = NoState /\ registry[a] = NoState /\ Latest(a) = {}
  BY DEF Init, TransitionsOf, Latest, Logged
<1>3. Apart /\ LogInv /\ FreeInv
  BY <1>1, <1>2 DEF Init, Apart, LogInv, FreeInv, InFlight, Active
<1>4. ASSUME NEW c \in Commands PROVE CommandInv(c)
    <2>1. plan[c] = <<>> /\ written[c] = 0 /\ pc[c] \notin Active \cup {"appending", "stamped"}
    BY DEF Init, Active
  <2>. QED  BY <1>1, <2>1, Zenon DEF CommandInv, NothingRead
<1>. QED  BY <1>3, <1>4 DEF SerialInv


LEMMA LoggedStays ==
  ASSUME UNCHANGED log
  PROVE  \A a : /\ TransitionsOf(a)' = TransitionsOf(a) /\ Latest(a)' = Latest(a)
                /\ Logged(a)' = Logged(a)
BY DEF TransitionsOf, Latest, Logged

LEMMA KeyFacts ==
  ASSUME NEW c \in Commands
  PROVE  /\ KeysOf(c) \subseteq AggsOf(c) /\ KeysOf(c) \subseteq Managed /\ AggsOf(c) \subseteq Aggregates
         /\ \A i \in 1..Len(Batch[c]) : /\ Batch[c][i].agg \in AggsOf(c)
                                        /\ Batch[c][i].agg \in Managed => Batch[c][i].agg \in KeysOf(c)
         /\ \A a \in KeysOf(c) : \E i \in 1..Len(Batch[c]) : Batch[c][i].agg = a
BY BatchFacts DEF KeysOf, AggsOf

(***************************************************************************)
(* A step of one command away from the log changes nothing for the others. *)
(***************************************************************************)
LEMMA LocalStep ==
  ASSUME TypeOK, SerialInv, NEW c \in Commands, NEW label,
         pc' = [pc EXCEPT ![c] = label], UNCHANGED log, clock' \in Nat, clock <= clock',
         \A d \in Commands \ {c} : /\ plan'[d] = plan[d] /\ prepared'[d] = prepared[d]
                                   /\ written'[d] = written[d] /\ stamp'[d] = stamp[d],
         \A a \in Aggregates \ KeysOf(c) : registry'[a] = registry[a],
         c \notin InFlight => /\ \A a \in Aggregates : registry'[a] = registry[a]
                              /\ label \in Active => \A d \in InFlight : AggsOf(c) \cap AggsOf(d) = {},
         c \in InFlight /\ label \notin Active => \A a \in KeysOf(c) : registry'[a] = Logged(a),
         CommandInv(c)'
  PROVE  SerialInv'
<1>0. pc'[c] = label /\ \A d \in Commands \ {c} : pc'[d] = pc[d]
  BY DEF TypeOK
<1>1. \A d \in Commands \ {c} : d \in InFlight' <=> d \in InFlight
  BY <1>0 DEF InFlight
<1>c. c \in InFlight' <=> label \in Active
  BY <1>0 DEF InFlight
<1>2. Apart'
  <2>. SUFFICES ASSUME NEW d \in InFlight', NEW e \in InFlight', d # e
       PROVE  AggsOf(d) \cap AggsOf(e) = {}
    BY DEF Apart, AggsOf
  <2>1. d \in Commands /\ e \in Commands
    BY DEF InFlight
  <2>2. ASSUME NEW f \in InFlight', f # c, c \in InFlight' PROVE AggsOf(c) \cap AggsOf(f) = {}
    <3>1. f \in InFlight
      BY <1>1, <2>2 DEF InFlight
    <3>. QED  BY <1>c, <2>2, <3>1 DEF SerialInv, Apart
  <2>. QED  BY <1>1, <2>1, <2>2 DEF SerialInv, Apart
<1>3. LogInv'
  <2>1. \A e \in log : e.ts \in Nat
    BY DEF TypeOK
  <2>2. \A e \in log' : e.ts < clock' /\ (e.to # NoState => e.agg \in Managed)
    BY <2>1 DEF SerialInv, LogInv, TypeOK
  <2>3. \A a \in Aggregates : /\ TransitionsOf(a)' # {} => Latest(a)' # {}
                              /\ \A e, f \in Latest(a)' : e.to = f.to
    BY LoggedStays DEF SerialInv, LogInv
  <2>. QED  BY <2>2, <2>3 DEF LogInv
<1>4. FreeInv'
  <2>. SUFFICES ASSUME NEW a \in Aggregates, Free(a)' PROVE registry'[a] = Logged(a)
    BY LoggedStays DEF FreeInv
  <2>1. CASE a \in KeysOf(c)
    <3>1. label \notin Active
      BY <1>c, <2>1 DEF Free, KeysOf, AggsOf
    <3>2. CASE c \notin InFlight
      <4>1. Free(a)
        BY <1>1, <3>2 DEF Free, KeysOf, AggsOf, InFlight
      <4>. QED  BY <3>2, <4>1 DEF SerialInv, FreeInv
    <3>. QED  BY <2>1, <3>1, <3>2
  <2>2. CASE a \notin KeysOf(c)
    <3>1. Free(a)
      BY <1>1, <2>2 DEF Free, KeysOf, AggsOf, InFlight
    <3>. QED  BY <2>2, <3>1 DEF SerialInv, FreeInv
  <2>. QED  BY <2>1, <2>2
<1>5. ASSUME NEW d \in Commands \ {c} PROVE CommandInv(d)'
  <2>1. CommandInv(d)
    BY DEF SerialInv
  <2>2. KeysOf(d)' = KeysOf(d) /\ AggsOf(d)' = AggsOf(d)
    BY DEF KeysOf, AggsOf
  <2>3. ASSUME pc[d] \in Active, NEW a \in KeysOf(d) PROVE registry'[a] = registry[a]
    <3>1. CASE c \in InFlight
      <4>1. AggsOf(c) \cap AggsOf(d) = {}
        BY <2>3, <3>1 DEF SerialInv, Apart, InFlight
      <4>. QED  BY <2>3, <4>1, KeyFacts
    <3>. QED  BY <2>3, <3>1, KeyFacts
  <2>4. ASSUME pc[d] \in Active, NEW a \in KeysOf(d) PROVE ReadInv(d, a)' /\ WriteInv(d, a)'
    <3>1. ReadInv(d, a) /\ WriteInv(d, a)
      BY <2>1, <2>4 DEF CommandInv
    <3>2. \A i : NextKey(d, i)' <=> NextKey(d, i)
      BY DEF NextKey
    <3>3. ReadInv(d, a)'
      BY <1>0, <2>3, <2>4, <3>1, <3>2, LoggedStays DEF ReadInv
    <3>4. WriteInv(d, a)'
      BY <1>0, <2>3, <2>4, <3>1, LoggedStays DEF WriteInv
    <3>. QED  BY <3>3, <3>4
  <2>5. stamp[d] \in Nat /\ clock \in Nat
    BY DEF TypeOK
  <2>6. (pc[d] = "stamped" => /\ stamp[d] < clock
                              /\ \A e \in log : e.agg \in AggsOf(d) => e.ts < stamp[d])'
    BY <1>0, <2>1, <2>2, <2>5 DEF CommandInv
  <2>. QED  BY <1>0, <2>1, <2>2, <2>4, <2>6 DEF CommandInv
<1>. QED  BY <1>2, <1>3, <1>4, <1>5 DEF SerialInv


-----------------------------------------------------------------------------
(***************************************************************************)
(* The steps of one command, each with what it does to the command's own   *)
(* keys.                                                                   *)
(***************************************************************************)
LEMMA ActiveFacts ==
  ASSUME SerialInv, NEW c \in Commands, pc[c] \in Active
  PROVE  /\ c \in InFlight
         /\ \A a \in KeysOf(c) : ReadInv(c, a) /\ WriteInv(c, a)
         /\ pc[c] \in Reading => written[c] = 0
         /\ \A a \in Aggregates \ KeysOf(c) : prepared[c][a] = Unread
BY DEF SerialInv, CommandInv, InFlight

\* What is given up when the command is answered.
LEMMA AnswerStep ==
  ASSUME TypeOK, SerialInv, NEW c \in Commands, pc[c] \in Active, NEW label \in Answered,
         Answer(c, label), UNCHANGED <<registry, log, clock>>,
         \A a \in KeysOf(c) : registry[a] = Logged(a)
  PROVE  SerialInv'
<1>1. /\ plan'[c] = <<>> /\ prepared'[c] = NothingRead /\ written'[c] = 0 /\ pc'[c] = label
      /\ pc' = [pc EXCEPT ![c] = label]
      /\ \A d \in Commands \ {c} : /\ plan'[d] = plan[d] /\ prepared'[d] = prepared[d]
                                   /\ written'[d] = written[d] /\ stamp'[d] = stamp[d]
  BY DEF Answer, Goto, TypeOK
<1>2. label \notin Active
  BY DEF Active, Answered
<1>3. CommandInv(c)'
  BY <1>1, <1>2 DEF CommandInv, NothingRead, Active, Reading
<1>4. clock' \in Nat /\ clock <= clock' /\ c \in InFlight
  BY DEF TypeOK, InFlight
<1>. QED  BY <1>1, <1>2, <1>3, <1>4, LocalStep

\* Commands that hold nothing yet, or no longer.
LEMMA AdmitStep ==
  ASSUME Serial, TypeOK, SerialInv, NEW c \in Commands, Admit(c) \/ Refuse(c)
  PROVE  SerialInv'
<1>1. /\ pc[c] = "idle" /\ c \notin InFlight /\ clock' \in Nat /\ clock <= clock'
      /\ UNCHANGED <<registry, history, log, clock, plan, prepared, written, stamp>>
  BY DEF Admit, Refuse, InFlight, Active, TypeOK
<1>2. plan[c] = <<>> /\ prepared[c] = NothingRead /\ written[c] = 0
  BY <1>1 DEF SerialInv, CommandInv, Active
<1>3. CASE Refuse(c)
  <2>1. pc' = [pc EXCEPT ![c] = "rejected"] /\ pc'[c] = "rejected"
    BY <1>3 DEF Refuse, Goto, TypeOK
  <2>2. CommandInv(c)'
    BY <1>1, <1>2, <2>1 DEF CommandInv, NothingRead, Active, Reading
  <2>. QED  BY <1>1, <2>1, <2>2, LocalStep DEF Active
<1>4. CASE Admit(c)
  <2>1. pc' = [pc EXCEPT ![c] = "planning"] /\ pc'[c] = "planning"
    BY <1>4 DEF Admit, Goto, TypeOK
  <2>2. \A d \in InFlight : AggsOf(c) \cap AggsOf(d) = {}
    BY <1>4 DEF Admit, Serial
  <2>3. ASSUME NEW a \in KeysOf(c) PROVE ReadInv(c, a)' /\ WriteInv(c, a)'
    <3>1. Free(a)
      BY <2>2, KeyFacts DEF Free, InFlight
    <3>2. registry[a] = Logged(a)
      BY <3>1, KeyFacts DEF SerialInv, FreeInv
    <3>3. prepared'[c][a] = Unread /\ plan'[c] = <<>> /\ registry'[a] = Logged(a)'
      BY <1>1, <1>2, <3>2, LoggedStays, KeyFacts DEF NothingRead
    <3>. QED  BY <2>1, <3>3 DEF ReadInv, WriteInv, Holding
  <2>4. CommandInv(c)'
    <3>1. KeysOf(c)' = KeysOf(c)
      BY DEF KeysOf, AggsOf
    <3>. QED  BY <1>1, <1>2, <2>1, <2>3, <3>1 DEF CommandInv, NothingRead, Active, Reading
  <2>. QED  BY <1>1, <2>1, <2>2, <2>4, LocalStep
<1>. QED  BY <1>3, <1>4

\* Planning and preparing change nothing but what the command has read.
OnlyReads(c, label) ==
  /\ label \in Reading \cup {"writing"} /\ pc' = [pc EXCEPT ![c] = label]
  /\ UNCHANGED <<registry, history, log, clock, written, stamp>>
  /\ \A d \in Commands \ {c} : plan'[d] = plan[d] /\ prepared'[d] = prepared[d]
  /\ \A a \in Aggregates \ KeysOf(c) : prepared'[c][a] = Unread

ReadsTrue(c, label) ==
  \A a \in KeysOf(c) :
    /\ \A i \in 1..Len(plan'[c]) : Batch[c][i].agg = a => plan'[c][i].from = Logged(a)
    /\ prepared'[c][a] \in {Unread, Logged(a)}
    /\ label = "writing" => prepared'[c][a] # Unread
    /\ label = "fetching" /\ Batch[c][Len(plan'[c]) + 1].agg = a => registry[a] # NoState
    /\ label = "loading" =>
         \A i \in 1..Len(Batch[c]) : NextKey(c, i)' /\ Batch[c][i].agg = a => registry[a] # NoState

LEMMA ReadStep ==
  ASSUME TypeOK, SerialInv, NEW c \in Commands, pc[c] \in Reading, NEW label,
         OnlyReads(c, label), ReadsTrue(c, label)
  PROVE  SerialInv'
<1>1. /\ pc[c] \in Active /\ label \in Active /\ label \in Reading \cup {"writing"}
      /\ pc'[c] = label /\ clock' \in Nat /\ clock <= clock'
  BY DEF TypeOK, Active, Reading, OnlyReads
<1>2. written'[c] = 0
  BY <1>1, ActiveFacts DEF OnlyReads
<1>3. ASSUME NEW a \in KeysOf(c) PROVE ReadInv(c, a)' /\ WriteInv(c, a)'
  <2>1. registry'[a] = Logged(a)' /\ Logged(a)' = Logged(a) /\ registry[a] = Logged(a)
    BY <1>1, ActiveFacts, LoggedStays DEF ReadInv, OnlyReads
  <2>2. ReadInv(c, a)'
    BY <1>1, <2>1 DEF ReadInv, ReadsTrue
  <2>3. WriteInv(c, a)'
    BY <1>1, <1>2, <2>1 DEF WriteInv, Reading, Holding, ReadsTrue
  <2>. QED  BY <2>2, <2>3
<1>4. CommandInv(c)'
  <2>1. KeysOf(c)' = KeysOf(c)
    BY DEF KeysOf, AggsOf
  <2>. QED  BY <1>1, <1>2, <1>3, <2>1 DEF CommandInv, Reading, OnlyReads
<1>5. c \in InFlight
  BY <1>1 DEF InFlight
<1>. QED  BY <1>1, <1>4, <1>5, LocalStep DEF OnlyReads


LEMMA PlanStep ==
  ASSUME TypeOK, PlanInv, SerialInv, NEW c \in Commands, PlanProbe(c) \/ PlanFetch(c) \/ PlanDone(c)
  PROVE  SerialInv'
<1>. DEFINE n == Len(plan[c]) + 1
            a == Batch[c][n].agg
<1>0. pc[c] \in {"planning", "fetching"} /\ pc[c] \in Active /\ pc[c] \in Reading
  BY DEF PlanProbe, PlanFetch, PlanDone, Active, Reading
<1>1. /\ \A k \in KeysOf(c) : /\ registry[k] = Logged(k) /\ prepared[c][k] \in {Unread, Logged(k)}
                              /\ \A i \in 1..Len(plan[c]) : Batch[c][i].agg = k => plan[c][i].from = Logged(k)
      /\ \A k \in Aggregates \ KeysOf(c) : prepared[c][k] = Unread
  BY <1>0, ActiveFacts DEF ReadInv, Reading
\* A row planned from the state the log gives.
<1>2. ASSUME NEW r, plan' = [plan EXCEPT ![c] = Append(@, r)], pc' = [pc EXCEPT ![c] = "planning"],
             n \in 1..Len(Batch[c]), a \in Managed => r.from = registry[a],
             UNCHANGED <<registry, history, log, clock, prepared, written, stamp>>
      PROVE  SerialInv'
  <2>1. plan'[c] = Append(plan[c], r) /\ \A d \in Commands \ {c} : plan'[d] = plan[d]
    BY <1>2 DEF TypeOK
  <2>2. plan[c] \in Seq(Row)
    BY DEF TypeOK, Row
  <2>3. /\ Len(plan'[c]) = n
        /\ \A i \in 1..Len(plan[c]) : plan'[c][i] = plan[c][i]
        /\ plan'[c][n] = r
    BY <2>1, <2>2
  <2>4. ASSUME NEW k \in KeysOf(c), NEW i \in 1..n, Batch[c][i].agg = k PROVE plan'[c][i].from = Logged(k)
    <3>1. CASE i = n
      <4>1. a = k /\ k \in Managed
        BY <2>4, <3>1, KeyFacts
      <4>. QED  BY <1>1, <1>2, <2>3, <3>1, <4>1
    <3>2. CASE i # n
      <4>1. i \in 1..Len(plan[c])
        BY <2>2, <3>2
      <4>. QED  BY <1>1, <2>3, <2>4, <4>1
    <3>. QED  BY <3>1, <3>2
  <2>r. OnlyReads(c, "planning")
    BY <1>1, <1>2, <2>1, <2>3, <2>4 DEF OnlyReads, Reading
  <2>t. ReadsTrue(c, "planning")
    BY <1>1, <1>2, <2>1, <2>3, <2>4 DEF ReadsTrue
  <2>. QED  BY <1>0, <2>r, <2>t, ReadStep
<1>3. CASE PlanProbe(c)
  <2>1. /\ pc[c] = "planning" /\ n \in 1..Len(Batch[c])
        /\ UNCHANGED <<registry, history, log, clock, prepared, written, stamp>>
    <3>1. plan[c] \in Seq(Row)
      BY DEF TypeOK, Row
    <3>. QED  BY <1>3, <3>1, BatchFacts DEF PlanProbe
  <2>2. CASE a \notin Managed \/ registry[a] = NoState
    <3>1. pc' = [pc EXCEPT ![c] = "planning"]
      BY <1>3, <2>1, <2>2 DEF PlanProbe, TypeOK
    <3>2. PICK r : plan' = [plan EXCEPT ![c] = Append(@, r)] /\ r.from = NoState
      BY <1>3, <2>2 DEF PlanProbe
    <3>. QED  BY <1>2, <2>1, <2>2, <3>1, <3>2
  <2>3. CASE a \in Managed /\ registry[a] # NoState
    <3>1. pc' = [pc EXCEPT ![c] = "fetching"] /\ UNCHANGED plan
      BY <1>3, <2>3 DEF PlanProbe, Goto
    <3>r. OnlyReads(c, "fetching")
      BY <1>1, <2>1, <2>3, <3>1 DEF OnlyReads, Reading
    <3>t. ReadsTrue(c, "fetching")
      BY <1>1, <2>1, <2>3, <3>1 DEF ReadsTrue
    <3>. QED  BY <1>0, <3>r, <3>t, ReadStep
  <2>. QED  BY <2>2, <2>3
<1>4. CASE PlanFetch(c)
  <2>. DEFINE s == CurrentState(a)
  <2>1. /\ pc[c] = "fetching" /\ n \in 1..Len(Batch[c]) /\ a \in Managed
        /\ UNCHANGED <<registry, history, log, clock>>
    <3>1. pc[c] = "fetching" /\ UNCHANGED <<registry, history, log, clock>>
      BY <1>4 DEF PlanFetch
    <3>2. Len(plan[c]) < Len(Batch[c]) /\ a \in Managed
      BY <3>1 DEF PlanInv
    <3>3. Len(plan[c]) \in Nat /\ Len(Batch[c]) \in Nat
      <4>1. plan[c] \in Seq(Row)
        BY DEF TypeOK, Row
      <4>. QED  BY <4>1, BatchFacts
    <3>. QED  BY <3>1, <3>2, <3>3
  <2>2. s = registry[a]
    <3>1. a \in KeysOf(c)
      BY <2>1, KeyFacts
    <3>2. registry[a] # NoState
      BY <1>0, <2>1, <3>1, ActiveFacts DEF ReadInv
    <3>. QED  BY <3>2 DEF CurrentState
  <2>3. CASE Matching(a, s, Batch[c][n].event) # {}
    <3>1. /\ pc' = [pc EXCEPT ![c] = "planning"] /\ UNCHANGED <<prepared, written, stamp>>
          /\ plan' = [plan EXCEPT ![c] = Append(@, [from |-> s, to |-> Target(a, s, Batch[c][n].event)])]
      BY <1>4, <2>3 DEF PlanFetch, Goto
    <3>. QED  BY <1>2, <2>1, <2>2, <3>1
  <2>4. CASE Matching(a, s, Batch[c][n].event) = {}
    <3>1. Answer(c, "rejected")
      BY <1>4, <2>4 DEF PlanFetch
    <3>. QED  BY <1>0, <1>1, <2>1, <3>1, AnswerStep DEF Answered
  <2>. QED  BY <2>3, <2>4
<1>5. CASE PlanDone(c)
  <2>1. /\ pc' = [pc EXCEPT ![c] = "preparing"]
        /\ UNCHANGED <<registry, history, log, clock, plan, prepared, written, stamp>>
    BY <1>5 DEF PlanDone, Goto
  <2>r. OnlyReads(c, "preparing")
    BY <1>1, <2>1 DEF OnlyReads, Reading
  <2>t. ReadsTrue(c, "preparing")
    BY <1>1, <2>1 DEF ReadsTrue
  <2>. QED  BY <1>0, <2>r, <2>t, ReadStep
<1>. QED  BY <1>3, <1>4, <1>5

LEMMA PrepareStep ==
  ASSUME TypeOK, PlanInv, SerialInv, NEW c \in Commands, PrepareProbe(c) \/ PrepareFetch(c) \/ PrepareDone(c)
  PROVE  SerialInv'
<1>0. pc[c] \in {"preparing", "loading"} /\ pc[c] \in Active /\ pc[c] \in Reading
  BY DEF PrepareProbe, PrepareFetch, PrepareDone, Active, Reading
<1>1. /\ \A k \in KeysOf(c) : /\ registry[k] = Logged(k) /\ prepared[c][k] \in {Unread, Logged(k)}
                              /\ \A i \in 1..Len(plan[c]) : Batch[c][i].agg = k => plan[c][i].from = Logged(k)
      /\ \A k \in Aggregates \ KeysOf(c) : prepared[c][k] = Unread
  BY <1>0, ActiveFacts DEF ReadInv, Reading
<1>2. UNCHANGED <<registry, history, log, clock, plan, written, stamp>>
  BY DEF PrepareProbe, PrepareFetch, PrepareDone
\* A key read into prepared.
<1>3. ASSUME NEW a \in KeysOf(c), prepared' = [prepared EXCEPT ![c][a] = registry[a]],
             pc' = [pc EXCEPT ![c] = "preparing"]
      PROVE  SerialInv'
  <2>1. /\ prepared'[c] = [prepared[c] EXCEPT ![a] = registry[a]]
        /\ \A d \in Commands \ {c} : prepared'[d] = prepared[d]
    BY <1>3 DEF TypeOK
  <2>2. a \in Aggregates /\ prepared[c] \in [Aggregates -> StateOrNone \cup {Unread}]
    BY KeyFacts DEF TypeOK
  <2>3. \A k \in Aggregates : prepared'[c][k] = IF k = a THEN registry[a] ELSE prepared[c][k]
    BY <2>1, <2>2
  <2>4. KeysOf(c) \subseteq Aggregates
    BY KeyFacts
  <2>r. OnlyReads(c, "preparing")
    BY <1>1, <1>2, <1>3, <2>1, <2>3, <2>4 DEF OnlyReads, Reading
  <2>t. ReadsTrue(c, "preparing")
    BY <1>1, <1>2, <1>3, <2>1, <2>3, <2>4 DEF ReadsTrue
  <2>. QED  BY <1>0, <2>r, <2>t, ReadStep
<1>4. CASE PrepareProbe(c)
  <2>1. PICK i \in 1..Len(Batch[c]) :
          /\ NextKey(c, i) /\ pc[c] = "preparing"
          /\ \/ /\ registry[Batch[c][i].agg] = NoState
                /\ prepared' = [prepared EXCEPT ![c][Batch[c][i].agg] = NoState] /\ UNCHANGED pc
             \/ registry[Batch[c][i].agg] # NoState /\ Goto(c, "loading") /\ UNCHANGED prepared
    BY <1>4 DEF PrepareProbe
  <2>2. Batch[c][i].agg \in KeysOf(c)
    BY <2>1, KeyFacts DEF NextKey
  <2>3. CASE registry[Batch[c][i].agg] = NoState
    <3>1. pc' = [pc EXCEPT ![c] = "preparing"]
      BY <2>1, <2>3 DEF TypeOK
    <3>. QED  BY <1>3, <2>1, <2>2, <2>3, <3>1
  <2>4. CASE registry[Batch[c][i].agg] # NoState
    <3>1. pc' = [pc EXCEPT ![c] = "loading"] /\ UNCHANGED prepared
      BY <2>1, <2>4 DEF Goto
    <3>2. ASSUME NEW j \in 1..Len(Batch[c]), NextKey(c, j)' PROVE j = i
      <4>1. NextKey(c, j)
        BY <3>1, <3>2 DEF NextKey
      <4>. QED  BY <2>1, <4>1, BatchFacts DEF NextKey
    <3>r. OnlyReads(c, "loading")
      BY <1>1, <1>2, <2>4, <3>1, <3>2 DEF OnlyReads, Reading
    <3>t. ReadsTrue(c, "loading")
      BY <1>1, <1>2, <2>4, <3>1, <3>2 DEF ReadsTrue
    <3>. QED  BY <1>0, <3>r, <3>t, ReadStep
  <2>. QED  BY <2>3, <2>4
<1>5. CASE PrepareFetch(c)
  <2>1. PICK i \in 1..Len(Batch[c]) :
          /\ NextKey(c, i) /\ pc[c] = "loading" /\ pc' = [pc EXCEPT ![c] = "preparing"]
          /\ prepared' = [prepared EXCEPT ![c][Batch[c][i].agg] = CurrentState(Batch[c][i].agg)]
    BY <1>5 DEF PrepareFetch, Goto
  <2>2. Batch[c][i].agg \in KeysOf(c)
    BY <2>1, KeyFacts DEF NextKey
  <2>3. registry[Batch[c][i].agg] # NoState
    BY <1>0, <2>1, <2>2, ActiveFacts DEF ReadInv
  <2>4. CurrentState(Batch[c][i].agg) = registry[Batch[c][i].agg]
    BY <2>3 DEF CurrentState
  <2>. QED  BY <1>3, <2>1, <2>2, <2>4
<1>6. CASE PrepareDone(c)
  <2>1. /\ pc' = [pc EXCEPT ![c] = "writing"] /\ UNCHANGED prepared
        /\ \A a \in KeysOf(c) : prepared[c][a] # Unread
    BY <1>6 DEF PrepareDone, Goto
  <2>r. OnlyReads(c, "writing")
    BY <1>1, <1>2, <2>1 DEF OnlyReads, Reading
  <2>t. ReadsTrue(c, "writing")
    BY <1>1, <1>2, <2>1 DEF ReadsTrue
  <2>. QED  BY <1>0, <2>r, <2>t, ReadStep
<1>. QED  BY <1>4, <1>5, <1>6


\* The rows of a batch on one key lead to one state.
LEMMA SameTarget ==
  ASSUME OneTarget, TypeOK, PlanInv, SerialInv, NEW c \in Commands, pc[c] \in Active, pc[c] # "committed",
         NEW i \in 1..Len(plan[c]), NEW j \in 1..Len(plan[c]),
         Batch[c][i].agg = Batch[c][j].agg, Batch[c][i].agg \in Managed
  PROVE  plan[c][i].to = plan[c][j].to
<1>. DEFINE a == Batch[c][i].agg
<1>1. i \in 1..Len(Batch[c]) /\ j \in 1..Len(Batch[c])
  <2>1. plan[c] \in Seq(Row)
    BY DEF TypeOK, Row
  <2>2. Len(plan[c]) \in Nat /\ Len(Batch[c]) \in Nat /\ Len(plan[c]) <= Len(Batch[c])
    BY <2>1, BatchFacts DEF PlanInv
  <2>. QED  BY <2>2
<1>2. a \in KeysOf(c)
  BY <1>1, KeyFacts
<1>3. plan[c][i].from = Logged(a) /\ plan[c][j].from = Logged(a)
  BY <1>2, ActiveFacts DEF ReadInv
<1>4. LegalRow(Batch[c][i], plan[c][i]) /\ LegalRow(Batch[c][j], plan[c][j])
  BY DEF PlanInv
<1>5. CASE Logged(a) = NoState
  BY <1>3, <1>4, <1>5, BatchFacts DEF LegalRow
<1>6. CASE Logged(a) # NoState
  <2>1. /\ Matching(a, Logged(a), Batch[c][i].event) # {} /\ plan[c][i].to = Target(a, Logged(a), Batch[c][i].event)
        /\ Matching(a, Logged(a), Batch[c][j].event) # {} /\ plan[c][j].to = Target(a, Logged(a), Batch[c][j].event)
        /\ Logged(a) \in States
    BY <1>3, <1>4, <1>6 DEF LegalRow
  <2>. QED  BY <1>1, <2>1 DEF OneTarget
<1>. QED  BY <1>5, <1>6

\* From the first write to the append: reads and plan stay, the registry takes the plan's states.
LEMMA WriteStep ==
  ASSUME Serial, OneTarget, TypeOK, PlanInv, SerialInv, NEW c \in Commands,
         SetState(c) \/ WriteDone(c) \/ Stamp(c) \/ AppendFails(c)
  PROVE  SerialInv'
<1>1. /\ pc[c] \in Holding /\ pc[c] \in Active /\ Len(plan[c]) = Len(Batch[c]) /\ c \in InFlight
      /\ UNCHANGED <<log, plan, prepared>>
  BY DEF SetState, WriteDone, Stamp, AppendFails, Serial, Holding, Active, PlanInv, Planned, InFlight
<1>2. \A a \in KeysOf(c) : ReadInv(c, a) /\ WriteInv(c, a)
  BY <1>1, ActiveFacts
<1>3. \A a \in Aggregates \ KeysOf(c) : prepared[c][a] = Unread
  BY <1>1, ActiveFacts
<1>k. KeysOf(c)' = KeysOf(c) /\ AggsOf(c)' = AggsOf(c)
  BY DEF KeysOf, AggsOf
\* What was read is not forgotten.
<1>4. ASSUME NEW label \in {"writing", "appending", "stamped", "rollingBack"}, pc'[c] = label,
             NEW a \in KeysOf(c)
      PROVE  ReadInv(c, a)'
  BY <1>1, <1>2, <1>4, LoggedStays DEF ReadInv, Reading, Holding
<1>5. CASE SetState(c)
  <2>. DEFINE i == written[c] + 1
              b == Batch[c][i].agg
  <2>1. /\ pc[c] = "writing" /\ pc' = [pc EXCEPT ![c] = "writing"] /\ written[c] < Len(Batch[c])
        /\ written' = [written EXCEPT ![c] = @ + 1] /\ UNCHANGED <<clock, stamp>>
        /\ IF plan[c][i].to = NoState THEN UNCHANGED registry
           ELSE registry' = [registry EXCEPT ![b] = plan[c][i].to]
    BY <1>5 DEF SetState, TypeOK
  <2>2. written[c] \in Nat /\ i \in 1..Len(Batch[c]) /\ written'[c] = i /\ pc'[c] = "writing"
    BY <2>1, BatchFacts DEF TypeOK
  <2>3. LegalRow(Batch[c][i], plan[c][i])
    BY <1>1, <2>2 DEF PlanInv
  <2>4. b \in Aggregates /\ (plan[c][i].to # NoState <=> b \in KeysOf(c))
    BY <2>2, <2>3, KeyFacts, BatchFacts DEF LegalRow
  <2>5. \A a \in Aggregates : registry'[a] = IF a = b /\ b \in KeysOf(c) THEN plan[c][i].to ELSE registry[a]
    BY <2>1, <2>4 DEF TypeOK
  <2>6. ASSUME NEW a \in KeysOf(c) PROVE WriteInv(c, a)'
    <3>1. a \in Aggregates /\ a \in Managed /\ WriteInv(c, a)
      BY <1>2, KeyFacts
    <3>2. ASSUME NEW j \in 1..i, Batch[c][j].agg = a PROVE registry'[a] = plan[c][j].to
      <4>1. CASE a = b
        <5>1. plan[c][i].to = plan[c][j].to
          BY <1>1, <2>1, <2>2, <3>1, <3>2, <4>1, SameTarget
        <5>. QED  BY <2>5, <3>1, <4>1, <5>1
      <4>2. CASE a # b
        <5>1. j \in 1..written[c]
          BY <2>2, <3>2, <4>2
        <5>. QED  BY <1>1, <2>5, <3>1, <3>2, <4>2, <5>1 DEF WriteInv
      <4>. QED  BY <4>1, <4>2
    <3>3. ASSUME \A j \in 1..i : Batch[c][j].agg # a PROVE registry'[a] = Logged(a)
      <4>1. a # b /\ \A j \in 1..written[c] : Batch[c][j].agg # a
        BY <2>2, <3>3
      <4>. QED  BY <1>1, <2>5, <3>1, <4>1 DEF WriteInv
    <3>4. prepared'[c][a] # Unread
      BY <1>1, <3>1 DEF WriteInv
    <3>. QED  BY <1>1, <2>2, <3>2, <3>3, <3>4, LoggedStays DEF WriteInv, Holding
  <2>7. CommandInv(c)'
    BY <1>1, <1>3, <1>4, <1>k, <2>2, <2>6 DEF CommandInv, Active, Reading
  <2>8. \A a \in Aggregates \ KeysOf(c) : registry'[a] = registry[a]
    BY <2>5
  <2>9. \A d \in Commands \ {c} : /\ plan'[d] = plan[d] /\ prepared'[d] = prepared[d]
                                  /\ written'[d] = written[d] /\ stamp'[d] = stamp[d]
    BY <1>1, <2>1 DEF TypeOK
  <2>10. clock' \in Nat /\ clock <= clock'
    BY <2>1 DEF TypeOK
  <2>. QED  BY <1>1, <2>1, <2>7, <2>8, <2>9, <2>10, LocalStep DEF Active
\* The others only move the command on.
<1>6. ASSUME NEW label \in {"appending", "stamped", "rollingBack"}, pc' = [pc EXCEPT ![c] = label],
             UNCHANGED <<registry, written>>, clock' \in Nat, clock <= clock',
             \A d \in Commands \ {c} : stamp'[d] = stamp[d],
             written[c] = Len(Batch[c]),
             label = "stamped" => stamp'[c] < clock' /\ \A e \in log : e.ts < stamp'[c]
      PROVE  SerialInv'
  <2>1. pc'[c] = label
    BY <1>6 DEF TypeOK
  <2>2. ASSUME NEW a \in KeysOf(c) PROVE WriteInv(c, a)'
    BY <1>1, <1>2, <1>6, <2>1, LoggedStays DEF WriteInv, Holding
  <2>3. CommandInv(c)'
    BY <1>1, <1>3, <1>4, <1>6, <1>k, <2>1, <2>2 DEF CommandInv, Active, Reading
  <2>. QED  BY <1>1, <1>6, <2>3, LocalStep DEF Active
<1>7. CASE WriteDone(c)
  <2>1. clock' \in Nat /\ clock <= clock'
    BY <1>7 DEF WriteDone, TypeOK
  <2>. QED  BY <1>6, <1>7, <2>1 DEF WriteDone, Goto
<1>8. CASE Stamp(c)
  <2>1. stamp'[c] = clock /\ clock' = clock + 1 /\ \A d \in Commands \ {c} : stamp'[d] = stamp[d]
    BY <1>8 DEF Stamp, Serial, TypeOK
  <2>2. clock \in Nat /\ written[c] = Len(Batch[c]) /\ \A e \in log : e.ts < clock
    BY <1>8 DEF Stamp, TypeOK, SerialInv, CommandInv, LogInv
  <2>. QED  BY <1>6, <1>8, <2>1, <2>2 DEF Stamp, Goto
<1>9. CASE AppendFails(c)
  <2>1. pc[c] = "stamped" /\ clock' \in Nat /\ clock <= clock'
    BY <1>9 DEF AppendFails, Serial, TypeOK
  <2>2. written[c] = Len(Batch[c])
    BY <2>1 DEF SerialInv, CommandInv
  <2>. QED  BY <1>6, <1>9, <2>1, <2>2 DEF AppendFails, Goto
<1>. QED  BY <1>5, <1>7, <1>8, <1>9

\* A rollback gives a key back the state the command had read.
LEMMA RollbackStep ==
  ASSUME TypeOK, SerialInv, NEW c \in Commands, Rollback(c) \/ RollbackDone(c)
  PROVE  SerialInv'
<1>1. /\ pc[c] = "rollingBack" /\ pc[c] \in Active /\ c \in InFlight /\ UNCHANGED <<log, clock>>
      /\ clock' \in Nat /\ clock <= clock'
  BY DEF Rollback, RollbackDone, Active, InFlight, TypeOK
<1>2. /\ \A a \in KeysOf(c) : ReadInv(c, a) /\ WriteInv(c, a)
      /\ \A a \in Aggregates \ KeysOf(c) : prepared[c][a] = Unread
  BY <1>1, ActiveFacts
<1>3. CASE Rollback(c)
  <2>1. PICK i \in 1..Len(Batch[c]) :
           LET a == Batch[c][i].agg
           IN  /\ prepared[c][a] # Unread
               /\ registry' = [registry EXCEPT ![a] = prepared[c][a]]
               /\ prepared' = [prepared EXCEPT ![c][a] = Unread]
               /\ UNCHANGED <<pc, plan, written, stamp>>
    BY <1>3 DEF Rollback, LastKey
  <2>. DEFINE b == Batch[c][i].agg
  <2>2. b \in KeysOf(c) /\ b \in Aggregates
    BY <1>2, <2>1, BatchFacts
  <2>3. \A a \in Aggregates : /\ registry'[a] = IF a = b THEN Logged(b) ELSE registry[a]
                              /\ prepared'[c][a] = IF a = b THEN Unread ELSE prepared[c][a]
    BY <1>1, <1>2, <2>1, <2>2 DEF TypeOK, ReadInv
  <2>4. ASSUME NEW a \in KeysOf(c) PROVE ReadInv(c, a)' /\ WriteInv(c, a)'
    <3>1. a \in Aggregates /\ ReadInv(c, a) /\ WriteInv(c, a)
      BY <1>2, KeyFacts
    <3>2. ReadInv(c, a)'
      BY <1>1, <2>1, <2>3, <3>1, LoggedStays DEF ReadInv, Reading
    <3>3. WriteInv(c, a)'
      BY <1>1, <2>1, <2>3, <3>1, LoggedStays DEF WriteInv, Holding
    <3>. QED  BY <3>2, <3>3
  <2>5. KeysOf(c)' = KeysOf(c)
    BY DEF KeysOf, AggsOf
  <2>6. CommandInv(c)'
    BY <1>1, <1>2, <2>1, <2>2, <2>3, <2>4, <2>5 DEF CommandInv, Active, Reading
  <2>7. /\ pc' = [pc EXCEPT ![c] = "rollingBack"]
        /\ \A d \in Commands \ {c} : /\ plan'[d] = plan[d] /\ prepared'[d] = prepared[d]
                                     /\ written'[d] = written[d] /\ stamp'[d] = stamp[d]
    BY <1>1, <2>1 DEF TypeOK
  <2>8. \A a \in Aggregates \ KeysOf(c) : registry'[a] = registry[a]
    BY <2>2, <2>3
  <2>. QED  BY <1>1, <2>6, <2>7, <2>8, LocalStep DEF Active
<1>4. CASE RollbackDone(c)
  <2>1. \A a \in KeysOf(c) : registry[a] = Logged(a)
    BY <1>1, <1>2, <1>4 DEF RollbackDone, WriteInv
  <2>. QED  BY <1>1, <1>4, <2>1, AnswerStep DEF RollbackDone, Answered
<1>. QED  BY <1>3, <1>4

LEMMA ReplyStep ==
  ASSUME TypeOK, SerialInv, NEW c \in Commands, Reply(c)
  PROVE  SerialInv'
<1>1. pc[c] = "committed" /\ pc[c] \in Active
  BY DEF Reply, Active
<1>2. \A a \in KeysOf(c) : registry[a] = Logged(a)
  BY <1>1, ActiveFacts DEF ReadInv
<1>. QED  BY <1>1, <1>2, AnswerStep DEF Reply, Answered


-----------------------------------------------------------------------------
(***************************************************************************)
(* A commit puts the rows of the batch on top of the log of its keys, all  *)
(* from the state logged there to the state the registry holds, and leaves *)
(* the other keys alone.                                                   *)
(***************************************************************************)
RowsOn(c, a) == {e \in NewEvents(c) : e.agg = a}

LEMMA CommitRows ==
  ASSUME TypeOK, PlanInv, SerialInv, NEW c \in Commands, Commit(c)
  PROVE  /\ \A a \in Aggregates \ KeysOf(c) : TransitionsOf(a)' = TransitionsOf(a)
         /\ \A e \in NewEvents(c) : e.ts = stamp[c] /\ (e.to # NoState => e.agg \in KeysOf(c))
         /\ \A a \in KeysOf(c) :
              /\ \A e \in TransitionsOf(a) : e.ts < stamp[c]
              /\ RowsOn(c, a) # {}
              /\ \A e \in RowsOn(c, a) : /\ e.to # NoState /\ e.ts = stamp[c]
                                         /\ e.from = Logged(a) /\ e.to = registry[a]
              /\ TransitionsOf(a)' = TransitionsOf(a) \cup RowsOn(c, a)
              /\ Latest(a)' = RowsOn(c, a)
<1>1. /\ pc[c] = "stamped" /\ pc[c] \in Active /\ log' = log \cup NewEvents(c)
      /\ Len(plan[c]) = Len(Batch[c]) /\ written[c] = Len(Batch[c])
      /\ \A e \in log : e.agg \in AggsOf(c) => e.ts < stamp[c]
  BY DEF Commit, Active, PlanInv, Planned, SerialInv, CommandInv
<1>2. ASSUME NEW e \in NewEvents(c)
      PROVE  \E i \in 1..Len(Batch[c]) : /\ e.agg = Batch[c][i].agg /\ e.from = plan[c][i].from
                                         /\ e.to = plan[c][i].to /\ e.ts = stamp[c]
                                         /\ LegalRow(Batch[c][i], plan[c][i])
  <2>1. PICK i \in 1..Len(Batch[c]) : /\ e.agg = Batch[c][i].agg /\ e.from = plan[c][i].from
                                      /\ e.to = plan[c][i].to /\ e.ts = stamp[c]
    BY DEF NewEvents
  <2>. QED  BY <1>1, <2>1 DEF PlanInv
<1>3. \A e \in NewEvents(c) : e.ts = stamp[c] /\ (e.to # NoState <=> e.agg \in KeysOf(c))
  BY <1>2, KeyFacts, BatchFacts DEF LegalRow
<1>4. ASSUME NEW a \in Aggregates \ KeysOf(c) PROVE TransitionsOf(a)' = TransitionsOf(a)
  BY <1>1, <1>3 DEF TransitionsOf
<1>5. ASSUME NEW a \in KeysOf(c)
      PROVE  /\ \A e \in TransitionsOf(a) : e.ts < stamp[c]
             /\ RowsOn(c, a) # {}
             /\ \A e \in RowsOn(c, a) : /\ e.to # NoState /\ e.ts = stamp[c]
                                        /\ e.from = Logged(a) /\ e.to = registry[a]
             /\ TransitionsOf(a)' = TransitionsOf(a) \cup RowsOn(c, a)
             /\ Latest(a)' = RowsOn(c, a)
  <2>1. ReadInv(c, a) /\ WriteInv(c, a)
    BY <1>1, ActiveFacts
  <2>2. \A e \in TransitionsOf(a) : e.ts < stamp[c]
    BY <1>1, KeyFacts DEF TransitionsOf
  <2>3. RowsOn(c, a) # {}
    <3>1. PICK i \in 1..Len(Batch[c]) : Batch[c][i].agg = a
      BY KeyFacts
    <3>. DEFINE e == [cmd |-> c, pos |-> i, agg |-> Batch[c][i].agg,
                      from |-> plan[c][i].from, to |-> plan[c][i].to, ts |-> stamp[c]]
    <3>2. e \in NewEvents(c) /\ e.agg = a
      BY <3>1 DEF NewEvents
    <3>. QED  BY <3>2 DEF RowsOn
  <2>4. ASSUME NEW e \in RowsOn(c, a)
        PROVE  e.to # NoState /\ e.ts = stamp[c] /\ e.from = Logged(a) /\ e.to = registry[a]
    <3>1. e \in NewEvents(c) /\ e.agg = a
      BY DEF RowsOn
    <3>2. PICK i \in 1..Len(Batch[c]) : e.agg = Batch[c][i].agg /\ e.from = plan[c][i].from /\ e.to = plan[c][i].to
      BY <1>2, <3>1
    <3>. QED  BY <1>1, <1>3, <2>1, <3>1, <3>2 DEF ReadInv, WriteInv, Holding
  <2>5. TransitionsOf(a)' = TransitionsOf(a) \cup RowsOn(c, a)
    BY <1>1, <1>3 DEF TransitionsOf, RowsOn
  <2>6. Latest(a)' = RowsOn(c, a)
    <3>1. stamp[c] \in Nat /\ \A e \in TransitionsOf(a) : e.ts \in Nat
      BY DEF TypeOK, TransitionsOf
    <3>. QED  BY <2>2, <2>3, <2>4, <2>5, <3>1 DEF Latest
  <2>. QED  BY <2>2, <2>3, <2>4, <2>5, <2>6
<1>. QED  BY <1>3, <1>4, <1>5

LEMMA CommitStep ==
  ASSUME TypeOK, PlanInv, SerialInv, NEW c \in Commands, Commit(c)
  PROVE  SerialInv'
<1>1. /\ pc[c] = "stamped" /\ pc[c] \in Active /\ c \in InFlight /\ log' = log \cup NewEvents(c)
      /\ pc'[c] = "committed" /\ \A d \in Commands \ {c} : pc'[d] = pc[d]
      /\ UNCHANGED <<registry, history, clock, plan, prepared, written, stamp>>
  BY DEF Commit, Active, InFlight, Goto, TypeOK
<1>2. InFlight' = InFlight
  BY <1>1 DEF InFlight, Active
<1>3. Apart'
  BY <1>2 DEF SerialInv, Apart, AggsOf
<1>4. ASSUME NEW a \in Aggregates \ KeysOf(c)
      PROVE  /\ TransitionsOf(a)' = TransitionsOf(a) /\ Latest(a)' = Latest(a) /\ Logged(a)' = Logged(a)
  <2>1. TransitionsOf(a)' = TransitionsOf(a)
    BY CommitRows
  <2>. QED  BY <2>1 DEF Latest, Logged
<1>5. ASSUME NEW a \in KeysOf(c)
      PROVE  /\ Logged(a)' = registry[a] /\ Latest(a)' # {} /\ \A e, f \in Latest(a)' : e.to = f.to
  <2>1. /\ Latest(a)' # {} /\ \A e \in Latest(a)' : e.to = registry[a]
        /\ TransitionsOf(a)' # {}
    BY CommitRows
  <2>. QED  BY <2>1 DEF Logged
<1>6. LogInv'
  <2>1. stamp[c] < clock
    BY <1>1 DEF SerialInv, CommandInv
  <2>2. \A e \in log' : e.ts < clock' /\ (e.to # NoState => e.agg \in Managed)
    BY <1>1, <2>1, CommitRows, KeyFacts DEF SerialInv, LogInv
  <2>3. ASSUME NEW a \in Aggregates
        PROVE  /\ TransitionsOf(a)' # {} => Latest(a)' # {}
               /\ \A e, f \in Latest(a)' : e.to = f.to
    BY <1>4, <1>5 DEF SerialInv, LogInv
  <2>. QED  BY <2>2, <2>3 DEF LogInv
<1>7. FreeInv'
  <2>. SUFFICES ASSUME NEW a \in Aggregates, Free(a)' PROVE registry'[a] = Logged(a)'
    BY DEF FreeInv
  <2>1. Free(a) /\ a \notin KeysOf(c)
    BY <1>1, <1>2 DEF Free, KeysOf, AggsOf
  <2>. QED  BY <1>1, <1>4, <2>1 DEF SerialInv, FreeInv
<1>8. ASSUME NEW d \in Commands PROVE CommandInv(d)'
  <2>1. KeysOf(d)' = KeysOf(d) /\ AggsOf(d)' = AggsOf(d) /\ CommandInv(d)
    BY DEF KeysOf, AggsOf, SerialInv
  <2>2. CASE d = c
    <3>1. ASSUME NEW a \in KeysOf(c) PROVE ReadInv(c, a)' /\ WriteInv(c, a)'
      BY <1>1, <1>5 DEF ReadInv, WriteInv, Reading, Holding
    <3>. QED  BY <1>1, <2>1, <2>2, <3>1 DEF CommandInv, Reading, Active
  <2>3. CASE d # c
    <3>1. ASSUME pc[d] \in Active PROVE AggsOf(c) \cap AggsOf(d) = {}
      BY <1>1, <2>3, <3>1 DEF SerialInv, Apart, InFlight
    <3>2. ASSUME pc[d] \in Active, NEW a \in KeysOf(d) PROVE ReadInv(d, a)' /\ WriteInv(d, a)'
      <4>1. a \in Aggregates \ KeysOf(c) /\ ReadInv(d, a) /\ WriteInv(d, a)
        BY <2>1, <3>1, <3>2, KeyFacts DEF CommandInv
      <4>2. \A i : NextKey(d, i)' <=> NextKey(d, i)
        BY <1>1 DEF NextKey
      <4>3. ReadInv(d, a)'
        BY <1>1, <1>4, <2>3, <4>1, <4>2 DEF ReadInv
      <4>4. WriteInv(d, a)'
        BY <1>1, <1>4, <2>3, <4>1 DEF WriteInv
      <4>. QED  BY <4>3, <4>4
    <3>3. pc[d] = "stamped" => \A e \in log' : e.agg \in AggsOf(d) => e.ts < stamp[d]
      <4>1. \A e \in NewEvents(c) : e.agg \in AggsOf(c)
        BY KeyFacts DEF NewEvents
      <4>. QED  BY <1>1, <2>1, <3>1, <4>1 DEF CommandInv, Active
    <3>. QED  BY <1>1, <2>1, <2>3, <3>2, <3>3 DEF CommandInv
  <2>. QED  BY <2>2, <2>3
<1>. QED  BY <1>3, <1>6, <1>7, <1>8 DEF SerialInv

LEMMA RestartStep ==
  ASSUME TypeOK, SerialInv, Restart
  PROVE  SerialInv'
<1>1. /\ UNCHANGED <<log, clock>> /\ InFlight' = {}
      /\ \A c \in Commands : /\ pc'[c] \notin Active /\ plan'[c] = <<>>
                             /\ prepared'[c] = NothingRead /\ written'[c] = 0
  BY DEF Restart, InFlight, Active
<1>2. \A c \in Commands : CommandInv(c)'
  BY <1>1 DEF CommandInv, NothingRead, Active, Reading
<1>3. Apart'
  BY <1>1 DEF Apart
<1>4. LogInv'
  <2>1. \A e \in log' : e.ts < clock' /\ (e.to # NoState => e.agg \in Managed)
    BY <1>1 DEF SerialInv, LogInv
  <2>2. \A a \in Aggregates : /\ TransitionsOf(a)' # {} => Latest(a)' # {}
                              /\ \A e, f \in Latest(a)' : e.to = f.to
    BY <1>1, LoggedStays DEF SerialInv, LogInv
  <2>. QED  BY <2>1, <2>2 DEF LogInv
<1>5. PICK last \in SUBSET Candidates :
        /\ \A e \in Candidates : \E f \in last : e.agg = f.agg
        /\ registry' = [a \in Aggregates |->
                         IF \E e \in last : e.agg = a
                         THEN (CHOOSE e \in last : e.agg = a).to ELSE NoState]
  BY DEF Restart
<1>6. ASSUME NEW a \in Aggregates PROVE registry'[a] = Logged(a)
  <2>1. CASE TransitionsOf(a) = {}
    <3>1. \A e \in last : e.agg # a
      BY <2>1 DEF Candidates, Latest
    <3>. QED  BY <1>5, <2>1, <3>1 DEF Logged
  <2>2. CASE TransitionsOf(a) # {}
    <3>1. PICK e \in Latest(a) : TRUE
      BY <2>2 DEF SerialInv, LogInv
    <3>2. e \in Candidates /\ e.agg = a
      BY <3>1 DEF Candidates, Latest, TransitionsOf
    <3>3. \E f \in last : f.agg = a
      BY <1>5, <3>2
    <3>. DEFINE f == CHOOSE g \in last : g.agg = a
    <3>4. f \in last /\ f.agg = a
      BY <3>3
    <3>5. f \in Latest(a)
      BY <3>4 DEF Candidates
    <3>6. registry'[a] = f.to
      BY <1>5, <3>3
    <3>. QED  BY <2>2, <3>1, <3>5, <3>6 DEF Logged, SerialInv, LogInv
  <2>. QED  BY <2>1, <2>2
<1>7. FreeInv'
  BY <1>1, <1>6, LoggedStays DEF FreeInv
<1>. QED  BY <1>2, <1>3, <1>4, <1>7 DEF SerialInv


LEMMA SerialNext ==
  ASSUME Serial, OneTarget, TypeOK, PlanInv, SerialInv, [Next]_vars
  PROVE  SerialInv'
<1>1. CASE UNCHANGED vars
  <2>1. UNCHANGED <<registry, log, clock, pc, plan, prepared, written, stamp>>
    BY <1>1 DEF vars
  <2>2. \A c \in Commands : CommandInv(c)'
    <3>. SUFFICES ASSUME NEW c \in Commands PROVE CommandInv(c)'
      OBVIOUS
    <3>1. /\ \A a : ReadInv(c, a)' <=> ReadInv(c, a)
          /\ \A a : WriteInv(c, a)' <=> WriteInv(c, a)
      BY <2>1, LoggedStays DEF ReadInv, WriteInv, NextKey
    <3>. QED  BY <2>1, <3>1 DEF SerialInv, CommandInv, KeysOf, AggsOf
  <2>3. Apart' /\ FreeInv'
    <3>1. InFlight' = InFlight /\ \A a : Free(a)' <=> Free(a)
      BY <2>1 DEF Free, InFlight, AggsOf, KeysOf
    <3>. QED  BY <2>1, <3>1, LoggedStays DEF SerialInv, Apart, FreeInv, AggsOf
  <2>4. LogInv'
    <3>1. \A a \in Aggregates : /\ TransitionsOf(a)' # {} => Latest(a)' # {}
                                /\ \A e, f \in Latest(a)' : e.to = f.to
      BY <2>1, LoggedStays DEF SerialInv, LogInv
    <3>. QED  BY <2>1, <3>1 DEF SerialInv, LogInv
  <2>. QED  BY <2>2, <2>3, <2>4 DEF SerialInv
<1>2. ASSUME NEW c \in Commands, Admit(c) \/ Refuse(c) \/ Step(c) PROVE SerialInv'
  BY <1>2, AdmitStep, PlanStep, PrepareStep, WriteStep, CommitStep, ReplyStep, RollbackStep DEF Step
<1>3. CASE Restart
  BY <1>3, RestartStep
<1>. QED  BY <1>1, <1>2, <1>3 DEF Next

LEMMA SerialInvariant == Serial /\ OneTarget => (Spec => []SerialInv)
<1>. SUFFICES ASSUME Serial, OneTarget PROVE Spec => []SerialInv
  OBVIOUS
<1>1. Init => SerialInv
  BY SerialInit
<1>2. TypeOK /\ PlanInv /\ SerialInv /\ [Next]_vars => SerialInv'
  BY SerialNext
<1>. QED  BY <1>1, <1>2, PlanInvariant, PTL DEF Spec

(***************************************************************************)
(* INV-001 for commands one at a time on an aggregate: a key no command is *)
(* writing holds the state that a rebuild from the log would give it, also *)
(* after failed appends, rollbacks and crashes at any point.               *)
(***************************************************************************)
THEOREM StateFollowsLog == Serial /\ OneTarget => (Spec => []StateMatchesLog)
<1>. SUFFICES ASSUME Serial, OneTarget PROVE Spec => []StateMatchesLog
  OBVIOUS
<1>1. TypeOK /\ SerialInv => StateMatchesLog
  <2>. SUFFICES ASSUME TypeOK, SerialInv, NEW a \in Aggregates, Settled(a),
                       NEW s \in StateOrNone, Rebuilt(a, s)
       PROVE  s = registry[a]
    BY DEF StateMatchesLog
  <2>1. s = Logged(a)
    BY DEF Rebuilt, Logged, SerialInv, LogInv, Latest
  <2>2. CASE Free(a)
    BY <2>1, <2>2 DEF SerialInv, FreeInv
  <2>3. CASE ~Free(a)
    <3>1. PICK c \in InFlight : a \in KeysOf(c)
      BY <2>3 DEF Free
    <3>2. c \in Commands /\ pc[c] \in Active /\ pc[c] \notin Dirty
      BY <3>1 DEF InFlight, Settled
    <3>3. pc[c] \in Reading \cup {"committed"}
      BY <3>2 DEF Active, Dirty, Reading
    <3>. QED  BY <2>1, <3>1, <3>2, <3>3, ActiveFacts DEF ReadInv
  <2>. QED  BY <2>2, <2>3
<1>. QED  BY <1>1, SerialInvariant, TypeCorrect, PTL

-----------------------------------------------------------------------------
\* ChainIntact, one transition of one key at a time.
Chained(f) ==
  IF \E e \in TransitionsOf(f.agg) : e.ts < f.ts
  THEN \A e \in TransitionsOf(f.agg) : Follows(e, f) => f.from = e.to
  ELSE f.from = NoState

(***************************************************************************)
(* Under the same conditions the transitions of a key form one chain: each *)
(* starts where the batch before it ended.                                 *)
(***************************************************************************)
LEMMA ChainInvariant == Serial /\ OneTarget => (Spec => []ChainIntact)
<1>. SUFFICES ASSUME Serial, OneTarget PROVE Spec => []ChainIntact
  OBVIOUS
<1>1. Init => ChainIntact
  BY DEF Init, ChainIntact
<1>2. TypeOK /\ PlanInv /\ SerialInv /\ ChainIntact /\ [Next]_vars => ChainIntact'
  <2>. SUFFICES ASSUME TypeOK, PlanInv, SerialInv, ChainIntact, [Next]_vars PROVE ChainIntact'
    OBVIOUS
  <2>1. CASE UNCHANGED log
    BY <2>1 DEF ChainIntact, TransitionsOf, Follows
  <2>2. ASSUME NEW c \in Commands, Commit(c) PROVE ChainIntact'
    <3>1. log' = log \cup NewEvents(c)
      BY <2>2 DEF Commit
    <3>. SUFFICES ASSUME NEW f \in log', f.to # NoState PROVE Chained(f)'
      BY DEF ChainIntact, Chained
    <3>. DEFINE a == f.agg
    <3>2. CASE f \notin log
      <4>1. f \in RowsOn(c, a) /\ a \in KeysOf(c)
        BY <2>2, <3>1, <3>2, CommitRows DEF RowsOn
      <4>2. /\ f.from = Logged(a) /\ f.ts = stamp[c] /\ TransitionsOf(a)' = TransitionsOf(a) \cup RowsOn(c, a)
            /\ \A e \in TransitionsOf(a) : e.ts < stamp[c]
            /\ \A e \in RowsOn(c, a) : e.ts = stamp[c]
        BY <2>2, <4>1, CommitRows
      <4>3. stamp[c] \in Nat /\ \A e \in TransitionsOf(a) : e.ts \in Nat
        BY DEF TypeOK, TransitionsOf
      <4>4. \A e \in TransitionsOf(a)' : e.ts < f.ts <=> e \in TransitionsOf(a)
        BY <4>2, <4>3
      <4>5. ASSUME NEW e \in TransitionsOf(a)', Follows(e, f)' PROVE f.from = e.to
        <5>1. e \in TransitionsOf(a) /\ \A g \in TransitionsOf(a) : ~(e.ts < g.ts /\ g.ts < f.ts)
          BY <4>2, <4>4, <4>5 DEF Follows
        <5>2. e \in Latest(a)
          BY <4>2, <4>3, <5>1 DEF Latest
        <5>. QED  BY <4>1, <4>2, <5>1, <5>2, KeyFacts DEF Logged, SerialInv, LogInv
      <4>6. ASSUME \A e \in TransitionsOf(a)' : ~(e.ts < f.ts) PROVE f.from = NoState
        BY <4>2, <4>4, <4>6 DEF Logged
      <4>. QED  BY <4>5, <4>6 DEF Chained
    <3>3. CASE f \in log
      <4>1. Chained(f) /\ a \in Aggregates
        BY <3>3 DEF ChainIntact, Chained, TypeOK
      <4>2. CASE a \notin KeysOf(c)
        <5>1. TransitionsOf(a)' = TransitionsOf(a)
          BY <2>2, <4>1, <4>2, CommitRows
        <5>. QED  BY <4>1, <5>1 DEF Chained, Follows
      <4>3. CASE a \in KeysOf(c)
        <5>1. /\ TransitionsOf(a)' = TransitionsOf(a) \cup RowsOn(c, a)
              /\ \A e \in TransitionsOf(a) : e.ts < stamp[c]
              /\ \A e \in RowsOn(c, a) : e.ts = stamp[c]
          BY <2>2, <4>3, CommitRows
        <5>2. f \in TransitionsOf(a) /\ stamp[c] \in Nat /\ \A e \in TransitionsOf(a) : e.ts \in Nat
          BY <3>3 DEF TypeOK, TransitionsOf
        <5>3. \A e \in RowsOn(c, a) : ~(e.ts < f.ts)
          BY <5>1, <5>2
        <5>4. \A e \in TransitionsOf(a)' : e.ts < f.ts => e \in TransitionsOf(a)
          BY <5>1, <5>3
        <5>5. ASSUME NEW e \in TransitionsOf(a)', Follows(e, f)' PROVE e \in TransitionsOf(a) /\ Follows(e, f)
          BY <5>1, <5>4, <5>5 DEF Follows
        <5>. QED  BY <4>1, <5>1, <5>4, <5>5 DEF Chained
      <4>. QED  BY <4>2, <4>3
    <3>. QED  BY <3>2, <3>3
  <2>. QED  BY <2>1, <2>2, LogGrows
<1>. QED  BY <1>1, <1>2, SerialInvariant, PlanInvariant, PTL DEF Spec


-----------------------------------------------------------------------------
(***************************************************************************)
(* The history of a key counts the transitions of the log, and the write   *)
(* of a command in flight that is not there yet.                           *)
(***************************************************************************)
OnePerKey ==
  \A c \in Commands : \A i, j \in 1..Len(Batch[c]) :
    Batch[c][i].agg = Batch[c][j].agg /\ Batch[c][i].agg \in Managed => i = j

Logs(a)     == Cardinality(TransitionsOf(a))
Extra(c, a) ==
  IF \/ pc[c] \in Holding /\ \E i \in 1..written[c] : Batch[c][i].agg = a
     \/ pc[c] = "rollingBack" /\ prepared[c][a] # Unread
  THEN 1 ELSE 0

HistoryInv ==
  /\ \A a \in Aggregates : Free(a) => history[a] = Logs(a)
  /\ \A c \in InFlight : \A a \in KeysOf(c) : history[a] = Logs(a) + Extra(c, a)

LEMMA LogsType ==
  ASSUME FiniteLog, NEW a
  PROVE  IsFiniteSet(TransitionsOf(a)) /\ Logs(a) \in Nat
<1>1. TransitionsOf(a) \in SUBSET log
  BY DEF TransitionsOf
<1>. QED  BY <1>1, FS_Subset, FS_CardinalityType DEF FiniteLog, Logs

\* A step of one command away from the log moves its own counters as much as its own writes.
LEMMA HistoryLocal ==
  ASSUME TypeOK, FiniteLog, SerialInv, HistoryInv, NEW c \in Commands, NEW label,
         pc' = [pc EXCEPT ![c] = label], UNCHANGED log,
         \A d \in Commands \ {c} : prepared'[d] = prepared[d] /\ written'[d] = written[d],
         \A a \in Aggregates \ KeysOf(c) : history'[a] = history[a],
         c \notin InFlight => /\ UNCHANGED history
                              /\ \A a \in KeysOf(c) : Extra(c, a)' = 0
                              /\ label \in Active => \A d \in InFlight : AggsOf(c) \cap AggsOf(d) = {},
         c \in InFlight => \A a \in KeysOf(c) :
           history'[a] = (history[a] - Extra(c, a)) + (IF label \in Active THEN Extra(c, a)' ELSE 0)
  PROVE  HistoryInv'
<1>1. /\ \A d \in Commands \ {c} : pc'[d] = pc[d] /\ (d \in InFlight' <=> d \in InFlight)
      /\ c \in InFlight' <=> label \in Active
      /\ InFlight' \subseteq Commands
  BY DEF InFlight, TypeOK
<1>2. \A a : Logs(a)' = Logs(a) /\ Logs(a) \in Nat
  BY LoggedStays, LogsType DEF Logs
<1>3. \A a \in KeysOf(c) : Extra(c, a) \in {0, 1} /\ Extra(c, a)' \in {0, 1}
  BY DEF Extra
<1>4. ASSUME NEW a \in KeysOf(c), c \in InFlight
      PROVE  history'[a] = Logs(a)' + (IF label \in Active THEN Extra(c, a)' ELSE 0)
  <2>1. history[a] = Logs(a) + Extra(c, a)
    BY <1>4 DEF HistoryInv
  <2>2. history'[a] = (history[a] - Extra(c, a)) + (IF label \in Active THEN Extra(c, a)' ELSE 0)
    BY <1>4
  <2>. QED  BY <1>2, <1>3, <2>1, <2>2
<1>5. ASSUME NEW a \in KeysOf(c), c \notin InFlight, Free(a)
      PROVE  history'[a] = Logs(a)' + 0
  BY <1>2, <1>5, KeyFacts DEF HistoryInv
<1>6. ASSUME NEW a \in Aggregates, Free(a)' PROVE history'[a] = Logs(a)'
  <2>1. CASE a \in KeysOf(c)
    <3>1. label \notin Active
      BY <1>1, <1>6, <2>1 DEF Free, KeysOf, AggsOf
    <3>2. CASE c \in InFlight
      BY <1>2, <1>4, <2>1, <3>1, <3>2
    <3>3. CASE c \notin InFlight
      <4>1. Free(a)
        BY <1>1, <1>6, <3>3 DEF Free, KeysOf, AggsOf, InFlight
      <4>. QED  BY <1>2, <1>5, <2>1, <3>3, <4>1
    <3>. QED  BY <3>2, <3>3
  <2>2. CASE a \notin KeysOf(c)
    <3>1. Free(a)
      BY <1>1, <1>6, <2>2 DEF Free, KeysOf, AggsOf, InFlight
    <3>. QED  BY <1>2, <2>2, <3>1 DEF HistoryInv
  <2>. QED  BY <2>1, <2>2
<1>7. ASSUME NEW d \in InFlight', NEW a \in KeysOf(d) PROVE history'[a] = Logs(a)' + Extra(d, a)'
  <2>1. CASE d = c /\ c \in InFlight
    BY <1>1, <1>4, <1>7, <2>1
  <2>2. CASE d = c /\ c \notin InFlight
    <3>1. Free(a)
      BY <1>1, <1>7, <2>2, KeyFacts DEF Free, InFlight
    <3>. QED  BY <1>5, <1>7, <2>2, <3>1
  <2>3. CASE d # c
    <3>1. d \in InFlight /\ d \in Commands
      BY <1>1, <2>3
    <3>2. c \in InFlight => AggsOf(c) \cap AggsOf(d) = {}
      BY <2>3, <3>1 DEF SerialInv, Apart
    <3>3. history'[a] = history[a]
      BY <3>1, <3>2, KeyFacts
    <3>4. Extra(d, a)' = Extra(d, a)
      BY <1>1, <2>3, <3>1 DEF Extra
    <3>. QED  BY <1>2, <3>1, <3>3, <3>4 DEF HistoryInv
  <2>. QED  BY <2>1, <2>2, <2>3
<1>8. \A d \in InFlight' : KeysOf(d)' = KeysOf(d)
  BY DEF KeysOf, AggsOf
<1>. QED  BY <1>6, <1>7, <1>8 DEF HistoryInv


\* Steps that write no history and have none of their own before or after.
LEMMA HistoryIdle ==
  ASSUME TypeOK, FiniteLog, SerialInv, HistoryInv, NEW c \in Commands, NEW label,
         pc' = [pc EXCEPT ![c] = label], pc[c] \in Active, UNCHANGED <<log, history>>,
         \A d \in Commands \ {c} : prepared'[d] = prepared[d] /\ written'[d] = written[d],
         \A a \in KeysOf(c) : Extra(c, a) = IF label \in Active THEN Extra(c, a)' ELSE 0
  PROVE  HistoryInv'
<1>1. c \in InFlight
  BY DEF InFlight
<1>2. \A a \in Aggregates : history[a] \in Nat
  BY DEF TypeOK
<1>3. ASSUME NEW a \in KeysOf(c)
      PROVE  history'[a] = (history[a] - Extra(c, a)) + (IF label \in Active THEN Extra(c, a)' ELSE 0)
  <2>1. Extra(c, a) \in {0, 1} /\ history[a] \in Nat
    BY <1>2, KeyFacts DEF Extra
  <2>2. (IF label \in Active THEN Extra(c, a)' ELSE 0) = Extra(c, a)
    OBVIOUS
  <2>. QED  BY <2>1, <2>2
<1>. QED  BY <1>1, <1>3, HistoryLocal

LEMMA HistoryRead ==
  ASSUME TypeOK, FiniteLog, SerialInv, HistoryInv, NEW c \in Commands,
         \/ PlanProbe(c) \/ PlanFetch(c) \/ PlanDone(c)
         \/ PrepareProbe(c) \/ PrepareFetch(c) \/ PrepareDone(c)
  PROVE  HistoryInv'
<1>1. pc[c] \in Reading /\ pc[c] \in Active /\ written[c] = 0 /\ UNCHANGED <<log, history>>
  <2>1. pc[c] \in Reading /\ pc[c] \in Active /\ UNCHANGED <<log, history>>
    BY DEF PlanProbe, PlanFetch, PlanDone, PrepareProbe, PrepareFetch, PrepareDone, Reading, Active
  <2>. QED  BY <2>1, ActiveFacts
<1>2. PICK label \in Reading \cup {"writing", "rejected"} :
        /\ pc' = [pc EXCEPT ![c] = label] /\ (label # "rejected" => UNCHANGED written)
        /\ \A d \in Commands \ {c} : prepared'[d] = prepared[d] /\ written'[d] = written[d]
  <2>1. CASE PlanProbe(c)
    <3>1. pc' = [pc EXCEPT ![c] = "planning"] \/ pc' = [pc EXCEPT ![c] = "fetching"]
      BY <2>1 DEF PlanProbe, Goto, TypeOK
    <3>. QED  BY <2>1, <3>1 DEF PlanProbe, Reading
  <2>2. CASE PlanFetch(c)
    <3>1. \/ pc' = [pc EXCEPT ![c] = "planning"] /\ UNCHANGED <<prepared, written>>
          \/ Answer(c, "rejected")
      BY <2>2 DEF PlanFetch, Goto
    <3>2. CASE Answer(c, "rejected")
      BY <3>2 DEF Answer, Goto, TypeOK
    <3>. QED  BY <3>1, <3>2 DEF Reading
  <2>3. CASE PlanDone(c)
    BY <2>3 DEF PlanDone, Goto, Reading
  <2>4. CASE PrepareProbe(c)
    <3>1. pc' = [pc EXCEPT ![c] = "preparing"] \/ pc' = [pc EXCEPT ![c] = "loading"]
      BY <2>4 DEF PrepareProbe, Goto, TypeOK
    <3>2. UNCHANGED written /\ \A d \in Commands \ {c} : prepared'[d] = prepared[d]
      BY <2>4 DEF PrepareProbe, TypeOK
    <3>. QED  BY <3>1, <3>2 DEF Reading
  <2>5. CASE PrepareFetch(c)
    <3>1. UNCHANGED written /\ \A d \in Commands \ {c} : prepared'[d] = prepared[d]
      BY <2>5 DEF PrepareFetch, TypeOK
    <3>. QED  BY <2>5, <3>1 DEF PrepareFetch, Goto, Reading
  <2>6. CASE PrepareDone(c)
    BY <2>6 DEF PrepareDone, Goto
  <2>. QED  BY <2>1, <2>2, <2>3, <2>4, <2>5, <2>6
<1>3. pc'[c] = label
  BY <1>2 DEF TypeOK
<1>4. ASSUME NEW a \in KeysOf(c) PROVE Extra(c, a) = 0 /\ (label \in Active => Extra(c, a)' = 0)
  <2>1. label \in Active => written'[c] = 0
    BY <1>1, <1>2 DEF Active
  <2>2. pc[c] \notin Holding \cup {"rollingBack"} /\ label # "rollingBack"
    BY <1>1 DEF Reading, Holding
  <2>. QED  BY <1>3, <2>1, <2>2 DEF Extra
<1>5. \A a \in KeysOf(c) : Extra(c, a) = IF label \in Active THEN Extra(c, a)' ELSE 0
  BY <1>4
<1>. QED  BY <1>1, <1>2, <1>5, HistoryIdle

LEMMA HistoryWrite ==
  ASSUME Serial, OnePerKey, TypeOK, FiniteLog, PlanInv, SerialInv, HistoryInv, NEW c \in Commands,
         SetState(c) \/ WriteDone(c) \/ Stamp(c) \/ AppendFails(c)
  PROVE  HistoryInv'
<1>1. /\ pc[c] \in Holding /\ pc[c] \in Active /\ Len(plan[c]) = Len(Batch[c]) /\ c \in InFlight
      /\ UNCHANGED <<log, plan, prepared>>
  BY DEF SetState, WriteDone, Stamp, AppendFails, Serial, Holding, Active, PlanInv, Planned, InFlight
<1>2. CASE SetState(c)
  <2>. DEFINE i == written[c] + 1
              b == Batch[c][i].agg
  <2>1. /\ pc[c] = "writing" /\ pc' = [pc EXCEPT ![c] = "writing"] /\ written[c] < Len(Batch[c])
        /\ written' = [written EXCEPT ![c] = @ + 1]
        /\ IF plan[c][i].to = NoState THEN UNCHANGED history
           ELSE history' = [history EXCEPT ![b] = @ + 1]
    BY <1>2 DEF SetState, TypeOK
  <2>2. written[c] \in Nat /\ i \in 1..Len(Batch[c]) /\ written'[c] = i /\ pc'[c] = "writing"
    BY <2>1, BatchFacts DEF TypeOK
  <2>3. LegalRow(Batch[c][i], plan[c][i])
    BY <1>1, <2>2 DEF PlanInv
  <2>4. b \in Aggregates /\ (plan[c][i].to # NoState <=> b \in KeysOf(c))
    BY <2>2, <2>3, KeyFacts, BatchFacts DEF LegalRow
  <2>5. \A a \in Aggregates : /\ history[a] \in Nat
                              /\ history'[a] = IF a = b /\ b \in KeysOf(c) THEN history[a] + 1 ELSE history[a]
    BY <2>1, <2>4 DEF TypeOK
  <2>6. ASSUME NEW a \in KeysOf(c)
        PROVE  history'[a] = (history[a] - Extra(c, a)) + Extra(c, a)'
    <3>1. a \in Aggregates /\ a \in Managed
      BY KeyFacts
    <3>2. CASE a = b
      <4>1. Extra(c, a)' = 1
        BY <1>1, <2>1, <2>2, <3>2 DEF Extra
      <4>2. Extra(c, a) = 0
        <5>. SUFFICES ASSUME NEW j \in 1..written[c], Batch[c][j].agg = a PROVE FALSE
          BY <2>1 DEF Extra
        <5>1. j \in 1..Len(Batch[c]) /\ j # i
          BY <2>1, <2>2, BatchFacts
        <5>. QED  BY <2>2, <3>1, <3>2, <5>1 DEF OnePerKey
      <4>. QED  BY <2>5, <3>1, <3>2, <4>1, <4>2
    <3>3. CASE a # b
      <4>1. (\E j \in 1..i : Batch[c][j].agg = a) <=> (\E j \in 1..written[c] : Batch[c][j].agg = a)
        <5>1. \A j \in 1..i : j \in 1..written[c] \/ j = i
          BY <2>2
        <5>2. \A j \in 1..written[c] : j \in 1..i
          BY <2>2
        <5>. QED  BY <3>3, <5>1, <5>2
      <4>2. Extra(c, a)' = Extra(c, a) /\ Extra(c, a) \in {0, 1}
        BY <1>1, <2>1, <2>2, <4>1 DEF Extra, Holding
      <4>. QED  BY <2>5, <3>1, <3>3, <4>2
    <3>. QED  BY <3>2, <3>3
  <2>7. \A a \in Aggregates \ KeysOf(c) : history'[a] = history[a]
    BY <2>5
  <2>8. \A d \in Commands \ {c} : prepared'[d] = prepared[d] /\ written'[d] = written[d]
    BY <1>1, <2>1 DEF TypeOK
  <2>. QED  BY <1>1, <2>1, <2>6, <2>7, <2>8, HistoryLocal DEF Active
<1>3. CASE WriteDone(c) \/ Stamp(c)
  <2>1. PICK label \in {"appending", "stamped"} :
          pc' = [pc EXCEPT ![c] = label] /\ UNCHANGED <<history, written>>
    BY <1>3 DEF WriteDone, Stamp, Goto
  <2>2. pc'[c] = label /\ label \in Holding /\ label \in Active
    BY <2>1 DEF TypeOK, Holding, Active
  <2>3. \A a \in KeysOf(c) : Extra(c, a)' = Extra(c, a)
    BY <1>1, <2>1, <2>2 DEF Extra, Holding
  <2>. QED  BY <1>1, <2>1, <2>2, <2>3, HistoryIdle
<1>4. CASE AppendFails(c)
  <2>1. pc[c] = "stamped" /\ pc' = [pc EXCEPT ![c] = "rollingBack"] /\ UNCHANGED <<history, written>>
    BY <1>4 DEF AppendFails, Goto, Serial
  <2>2. pc'[c] = "rollingBack" /\ written[c] = Len(Batch[c])
    BY <2>1 DEF TypeOK, SerialInv, CommandInv
  <2>3. ASSUME NEW a \in KeysOf(c) PROVE Extra(c, a) = 1 /\ Extra(c, a)' = 1
    <3>1. prepared[c][a] # Unread
      BY <1>1, ActiveFacts DEF WriteInv
    <3>. QED  BY <1>1, <2>2, <3>1, KeyFacts DEF Extra
  <2>4. \A a \in KeysOf(c) : Extra(c, a) = IF "rollingBack" \in Active THEN Extra(c, a)' ELSE 0
    BY <2>3 DEF Active
  <2>. QED  BY <1>1, <2>1, <2>4, HistoryIdle
<1>. QED  BY <1>2, <1>3, <1>4

LEMMA HistoryEnd ==
  ASSUME TypeOK, FiniteLog, SerialInv, HistoryInv, NEW c \in Commands,
         Rollback(c) \/ RollbackDone(c) \/ Reply(c)
  PROVE  HistoryInv'
<1>1. CASE Rollback(c)
  <2>1. PICK i \in 1..Len(Batch[c]) :
           LET a == Batch[c][i].agg
           IN  /\ prepared[c][a] # Unread
               /\ history' = [history EXCEPT ![a] = IF @ = 0 THEN 0 ELSE @ - 1]
               /\ prepared' = [prepared EXCEPT ![c][a] = Unread]
               /\ pc[c] = "rollingBack" /\ UNCHANGED <<pc, log, written>>
    BY <1>1 DEF Rollback, LastKey
  <2>. DEFINE b == Batch[c][i].agg
  <2>2. c \in InFlight /\ pc' = [pc EXCEPT ![c] = "rollingBack"] /\ pc[c] \in Active
    BY <2>1 DEF InFlight, Active, TypeOK
  <2>3. b \in KeysOf(c) /\ b \in Aggregates
    BY <2>1, <2>2, ActiveFacts, BatchFacts
  <2>4. history[b] = Logs(b) + 1 /\ Logs(b) \in Nat
    BY <2>1, <2>2, <2>3, LogsType DEF HistoryInv, Extra
  <2>5. \A a \in Aggregates : /\ history[a] \in Nat
                              /\ history'[a] = IF a = b THEN history[a] - 1 ELSE history[a]
    BY <2>1, <2>3, <2>4 DEF TypeOK
  <2>6. \A a \in Aggregates : prepared'[c][a] = IF a = b THEN Unread ELSE prepared[c][a]
    BY <2>1, <2>3 DEF TypeOK
  <2>7. ASSUME NEW a \in KeysOf(c)
        PROVE  history'[a] = (history[a] - Extra(c, a)) + Extra(c, a)'
    <3>1. a \in Aggregates /\ pc[c] \notin Holding
      BY <2>1, KeyFacts DEF Holding
    <3>2. Extra(c, a)' = IF a = b THEN 0 ELSE Extra(c, a)
      BY <2>1, <2>6, <3>1 DEF Extra
    <3>3. Extra(c, b) = 1 /\ Extra(c, a) \in {0, 1}
      BY <2>1 DEF Extra
    <3>. QED  BY <2>5, <3>1, <3>2, <3>3
  <2>8. /\ \A a \in Aggregates \ KeysOf(c) : history'[a] = history[a]
        /\ \A d \in Commands \ {c} : prepared'[d] = prepared[d] /\ written'[d] = written[d]
    BY <2>1, <2>3, <2>5 DEF TypeOK
  <2>9. \A a \in KeysOf(c) :
          history'[a] = (history[a] - Extra(c, a)) + (IF "rollingBack" \in Active THEN Extra(c, a)' ELSE 0)
    BY <2>7 DEF Active
  <2>. QED  BY <2>1, <2>2, <2>8, <2>9, HistoryLocal
<1>2. CASE RollbackDone(c) \/ Reply(c)
  <2>1. PICK label \in {"failed", "accepted"} : Answer(c, label) /\ UNCHANGED <<log, history>>
    BY <1>2 DEF RollbackDone, Reply
  <2>2. /\ pc' = [pc EXCEPT ![c] = label] /\ pc[c] \in Active /\ label \notin Active
        /\ \A d \in Commands \ {c} : prepared'[d] = prepared[d] /\ written'[d] = written[d]
    BY <1>2, <2>1 DEF Answer, Goto, RollbackDone, Reply, Active, TypeOK
  <2>3. \A a \in KeysOf(c) : Extra(c, a) = 0
    BY <1>2 DEF RollbackDone, Reply, Extra, Holding
  <2>. QED  BY <2>1, <2>2, <2>3, HistoryIdle
<1>. QED  BY <1>1, <1>2

LEMMA HistoryCommit ==
  ASSUME OnePerKey, TypeOK, FiniteLog, PlanInv, SerialInv, HistoryInv, NEW c \in Commands, Commit(c)
  PROVE  HistoryInv'
<1>1. /\ pc[c] = "stamped" /\ pc[c] \in Active /\ c \in InFlight /\ written[c] = Len(Batch[c])
      /\ pc'[c] = "committed" /\ \A d \in Commands \ {c} : pc'[d] = pc[d]
      /\ UNCHANGED <<history, prepared, written>>
  BY DEF Commit, Active, InFlight, Goto, TypeOK, SerialInv, CommandInv
<1>2. InFlight' = InFlight
  BY <1>1 DEF InFlight, Active
<1>3. ASSUME NEW a \in Aggregates \ KeysOf(c) PROVE Logs(a)' = Logs(a)
  BY CommitRows DEF Logs
<1>4. ASSUME NEW a \in KeysOf(c) PROVE Logs(a)' = Logs(a) + 1
  <2>1. /\ TransitionsOf(a)' = TransitionsOf(a) \cup RowsOn(c, a) /\ RowsOn(c, a) # {}
        /\ \A e \in TransitionsOf(a) : e.ts < stamp[c]
        /\ \A e \in RowsOn(c, a) : e.ts = stamp[c]
    BY CommitRows
  <2>2. PICK e \in RowsOn(c, a) : TRUE
    BY <2>1
  <2>3. ASSUME NEW f \in RowsOn(c, a) PROVE f = e
    <3>1. PICK i \in 1..Len(Batch[c]) :
            /\ Batch[c][i].agg = a
            /\ e = [cmd |-> c, pos |-> i, agg |-> Batch[c][i].agg,
                    from |-> plan[c][i].from, to |-> plan[c][i].to, ts |-> stamp[c]]
      BY DEF RowsOn, NewEvents
    <3>2. PICK j \in 1..Len(Batch[c]) :
            /\ Batch[c][j].agg = a
            /\ f = [cmd |-> c, pos |-> j, agg |-> Batch[c][j].agg,
                    from |-> plan[c][j].from, to |-> plan[c][j].to, ts |-> stamp[c]]
      BY DEF RowsOn, NewEvents
    <3>3. i = j
      BY <3>1, <3>2, KeyFacts DEF OnePerKey
    <3>. QED  BY <3>1, <3>2, <3>3
  <2>4. e \notin TransitionsOf(a)
    <3>1. stamp[c] \in Nat
      BY DEF TypeOK
    <3>. QED  BY <2>1, <2>2, <3>1
  <2>5. TransitionsOf(a)' = TransitionsOf(a) \cup {e}
    BY <2>1, <2>2, <2>3
  <2>. QED  BY <2>4, <2>5, LogsType, FS_AddElement DEF Logs
<1>5. ASSUME NEW a \in Aggregates, Free(a)' PROVE history'[a] = Logs(a)'
  <2>1. Free(a) /\ a \notin KeysOf(c)
    BY <1>1, <1>2, <1>5 DEF Free, KeysOf, AggsOf
  <2>. QED  BY <1>1, <1>3, <2>1 DEF HistoryInv
<1>6. ASSUME NEW d \in InFlight', NEW a \in KeysOf(d)' PROVE history'[a] = Logs(a)' + Extra(d, a)'
  <2>1. d \in InFlight /\ d \in Commands /\ a \in KeysOf(d) /\ a \in Aggregates
    BY <1>2, <1>6, KeyFacts DEF InFlight, KeysOf, AggsOf
  <2>2. history[a] = Logs(a) + Extra(d, a)
    BY <2>1 DEF HistoryInv
  <2>3. CASE d = c
    <3>1. Extra(c, a) = 1 /\ Extra(c, a)' = 0
      BY <1>1, <2>1, <2>3, KeyFacts DEF Extra, Holding
    <3>2. Logs(a)' = Logs(a) + 1 /\ Logs(a) \in Nat
      BY <1>4, <2>1, <2>3, LogsType
    <3>. QED  BY <1>1, <2>2, <2>3, <3>1, <3>2
  <2>4. CASE d # c
    <3>1. a \notin KeysOf(c)
      BY <1>1, <2>1, <2>4, KeyFacts DEF SerialInv, Apart
    <3>2. Extra(d, a)' = Extra(d, a)
      BY <1>1, <2>1, <2>4 DEF Extra
    <3>. QED  BY <1>1, <1>3, <2>1, <2>2, <3>1, <3>2
  <2>. QED  BY <2>3, <2>4
<1>. QED  BY <1>5, <1>6 DEF HistoryInv

(***************************************************************************)
(* Under the same conditions, and with one event of a batch per key, the   *)
(* registry's history of a settled key has one record per transition of    *)
(* the log, whatever was rolled back: the log is one chain and the history *)
(* counts it.                                                              *)
(***************************************************************************)
THEOREM LogAndHistoryAgree == Serial /\ OnePerKey => (Spec => []LogIsOneChain)
<1>. SUFFICES ASSUME Serial, OnePerKey PROVE Spec => []LogIsOneChain
  OBVIOUS
<1>0. OneTarget
  BY DEF OnePerKey, OneTarget
<1>1. Init => HistoryInv
  <2>. SUFFICES ASSUME Init PROVE HistoryInv
    OBVIOUS
  <2>1. \A a \in Aggregates : history[a] = 0 /\ Logs(a) = 0
    BY FS_EmptySet DEF Init, Logs, TransitionsOf
  <2>2. InFlight = {}
    BY DEF Init, InFlight, Active
  <2>. QED  BY <2>1, <2>2 DEF HistoryInv
<1>2. TypeOK /\ FiniteLog /\ PlanInv /\ SerialInv /\ HistoryInv /\ [Next]_vars => HistoryInv'
  <2>. SUFFICES ASSUME TypeOK, FiniteLog, PlanInv, SerialInv, HistoryInv, [Next]_vars PROVE HistoryInv'
    OBVIOUS
  <2>1. CASE UNCHANGED vars
    <3>1. UNCHANGED <<log, history, pc, prepared, written>>
      BY <2>1 DEF vars
    <3>2. InFlight' = InFlight /\ \A a : (Free(a)' <=> Free(a)) /\ Logs(a)' = Logs(a)
      BY <3>1 DEF Free, InFlight, AggsOf, KeysOf, Logs, TransitionsOf
    <3>3. \A c, a : Extra(c, a)' = Extra(c, a)
      BY <3>1 DEF Extra
    <3>. QED  BY <3>1, <3>2, <3>3 DEF HistoryInv, KeysOf, AggsOf
  <2>2. ASSUME NEW c \in Commands, Admit(c) \/ Refuse(c) PROVE HistoryInv'
    <3>1. PICK label \in {"planning", "rejected"} :
            /\ pc' = [pc EXCEPT ![c] = label] /\ UNCHANGED <<log, history, prepared, written>>
            /\ label = "planning" => \A d \in InFlight : AggsOf(c) \cap AggsOf(d) = {}
      BY <2>2 DEF Admit, Refuse, Goto, Serial
    <3>2. c \notin InFlight /\ pc'[c] = label
      BY <2>2, <3>1 DEF Admit, Refuse, InFlight, Active, TypeOK
    <3>3. \A a \in KeysOf(c) : Extra(c, a)' = 0
      BY <3>2 DEF Extra, Holding
    <3>4. label \in Active => label = "planning"
      BY DEF Active
    <3>. QED  BY <3>1, <3>2, <3>3, <3>4, HistoryLocal
  <2>3. ASSUME NEW c \in Commands, Step(c) PROVE HistoryInv'
    BY <2>3, HistoryRead, HistoryWrite, HistoryEnd, HistoryCommit DEF Step
  <2>4. CASE Restart
    <3>1. /\ InFlight' = {} /\ UNCHANGED log
          /\ history' = [a \in Aggregates |-> Cardinality(TransitionsOf(a))]
      BY <2>4 DEF Restart, InFlight, Active
    <3>2. \A a : Logs(a)' = Logs(a)
      BY <3>1 DEF Logs, TransitionsOf
    <3>. QED  BY <3>1, <3>2 DEF HistoryInv, Logs
  <2>. QED  BY <2>1, <2>2, <2>3, <2>4 DEF Next
<1>3. HistoryInv => HistoryMatchesLog
  BY DEF HistoryInv, HistoryMatchesLog, Free, Logs
<1>. QED  BY <1>0, <1>1, <1>2, <1>3, ChainInvariant, SerialInvariant, PlanInvariant,
            FiniteLogInvariant, PTL DEF Spec, LogIsOneChain


-----------------------------------------------------------------------------
(***************************************************************************)
(* The write path implements AtomicCommand: its commit is the instant at   *)
(* which the command takes effect, its answer the answer, and all else a   *)
(* stutter.                                                                *)
(***************************************************************************)
LEMMA LoggedType ==
  ASSUME TypeOK, SerialInv, NEW a \in Aggregates
  PROVE  Logged(a) \in StateOrNone /\ LoggedState[a] = Logged(a)
<1>1. CASE TransitionsOf(a) = {}
  BY <1>1 DEF Logged, LoggedState, StateOrNone
<1>2. CASE TransitionsOf(a) # {}
  <2>1. (CHOOSE e \in Latest(a) : TRUE) \in Latest(a)
    BY <1>2 DEF SerialInv, LogInv
  <2>2. (CHOOSE e \in Latest(a) : TRUE) \in log
    BY <2>1 DEF Latest, TransitionsOf
  <2>. QED  BY <1>2, <2>2 DEF Logged, LoggedState, TypeOK
<1>. QED  BY <1>1, <1>2

LEMMA CommitIsExecute ==
  ASSUME TypeOK, PlanInv, SerialInv, SerialInv', TypeOK', NEW c \in Commands, AnswerInv(c), Commit(c),
         Len(Batch[c]) # 0
  PROVE  Atomic!Execute(c)
<1>1. /\ pc[c] = "stamped" /\ pc[c] \in Active /\ log' = log \cup NewEvents(c)
      /\ pc' = [pc EXCEPT ![c] = "committed"] /\ Len(plan[c]) = Len(Batch[c]) /\ written[c] = Len(Batch[c])
  BY DEF Commit, Active, Goto, PlanInv, Planned, SerialInv, CommandInv
<1>2. c \notin {e.cmd : e \in log}
  BY <1>1 DEF AnswerInv, Durable, Positions
<1>3. ToldCaller[c] = "none" /\ UNCHANGED ToldCaller
  BY <1>1 DEF ToldCaller, TypeOK
<1>4. {e.cmd : e \in log'} = {e.cmd : e \in log} \cup {c}
  <2>1. \A e \in NewEvents(c) : e.cmd = c
    BY DEF NewEvents
  <2>2. NewEvents(c) # {}
    <3>1. 1 \in 1..Len(Batch[c])
      BY BatchFacts
    <3>2. [cmd |-> c, pos |-> 1, agg |-> Batch[c][1].agg,
           from |-> plan[c][1].from, to |-> plan[c][1].to, ts |-> stamp[c]] \in NewEvents(c)
      BY <3>1 DEF NewEvents
    <3>. QED  BY <3>2
  <2>. QED  BY <1>1, <2>1, <2>2
<1>5. \A a \in Aggregates : /\ LoggedState[a] = Logged(a) /\ LoggedState'[a] = Logged(a)'
                            /\ Logged(a)' \in StateOrNone
  <2>1. \A a \in Aggregates : LoggedState[a] = Logged(a)
    BY LoggedType
  <2>2. \A a \in Aggregates : LoggedState'[a] = Logged(a)' /\ Logged(a)' \in StateOrNone
    <3>. SUFFICES ASSUME NEW a \in Aggregates PROVE LoggedState'[a] = Logged(a)' /\ Logged(a)' \in StateOrNone
      OBVIOUS
    <3>1. LoggedState'[a] = Logged(a)'
      BY DEF LoggedState, Logged
    <3>2. CASE a \in KeysOf(c)
      <4>1. /\ Latest(a)' # {} /\ \A e \in Latest(a)' : e.to = registry[a]
            /\ TransitionsOf(a)' # {}
        BY <3>2, CommitRows
      <4>2. Logged(a)' = registry[a]
        BY <4>1 DEF Logged
      <4>. QED  BY <3>1, <4>2 DEF TypeOK
    <3>3. CASE a \notin KeysOf(c)
      <4>1. TransitionsOf(a)' = TransitionsOf(a)
        BY <3>3, CommitRows
      <4>2. Logged(a)' = Logged(a)
        BY <4>1 DEF Logged, Latest
      <4>. QED  BY <3>1, <4>2, LoggedType
    <3>. QED  BY <3>2, <3>3
  <2>. QED  BY <2>1, <2>2
<1>6. LoggedState' \in [Aggregates -> States \cup {NoState}]
  BY <1>5 DEF LoggedState, StateOrNone
<1>7. ASSUME NEW a \in Aggregates
      PROVE  IF a \in Managed /\ Atomic!EventsOn(c, a) # {}
             THEN /\ \A ev \in Atomic!EventsOn(c, a) : Atomic!Targets(a, LoggedState[a], ev) # {}
                  /\ \E ev \in Atomic!EventsOn(c, a) : LoggedState'[a] \in Atomic!Targets(a, LoggedState[a], ev)
             ELSE LoggedState'[a] = LoggedState[a]
  <2>1. CASE a \notin KeysOf(c)
    <3>1. TransitionsOf(a)' = TransitionsOf(a)
      BY <2>1, CommitRows
    <3>2. LoggedState'[a] = LoggedState[a]
      BY <1>5, <3>1 DEF Logged, Latest
    <3>3. ~(a \in Managed /\ Atomic!EventsOn(c, a) # {})
      BY <2>1, KeyFacts DEF Atomic!EventsOn
    <3>. QED  BY <3>2, <3>3
  <2>2. CASE a \in KeysOf(c)
    <3>1. /\ Latest(a)' # {} /\ \A e \in Latest(a)' : e.to = registry[a]
          /\ TransitionsOf(a)' # {}
      BY <2>2, CommitRows
    <3>2. Logged(a)' = registry[a] /\ a \in Managed
      BY <2>2, <3>1, KeyFacts DEF Logged
    <3>3. ReadInv(c, a) /\ WriteInv(c, a)
      BY <1>1, <2>2, ActiveFacts
    <3>4. ASSUME NEW i \in 1..Len(Batch[c]), Batch[c][i].agg = a
          PROVE  registry[a] \in Atomic!Targets(a, Logged(a), Batch[c][i].event)
      <4>1. LegalRow(Batch[c][i], plan[c][i]) /\ plan[c][i].from = Logged(a) /\ registry[a] = plan[c][i].to
        BY <1>1, <3>3, <3>4 DEF PlanInv, ReadInv, WriteInv, Holding
      <4>2. CASE Logged(a) = NoState
        BY <3>2, <3>4, <4>1, <4>2, BatchFacts DEF LegalRow, Atomic!Targets
      <4>3. CASE Logged(a) # NoState
        <5>1. /\ Matching(a, Logged(a), Batch[c][i].event) # {}
              /\ registry[a] = Target(a, Logged(a), Batch[c][i].event)
          BY <3>2, <3>4, <4>1, <4>3 DEF LegalRow
        <5>2. PICK t \in Matching(a, Logged(a), Batch[c][i].event) : registry[a] = t.to
          BY <5>1 DEF Target
        <5>. QED  BY <4>3, <5>2 DEF Atomic!Targets, Matching
      <4>. QED  BY <4>2, <4>3
    <3>5. \A ev \in Atomic!EventsOn(c, a) : registry[a] \in Atomic!Targets(a, Logged(a), ev)
      BY <3>4 DEF Atomic!EventsOn
    <3>6. Atomic!EventsOn(c, a) # {}
      <4>1. PICK i \in 1..Len(Batch[c]) : Batch[c][i].agg = a
        BY <2>2, KeyFacts
      <4>2. Batch[c][i].event \in Atomic!EventsOn(c, a)
        BY <4>1 DEF Atomic!EventsOn
      <4>. QED  BY <4>2
    <3>. QED  BY <1>5, <3>2, <3>5, <3>6
  <2>. QED  BY <2>1, <2>2
<1>. QED  BY <1>2, <1>3, <1>4, <1>6, <1>7 DEF Atomic!Execute

\* What the caller was told, after a step that sets one pc.
LEMMA Told ==
  ASSUME TypeOK, NEW c \in Commands, NEW label, pc' = [pc EXCEPT ![c] = label]
  PROVE  ToldCaller' = [ToldCaller EXCEPT ![c] =
           CASE label = "accepted" -> "accepted" [] label \in {"rejected", "failed"} -> "rejected" [] OTHER -> "none"]
BY DEF ToldCaller, TypeOK

LEMMA StepIsAtomic ==
  ASSUME Serial, TypeOK, PlanInv, SerialInv, SerialInv', TypeOK', \A c \in Commands : AnswerInv(c), Next
  PROVE  [Atomic!Next]_(Atomic!vars)
<1>1. ASSUME UNCHANGED <<log, ToldCaller>> PROVE UNCHANGED Atomic!vars
  BY <1>1, LoggedStays DEF Atomic!vars, LoggedState, TransitionsOf, Latest
<1>2. ASSUME NEW c \in Commands, Admit(c) \/ Refuse(c) \/ Step(c) PROVE [Atomic!Next]_(Atomic!vars)
  <2>1. CASE Commit(c)
    <3>1. CASE Len(Batch[c]) = 0
      <4>1. log' = log
        BY <2>1, <3>1 DEF Commit, NewEvents
      <4>2. UNCHANGED ToldCaller
        BY <2>1 DEF Commit, Goto, ToldCaller, TypeOK
      <4>. QED  BY <1>1, <4>1, <4>2
    <3>2. CASE Len(Batch[c]) # 0
      BY <2>1, <3>2, CommitIsExecute DEF Atomic!Next
    <3>. QED  BY <3>1, <3>2
  <2>2. CASE Reply(c)
    <3>1. pc[c] = "committed" /\ pc' = [pc EXCEPT ![c] = "accepted"] /\ UNCHANGED log
      BY <2>2 DEF Reply, Answer, Goto
    <3>2. ToldCaller[c] = "none" /\ ToldCaller' = [ToldCaller EXCEPT ![c] = "accepted"]
      BY <3>1, Told DEF ToldCaller
    <3>3. c \in {e.cmd : e \in log} \/ Len(Batch[c]) = 0
      <4>1. Positions(c) = 1..Len(Batch[c]) /\ Len(Batch[c]) \in Nat
        BY <3>1, BatchFacts DEF AnswerInv, Durable
      <4>2. CASE Len(Batch[c]) # 0
        <5>1. 1 \in Positions(c)
          BY <4>1, <4>2
        <5>. QED  BY <5>1 DEF Positions
      <4>. QED  BY <4>2
    <3>4. UNCHANGED LoggedState /\ {e.cmd : e \in log'} = {e.cmd : e \in log}
      BY <3>1 DEF LoggedState, TransitionsOf, Latest
    <3>. QED  BY <3>2, <3>3, <3>4 DEF Atomic!Next, Atomic!Accept
  <2>3. ASSUME NEW label \in {"rejected", "failed"}, pc' = [pc EXCEPT ![c] = label], UNCHANGED log,
               pc[c] \notin Answered \cup Durable \cup {"lost"}
        PROVE  [Atomic!Next]_(Atomic!vars)
    <3>1. ToldCaller[c] = "none" /\ ToldCaller' = [ToldCaller EXCEPT ![c] = "rejected"]
      BY <2>3, Told DEF ToldCaller, Answered
    <3>2. c \notin {e.cmd : e \in log}
      BY <2>3 DEF AnswerInv, Positions
    <3>3. UNCHANGED LoggedState /\ {e.cmd : e \in log'} = {e.cmd : e \in log}
      BY <2>3 DEF LoggedState, TransitionsOf, Latest
    <3>. QED  BY <3>1, <3>2, <3>3 DEF Atomic!Next, Atomic!Reject
  <2>4. CASE Refuse(c) \/ (PlanFetch(c) /\ Answer(c, "rejected")) \/ RollbackDone(c)
    <3>1. PICK label \in {"rejected", "failed"} : pc' = [pc EXCEPT ![c] = label]
      BY <2>4 DEF Refuse, RollbackDone, Answer, Goto
    <3>2. UNCHANGED log /\ pc[c] \notin Answered \cup Durable \cup {"lost"}
      BY <2>4 DEF Refuse, PlanFetch, RollbackDone, Answered, Durable
    <3>. QED  BY <2>3, <3>1, <3>2
  <2>5. ASSUME NEW label \in Active, pc' = [pc EXCEPT ![c] = label], UNCHANGED log,
               pc[c] \notin Answered
        PROVE  [Atomic!Next]_(Atomic!vars)
    <3>1. UNCHANGED ToldCaller
      BY <2>5, Told DEF ToldCaller, Answered, Active, TypeOK
    <3>. QED  BY <1>1, <2>5, <3>1
  <2>6. CASE Admit(c) \/ PlanDone(c) \/ PrepareDone(c) \/ WriteDone(c) \/ Stamp(c) \/ AppendFails(c)
    <3>1. PICK label \in Active : pc' = [pc EXCEPT ![c] = label]
      BY <2>6 DEF Admit, PlanDone, PrepareDone, WriteDone, Stamp, AppendFails, Goto, Active
    <3>2. UNCHANGED log /\ pc[c] \notin Answered
      BY <2>6 DEF Admit, PlanDone, PrepareDone, WriteDone, Stamp, AppendFails, Answered
    <3>. QED  BY <2>5, <3>1, <3>2
  <2>7. CASE PlanProbe(c) \/ (PlanFetch(c) /\ ~Answer(c, "rejected")) \/ PrepareProbe(c) \/ PrepareFetch(c)
    <3>1. PICK label \in Active : pc' = [pc EXCEPT ![c] = label] \/ pc' = pc
      BY <2>7 DEF PlanProbe, PlanFetch, PrepareProbe, PrepareFetch, Goto, Active
    <3>2. UNCHANGED log /\ pc[c] \notin Answered
      BY <2>7 DEF PlanProbe, PlanFetch, PrepareProbe, PrepareFetch, Answered
    <3>3. pc' = pc => UNCHANGED ToldCaller
      BY DEF ToldCaller
    <3>. QED  BY <1>1, <2>5, <3>1, <3>2, <3>3
  <2>8. CASE SetState(c) \/ Rollback(c)
    <3>1. UNCHANGED <<log, pc>>
      BY <2>8 DEF SetState, Rollback
    <3>. QED  BY <1>1, <3>1 DEF ToldCaller
  <2>. QED  BY <1>2, <2>1, <2>2, <2>4, <2>6, <2>7, <2>8 DEF Step
<1>3. CASE Restart
  <2>1. UNCHANGED log /\ \A c \in Commands : pc'[c] = pc[c] \/ (pc[c] \in Active /\ pc'[c] = "lost")
    BY <1>3 DEF Restart
  <2>2. UNCHANGED ToldCaller
    BY <2>1, Zenon DEF ToldCaller, Active
  <2>. QED  BY <1>1, <2>1, <2>2
<1>. QED  BY <1>2, <1>3 DEF Next

(***************************************************************************)
(* Commands one at a time on an aggregate take effect at one instant, on   *)
(* all their aggregates or on none, and the caller is told which it was.   *)
(***************************************************************************)
THEOREM WritePathIsAtomic == Serial /\ OneTarget => (Spec => IsAtomic)
<1>. SUFFICES ASSUME Serial, OneTarget PROVE Spec => IsAtomic
  OBVIOUS
<1>1. Init => Atomic!Init
  <2>. SUFFICES ASSUME Init PROVE Atomic!Init
    OBVIOUS
  <2>1. LoggedState = [a \in Aggregates |-> NoState]
    BY DEF Init, LoggedState, TransitionsOf
  <2>2. {e.cmd : e \in log} = {}
    BY DEF Init
  <2>3. ToldCaller = [c \in Commands |-> "none"]
    BY DEF Init, ToldCaller
  <2>. QED  BY <2>1, <2>2, <2>3 DEF Atomic!Init
<1>2. /\ TypeOK /\ PlanInv /\ SerialInv /\ TypeOK' /\ SerialInv' /\ (\A c \in Commands : AnswerInv(c))
      /\ [Next]_vars
      => [Atomic!Next]_(Atomic!vars)
  <2>1. UNCHANGED vars => UNCHANGED Atomic!vars
    BY DEF vars, Atomic!vars, LoggedState, TransitionsOf, Latest, ToldCaller
  <2>. QED  BY <2>1, StepIsAtomic
<1>3. ~AckMayBeLost
  BY DEF Serial
<1>. QED  BY <1>1, <1>2, <1>3, SerialInvariant, PlanInvariant, AnswerInvariant, PTL
          DEF Spec, IsAtomic, Atomic!Spec
=============================================================================
