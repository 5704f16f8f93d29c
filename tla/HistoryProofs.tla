---------------------------- MODULE HistoryProofs ---------------------------
(***************************************************************************)
(* Theorems about the event store, for any events, batches and restarts,   *)
(* and about the sagas, for any plans and any setting of the faults:       *)
(* refused compensations, lost acknowledgements, a failing store, crashes. *)
(*                                                                         *)
(* The store: unless it could not load the file, the file is a prefix of   *)
(* the log; a call that has not been accepted has no event in either.      *)
(* From these two and the causes a batch was checked for, what the store   *)
(* shows and answers follows.                                              *)
(* The sagas: the invariant says how far each is: the completed steps are  *)
(* 1, 2, ..., k; going forward only later steps take effect and none is    *)
(* undone; compensating, what was undone comes after the steps left.       *)
(***************************************************************************)
EXTENDS History, ListsProofs

\* log begins with the events of old.
Begins(old, log) == Len(old) <= Len(log) /\ \A i \in 1..Len(old) : log[i] = old[i]

\* A batch is in the log in one piece, or none of it is.
Whole(log, r) ==
  \/ \A i \in 1..Len(Batch[r]) : \A j \in 1..Len(log) : log[j] # Batch[r][i]
  \/ \E n \in 0..Len(log) - Len(Batch[r]) : \A i \in 1..Len(Batch[r]) : log[n + i] = Batch[r][i]

Closed(log) ==
  \A i \in 2..Len(log) : Cause[log[i]] = Root \/ \E j \in 1..i - 1 : log[j] = Cause[log[i]]

\* What a call that was not accepted has left, and what an accepted batch has.
CallInv(r) ==
  /\ pc[r] # "accepted" =>
       \A i \in 1..Len(Batch[r]) : /\ Batch[r][i] \notin published
                                   /\ \A j \in 1..Len(mem.events) : mem.events[j] # Batch[r][i]
                                   /\ \A j \in 1..Len(file) : file[j] # Batch[r][i]
  /\ pc[r] = "accepted" /\ r \notin Single =>
       \A i \in 1..Len(Batch[r]) :
         \/ Batch[r][i] \in forgotten
         \/ \E j \in 1..Len(file) : file[j] = Batch[r][i]
  /\ pc[r] \in {"read", "checked"} => r \in Single
  /\ Whole(mem.events, r) /\ Whole(file, r)

LogInv ==
  /\ TypeOK
  /\ blind \/ Begins(file, mem.events)
  /\ IndexesMatchLog
  /\ \A r \in Requests : CallInv(r)
  /\ Closed(mem.events) /\ Closed(file)

-----------------------------------------------------------------------------
LEMMA BatchFacts ==
  ASSUME NEW r \in Requests
  PROVE  /\ Batch[r] \in Seq(Ids) /\ Len(Batch[r]) \in Nat \ {0} /\ The(r) \in Ids
         /\ r \in Single => Len(Batch[r]) = 1
         /\ \A q \in Requests : q # r =>
              \A i \in 1..Len(Batch[r]), j \in 1..Len(Batch[q]) : Batch[r][i] # Batch[q][j]
<1>1. Batch[r] \in Seq(Ids) /\ Batch[r] # <<>>
  BY EventLogAssumption DEF EventLogAssumption
<1>2. Len(Batch[r]) \in Nat \ {0}
  BY <1>1
<1>3. ASSUME NEW q \in Requests, q # r, NEW i \in 1..Len(Batch[r]), NEW j \in 1..Len(Batch[q])
      PROVE  Batch[r][i] # Batch[q][j]
  <2>1. Range(Batch[r]) \cap Range(Batch[q]) = {} /\ Batch[q] \in Seq(Ids)
    BY <1>3, EventLogAssumption DEF EventLogAssumption
  <2>2. Batch[r][i] \in Range(Batch[r]) /\ Batch[q][j] \in Range(Batch[q])
    BY <1>1, <2>1 DEF Range
  <2>. QED  BY <2>1, <2>2
<1>. QED  BY <1>1, <1>2, <1>3, EventLogAssumption DEF EventLogAssumption, The

LEMMA ConcatFacts ==
  ASSUME NEW s \in Seq(Ids), NEW t \in Seq(Ids)
  PROVE  /\ s \o t \in Seq(Ids) /\ Len(s) \in Nat /\ Len(t) \in Nat
         /\ Len(s \o t) = Len(s) + Len(t)
         /\ \A i \in 1..Len(s) : (s \o t)[i] = s[i]
         /\ \A i \in 1..Len(t) : (s \o t)[Len(s) + i] = t[i]
         /\ \A i \in 1..Len(s \o t) : i \in 1..Len(s) \/ (i - Len(s) \in 1..Len(t) /\ (s \o t)[i] = t[i - Len(s)])
OBVIOUS

-----------------------------------------------------------------------------
(***************************************************************************)
(* The three kinds of steps: events are added by a call that is thereby    *)
(* accepted; a call goes on, or fails, and leaves the log alone; a         *)
(* restart takes the log back to the file, or to nothing.                  *)
(***************************************************************************)
Adds(r) ==
  /\ pc[r] \in {"idle", "checked"} /\ pc' = [pc EXCEPT ![r] = "accepted"]
  /\ pc[r] = "checked" \/ r \notin Single
  /\ Caused(Batch[r]) /\ mem' = Commit(Batch[r])
  /\ published' = published \cup Range(Batch[r])
  /\ Persist(mem'.events) \/ (r \in Single /\ UNCHANGED disk)
  /\ UNCHANGED <<last, seen, booted, restarts>>

GoesOn(r) ==
  /\ pc[r] # "accepted"
  /\ \E l \in {"failed", "refused", "read", "checked"} :
       pc' = [pc EXCEPT ![r] = l] /\ (l \in {"read", "checked"} => r \in Single)
  /\ UNCHANGED <<mem, disk, published, booted, restarts>>
  /\ last' \in [Streams -> Nat] /\ seen' \in [Requests -> Nat]

LEMMA Steps ==
  ASSUME LogInv, Next
  PROVE  Restart \/ \E r \in Requests : Adds(r) \/ GoesOn(r)
<1>. SUFFICES ASSUME NEW r \in Requests, Step(r) PROVE Adds(r) \/ GoesOn(r)
  BY DEF Next
<1>0. /\ Number \in [Ids -> Nat] /\ Stream \in [Ids -> Streams] /\ The(r) \in Ids
      /\ last \in [Streams -> Nat] /\ seen \in [Requests -> Nat]
      /\ pc[r] \in {"read", "checked"} => r \in Single
  BY BatchFacts, EventLogAssumption DEF EventLogAssumption, LogInv, TypeOK, CallInv
<1>1. CASE AppendBatch(r)
  BY <1>0, <1>1 DEF AppendBatch, AppendManyAtomic, Publish, Goto, Adds, GoesOn
<1>2. CASE AppendInner(r)
  BY <1>0, <1>2 DEF AppendInner, AppendManyAtomic, Publish, Goto, Adds, GoesOn
<1>3. CASE Audit(r)
  BY <1>0, <1>3 DEF Audit, Goto, GoesOn
<1>4. CASE CheckOrder(r)
  BY <1>0, <1>4 DEF CheckOrder, Goto, GoesOn
<1>. QED  BY <1>1, <1>2, <1>3, <1>4 DEF Step

LEMMA Added ==
  ASSUME LogInv, NEW r \in Requests, Adds(r)
  PROVE  /\ mem'.events = mem.events \o Batch[r] /\ mem'.sequence = mem.sequence + Len(Batch[r])
         /\ mem'.index = [k \in Keys |-> mem.index[k] \o Filter(Batch[r], FiledUnder(k))]
         /\ pc'[r] = "accepted" /\ \A q \in Requests \ {r} : pc'[q] = pc[q]
BY DEF Adds, Commit, LogInv, TypeOK

LEMMA WholeStays ==
  ASSUME NEW s \in Seq(Ids), NEW r \in Requests, NEW q \in Requests, q # r, Whole(s, q)
  PROVE  Whole(s \o Batch[r], q)
<1>. DEFINE u == s \o Batch[r]
<1>1. /\ u \in Seq(Ids) /\ Len(s) \in Nat /\ Len(Batch[r]) \in Nat
      /\ Len(u) = Len(s) + Len(Batch[r])
      /\ \A i \in 1..Len(s) : u[i] = s[i]
      /\ \A i \in 1..Len(u) : i \in 1..Len(s) \/ (i - Len(s) \in 1..Len(Batch[r]) /\ u[i] = Batch[r][i - Len(s)])
  BY BatchFacts, ConcatFacts
<1>. HIDE DEF u
<1>2. CASE \A i \in 1..Len(Batch[q]) : \A j \in 1..Len(s) : s[j] # Batch[q][i]
  BY <1>1, <1>2, BatchFacts DEF Whole, u
<1>3. ASSUME NEW n \in 0..Len(s) - Len(Batch[q]), \A i \in 1..Len(Batch[q]) : s[n + i] = Batch[q][i]
      PROVE  Whole(u, q)
  <2>1. Len(Batch[q]) \in Nat
    BY BatchFacts
  <2>2. n \in 0..Len(u) - Len(Batch[q]) /\ \A i \in 1..Len(Batch[q]) : n + i \in 1..Len(s)
    BY <1>1, <2>1
  <2>3. \A i \in 1..Len(Batch[q]) : u[n + i] = s[n + i]
    BY <1>1, <2>2
  <2>4. \A i \in 1..Len(Batch[q]) : u[n + i] = Batch[q][i]
    BY <1>3, <2>3
  <2>. QED  BY <2>2, <2>4 DEF Whole
<1>. QED  BY <1>2, <1>3 DEF Whole, u

LEMMA WholeAdded ==
  ASSUME NEW s \in Seq(Ids), NEW r \in Requests
  PROVE  Whole(s \o Batch[r], r)
<1>. DEFINE u == s \o Batch[r]
<1>1. /\ Len(s) \in Nat /\ Len(Batch[r]) \in Nat /\ Len(u) = Len(s) + Len(Batch[r])
      /\ \A i \in 1..Len(Batch[r]) : u[Len(s) + i] = Batch[r][i]
  BY BatchFacts, ConcatFacts
<1>. HIDE DEF u
<1>2. Len(s) \in 0..Len(u) - Len(Batch[r])
  BY <1>1
<1>3. Whole(u, r)
  BY <1>1, <1>2 DEF Whole
<1>. QED  BY <1>3 DEF u

LEMMA ClosedAdded ==
  ASSUME NEW r \in Requests, mem.events \in Seq(Ids), Closed(mem.events), Caused(Batch[r])
  PROVE  Closed(mem.events \o Batch[r])
<1>. DEFINE s == mem.events
            b == Batch[r]
            u == s \o b
<1>1. /\ Len(s) \in Nat /\ Len(b) \in Nat /\ Len(u) = Len(s) + Len(b)
      /\ \A i \in 1..Len(s) : u[i] = s[i]
      /\ \A i \in 1..Len(b) : u[Len(s) + i] = b[i]
  BY BatchFacts, ConcatFacts
<1>2. ASSUME NEW i \in 1..Len(b)
      PROVE  \/ Cause[b[i]] = Root
             \/ \E j \in 1..Len(s) : s[j] = Cause[b[i]]
             \/ \E j \in 1..i - 1 : b[j] = Cause[b[i]]
             \/ i = 1 /\ Len(s) = 0
  <2>1. DOMAIN b = 1..Len(b) /\ DOMAIN s = 1..Len(s)
    BY BatchFacts
  <2>2. Range(s) = {s[j] : j \in 1..Len(s)}
    BY <2>1 DEF Range
  <2>3. s = <<>> => Len(s) = 0
    OBVIOUS
  <2>. QED  BY <1>2, <2>1, <2>2, <2>3 DEF Caused
<1>. HIDE DEF u, s, b
<1>3. ASSUME NEW i \in 2..Len(u) PROVE Cause[u[i]] = Root \/ \E j \in 1..i - 1 : u[j] = Cause[u[i]]
  <2>1. CASE i <= Len(s)
    <3>1. i \in 2..Len(s) /\ u[i] = s[i] /\ \A j \in 1..i - 1 : u[j] = s[j]
      BY <1>1, <2>1
    <3>2. Cause[s[i]] = Root \/ \E j \in 1..i - 1 : s[j] = Cause[s[i]]
      BY <3>1 DEF Closed, s
    <3>. QED  BY <3>1, <3>2
  <2>2. CASE i > Len(s)
    <3>. DEFINE k == i - Len(s)
    <3>1. k \in 1..Len(b) /\ u[i] = b[k] /\ (k = 1 => Len(s) # 0)
      BY <1>1, <2>2
    <3>2. \A j \in 1..Len(s) : j \in 1..i - 1 /\ u[j] = s[j]
      BY <1>1, <2>2
    <3>3. \A j \in 1..k - 1 : Len(s) + j \in 1..i - 1 /\ u[Len(s) + j] = b[j]
      <4>1. i = Len(s) + k /\ i \in Nat /\ k \in Nat /\ k <= Len(b)
        BY <1>1, <2>2, <3>1
      <4>. HIDE DEF k
      <4>2. ASSUME NEW j \in 1..k - 1 PROVE Len(s) + j \in 1..i - 1 /\ j \in 1..Len(b)
        BY <1>1, <4>1
      <4>. QED  BY <1>1, <4>2
    <3>. HIDE DEF k
    <3>4. \/ Cause[b[k]] = Root
          \/ \E j \in 1..Len(s) : s[j] = Cause[b[k]]
          \/ \E j \in 1..k - 1 : b[j] = Cause[b[k]]
      BY <1>2, <3>1
    <3>5. CASE \E j \in 1..Len(s) : s[j] = Cause[b[k]]
      BY <3>1, <3>2, <3>5
    <3>6. CASE \E j \in 1..k - 1 : b[j] = Cause[b[k]]
      BY <3>1, <3>3, <3>6
    <3>. QED  BY <3>1, <3>4, <3>5, <3>6
  <2>. QED  BY <1>1, <2>1, <2>2
<1>. QED  BY <1>3 DEF Closed, u, s, b

-----------------------------------------------------------------------------
LEMMA LogInit == Init => LogInv
<1>. SUFFICES ASSUME Init PROVE LogInv
  OBVIOUS
<1>1. TypeOK
  <2>1. <<>> \in Seq(Ids) /\ Len(<<>>) = 0
    OBVIOUS
  <2>2. 0 \in 0..Len(mem.events) /\ 0 \in 0..MaxRestarts
    BY EventLogAssumption DEF Init, Empty, EventLogAssumption
  <2>. QED  BY <2>1, <2>2 DEF Init, Empty, TypeOK
<1>2. IndexesMatchLog
  BY FilterEmpty DEF Init, Empty, IndexesMatchLog
<1>3. ASSUME NEW r \in Requests PROVE CallInv(r)
  BY BatchFacts DEF Init, Empty, CallInv, Whole
<1>4. Begins(file, mem.events) /\ Closed(mem.events) /\ Closed(file)
  BY DEF Init, Empty, Begins, Closed
<1>. QED  BY <1>1, <1>2, <1>3, <1>4 DEF LogInv

LEMMA AddsKeeps ==
  ASSUME LogInv, NEW r \in Requests, Adds(r)
  PROVE  LogInv'
<1>. DEFINE s == mem.events
            b == Batch[r]
            u == s \o b
<1>1. /\ mem'.events = u /\ mem'.sequence = mem.sequence + Len(b)
      /\ mem'.index = [k \in Keys |-> mem.index[k] \o Filter(b, FiledUnder(k))]
      /\ pc'[r] = "accepted" /\ \A q \in Requests \ {r} : pc'[q] = pc[q]
  BY Added
<1>2. /\ b \in Seq(Ids) /\ s \in Seq(Ids) /\ file \in Seq(Ids)
      /\ mem.sequence \in Nat /\ mem.index \in [Keys -> Seq(Ids)]
  BY BatchFacts DEF LogInv, TypeOK
<1>3. /\ u \in Seq(Ids) /\ Len(s) \in Nat /\ Len(b) \in Nat
      /\ Len(u) = Len(s) + Len(b)
      /\ \A i \in 1..Len(s) : u[i] = s[i]
      /\ \A i \in 1..Len(b) : u[Len(s) + i] = b[i]
      /\ \A i \in 1..Len(u) : i \in 1..Len(s) \/ (i - Len(s) \in 1..Len(b) /\ u[i] = b[i - Len(s)])
  BY <1>2, ConcatFacts
<1>4. /\ \/ file' = u /\ ~ blind' /\ forgotten' = forgotten \cup (IF blind THEN Range(file) ELSE {})
         \/ r \in Single /\ file' = file /\ blind' = blind /\ forgotten' = forgotten
      /\ blind \/ Begins(file, s)
      /\ Len(file) \in Nat /\ Range(file) = {file[j] : j \in 1..Len(file)} /\ blind' \in BOOLEAN
  <2>1. Persist(mem'.events) \/ (r \in Single /\ UNCHANGED disk)
    BY DEF Adds
  <2>2. (blind \/ Begins(file, s)) /\ Len(file) \in Nat /\ blind \in BOOLEAN
    BY <1>2 DEF LogInv, TypeOK
  <2>3. Range(file) = {file[j] : j \in 1..Len(file)}
    BY <1>2 DEF Range
  <2>4. CASE Persist(mem'.events)
    <3>1. file' = u /\ blind' = FALSE /\ forgotten' = forgotten \cup (IF blind THEN Range(file) ELSE {})
      BY <1>1, <2>4 DEF Persist
    <3>. QED  BY <2>2, <2>3, <3>1
  <2>5. CASE r \in Single /\ UNCHANGED disk
    BY <2>2, <2>3, <2>5 DEF disk
  <2>. QED  BY <2>1, <2>4, <2>5
<1>5. \A k \in Keys : mem'.index[k] = Filter(u, FiledUnder(k)) /\ mem'.index[k] \in Seq(Ids)
  <2>. SUFFICES ASSUME NEW k \in Keys
               PROVE  mem'.index[k] = Filter(u, FiledUnder(k)) /\ mem'.index[k] \in Seq(Ids)
    OBVIOUS
  <2>1. Filter(u, FiledUnder(k)) = Filter(s, FiledUnder(k)) \o Filter(b, FiledUnder(k))
    <3>. HIDE DEF s, b
    <3>1. s \in Seq(Ids) /\ b \in Seq(Ids)
      BY <1>2
    <3>2. Filter(s \o b, FiledUnder(k)) = Filter(s, FiledUnder(k)) \o Filter(b, FiledUnder(k))
      BY <3>1, FilterConcat
    <3>. QED  BY <3>2
  <2>2. mem.index[k] = Filter(s, FiledUnder(k))
    BY DEF LogInv, IndexesMatchLog
  <2>3. Filter(u, FiledUnder(k)) \in Seq(Ids \cap FiledUnder(k))
    BY <1>3, FilterIsList
  <2>4. Ids \cap FiledUnder(k) = FiledUnder(k) /\ FiledUnder(k) \subseteq Ids
    BY DEF FiledUnder
  <2>5. Filter(u, FiledUnder(k)) \in Seq(Ids)
    BY <2>3, <2>4
  <2>. QED  BY <1>1, <2>1, <2>2, <2>5
<1>. HIDE DEF s, b, u
<1>6. TypeOK'
  <2>1. mem'.index \in [Keys -> Seq(Ids)]
    BY <1>1, <1>5
  <2>2. file' \in Seq(Ids) /\ pc' \in [Requests -> Answered \cup {"idle", "read", "checked", "lost"}]
    BY <1>2, <1>3, <1>4 DEF Adds, LogInv, TypeOK, Answered
  <2>3. published' \subseteq Ids
    <3>1. Range(b) \subseteq Ids
      BY <1>2 DEF Range
    <3>. QED  BY <3>1 DEF Adds, LogInv, TypeOK, b
  <2>4. booted' \in 0..Len(u)
    BY <1>3 DEF Adds, LogInv, TypeOK, s
  <2>5. mem'.sequence \in Nat /\ last' = last /\ seen' = seen /\ restarts' = restarts
    BY <1>1, <1>2, <1>3 DEF Adds
  <2>6. forgotten' \subseteq Ids /\ blind' \in BOOLEAN
    <3>1. \A j \in 1..Len(file) : file[j] \in Ids
      BY <1>2
    <3>2. forgotten \subseteq Ids
      BY DEF LogInv, TypeOK
    <3>. QED  BY <1>4, <3>1, <3>2
  <2>. QED  BY <1>1, <1>3, <2>1, <2>2, <2>3, <2>4, <2>5, <2>6 DEF TypeOK, LogInv
<1>7. blind \/ Begins(file, u)
  BY <1>3, <1>4 DEF Begins
<1>8. blind' \/ Begins(file', mem'.events)
  <2>1. Begins(u, u)
    BY <1>3 DEF Begins
  <2>. QED  BY <1>1, <1>4, <1>7, <2>1
<1>9. IndexesMatchLog'
  BY <1>1, <1>3, <1>5 DEF LogInv, IndexesMatchLog, s
<1>10. ASSUME NEW q \in Requests PROVE CallInv(q)'
  <2>0. CallInv(q) /\ Whole(s, q) /\ Whole(file, q)
    BY DEF LogInv, CallInv, s
  <2>1. CASE q = r
    <3>1. Whole(u, r)
      BY <1>2, WholeAdded DEF u, b
    <3>2. Whole(file', r)
      BY <1>4, <2>0, <2>1, <3>1
    <3>3. r \notin Single => \A i \in 1..Len(b) : \E j \in 1..Len(file') : file'[j] = b[i]
      <4>1. \A i \in 1..Len(b) : Len(s) + i \in 1..Len(u) /\ u[Len(s) + i] = b[i]
        BY <1>3
      <4>. QED  BY <1>4, <4>1
    <3>. QED  BY <1>1, <2>1, <3>1, <3>2, <3>3 DEF CallInv, b
  <2>2. CASE q # r
    <3>1. Whole(u, q)
      BY <1>2, <2>0, <2>2, WholeStays DEF u, b
    <3>2. Whole(file', q)
      BY <1>4, <2>0, <3>1
    <3>3. pc'[q] = pc[q]
      BY <1>1, <2>2
    <3>4. ASSUME pc[q] # "accepted", NEW i \in 1..Len(Batch[q])
          PROVE  /\ Batch[q][i] \notin published' /\ \A j \in 1..Len(u) : u[j] # Batch[q][i]
                 /\ \A j \in 1..Len(file') : file'[j] # Batch[q][i]
      <4>1. /\ Batch[q][i] \notin published /\ \A j \in 1..Len(s) : s[j] # Batch[q][i]
            /\ \A j \in 1..Len(file) : file[j] # Batch[q][i]
        BY <2>0, <3>4 DEF CallInv, s
      <4>2. \A j \in 1..Len(b) : b[j] # Batch[q][i]
        BY <2>2, BatchFacts DEF b
      <4>3. DOMAIN b = 1..Len(b)
        BY <1>2
      <4>4. published' = published \cup {b[j] : j \in 1..Len(b)}
        BY <4>3 DEF Adds, Range, b
      <4>5. \A j \in 1..Len(u) : u[j] # Batch[q][i]
        BY <1>3, <4>1, <4>2
      <4>6. \A j \in 1..Len(file') : file'[j] # Batch[q][i]
        BY <1>4, <4>1, <4>5
      <4>. QED  BY <4>1, <4>2, <4>4, <4>5, <4>6
    <3>5. ASSUME pc[q] = "accepted", q \notin Single, NEW i \in 1..Len(Batch[q])
          PROVE  Batch[q][i] \in forgotten' \/ \E j \in 1..Len(file') : file'[j] = Batch[q][i]
      <4>1. CASE Batch[q][i] \in forgotten
        BY <1>4, <4>1
      <4>2. ASSUME NEW j \in 1..Len(file), file[j] = Batch[q][i]
            PROVE  Batch[q][i] \in forgotten' \/ \E k \in 1..Len(file') : file'[k] = Batch[q][i]
        <5>1. CASE file' = file
          BY <4>2, <5>1
        <5>2. CASE file' = u /\ blind /\ forgotten' = forgotten \cup Range(file)
          BY <1>4, <4>2, <5>2
        <5>3. CASE file' = u /\ ~ blind
          <6>1. j \in 1..Len(u) /\ u[j] = file[j]
            BY <1>3, <1>4, <1>7, <5>3 DEF Begins
          <6>. QED  BY <4>2, <5>3, <6>1
        <5>. QED  BY <1>4, <5>1, <5>2, <5>3
      <4>. QED  BY <2>0, <3>5, <4>1, <4>2 DEF CallInv
    <3>6. pc[q] \in {"read", "checked"} => q \in Single
      BY <2>0 DEF CallInv
    <3>. QED  BY <1>1, <3>1, <3>2, <3>3, <3>4, <3>5, <3>6 DEF CallInv
  <2>. QED  BY <2>1, <2>2
<1>11. Closed(u)
  BY <1>2, ClosedAdded DEF Adds, LogInv, s, b, u
<1>12. Closed(file')
  BY <1>4, <1>11 DEF LogInv
<1>. QED  BY <1>1, <1>6, <1>8, <1>9, <1>10, <1>11, <1>12 DEF LogInv

LEMMA GoesOnKeeps ==
  ASSUME LogInv, NEW r \in Requests, GoesOn(r)
  PROVE  LogInv'
<1>1. PICK l \in {"failed", "refused", "read", "checked"} :
        pc' = [pc EXCEPT ![r] = l] /\ (l \in {"read", "checked"} => r \in Single)
  BY DEF GoesOn
<1>2. /\ mem' = mem /\ file' = file /\ published' = published /\ booted' = booted
      /\ restarts' = restarts /\ blind' = blind /\ forgotten' = forgotten
  BY DEF GoesOn, disk
<1>3. TypeOK'
  BY <1>1, <1>2 DEF LogInv, TypeOK, GoesOn, Answered
<1>4. ASSUME NEW q \in Requests PROVE CallInv(q)'
  <2>1. CallInv(q) /\ CallInv(r) /\ pc \in [Requests -> Answered \cup {"idle", "read", "checked", "lost"}]
    BY DEF LogInv, TypeOK
  <2>2. pc[r] # "accepted" /\ (q = r => pc'[q] = l) /\ (q # r => pc'[q] = pc[q])
    BY <1>1, <2>1 DEF GoesOn
  <2>3. CASE q = r
    BY <1>1, <1>2, <2>1, <2>2, <2>3 DEF CallInv
  <2>4. CASE q # r
    BY <1>2, <2>1, <2>2, <2>4 DEF CallInv
  <2>. QED  BY <2>3, <2>4
<1>5. (blind \/ Begins(file, mem.events))' /\ IndexesMatchLog' /\ Closed(mem.events)' /\ Closed(file)'
  BY <1>2 DEF LogInv, IndexesMatchLog
<1>. QED  BY <1>3, <1>4, <1>5 DEF LogInv

LEMMA RestartKeeps ==
  ASSUME LogInv, Restart
  PROVE  LogInv'
<1>1. /\ file' = file /\ seen' = seen /\ published' = published /\ forgotten' = forgotten
      /\ last' = [a \in Streams |-> 0] /\ restarts' = restarts + 1
      /\ restarts < MaxRestarts
      /\ pc' = [r \in Requests |-> IF pc[r] \in {"read", "checked"} THEN "lost" ELSE pc[r]]
  BY DEF Restart
<1>2. /\ file \in Seq(Ids) /\ Len(file) \in Nat /\ <<>> \in Seq(Ids) /\ Len(<<>>) = 0
      /\ Closed(file)
  BY DEF LogInv, TypeOK
<1>3. PICK log \in {file, <<>>} :
        /\ mem'.events = log /\ mem'.sequence = Len(log) /\ booted' = Len(log)
        /\ mem'.index = [k \in Keys |-> Filter(log, FiledUnder(k))]
        /\ blind' \in BOOLEAN /\ (log = file \/ blind')
  <2>1. CASE /\ mem' = [events |-> file, sequence |-> Len(file),
                        index  |-> [k \in Keys |-> Filter(file, FiledUnder(k))]]
             /\ booted' = Len(file) /\ blind' = FALSE
    BY <2>1
  <2>2. CASE mem' = Empty /\ booted' = 0 /\ blind' = TRUE
    <3>1. mem'.index = [k \in Keys |-> Filter(<<>>, FiledUnder(k))]
      BY <2>2, FilterEmpty DEF Empty
    <3>. QED  BY <1>2, <2>2, <3>1 DEF Empty
  <2>. QED  BY <2>1, <2>2 DEF Restart, Load
<1>4. log \in Seq(Ids) /\ Len(log) \in Nat /\ Closed(log)
  <2>1. Closed(<<>>)
    BY <1>2 DEF Closed
  <2>. QED  BY <1>2, <2>1
<1>5. TypeOK'
  <2>1. ASSUME NEW k \in Keys PROVE Filter(log, FiledUnder(k)) \in Seq(Ids)
    <3>1. Filter(log, FiledUnder(k)) \in Seq(Ids \cap FiledUnder(k))
      BY <1>4, FilterIsList
    <3>2. Ids \cap FiledUnder(k) = FiledUnder(k) /\ FiledUnder(k) \subseteq Ids
      BY DEF FiledUnder
    <3>. QED  BY <3>1, <3>2
  <2>2. mem'.index \in [Keys -> Seq(Ids)]
    BY <1>3, <2>1
  <2>3. restarts' \in 0..MaxRestarts /\ booted' \in 0..Len(mem'.events)
    BY <1>1, <1>3, <1>4, EventLogAssumption DEF LogInv, TypeOK, EventLogAssumption
  <2>4. pc' \in [Requests -> Answered \cup {"idle", "read", "checked", "lost"}]
    BY <1>1 DEF LogInv, TypeOK
  <2>5. last' \in [Streams -> Nat] /\ blind' \in BOOLEAN
    BY <1>1, <1>3
  <2>. QED  BY <1>1, <1>3, <1>4, <2>2, <2>3, <2>4, <2>5 DEF LogInv, TypeOK
<1>6. IndexesMatchLog'
  BY <1>3 DEF IndexesMatchLog
<1>7. ASSUME NEW q \in Requests PROVE CallInv(q)'
  <2>1. CallInv(q) /\ pc'[q] \in {"lost", pc[q]} /\ pc'[q] \notin {"read", "checked"}
    BY <1>1 DEF LogInv
  <2>2. ASSUME pc[q] # "accepted", NEW i \in 1..Len(Batch[q]), NEW j \in 1..Len(log)
        PROVE  log[j] # Batch[q][i]
    BY <1>2, <2>1, <2>2 DEF CallInv
  <2>3. (pc'[q] = "accepted" <=> pc[q] = "accepted")
    BY <1>1
  <2>4. Whole(log, q)
    <3>1. CASE log = file
      BY <2>1, <3>1 DEF CallInv
    <3>2. CASE log = <<>>
      <4>1. \A j \in 1..Len(log) : FALSE
        BY <1>2, <3>2
      <4>. QED  BY <4>1 DEF Whole
    <3>. QED  BY <3>1, <3>2
  <2>. QED  BY <1>1, <1>3, <2>1, <2>2, <2>3, <2>4 DEF CallInv
<1>8. blind' \/ Begins(file', mem'.events)
  <2>1. Begins(file, file)
    BY <1>2 DEF Begins
  <2>. QED  BY <1>1, <1>3, <2>1
<1>. QED  BY <1>1, <1>3, <1>4, <1>5, <1>6, <1>7, <1>8 DEF LogInv

LEMMA LogKept == LogInv /\ [Next]_vars => LogInv'
<1>1. CASE UNCHANGED vars
  <2>1. LogInv => LogInv'
    BY <1>1 DEF LogInv, TypeOK, IndexesMatchLog, CallInv, vars
  <2>. QED  BY <2>1
<1>. QED  BY <1>1, Steps, AddsKeeps, GoesOnKeeps, RestartKeeps

LEMMA LogInvariant == Spec => []LogInv
BY LogInit, LogKept, PTL DEF Spec

-----------------------------------------------------------------------------
(***************************************************************************)
(* The sequences of a stream: one numbered append of it is under way at a  *)
(* time, and the tracker is at the last number let through.                *)
(***************************************************************************)
Live(q, a) ==
  /\ Number[The(q)] > 0 /\ Stream[The(q)] = a
  /\ pc[q] \in {"read", "checked"}

InOrder(a) ==
  /\ \A q, r \in Single : Live(q, a) /\ Live(r, a) => q = r
  /\ \A q \in Single : Live(q, a) /\ pc[q] = "read" => seen[q] = last[a]
  /\ \A q \in Single : Live(q, a) /\ pc[q] = "checked" =>
       /\ Number[The(q)] = last[a]
       /\ \A n \in Numbered(a) : Number[mem.events[n]] < last[a]
  /\ \A n \in Numbered(a) :
       /\ Number[mem.events[n]] <= last[a]
       /\ \A m \in Numbered(a) : m < n => Number[mem.events[m]] < Number[mem.events[n]]
  /\ \A i \in 1..last[a] :
       \/ \E n \in Numbered(a) : Number[mem.events[n]] = i
       \/ \E q \in Single : /\ pc[q] \in {"failed", "checked"}
                            /\ Stream[The(q)] = a /\ Number[The(q)] = i

OrderInv ==
  /\ \A q \in Requests : pc[q] = "read" => Number[The(q)] > 0
  /\ \A a \in Streams : InOrder(a)

\* What a caller of appendManyAtomic writes has no sequence of its own.
BatchesUnnumbered ==
  \A r \in Requests \ Single : \A i \in 1..Len(Batch[r]) : Number[Batch[r][i]] = 0

LEMMA NumberedStays ==
  ASSUME NEW a, mem'.events = mem.events, booted' = booted
  PROVE  Numbered(a)' = Numbered(a)
BY DEF Numbered

LEMMA NumberedAdded ==
  ASSUME LogInv, NEW r \in Requests, Adds(r), NEW a \in Streams
  PROVE  /\ Len(mem.events) \in Nat /\ Len(Batch[r]) \in Nat
         /\ \A n \in Numbered(a) : /\ n \in Numbered(a)' /\ n \in 1..Len(mem.events)
                                   /\ mem'.events[n] = mem.events[n]
         /\ \A n \in Numbered(a)' \ Numbered(a) :
              /\ n - Len(mem.events) \in 1..Len(Batch[r]) /\ n \in Int
              /\ mem'.events[n] = Batch[r][n - Len(mem.events)]
              /\ Stream[mem'.events[n]] = a /\ Number[mem'.events[n]] > 0
         /\ \A i \in 1..Len(Batch[r]) : Stream[Batch[r][i]] = a /\ Number[Batch[r][i]] > 0
              => Len(mem.events) + i \in Numbered(a)' /\ mem'.events[Len(mem.events) + i] = Batch[r][i]
<1>. DEFINE s == mem.events
            b == Batch[r]
            u == s \o b
<1>1. mem'.events = u /\ booted' = booted
  BY Added DEF Adds
<1>2. b \in Seq(Ids) /\ s \in Seq(Ids) /\ booted \in 0..Len(s)
  BY BatchFacts DEF LogInv, TypeOK
<1>3. /\ u \in Seq(Ids) /\ Len(s) \in Nat /\ Len(b) \in Nat
      /\ Len(u) = Len(s) + Len(b)
      /\ \A i \in 1..Len(s) : u[i] = s[i]
      /\ \A i \in 1..Len(b) : u[Len(s) + i] = b[i]
      /\ \A i \in 1..Len(u) : i \in 1..Len(s) \/ (i - Len(s) \in 1..Len(b) /\ u[i] = b[i - Len(s)])
  BY <1>2, ConcatFacts
<1>. HIDE DEF u
<1>4. /\ Numbered(a) = {n \in booted + 1..Len(s) : Stream[s[n]] = a /\ Number[s[n]] > 0}
      /\ Numbered(a)' = {n \in booted + 1..Len(u) : Stream[u[n]] = a /\ Number[u[n]] > 0}
  BY <1>1 DEF Numbered
<1>. HIDE DEF s, b
<1>5. \A n \in Numbered(a) : n \in Numbered(a)' /\ n \in 1..Len(s) /\ u[n] = s[n]
  BY <1>2, <1>3, <1>4
<1>6. ASSUME NEW n \in Numbered(a)' \ Numbered(a)
      PROVE  /\ n - Len(s) \in 1..Len(b) /\ n \in Int
             /\ u[n] = b[n - Len(s)] /\ Stream[u[n]] = a /\ Number[u[n]] > 0
  BY <1>2, <1>3, <1>4
<1>7. ASSUME NEW i \in 1..Len(b), Stream[b[i]] = a, Number[b[i]] > 0
      PROVE  Len(s) + i \in Numbered(a)' /\ u[Len(s) + i] = b[i]
  <2>1. Len(s) + i \in booted + 1..Len(u) /\ u[Len(s) + i] = b[i]
    BY <1>2, <1>3
  <2>. QED  BY <1>4, <1>7, <2>1
<1>. QED  BY <1>1, <1>3, <1>5, <1>6, <1>7 DEF s, b

LEMMA OrderInit == Init => OrderInv
<1>. SUFFICES ASSUME Init PROVE OrderInv
  OBVIOUS
<1>1. ASSUME NEW a \in Streams PROVE InOrder(a)
  <2>1. Numbered(a) = {} /\ 1..last[a] = {}
    BY <1>1 DEF Init, Empty, Numbered
  <2>2. \A q \in Single : ~ Live(q, a)
    BY EventLogAssumption DEF Init, Live, EventLogAssumption
  <2>. QED  BY <2>1, <2>2 DEF InOrder
<1>. QED  BY <1>1 DEF Init, OrderInv

\* A call that is not let into the tracker here, and leaves the log alone.
LEMMA OrderOfWaiting ==
  ASSUME LogInv, OrderInv, NEW a \in Streams, NEW r \in Requests,
         mem' = mem, booted' = booted, last' = last, seen' = seen,
         \/ pc' = [pc EXCEPT ![r] = "refused"] /\ pc[r] \in {"idle", "read"}
         \/ pc' = [pc EXCEPT ![r] = "failed"] /\ (r \in Single => pc[r] = "checked")
         \/ pc' = [pc EXCEPT ![r] = "checked"] /\ pc[r] = "idle" /\ Number[The(r)] = 0
  PROVE  InOrder(a)'
<1>1. Numbered(a)' = Numbered(a)
  BY NumberedStays
<1>2. pc \in [Requests -> Answered \cup {"idle", "read", "checked", "lost"}] /\ InOrder(a)
  BY DEF LogInv, TypeOK, OrderInv
<1>3. Single \subseteq Requests /\ (r \in Requests => Number[The(r)] \in Nat)
  BY EventLogAssumption, BatchFacts DEF EventLogAssumption
<1>4. \A q \in Single : Live(q, a)' => Live(q, a) /\ pc'[q] = pc[q]
  BY <1>2, <1>3 DEF Live
<1>5. ASSUME NEW q \in Single, pc[q] \in {"failed", "checked"}
      PROVE  pc'[q] \in {"failed", "checked"}
  BY <1>2, <1>3, <1>5
<1>. QED  BY <1>1, <1>2, <1>4, <1>5 DEF InOrder

LEMMA OrderOfAudit ==
  ASSUME LogInv, OrderInv, ~ Overlap, NEW a \in Streams, NEW r \in Requests, Audit(r)
  PROVE  InOrder(a)'
<1>1. Numbered(a)' = Numbered(a) /\ mem' = mem /\ last' = last
  BY NumberedStays DEF Audit
<1>2. /\ pc \in [Requests -> Answered \cup {"idle", "read", "checked", "lost"}]
      /\ seen \in [Requests -> Nat] /\ InOrder(a) /\ pc[r] = "idle" /\ r \in Single
  BY DEF LogInv, TypeOK, OrderInv, Audit
<1>3. Single \subseteq Requests /\ Number[The(r)] \in Nat
  BY EventLogAssumption, BatchFacts DEF EventLogAssumption
<1>4. \A q \in Single : q # r => pc'[q] = pc[q] /\ seen'[q] = seen[q]
  BY <1>2, <1>3 DEF Audit, Goto
<1>5. Live(r, a)' => /\ pc'[r] = "read" /\ seen'[r] = last[a] /\ Alone(r)
                     /\ Number[The(r)] > 0 /\ Stream[The(r)] = a
  BY <1>2, <1>3 DEF Audit, Goto, Live
<1>6. \A q \in Single : Live(q, a)' /\ Live(r, a)' => q = r
  BY <1>4, <1>5 DEF Live, Alone
<1>7. \A q \in Single : q # r => (Live(q, a)' <=> Live(q, a))
  BY <1>4 DEF Live
<1>8. \A q \in Single : pc[q] \in {"failed", "checked"} => pc'[q] \in {"failed", "checked"}
  BY <1>2, <1>4
<1>9. (\A q, p \in Single : Live(q, a) /\ Live(p, a) => q = p)'
  BY <1>2, <1>6, <1>7 DEF InOrder
<1>10. (\A q \in Single : Live(q, a) /\ pc[q] = "read" => seen[q] = last[a])'
  BY <1>1, <1>2, <1>4, <1>5, <1>7 DEF InOrder
<1>11. \A q \in Single : Live(q, a)' /\ pc'[q] = "checked" => Live(q, a) /\ pc[q] = "checked"
  BY <1>4, <1>5, <1>7
<1>. QED  BY <1>1, <1>2, <1>8, <1>9, <1>10, <1>11 DEF InOrder

LEMMA OrderOfCheck ==
  ASSUME LogInv, OrderInv, NEW a \in Streams, NEW r \in Requests, CheckOrder(r)
  PROVE  InOrder(a)'
<1>0. /\ mem' = mem /\ booted' = booted /\ seen' = seen /\ pc[r] = "read" /\ r \in Single
      /\ pc \in [Requests -> Answered \cup {"idle", "read", "checked", "lost"}]
      /\ last \in [Streams -> Nat] /\ InOrder(a)
      /\ Number[The(r)] \in Nat /\ Number[The(r)] > 0 /\ Stream[The(r)] \in Streams
      /\ Single \subseteq Requests
  BY EventLogAssumption, BatchFacts DEF EventLogAssumption, LogInv, TypeOK, CallInv, OrderInv, CheckOrder
<1>1. CASE pc' = [pc EXCEPT ![r] = "refused"] /\ last' = last
  BY <1>0, <1>1, OrderOfWaiting
<1>2. CASE /\ Number[The(r)] = seen[r] + 1 /\ pc' = [pc EXCEPT ![r] = "checked"]
           /\ last' = [last EXCEPT ![Stream[The(r)]] = Number[The(r)]]
  <2>1. Numbered(a)' = Numbered(a)
    BY <1>0, NumberedStays
  <2>0. \A q \in Single : Live(q, a)' <=> Live(q, a)
    BY <1>0, <1>2 DEF Live
  <2>2. \A q \in Single : /\ q # r => pc'[q] = pc[q]
                          /\ pc[q] \in {"failed", "checked"} => pc'[q] \in {"failed", "checked"}
    BY <1>0, <1>2
  <2>3. CASE Stream[The(r)] # a
    <3>1. last'[a] = last[a] /\ ~ Live(r, a)
      BY <1>0, <1>2, <2>3 DEF Live
    <3>2. \A q \in Single : Live(q, a) => pc'[q] = pc[q]
      BY <2>2, <3>1
    <3>. QED  BY <1>0, <2>0, <2>1, <2>2, <3>1, <3>2 DEF InOrder
  <2>4. CASE Stream[The(r)] = a
    <3>1. Live(r, a) /\ (\A q \in Single : Live(q, a) => q = r) /\ pc'[r] = "checked"
      BY <1>0, <1>2, <2>4 DEF Live, InOrder
    <3>2. last'[a] = Number[The(r)] /\ last'[a] = last[a] + 1 /\ last[a] \in Nat
      BY <1>0, <1>2, <2>4, <3>1 DEF InOrder
    <3>3. \A n \in Numbered(a) : Number[mem.events[n]] <= last[a] /\ Number[mem.events[n]] \in Nat
      <4>1. mem.events \in Seq(Ids) /\ booted \in 0..Len(mem.events) /\ Number \in [Ids -> Nat]
        BY EventLogAssumption DEF EventLogAssumption, LogInv, TypeOK
      <4>2. \A n \in Numbered(a) : n \in 1..Len(mem.events)
        BY <4>1 DEF Numbered
      <4>3. \A n \in Numbered(a) : mem.events[n] \in Ids
        BY <4>1, <4>2
      <4>. QED  BY <1>0, <4>1, <4>3 DEF InOrder
    <3>4. \A i \in 1..last'[a] : i \in 1..last[a] \/ i = Number[The(r)]
      BY <3>2
    <3>5. ASSUME NEW i \in 1..last'[a]
          PROVE  \/ \E n \in Numbered(a) : Number[mem.events[n]] = i
                 \/ \E q \in Single : /\ pc'[q] \in {"failed", "checked"}
                                      /\ Stream[The(q)] = a /\ Number[The(q)] = i
      <4>1. CASE i = Number[The(r)]
        BY <1>0, <2>4, <3>1, <4>1
      <4>2. CASE i \in 1..last[a]
        BY <1>0, <2>2, <4>2 DEF InOrder
      <4>. QED  BY <3>4, <4>1, <4>2
    <3>6. \A n \in Numbered(a) : Number[mem.events[n]] < last'[a] /\ Number[mem.events[n]] <= last'[a]
      BY <3>2, <3>3
    <3>7. \A q, p \in Single : Live(q, a)' /\ Live(p, a)' => q = p
      BY <2>0, <3>1
    <3>8. \A q \in Single : Live(q, a)' => q = r
      BY <2>0, <3>1
    <3>9. (\A q \in Single : Live(q, a) /\ pc[q] = "read" => seen[q] = last[a])'
      BY <3>1, <3>8
    <3>10. (\A q \in Single : Live(q, a) /\ pc[q] = "checked" =>
             /\ Number[The(q)] = last[a]
             /\ \A n \in Numbered(a) : Number[mem.events[n]] < last[a])'
      BY <1>0, <2>1, <3>2, <3>6, <3>8
    <3>11. (\A n \in Numbered(a) :
             /\ Number[mem.events[n]] <= last[a]
             /\ \A m \in Numbered(a) : m < n => Number[mem.events[m]] < Number[mem.events[n]])'
      BY <1>0, <2>1, <3>6 DEF InOrder
    <3>. QED  BY <1>0, <2>1, <3>5, <3>7, <3>9, <3>10, <3>11 DEF InOrder
  <2>. QED  BY <2>3, <2>4
<1>. QED  BY <1>1, <1>2 DEF CheckOrder, Goto

\* A call that adds no numbered event to the stream.
LEMMA OrderOfOthers ==
  ASSUME LogInv, OrderInv, NEW a \in Streams, NEW r \in Requests, Adds(r),
         \A i \in 1..Len(Batch[r]) : ~ (Stream[Batch[r][i]] = a /\ Number[Batch[r][i]] > 0)
  PROVE  InOrder(a)'
<1>1. /\ pc \in [Requests -> Answered \cup {"idle", "read", "checked", "lost"}] /\ InOrder(a)
      /\ pc' = [pc EXCEPT ![r] = "accepted"] /\ last' = last /\ seen' = seen
      /\ Single \subseteq Requests
  BY EventLogAssumption DEF LogInv, TypeOK, OrderInv, Adds, EventLogAssumption
<1>2. r \in Single => ~ (Stream[The(r)] = a /\ Number[The(r)] > 0)
  BY BatchFacts DEF The
<1>3. ASSUME NEW n \in Numbered(a)' PROVE n \in Numbered(a)
  <2>1. SUFFICES ASSUME n \in Numbered(a)' \ Numbered(a) PROVE FALSE
    BY <1>3
  <2>. DEFINE i == n - Len(mem.events)
  <2>2. i \in 1..Len(Batch[r]) /\ Stream[Batch[r][i]] = a /\ Number[Batch[r][i]] > 0
    BY <2>1, NumberedAdded
  <2>. QED  BY <2>2
<1>4. ASSUME NEW n \in Numbered(a) PROVE n \in Numbered(a)' /\ mem'.events[n] = mem.events[n]
  BY NumberedAdded
<1>5. Numbered(a)' = Numbered(a)
  BY <1>3, <1>4
<1>6. \A q \in Single : Live(q, a)' => Live(q, a) /\ pc'[q] = pc[q]
  BY <1>1 DEF Live
<1>7. \A q \in Single : \/ pc'[q] = pc[q]
                        \/ ~ (Stream[The(q)] = a /\ Number[The(q)] > 0)
  BY <1>1, <1>2
<1>8. ASSUME NEW i \in 1..last[a]
      PROVE  \/ \E n \in Numbered(a) : Number[mem.events[n]] = i
             \/ \E q \in Single : /\ pc'[q] \in {"failed", "checked"}
                                  /\ Stream[The(q)] = a /\ Number[The(q)] = i
  <2>1. \/ \E n \in Numbered(a) : Number[mem.events[n]] = i
        \/ \E q \in Single : /\ pc[q] \in {"failed", "checked"}
                             /\ Stream[The(q)] = a /\ Number[The(q)] = i
    BY <1>1 DEF InOrder
  <2>2. i > 0
    OBVIOUS
  <2>. QED  BY <1>7, <2>1, <2>2
<1>9. (\A i \in 1..last[a] :
         \/ \E n \in Numbered(a) : Number[mem.events[n]] = i
         \/ \E q \in Single : /\ pc[q] \in {"failed", "checked"}
                              /\ Stream[The(q)] = a /\ Number[The(q)] = i)'
  BY <1>1, <1>4, <1>5, <1>8
<1>10. (\A n \in Numbered(a) :
          /\ Number[mem.events[n]] <= last[a]
          /\ \A m \in Numbered(a) : m < n => Number[mem.events[m]] < Number[mem.events[n]])'
  BY <1>1, <1>4, <1>5 DEF InOrder
<1>11. (\A q \in Single : Live(q, a) /\ pc[q] = "checked" =>
          /\ Number[The(q)] = last[a]
          /\ \A n \in Numbered(a) : Number[mem.events[n]] < last[a])'
  BY <1>1, <1>4, <1>5, <1>6 DEF InOrder
<1>12. (\A q, p \in Single : Live(q, a) /\ Live(p, a) => q = p)'
  BY <1>1, <1>6 DEF InOrder
<1>13. (\A q \in Single : Live(q, a) /\ pc[q] = "read" => seen[q] = last[a])'
  BY <1>1, <1>6 DEF InOrder
<1>. QED  BY <1>9, <1>10, <1>11, <1>12, <1>13 DEF InOrder

\* The numbered append that the tracker let through, and that the store takes.
LEMMA OrderOfAppend ==
  ASSUME LogInv, OrderInv, NEW a \in Streams, NEW r \in Single, Adds(r),
         Stream[The(r)] = a, Number[The(r)] > 0
  PROVE  InOrder(a)'
<1>1. /\ pc \in [Requests -> Answered \cup {"idle", "read", "checked", "lost"}] /\ InOrder(a)
      /\ pc' = [pc EXCEPT ![r] = "accepted"] /\ last' = last /\ pc[r] = "checked"
      /\ Single \subseteq Requests /\ r \in Requests
  BY EventLogAssumption DEF LogInv, TypeOK, OrderInv, Adds, EventLogAssumption
<1>2. Live(r, a) /\ Number[The(r)] = last[a] /\ \A q \in Single : Live(q, a) => q = r
  BY <1>1 DEF InOrder, Live
<1>3. \A q \in Single : ~ Live(q, a)'
  BY <1>1, <1>2 DEF Live
<1>. DEFINE N == Len(mem.events) + 1
<1>4. Len(Batch[r]) = 1 /\ Batch[r][1] = The(r) /\ Len(mem.events) \in Nat
  BY <1>1, BatchFacts DEF The, LogInv, TypeOK
<1>5. N \in Numbered(a)' /\ mem'.events[N] = The(r)
  BY <1>1, <1>4, NumberedAdded
<1>6. ASSUME NEW n \in Numbered(a)' PROVE n \in Numbered(a) \/ n = N
  <2>1. CASE n \notin Numbered(a)
    <3>1. n - Len(mem.events) \in 1..1 /\ n \in Int
      BY <1>1, <1>4, <1>6, <2>1, NumberedAdded
    <3>. QED  BY <1>4, <3>1
  <2>. QED  BY <2>1
<1>7. ASSUME NEW n \in Numbered(a)
      PROVE  /\ n \in Numbered(a)' /\ n < N /\ mem'.events[n] = mem.events[n]
             /\ Number[mem.events[n]] < last[a]
  <2>1. n \in Numbered(a)' /\ n \in 1..Len(mem.events) /\ mem'.events[n] = mem.events[n]
    BY <1>1, NumberedAdded
  <2>2. Number[mem.events[n]] < last[a]
    BY <1>1, <1>2 DEF InOrder
  <2>. QED  BY <1>4, <2>1, <2>2
<1>8. last[a] \in Nat
  BY DEF LogInv, TypeOK
<1>. HIDE DEF N
<1>9. ASSUME NEW n \in Numbered(a)'
      PROVE  /\ Number[mem'.events[n]] <= last[a]
             /\ \A m \in Numbered(a)' : m < n => Number[mem'.events[m]] < Number[mem'.events[n]]
  <2>0. \A m \in Numbered(a) : Number[mem.events[m]] \in Nat
    <3>1. mem.events \in Seq(Ids) /\ Number \in [Ids -> Nat]
      BY EventLogAssumption DEF EventLogAssumption, LogInv, TypeOK
    <3>2. \A m \in Numbered(a) : m \in 1..Len(mem.events)
      BY <1>1, NumberedAdded
    <3>. QED  BY <3>1, <3>2
  <2>1. CASE n = N
    <3>1. Number[mem'.events[n]] = last[a]
      BY <1>2, <1>5, <2>1
    <3>2. ASSUME NEW m \in Numbered(a)', m < n PROVE Number[mem'.events[m]] < last[a]
      <4>1. m # N
        BY <1>4, <2>1, <3>2 DEF N
      <4>. QED  BY <1>6, <1>7, <4>1
    <3>. QED  BY <1>8, <3>1, <3>2
  <2>2. CASE n \in Numbered(a)
    <3>1. mem'.events[n] = mem.events[n] /\ n < N /\ n \in Nat
      <4>1. n \in 1..Len(mem.events)
        BY <1>1, <2>2, NumberedAdded
      <4>. QED  BY <1>7, <2>2, <4>1
    <3>2. ASSUME NEW m \in Numbered(a)', m < n PROVE Number[mem'.events[m]] < Number[mem'.events[n]]
      <4>1. m # N
        BY <1>4, <3>1, <3>2 DEF N
      <4>2. m \in Numbered(a) /\ mem'.events[m] = mem.events[m]
        BY <1>6, <1>7, <4>1
      <4>. QED  BY <1>1, <2>2, <3>1, <3>2, <4>2 DEF InOrder
    <3>. QED  BY <1>7, <1>8, <2>0, <2>2, <3>1, <3>2
  <2>. QED  BY <1>6, <2>1, <2>2
<1>10. ASSUME NEW i \in 1..last[a]
       PROVE  \/ \E n \in Numbered(a)' : Number[mem'.events[n]] = i
              \/ \E q \in Single : /\ pc'[q] \in {"failed", "checked"}
                                   /\ Stream[The(q)] = a /\ Number[The(q)] = i
  <2>1. CASE \E n \in Numbered(a) : Number[mem.events[n]] = i
    BY <1>7, <2>1
  <2>2. ASSUME NEW q \in Single, pc[q] \in {"failed", "checked"},
               Stream[The(q)] = a, Number[The(q)] = i
        PROVE  \/ \E n \in Numbered(a)' : Number[mem'.events[n]] = i
               \/ pc'[q] = pc[q]
    BY <1>1, <1>5, <2>2
  <2>3. \/ \E n \in Numbered(a) : Number[mem.events[n]] = i
        \/ \E q \in Single : /\ pc[q] \in {"failed", "checked"}
                             /\ Stream[The(q)] = a /\ Number[The(q)] = i
    BY <1>1 DEF InOrder
  <2>. QED  BY <2>1, <2>2, <2>3
<1>. QED  BY <1>1, <1>3, <1>9, <1>10 DEF InOrder

LEMMA OrderOfRestart ==
  ASSUME LogInv, NEW a \in Streams, Restart
  PROVE  InOrder(a)'
<1>1. booted' = Len(mem'.events) /\ last'[a] = 0 /\ Len(mem'.events) \in Nat
  BY DEF Restart, Load, Empty, LogInv, TypeOK
<1>2. Numbered(a)' = {}
  BY <1>1 DEF Numbered
<1>3. \A q \in Single : ~ Live(q, a)'
  BY EventLogAssumption DEF Restart, Live, EventLogAssumption
<1>. QED  BY <1>1, <1>2, <1>3 DEF InOrder

LEMMA OrderKept ==
  ASSUME LogInv, OrderInv, [Next]_vars, ~ Overlap, BatchesUnnumbered
  PROVE  OrderInv'
<1>1. CASE UNCHANGED vars
  <2>1. ASSUME NEW a \in Streams PROVE InOrder(a)'
    <3>1. /\ Numbered(a)' = Numbered(a) /\ InOrder(a) /\ last' = last /\ seen' = seen
          /\ pc' = pc /\ mem' = mem
      BY <1>1, NumberedStays DEF vars, OrderInv
    <3>2. \A q \in Single : Live(q, a)' <=> Live(q, a)
      BY <3>1 DEF Live
    <3>. QED  BY <3>1, <3>2 DEF InOrder
  <2>. QED  BY <1>1, <2>1 DEF OrderInv, vars
<1>2. CASE Restart
  <2>1. \A q \in Requests : pc'[q] # "read"
    BY <1>2 DEF Restart
  <2>. QED  BY <1>2, <2>1, OrderOfRestart DEF OrderInv
<1>3. ASSUME NEW r \in Requests, Step(r) PROVE OrderInv'
  <2>0. /\ pc \in [Requests -> Answered \cup {"idle", "read", "checked", "lost"}]
        /\ Number[The(r)] \in Nat /\ (pc[r] = "checked" => r \in Single)
    BY EventLogAssumption, BatchFacts DEF EventLogAssumption, LogInv, TypeOK, CallInv
  <2>1. ASSUME NEW q \in Requests, pc'[q] = "read" PROVE Number[The(q)] > 0
    <3>1. \A p \in Requests : pc[p] = "read" => Number[The(p)] > 0
      BY DEF OrderInv
    <3>2. CASE AppendBatch(r) \/ AppendInner(r)
      BY <2>0, <2>1, <3>1, <3>2 DEF AppendBatch, AppendInner, AppendManyAtomic, Goto
    <3>3. CASE Audit(r)
      BY <2>0, <2>1, <3>1, <3>3 DEF Audit, Goto
    <3>4. CASE CheckOrder(r)
      BY <2>0, <2>1, <3>1, <3>4 DEF CheckOrder, Goto
    <3>. QED  BY <1>3, <3>2, <3>3, <3>4 DEF Step
  <2>2. ASSUME NEW a \in Streams, Adds(r) PROVE InOrder(a)'
    <3>1. CASE r \notin Single
      BY <2>2, <3>1, OrderOfOthers DEF BatchesUnnumbered
    <3>2. CASE r \in Single
      <4>1. Len(Batch[r]) = 1 /\ Batch[r][1] = The(r)
        BY <3>2, BatchFacts DEF The
      <4>2. CASE Stream[The(r)] = a /\ Number[The(r)] > 0
        BY <2>2, <3>2, <4>2, OrderOfAppend
      <4>3. CASE ~ (Stream[The(r)] = a /\ Number[The(r)] > 0)
        <5>1. \A i \in 1..Len(Batch[r]) : Batch[r][i] = The(r)
          BY <4>1
        <5>2. \A i \in 1..Len(Batch[r]) : ~ (Stream[Batch[r][i]] = a /\ Number[Batch[r][i]] > 0)
          BY <4>3, <5>1
        <5>. QED  BY <2>2, <5>2, OrderOfOthers
      <4>. QED  BY <4>2, <4>3
    <3>. QED  BY <3>1, <3>2
  <2>3. ASSUME NEW a \in Streams, ~ Adds(r) PROVE InOrder(a)'
    <3>1. CASE AppendBatch(r)
      <4>1. /\ mem' = mem /\ booted' = booted /\ last' = last /\ seen' = seen
            /\ pc' = [pc EXCEPT ![r] = "failed"] /\ r \notin Single
        BY <2>3, <3>1 DEF AppendBatch, AppendManyAtomic, Publish, Goto, Adds
      <4>. QED  BY <4>1, OrderOfWaiting
    <3>2. CASE AppendInner(r)
      <4>1. /\ mem' = mem /\ booted' = booted /\ last' = last /\ seen' = seen
            /\ pc' = [pc EXCEPT ![r] = "failed"] /\ pc[r] = "checked"
        BY <2>0, <2>3, <3>2 DEF AppendInner, AppendManyAtomic, Publish, Goto, Adds
      <4>. QED  BY <4>1, OrderOfWaiting
    <3>. QED  BY <1>3, <3>1, <3>2, OrderOfAudit, OrderOfCheck DEF Step
  <2>. QED  BY <2>1, <2>2, <2>3 DEF OrderInv
<1>. QED  BY <1>1, <1>2, <1>3 DEF Next

-----------------------------------------------------------------------------
LEMMA PieceOf ==
  ASSUME NEW s \in Seq(Ids), NEW log \in Seq(Ids), NEW n \in 0..Len(log) - Len(s),
         \A i \in 1..Len(s) : log[n + i] = s[i]
  PROVE  SubSeq(log, n + 1, n + Len(s)) = s
<1>. DEFINE from == n + 1
            to   == n + Len(s)
            p    == SubSeq(log, from, to)
<1>1. Len(s) \in Nat /\ Len(log) \in Nat /\ from \in Int /\ to \in Int
  OBVIOUS
<1>2. \A i \in from..to : log[i] \in Ids
  BY <1>1
<1>3. from <= to + 1 /\ to - from + 1 = Len(s) /\ (from <= to <=> Len(s) # 0)
  BY <1>1
<1>4. /\ p \in Seq(Ids)
      /\ Len(p) = IF from <= to THEN to - from + 1 ELSE 0
      /\ \A i \in 1..to - from + 1 : p[i] = log[from + i - 1]
  <2>. HIDE DEF from, to
  <2>. QED  BY <1>1, <1>2, SubSeqProperties
<1>5. Len(p) = Len(s)
  <2>. HIDE DEF p, from, to
  <2>. QED  BY <1>3, <1>4
<1>6. ASSUME NEW i \in 1..Len(s) PROVE p[i] = s[i]
  <2>1. from + i - 1 = n + i
    BY <1>1
  <2>. HIDE DEF p, from, to
  <2>. QED  BY <1>3, <1>4, <2>1
<1>7. p = s
  <2>. HIDE DEF p
  <2>. QED  BY <1>4, <1>5, <1>6, SeqEqual
<1>. QED  BY <1>7 DEF p

LEMMA BeginsConcat ==
  ASSUME NEW s \in Seq(Ids), NEW t \in Seq(Ids), NEW b \in Seq(Ids), Begins(s, t)
  PROVE  Begins(s, t \o b)
<1>1. Len(s) \in Nat /\ Len(t) \in Nat /\ Len(b) \in Nat /\ Len(t \o b) = Len(t) + Len(b)
  OBVIOUS
<1>2. Len(s) <= Len(t) /\ \A i \in 1..Len(s) : t[i] = s[i]
  BY DEF Begins
<1>3. \A i \in 1..Len(t) : (t \o b)[i] = t[i]
  OBVIOUS
<1>4. \A i \in 1..Len(s) : i \in 1..Len(t)
  BY <1>1, <1>2
<1>5. Len(s) <= Len(t \o b)
  BY <1>1, <1>2
<1>. QED  BY <1>2, <1>3, <1>4, <1>5 DEF Begins

LEMMA BeginsIsPrefix ==
  ASSUME NEW s \in Seq(Ids), NEW t \in Seq(Ids), Begins(s, t)
  PROVE  IsPrefix(s, t)
<1>1. Len(s) \in Nat /\ 0 \in 0..Len(t) - Len(s) /\ 0 \in 0..Len(s) - Len(s) /\ Len(s) <= Len(t)
  BY DEF Begins
<1>2. (\A i \in 1..Len(s) : t[0 + i] = s[i]) /\ \A i \in 1..Len(s) : s[0 + i] = s[i]
  BY DEF Begins
<1>3. SubSeq(t, 0 + 1, 0 + Len(s)) = s /\ SubSeq(s, 0 + 1, 0 + Len(s)) = s
  BY <1>1, <1>2, PieceOf
<1>4. 0 + 1 = 1 /\ 0 + Len(s) = Len(s)
  BY <1>1
<1>5. SubSeq(t, 1, Len(s)) = s /\ SubSeq(s, 1, Len(s)) = s
  BY <1>3, <1>4
<1>. QED  BY <1>1, <1>5 DEF IsPrefix

LEMMA StoreTypes == Spec => []TypeOK
BY LogInvariant, PTL DEF LogInv

\* INV-001: whatever is appended, fails or is started again, the file is only added to,
\* unless the store could not load it.
THEOREM FileGrows == Spec => FileOnlyGrows
<1>1. LogInv /\ [Next]_vars => [IsPrefix(file, file') \/ blind]_vars
  <2>. SUFFICES ASSUME LogInv, Next, ~ blind PROVE IsPrefix(file, file')
    OBVIOUS
  <2>1. LogInv'
    BY LogKept
  <2>2. file \in Seq(Ids) /\ file' \in Seq(Ids) /\ mem.events \in Seq(Ids) /\ Begins(file, mem.events)
    BY <2>1 DEF LogInv, TypeOK
  <2>3. CASE file' = file
    <3>1. Begins(file, file')
      BY <2>2, <2>3 DEF Begins
    <3>. QED  BY <2>2, <3>1, BeginsIsPrefix
  <2>4. ASSUME NEW r \in Requests, Adds(r), file' = mem'.events PROVE IsPrefix(file, file')
    <3>1. file' = mem.events \o Batch[r] /\ Batch[r] \in Seq(Ids)
      BY <2>4, Added, BatchFacts
    <3>2. Begins(file, mem.events \o Batch[r])
      BY <2>2, <3>1, BeginsConcat
    <3>. QED  BY <2>2, <3>1, <3>2, BeginsIsPrefix
  <2>5. file' = file \/ \E r \in Requests : Adds(r) /\ file' = mem'.events
    BY Steps DEF Adds, Persist, GoesOn, Restart, disk
  <2>. QED  BY <2>3, <2>4, <2>5
<1>. QED  BY <1>1, LogInvariant, PTL DEF Spec, FileOnlyGrows

LEMMA LogInvSays ==
  LogInv => IndexesMatchLog /\ WholeBatches /\ BatchAnswerIsTrue /\ FileIsShown /\ CausationClosed
<1>. SUFFICES ASSUME LogInv
              PROVE  /\ IndexesMatchLog /\ WholeBatches /\ BatchAnswerIsTrue /\ FileIsShown
                     /\ CausationClosed
  OBVIOUS
<1>1. /\ mem.events \in Seq(Ids) /\ file \in Seq(Ids) /\ (blind \/ Begins(file, mem.events))
      /\ Closed(mem.events) /\ Closed(file)
  BY DEF LogInv, TypeOK
<1>2. ASSUME NEW r \in Requests PROVE Batch[r] \in Seq(Ids) /\ Range(Batch[r]) = {Batch[r][i] : i \in 1..Len(Batch[r])}
  BY BatchFacts DEF Range
<1>3. WholeBatches
  <2>. SUFFICES ASSUME NEW r \in Requests, NEW log \in {mem.events, file}
               PROVE  \/ Range(Batch[r]) \cap Range(log) = {}
                      \/ \E n \in 0..Len(log) - Len(Batch[r]) : SubSeq(log, n + 1, n + Len(Batch[r])) = Batch[r]
    BY DEF WholeBatches
  <2>1. log \in Seq(Ids) /\ Range(log) = {log[j] : j \in 1..Len(log)} /\ Whole(log, r) /\ Batch[r] \in Seq(Ids)
    BY <1>1, BatchFacts DEF LogInv, CallInv, Range
  <2>2. CASE \A i \in 1..Len(Batch[r]) : \A j \in 1..Len(log) : log[j] # Batch[r][i]
    BY <1>2, <2>1, <2>2
  <2>3. ASSUME NEW n \in 0..Len(log) - Len(Batch[r]), \A i \in 1..Len(Batch[r]) : log[n + i] = Batch[r][i]
        PROVE  SubSeq(log, n + 1, n + Len(Batch[r])) = Batch[r]
    BY <2>1, <2>3, PieceOf
  <2>. QED  BY <2>1, <2>2, <2>3 DEF Whole
<1>4. BatchAnswerIsTrue
  <2>1. ASSUME NEW r \in Requests \ Single, pc[r] = "accepted"
        PROVE  Range(Batch[r]) \subseteq Range(file) \cup forgotten
    <3>1. Range(file) = {file[j] : j \in 1..Len(file)}
      BY <1>1 DEF Range
    <3>2. \A i \in 1..Len(Batch[r]) :
            Batch[r][i] \in forgotten \/ \E j \in 1..Len(file) : file[j] = Batch[r][i]
      BY <2>1 DEF LogInv, CallInv
    <3>3. ASSUME NEW e \in Range(Batch[r]) PROVE e \in Range(file) \cup forgotten
      <4>1. PICK i \in 1..Len(Batch[r]) : e = Batch[r][i]
        BY <1>2
      <4>2. e \in forgotten \/ \E j \in 1..Len(file) : file[j] = e
        BY <3>2, <4>1
      <4>. QED  BY <3>1, <4>2
    <3>. QED  BY <3>3
  <2>2. ASSUME NEW r \in Requests \ Single, pc[r] = "failed"
        PROVE  Range(Batch[r]) \cap (Range(mem.events) \cup Range(file) \cup published) = {}
    <3>1. /\ Range(mem.events) = {mem.events[j] : j \in 1..Len(mem.events)}
          /\ Range(file) = {file[j] : j \in 1..Len(file)}
      BY <1>1 DEF Range
    <3>2. \A i \in 1..Len(Batch[r]) : /\ Batch[r][i] \notin published
                                      /\ \A j \in 1..Len(mem.events) : mem.events[j] # Batch[r][i]
                                      /\ \A j \in 1..Len(file) : file[j] # Batch[r][i]
      BY <2>2 DEF LogInv, CallInv
    <3>3. ASSUME NEW e \in Range(Batch[r])
          PROVE  e \notin Range(mem.events) /\ e \notin Range(file) /\ e \notin published
      <4>1. PICK i \in 1..Len(Batch[r]) : e = Batch[r][i]
        BY <1>2
      <4>. QED  BY <3>1, <3>2, <4>1
    <3>. QED  BY <3>3
  <2>. QED  BY <2>1, <2>2 DEF BatchAnswerIsTrue
<1>5. CausationClosed
  BY <1>1 DEF Closed, CausationClosed
<1>6. FileIsShown
  BY <1>1, BeginsIsPrefix DEF FileIsShown
<1>. QED  BY <1>3, <1>4, <1>5, <1>6 DEF LogInv

\* The indexes and the counter show the log; a batch is whole or absent; an answer is
\* true, until a store that could not load the file replaces it; the file is shown unless
\* it could not be loaded; a cause comes before its effect: for any batches, failures and
\* restarts, with numbered calls in flight together or not.
THEOREM RecordIsTrue ==
  Spec => [](/\ IndexesMatchLog /\ WholeBatches /\ BatchAnswerIsTrue /\ FileIsShown
             /\ CausationClosed)
BY LogInvariant, LogInvSays, PTL

\* All of it, the sequences of a stream included, when one numbered append of a stream
\* is in flight at a time and batches carry no sequence.
THEOREM StoreIsTrue ==
  ~ Overlap /\ BatchesUnnumbered => (Spec => []StoreMatchesFile)
<1>. SUFFICES ASSUME ~ Overlap, BatchesUnnumbered PROVE Spec => []StoreMatchesFile
  OBVIOUS
<1>1. LogInv /\ OrderInv => SequencesInOrder
  <2>. SUFFICES ASSUME LogInv, OrderInv, NEW a \in Streams, NEW n \in Numbered(a)
               PROVE  /\ \A m \in Numbered(a) : m < n => Number[mem.events[m]] < Number[mem.events[n]]
                      /\ \A i \in 1..Number[mem.events[n]] - 1 :
                           \/ \E m \in Numbered(a) : Number[mem.events[m]] = i
                           \/ \E r \in Single : pc[r] = "failed" /\ Stream[The(r)] = a /\ Number[The(r)] = i
    BY DEF SequencesInOrder
  <2>1. InOrder(a) /\ last[a] \in Nat
    BY DEF LogInv, TypeOK, OrderInv
  <2>2. Number[mem.events[n]] \in Nat /\ Number[mem.events[n]] <= last[a]
    <3>1. mem.events \in Seq(Ids) /\ Number \in [Ids -> Nat] /\ booted \in 0..Len(mem.events)
      BY EventLogAssumption DEF EventLogAssumption, LogInv, TypeOK
    <3>2. n \in 1..Len(mem.events)
      BY <3>1 DEF Numbered
    <3>. QED  BY <2>1, <3>1, <3>2 DEF InOrder
  <2>3. ASSUME NEW i \in 1..Number[mem.events[n]] - 1
        PROVE  \/ \E m \in Numbered(a) : Number[mem.events[m]] = i
               \/ \E r \in Single : pc[r] = "failed" /\ Stream[The(r)] = a /\ Number[The(r)] = i
    <3>1. i \in 1..last[a] /\ i < last[a] /\ i > 0
      BY <2>1, <2>2
    <3>2. \A q \in Single : pc[q] = "checked" /\ Stream[The(q)] = a /\ Number[The(q)] = i => FALSE
      BY <2>1, <3>1 DEF InOrder, Live
    <3>. QED  BY <2>1, <3>1, <3>2 DEF InOrder
  <2>. QED  BY <2>1, <2>3 DEF InOrder
<1>2. Init => LogInv /\ OrderInv
  BY LogInit, OrderInit
<1>3. (LogInv /\ OrderInv) /\ [Next]_vars => (LogInv /\ OrderInv)'
  BY LogKept, OrderKept
<1>4. LogInv /\ OrderInv => StoreMatchesFile
  BY <1>1, LogInvSays DEF StoreMatchesFile
<1>. QED  BY <1>2, <1>3, <1>4, PTL DEF Spec

-----------------------------------------------------------------------------
(***************************************************************************)
(* The sagas.                                                              *)
(***************************************************************************)

\* A plan is a list of steps, as the compiled saga definitions are.
PlansAreLists ==
  /\ Plan \in [Sagas -> Seq([command : BOOLEAN, compensation : BOOLEAN])]
  /\ MaxCrashes \in Nat

Labels  == {"idle", "loop", "completed", "failed", "compensate", "undo", "answered", "thrown", "gone"}
Effects == [step : Nat, undo : BOOLEAN]
Records == [step : Nat, state : {"COMPENSATED", "FAILED"}]

Shapes ==
  /\ at \in [Sagas -> Labels] /\ status \in [Sagas -> SI!Statuses]
  /\ step \in [Sagas -> Nat]
  /\ completed \in [Sagas -> Seq(Nat)] /\ failed \in [Sagas -> Seq(Nat)]
  /\ undone \in [Sagas -> Seq(Records)] /\ effects \in [Sagas -> Seq(Effects)]
  /\ crashes \in 0..MaxCrashes

\* Steps are steps of the plan.
InPlan(s) ==
  /\ step[s] <= Len(Plan[s]) + 1
  /\ \A n \in 1..Len(failed[s]) : failed[s][n] \in 1..Len(Plan[s])
  /\ \A n \in 1..Len(undone[s]) : undone[s][n].step \in 1..Len(Plan[s])
  /\ \A n \in 1..Len(effects[s]) : effects[s][n].step \in 1..Len(Plan[s])

\* The status the registry shows at each point of start and compensate.
Shown(s) ==
  /\ at[s] = "idle" => status[s] = "none" /\ completed[s] = <<>> /\ effects[s] = <<>>
  /\ at[s] \in {"loop", "completed"} => status[s] = "RUNNING"
  /\ at[s] \in {"failed", "compensate"} => status[s] = "FAILED"
  /\ at[s] = "undo" => status[s] = "COMPENSATING"
  /\ at[s] = "gone" => status[s] = "none"
  /\ status[s] = "COMPLETED" => Len(completed[s]) = Len(Plan[s])

\* The completed steps are 1..k, and k follows the step at hand.
Counts(s) ==
  /\ \A n \in 1..Len(completed[s]) : completed[s][n] = n
  /\ Len(completed[s]) <= Len(Plan[s])
  /\ at[s] = "loop" => step[s] = Len(completed[s]) + 1
  /\ at[s] = "completed" => step[s] = Len(completed[s]) /\ step[s] > 0
  /\ at[s] = "undo" => step[s] <= Len(completed[s])

Ordered(s) ==
  \A m, n \in 1..Len(effects[s]) : m < n =>
    /\ ~ effects[s][m].undo /\ ~ effects[s][n].undo => effects[s][m].step < effects[s][n].step
    /\ effects[s][m].undo => effects[s][n].undo /\ effects[s][n].step < effects[s][m].step

\* What an effect may be at the point the saga has reached.
Bounded(s) ==
  \A n \in 1..Len(effects[s]) :
    /\ status[s] \in {"RUNNING", "FAILED", "COMPLETED"} => ~ effects[s][n].undo
    /\ at[s] \in {"loop", "completed"} => effects[s][n].step <= Len(completed[s])
    /\ at[s] = "undo" /\ effects[s][n].undo => effects[s][n].step > step[s]
    /\ at[s] # "gone" =>
         IF effects[s][n].undo THEN effects[s][n].step <= Len(completed[s])
         ELSE \/ effects[s][n].step <= Len(completed[s])
              \/ \E m \in 1..Len(failed[s]) : failed[s][m] = effects[s][n].step

\* Every completed step with a command has taken effect.
Acted(s) ==
  \A i \in 1..Len(completed[s]) :
    Plan[s][i].command => \E n \in 1..Len(effects[s]) : effects[s][n] = SI!Done(i)

\* A step that can be undone has been, or it is on record that it was not.
Settled(s, i) ==
  Plan[s][i].compensation =>
    \/ \E n \in 1..Len(effects[s]) : effects[s][n] = SI!Undone(i)
    \/ \E n \in 1..Len(undone[s]) : undone[s][n] = [step |-> i, state |-> "FAILED"]

Undid(s) ==
  /\ at[s] = "undo" => \A i \in step[s] + 1..Len(completed[s]) : Settled(s, i)
  /\ status[s] = "COMPENSATED" => \A i \in 1..Len(completed[s]) : Settled(s, i)

Progress(s) == InPlan(s) /\ Shown(s) /\ Counts(s) /\ Ordered(s) /\ Bounded(s) /\ Acted(s) /\ Undid(s)
SagaInv == Shapes /\ \A s \in Sagas : Progress(s)

-----------------------------------------------------------------------------
LEMMA Members ==
  ASSUME NEW T, NEW q \in Seq(T)
  PROVE  Len(q) \in Nat /\ DOMAIN q = 1..Len(q) /\ \A i \in 1..Len(q) : q[i] \in T
OBVIOUS

LEMMA InSubset ==
  ASSUME NEW T, NEW U, NEW q \in Seq(T), \A n \in 1..Len(q) : q[n] \in U
  PROVE  q \in Seq(U)
OBVIOUS

LEMMA PlanFacts ==
  ASSUME PlansAreLists, NEW s \in Sagas
  PROVE  /\ Len(Plan[s]) \in Nat /\ SI!Steps(s) = 1..Len(Plan[s])
         /\ \A i \in 1..Len(Plan[s]) : Plan[s][i].command \in BOOLEAN /\ Plan[s][i].compensation \in BOOLEAN
<1>1. Plan[s] \in Seq([command : BOOLEAN, compensation : BOOLEAN])
  BY DEF PlansAreLists
<1>2. /\ Len(Plan[s]) \in Nat /\ DOMAIN Plan[s] = 1..Len(Plan[s])
      /\ \A i \in 1..Len(Plan[s]) : Plan[s][i] \in [command : BOOLEAN, compensation : BOOLEAN]
  BY <1>1, Members, Zenon
<1>. QED  BY <1>2 DEF SI!Steps

\* A list that grows by one element keeps the others where they are.
LEMMA Grown ==
  ASSUME NEW T, NEW q \in Seq(T), NEW e \in T
  PROVE  /\ Append(q, e) \in Seq(T) /\ Len(Append(q, e)) = Len(q) + 1 /\ Len(q) \in Nat
         /\ \A n \in 1..Len(q) : Append(q, e)[n] = q[n]
         /\ Append(q, e)[Len(q) + 1] = e
         /\ \A n \in 1..Len(q) + 1 : n \in 1..Len(q) \/ n = Len(q) + 1
OBVIOUS

\* What a step of saga s leaves of another.
Same(d) ==
  /\ at'[d] = at[d] /\ status'[d] = status[d] /\ step'[d] = step[d]
  /\ completed'[d] = completed[d] /\ failed'[d] = failed[d]
  /\ undone'[d] = undone[d] /\ effects'[d] = effects[d]

LEMMA SameProgress ==
  ASSUME NEW d \in Sagas, Progress(d), Same(d)
  PROVE  Progress(d)'
BY DEF Progress, Same, InPlan, Shown, Counts, Ordered, Bounded, Acted, Undid, Settled

-----------------------------------------------------------------------------
(***************************************************************************)
(* The steps that change no list: the event before or after a step.        *)
(***************************************************************************)
Quiet(s, label, st, n) ==
  /\ at' = [at EXCEPT ![s] = label] /\ status' = [status EXCEPT ![s] = st]
  /\ step' = [step EXCEPT ![s] = n]
  /\ UNCHANGED <<completed, failed, undone, effects, crashes>>

LEMMA QuietSteps ==
  ASSUME PlansAreLists, SagaInv, NEW s \in Sagas,
         SI!Start(s) \/ SI!EmitFailed(s) \/ SI!Complete(s) \/ SI!BeginCompensation(s) \/ SI!SkipStep(s) \/ SI!EndCompensation(s)
  PROVE  \/ /\ at[s] = "idle"
            /\ Quiet(s, "loop", "RUNNING", 1) \/ Quiet(s, "thrown", "RUNNING", step[s])
         \/ /\ at[s] = "failed"
            /\ Quiet(s, "compensate", status[s], step[s]) \/ Quiet(s, "thrown", status[s], step[s])
         \/ /\ at[s] = "loop" /\ step[s] \notin SI!Steps(s)
            /\ Quiet(s, "answered", "COMPLETED", step[s]) \/ Quiet(s, "thrown", "COMPLETED", step[s])
         \/ /\ at[s] = "compensate"
            /\ \/ Quiet(s, "undo", "COMPENSATING", Len(completed[s]))
               \/ Quiet(s, "thrown", "COMPENSATING", Len(completed[s]))
         \/ /\ at[s] = "undo" /\ step[s] > 0 /\ ~ Plan[s][completed[s][step[s]]].compensation
            /\ Quiet(s, "undo", status[s], step[s] - 1)
         \/ /\ at[s] = "undo" /\ step[s] = 0
            /\ Quiet(s, "answered", "COMPENSATED", 0) \/ Quiet(s, "thrown", "COMPENSATED", 0)
<1>0. /\ at \in [Sagas -> Labels] /\ status \in [Sagas -> SI!Statuses] /\ step \in [Sagas -> Nat]
  BY DEF SagaInv, Shapes
<1>1. CASE SI!Start(s)
  BY <1>0, <1>1 DEF SI!Start, SI!Become, SI!Goto, Quiet, SI!CanFail
<1>2. CASE SI!EmitFailed(s)
  BY <1>0, <1>2 DEF SI!EmitFailed, SI!Goto, Quiet, SI!CanFail
<1>3. CASE SI!Complete(s)
  BY <1>0, <1>3 DEF SI!Complete, SI!Become, SI!Goto, Quiet, SI!CanFail
<1>4. CASE SI!BeginCompensation(s)
  BY <1>0, <1>4 DEF SI!BeginCompensation, SI!Become, SI!Goto, Quiet, SI!CanFail
<1>5. CASE SI!SkipStep(s)
  BY <1>0, <1>5 DEF SI!SkipStep, Quiet
<1>6. CASE SI!EndCompensation(s)
  BY <1>0, <1>6 DEF SI!EndCompensation, SI!Become, SI!Goto, Quiet, SI!CanFail
<1>. QED  BY <1>1, <1>2, <1>3, <1>4, <1>5, <1>6

LEMMA QuietIs ==
  ASSUME Shapes, NEW s \in Sagas, NEW label \in Labels, NEW st \in SI!Statuses, NEW n \in Nat,
         Quiet(s, label, st, n)
  PROVE  /\ Shapes' /\ \A d \in Sagas \ {s} : Same(d)
         /\ at'[s] = label /\ status'[s] = st /\ step'[s] = n
         /\ completed'[s] = completed[s] /\ failed'[s] = failed[s]
         /\ undone'[s] = undone[s] /\ effects'[s] = effects[s]
BY DEF Shapes, Quiet, Same

LEMMA QuietKeeps ==
  ASSUME PlansAreLists, SagaInv, NEW s \in Sagas,
         SI!Start(s) \/ SI!EmitFailed(s) \/ SI!Complete(s) \/ SI!BeginCompensation(s) \/ SI!SkipStep(s) \/ SI!EndCompensation(s)
  PROVE  Shapes' /\ Progress(s)' /\ \A d \in Sagas \ {s} : Same(d)
<1>0. /\ Shapes /\ at[s] \in Labels /\ status[s] \in SI!Statuses /\ step[s] \in Nat
      /\ Len(completed[s]) \in Nat /\ Len(effects[s]) \in Nat /\ Len(undone[s]) \in Nat /\ Len(failed[s]) \in Nat
      /\ Len(Plan[s]) \in Nat /\ SI!Steps(s) = 1..Len(Plan[s]) /\ Len(<<>>) = 0
      /\ \A n \in 1..Len(effects[s]) : effects[s][n] \in Effects
  BY PlanFacts DEF SagaInv, Shapes
<1>1. InPlan(s) /\ Shown(s) /\ Counts(s) /\ Ordered(s) /\ Bounded(s) /\ Acted(s) /\ Undid(s)
  BY DEF SagaInv, Progress
<1>. DEFINE Lists == /\ completed'[s] = completed[s] /\ failed'[s] = failed[s]
                     /\ undone'[s] = undone[s] /\ effects'[s] = effects[s]
<1>2. Lists => Ordered(s)' /\ Acted(s)' /\ (InPlan(s)' <=> step'[s] <= Len(Plan[s]) + 1)
  BY <1>1 DEF InPlan, Ordered, Acted
<1>3. ASSUME at[s] = "idle", NEW label \in {"loop", "thrown"}, NEW n \in {1, step[s]},
             label = "loop" => n = 1, Quiet(s, label, "RUNNING", n)
      PROVE  Shapes' /\ Progress(s)' /\ \A d \in Sagas \ {s} : Same(d)
  <2>1. /\ Shapes' /\ \A d \in Sagas \ {s} : Same(d)
        /\ at'[s] = label /\ status'[s] = "RUNNING" /\ step'[s] = n /\ Lists
    BY <1>0, <1>3, QuietIs DEF Labels, SI!Statuses
  <2>2. completed[s] = <<>> /\ effects[s] = <<>>
    BY <1>1, <1>3 DEF Shown
  <2>3. InPlan(s)' /\ Ordered(s)' /\ Acted(s)'
    BY <1>0, <1>1, <1>2, <1>3, <2>1 DEF InPlan
  <2>4. Shown(s)' /\ Undid(s)'
    BY <1>3, <2>1 DEF Shown, Undid
  <2>5. Counts(s)' /\ Bounded(s)'
    BY <1>0, <1>3, <2>1, <2>2 DEF Counts, Bounded
  <2>. QED  BY <2>1, <2>3, <2>4, <2>5 DEF Progress
<1>4. ASSUME at[s] = "failed", NEW label \in {"compensate", "thrown"}, Quiet(s, label, status[s], step[s])
      PROVE  Shapes' /\ Progress(s)' /\ \A d \in Sagas \ {s} : Same(d)
  <2>1. /\ Shapes' /\ \A d \in Sagas \ {s} : Same(d)
        /\ at'[s] = label /\ status'[s] = status[s] /\ step'[s] = step[s] /\ Lists
    BY <1>0, <1>4, QuietIs DEF Labels
  <2>2. InPlan(s)' /\ Ordered(s)' /\ Acted(s)' /\ status[s] = "FAILED"
    BY <1>1, <1>2, <1>4, <2>1 DEF InPlan, Shown
  <2>3. Shown(s)' /\ Undid(s)'
    BY <1>4, <2>1, <2>2 DEF Shown, Undid
  <2>4. Counts(s)' /\ Bounded(s)'
    BY <1>1, <1>4, <2>1, <2>2 DEF Counts, Bounded
  <2>. QED  BY <2>1, <2>2, <2>3, <2>4 DEF Progress
<1>5. ASSUME at[s] = "loop", step[s] \notin SI!Steps(s), NEW label \in {"answered", "thrown"},
             Quiet(s, label, "COMPLETED", step[s])
      PROVE  Shapes' /\ Progress(s)' /\ \A d \in Sagas \ {s} : Same(d)
  <2>1. /\ Shapes' /\ \A d \in Sagas \ {s} : Same(d)
        /\ at'[s] = label /\ status'[s] = "COMPLETED" /\ step'[s] = step[s] /\ Lists
    BY <1>0, <1>5, QuietIs DEF Labels, SI!Statuses
  <2>2. InPlan(s)' /\ Ordered(s)' /\ Acted(s)'
    BY <1>1, <1>2, <2>1 DEF InPlan
  <2>3. Len(completed[s]) = Len(Plan[s]) /\ status[s] = "RUNNING"
    BY <1>0, <1>1, <1>5 DEF Counts, Shown
  <2>4. Shown(s)' /\ Undid(s)'
    BY <1>5, <2>1, <2>3 DEF Shown, Undid
  <2>5. Counts(s)' /\ Bounded(s)'
    BY <1>1, <1>5, <2>1, <2>3 DEF Counts, Bounded
  <2>. QED  BY <2>1, <2>2, <2>4, <2>5 DEF Progress
<1>6. ASSUME at[s] = "compensate", NEW label \in {"undo", "thrown"},
             Quiet(s, label, "COMPENSATING", Len(completed[s]))
      PROVE  Shapes' /\ Progress(s)' /\ \A d \in Sagas \ {s} : Same(d)
  <2>1. /\ Shapes' /\ \A d \in Sagas \ {s} : Same(d)
        /\ at'[s] = label /\ status'[s] = "COMPENSATING" /\ step'[s] = Len(completed[s]) /\ Lists
    BY <1>0, <1>6, QuietIs DEF Labels, SI!Statuses
  <2>2. InPlan(s)' /\ Ordered(s)' /\ Acted(s)' /\ status[s] = "FAILED"
    BY <1>0, <1>1, <1>2, <1>6, <2>1 DEF Counts, Shown
  <2>3. Shown(s)' /\ Undid(s)'
    BY <1>0, <1>6, <2>1 DEF Shown, Undid
  <2>4. Counts(s)' /\ Bounded(s)'
    BY <1>0, <1>1, <1>6, <2>1, <2>2 DEF Counts, Bounded
  <2>. QED  BY <2>1, <2>2, <2>3, <2>4 DEF Progress
<1>7. ASSUME at[s] = "undo", step[s] > 0, ~ Plan[s][completed[s][step[s]]].compensation,
             Quiet(s, "undo", status[s], step[s] - 1)
      PROVE  Shapes' /\ Progress(s)' /\ \A d \in Sagas \ {s} : Same(d)
  <2>1. /\ Shapes' /\ \A d \in Sagas \ {s} : Same(d)
        /\ at'[s] = "undo" /\ status'[s] = status[s] /\ step'[s] = step[s] - 1 /\ Lists
    BY <1>0, <1>7, QuietIs DEF Labels
  <2>2. /\ step[s] - 1 <= Len(Plan[s]) + 1 /\ step[s] - 1 \in Nat
        /\ status[s] = "COMPENSATING"
    BY <1>0, <1>1, <1>7 DEF InPlan, Shown
  <2>3. step[s] <= Len(completed[s]) /\ completed[s][step[s]] = step[s]
    BY <1>0, <1>1, <1>7 DEF Counts
  <2>4. Settled(s, step[s])
    BY <1>7, <2>3 DEF Settled
  <2>5. \A i \in (step[s] - 1) + 1..Len(completed[s]) : Settled(s, i)
    <3>1. \A i \in (step[s] - 1) + 1..Len(completed[s]) : i = step[s] \/ i \in step[s] + 1..Len(completed[s])
      BY <1>0
    <3>. QED  BY <1>1, <1>7, <2>4, <3>1 DEF Undid
  <2>6. Shown(s)' /\ Undid(s)'
    BY <2>1, <2>2, <2>5 DEF Shown, Undid, Settled
  <2>7. Counts(s)'
    BY <1>0, <1>1, <1>7, <2>1, <2>2 DEF Counts
  <2>8. \A n \in 1..Len(effects[s]) : effects[s][n].undo => effects[s][n].step > step[s] - 1
    BY <1>0, <1>1, <1>7 DEF Bounded, Effects
  <2>9. Bounded(s)'
    BY <1>1, <1>7, <2>1, <2>2, <2>8 DEF Bounded
  <2>. QED  BY <1>2, <2>1, <2>2, <2>6, <2>7, <2>9 DEF Progress
<1>8. ASSUME at[s] = "undo", step[s] = 0, NEW label \in {"answered", "thrown"},
             Quiet(s, label, "COMPENSATED", 0)
      PROVE  Shapes' /\ Progress(s)' /\ \A d \in Sagas \ {s} : Same(d)
  <2>1. /\ Shapes' /\ \A d \in Sagas \ {s} : Same(d)
        /\ at'[s] = label /\ status'[s] = "COMPENSATED" /\ step'[s] = 0 /\ Lists
    BY <1>0, <1>8, QuietIs DEF Labels, SI!Statuses
  <2>2. InPlan(s)' /\ Ordered(s)' /\ Acted(s)'
    BY <1>0, <1>2, <2>1
  <2>3. \A i \in 1..Len(completed[s]) : Settled(s, i)
    BY <1>1, <1>8 DEF Undid
  <2>4. Shown(s)' /\ Undid(s)'
    BY <1>8, <2>1, <2>3 DEF Shown, Undid, Settled
  <2>5. Counts(s)' /\ Bounded(s)'
    BY <1>1, <1>8, <2>1 DEF Counts, Bounded
  <2>. QED  BY <2>1, <2>2, <2>4, <2>5 DEF Progress
<1>. QED  BY <1>0, <1>3, <1>4, <1>5, <1>6, <1>7, <1>8, QuietSteps

-----------------------------------------------------------------------------
(***************************************************************************)
(* The steps that add to a list.                                           *)
(***************************************************************************)
\* The effects of s are what they were, or e is added.
Effect(s, e) == effects' = effects \/ effects' = [effects EXCEPT ![s] = Append(@, e)]

LEMMA EffectIs ==
  ASSUME Shapes, NEW s \in Sagas, NEW e \in Effects, Effect(s, e), Ordered(s),
         \A n \in 1..Len(effects[s]) :
           /\ ~ effects[s][n].undo /\ ~ e.undo => effects[s][n].step < e.step
           /\ effects[s][n].undo => e.undo /\ e.step < effects[s][n].step
  PROVE  /\ effects' \in [Sagas -> Seq(Effects)] /\ Ordered(s)'
         /\ \A d \in Sagas \ {s} : effects'[d] = effects[d]
         /\ \A n \in 1..Len(effects[s]) : n \in 1..Len(effects'[s]) /\ effects'[s][n] = effects[s][n]
         /\ \A n \in 1..Len(effects'[s]) : n \in 1..Len(effects[s]) \/ effects'[s][n] = e
         /\ effects' # effects => \E n \in 1..Len(effects'[s]) : effects'[s][n] = e
<1>0. effects \in [Sagas -> Seq(Effects)] /\ effects[s] \in Seq(Effects) /\ Len(effects[s]) \in Nat
  BY DEF Shapes
<1>1. CASE effects' = effects
  BY <1>0, <1>1 DEF Ordered
<1>2. CASE effects' = [effects EXCEPT ![s] = Append(@, e)]
  <2>. DEFINE q == effects[s]
              N == Len(q) + 1
  <2>1. effects'[s] = Append(q, e)
    BY <1>0, <1>2
  <2>2. /\ Append(q, e) \in Seq(Effects) /\ Len(Append(q, e)) = N /\ Len(q) \in Nat
        /\ \A n \in 1..Len(q) : Append(q, e)[n] = q[n]
        /\ Append(q, e)[N] = e
        /\ \A n \in 1..N : n \in 1..Len(q) \/ n = N
    BY <1>0, Grown
  <2>3. effects' \in [Sagas -> Seq(Effects)] /\ \A d \in Sagas \ {s} : effects'[d] = effects[d]
    BY <1>0, <1>2, <2>2
  <2>. HIDE DEF q
  <2>4. /\ \A n \in 1..Len(q) : n \in 1..N /\ effects'[s][n] = q[n] /\ n < N
        /\ Len(effects'[s]) = N /\ effects'[s][N] = e /\ N \in 1..N
    BY <2>1, <2>2
  <2>. HIDE DEF N
  <2>5. ASSUME NEW m \in 1..N, NEW n \in 1..N, m < n
        PROVE  /\ ~ effects'[s][m].undo /\ ~ effects'[s][n].undo => effects'[s][m].step < effects'[s][n].step
               /\ effects'[s][m].undo => effects'[s][n].undo /\ effects'[s][n].step < effects'[s][m].step
    <3>1. m \in 1..Len(q)
      BY <2>2, <2>4, <2>5 DEF N
    <3>2. CASE n \in 1..Len(q)
      BY <2>4, <2>5, <3>1, <3>2 DEF Ordered, q
    <3>3. CASE n = N
      BY <2>4, <3>1, <3>3 DEF q
    <3>. QED  BY <2>2, <3>2, <3>3
  <2>6. Ordered(s)'
    BY <2>4, <2>5 DEF Ordered
  <2>. QED  BY <2>2, <2>3, <2>4, <2>6 DEF q
<1>. QED  BY <1>1, <1>2 DEF Effect

LEMMA EmitCompletedKeeps ==
  ASSUME PlansAreLists, SagaInv, NEW s \in Sagas, SI!EmitCompleted(s)
  PROVE  Shapes' /\ Progress(s)' /\ \A d \in Sagas \ {s} : Same(d)
<1>0. /\ Shapes /\ at[s] = "completed" /\ step[s] \in Nat /\ failed[s] \in Seq(Nat)
      /\ Len(completed[s]) \in Nat /\ Len(effects[s]) \in Nat /\ Len(undone[s]) \in Nat /\ Len(failed[s]) \in Nat
      /\ Len(Plan[s]) \in Nat
      /\ UNCHANGED <<completed, undone, effects, crashes>>
  BY PlanFacts DEF SagaInv, Shapes, SI!EmitCompleted
<1>1. InPlan(s) /\ Shown(s) /\ Counts(s) /\ Ordered(s) /\ Bounded(s) /\ Acted(s) /\ Undid(s)
  BY DEF SagaInv, Progress
<1>2. /\ step[s] = Len(completed[s]) /\ step[s] \in 1..Len(Plan[s]) /\ status[s] = "RUNNING"
      /\ \A n \in 1..Len(effects[s]) : ~ effects[s][n].undo /\ effects[s][n].step <= Len(completed[s])
  BY <1>0, <1>1 DEF Counts, Shown, Bounded
<1>3. Ordered(s)' /\ Acted(s)'
  BY <1>0, <1>1 DEF Ordered, Acted
<1>4. CASE SI!Goto(s, "loop") /\ step' = [step EXCEPT ![s] = @ + 1] /\ UNCHANGED <<status, failed>>
  <2>1. Shapes' /\ \A d \in Sagas \ {s} : Same(d)
    BY <1>0, <1>4 DEF Shapes, Same, SI!Goto, Labels
  <2>2. at'[s] = "loop" /\ step'[s] = step[s] + 1 /\ status'[s] = status[s]
    BY <1>0, <1>4 DEF Shapes, SI!Goto
  <2>3. InPlan(s)'
    <3>1. step'[s] <= Len(Plan[s]) + 1
      BY <1>0, <1>2, <2>2
    <3>2. UNCHANGED <<failed, undone, effects>>
      BY <1>0, <1>4
    <3>. QED  BY <1>1, <3>1, <3>2 DEF InPlan
  <2>4. Shown(s)' /\ Undid(s)'
    BY <1>0, <1>2, <2>2 DEF Shown, Undid
  <2>5. Counts(s)'
    BY <1>0, <1>1, <1>2, <2>2 DEF Counts
  <2>6. Bounded(s)'
    BY <1>0, <1>2, <2>2 DEF Bounded
  <2>. QED  BY <1>3, <2>1, <2>3, <2>4, <2>5, <2>6 DEF Progress
<1>5. CASE /\ failed' = [failed EXCEPT ![s] = Append(@, step[s])]
           /\ SI!Become(s, "FAILED") /\ SI!Goto(s, "failed") /\ UNCHANGED step
  <2>1. /\ Append(failed[s], step[s]) \in Seq(Nat) /\ Len(Append(failed[s], step[s])) = Len(failed[s]) + 1
        /\ \A n \in 1..Len(failed[s]) : Append(failed[s], step[s])[n] = failed[s][n]
        /\ Append(failed[s], step[s])[Len(failed[s]) + 1] = step[s]
        /\ \A n \in 1..Len(failed[s]) + 1 : n \in 1..Len(failed[s]) \/ n = Len(failed[s]) + 1
    BY <1>0, Grown
  <2>2. Shapes' /\ \A d \in Sagas \ {s} : Same(d)
    BY <1>0, <1>5, <2>1 DEF Shapes, Same, SI!Goto, SI!Become, Labels, SI!Statuses
  <2>3. at'[s] = "failed" /\ step'[s] = step[s] /\ status'[s] = "FAILED" /\ failed'[s] = Append(failed[s], step[s])
    BY <1>0, <1>5 DEF Shapes, SI!Goto, SI!Become
  <2>4. InPlan(s)'
    BY <1>0, <1>1, <1>2, <2>1, <2>3 DEF InPlan
  <2>5. Shown(s)' /\ Counts(s)' /\ Undid(s)'
    BY <1>0, <1>1, <2>3 DEF Shown, Counts, Undid
  <2>6. Bounded(s)'
    BY <1>0, <1>2, <2>3 DEF Bounded
  <2>. QED  BY <1>3, <2>2, <2>4, <2>5, <2>6 DEF Progress
<1>. QED  BY <1>4, <1>5 DEF SI!EmitCompleted, SI!CanFail

LEMMA ExecuteStepKeeps ==
  ASSUME PlansAreLists, SagaInv, NEW s \in Sagas, SI!ExecuteStep(s)
  PROVE  Shapes' /\ Progress(s)' /\ \A d \in Sagas \ {s} : Same(d)
<1>. DEFINE k == step[s]
            e == SI!Done(k)
<1>0. /\ Shapes /\ at[s] = "loop" /\ k \in Nat /\ failed[s] \in Seq(Nat) /\ completed[s] \in Seq(Nat)
      /\ Len(completed[s]) \in Nat /\ Len(effects[s]) \in Nat /\ Len(undone[s]) \in Nat /\ Len(failed[s]) \in Nat
      /\ Len(Plan[s]) \in Nat /\ k \in 1..Len(Plan[s])
      /\ UNCHANGED <<step, undone, crashes>>
  BY PlanFacts DEF SagaInv, Shapes, SI!ExecuteStep
<1>1. InPlan(s) /\ Shown(s) /\ Counts(s) /\ Ordered(s) /\ Bounded(s) /\ Acted(s) /\ Undid(s)
  BY DEF SagaInv, Progress
<1>2. /\ k = Len(completed[s]) + 1 /\ status[s] = "RUNNING"
      /\ \A n \in 1..Len(effects[s]) :
           ~ effects[s][n].undo /\ effects[s][n].step <= Len(completed[s]) /\ effects[s][n].step \in Nat
  <2>1. \A n \in 1..Len(effects[s]) : effects[s][n].step \in 1..Len(Plan[s])
    BY <1>1 DEF InPlan
  <2>. QED  BY <1>0, <1>1, <2>1 DEF Counts, Shown, Bounded
<1>3. e \in Effects /\ e.step = k /\ e.undo = FALSE
  BY <1>0 DEF SI!Done, Effects
<1>4. Effect(s, e)
  BY DEF SI!ExecuteStep, SI!Accepted, SI!Rejected, Effect
<1>. HIDE DEF e
<1>5. /\ effects' \in [Sagas -> Seq(Effects)] /\ Ordered(s)'
      /\ \A d \in Sagas \ {s} : effects'[d] = effects[d]
      /\ \A n \in 1..Len(effects[s]) : n \in 1..Len(effects'[s]) /\ effects'[s][n] = effects[s][n]
      /\ \A n \in 1..Len(effects'[s]) : n \in 1..Len(effects[s]) \/ effects'[s][n] = e
      /\ effects' # effects => \E n \in 1..Len(effects'[s]) : effects'[s][n] = e
  <2>1. \A n \in 1..Len(effects[s]) :
          /\ ~ effects[s][n].undo /\ ~ e.undo => effects[s][n].step < e.step
          /\ effects[s][n].undo => e.undo /\ e.step < effects[s][n].step
    BY <1>0, <1>2, <1>3
  <2>. QED  BY <1>0, <1>1, <1>3, <1>4, <2>1, EffectIs
<1>6. \A n \in 1..Len(effects'[s]) : /\ effects'[s][n].step \in 1..Len(Plan[s])
                                     /\ ~ effects'[s][n].undo /\ effects'[s][n].step <= k
                                     /\ effects'[s][n].step <= Len(completed[s]) \/ effects'[s][n].step = k
  <2>1. \A n \in 1..Len(effects[s]) : effects[s][n].step \in 1..Len(Plan[s])
    BY <1>1 DEF InPlan
  <2>. SUFFICES ASSUME NEW n \in 1..Len(effects'[s])
               PROVE  /\ effects'[s][n].step \in 1..Len(Plan[s])
                      /\ ~ effects'[s][n].undo /\ effects'[s][n].step <= k
                      /\ effects'[s][n].step <= Len(completed[s]) \/ effects'[s][n].step = k
    OBVIOUS
  <2>2. CASE effects'[s][n] = e
    BY <1>0, <1>3, <2>2
  <2>3. CASE n \in 1..Len(effects[s])
    <3>1. effects'[s][n] = effects[s][n] /\ effects[s][n].step \in 1..Len(Plan[s])
      BY <1>5, <2>1, <2>3
    <3>. QED  BY <1>0, <1>2, <2>3, <3>1
  <2>. QED  BY <1>5, <2>2, <2>3
<1>. HIDE DEF k
<1>7. CASE /\ IF Plan[s][k].command THEN SI!Accepted(s, e) ELSE UNCHANGED effects
           /\ completed' = [completed EXCEPT ![s] = Append(@, k)]
           /\ SI!Goto(s, "completed") /\ UNCHANGED <<status, failed>>
  <2>1. /\ Append(completed[s], k) \in Seq(Nat) /\ Len(Append(completed[s], k)) = Len(completed[s]) + 1
        /\ \A n \in 1..Len(completed[s]) : Append(completed[s], k)[n] = completed[s][n]
        /\ Append(completed[s], k)[Len(completed[s]) + 1] = k
        /\ \A n \in 1..Len(completed[s]) + 1 : n \in 1..Len(completed[s]) \/ n = Len(completed[s]) + 1
    BY <1>0, Grown
  <2>2. Shapes' /\ \A d \in Sagas \ {s} : Same(d)
    BY <1>0, <1>5, <1>7, <2>1 DEF Shapes, Same, SI!Goto, Labels
  <2>3. /\ at'[s] = "completed" /\ status'[s] = "RUNNING" /\ step'[s] = k /\ failed'[s] = failed[s]
        /\ completed'[s] = Append(completed[s], k) /\ undone'[s] = undone[s]
    BY <1>0, <1>2, <1>7 DEF Shapes, SI!Goto, k
  <2>4. Len(completed'[s]) = k /\ \A n \in 1..k : completed'[s][n] = n
    BY <1>0, <1>1, <1>2, <2>1, <2>3 DEF Counts
  <2>5. InPlan(s)'
    BY <1>0, <1>1, <1>6, <2>3 DEF InPlan
  <2>6. Shown(s)' /\ Counts(s)' /\ Undid(s)'
    BY <1>0, <2>3, <2>4 DEF Shown, Counts, Undid
  <2>7. Bounded(s)'
    <3>1. \A n \in 1..Len(effects'[s]) : ~ effects'[s][n].undo /\ effects'[s][n].step <= Len(completed'[s])
      BY <1>6, <2>4
    <3>. QED  BY <2>3, <3>1 DEF Bounded
  <2>8. Plan[s][k].command => \E n \in 1..Len(effects'[s]) : effects'[s][n] = e
    <3>1. SUFFICES ASSUME Plan[s][k].command PROVE \E n \in 1..Len(effects'[s]) : effects'[s][n] = e
      OBVIOUS
    <3>2. effects'[s] = Append(effects[s], e) /\ effects[s] \in Seq(Effects)
      BY <1>0, <1>7, <3>1 DEF SI!Accepted, Shapes
    <3>3. Len(Append(effects[s], e)) = Len(effects[s]) + 1 /\ Append(effects[s], e)[Len(effects[s]) + 1] = e
      BY <1>3, <3>2, Grown
    <3>4. Len(effects[s]) + 1 \in 1..Len(effects[s]) + 1
      BY <1>0
    <3>. QED  BY <3>2, <3>3, <3>4
  <2>9. Acted(s)'
    <3>1. ASSUME NEW i \in 1..k, Plan[s][i].command
          PROVE  \E n \in 1..Len(effects'[s]) : effects'[s][n] = SI!Done(i)
      <4>1. CASE i = k
        BY <2>8, <3>1, <4>1 DEF e
      <4>2. CASE i # k
        <5>1. i \in 1..Len(completed[s])
          BY <1>0, <1>2, <4>2
        <5>2. PICK n \in 1..Len(effects[s]) : effects[s][n] = SI!Done(i)
          BY <1>1, <3>1, <5>1 DEF Acted
        <5>. QED  BY <1>5, <5>2
      <4>. QED  BY <4>1, <4>2
    <3>. QED  BY <2>4, <3>1 DEF Acted
  <2>. QED  BY <1>5, <2>2, <2>5, <2>6, <2>7, <2>9 DEF Progress
<1>8. CASE /\ failed' = [failed EXCEPT ![s] = Append(@, k)]
           /\ SI!Become(s, "FAILED") /\ SI!Goto(s, "failed") /\ UNCHANGED completed
  <2>1. /\ Append(failed[s], k) \in Seq(Nat) /\ Len(Append(failed[s], k)) = Len(failed[s]) + 1
        /\ \A n \in 1..Len(failed[s]) : Append(failed[s], k)[n] = failed[s][n]
        /\ Append(failed[s], k)[Len(failed[s]) + 1] = k
        /\ \A n \in 1..Len(failed[s]) + 1 : n \in 1..Len(failed[s]) \/ n = Len(failed[s]) + 1
    BY <1>0, Grown
  <2>2. Shapes' /\ \A d \in Sagas \ {s} : Same(d)
    BY <1>0, <1>5, <1>8, <2>1 DEF Shapes, Same, SI!Goto, SI!Become, Labels, SI!Statuses
  <2>3. /\ at'[s] = "failed" /\ status'[s] = "FAILED" /\ step'[s] = k /\ completed'[s] = completed[s]
        /\ failed'[s] = Append(failed[s], k) /\ undone'[s] = undone[s]
    BY <1>0, <1>8 DEF Shapes, SI!Goto, SI!Become, k
  <2>4. \E m \in 1..Len(failed'[s]) : failed'[s][m] = k
    <3>1. Len(failed[s]) + 1 \in 1..Len(failed[s]) + 1
      BY <1>0
    <3>. QED  BY <2>1, <2>3, <3>1
  <2>5. InPlan(s)'
    BY <1>0, <1>1, <1>6, <2>1, <2>3 DEF InPlan
  <2>6. Shown(s)' /\ Counts(s)' /\ Undid(s)'
    BY <1>0, <1>1, <2>3 DEF Shown, Counts, Undid
  <2>7. Bounded(s)'
    <3>1. \A n \in 1..Len(effects'[s]) :
            /\ ~ effects'[s][n].undo
            /\ \/ effects'[s][n].step <= Len(completed'[s])
               \/ \E m \in 1..Len(failed'[s]) : failed'[s][m] = effects'[s][n].step
      BY <1>6, <2>3, <2>4
    <3>. QED  BY <2>3, <3>1 DEF Bounded
  <2>8. Acted(s)'
    BY <1>1, <1>5, <2>3 DEF Acted
  <2>. QED  BY <1>5, <2>2, <2>5, <2>6, <2>7, <2>8 DEF Progress
<1>. QED  BY <1>7, <1>8 DEF SI!ExecuteStep, k, e

LEMMA UndoStepKeeps ==
  ASSUME PlansAreLists, SagaInv, NEW s \in Sagas, SI!UndoStep(s)
  PROVE  Shapes' /\ Progress(s)' /\ \A d \in Sagas \ {s} : Same(d)
<1>. DEFINE k == step[s]
            e == SI!Undone(k)
<1>0. /\ Shapes /\ at[s] = "undo" /\ k \in Nat /\ k > 0 /\ undone[s] \in Seq(Records)
      /\ Len(completed[s]) \in Nat /\ Len(effects[s]) \in Nat /\ Len(undone[s]) \in Nat /\ Len(failed[s]) \in Nat
      /\ Len(Plan[s]) \in Nat
      /\ UNCHANGED <<status, completed, failed, crashes>>
  <2>1. at[s] = "undo" /\ k > 0 /\ UNCHANGED <<status, completed, failed, crashes>>
    BY DEF SI!UndoStep
  <2>2. /\ Shapes /\ k \in Nat /\ undone[s] \in Seq(Records) /\ Len(completed[s]) \in Nat
        /\ Len(effects[s]) \in Nat /\ Len(undone[s]) \in Nat /\ Len(failed[s]) \in Nat
    BY DEF SagaInv, Shapes
  <2>. QED  BY <2>1, <2>2, PlanFacts
<1>1. InPlan(s) /\ Shown(s) /\ Counts(s) /\ Ordered(s) /\ Bounded(s) /\ Acted(s) /\ Undid(s)
  BY DEF SagaInv, Progress
<1>2. /\ k \in 1..Len(completed[s]) /\ completed[s][k] = k /\ k \in 1..Len(Plan[s]) /\ status[s] = "COMPENSATING"
      /\ \A n \in 1..Len(effects[s]) : effects[s][n].undo => effects[s][n].step > k
  BY <1>0, <1>1 DEF Counts, Shown, Bounded
<1>3. e \in Effects /\ e.step = k /\ e.undo = TRUE
  BY <1>0 DEF SI!Undone, Effects
<1>4. PICK a \in {"COMPENSATED", "FAILED"} :
        /\ undone' = [undone EXCEPT ![s] = Append(@, [step |-> k, state |-> a])]
        /\ Effect(s, e) /\ (a = "COMPENSATED" => effects' # effects \/ SI!Accepted(s, e))
  BY <1>2 DEF SI!UndoStep, SI!Accepted, SI!Rejected, Effect
<1>. DEFINE r == [step |-> k, state |-> a]
<1>5. PICK label \in {"undo", "thrown"} : at' = [at EXCEPT ![s] = label] /\ step' = [step EXCEPT ![s] = @ - 1]
  BY DEF SI!UndoStep, SI!Goto, SI!CanFail
<1>. HIDE DEF e
<1>6. /\ effects' \in [Sagas -> Seq(Effects)] /\ Ordered(s)'
      /\ \A d \in Sagas \ {s} : effects'[d] = effects[d]
      /\ \A n \in 1..Len(effects[s]) : n \in 1..Len(effects'[s]) /\ effects'[s][n] = effects[s][n]
      /\ \A n \in 1..Len(effects'[s]) : n \in 1..Len(effects[s]) \/ effects'[s][n] = e
      /\ effects' # effects => \E n \in 1..Len(effects'[s]) : effects'[s][n] = e
  <2>1. \A n \in 1..Len(effects[s]) :
          /\ ~ effects[s][n].undo /\ ~ e.undo => effects[s][n].step < e.step
          /\ effects[s][n].undo => e.undo /\ e.step < effects[s][n].step
    BY <1>0, <1>2, <1>3
  <2>. QED  BY <1>0, <1>1, <1>3, <1>4, <2>1, EffectIs
<1>7. a = "COMPENSATED" => \E n \in 1..Len(effects'[s]) : effects'[s][n] = e
  <2>1. CASE SI!Accepted(s, e)
    <3>1. effects'[s] = Append(effects[s], e) /\ effects[s] \in Seq(Effects)
      BY <1>0, <2>1 DEF SI!Accepted, Shapes
    <3>2. Len(Append(effects[s], e)) = Len(effects[s]) + 1 /\ Append(effects[s], e)[Len(effects[s]) + 1] = e
      BY <1>3, <3>1, Grown
    <3>3. Len(effects[s]) + 1 \in 1..Len(effects[s]) + 1
      BY <1>0
    <3>. QED  BY <3>1, <3>2, <3>3
  <2>. QED  BY <1>4, <1>6, <2>1
<1>. HIDE DEF k
<1>8. r \in Records /\ r.step = k /\ r.state = a
  BY <1>0 DEF Records
<1>. HIDE DEF r
<1>9. /\ Append(undone[s], r) \in Seq(Records) /\ Len(Append(undone[s], r)) = Len(undone[s]) + 1
      /\ \A n \in 1..Len(undone[s]) : Append(undone[s], r)[n] = undone[s][n]
      /\ Append(undone[s], r)[Len(undone[s]) + 1] = r
      /\ \A n \in 1..Len(undone[s]) + 1 : n \in 1..Len(undone[s]) \/ n = Len(undone[s]) + 1
  BY <1>0, <1>8, Grown
<1>10. /\ at'[s] = label /\ step'[s] = k - 1 /\ status'[s] = "COMPENSATING" /\ failed'[s] = failed[s]
       /\ completed'[s] = completed[s] /\ undone'[s] = Append(undone[s], r)
  BY <1>0, <1>2, <1>4, <1>5 DEF Shapes, k, r
<1>11. Shapes' /\ \A d \in Sagas \ {s} : Same(d)
  <2>1. undone' \in [Sagas -> Seq(Records)] /\ \A d \in Sagas \ {s} : undone'[d] = undone[d]
    BY <1>0, <1>4, <1>9 DEF Shapes, r
  <2>2. step' \in [Sagas -> Nat] /\ \A d \in Sagas \ {s} : step'[d] = step[d]
    BY <1>0, <1>5 DEF Shapes, k
  <2>. QED  BY <1>0, <1>5, <1>6, <2>1, <2>2 DEF Shapes, Same, Labels
<1>12. \A n \in 1..Len(effects'[s]) : effects'[s][n].step \in 1..Len(Plan[s])
  BY <1>1, <1>2, <1>3, <1>6 DEF InPlan
<1>13. InPlan(s)'
  <2>1. \A n \in 1..Len(undone'[s]) : undone'[s][n].step \in 1..Len(Plan[s])
    BY <1>1, <1>2, <1>8, <1>9, <1>10 DEF InPlan
  <2>2. k - 1 <= Len(Plan[s]) + 1
    BY <1>0, <1>2
  <2>. QED  BY <1>1, <1>10, <1>12, <2>1, <2>2 DEF InPlan
<1>14. Shown(s)'
  BY <1>5, <1>10 DEF Shown
<1>15. Counts(s)'
  BY <1>0, <1>1, <1>2, <1>5, <1>10 DEF Counts
<1>16. Bounded(s)'
  <2>1. ASSUME NEW n \in 1..Len(effects'[s])
        PROVE  /\ effects'[s][n].undo => effects'[s][n].step > k - 1
               /\ IF effects'[s][n].undo THEN effects'[s][n].step <= Len(completed[s])
                  ELSE \/ effects'[s][n].step <= Len(completed[s])
                       \/ \E m \in 1..Len(failed[s]) : failed[s][m] = effects'[s][n].step
    <3>1. CASE effects'[s][n] = e
      BY <1>0, <1>2, <1>3, <3>1
    <3>2. CASE n \in 1..Len(effects[s])
      <4>1. effects'[s][n] = effects[s][n] /\ effects'[s][n].step \in 1..Len(Plan[s])
        BY <1>6, <1>12, <3>2
      <4>2. effects[s][n].undo => effects[s][n].step > k
        BY <1>2, <3>2 DEF k
      <4>3. IF effects[s][n].undo THEN effects[s][n].step <= Len(completed[s])
            ELSE \/ effects[s][n].step <= Len(completed[s])
                 \/ \E m \in 1..Len(failed[s]) : failed[s][m] = effects[s][n].step
        BY <1>0, <1>1, <3>2 DEF Bounded
      <4>. QED  BY <1>0, <4>1, <4>2, <4>3
    <3>. QED  BY <1>6, <3>1, <3>2
  <2>. QED  BY <1>5, <1>10, <2>1 DEF Bounded
<1>17. Acted(s)'
  BY <1>1, <1>6, <1>10 DEF Acted
<1>18. Undid(s)'
  <2>1. ASSUME NEW i \in k..Len(completed[s]) PROVE Settled(s, i)'
    <3>1. CASE i = k
      <4>1. CASE a = "COMPENSATED"
        BY <1>7, <3>1, <4>1 DEF Settled, e
      <4>2. CASE a = "FAILED"
        <5>1. Len(undone[s]) + 1 \in 1..Len(undone'[s]) /\ undone'[s][Len(undone[s]) + 1] = [step |-> i, state |-> "FAILED"]
          BY <1>0, <1>9, <1>10, <3>1, <4>2 DEF r
        <5>. QED  BY <5>1 DEF Settled
      <4>. QED  BY <4>1, <4>2
    <3>2. CASE i # k
      <4>1. i \in k + 1..Len(completed[s])
        BY <1>0, <3>2
      <4>2. Settled(s, i)
        BY <1>0, <1>1, <4>1 DEF Undid, k
      <4>3. ASSUME NEW n \in 1..Len(undone[s]) PROVE n \in 1..Len(undone'[s]) /\ undone'[s][n] = undone[s][n]
        BY <1>0, <1>9, <1>10
      <4>. QED  BY <1>6, <4>2, <4>3 DEF Settled
    <3>. QED  BY <3>1, <3>2
  <2>2. (k - 1) + 1 = k
    BY <1>0
  <2>. QED  BY <1>10, <2>1, <2>2 DEF Undid
<1>. QED  BY <1>6, <1>11, <1>13, <1>14, <1>15, <1>16, <1>17, <1>18 DEF Progress

LEMMA CrashKeeps ==
  ASSUME PlansAreLists, SagaInv, SI!Crash
  PROVE  SagaInv'
<1>0. <<>> \in Seq(Nat) /\ <<>> \in Seq(Records) /\ Len(<<>>) = 0
  OBVIOUS
<1>1. Shapes'
  <2>1. crashes' \in 0..MaxCrashes
    BY DEF SagaInv, Shapes, SI!Crash, PlansAreLists
  <2>2. at' \in [Sagas -> Labels] /\ status' \in [Sagas -> SI!Statuses]
    BY DEF SagaInv, Shapes, SI!Crash, Labels, SI!Statuses
  <2>. QED  BY <1>0, <2>1, <2>2 DEF SagaInv, Shapes, SI!Crash
<1>2. ASSUME NEW s \in Sagas PROVE Progress(s)'
  <2>1. InPlan(s) /\ Shown(s) /\ Ordered(s) /\ Len(Plan[s]) \in Nat
    BY PlanFacts DEF SagaInv, Progress
  <2>2. /\ at'[s] \in {"idle", "gone"} /\ (at'[s] = "idle" => at[s] = "idle") /\ status'[s] = "none"
        /\ completed'[s] = <<>> /\ failed'[s] = <<>> /\ undone'[s] = <<>>
        /\ step'[s] = step[s] /\ effects'[s] = effects[s]
    BY DEF SI!Crash
  <2>3. InPlan(s)' /\ Ordered(s)'
    BY <1>0, <2>1, <2>2 DEF InPlan, Ordered
  <2>4. Shown(s)' /\ Counts(s)' /\ Acted(s)' /\ Undid(s)'
    BY <1>0, <2>1, <2>2 DEF Shown, Counts, Acted, Undid
  <2>5. Bounded(s)'
    BY <1>0, <2>1, <2>2 DEF Shown, Bounded
  <2>. QED  BY <2>3, <2>4, <2>5 DEF Progress
<1>. QED  BY <1>1, <1>2 DEF SagaInv

-----------------------------------------------------------------------------
LEMMA SagaInit == PlansAreLists /\ SI!Init => SagaInv
<1>. SUFFICES ASSUME PlansAreLists, SI!Init PROVE SagaInv
  OBVIOUS
<1>0. <<>> \in Seq(Nat) /\ <<>> \in Seq(Records) /\ <<>> \in Seq(Effects) /\ Len(<<>>) = 0
  OBVIOUS
<1>1. Shapes
  BY <1>0 DEF SI!Init, Shapes, Labels, SI!Statuses, PlansAreLists
<1>2. ASSUME NEW s \in Sagas PROVE Progress(s)
  BY <1>0, PlanFacts DEF SI!Init, Progress, InPlan, Shown, Counts, Ordered, Bounded, Acted, Undid
<1>. QED  BY <1>1, <1>2 DEF SagaInv

LEMMA SagaKept == PlansAreLists /\ SagaInv /\ [SI!Next]_(SI!vars) => SagaInv'
<1>. SUFFICES ASSUME PlansAreLists, SagaInv, [SI!Next]_(SI!vars) PROVE SagaInv'
  OBVIOUS
<1>1. CASE UNCHANGED SI!vars
  <2>1. Shapes' /\ \A d \in Sagas : Same(d)
    BY <1>1 DEF SagaInv, Shapes, Same, SI!vars
  <2>. QED  BY <2>1, SameProgress DEF SagaInv
<1>2. ASSUME NEW s \in Sagas, SI!Start(s) \/ SI!Run(s) PROVE SagaInv'
  <2>1. Shapes' /\ Progress(s)' /\ \A d \in Sagas \ {s} : Same(d)
    BY <1>2, QuietKeeps, ExecuteStepKeeps, EmitCompletedKeeps, UndoStepKeeps DEF SI!Run
  <2>. QED  BY <2>1, SameProgress DEF SagaInv
<1>. QED  BY <1>1, <1>2, CrashKeeps DEF SI!Next

LEMMA SagaInvariant == PlansAreLists => (SI!Spec => []SagaInv)
<1>. SUFFICES ASSUME PlansAreLists PROVE SI!Spec => []SagaInv
  OBVIOUS
<1>1. SI!Init => SagaInv
  BY SagaInit
<1>2. SagaInv /\ [SI!Next]_(SI!vars) => SagaInv'
  BY SagaKept
<1>. QED  BY <1>1, <1>2, PTL DEF SI!Spec

-----------------------------------------------------------------------------
(***************************************************************************)
(* What the invariant says of the properties.                              *)
(***************************************************************************)
LEMMA InvSaysTypes == PlansAreLists /\ SagaInv => SI!TypeOK
<1>. SUFFICES ASSUME PlansAreLists, SagaInv, NEW s \in Sagas
              PROVE  /\ step[s] \in 0..Len(Plan[s]) + 1
                     /\ completed[s] \in Seq(SI!Steps(s)) /\ failed[s] \in Seq(SI!Steps(s))
                     /\ undone[s] \in Seq([step : SI!Steps(s), state : {"COMPENSATED", "FAILED"}])
                     /\ effects[s] \in Seq([step : SI!Steps(s), undo : BOOLEAN])
  <2>1. PlansAreLists /\ SagaInv => Shapes
    BY DEF SagaInv
  <2>. QED  BY <2>1 DEF SI!TypeOK, Shapes, Labels
<1>1. /\ InPlan(s) /\ Counts(s) /\ step[s] \in Nat /\ Len(Plan[s]) \in Nat /\ SI!Steps(s) = 1..Len(Plan[s])
      /\ completed[s] \in Seq(Nat) /\ failed[s] \in Seq(Nat)
      /\ undone[s] \in Seq(Records) /\ effects[s] \in Seq(Effects)
  BY PlanFacts DEF SagaInv, Progress, Shapes
<1>2. \A n \in 1..Len(completed[s]) : completed[s][n] \in SI!Steps(s)
  BY <1>1 DEF Counts
<1>3. \A n \in 1..Len(failed[s]) : failed[s][n] \in SI!Steps(s)
  BY <1>1 DEF InPlan
<1>4. ASSUME NEW n \in 1..Len(undone[s])
      PROVE  undone[s][n] \in [step : SI!Steps(s), state : {"COMPENSATED", "FAILED"}]
  <2>1. undone[s][n] \in Records /\ undone[s][n].step \in SI!Steps(s)
    BY <1>1, <1>4 DEF InPlan
  <2>. QED  BY <2>1 DEF Records
<1>5. ASSUME NEW n \in 1..Len(effects[s])
      PROVE  effects[s][n] \in [step : SI!Steps(s), undo : BOOLEAN]
  <2>1. effects[s][n] \in Effects /\ effects[s][n].step \in SI!Steps(s)
    BY <1>1, <1>5 DEF InPlan
  <2>. QED  BY <2>1 DEF Effects
<1>6. completed[s] \in Seq(SI!Steps(s)) /\ failed[s] \in Seq(SI!Steps(s))
  BY <1>1, <1>2, <1>3, InSubset
<1>7. undone[s] \in Seq([step : SI!Steps(s), state : {"COMPENSATED", "FAILED"}])
  <2>. DEFINE U == [step : SI!Steps(s), state : {"COMPENSATED", "FAILED"}]
  <2>1. undone[s] \in Seq(Records) /\ \A n \in 1..Len(undone[s]) : undone[s][n] \in U
    BY <1>1, <1>4
  <2>. HIDE DEF U
  <2>2. undone[s] \in Seq(U)
    BY <2>1, InSubset
  <2>. QED  BY <2>2 DEF U
<1>8. effects[s] \in Seq([step : SI!Steps(s), undo : BOOLEAN])
  <2>. DEFINE U == [step : SI!Steps(s), undo : BOOLEAN]
  <2>1. effects[s] \in Seq(Effects) /\ \A n \in 1..Len(effects[s]) : effects[s][n] \in U
    BY <1>1, <1>5
  <2>. HIDE DEF U
  <2>2. effects[s] \in Seq(U)
    BY <2>1, InSubset
  <2>. QED  BY <2>2 DEF U
<1>. QED  BY <1>1, <1>6, <1>7, <1>8 DEF InPlan

LEMMA InvSaysOutcomes == PlansAreLists /\ SagaInv => SI!SagaOutcomes
<1>. SUFFICES ASSUME PlansAreLists, SagaInv PROVE SI!SagaOutcomes
  OBVIOUS
<1>1. ASSUME NEW s \in Sagas
      PROVE  /\ InPlan(s) /\ Shown(s) /\ Counts(s) /\ Ordered(s) /\ Bounded(s) /\ Acted(s) /\ Undid(s)
             /\ Len(Plan[s]) \in Nat /\ SI!Steps(s) = 1..Len(Plan[s])
             /\ DOMAIN completed[s] = 1..Len(completed[s]) /\ DOMAIN failed[s] = 1..Len(failed[s])
             /\ DOMAIN undone[s] = 1..Len(undone[s]) /\ DOMAIN effects[s] = 1..Len(effects[s])
             /\ Len(completed[s]) \in Nat
             /\ \A n \in 1..Len(effects[s]) : effects[s][n] \in Effects
  BY PlanFacts DEF SagaInv, Progress, Shapes
<1>2. SI!ReverseOrder
  BY <1>1 DEF SI!ReverseOrder, Ordered
<1>3. SI!UndoneWasDone
  <2>. SUFFICES ASSUME NEW s \in Sagas, NEW i \in SI!Steps(s), SI!Positions(s, SI!Undone(i)) # {}, at[s] # "gone"
               PROVE  i \in Range(completed[s])
    BY DEF SI!UndoneWasDone, SI!Range, Range
  <2>1. PICK n \in 1..Len(effects[s]) : effects[s][n] = SI!Undone(i)
    BY <1>1 DEF SI!Positions
  <2>2. effects[s][n].undo /\ effects[s][n].step = i
    BY <2>1 DEF SI!Undone
  <2>3. i \in 1..Len(completed[s])
    BY <1>1, <2>2 DEF Bounded
  <2>4. completed[s][i] = i
    BY <1>1, <2>3 DEF Counts
  <2>. QED  BY <1>1, <2>3, <2>4 DEF Range
<1>4. SI!CompletedDidAll
  <2>. SUFFICES ASSUME NEW s \in Sagas, status[s] = "COMPLETED"
               PROVE  /\ \A i \in SI!Steps(s) : Plan[s][i].command => SI!Took(s, i)
                      /\ \A n \in DOMAIN effects[s] : ~ effects[s][n].undo
    BY DEF SI!CompletedDidAll
  <2>1. \A n \in DOMAIN effects[s] : ~ effects[s][n].undo
    BY <1>1 DEF Bounded
  <2>2. ASSUME NEW i \in SI!Steps(s), Plan[s][i].command PROVE SI!Took(s, i)
    <3>1. i \in 1..Len(completed[s])
      BY <1>1, <2>2 DEF Shown
    <3>2. PICK n \in 1..Len(effects[s]) : effects[s][n] = SI!Done(i)
      BY <1>1, <2>2, <3>1 DEF Acted
    <3>. QED  BY <1>1, <3>2 DEF SI!Took, SI!Positions
  <2>. QED  BY <2>1, <2>2
<1>5. SI!CompensatedUndidAll
  <2>. SUFFICES ASSUME NEW s \in Sagas, status[s] = "COMPENSATED",
                       NEW i \in SI!Steps(s), SI!Took(s, i), Plan[s][i].compensation
               PROVE  \/ SI!Positions(s, SI!Undone(i)) # {}
                      \/ [step |-> i, state |-> "FAILED"] \in Range(undone[s])
                      \/ i \in Range(failed[s])
    BY DEF SI!CompensatedUndidAll, SI!Range, Range
  <2>1. PICK n \in 1..Len(effects[s]) : effects[s][n] = SI!Done(i)
    BY <1>1 DEF SI!Took, SI!Positions
  <2>2. ~ effects[s][n].undo /\ effects[s][n].step = i /\ at[s] # "gone"
    BY <1>1, <2>1 DEF SI!Done, Shown
  <2>3. CASE i \in 1..Len(completed[s])
    <3>1. Settled(s, i)
      BY <1>1, <2>3 DEF Undid
    <3>2. CASE \E m \in 1..Len(effects[s]) : effects[s][m] = SI!Undone(i)
      BY <1>1, <3>2 DEF SI!Positions
    <3>3. CASE \E m \in 1..Len(undone[s]) : undone[s][m] = [step |-> i, state |-> "FAILED"]
      BY <1>1, <3>3 DEF Range
    <3>. QED  BY <3>1, <3>2, <3>3 DEF Settled
  <2>4. CASE \E m \in 1..Len(failed[s]) : failed[s][m] = i
    BY <1>1, <2>4 DEF Range
  <2>. QED  BY <1>1, <2>2, <2>3, <2>4 DEF Bounded
<1>. QED  BY <1>2, <1>3, <1>4, <1>5 DEF SI!SagaOutcomes

LEMMA EachGoesOn == HistorySpec => Spec /\ SI!Spec
<1>1. HistoryInit => Init /\ SI!Init
  BY DEF HistoryInit
<1>2. [HistoryNext]_<<vars, sagaVars>> => [Next]_vars
  BY DEF HistoryNext, sagaVars
<1>3. [HistoryNext]_<<vars, sagaVars>> => [SI!Next]_(SI!vars)
  BY DEF HistoryNext, sagaVars, SI!vars
<1>. QED  BY <1>1, <1>2, <1>3, PTL DEF HistorySpec, Spec, SI!Spec

\* Every variable of the store and of the sagas keeps its type; in particular a completed,
\* failed or undone step, and a command that took effect, is always a step of the saga's
\* own plan.
THEOREM TypeCorrect == PlansAreLists => (HistorySpec => []TypesOK)
<1>. SUFFICES ASSUME PlansAreLists PROVE HistorySpec => []TypesOK
  OBVIOUS
<1>1. SagaInv => SI!TypeOK
  BY InvSaysTypes
<1>2. TypeOK /\ SI!TypeOK => TypesOK
  BY DEF TypesOK
<1>. QED  BY <1>1, <1>2, StoreTypes, SagaInvariant, EachGoesOn, PTL

\* Whatever compensations are refused, acknowledgements lost and appends refused, and
\* wherever the process stops: steps are undone once, in reverse, and only if they were
\* done; COMPLETED means all done and none undone; COMPENSATED means that what is not
\* undone is on record.
THEOREM SagasTellTrue == PlansAreLists => (HistorySpec => []SagaOutcomes)
<1>. SUFFICES ASSUME PlansAreLists PROVE HistorySpec => []SagaOutcomes
  OBVIOUS
<1>1. SagaInv => SagaOutcomes
  BY InvSaysOutcomes DEF SagaOutcomes
<1>. QED  BY <1>1, SagaInvariant, EachGoesOn, PTL
=============================================================================
