---------------------------- MODULE RailAdapters ----------------------------
(***************************************************************************)
(* The concrete rail drivers under adapters/ and their registry: how each  *)
(* turns what its rail answers into a result, whether it sends an          *)
(* idempotency key, how often it may call the rail for one submission.     *)
(* BaseRailDriver's retries are as in RailDriver; its circuit breaker is   *)
(* checked there and left out here.  The rails themselves are external:    *)
(* they execute a request once per key, answer late, wrongly or not at all.*)
(***************************************************************************)
EXTENDS Integers, Sequences, FiniteSets, Functions

CONSTANTS
  Commands,  \* ids of commands
  Calls,     \* calls of submit
  Envs,      \* environments: [keys, valid], the drivers with a key and those whose credentials validate
  None

VARIABLES
  env,        \* the environment the registry was made from, None before
  registered, \* RailDriverRegistry.drivers
  calls,      \* the submissions
  token,      \* AchDriver.dwollaToken, and whether Dwolla still takes it
  wireOpen,   \* isFedwireOpen
  progress,   \* at the rail: how far the transfer of a command is
  reported    \* what queryStatus said last

vars == <<env, registered, calls, token, wireOpen, progress, reported>>

\* The three providers of the AchDriver count as drivers of their own.
Ach     == {"dwolla", "modern_treasury", "column"}
Drivers == Ach \cup {"fednow", "rtp", "wire", "sepa", "swift", "card", "stablecoin", "sovr", "evm", "oracle"}

\* A seeded fault: a card authorization is retried.
MaxRetriesCard(d) == IF d = "sovr" THEN 1 ELSE IF d \in {"fednow", "wire", "rtp", "card"} THEN 2 ELSE 3
MaxRetries(d) == IF d \in {"sovr", "card"} THEN 1 ELSE IF d \in {"fednow", "wire", "rtp"} THEN 2 ELSE 3

\* Drivers that send the id of the command as the idempotency key.
Keyed == Ach \cup {"fednow", "rtp", "wire", "sepa", "swift", "stablecoin"}

Init ==
  /\ env = None /\ registered = {}
  /\ calls = [k \in Calls |-> None]
  /\ token = "none" /\ wireOpen = TRUE
  /\ progress = [d \in Drivers |-> [c \in Commands |-> None]]
  /\ reported = [d \in Drivers |-> [c \in Commands |-> None]]

-----------------------------------------------------------------------------
(***************************************************************************)
(* The registry.  The ledger of the protocol itself is always there; any   *)
(* other rail when its key is set and its credentials validate.            *)
(***************************************************************************)
HasKey(d, e) == d \in e.keys \/ (d = "oracle" /\ "evm" \in e.keys)
RegisterIf(d, e) == HasKey(d, e) /\ d \in e.valid

Bootstrap(e) ==
  /\ env = None /\ env' = e
  /\ registered' = {"sovr"} \cup {d \in Drivers : RegisterIf(d, e)}
  /\ UNCHANGED <<calls, token, wireOpen, progress, reported>>

-----------------------------------------------------------------------------
(***************************************************************************)
(* What the drivers make of an answer.  An answer is                       *)
(*   ok       accepted, in the words the driver expects                    *)
(*   other    a success in other words: not a 201, or another ISO status   *)
(*   invalid  refused in the driver's words: a 422, for Dwolla also 400    *)
(*            and 403, or the ISO status RJCT                              *)
(*   client   any other 4xx, a 401 for a token taken back among them       *)
(*   server   a 5xx                                                        *)
(***************************************************************************)
Unknown == "UNKNOWN_EXTERNAL_STATE"

\* Those with a bank behind them reject what is the client's fault.
ByStatus ==
  [ok |-> "SUBMITTED", other |-> "SUBMITTED", invalid |-> "REJECTED", client |-> "REJECTED", server |-> Unknown]
\* ISO 20022 counts only in the words ACCP or ACSC and RJCT.
ByWord == [ok |-> "SUBMITTED", other |-> Unknown, invalid |-> "REJECTED", client |-> Unknown, server |-> Unknown]

DwollaSubmit == ByWord
ModernTreasurySubmit == [ByStatus EXCEPT !.client = Unknown]
ColumnSubmit == ByStatus
FedNowSubmit == ByWord
RtpSubmit == ByWord
WireSubmit == ByStatus
SepaSubmit == ByStatus
SwiftSubmit == ByStatus
\* An authorization: pending until it is settled.
CardSubmit == [ok |-> "PENDING", other |-> "PENDING", invalid |-> "REJECTED", client |-> "REJECTED", server |-> Unknown]
StablecoinSubmit == [ByStatus EXCEPT !.server = "REJECTED"]
SovrSubmit == ByWord

Readings ==
  [dwolla |-> DwollaSubmit, modern_treasury |-> ModernTreasurySubmit, column |-> ColumnSubmit,
   fednow |-> FedNowSubmit, rtp |-> RtpSubmit, wire |-> WireSubmit, sepa |-> SepaSubmit, swift |-> SwiftSubmit,
   card |-> CardSubmit, stablecoin |-> StablecoinSubmit, sovr |-> SovrSubmit]
Classify(d, r) == Readings[d][r]

\* queryRailStatus: the words of each rail and what they are mapped to.
DwollaStatus == [processed |-> "SETTLED", pending |-> "PENDING", failed |-> "FAILED", cancelled |-> "FAILED"]
ModernTreasuryStatus ==
  [completed |-> "SETTLED", pending |-> "PENDING", processing |-> "PENDING", failed |-> "FAILED",
   reversed |-> "REVERSED"]
ColumnStatus == [completed |-> "SETTLED", pending |-> "PENDING", failed |-> "FAILED", returned |-> "RETURNED"]
FedNowStatus == [ACSC |-> "SETTLED", ACCC |-> "SETTLED", PDNG |-> "PENDING", ACCP |-> "PENDING", RJCT |-> "FAILED"]
RtpStatus == FedNowStatus
WireStatus ==
  [SENT |-> "SETTLED", SETTLED |-> "SETTLED", PENDING |-> "PENDING", FAILED |-> "FAILED", RETURNED |-> "RETURNED"]
SepaStatus == [ACSC |-> "SETTLED", PDNG |-> "PENDING", RJCT |-> "FAILED"]
SwiftStatus == SepaStatus
CardStatus ==
  [COMPLETION |-> "SETTLED", SETTLED |-> "SETTLED", PENDING |-> "PENDING", DECLINE |-> "FAILED",
   REVERSAL |-> "REVERSED"]
StablecoinStatus == [complete |-> "SETTLED", pending |-> "PENDING", failed |-> "FAILED"]
SovrStatus ==
  [SETTLED |-> "SETTLED", COMPLETED |-> "SETTLED", RELEASED |-> "SETTLED", FUNDED |-> "PENDING", PENDING |-> "PENDING",
   CREATED |-> "PENDING", FAILED |-> "FAILED", REJECTED |-> "FAILED", REVERSED |-> "REVERSED"]

StatusMaps ==
  [dwolla |-> DwollaStatus, modern_treasury |-> ModernTreasuryStatus, column |-> ColumnStatus,
   fednow |-> FedNowStatus, rtp |-> RtpStatus, wire |-> WireStatus, sepa |-> SepaStatus, swift |-> SwiftStatus,
   card |-> CardStatus, stablecoin |-> StablecoinStatus, sovr |-> SovrStatus]

StatusOf(d, word) ==
  IF d \in DOMAIN StatusMaps /\ word \in DOMAIN StatusMaps[d] THEN StatusMaps[d][word] ELSE Unknown

\* The words a rail has for a transfer that is so far.
Words == [pending |-> {"pending", "processing", "PDNG", "ACCP", "PENDING", "FUNDED", "CREATED"},
          settled |-> {"processed", "completed", "ACSC", "ACCC", "SETTLED", "SENT", "COMPLETION", "complete",
                       "COMPLETED", "RELEASED"},
          failed  |-> {"failed", "cancelled", "RJCT", "FAILED", "DECLINE", "REJECTED"},
          undone  |-> {"returned", "reversed", "RETURNED", "REVERSAL", "REVERSED", "unheard of"}]

-----------------------------------------------------------------------------
(***************************************************************************)
(* submit, with the attempts of BaseRailDriver.  A call holds the state of *)
(* the request of each attempt; a request stays on its way after the       *)
(* driver gave up waiting for it.                                          *)
(***************************************************************************)
Scaffold(d)   == d \in {"evm", "oracle"}
NeedsToken(d) == d = "dwolla" /\ token = "none"
Sent(call)    == [call EXCEPT !.at = "called", !.requests = Append(@, "sent")]
Waits(call)   == [call EXCEPT !.at = "waiting", !.requests = IF call.at = "token" THEN Append(@, "unsent") ELSE @]
Next1(call)   == IF NeedsToken(call.driver) THEN [call EXCEPT !.at = "token", !.attempt = @ + 1]
                 ELSE [Sent(call) EXCEPT !.attempt = @ + 1]
Told(call, answer) == [call EXCEPT !.at = "returned", !.answer = answer]
Shut(call)    == [Told(call, "REJECTED") EXCEPT !.attempt = @ + 1]
Return(k, answer) == calls' = [calls EXCEPT ![k] = Told(@, answer)]
Rest == UNCHANGED <<env, registered, token, wireOpen, progress, reported>>

New(d, c) == [driver |-> d, command |-> c, attempt |-> 0, at |-> "returned", answer |-> None, requests |-> <<>>]
Submit(k, d, c) ==
  /\ calls[k] = None /\ d \in registered
  /\ calls' = [calls EXCEPT ![k] =
       IF Scaffold(d) THEN [New(d, c) EXCEPT !.answer = Unknown]
       ELSE IF d = "wire" /\ ~wireOpen THEN [New(d, c) EXCEPT !.answer = "REJECTED"]
       ELSE Next1(New(d, c))]
  /\ Rest

\* getDwollaToken: the token is kept until it expires; Dwolla may take it back before.
TokenFetched(k) ==
  /\ calls[k] # None /\ calls[k].at = "token"
  /\ token' = "good"
  /\ calls' = [calls EXCEPT ![k] = Sent(@)]
  /\ UNCHANGED <<env, registered, wireOpen, progress, reported>>

TokenLost ==
  /\ \/ token = "good" /\ token' \in {"none", "revoked"}
     \/ token = "revoked" /\ token' = "none"
  /\ UNCHANGED <<env, registered, calls, wireOpen, progress, reported>>

Request(k, n) == calls[k].requests[n]
OfCommand(d, c) ==
  {x \in Calls \X (1..3) : calls[x[1]] # None /\ calls[x[1]].driver = d /\ calls[x[1]].command = c
                               /\ x[2] \in DOMAIN calls[x[1]].requests}
Executed(d, c) == {x \in OfCommand(d, c) : Request(x[1], x[2]) = "executed"}

\* The rail takes a request up: it executes it, finds it done under its key, refuses it or breaks down.
\* Of a driver without a key, progress follows the first transfer.
Take(k, n) ==
  /\ calls[k] # None /\ n \in DOMAIN calls[k].requests /\ Request(k, n) = "sent"
  /\ LET d == calls[k].driver  c == calls[k].command
         before == d \in Keyed /\ Executed(d, c) # {}
     IN \E took \in IF d = "dwolla" /\ token = "revoked" THEN {"unauthorized"}
                    ELSE IF before THEN {"repeated"} ELSE {"executed", "refused", "broken"} :
          /\ calls' = [calls EXCEPT ![k].requests[n] = took]
          /\ progress' = [progress EXCEPT ![d][c] = IF took = "executed" /\ @ = None THEN "pending" ELSE @]
  /\ UNCHANGED <<env, registered, token, wireOpen, reported>>

Done    == {"ok", "other", "server"}
Replies == [executed |-> Done, repeated |-> Done, refused |-> {"invalid", "client"}, unauthorized |-> {"client"},
            broken |-> {"server"}, sent |-> {}, unsent |-> {}]

Answered(k) ==
  /\ calls[k] # None /\ calls[k].at = "called"
  /\ \E r \in Replies[Request(k, calls[k].attempt)] : Return(k, Classify(calls[k].driver, r))
  /\ Rest

\* A timeout, a broken connection, a body that does not parse, a token that is not given.
Exception(k) ==
  /\ calls[k] # None /\ calls[k].at \in {"called", "token"}
  /\ IF calls[k].attempt < MaxRetries(calls[k].driver)
       THEN calls' = [calls EXCEPT ![k] = Waits(@)]
       ELSE Return(k, Unknown)
  /\ Rest

\* The next attempt; the wire looks again whether it is open.
Retry(k) ==
  /\ calls[k] # None /\ calls[k].at = "waiting"
  /\ IF calls[k].driver = "wire" /\ ~wireOpen
       THEN calls' = [calls EXCEPT ![k] = Shut(@)]
       ELSE calls' = [calls EXCEPT ![k] = Next1(@)]
  /\ Rest

FedwireHours ==
  /\ "wire" \in registered /\ wireOpen' = ~wireOpen
  /\ UNCHANGED <<env, registered, calls, token, progress, reported>>

Progress(d, c) ==
  /\ progress[d][c] \in {"pending", "settled"}
  /\ \E to \in IF progress[d][c] = "pending" THEN {"settled", "failed"} ELSE {"undone"} :
       progress' = [progress EXCEPT ![d][c] = to]
  /\ UNCHANGED <<env, registered, calls, token, wireOpen, reported>>

Query(d, c) ==
  /\ d \in registered /\ progress[d][c] # None
  /\ \E w \in Words[progress[d][c]] : reported' = [reported EXCEPT ![d][c] = StatusOf(d, w)]
  /\ UNCHANGED <<env, registered, calls, token, wireOpen, progress>>

Next ==
  \/ \E e \in Envs : Bootstrap(e)
  \/ \E k \in Calls, d \in Drivers, c \in Commands : Submit(k, d, c)
  \/ \E k \in Calls : TokenFetched(k) \/ Answered(k) \/ Exception(k) \/ Retry(k)
  \/ \E k \in Calls, n \in 1..3 : Take(k, n)
  \/ \E d \in Drivers, c \in Commands : Progress(d, c) \/ Query(d, c)
  \/ TokenLost \/ FedwireHours

Spec == Init /\ [][Next]_vars

-----------------------------------------------------------------------------
Results == {"SUBMITTED", "PENDING", "REJECTED", Unknown}
TypeOK ==
  /\ registered \subseteq Drivers /\ token \in {"none", "good", "revoked"} /\ wireOpen \in BOOLEAN
  /\ \A k \in Calls : calls[k] # None =>
       /\ calls[k].driver \in registered
       /\ calls[k].at \in {"token", "called", "waiting", "returned"} /\ calls[k].answer \in Results \cup {None}

(***************************************************************************)
(* However requests are retried, overtaken and answered late: a rail that  *)
(* is sent the key executes a command once, and one that is not executes   *)
(* it at most once for each submission.                                    *)
(***************************************************************************)
ExecutedOnce ==
  \A d \in Drivers, c \in Commands :
    LET done == Executed(d, c) IN
      IF d \in Keyed THEN Cardinality(done) <= 1 ELSE \A x, y \in done : x[1] = y[1] => x = y

(***************************************************************************)
(* The result of a submission is true of the rail: what was SUBMITTED or   *)
(* is PENDING was executed; what was REJECTED at the first attempt was     *)
(* not, except by the StablecoinDriver, which rejects whatever is not a    *)
(* success (at a later attempt the wire may be closed by then, and a       *)
(* rejection says nothing of the attempts before it); and a status that    *)
(* says SETTLED is of a transfer that settled.                             *)
(***************************************************************************)
ResultsAreTrue ==
  /\ \A k \in Calls : calls[k] # None =>
       /\ calls[k].answer \in {"SUBMITTED", "PENDING"} => Executed(calls[k].driver, calls[k].command) # {}
       /\ calls[k].answer = "REJECTED" /\ calls[k].attempt = 1 /\ calls[k].driver # "stablecoin" =>
            "executed" \notin Range(calls[k].requests)
  /\ \A d \in Drivers, c \in Commands : reported[d][c] = "SETTLED" => progress[d][c] \in {"settled", "undone"}
=============================================================================
