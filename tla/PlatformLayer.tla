---------------------------- MODULE PlatformLayer ----------------------------
(***************************************************************************)
(* RailAdapters, Gates, Server, FanOut and AchRail together.  They share   *)
(* no state, in the code as here: the drivers are called by the boundary   *)
(* bus, the gates by the kernel, the publishers by the store, each with    *)
(* what it is given.  So each goes on whatever the others do.              *)
(***************************************************************************)
EXTENDS Integers, Sequences, FiniteSets

CONSTANTS
  None, Text,
  RailCommands, Submissions, RailEnvs,                                    \* of RailAdapters
  Checks, Declared, Payloads, Evaluators, MaxAmount, StaticLimit, Quorum, MaxChanges, \* of Gates
  Envs, Requests, Actors, ActorTypes, Routes, Limit, Window, Ttl, MaxTime, MaxBoots,  \* of Server
  Sockets, Names, Configs, MaxEvents,                                     \* of FanOut
  AchCalls, FailureThreshold, SuccessThreshold, Timeout, MaxClock         \* of AchRail

VARIABLES
  railEnv, registered, submissions, token, wireOpen, progress, reported,
  evaluators, world, changes, checks, rejections,
  env, phase, boots, jwt, build, online, now, hits, sessions, tokens, requests, passed, submitted,
  config, boot, log, jobs, sockets, kafka, redis, documents, credentials,
  state, achFailures, successes, lastFailure, achCalls, clock, probes, late

R == INSTANCE RailAdapters WITH
  Commands <- RailCommands, Calls <- Submissions, Envs <- RailEnvs, env <- railEnv, calls <- submissions
G == INSTANCE Gates WITH Calls <- Checks, calls <- checks, events <- rejections
S == INSTANCE Server
F == INSTANCE FanOut
B == INSTANCE AchRail WITH
  Calls <- AchCalls, MaxTime <- MaxClock, failures <- achFailures, calls <- achCalls, now <- clock

railVars   == <<railEnv, registered, submissions, token, wireOpen, progress, reported>>
gateVars   == <<evaluators, world, changes, checks, rejections>>
serverVars == <<env, phase, boots, jwt, build, online, now, hits, sessions, tokens, requests, passed, submitted>>
fanVars    == <<config, boot, log, jobs, sockets, kafka, redis, documents, credentials>>
achVars    == <<state, achFailures, successes, lastFailure, achCalls, clock, probes, late>>

LayerInit == R!Init /\ G!Init /\ S!Init /\ F!Init /\ B!Init
LayerNext ==
  \/ R!Next /\ UNCHANGED <<gateVars, serverVars, fanVars, achVars>>
  \/ G!Next /\ UNCHANGED <<railVars, serverVars, fanVars, achVars>>
  \/ S!Next /\ UNCHANGED <<railVars, gateVars, fanVars, achVars>>
  \/ F!Next /\ UNCHANGED <<railVars, gateVars, serverVars, achVars>>
  \/ B!Next /\ UNCHANGED <<railVars, gateVars, serverVars, fanVars>>

LayerSpec == LayerInit /\ [][LayerNext]_<<railVars, gateVars, serverVars, fanVars, achVars>>

-----------------------------------------------------------------------------
(***************************************************************************)
(* What the constants are: None is none of the values it stands beside.    *)
(***************************************************************************)
RequestStates == {"sent", "unsent", "executed", "repeated", "refused", "broken", "unauthorized"}
Submission ==
  [driver : R!Drivers, command : RailCommands, attempt : Nat, at : {"token", "called", "waiting", "returned"},
   answer : R!Results \cup {None}, requests : Seq(RequestStates)]
Places   == {"pending", "settled", "failed", "undone"}
Statuses == {"SETTLED", "PENDING", "FAILED", "REVERSED", "RETURNED", R!Unknown}

Gates   == UNION {{d[n] : n \in DOMAIN d} : d \in Declared}
Worlds  ==
  [balance : Int, status : {"ACTIVE", "FROZEN"}, state : {"OPEN", "CLOSED"}, limit : {2, None}, approvals : Int,
   holds : SUBSET {"REVIEW", "SANCTIONS"}, open : BOOLEAN]
Checked ==
  [gates : Seq(Gates), at : Nat, evaluated : Seq(BOOLEAN),
   x : Payloads, pc : {"gate", "warning", "rejecting", "passed", "failed"}, seen : SUBSET Worlds, calm : BOOLEAN,
   booked : BOOLEAN]

ASSUME RailsAssumption ==
  None \notin Submission /\ None \notin RailEnvs /\ None \notin R!Results \cup Places \cup Statuses

\* A command declares a list of gates.
ASSUME GatesAssumption ==
  /\ None \notin Checked /\ None \notin Checks /\ MaxChanges \in Nat
  /\ \A d \in Declared : d \in Seq({d[n] : n \in DOMAIN d})
  /\ \A x \in Payloads : x.amount \in Int \cup {None, Text}

\* Bounds and times are numbers; an environment names a good key, a bad one or none.
ASSUME ServerAssumption ==
  /\ MaxTime \in Nat /\ MaxBoots \in Nat /\ Limit \in Nat /\ Window \in Nat /\ Ttl \in Nat
  /\ None \notin {"good", "bad"} /\ \A e \in Envs : e.keys \in {"good", "bad", None}

ASSUME FanAssumption == \A c \in Configs : c.keys \in BOOLEAN

\* AchAdapter opens its breaker at 5 failures and closes it at 2 successes.
AchCall == [good : BOOLEAN, pc : {"refused", "waiting", "done", "failed"}]
ASSUME AchAssumption ==
  /\ IsFiniteSet(AchCalls) /\ None \notin AchCall
  /\ FailureThreshold \in Nat /\ SuccessThreshold \in Nat \ {0}

-----------------------------------------------------------------------------
(***************************************************************************)
(* The rail drivers: a retry executes nothing twice, and what a result or  *)
(* a status says of a transfer is true of the rail.                        *)
(***************************************************************************)
RailsTellTrue == R!TypeOK /\ R!ExecutedOnce /\ R!ResultsAreTrue

(***************************************************************************)
(* ExecutionGateEnforcer: what passed was let pass by each fatal gate, the *)
(* events are those of the checks and an overdraft takes a race.           *)
(***************************************************************************)
GatesDecide == G!TypeOK /\ G!GatesHeld /\ G!EventsFollowChecks /\ G!OverdrawnOnlyByRace

(***************************************************************************)
(* The HTTP server boots only when it may, acts only for sessions and      *)
(* within the limit; its subscribers hear each event once and credentials  *)
(* verify as long as their key lasts.                                      *)
(***************************************************************************)
ServerKeepsFaith ==
  /\ S!TypeOK /\ F!TypeOK /\ B!TypeOK
  /\ S!FailsClosed /\ S!ActedInSession /\ S!LimitHolds /\ F!SubscribersHear /\ F!CredentialsVerify
=============================================================================
