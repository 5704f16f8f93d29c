------------------------------- MODULE Server -------------------------------
(***************************************************************************)
(* The HTTP server: its boot, which refuses to go on without what its      *)
(* environment owes it, the tokens it signs for sessions, the limiter of   *)
(* financial requests, and the routes that hand commands to the bus.       *)
(* The bus itself is Authority; here it accepts a command or rejects it.   *)
(***************************************************************************)
EXTENDS Integers, Sequences, FiniteSets, Functions, Lists

CONSTANTS
  Envs,      \* environments: [node, jwtSecret, keys, manifest, attestation, bootManifest, envHash, autoGrant,
             \*                kafka, redis, db, cors, registries]
  Requests,  \* ids of requests
  Actors, ActorTypes, Routes,
  Limit, Window, \* FinancialRateLimiter.max and windowMs
  Ttl,           \* lifetime of a token, in the same ticks as Window
  MaxTime, MaxBoots, \* bounds
  None

VARIABLES
  env, phase, boots, \* the process: its environment, how far its boot is, how often it was started
  jwt,       \* the key of JWTService: Pem, or the number of the boot that drew it; None before
  build,     \* config: [hash, attested]
  online,    \* publishers that are connected
  now,       \* Date.now()
  hits,      \* FinancialRateLimiter.hits
  sessions,  \* the identity.session.create commands the bus accepted: [actor, type]; no event keeps them
  tokens,    \* tokens that clients hold: [actor, type, key, exp]
  requests,  \* requests in the server
  passed,    \* what the limiter let through in this boot: [key, at]; not in the code
  submitted  \* commands handed to the bus: [route, actor, type, at, token]; not in the code

process == <<env, phase, boots, jwt, build, online>>
clients == <<sessions, tokens>>
vars == <<process, now, hits, clients, requests, passed, submitted>>

Init ==
  /\ env \in Envs /\ phase = "down" /\ boots = 0 /\ jwt = None /\ build = None /\ online = {}
  /\ now = 0 /\ hits = <<>> /\ sessions = {} /\ tokens = {}
  /\ requests = [r \in Requests |-> None] /\ passed = {} /\ submitted = {}

ProdLike(e) == e.node \in {"production", "staging"}

-----------------------------------------------------------------------------
(***************************************************************************)
(* loadRuntimeConfig.  A build hash comes from the manifest, else from the *)
(* environment, else from the boot manifest, which is read only when there *)
(* is no attestation.                                                      *)
(***************************************************************************)
Named(e)    == IF e.manifest # None THEN e.manifest ELSE e.envHash
Attested(e) == IF e.attestation # None THEN e.attestation ELSE e.bootManifest
BuildHash(e) == IF Named(e) # None \/ e.attestation # None THEN Named(e) ELSE e.bootManifest
ConfigThrows(e) ==
  \/ ProdLike(e) /\ ~e.jwtSecret
  \/ e.node = "production" /\ e.attestation # None /\ Named(e) # None /\ e.attestation # Named(e)
  \/ e.node = "production" /\ (BuildHash(e) = None \/ e.autoGrant)

\* SecretBootstrap reads the environment: getJwtPrivateKey and getPostgresUrl fall back on what config read.
Secret(e, key) == e[key]
\* JWTService.initialize: keys that do not parse throw, none at all only in production.
JwtThrows(e) == Secret(e, "keys") = "bad" \/ (Secret(e, "keys") = None /\ e.node = "production")
Pem == 0
JwtKey(e, boot) == IF Secret(e, "keys") = "good" THEN Pem ELSE boot

\* BootSelfTest.run: registries that are not those of their manifest.
SelfTestThrows(e) == ~e.registries
CorsThrows(e) == ProdLike(e) /\ ~e.cors

\* The steps of bootKernel and buildServer; luck says whether what is outside answers.
Phases == <<"config", "jwt", "kafka", "redis", "store", "selftest", "cors", "listen">>
Throws(p, e, luck) ==
  \/ p = "config"   /\ ConfigThrows(e)
  \/ p = "jwt"      /\ JwtThrows(e)
  \/ p = "kafka"    /\ e.kafka /\ ~luck /\ e.node = "production"
  \/ p = "redis"    /\ e.redis /\ ~luck /\ e.node = "production"
  \/ p = "store"    /\ Secret(e, "db") /\ ~luck
  \/ p = "selftest" /\ SelfTestThrows(e)
  \/ p = "cors"     /\ CorsThrows(e)
  \/ p = "listen"   /\ ~luck
Connects(p, e, luck) == luck /\ ((p = "kafka" /\ e.kafka) \/ (p = "redis" /\ e.redis))

Start ==
  /\ phase = "down" /\ boots < MaxBoots
  /\ phase' = Head(Phases) /\ boots' = boots + 1
  /\ jwt' = None /\ build' = None /\ online' = {} /\ hits' = <<>> /\ passed' = {}
  /\ UNCHANGED <<env, now, clients, requests, submitted>>

BootStep ==
  \E n \in DOMAIN Phases, luck \in BOOLEAN :
    /\ phase = Phases[n]
    /\ phase' = IF Throws(phase, env, luck) THEN "down" ELSE IF n = Len(Phases) THEN "up" ELSE Phases[n + 1]
    /\ build' = IF phase = "config" THEN [hash |-> BuildHash(env), attested |-> Attested(env)] ELSE build
    /\ jwt' = IF phase = "jwt" THEN JwtKey(env, boots) ELSE jwt
    /\ online' = IF Connects(phase, env, luck) THEN online \cup {phase} ELSE online
    /\ UNCHANGED <<env, boots, now, hits, clients, requests, passed, submitted>>

\* The process ends; the log and what clients hold stay.
Crash ==
  /\ phase = "up" /\ phase' = "down"
  /\ requests' = [r \in Requests |-> IF requests[r] = None THEN None ELSE [requests[r] EXCEPT !.pc = "lost"]]
  /\ UNCHANGED <<env, boots, jwt, build, online, now, hits, clients, passed, submitted>>

\* computeSubsystemHealth and computeFinalHealth: the other subsystems are in order once the server listens.
Provenance == env.manifest # None /\ env.manifest = build.hash /\ build.attested \in {None, build.hash}
Health == IF Provenance THEN "HEALTHY" ELSE "UNHEALTHY"

-----------------------------------------------------------------------------
(***************************************************************************)
(* Tokens.  A session is a command of whoever asks for it; the token is    *)
(* signed when the bus has accepted it.  The command results in no event:  *)
(* after a restart nothing but the token tells of the session.             *)
(***************************************************************************)
Arrive(r, call) == phase = "up" /\ requests[r] = None /\ requests' = [requests EXCEPT ![r] = call]
At(r, pc)       == phase = "up" /\ requests[r] # None /\ requests[r].pc = pc
Goto(r, pc)     == requests' = [requests EXCEPT ![r].pc = pc]

SessionCreate(r, actor, type) ==
  /\ Arrive(r, [pc |-> "submitting", actor |-> actor, type |-> type])
  /\ UNCHANGED <<process, now, hits, clients, passed, submitted>>

\* A seeded fault: a rejection is overlooked.
SessionAnswerAny(r, accepted) ==
  /\ At(r, "submitting") /\ Goto(r, "signing")
  /\ sessions' = IF accepted THEN sessions \cup {[actor |-> requests[r].actor, type |-> requests[r].type]} ELSE sessions
  /\ UNCHANGED <<process, now, hits, tokens, passed, submitted>>
SessionAnswer(r, accepted) ==
  /\ At(r, "submitting") /\ Goto(r, IF accepted THEN "signing" ELSE "answered")
  /\ sessions' = IF accepted THEN sessions \cup {[actor |-> requests[r].actor, type |-> requests[r].type]} ELSE sessions
  /\ UNCHANGED <<process, now, hits, tokens, passed, submitted>>

Sign(r) ==
  /\ At(r, "signing") /\ Goto(r, "answered")
  /\ tokens' = tokens \cup {[actor |-> requests[r].actor, type |-> requests[r].type, key |-> jwt, exp |-> now + Ttl]}
  /\ UNCHANGED <<process, now, hits, sessions, passed, submitted>>

Verify(token) == token # None /\ token.key = jwt /\ now < token.exp

-----------------------------------------------------------------------------
(***************************************************************************)
(* Requests.  The preHandler and the handler each verify the token, and    *)
(* each awaits it: it may expire between the two.                          *)
(***************************************************************************)
Limited == env.node # "test"
HitsOf(key) == IF key \in DOMAIN hits THEN hits[key] ELSE <<>>
Recent(key) == Filter(HitsOf(key), {t \in 0..now : now - t < Window})
Allowed(key) == Len(Recent(key)) < Limit

\* Without a token that verifies, the address of the client is the key.
Key(token) == IF Verify(token) THEN token.actor ELSE "ip"

Receive(r, route, token) ==
  /\ Arrive(r, [pc |-> IF Limited THEN "limiting" ELSE "handling", route |-> route, token |-> token])
  /\ UNCHANGED <<process, now, hits, clients, passed, submitted>>

LimitRequest(r) ==
  /\ At(r, "limiting")
  /\ LET key == Key(requests[r].token) IN
       IF Allowed(key)
         THEN /\ hits' = [k \in DOMAIN hits \cup {key} |-> IF k = key THEN Append(Recent(key), now) ELSE hits[k]]
              /\ passed' = passed \cup {[key |-> key, at |-> now, by |-> r]}
              /\ Goto(r, "handling")
         ELSE Goto(r, "answered") /\ UNCHANGED <<hits, passed>>
  /\ UNCHANGED <<process, now, clients, submitted>>

Incomplete(r, route) == requests[r].route = route /\ Goto(r, "answered") /\ UNCHANGED submitted
Command(r, route) ==
  LET token == requests[r].token IN
    /\ requests[r].route = route /\ Verify(token) /\ Goto(r, "answered")
    /\ submitted' = submitted \cup {[route |-> route, actor |-> token.actor, type |-> token.type, at |-> now, boot |-> boots,
                                     token |-> token]}
\* identityContextFromReq: 401.
Unauthenticated(r) == ~Verify(requests[r].token) /\ requests[r].route # "rail" /\ Goto(r, "answered") /\ UNCHANGED submitted

\* The fields of a grant and of a revocation are asked for before their command.
GrantRoute(r)     == Command(r, "grant") \/ Incomplete(r, "grant")
RevokeRoute(r)    == Command(r, "revoke") \/ Incomplete(r, "revoke")
\* start of the saga interpreter throws for an unknown saga.
SagaRoute(r)      == Command(r, "saga") \/ Incomplete(r, "saga")
UniversalRoute(r) == Command(r, "command")
\* The rails of AchAdapter are called without an identity and without the bus.
RailRoute(r)      == requests[r].route = "rail" /\ Goto(r, "answered") /\ UNCHANGED submitted

Handle(r) ==
  /\ At(r, "handling")
  /\ Unauthenticated(r) \/ GrantRoute(r) \/ RevokeRoute(r) \/ SagaRoute(r) \/ UniversalRoute(r) \/ RailRoute(r)
  /\ UNCHANGED <<process, now, hits, clients, passed>>

Tick == phase = "up" /\ now < MaxTime /\ now' = now + 1
        /\ UNCHANGED <<process, hits, clients, requests, passed, submitted>>

Next ==
  \/ Start \/ BootStep \/ Crash \/ Tick
  \/ \E r \in Requests :
       \/ \E a \in Actors, t \in ActorTypes : SessionCreate(r, a, t)
       \/ \E accepted \in BOOLEAN : SessionAnswer(r, accepted)
       \/ Sign(r)
       \/ \E route \in Routes, token \in tokens \cup {None} : Receive(r, route, token)
       \/ LimitRequest(r) \/ Handle(r)

Spec == Init /\ [][Next]_vars

-----------------------------------------------------------------------------
TypeOK ==
  /\ phase \in Range(Phases) \cup {"down", "up"} /\ boots \in 0..MaxBoots /\ now \in 0..MaxTime
  /\ jwt \in {None, Pem} \cup 1..MaxBoots /\ online \subseteq {"kafka", "redis"}
  /\ \A k \in DOMAIN hits : Len(hits[k]) \in 1..Limit

(***************************************************************************)
(* bootKernel fails closed: a production server that listens has keys that *)
(* outlive it, every publisher it was told to have, and no attestation of  *)
(* another build than the one it names.  A boot manifest of another build, *)
(* which is only read when there is no attestation, shows in its health.   *)
(***************************************************************************)
FailsClosed ==
  phase = "up" /\ env.node = "production" =>
    /\ jwt = Pem /\ ~env.autoGrant /\ env.registries /\ env.cors
    /\ (env.kafka => "kafka" \in online) /\ (env.redis => "redis" \in online)
    /\ env.attestation # None => env.attestation = build.hash \/ Named(env) = None
    /\ Health = "HEALTHY" => {env.manifest, build.hash, build.attested} \ {None} = {build.hash}

(***************************************************************************)
(* Across boots, expiries and rejections: for whomever a command was       *)
(* submitted the bus had accepted a session, of the actor type the token   *)
(* says, and the token had not expired; a token outlives the boot that     *)
(* signed it only if the environment gives the keys.                       *)
(***************************************************************************)
ActedInSession ==
  \A s \in submitted :
    /\ [actor |-> s.actor, type |-> s.type] \in sessions
    /\ s.at < s.token.exp /\ s.token.key \in {Pem, s.boot}

(***************************************************************************)
(* FinancialRateLimiter: in no window of one boot more than Limit requests *)
(* of one key are let through.                                             *)
(***************************************************************************)
LimitHolds ==
  \A t \in 0..now : \A p \in passed :
    Cardinality({q \in passed : q.key = p.key /\ q.at \in (t - Window + 1)..t}) <= Limit
=============================================================================
