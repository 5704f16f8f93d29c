SPECIFICATION MCSpec
CONSTANTS
  None = None
  Null = Null
  Text = Text
  RailCommands = {"c1"}
  Submissions = {1, 2}
  RailEnvs <- MCRailEnvs
  Checks = {1, 2}
  Declared <- MCDeclared
  Payloads <- MCPayloads
  Evaluators <- MCEvaluators
  MaxAmount = 1
  StaticLimit = 1
  Quorum = 1
  MaxChanges = 1
  Envs <- MCEnvs
  Requests = {1, 2, 3}
  Actors = {"a"}
  ActorTypes = {"human", "agent"}
  Routes = {"command", "grant", "revoke", "saga", "rail"}
  Limit = 1
  Window = 2
  Ttl = 2
  MaxTime = 3
  MaxBoots = 2
  Sockets = {"s1"}
  Names <- MCNames
  Configs <- MCConfigs
  MaxEvents = 2
  AchCalls = {1, 2, 3, 4, 5}
  FailureThreshold = 2
  SuccessThreshold = 2
  Timeout = 1
  MaxClock = 2
INVARIANTS
  RailsTellTrue
  GatesDecide
  BuildsAreSound
  ServerKeepsFaith
PROPERTY NoWayBack
CHECK_DEADLOCK FALSE
