SPECIFICATION MCSpec
CONSTANTS
  None = None
  NoActor = NoActor
  Intents = {"i1", "i2"}
  Calls = {1, 2}
  Submitted <- MCSubmitted
  Commands <- MCCommands
  Routes <- MCRoutes
  RuleSet <- MCRuleSet
  InitRules <- MCInitRules
  MaxRules = 2
  Requests = {"r1", "r2"}
  Vaults = {"v1", "v2"}
  Payments = {"p1", "p2"}
  AgentIds = {"a1"}
  Payloads <- MCPayloads
  Reserve = "reserve"
  Operating = "operating"
  InitReserve = 2
  MissionSteps = 2
  MaxLog = 7
  Goals = {"i1"}
  Missions = {"m1"}
  Runs = {1, 2}
  Objectives <- MCObjectives
  Permissions <- MCPermissions
  StepLists <- MCStepLists
INVARIANTS
  TypeOK
  WorkflowsFollowStore
  DomainsFollowLog
  MissionsFollowPlan
PROPERTY EverythingEnds
CHECK_DEADLOCK FALSE
