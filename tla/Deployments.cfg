SPECIFICATION AllSpec
CONSTANTS
  Accounts = {"home", "other"}
  Home = "home"
  HomeRegion = "east"
  Regions = {"east", "west"}
  Stacks = {"core", "app", "west"}
  Account <- MCAccount
  Region <- MCRegion
  Ids = {"a", "b"}
  Occupied <- MCOccupied
  None = "none"
  ManagerStack = "core"
  MaxNets = 3
  MaxVpns = 2
  MaxParts = 4
  Secrets = {"password", "url", "key"}
  ServiceOf <- MCServiceOf
  StackOf <- MCStackOf
  ClusterStack = "platform"
  UsedByCluster = {"network"}
  SecretIds = {"a", "b"}
  Targets = {"default", "kube-system", "jobs"}
  MaxRegistered = 2
  Tasks = {"crawl", "load"}
  Outcomes = {"SUCCEEDED", "FAILED"}
  Options <- MCOptions
  MaxTriggers = 2
  MaxConditions = 2
INVARIANTS
  VpnsAreRouted
  SharesMatchSpokes
  DrawsAreProvisioned
  FailuresHaveACause
  FailuresAreRaces
  LogsComeFirst
PROPERTIES
  NetworksDeploy
  SecretsArrive
  WorkflowsRun
\* A program that is refused, and a deployment that has ended or failed, stop.
CHECK_DEADLOCK FALSE
