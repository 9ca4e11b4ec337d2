\* No call fails: the alerts that must get out.
CONSTANTS
    Issues <- HubAndScan
    Triggers <- HubScanTriggers
    Handlers = {"jira", "discord"}
    Kind <- MCKind
    Content <- MCContent
    ParserOf <- MCParserOf
    Levels <- MCLevels
    Overrides <- MCOverrides
    Class <- MCClass
    Configured <- MCConfigured
    PriorityMap <- MCPriorityMap
    HubChain <- MCHubChain
    MaxExecutions = 2
    MaxPublished = 2
    MaxRedelivered = 0
    Faults = FALSE
SPECIFICATION FairSpec
PROPERTIES
    FallsQuiet
    NotifiedReachesEveryone
    Delivers
CHECK_DEADLOCK FALSE
