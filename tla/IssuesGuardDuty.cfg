\* A GuardDuty finding at the default threshold.
CONSTANTS
    Issues = {"guard"}
    Triggers = {"threats"}
    Handlers = {"jira", "discord"}
    Kind <- MCKind
    Content <- MCContent
    ParserOf <- MCParserOf
    Levels <- MCLevels
    Overrides <- MCOverrides
    Class <- MCClass
    Configured <- MCConfigured
    PriorityMap <- MCPriorityMap
    HubChain <- MCHubChain
    MaxExecutions = 2
    MaxPublished = 1
    MaxRedelivered = 0
    Faults = FALSE
SPECIFICATION Spec
INVARIANT SilenceIsDecided
CHECK_DEADLOCK FALSE
