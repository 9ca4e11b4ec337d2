\* Any call may fail and any execution may time out.
CONSTANTS
    Issues <- FaultIssues
    Triggers <- FaultTriggers
    Handlers = {"jira", "discord"}
    Kind <- MCKind
    Content <- MCContent
    ParserOf <- MCParserOf
    Levels <- MCLevels
    Overrides <- MCOverrides
    Class <- MCClass
    Configured <- MCConfigured
    PriorityMap <- MCPriorityMap
    HubChain <- MCHubChain
    MaxExecutions = 2
    MaxPublished = 2
    MaxRedelivered = 1
    Faults = TRUE
SPECIFICATION Spec
INVARIANTS
    LossHasACause
    UndescribedStaysNew
    TicketsFollowTriggers
PROPERTY DeliversSafely
\* When all sources are silent and all executions have ended nothing happens.
CHECK_DEADLOCK FALSE
