\* Two parsers of any class; every set of levels a trigger can have; one
\* execution of a parser.
CONSTANTS
    Parsers = {first, second}
    Labels <- MCLabels
    Scores <- MCScores
    Tenths <- MCTenths
    Scans <- MCScans
    Events <- MCEvents
    MaxItems = 3
SPECIFICATION BothSpec
INVARIANTS
    InstancesAgree
    MatchedFindingsAreRated
    TriggersMatchRatings
    EcrAlertsReachThreshold
    DescriptionIsFaithful
    NeverFailsForOptional
\* A synthesized program has nothing left to do, and an execution ends.
CHECK_DEADLOCK FALSE
