SPECIFICATION Spec
CONSTANTS
    Stages <- MCStages
    App = "app"
    Parent <- MCParent
    Stacks <- LateStacks
    StageOf <- LateStageOf
    Account <- LateAccount
    Region <- LateRegion
    Refs <- LateRefs
    Producer <- LateProducer
    Exportable <- LateRefs
    Positions = {"property", "nested"}
    LateCode = TRUE
INVARIANTS
    PendingImportsExported
    SiblingsAreServed
