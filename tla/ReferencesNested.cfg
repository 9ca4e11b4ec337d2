SPECIFICATION Spec
CONSTANTS
    Stages <- MCStages
    App = "app"
    Parent <- MCParent
    Stacks <- MCStacks
    StageOf <- MCStageOf
    Account <- MCAccount
    Region <- MCRegion
    Refs <- MCRefs
    Producer <- MCProducer
    Exportable <- MCExportable
    Positions = {"property", "nested"}
    LateCode = FALSE
INVARIANTS
    LockFindsEveryUse
