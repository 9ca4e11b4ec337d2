SPECIFICATION RenderingSpec
CONSTANTS
    Tables <- MCLosing
    Values = {"one", "other"}
INVARIANT EditsArrive
CHECK_DEADLOCK FALSE
