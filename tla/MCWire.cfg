\* Every message of the protocol, up to two slots given at a time or all of them.
CONSTANTS
    Pairs <- MCPairs
    Partials <- MCPartials
    Enums <- MCEnums
    Half = 2
SPECIFICATION Spec
INVARIANTS
    ValuesSurviveBytes
    OtherVersionsUnderstood
    JsonKeepsTheMessage
\* A behaviour ends with its message.
CHECK_DEADLOCK FALSE
