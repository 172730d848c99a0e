SPECIFICATION ContextsSpec
CONSTANTS
    Functions = {f, g}
    MaxDepth = 1
    MaxLen = 5
    MaxArgs = 1
    MaxOver = 1
    MaxDamage = 1
    Names = {p, b}
    Builtins = {b}
    Arities = {2, 3}
    MaxContexts = 2
    MaxFunctions = 2
    MaxScripts = 2
    MaxFrames = 4
INVARIANTS
    CalleePlaced
    ResultsCounted
    OnlyTablesLeak
    FaultsExplained
    OcamlRightFunction
    OcamlPcAgrees
CHECK_DEADLOCK FALSE
