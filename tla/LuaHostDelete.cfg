\* An application that deletes an object it shares with the script.
SPECIFICATION HostSpec
CONSTANTS
    NoObj = NoObj
    Obj = {sample, entity}
    GarbageCollected = {sample}
    Scriptable = {entity}
INVARIANT HandleBacked
CHECK_DEADLOCK FALSE
