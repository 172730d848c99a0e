\* An application that passes an object to the script whenever it likes.
SPECIFICATION HostSpec
CONSTANTS
    NoObj = NoObj
    Obj = {sample, entity}
    GarbageCollected = {sample}
    Scriptable = {entity}
INVARIANT NoMemoryFault
CHECK_DEADLOCK FALSE
