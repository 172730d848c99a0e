\* Garbage collected classes, constructed with parameters that the constructor
\* does not pop, or pushed by C++.
SPECIFICATION Spec
CONSTANTS
    NoObj = NoObj
    Obj = {sample, both}
    GarbageCollected = {sample, both}
    Scriptable = {both}
INVARIANT Reclaimed
CHECK_DEADLOCK FALSE
