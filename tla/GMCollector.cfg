\* Two tables or functions and a string; scripts also run between a full
\* collection and the scan of the roots that it leaves to the next increment.
CONSTANTS
    Objects = {a, b, s}
    Strings = {s}
SPECIFICATION Spec
INVARIANTS ReachableKept ColorsAgree
PROPERTIES FullCollectReclaims CycleEnds
CHECK_DEADLOCK FALSE
