\* The program, a C++ function called by its scripts, and the scripts and calls
\* that this function runs in turn.
SPECIFICATION Spec
CONSTANTS
    MaxDepth = 1
    MaxTop = 3
    MaxOver = 1
INVARIANTS CalleeUnderArguments ResultsCounted ParametersCounted ResultsBacked OnlyLeftoversWedge
PROPERTIES WedgedForEver
CHECK_DEADLOCK FALSE
