\* A program that goes on after a script failed.
SPECIFICATION Spec
CONSTANTS
    MaxDepth = 1
    MaxTop = 3
    MaxOver = 1
INVARIANT CallsAfterFailure
CHECK_DEADLOCK FALSE
