\* The same machine, without looking at what the scan of the roots found.
CONSTANTS
    Objects = {a, b, s}
    Strings = {s}
SPECIFICATION Spec
INVARIANT Intact
CHECK_DEADLOCK FALSE
