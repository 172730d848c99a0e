SPECIFICATION Spec
CONSTANTS
    Threads = {t1, t2, t3}
    Signals = {s}
    MaxKilled = 1
    Wrap = 3
    Delays = {1, 2}
    Deltas = {1}
    MaxDepth = 2
    MaxWork = 3
    MaxSignals = 1
    MaxHarm = 1
INVARIANTS
    ListsAgree
    NoThreadSkipped
    BlocksAgree
    FaultsExplained
PROPERTIES
    WokenOnTime
    SignalledResume
CHECK_DEADLOCK FALSE
