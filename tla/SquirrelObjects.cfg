\* sample: a SampleClass; the entities: NewSampleClass; both: garbage collected
\* and scriptable.
SPECIFICATION Spec
CONSTANTS
    NoObj = NoObj
    Obj = {sample, entity, entity2, both}
    GarbageCollected = {sample, both}
    Scriptable = {entity, entity2, both}
INVARIANTS InstanceBacked OnlyTemporariesDangle HostBacked HookedReclaimed
CHECK_DEADLOCK FALSE
