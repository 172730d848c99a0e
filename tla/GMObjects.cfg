\* sample: a SampleClass; the entities: NewSampleClass; both: garbage collected
\* and scriptable.
SPECIFICATION Spec
CONSTANTS
    NoObj = NoObj
    Obj = {sample, entity, entity2, both}
    GarbageCollected = {sample, both}
    Scriptable = {entity, entity2, both}
INVARIANTS HandleBacked NoMemoryFault Reclaimed
PROPERTIES ImplementsLifetime
CHECK_DEADLOCK FALSE
