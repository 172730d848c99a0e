\* sample: a SampleClass; the entities: NewSampleClass; both: garbage collected
\* and scriptable.
SPECIFICATION Spec
CONSTANTS
    NoObj = NoObj
    Obj = {sample, entity, entity2, both}
    GarbageCollected = {sample, both}
    Scriptable = {entity, entity2, both}
INVARIANTS HandleBacked NoMemoryFault HostBacked LockScoped Reclaimed
PROPERTIES OnlyDestroyDestroys EventuallyDestroyed ImplementsLifetime
CHECK_DEADLOCK FALSE
