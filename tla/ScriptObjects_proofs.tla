------------------------ MODULE ScriptObjects_proofs ------------------------
(***************************************************************************)
(* ObjInv holds initially and the steps the backends share preserve it.    *)
(* The proof module of each backend cites these lemmas for the shared      *)
(* steps and treats its own callbacks itself.                              *)
(***************************************************************************)
EXTENDS ScriptObjects, TLAPS

\* Nothing exists at first.
LEMMA InitObjInv == Init => ObjInv
  BY ObjAssumption
  DEF Init, ObjInv, TypeOK, FramesInv, DestroyInv, FinalizeInv, MemoryInv,
      NoMemoryFault, Idle, Memory, CallAt, FinAt, Faults

\* A stuttering step.
LEMMA StutterObjInv == ObjInv /\ UNCHANGED vars => ObjInv'
  BY DEF ObjInv, TypeOK, FramesInv, DestroyInv, FinalizeInv, MemoryInv,
         NoMemoryFault, vars

\* A hang or a NULL dereference ends the run and changes nothing else.
LEMMA FailObjInv ==
  ASSUME NEW f \in {"hang", "nullDeref"}, ObjInv, Fail(f)
  PROVE  ObjInv'
  BY DEF Fail, ObjInv, TypeOK, FramesInv, DestroyInv, FinalizeInv, MemoryInv,
         NoMemoryFault, Faults

\* Locking the wrapper at the start of Destroy().
LEMMA BeginDestroyObjInv ==
  ASSUME NEW o \in Obj, ObjInv, InScript, handle[o] = "reachable",
         o \notin GarbageCollected, BeginDestroy(o)
  PROVE  ObjInv'
  BY ObjAssumption
  DEF InScript, BeginDestroy, Frame, Idle, ObjInv, TypeOK, FramesInv, DestroyInv,
      FinalizeInv, MemoryInv, NoMemoryFault, CallAt

\* The user's destructor inside Destroy(): the Release() it causes finds the
\* wrapper locked.
LEMMA RunDestructorObjInv == ObjInv /\ RunDestructor => ObjInv'
<1> SUFFICES ASSUME ObjInv, RunDestructor PROVE ObjInv'
  OBVIOUS
<1> DEFINE o == call.obj
<1>1. o \in Obj /\ wrapper[o] = "live" /\ locked[o] /\ fin.obj = NoObj
  BY ObjAssumption DEF RunDestructor, Idle, ObjInv, TypeOK, FramesInv, DestroyInv
<1>2. /\ UNCHANGED <<wrapper, objectPtr, locked, handle, fin, context, fault>>
      /\ call' = [at |-> "destroyed", obj |-> o]
      /\ \/ /\ objectPtr[o] /\ host[o] = "live"
            /\ host' = [host EXCEPT ![o] = "freed"]
            /\ backPtr' = [backPtr EXCEPT ![o] = FALSE]
         \/ ~objectPtr[o] /\ host[o] = "freed" /\ UNCHANGED <<host, backPtr>>
  BY <1>1, ObjAssumption
  DEF RunDestructor, Generic_Destructor, DeleteHost, Release, Frame, Idle,
      ObjInv, TypeOK, FramesInv, MemoryInv
<1>3. TypeOK' /\ FramesInv' /\ NoMemoryFault'
  <2>1. TypeOK'
    BY <1>1, <1>2 DEF ObjInv, TypeOK, CallAt, Memory
  <2>2. FramesInv' /\ NoMemoryFault'
    BY <1>1, <1>2, ObjAssumption DEF ObjInv, FramesInv, NoMemoryFault
  <2> QED BY <2>1, <2>2
<1>4. DestroyInv' /\ FinalizeInv'
  BY <1>1, <1>2, ObjAssumption
  DEF RunDestructor, ObjInv, TypeOK, FramesInv, DestroyInv, FinalizeInv
<1>5. MemoryInv'
  BY <1>1, <1>2, ObjAssumption
  DEF RunDestructor, ObjInv, TypeOK, FramesInv, MemoryInv
<1> QED BY <1>3, <1>4, <1>5 DEF ObjInv

\* The end of Destroy().
LEMMA EndDestroyObjInv == ObjInv /\ EndDestroy => ObjInv'
<1> SUFFICES ASSUME ObjInv, EndDestroy PROVE ObjInv'
  OBVIOUS
<1> DEFINE o == call.obj
<1>1. o \in Obj /\ wrapper[o] = "live" /\ host[o] = "freed" /\ fin.obj = NoObj
  BY ObjAssumption DEF EndDestroy, Idle, ObjInv, TypeOK, FramesInv, DestroyInv
<1>2. /\ UNCHANGED <<wrapper, host, backPtr, handle, fin, context, fault>>
      /\ locked' = [locked EXCEPT ![o] = FALSE]
      /\ objectPtr' = [objectPtr EXCEPT ![o] = FALSE]
      /\ call' = [at |-> "idle", obj |-> NoObj]
  BY <1>1 DEF EndDestroy, Idle
<1>3. TypeOK' /\ FramesInv' /\ NoMemoryFault'
  BY <1>1, <1>2, ObjAssumption
  DEF EndDestroy, Idle, ObjInv, TypeOK, FramesInv, NoMemoryFault, CallAt
<1>4. DestroyInv' /\ FinalizeInv'
  BY <1>1, <1>2, ObjAssumption DEF ObjInv, TypeOK, DestroyInv, FinalizeInv
<1>5. MemoryInv'
  BY <1>1, <1>2, ObjAssumption
  DEF EndDestroy, ObjInv, TypeOK, FramesInv, MemoryInv
<1> QED BY <1>3, <1>4, <1>5 DEF ObjInv

\* The start of a finaliser.
LEMMA FinalizeBodyObjInv ==
  ASSUME NEW o \in Obj, ObjInv, fault = "none", fin = Idle,
         call.at \notin {"destroy", "destroyed"}, call.obj # o,
         handle[o] \in {"reachable", "garbage"},
         FinalizeBody(o), UNCHANGED call
  PROVE  ObjInv'
<1>1. /\ wrapper[o] = "live" /\ fin.obj = NoObj /\ fin.at = "idle"
      /\ UNCHANGED <<objectPtr, host, backPtr, call, context, fault>>
      /\ handle' = [handle EXCEPT ![o] = "collected"]
  BY DEF FinalizeBody, FinalizeWrapper, Idle, ObjInv, MemoryInv
<1>2. CASE objectPtr[o] /\ o \in GarbageCollected
  <2>1. /\ UNCHANGED wrapper
        /\ locked' = [locked EXCEPT ![o] = TRUE]
        /\ fin' = [at |-> "destructor", obj |-> o]
    BY <1>1, <1>2 DEF FinalizeBody, FinalizeWrapper, Frame
  <2>2. TypeOK' /\ FramesInv' /\ NoMemoryFault'
    BY <1>1, <2>1, ObjAssumption DEF ObjInv, TypeOK, FramesInv, NoMemoryFault, FinAt
  <2>3. DestroyInv' /\ FinalizeInv'
    BY <1>1, <1>2, <2>1, ObjAssumption DEF ObjInv, TypeOK, DestroyInv, FinalizeInv
  <2>4. MemoryInv'
    BY <1>1, <1>2, <2>1, ObjAssumption DEF ObjInv, TypeOK, MemoryInv
  <2> QED BY <2>2, <2>3, <2>4 DEF ObjInv
<1>3. CASE ~(objectPtr[o] /\ o \in GarbageCollected)
  <2>1. /\ UNCHANGED <<locked, fin>>
        /\ wrapper' = [wrapper EXCEPT ![o] = "freed"]
    BY <1>1, <1>3 DEF FinalizeBody, FinalizeWrapper
  <2>2. TypeOK' /\ FramesInv' /\ NoMemoryFault'
    BY <1>1, <2>1, ObjAssumption DEF ObjInv, TypeOK, FramesInv, NoMemoryFault, Memory
  <2>3. DestroyInv' /\ FinalizeInv'
    BY <1>1, <2>1, ObjAssumption DEF ObjInv, TypeOK, DestroyInv, FinalizeInv
  <2>4. MemoryInv'
    BY <1>1, <2>1, ObjAssumption DEF ObjInv, TypeOK, MemoryInv
  <2> QED BY <2>2, <2>3, <2>4 DEF ObjInv
<1> QED BY <1>2, <1>3

\* The user's destructor inside a finaliser.
LEMMA FinalizeDestructorObjInv == ObjInv /\ FinalizeDestructor => ObjInv'
<1> SUFFICES ASSUME ObjInv, FinalizeDestructor PROVE ObjInv'
  OBVIOUS
<1> DEFINE o == fin.obj
<1>1. /\ o \in Obj /\ wrapper[o] = "live" /\ locked[o] /\ objectPtr[o] /\ host[o] = "live"
      /\ call.at \notin {"destroy", "destroyed"} /\ call.obj # o
  BY ObjAssumption
  DEF FinalizeDestructor, ObjInv, TypeOK, FramesInv, FinalizeInv, MemoryInv
<1>2. /\ UNCHANGED <<wrapper, objectPtr, locked, handle, call, context, fault>>
      /\ fin' = [at |-> "delete", obj |-> o]
      /\ host' = [host EXCEPT ![o] = "freed"]
      /\ backPtr' = [backPtr EXCEPT ![o] = FALSE]
  BY <1>1 DEF FinalizeDestructor, Generic_Destructor, DeleteHost, Release, Frame
<1>3. TypeOK' /\ FramesInv' /\ NoMemoryFault'
  BY <1>1, <1>2, ObjAssumption
  DEF ObjInv, TypeOK, FramesInv, NoMemoryFault, FinAt, Memory
<1>4. DestroyInv' /\ FinalizeInv'
  BY <1>1, <1>2, ObjAssumption DEF ObjInv, TypeOK, DestroyInv, FinalizeInv
<1>5. MemoryInv'
  BY <1>1, <1>2, ObjAssumption DEF ObjInv, TypeOK, MemoryInv
<1> QED BY <1>3, <1>4, <1>5 DEF ObjInv

\* The end of a finaliser.
LEMMA FinalizeDeleteObjInv == ObjInv /\ FinalizeDelete => ObjInv'
<1> SUFFICES ASSUME ObjInv, FinalizeDelete PROVE ObjInv'
  OBVIOUS
<1> DEFINE o == fin.obj
<1>1. /\ o \in Obj /\ wrapper[o] = "live" /\ handle[o] = "collected"
      /\ call.at \notin {"destroy", "destroyed"} /\ call.obj # o
  BY ObjAssumption DEF FinalizeDelete, ObjInv, TypeOK, FramesInv, FinalizeInv
<1>2. /\ UNCHANGED <<objectPtr, locked, host, backPtr, handle, call, context, fault>>
      /\ wrapper' = [wrapper EXCEPT ![o] = "freed"]
      /\ fin' = [at |-> "idle", obj |-> NoObj]
  BY <1>1 DEF FinalizeDelete, Idle
<1>3. TypeOK' /\ FramesInv' /\ NoMemoryFault'
  BY <1>1, <1>2, ObjAssumption
  DEF ObjInv, TypeOK, FramesInv, NoMemoryFault, FinAt, Memory
<1>4. DestroyInv' /\ FinalizeInv'
  BY <1>1, <1>2, ObjAssumption DEF ObjInv, TypeOK, DestroyInv, FinalizeInv
<1>5. MemoryInv'
  BY <1>1, <1>2, ObjAssumption DEF ObjInv, TypeOK, MemoryInv
<1> QED BY <1>3, <1>4, <1>5 DEF ObjInv

\* The script and the context.
LEMMA DropObjInv == ASSUME NEW o \in Obj, ObjInv, Drop(o) PROVE ObjInv'
  BY DEF Drop, InScript, Idle, ObjInv, TypeOK, FramesInv, DestroyInv,
         FinalizeInv, MemoryInv, NoMemoryFault

\* delete context changes no object by itself.
LEMMA ContextObjInv == ObjInv /\ (CloseContext \/ ContextClosed) => ObjInv'
  BY DEF CloseContext, ContextClosed, ObjInv, TypeOK, FramesInv, DestroyInv,
         FinalizeInv, MemoryInv, NoMemoryFault
-----------------------------------------------------------------------------
(* What a step does to the hosts, and why that implements ObjectLifetime *)

\* None is created or destroyed, ...
SameCollected == \A o \in Obj : handle[o] = "collected" <=> handle'[o] = "collected"
HostsKept == host' = host /\ SameCollected

\* ... or one is created, by a constructor or a C++ function, ...
HostCreated(o) ==
    /\ host[o] = "none" /\ handle[o] # "collected"
    /\ host' = [host EXCEPT ![o] = "live"]
    /\ SameCollected

\* ... or one is destroyed, by Destroy() or by its finaliser, ...
HostDestroyed(o) ==
    /\ \/ o \in GarbageCollected /\ handle[o] = "collected"
       \/ o \notin GarbageCollected /\ call = Frame("destroy", o) /\ handle[o] = "reachable"
    /\ host[o] = "live"
    /\ host' = [host EXCEPT ![o] = "freed"]
    /\ handle' = handle

\* ... or a handle is collected.
HandleCollected(o) ==
    /\ host' = host
    /\ handle[o] \in {"reachable", "garbage"}
    /\ handle' = [handle EXCEPT ![o] = "collected"]

HostStep == HostsKept \/ \E o \in Obj : HostCreated(o) \/ HostDestroyed(o) \/ HandleCollected(o)

\* The steps that every backend has are of these kinds.
LEMMA SharedHostStep ==
  ASSUME ObjInv,
         \/ \E o \in Obj : Drop(o)
         \/ RunDestructor \/ EndDestroy
         \/ FinalizeDestructor \/ FinalizeDelete
         \/ CloseContext \/ ContextClosed
         \/ UNCHANGED vars
  PROVE  HostStep
<1> USE DEF ObjInv
<1>1. ASSUME NEW o \in Obj, Drop(o)
      PROVE  HostsKept
  BY <1>1 DEF Drop, TypeOK, HostsKept, SameCollected
<1>2. ASSUME RunDestructor
      PROVE  HostsKept \/ \E o \in Obj : HostDestroyed(o)
  <2>1. /\ call.obj \in Obj /\ call.obj \notin GarbageCollected
        /\ handle[call.obj] = "reachable" /\ call = [at |-> "destroy", obj |-> call.obj]
    BY <1>2, ObjAssumption DEF RunDestructor, TypeOK, FramesInv, DestroyInv
  <2>2. /\ handle' = handle
        /\ host' = host \/ (host[call.obj] = "live" /\ host' = [host EXCEPT ![call.obj] = "freed"])
    BY <1>2 DEF RunDestructor, Generic_Destructor, DeleteHost
  <2> QED BY <2>1, <2>2 DEF Frame, HostsKept, SameCollected, HostDestroyed
<1>3. ASSUME FinalizeDestructor
      PROVE  HostsKept \/ \E o \in Obj : HostDestroyed(o)
  <2>1. fin.obj \in Obj /\ fin.obj \in GarbageCollected /\ handle[fin.obj] = "collected"
    BY <1>3, ObjAssumption DEF FinalizeDestructor, TypeOK, FramesInv, FinalizeInv
  <2>2. /\ handle' = handle
        /\ host' = host \/ (host[fin.obj] = "live" /\ host' = [host EXCEPT ![fin.obj] = "freed"])
    BY <1>3 DEF FinalizeDestructor, Generic_Destructor, DeleteHost
  <2> QED BY <2>1, <2>2 DEF HostsKept, SameCollected, HostDestroyed
<1>4. ASSUME EndDestroy \/ FinalizeDelete \/ CloseContext \/ ContextClosed \/ UNCHANGED vars
      PROVE  HostsKept
  BY <1>4
  DEF EndDestroy, FinalizeDelete, CloseContext, ContextClosed, vars, HostsKept, SameCollected
<1> QED BY <1>1, <1>2, <1>3, <1>4 DEF HostStep

\* Such a step destroys an object of a class that is not garbage collected only
\* in its Destroy().
LEMMA HostStepDestroys ==
  ASSUME TypeOK, HostStep, NEW p \in Obj \ GarbageCollected,
         host[p] = "live", host'[p] # "live"
  PROVE  call = Frame("destroy", p)
  BY DEF TypeOK, HostStep, HostsKept, HostCreated, HostDestroyed, HandleCollected

\* And it is a step of ObjectLifetime, or does not change what it sees.
LEMMA LifeStep ==
  ASSUME TypeOK, HostStep
  PROVE  Lifetime!LifeNext \/ LifeOf' = LifeOf
<1> USE DEF LifeOf
<1>0. /\ host \in [Obj -> Memory]
      /\ handle \in [Obj -> {"none", "reachable", "garbage", "collected"}]
  BY DEF TypeOK
<1>1. CASE HostsKept
  BY <1>1 DEF HostsKept, SameCollected
<1>2. ASSUME NEW o \in Obj, HostCreated(o)
      PROVE  Lifetime!LifeNext
  <2>1. LifeOf[o] = "unborn"
    BY <1>2 DEF HostCreated
  <2>2. LifeOf' = [LifeOf EXCEPT ![o] = "alive"]
    BY <1>0, <1>2 DEF HostCreated, SameCollected
  <2> QED BY <2>1, <2>2 DEF Lifetime!LifeNext, Lifetime!Create
<1>3. ASSUME NEW o \in Obj, HostDestroyed(o)
      PROVE  Lifetime!LifeNext
  <2>1. LifeOf[o] = "alive"
    BY <1>3 DEF HostDestroyed
  <2>2. LifeOf' = [LifeOf EXCEPT ![o] = "dead"]
    BY <1>0, <1>3 DEF HostDestroyed
  <2> QED BY <2>1, <2>2 DEF Lifetime!LifeNext, Lifetime!Destroy, Lifetime!Collect
<1>4. ASSUME NEW o \in Obj, HandleCollected(o)
      PROVE  Lifetime!LifeNext \/ LifeOf' = LifeOf
  <2>1. CASE o \in GarbageCollected \/ host[o] # "live"
    BY <1>0, <1>4, <2>1 DEF HandleCollected, Memory
  <2>2. CASE o \notin GarbageCollected /\ host[o] = "live"
    <3>1. LifeOf[o] = "alive"
      BY <1>4, <2>2 DEF HandleCollected
    <3>2. LifeOf' = [LifeOf EXCEPT ![o] = "orphan"]
      BY <1>0, <1>4, <2>2 DEF HandleCollected
    <3> QED BY <2>2, <3>1, <3>2 DEF Lifetime!LifeNext, Lifetime!Collect
  <2> QED BY <2>1, <2>2
<1> HIDE DEF LifeOf
<1> QED BY <1>1, <1>2, <1>3, <1>4 DEF HostStep

\* Nothing has been born at first.
LEMMA LifeInitially == Init => Lifetime!LifeInit
  BY DEF Init, LifeOf, Lifetime!LifeInit
=============================================================================
