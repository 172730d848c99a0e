------------------------- MODULE LuaObjects_proofs -------------------------
(***************************************************************************)
(* Memory safety of the Lua backend for any number of objects and classes, *)
(* as long as the application leaves the deletion of shared objects to the *)
(* script (Spec, not HostSpec), and its agreement with ObjectLifetime.     *)
(***************************************************************************)
EXTENDS LuaObjects, ScriptObjects_proofs

\* What remains of the invariant beside ObjInv.
RestInv == AllocInv /\ GCInv /\ Reclaimed

\* Nothing exists at first.
LEMMA InitLuaInv == Init => LuaInv
<1> SUFFICES ASSUME Init PROVE LuaInv
  OBVIOUS
<1>1. ObjInv
  BY InitObjInv
<1>2. AllocInv /\ GCInv /\ Reclaimed
  BY ObjAssumption DEF Init, Idle, AllocInv, GCInv, Reclaimed
<1> QED BY <1>1, <1>2 DEF LuaInv

\* The constructor callback up to lua_newuserdata.
LEMMA ConstructorLuaInv ==
  ASSUME NEW o \in Obj, LuaInv, LuaClassConstructorCallback(o)
  PROVE  LuaInv'
<1>1. /\ fault = "none" /\ call.at = "idle" /\ call.obj = NoObj /\ fin.at = "idle" /\ fin.obj = NoObj
      /\ wrapper[o] = "none" /\ handle[o] = "none"
      /\ wrapper' = [wrapper EXCEPT ![o] = "live"]
      /\ objectPtr' = [objectPtr EXCEPT ![o] = TRUE]
      /\ locked' = [locked EXCEPT ![o] = FALSE]
      /\ host' = [host EXCEPT ![o] = "live"]
      /\ backPtr' = [backPtr EXCEPT ![o] = o \in Scriptable]
      /\ call' = [at |-> "construct", obj |-> o]
      /\ UNCHANGED <<handle, fin, context, fault>>
  BY DEF LuaClassConstructorCallback, InScript, Idle, Frame, NewScriptObject,
         NewHost, LuaInv, ObjInv, MemoryInv
<1>2. TypeOK' /\ FramesInv' /\ NoMemoryFault'
  BY <1>1, ObjAssumption
  DEF LuaInv, ObjInv, TypeOK, FramesInv, NoMemoryFault, CallAt, Memory
<1>3. DestroyInv' /\ FinalizeInv'
  BY <1>1, ObjAssumption DEF LuaInv, ObjInv, TypeOK, DestroyInv, FinalizeInv
<1>4. MemoryInv'
  BY <1>1, ObjAssumption DEF LuaInv, ObjInv, TypeOK, MemoryInv
<1>5. AllocInv' /\ GCInv' /\ Reclaimed'
  BY <1>1, ObjAssumption DEF LuaInv, ObjInv, TypeOK, AllocInv, GCInv, Reclaimed
<1> QED BY <1>2, <1>3, <1>4, <1>5 DEF LuaInv, ObjInv

\* lua_newuserdata at the end of the constructor and of PushNewScriptObject.
LEMMA AllocLuaInv ==
  ASSUME LuaInv, NewUserdata \/ PushNewScriptObject
  PROVE  LuaInv'
<1> DEFINE o == call.obj
<1>1. /\ o \in Obj /\ wrapper[o] = "live" /\ objectPtr[o] /\ host[o] = "live"
      /\ handle[o] = "none" /\ fin.at = "idle" /\ fin.obj = NoObj
      /\ handle' = [handle EXCEPT ![o] = "reachable"]
      /\ call' = [at |-> "idle", obj |-> NoObj]
      /\ backPtr' = backPtr \/ backPtr' = [backPtr EXCEPT ![o] = TRUE]
      /\ UNCHANGED <<wrapper, objectPtr, locked, host, fin, context, fault>>
      /\ call.at \notin {"destroy", "destroyed"}
  BY ObjAssumption
  DEF NewUserdata, PushNewScriptObject, Idle, LuaInv, ObjInv, TypeOK, FramesInv, AllocInv
<1>2. TypeOK' /\ FramesInv' /\ NoMemoryFault'
  BY <1>1, ObjAssumption DEF LuaInv, ObjInv, TypeOK, FramesInv, NoMemoryFault, CallAt
<1>3. DestroyInv' /\ FinalizeInv'
  BY <1>1, ObjAssumption DEF LuaInv, ObjInv, TypeOK, DestroyInv, FinalizeInv
<1>4. MemoryInv'
  BY <1>1, ObjAssumption DEF LuaInv, ObjInv, TypeOK, MemoryInv
<1>5. AllocInv' /\ GCInv' /\ Reclaimed'
  BY <1>1, ObjAssumption DEF LuaInv, ObjInv, TypeOK, AllocInv, GCInv, Reclaimed
<1> QED BY <1>2, <1>3, <1>4, <1>5 DEF LuaInv, ObjInv

\* A C++ function that pops one object and pushes a new one.
LEMMA ReplaceLuaInv ==
  ASSUME NEW old \in Obj, NEW new \in Obj, NEW temp \in BOOLEAN,
         LuaInv, ReplaceCPPObject(old, new, temp)
  PROVE  LuaInv'
<1>1. /\ fault = "none" /\ call.at = "idle" /\ call.obj = NoObj /\ fin.at = "idle" /\ fin.obj = NoObj
      /\ wrapper[old] = "live" /\ wrapper[new] = "none" /\ handle[new] = "none"
      /\ host[new] = "none" /\ handle[old] = "reachable" /\ ~backPtr[new]
      /\ objectPtr[old] => host[old] = "live"
  BY DEF ReplaceCPPObject, InScript, Idle, LuaInv, ObjInv, TypeOK, MemoryInv
<1>2. CASE Fail("nullDeref")
  <2>1. ObjInv'
    BY <1>2, FailObjInv DEF LuaInv
  <2>2. RestInv'
    BY <1>2 DEF Fail, LuaInv, RestInv, AllocInv, GCInv, Reclaimed
  <2> QED BY <2>1, <2>2 DEF LuaInv, RestInv
<1>3. CASE /\ wrapper' = [wrapper EXCEPT ![new] = "live"]
           /\ objectPtr' = [objectPtr EXCEPT ![new] = TRUE]
           /\ locked' = [locked EXCEPT ![new] = FALSE]
           /\ host' = [host EXCEPT ![new] = "live"]
           /\ call' = [at |-> "push", obj |-> new]
           /\ handle' = [handle EXCEPT ![old] = IF temp THEN "garbage" ELSE @]
           /\ UNCHANGED <<backPtr, fin, context, fault>>
  <2>0. old # new
    BY <1>1
  <2>1. TypeOK' /\ FramesInv' /\ NoMemoryFault'
    BY <1>1, <1>3, ObjAssumption
    DEF LuaInv, ObjInv, TypeOK, FramesInv, NoMemoryFault, CallAt, Memory
  <2>2. DestroyInv' /\ FinalizeInv'
    BY <1>1, <1>3, ObjAssumption DEF LuaInv, ObjInv, TypeOK, DestroyInv, FinalizeInv
  <2>3. MemoryInv'
    BY <1>1, <1>3, <2>0, ObjAssumption DEF LuaInv, ObjInv, TypeOK, MemoryInv
  <2>4. AllocInv' /\ GCInv' /\ Reclaimed'
    BY <1>1, <1>3, <2>0, ObjAssumption
    DEF LuaInv, ObjInv, TypeOK, AllocInv, GCInv, Reclaimed
  <2> QED BY <2>1, <2>2, <2>3, <2>4 DEF LuaInv, ObjInv
<1> QED BY <1>1, <1>2, <1>3 DEF ReplaceCPPObject, NewScriptObject, Frame

\* The __gc metamethod.
LEMMA GCCallbackLuaInv ==
  ASSUME NEW o \in Obj, LuaInv, LuaClassGCCallback(o)
  PROVE  LuaInv'
<1>1. /\ fault = "none" /\ fin = Idle /\ call.at \notin {"destroy", "destroyed"}
      /\ call.obj # o /\ handle[o] \in {"reachable", "garbage"}
      /\ FinalizeBody(o) /\ UNCHANGED call
  BY ObjAssumption
  DEF LuaClassGCCallback, Collectable, LuaInv, ObjInv, TypeOK, FramesInv, AllocInv
<1>2. ObjInv'
  BY <1>1, FinalizeBodyObjInv DEF LuaInv
<1>3. wrapper[o] = "live" /\ (o \in GarbageCollected => objectPtr[o])
  BY <1>1, ObjAssumption DEF LuaInv, ObjInv, MemoryInv, GCInv
<1>4. /\ handle' = [handle EXCEPT ![o] = "collected"]
      /\ UNCHANGED <<objectPtr, host, call>>
      /\ \/ o \in GarbageCollected /\ fin' = [at |-> "destructor", obj |-> o] /\ UNCHANGED wrapper
         \/ o \notin GarbageCollected /\ fin' = fin /\ wrapper' = [wrapper EXCEPT ![o] = "freed"]
  BY <1>1, <1>3 DEF FinalizeBody, FinalizeWrapper, Frame
<1>5. AllocInv' /\ GCInv'
  BY <1>1, <1>4, ObjAssumption DEF LuaInv, ObjInv, TypeOK, AllocInv, GCInv
<1>6. Reclaimed'
  BY <1>1, <1>4, ObjAssumption DEF Idle, LuaInv, ObjInv, TypeOK, Reclaimed
<1> QED BY <1>2, <1>5, <1>6 DEF LuaInv

\* Steps that leave wrapper, m_objectPtr, host, handle and fin alone and do not
\* start an allocation keep the rest of the invariant.
LEMMA QuietRestInv ==
  ASSUME LuaInv, UNCHANGED <<wrapper, objectPtr, host, handle, fin>>,
         \/ UNCHANGED call
         \/ call'.at \notin {"construct", "push", "popped"}
  PROVE  RestInv'
  BY DEF LuaInv, RestInv, AllocInv, GCInv, Reclaimed

\* The start of Destroy().
LEMMA DestructorLuaInv ==
  ASSUME NEW o \in Obj, LuaInv, LuaClassDestructorCallback(o)
  PROVE  LuaInv'
<1>1. wrapper[o] = "live"
  BY DEF LuaClassDestructorCallback, LuaInv, ObjInv, MemoryInv
<1>2. BeginDestroy(o)
  BY <1>1 DEF LuaClassDestructorCallback
<1>3. ObjInv'
  BY <1>2, BeginDestroyObjInv DEF LuaClassDestructorCallback, LuaInv
<1>4. RestInv'
  <2>1. /\ UNCHANGED <<wrapper, objectPtr, host, handle, fin>>
        /\ call'.at \notin {"construct", "push", "popped"}
    BY <1>2 DEF BeginDestroy, Frame
  <2> QED BY <2>1, QuietRestInv
<1> QED BY <1>3, <1>4 DEF LuaInv, RestInv

\* Methods and the unimplemented PushScriptObject leave memory alone: at worst
\* the method runs on a NULL m_objectPtr.
LEMMA MethodLuaInv ==
  ASSUME NEW o \in Obj, LuaInv, LuaClassMethodCallback(o) \/ PushScriptObject(o)
  PROVE  LuaInv'
<1>1. \/ Fail("nullDeref") \/ Fail("hang") \/ UNCHANGED vars
  <2>1. CASE LuaClassMethodCallback(o)
    <3>1. wrapper[o] = "live" /\ (objectPtr[o] => host[o] = "live")
      BY <2>1, ObjAssumption
      DEF LuaClassMethodCallback, InScript, Idle, LuaInv, ObjInv, MemoryInv
    <3> QED BY <2>1, <3>1 DEF LuaClassMethodCallback
  <2> QED BY <2>1 DEF PushScriptObject
<1>2. ObjInv'
  BY <1>1, FailObjInv, StutterObjInv DEF LuaInv
<1>3. RestInv'
  <2>1. UNCHANGED <<wrapper, objectPtr, host, handle, fin, call>>
    BY <1>1 DEF Fail, vars
  <2> QED BY <2>1, QuietRestInv
<1> QED BY <1>2, <1>3 DEF LuaInv, RestInv

\* The rest of Destroy(): its class is not garbage collected.
LEMMA DestroyLuaInv ==
  ASSUME LuaInv, RunDestructor \/ EndDestroy
  PROVE  LuaInv'
<1> DEFINE o == call.obj
<1>1. o \in Obj /\ wrapper[o] = "live" /\ locked[o] /\ o \notin GarbageCollected
      /\ handle[o] = "reachable"
  BY ObjAssumption
  DEF RunDestructor, EndDestroy, LuaInv, ObjInv, TypeOK, FramesInv, DestroyInv
<1>2. ObjInv'
  BY RunDestructorObjInv, EndDestroyObjInv DEF LuaInv
<1>3. /\ UNCHANGED <<wrapper, handle, fin>>
      /\ host' = host \/ host' = [host EXCEPT ![o] = "freed"]
      /\ objectPtr' = objectPtr \/ objectPtr' = [objectPtr EXCEPT ![o] = FALSE]
      /\ call'.at \in {"idle", "destroyed"}
  <2>1. CASE RunDestructor
    BY <1>1, <2>1 DEF RunDestructor, Generic_Destructor, DeleteHost, Release, Frame
  <2>2. CASE EndDestroy
    BY <1>1, <2>2 DEF EndDestroy, Idle
  <2> QED BY <2>1, <2>2
<1>4. AllocInv' /\ GCInv'
  BY <1>1, <1>3, ObjAssumption DEF LuaInv, ObjInv, TypeOK, AllocInv, GCInv
<1>5. Reclaimed'
  BY <1>1, <1>3, ObjAssumption DEF LuaInv, ObjInv, TypeOK, Reclaimed
<1> QED BY <1>2, <1>4, <1>5 DEF LuaInv

\* The user's destructor inside a finaliser.
LEMMA FinalizeDestructorLuaInv ==
  ASSUME LuaInv, FinalizeDestructor
  PROVE  LuaInv'
<1> DEFINE o == fin.obj
<1>1. o \in Obj /\ wrapper[o] = "live" /\ locked[o] /\ call.obj # o
  BY ObjAssumption
  DEF FinalizeDestructor, LuaInv, ObjInv, TypeOK, FramesInv, FinalizeInv
<1>2. ObjInv'
  BY FinalizeDestructorObjInv DEF LuaInv
<1>3. /\ UNCHANGED <<wrapper, objectPtr, handle, call>>
      /\ host' = host \/ host' = [host EXCEPT ![o] = "freed"]
      /\ fin' = [at |-> "delete", obj |-> o]
  BY <1>1 DEF FinalizeDestructor, Generic_Destructor, DeleteHost, Release, Frame
<1>4. AllocInv' /\ GCInv' /\ Reclaimed'
  BY <1>1, <1>3, ObjAssumption DEF LuaInv, ObjInv, TypeOK, AllocInv, GCInv, Reclaimed
<1> QED BY <1>2, <1>4 DEF LuaInv

\* The end of a finaliser: the host is gone already, now the wrapper goes too.
LEMMA FinalizeDeleteLuaInv ==
  ASSUME LuaInv, FinalizeDelete
  PROVE  LuaInv'
<1> DEFINE o == fin.obj
<1>1. o \in Obj /\ wrapper[o] = "live" /\ host[o] = "freed" /\ call.obj # o
  BY ObjAssumption
  DEF FinalizeDelete, LuaInv, ObjInv, TypeOK, FramesInv, FinalizeInv
<1>2. ObjInv'
  BY FinalizeDeleteObjInv DEF LuaInv
<1>3. /\ UNCHANGED <<objectPtr, host, handle, call>>
      /\ wrapper' = [wrapper EXCEPT ![o] = "freed"]
      /\ fin' = [at |-> "idle", obj |-> NoObj]
  BY <1>1 DEF FinalizeDelete, Idle
<1>4. AllocInv' /\ GCInv' /\ Reclaimed'
  BY <1>1, <1>3, ObjAssumption DEF LuaInv, ObjInv, TypeOK, AllocInv, GCInv, Reclaimed
<1> QED BY <1>2, <1>4 DEF LuaInv

\* The script drops a handle, and delete context.
LEMMA ScriptLuaInv ==
  ASSUME LuaInv, (\E o \in Obj : Drop(o)) \/ CloseContext \/ ContextClosed
  PROVE  LuaInv'
<1>1. ObjInv'
  BY DropObjInv, ContextObjInv DEF LuaInv
<1>2. RestInv'
  <2>1. CASE \E o \in Obj : Drop(o)
    <3>1. PICK o \in Obj : Drop(o)
      BY <2>1
    <3>2. AllocInv' /\ GCInv'
      BY <3>1, ObjAssumption
      DEF Drop, InScript, Idle, LuaInv, ObjInv, TypeOK, AllocInv, GCInv
    <3>3. Reclaimed'
      BY <3>1, ObjAssumption DEF Drop, LuaInv, ObjInv, TypeOK, Reclaimed
    <3> QED BY <3>2, <3>3 DEF RestInv
  <2>2. CASE CloseContext \/ ContextClosed
    BY <2>2, QuietRestInv DEF CloseContext, ContextClosed
  <2> QED BY <2>1, <2>2
<1> QED BY <1>1, <1>2 DEF LuaInv, RestInv

\* Every step of the Lua backend preserves the invariant.
LEMMA NextLuaInv == LuaInv /\ [Next]_vars => LuaInv'
<1> SUFFICES ASSUME LuaInv, [Next]_vars PROVE LuaInv'
  OBVIOUS
<1>1. CASE UNCHANGED vars
  <2>1. ObjInv'
    BY <1>1, StutterObjInv DEF LuaInv
  <2>2. RestInv'
    BY <1>1, QuietRestInv DEF vars
  <2> QED BY <2>1, <2>2 DEF LuaInv, RestInv
<1>2. CASE Next
  BY <1>2, ConstructorLuaInv, AllocLuaInv, ReplaceLuaInv, GCCallbackLuaInv, DestructorLuaInv,
     MethodLuaInv, DestroyLuaInv, FinalizeDestructorLuaInv, FinalizeDeleteLuaInv, ScriptLuaInv
  DEF Next
<1> QED BY <1>1, <1>2

\* The inductive invariant holds of every state of every run.
THEOREM LuaInvariant == Spec => []LuaInv
  BY InitLuaInv, NextLuaInv, PTL DEF Spec

\* The parts of the invariant that the runs check one by one.
LEMMA LuaInvParts ==
  LuaInv => TypeOK /\ HandleBacked /\ NoMemoryFault /\ HostBacked /\ LockScoped /\ Reclaimed
<1> SUFFICES ASSUME LuaInv
             PROVE  TypeOK /\ HandleBacked /\ NoMemoryFault /\ HostBacked /\ LockScoped /\ Reclaimed
  OBVIOUS
<1>1. TypeOK /\ NoMemoryFault /\ Reclaimed
  BY DEF LuaInv, ObjInv
<1>2. HandleBacked /\ HostBacked /\ LockScoped
  BY DEF LuaInv, ObjInv, MemoryInv, HandleBacked, HostBacked, LockScoped
<1> QED BY <1>1, <1>2

\* Type correctness of the Lua backend.
THEOREM LuaTypeCorrect == Spec => []TypeOK
  BY LuaInvariant, LuaInvParts, PTL

\* No callback ever uses or deletes freed memory.
THEOREM LuaMemorySafe == Spec => []NoMemoryFault
  BY LuaInvariant, LuaInvParts, PTL

\* A userdata the script can reach has its ScriptObject.
THEOREM LuaHandleBacked == Spec => []HandleBacked
  BY LuaInvariant, LuaInvParts, PTL

\* A ScriptObject with an object pointer has that object, outside its destructor.
THEOREM LuaHostBacked == Spec => []HostBacked
  BY LuaInvariant, LuaInvParts, PTL

\* m_lockedByScript is never left set.
THEOREM LuaLockScoped == Spec => []LockScoped
  BY LuaInvariant, LuaInvParts, PTL

\* A collected userdata leaves no ScriptObject, and no host of a garbage
\* collected class, behind.
THEOREM LuaReclaimed == Spec => []Reclaimed
  BY LuaInvariant, LuaInvParts, PTL

\* Every step of the Lua backend does one of the things HostStep lists to the hosts.
LEMMA LuaHostStep ==
  ASSUME LuaInv, [Next]_vars
  PROVE  HostStep
<1> USE DEF LuaInv
<1>1. ASSUME NEW o \in Obj, LuaClassConstructorCallback(o)
      PROVE  HostCreated(o)
  BY <1>1
  DEF LuaClassConstructorCallback, NewHost, ObjInv, MemoryInv, HostCreated, SameCollected
<1>2. ASSUME NEW o \in Obj,
             LuaClassDestructorCallback(o) \/ LuaClassMethodCallback(o) \/ PushScriptObject(o)
      PROVE  HostsKept
  BY <1>2
  DEF LuaClassDestructorCallback, LuaClassMethodCallback, PushScriptObject,
      BeginDestroy, Fail, vars, HostsKept, SameCollected
<1>3. ASSUME NEW o \in Obj, LuaClassGCCallback(o)
      PROVE  HandleCollected(o)
  BY <1>3 DEF LuaClassGCCallback, Collectable, FinalizeBody, FinalizeWrapper, HandleCollected
<1>4. ASSUME NEW old \in Obj, NEW new \in Obj, NEW temp \in BOOLEAN,
             ReplaceCPPObject(old, new, temp)
      PROVE  HostsKept \/ HostCreated(new)
  <2>1. host[new] = "none" /\ handle[new] = "none" /\ handle[old] = "reachable"
    BY <1>4 DEF ReplaceCPPObject, ObjInv, MemoryInv
  <2>2. \/ host' = host /\ handle' = handle
        \/ /\ host' = [host EXCEPT ![new] = "live"]
           /\ handle' = [handle EXCEPT ![old] = IF temp THEN "garbage" ELSE @]
    BY <1>4 DEF ReplaceCPPObject, Fail
  <2> QED BY <2>1, <2>2 DEF ObjInv, TypeOK, HostsKept, HostCreated, SameCollected
<1>5. ASSUME NewUserdata \/ PushNewScriptObject
      PROVE  HostsKept
  BY <1>5
  DEF NewUserdata, PushNewScriptObject, ObjInv, TypeOK, AllocInv, HostsKept, SameCollected
<1>6. CASE Next
  BY <1>6, <1>1, <1>2, <1>3, <1>4, <1>5, SharedHostStep DEF Next, HostStep
<1> QED BY <1>6, SharedHostStep

\* ScriptInterface.h:72: an object of a class that is not garbage collected is
\* destroyed by the script only in Destroy().
THEOREM LuaOnlyDestroyDestroys == Spec => OnlyDestroyDestroys
<1>1. LuaInv /\ [Next]_vars =>
        [\A o \in Obj \ GarbageCollected :
            (host[o] = "live" /\ host'[o] # "live") => call = Frame("destroy", o)]_vars
  BY LuaHostStep, HostStepDestroys DEF LuaInv, ObjInv
<1> QED BY <1>1, LuaInvariant, PTL DEF Spec, OnlyDestroyDestroys

\* The Lua backend runs the user's destructors exactly as ScriptInterface.h says.
THEOREM LuaImplementsLifetime == Spec => ImplementsLifetime
<1>1. LuaInv /\ [Next]_vars => [Lifetime!LifeNext]_LifeOf
  BY LuaHostStep, LifeStep DEF LuaInv, ObjInv
<1> QED
  BY <1>1, LifeInitially, LuaInvariant, PTL DEF Spec, ImplementsLifetime, Lifetime!LifeSpec
=============================================================================
