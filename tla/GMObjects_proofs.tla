-------------------------- MODULE GMObjects_proofs --------------------------
(***************************************************************************)
(* Memory safety of the GameMonkey backend for any number of objects and   *)
(* classes, as long as the application passes only objects that the script *)
(* still refers to (Spec, not HostSpec), and its agreement with            *)
(* ObjectLifetime.                                                         *)
(***************************************************************************)
EXTENDS GMObjects, ScriptObjects_proofs

\* What remains of the invariant beside ObjInv.
RestInv == ConstructInv /\ GCInv /\ Reclaimed

\* Nothing exists at first.
LEMMA InitGMInv == Init => GMInv
<1> SUFFICES ASSUME Init PROVE GMInv
  OBVIOUS
<1>1. ObjInv
  BY InitObjInv
<1>2. ConstructInv /\ GCInv /\ Reclaimed
  BY ObjAssumption DEF Init, Idle, ConstructInv, GCInv, Reclaimed
<1> QED BY <1>1, <1>2 DEF GMInv

\* The constructor callback up to the user's constructor: the handle is on the
\* script's stack, the wrapper has no object yet.
LEMMA ConstructorGMInv ==
  ASSUME NEW o \in Obj, GMInv, GMClassConstructorCallback(o)
  PROVE  GMInv'
<1>1. /\ fault = "none" /\ call.at = "idle" /\ call.obj = NoObj /\ fin.at = "idle" /\ fin.obj = NoObj
      /\ wrapper[o] = "none" /\ handle[o] = "none" /\ host[o] = "none"
      /\ wrapper' = [wrapper EXCEPT ![o] = "live"]
      /\ objectPtr' = [objectPtr EXCEPT ![o] = FALSE]
      /\ locked' = [locked EXCEPT ![o] = FALSE]
      /\ handle' = [handle EXCEPT ![o] = "reachable"]
      /\ call' = [at |-> "construct", obj |-> o]
      /\ UNCHANGED <<host, backPtr, fin, context, fault>>
  BY DEF GMClassConstructorCallback, InScript, Idle, Frame, NewScriptObject,
         GMInv, ObjInv, MemoryInv
<1>2. TypeOK' /\ FramesInv' /\ NoMemoryFault'
  BY <1>1, ObjAssumption
  DEF GMInv, ObjInv, TypeOK, FramesInv, NoMemoryFault, CallAt, Memory
<1>3. DestroyInv' /\ FinalizeInv'
  BY <1>1, ObjAssumption DEF GMInv, ObjInv, TypeOK, DestroyInv, FinalizeInv
<1>4. MemoryInv'
  BY <1>1, ObjAssumption DEF GMInv, ObjInv, TypeOK, MemoryInv
<1>5. ConstructInv' /\ GCInv' /\ Reclaimed'
  BY <1>1, ObjAssumption DEF GMInv, ObjInv, TypeOK, ConstructInv, GCInv, Reclaimed
<1> QED BY <1>2, <1>3, <1>4, <1>5 DEF GMInv, ObjInv

\* The user's constructor.
LEMMA ConstructHostGMInv ==
  ASSUME GMInv, ConstructHost
  PROVE  GMInv'
<1> DEFINE o == call.obj
<1>1. /\ o \in Obj /\ wrapper[o] = "live" /\ host[o] = "none" /\ handle[o] = "reachable"
      /\ fin.at = "idle" /\ fin.obj = NoObj /\ fault = "none"
      /\ objectPtr' = [objectPtr EXCEPT ![o] = TRUE]
      /\ host' = [host EXCEPT ![o] = "live"]
      /\ backPtr' = [backPtr EXCEPT ![o] = o \in Scriptable]
      /\ call' = [at |-> "idle", obj |-> NoObj]
      /\ UNCHANGED <<wrapper, locked, handle, fin, context, fault>>
      /\ call.at = "construct"
  BY ObjAssumption
  DEF ConstructHost, NewHost, Idle, GMInv, ObjInv, TypeOK, FramesInv, ConstructInv
<1>2. TypeOK' /\ FramesInv' /\ NoMemoryFault'
  BY <1>1, ObjAssumption
  DEF GMInv, ObjInv, TypeOK, FramesInv, NoMemoryFault, CallAt, Memory
<1>3. DestroyInv' /\ FinalizeInv'
  BY <1>1, ObjAssumption DEF GMInv, ObjInv, TypeOK, DestroyInv, FinalizeInv
<1>4. MemoryInv'
  BY <1>1, ObjAssumption DEF GMInv, ObjInv, TypeOK, MemoryInv
<1>5. ConstructInv' /\ GCInv' /\ Reclaimed'
  BY <1>1, ObjAssumption DEF GMInv, ObjInv, TypeOK, ConstructInv, GCInv, Reclaimed
<1> QED BY <1>2, <1>3, <1>4, <1>5 DEF GMInv, ObjInv

\* Steps that leave wrapper, m_objectPtr, host, handle and fin alone, and start
\* or end no construction, keep the rest of the invariant.
LEMMA QuietRestInv ==
  ASSUME GMInv, UNCHANGED <<wrapper, objectPtr, host, handle, fin>>,
         \/ UNCHANGED call
         \/ call.at # "construct" /\ call'.at \notin {"construct", "push", "popped"}
  PROVE  RestInv'
  BY DEF GMInv, RestInv, ConstructInv, GCInv, Reclaimed

\* A C++ function that takes one object and returns a new one.
LEMMA ReplaceGMInv ==
  ASSUME NEW old \in Obj, NEW new \in Obj, GMInv, ReplaceCPPObject(old, new)
  PROVE  GMInv'
<1>1. /\ fault = "none" /\ call.at = "idle" /\ call.obj = NoObj /\ fin.at = "idle" /\ fin.obj = NoObj
      /\ wrapper[old] = "live" /\ wrapper[new] = "none" /\ handle[new] = "none"
      /\ host[new] = "none"
      /\ objectPtr[old] => host[old] = "live"
  BY ObjAssumption DEF ReplaceCPPObject, InScript, Idle, GMInv, ObjInv, TypeOK, MemoryInv
<1>2. CASE Fail("nullDeref")
  <2>1. ObjInv'
    BY <1>2, FailObjInv DEF GMInv
  <2>2. RestInv'
    BY <1>2, QuietRestInv DEF Fail
  <2> QED BY <2>1, <2>2 DEF GMInv, RestInv
<1>3. CASE /\ wrapper' = [wrapper EXCEPT ![new] = "live"]
           /\ objectPtr' = [objectPtr EXCEPT ![new] = TRUE]
           /\ locked' = [locked EXCEPT ![new] = FALSE]
           /\ host' = [host EXCEPT ![new] = "live"]
           /\ backPtr' = [backPtr EXCEPT ![new] = new \in Scriptable]
           /\ handle' = [handle EXCEPT ![new] = "reachable"]
           /\ UNCHANGED <<call, fin, context, fault>>
  <2>1. TypeOK' /\ FramesInv' /\ NoMemoryFault'
    BY <1>1, <1>3, ObjAssumption
    DEF GMInv, ObjInv, TypeOK, FramesInv, NoMemoryFault, Memory
  <2>2. DestroyInv' /\ FinalizeInv'
    BY <1>1, <1>3, ObjAssumption DEF GMInv, ObjInv, TypeOK, DestroyInv, FinalizeInv
  <2>3. MemoryInv'
    BY <1>1, <1>3, ObjAssumption DEF GMInv, ObjInv, TypeOK, MemoryInv
  <2>4. ConstructInv' /\ GCInv' /\ Reclaimed'
    BY <1>1, <1>3, ObjAssumption
    DEF GMInv, ObjInv, TypeOK, ConstructInv, GCInv, Reclaimed
  <2> QED BY <2>1, <2>2, <2>3, <2>4 DEF GMInv, ObjInv
<1> QED BY <1>1, <1>2, <1>3 DEF ReplaceCPPObject, NewScriptObject, NewHost
\* The collector's destruct callback, between callbacks of the script.
LEMMA GCCallbackGMInv ==
  ASSUME NEW o \in Obj, GMInv, GMClassGCCallback(o)
  PROVE  GMInv'
<1>1. /\ fault = "none" /\ fin = Idle /\ call.at = "idle" /\ call.obj # o
      /\ handle[o] \in {"reachable", "garbage"}
      /\ FinalizeBody(o) /\ UNCHANGED call
  BY ObjAssumption DEF GMClassGCCallback, Collectable, Idle
<1>2. ObjInv'
  BY <1>1, FinalizeBodyObjInv DEF GMInv
<1>3. wrapper[o] = "live" /\ (o \in GarbageCollected => objectPtr[o])
  BY <1>1, ObjAssumption DEF GMInv, ObjInv, MemoryInv, GCInv
<1>4. /\ handle' = [handle EXCEPT ![o] = "collected"]
      /\ UNCHANGED <<objectPtr, host, call>>
      /\ \/ o \in GarbageCollected /\ fin' = [at |-> "destructor", obj |-> o] /\ UNCHANGED wrapper
         \/ o \notin GarbageCollected /\ fin' = fin /\ wrapper' = [wrapper EXCEPT ![o] = "freed"]
  BY <1>1, <1>3 DEF FinalizeBody, FinalizeWrapper, Frame
<1>5. ConstructInv' /\ GCInv'
  BY <1>1, <1>4, ObjAssumption DEF GMInv, ObjInv, TypeOK, ConstructInv, GCInv
<1>6. Reclaimed'
  BY <1>1, <1>4, ObjAssumption DEF Idle, GMInv, ObjInv, TypeOK, Reclaimed
<1> QED BY <1>2, <1>5, <1>6 DEF GMInv

\* The start of Destroy().
LEMMA DestructorGMInv ==
  ASSUME NEW o \in Obj, GMInv, GMClassDestructorCallback(o)
  PROVE  GMInv'
<1>1. wrapper[o] = "live"
  BY DEF GMClassDestructorCallback, GMInv, ObjInv, MemoryInv
<1>2. BeginDestroy(o)
  BY <1>1 DEF GMClassDestructorCallback
<1>3. ObjInv'
  BY <1>2, BeginDestroyObjInv DEF GMClassDestructorCallback, GMInv
<1>4. RestInv'
  <2>1. /\ UNCHANGED <<wrapper, objectPtr, host, handle, fin>>
        /\ call.at # "construct" /\ call'.at \notin {"construct", "push", "popped"}
    BY <1>2 DEF GMClassDestructorCallback, InScript, Idle, BeginDestroy, Frame
  <2> QED BY <2>1, QuietRestInv
<1> QED BY <1>3, <1>4 DEF GMInv, RestInv

\* Methods, and passing an object the script already refers to, leave memory
\* alone: at worst the assertion on m_objectPtr hangs.
LEMMA MethodGMInv ==
  ASSUME NEW o \in Obj, GMInv, GMClassMethodCallback(o) \/ PushRooted(o)
  PROVE  GMInv'
<1>1. Fail("hang") \/ UNCHANGED vars
  <2>1. wrapper[o] = "live" /\ handle[o] = "reachable"
    BY DEF GMClassMethodCallback, PushRooted, GMInv, ObjInv, MemoryInv
  <2>2. CASE GMClassMethodCallback(o)
    <3>1. objectPtr[o] => host[o] = "live"
      BY <2>1, <2>2, ObjAssumption
      DEF GMClassMethodCallback, InScript, Idle, GMInv, ObjInv, MemoryInv
    <3> QED BY <2>1, <2>2, <3>1 DEF GMClassMethodCallback
  <2>3. CASE PushRooted(o)
    BY <2>1, <2>3 DEF PushRooted, PushScriptObject, GMInv, ObjInv, TypeOK, vars
  <2> QED BY <2>2, <2>3
<1>2. ObjInv'
  BY <1>1, FailObjInv, StutterObjInv DEF GMInv
<1>3. RestInv'
  <2>1. UNCHANGED <<wrapper, objectPtr, host, handle, fin, call>>
    BY <1>1 DEF Fail, vars
  <2> QED BY <2>1, QuietRestInv
<1> QED BY <1>2, <1>3 DEF GMInv, RestInv

\* The rest of Destroy(): its class is not garbage collected.
LEMMA DestroyGMInv ==
  ASSUME GMInv, RunDestructor \/ EndDestroy
  PROVE  GMInv'
<1> DEFINE o == call.obj
<1>1. /\ o \in Obj /\ wrapper[o] = "live" /\ locked[o] /\ o \notin GarbageCollected
      /\ handle[o] = "reachable" /\ call.at \in {"destroy", "destroyed"}
  BY ObjAssumption
  DEF RunDestructor, EndDestroy, GMInv, ObjInv, TypeOK, FramesInv, DestroyInv
<1>2. ObjInv'
  BY RunDestructorObjInv, EndDestroyObjInv DEF GMInv
<1>3. /\ UNCHANGED <<wrapper, handle, fin>>
      /\ host' = host \/ host' = [host EXCEPT ![o] = "freed"]
      /\ objectPtr' = objectPtr \/ objectPtr' = [objectPtr EXCEPT ![o] = FALSE]
      /\ call'.at \in {"idle", "destroyed"}
  <2>1. CASE RunDestructor
    BY <1>1, <2>1 DEF RunDestructor, Generic_Destructor, DeleteHost, Release, Frame
  <2>2. CASE EndDestroy
    BY <1>1, <2>2 DEF EndDestroy, Idle
  <2> QED BY <2>1, <2>2
<1>4. ConstructInv' /\ GCInv'
  BY <1>1, <1>3, ObjAssumption DEF GMInv, ObjInv, TypeOK, ConstructInv, GCInv
<1>5. Reclaimed'
  BY <1>1, <1>3, ObjAssumption DEF GMInv, ObjInv, TypeOK, Reclaimed
<1> QED BY <1>2, <1>4, <1>5 DEF GMInv

\* The user's destructor inside the collector's callback.
LEMMA FinalizeDestructorGMInv ==
  ASSUME GMInv, FinalizeDestructor
  PROVE  GMInv'
<1> DEFINE o == fin.obj
<1>1. o \in Obj /\ wrapper[o] = "live" /\ locked[o] /\ call.obj # o
  BY ObjAssumption
  DEF FinalizeDestructor, GMInv, ObjInv, TypeOK, FramesInv, FinalizeInv
<1>2. ObjInv'
  BY FinalizeDestructorObjInv DEF GMInv
<1>3. /\ UNCHANGED <<wrapper, objectPtr, handle, call>>
      /\ host' = host \/ host' = [host EXCEPT ![o] = "freed"]
      /\ fin' = [at |-> "delete", obj |-> o]
  BY <1>1 DEF FinalizeDestructor, Generic_Destructor, DeleteHost, Release, Frame
<1>4. ConstructInv' /\ GCInv' /\ Reclaimed'
  BY <1>1, <1>3, ObjAssumption DEF GMInv, ObjInv, TypeOK, ConstructInv, GCInv, Reclaimed
<1> QED BY <1>2, <1>4 DEF GMInv

\* Its end: the host is gone already, now the wrapper goes too.
LEMMA FinalizeDeleteGMInv ==
  ASSUME GMInv, FinalizeDelete
  PROVE  GMInv'
<1> DEFINE o == fin.obj
<1>1. o \in Obj /\ wrapper[o] = "live" /\ host[o] = "freed" /\ call.obj # o
  BY ObjAssumption
  DEF FinalizeDelete, GMInv, ObjInv, TypeOK, FramesInv, FinalizeInv
<1>2. ObjInv'
  BY FinalizeDeleteObjInv DEF GMInv
<1>3. /\ UNCHANGED <<objectPtr, host, handle, call>>
      /\ wrapper' = [wrapper EXCEPT ![o] = "freed"]
      /\ fin' = [at |-> "idle", obj |-> NoObj]
  BY <1>1 DEF FinalizeDelete, Idle
<1>4. ConstructInv' /\ GCInv' /\ Reclaimed'
  BY <1>1, <1>3, ObjAssumption DEF GMInv, ObjInv, TypeOK, ConstructInv, GCInv, Reclaimed
<1> QED BY <1>2, <1>4 DEF GMInv

\* The script drops a handle, and delete context.
LEMMA ScriptGMInv ==
  ASSUME GMInv, (\E o \in Obj : Drop(o)) \/ CloseContext \/ ContextClosed
  PROVE  GMInv'
<1>1. ObjInv'
  BY DropObjInv, ContextObjInv DEF GMInv
<1>2. RestInv'
  <2>1. CASE \E o \in Obj : Drop(o)
    <3>1. PICK o \in Obj : Drop(o)
      BY <2>1
    <3>2. ConstructInv' /\ GCInv'
      BY <3>1, ObjAssumption
      DEF Drop, InScript, Idle, GMInv, ObjInv, TypeOK, ConstructInv, GCInv
    <3>3. Reclaimed'
      BY <3>1, ObjAssumption DEF Drop, GMInv, ObjInv, TypeOK, Reclaimed
    <3> QED BY <3>2, <3>3 DEF RestInv
  <2>2. CASE CloseContext \/ ContextClosed
    BY <2>2, QuietRestInv DEF CloseContext, ContextClosed
  <2> QED BY <2>1, <2>2
<1> QED BY <1>1, <1>2 DEF GMInv, RestInv

\* Every step of the GameMonkey backend preserves the invariant.
LEMMA NextGMInv == GMInv /\ [Next]_vars => GMInv'
<1> SUFFICES ASSUME GMInv, [Next]_vars PROVE GMInv'
  OBVIOUS
<1>1. CASE UNCHANGED vars
  <2>1. ObjInv'
    BY <1>1, StutterObjInv DEF GMInv
  <2>2. RestInv'
    BY <1>1, QuietRestInv DEF vars
  <2> QED BY <2>1, <2>2 DEF GMInv, RestInv
<1>2. CASE Next
  BY <1>2, ConstructorGMInv, ConstructHostGMInv, ReplaceGMInv, GCCallbackGMInv, DestructorGMInv,
     MethodGMInv, DestroyGMInv, FinalizeDestructorGMInv, FinalizeDeleteGMInv, ScriptGMInv
  DEF Next
<1> QED BY <1>1, <1>2

\* The inductive invariant holds of every state of every run.
THEOREM GMInvariant == Spec => []GMInv
  BY InitGMInv, NextGMInv, PTL DEF Spec

\* The parts of the invariant that the runs check one by one.
LEMMA GMInvParts == GMInv => HandleBacked /\ NoMemoryFault /\ Reclaimed
  BY DEF GMInv, ObjInv, MemoryInv, HandleBacked

\* No callback ever uses or deletes freed memory, although the script holds its
\* user object before the user's constructor has run.
THEOREM GMMemorySafe == Spec => []NoMemoryFault
  BY GMInvariant, GMInvParts, PTL

\* A user object the script can reach has its ScriptObject.
THEOREM GMHandleBacked == Spec => []HandleBacked
  BY GMInvariant, GMInvParts, PTL

\* A collected user object leaves no ScriptObject, and no host of a garbage
\* collected class, behind.
THEOREM GMReclaimed == Spec => []Reclaimed
  BY GMInvariant, GMInvParts, PTL

\* Every step of the GameMonkey backend does one of the things HostStep lists to
\* the hosts; the host of a constructor callback is created in its second step.
LEMMA GMHostStep ==
  ASSUME GMInv, [Next]_vars
  PROVE  HostStep
<1> USE DEF GMInv
<1>1. ASSUME NEW o \in Obj, GMClassConstructorCallback(o)
      PROVE  HostsKept
  BY <1>1
  DEF GMClassConstructorCallback, ObjInv, TypeOK, MemoryInv, HostsKept, SameCollected
<1>2. ASSUME ConstructHost
      PROVE  \E o \in Obj : HostCreated(o)
  <2>1. /\ call.obj \in Obj /\ host[call.obj] = "none" /\ handle[call.obj] = "reachable"
        /\ host' = [host EXCEPT ![call.obj] = "live"] /\ handle' = handle
    BY <1>2, ObjAssumption
    DEF ConstructHost, NewHost, ObjInv, TypeOK, FramesInv, ConstructInv
  <2> QED BY <2>1 DEF HostCreated, SameCollected
<1>3. ASSUME NEW o \in Obj,
             GMClassDestructorCallback(o) \/ GMClassMethodCallback(o) \/ PushRooted(o)
      PROVE  HostsKept
  BY <1>3
  DEF GMClassDestructorCallback, GMClassMethodCallback, PushRooted, PushScriptObject,
      BeginDestroy, Fail, vars, ObjInv, TypeOK, HostsKept, SameCollected
<1>4. ASSUME NEW o \in Obj, GMClassGCCallback(o)
      PROVE  HandleCollected(o)
  BY <1>4 DEF GMClassGCCallback, Collectable, FinalizeBody, FinalizeWrapper, HandleCollected
<1>5. ASSUME NEW old \in Obj, NEW new \in Obj, ReplaceCPPObject(old, new)
      PROVE  HostsKept \/ HostCreated(new)
  <2>1. host[new] = "none" /\ handle[new] = "none"
    BY <1>5 DEF ReplaceCPPObject, ObjInv, MemoryInv
  <2>2. \/ host' = host /\ handle' = handle
        \/ /\ host' = [host EXCEPT ![new] = "live"]
           /\ handle' = [handle EXCEPT ![new] = "reachable"]
    BY <1>5 DEF ReplaceCPPObject, NewHost, Fail
  <2> QED BY <2>1, <2>2 DEF ObjInv, TypeOK, HostsKept, HostCreated, SameCollected
<1>6. CASE Next
  BY <1>6, <1>1, <1>2, <1>3, <1>4, <1>5, SharedHostStep DEF Next, HostStep
<1> QED BY <1>6, SharedHostStep

\* ScriptInterface.h:72: an object of a class that is not garbage collected is
\* destroyed by the script only in Destroy().
THEOREM GMOnlyDestroyDestroys == Spec => OnlyDestroyDestroys
<1>1. GMInv /\ [Next]_vars =>
        [\A o \in Obj \ GarbageCollected :
            (host[o] = "live" /\ host'[o] # "live") => call = Frame("destroy", o)]_vars
  BY GMHostStep, HostStepDestroys DEF GMInv, ObjInv
<1> QED BY <1>1, GMInvariant, PTL DEF Spec, OnlyDestroyDestroys

\* The GameMonkey backend runs the user's destructors exactly as
\* ScriptInterface.h says.
THEOREM GMImplementsLifetime == Spec => ImplementsLifetime
<1>1. GMInv /\ [Next]_vars => [Lifetime!LifeNext]_LifeOf
  BY GMHostStep, LifeStep DEF GMInv, ObjInv
<1> QED
  BY <1>1, LifeInitially, GMInvariant, PTL DEF Spec, ImplementsLifetime, Lifetime!LifeSpec
=============================================================================
