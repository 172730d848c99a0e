----------------------- MODULE SquirrelObjects_proofs -----------------------
(***************************************************************************)
(* Memory safety of the Squirrel backend for any number of objects and     *)
(* classes, with constructors that leave residue on the stack, an instance *)
(* included, objects without a release hook and temporaries passed to C++  *)
(* functions: what can go wrong with freed memory goes wrong in those      *)
(* functions only.                                                         *)
(***************************************************************************)
EXTENDS SquirrelObjects, TLAPS

\* Nothing exists at first.
LEMMA InitSqInv == SqInit => SqInv
<1> SUFFICES ASSUME SqInit PROVE SqInv
  OBVIOUS
<1>1. SqTypeOK
  BY DEF SqInit, Init, SqTypeOK, TypeOK, Memory, Idle, CallAt, FinAt, Faults
<1>2. SqFramesInv /\ SqDestroyInv /\ SqFinalizeInv
  BY ObjAssumption DEF SqInit, Init, Idle, SqFramesInv, SqDestroyInv, SqFinalizeInv
<1>3. PointersInv /\ SqMemoryInv /\ OnlyTemporariesDangle /\ HookedReclaimed
  BY ObjAssumption
  DEF SqInit, Init, Idle, PointersInv, SqMemoryInv, OnlyTemporariesDangle, HookedReclaimed
<1> QED BY <1>1, <1>2, <1>3 DEF SqInv

\* Steps that only end the run other than by a use of freed memory, or move the
\* context on: failed assertions, NULL pointers, methods, delete context.
LEMMA QuietSqInv ==
  ASSUME SqInv,
         UNCHANGED <<wrapper, objectPtr, locked, host, backPtr, handle, call, fin, up, hook, classHook>>,
         fault' = fault \/ fault' \in {"hang", "nullDeref", "wrongClass"},
         context' \in {"open", "closing", "closed"}
  PROVE  SqInv'
<1>1. SqTypeOK'
  BY DEF SqInv, SqTypeOK, TypeOK, Faults
<1>2. SqFramesInv' /\ SqDestroyInv' /\ SqFinalizeInv'
  BY DEF SqInv, SqFramesInv, SqDestroyInv, SqFinalizeInv
<1>3. PointersInv' /\ SqMemoryInv' /\ OnlyTemporariesDangle' /\ HookedReclaimed'
  BY DEF SqInv, PointersInv, SqMemoryInv, OnlyTemporariesDangle, HookedReclaimed
<1> QED BY <1>1, <1>2, <1>3 DEF SqInv

\* The same for a fault of a callback.
LEMMA FailSqInv ==
  ASSUME SqInv, Fail("hang") \/ Fail("nullDeref") \/ Fail("wrongClass"), UNCHANGED <<up, hook, classHook>>
  PROVE  SqInv'
  BY QuietSqInv DEF Fail, SqInv, SqTypeOK, TypeOK

\* A new object, whoever makes it: the constructor callback between callbacks,
\* or PushNewScriptObject at the end of the function that popped another one.
\* top is the instance that gets to point at it, h whether it gets the hook.
LEMMA NewObjectSqInv ==
  ASSUME NEW o \in Obj, NEW top \in Obj \cup {NoObj}, NEW h \in BOOLEAN, SqInv,
         top \in {o, NoObj} \/ (h /\ handle[top] = "reachable"),
         fault = "none", fin = Idle, call.at \in {"idle", "popped"},
         wrapper[o] = "none", NewScriptObject(o, TRUE), NewHost(o),
         handle' = [handle EXCEPT ![o] = "reachable"],
         up' = [i \in Obj |-> IF i = top THEN o ELSE up[i]],
         hook' = [i \in Obj |-> (i = top /\ h) \/ hook[i]], classHook' \in BOOLEAN,
         call' = Idle, UNCHANGED <<fin, context, fault>>
  PROVE  SqInv'
<1>1. /\ fin.at = "idle" /\ fin.obj = NoObj /\ call.at \in {"idle", "popped"}
      /\ handle[o] = "none" /\ host[o] = "none" /\ up[o] = NoObj /\ ~hook[o]
      /\ \A i \in Obj : up[i] # o
      /\ wrapper' = [wrapper EXCEPT ![o] = "live"]
      /\ objectPtr' = [objectPtr EXCEPT ![o] = TRUE]
      /\ locked' = [locked EXCEPT ![o] = FALSE]
      /\ host' = [host EXCEPT ![o] = "live"]
      /\ backPtr' = [backPtr EXCEPT ![o] = o \in Scriptable]
      /\ call' = [at |-> "idle", obj |-> NoObj]
  BY ObjAssumption DEF Idle, NewScriptObject, NewHost, SqInv, SqTypeOK, PointersInv, SqMemoryInv
<1>2. SqTypeOK'
  BY <1>1 DEF SqInv, SqTypeOK, TypeOK, CallAt, Memory
<1>3. SqFramesInv' /\ SqDestroyInv' /\ SqFinalizeInv' /\ OnlyTemporariesDangle'
  BY <1>1, ObjAssumption
  DEF SqInv, SqFramesInv, SqDestroyInv, SqFinalizeInv, OnlyTemporariesDangle
<1>4. SqMemoryInv'
  BY <1>1, ObjAssumption DEF SqInv, SqTypeOK, TypeOK, SqMemoryInv
<1>5. PointersInv'
  <2> SUFFICES ASSUME NEW i \in Obj
               PROVE  /\ hook'[i] => up'[i] # NoObj
                      /\ wrapper'[i] = "none" <=> handle'[i] = "none"
                      /\ up'[i] # NoObj =>
                            /\ handle'[i] # "none" /\ wrapper'[up'[i]] # "none"
                            /\ (~hook'[i] \/ handle'[i] # "collected") => wrapper'[up'[i]] = "live"
                            /\ \A j \in Obj : up'[j] = up'[i] => j = i
    BY DEF PointersInv
  <2>1. CASE i = top
    BY <1>1, <2>1, ObjAssumption DEF SqInv, SqTypeOK, TypeOK, PointersInv
  <2>2. CASE i # top
    BY <1>1, <2>2, ObjAssumption DEF SqInv, SqTypeOK, TypeOK, PointersInv
  <2> QED BY <2>1, <2>2
<1>6. HookedReclaimed'
  BY <1>1, ObjAssumption DEF SqInv, SqTypeOK, TypeOK, PointersInv, HookedReclaimed
<1> QED BY <1>2, <1>3, <1>4, <1>5, <1>6 DEF SqInv

\* The constructor callback, whatever it finds on the top of the stack.
LEMMA ConstructorSqInv ==
  ASSUME NEW o \in Obj, NEW top \in OnTop(o), NEW class \in BOOLEAN, SqInv,
         SquirrelClassConstructorCallback(o, top, class)
  PROVE  SqInv'
<1>1. top \in Obj \cup {NoObj} /\ (top \in {o, NoObj} \/ handle[top] = "reachable")
  BY DEF OnTop
<1>2. hook' = [i \in Obj |-> (i = top /\ TRUE) \/ hook[i]]
  BY DEF SquirrelClassConstructorCallback
<1>3. call' = Idle /\ call.at \in {"idle", "popped"}
  BY DEF SquirrelClassConstructorCallback, InScript, Idle
<1>4. classHook' \in BOOLEAN
  BY DEF SquirrelClassConstructorCallback
<1> QED
  BY <1>1, <1>2, <1>3, <1>4, NewObjectSqInv DEF SquirrelClassConstructorCallback, InScript

\* No instance the script can reach has lost its wrapper to a delete.
LEMMA ReachableBacked ==
  ASSUME NEW i \in Obj, SqInv, handle[i] = "reachable", up[i] # NoObj
  PROVE  up[i] \in Obj /\ wrapper[up[i]] = "live"
  BY DEF SqInv, SqTypeOK, PointersInv

\* Nor has a callback on it anything to fear from Unusable but an early end.
LEMMA UnusableSqInv ==
  ASSUME NEW i \in Obj, SqInv, handle[i] = "reachable", Unusable(i), UNCHANGED <<up, hook, classHook>>
  PROVE  SqInv'
  BY ReachableBacked, FailSqInv DEF Unusable

\* The start of Destroy().
LEMMA DestructorSqInv ==
  ASSUME NEW i \in Obj, SqInv, SquirrelClassDestructorCallback(i)
  PROVE  SqInv'
<1>1. CASE Unusable(i)
  BY <1>1, UnusableSqInv DEF SquirrelClassDestructorCallback
<1>2. CASE Usable(i) /\ BeginDestroy(up[i])
  <2>1. PICK w \in Obj : w = up[i]
    BY <1>2, ReachableBacked DEF SquirrelClassDestructorCallback, Usable
  <2>2. /\ wrapper[w] = "live" /\ objectPtr[w] /\ w \notin GarbageCollected
        /\ fault = "none" /\ call.at = "idle" /\ fin.at = "idle" /\ fin.obj = NoObj
        /\ locked' = [locked EXCEPT ![w] = TRUE]
        /\ call' = [at |-> "destroy", obj |-> w]
        /\ UNCHANGED <<wrapper, objectPtr, host, backPtr, handle, fin, context, fault, up, hook, classHook>>
    BY <1>2, <2>1
    DEF SquirrelClassDestructorCallback, InScript, Idle, Usable, SameClass, BeginDestroy, Frame
  <2>3. SqTypeOK'
    BY <2>2 DEF SqInv, SqTypeOK, TypeOK, CallAt
  <2>4. SqFramesInv' /\ SqDestroyInv' /\ SqFinalizeInv' /\ OnlyTemporariesDangle'
    BY <2>2, ObjAssumption
    DEF SqInv, SqTypeOK, TypeOK, SqFramesInv, SqDestroyInv, SqFinalizeInv, OnlyTemporariesDangle
  <2>5. SqMemoryInv' /\ PointersInv' /\ HookedReclaimed'
    BY <2>2, ObjAssumption
    DEF SqInv, SqTypeOK, TypeOK, SqMemoryInv, PointersInv, HookedReclaimed
  <2> QED BY <2>3, <2>4, <2>5 DEF SqInv
<1> QED BY <1>1, <1>2 DEF SquirrelClassDestructorCallback

\* Methods and the unimplemented PushScriptObject leave memory alone.
LEMMA MethodSqInv ==
  ASSUME NEW i \in Obj, SqInv, SquirrelClassMethodCallback(i) \/ PushScriptObject(i)
  PROVE  SqInv'
<1>1. CASE SquirrelClassMethodCallback(i)
  <2>1. CASE Unusable(i)
    BY <1>1, <2>1, UnusableSqInv DEF SquirrelClassMethodCallback
  <2>2. CASE Usable(i)
    <3>1. host[up[i]] = "live"
      BY <1>1, <2>2, ReachableBacked, ObjAssumption
      DEF SquirrelClassMethodCallback, InScript, Idle, Usable, SqInv, SqMemoryInv
    <3>2. UNCHANGED vars /\ UNCHANGED <<up, hook, classHook>>
      BY <1>1, <2>2, <3>1 DEF SquirrelClassMethodCallback, Usable, Unusable
    <3> QED BY <3>2, QuietSqInv DEF vars, SqInv, SqTypeOK, TypeOK
  <2> QED BY <1>1, <2>1, <2>2 DEF SquirrelClassMethodCallback
<1>2. CASE PushScriptObject(i)
  BY <1>2, FailSqInv DEF PushScriptObject
<1> QED BY <1>1, <1>2

\* The release of an instance: with the hook it finalises the wrapper it points
\* at, without it wrapper and host stay behind.
LEMMA ReleaseSqInv ==
  ASSUME NEW i \in Obj, SqInv, ReleaseInstance(i), fault = "none", fin = Idle,
         handle[i] \in {"reachable", "garbage"},
         call.at \in {"idle", "popped"}
  PROVE  SqInv'
<1>1. /\ fin.at = "idle" /\ fin.obj = NoObj
      /\ handle' = [handle EXCEPT ![i] = "collected"] /\ UNCHANGED <<call, up, hook, classHook>>
  BY DEF ReleaseInstance, Idle
<1>2. CASE hook[i]
  <2>1. PICK w \in Obj : w = up[i]
    BY <1>2 DEF SqInv, SqTypeOK, PointersInv
  <2>2. /\ wrapper[w] = "live" /\ (w \in GarbageCollected => objectPtr[w])
        /\ \A j \in Obj : up[j] = w => j = i
        /\ objectPtr[w] => host[w] = "live"
    BY <1>1, <1>2, <2>1, ObjAssumption DEF SqInv, PointersInv, SqMemoryInv
  <2>3. CASE w \in GarbageCollected
    <3>1. /\ locked' = [locked EXCEPT ![w] = TRUE]
          /\ fin' = [at |-> "destructor", obj |-> w]
          /\ UNCHANGED <<wrapper, objectPtr, host, backPtr, context, fault>>
      BY <1>2, <2>1, <2>2, <2>3 DEF ReleaseInstance, FinalizeWrapper, Frame
    <3>2. SqTypeOK'
      BY <1>1, <3>1 DEF SqInv, SqTypeOK, TypeOK, FinAt
    <3>3. SqFramesInv' /\ SqDestroyInv' /\ OnlyTemporariesDangle'
      BY <1>1, <3>1, ObjAssumption
      DEF SqInv, SqTypeOK, TypeOK, SqFramesInv, SqDestroyInv, OnlyTemporariesDangle
    <3>4. SqFinalizeInv'
      BY <1>1, <1>2, <2>1, <2>2, <2>3, <3>1
      DEF SqInv, SqTypeOK, TypeOK, SqFinalizeInv
    <3>5. SqMemoryInv' /\ PointersInv'
      BY <1>1, <1>2, <2>1, <2>2, <3>1, ObjAssumption
      DEF SqInv, SqTypeOK, TypeOK, SqMemoryInv, PointersInv
    <3>6. HookedReclaimed'
      BY <1>1, <2>1, <2>2, <3>1, ObjAssumption
      DEF SqInv, SqTypeOK, TypeOK, PointersInv, HookedReclaimed
    <3> QED BY <3>2, <3>3, <3>4, <3>5, <3>6 DEF SqInv
  <2>4. CASE w \notin GarbageCollected
    <3>1. /\ wrapper' = [wrapper EXCEPT ![w] = "freed"]
          /\ UNCHANGED <<objectPtr, locked, host, backPtr, fin, context, fault>>
      BY <1>2, <2>1, <2>2, <2>4 DEF ReleaseInstance, FinalizeWrapper
    <3>2. SqTypeOK'
      BY <1>1, <3>1 DEF SqInv, SqTypeOK, TypeOK, Memory
    <3>3. SqFramesInv' /\ SqDestroyInv' /\ SqFinalizeInv' /\ OnlyTemporariesDangle'
      BY <1>1, <3>1, ObjAssumption
      DEF SqInv, SqTypeOK, TypeOK, SqFramesInv, SqDestroyInv, SqFinalizeInv, OnlyTemporariesDangle
    <3>4. SqMemoryInv'
      BY <1>1, <2>2, <3>1, ObjAssumption DEF SqInv, SqTypeOK, TypeOK, SqMemoryInv
    <3>5. PointersInv'
      BY <1>1, <1>2, <2>1, <2>2, <3>1, ObjAssumption DEF SqInv, SqTypeOK, TypeOK, PointersInv
    <3>6. HookedReclaimed'
      BY <1>1, <2>1, <2>2, <2>4, <3>1, ObjAssumption
      DEF SqInv, SqTypeOK, TypeOK, PointersInv, HookedReclaimed
    <3> QED BY <3>2, <3>3, <3>4, <3>5, <3>6 DEF SqInv
  <2> QED BY <2>3, <2>4
<1>3. CASE ~hook[i]
  <2>1. UNCHANGED <<wrapper, objectPtr, locked, host, backPtr, fin, context, fault>>
    BY <1>3 DEF ReleaseInstance
  <2>2. SqTypeOK' /\ SqFramesInv' /\ SqDestroyInv' /\ SqFinalizeInv' /\ OnlyTemporariesDangle'
    BY <1>1, <2>1, ObjAssumption
    DEF SqInv, SqTypeOK, TypeOK, SqFramesInv, SqDestroyInv, SqFinalizeInv, OnlyTemporariesDangle
  <2>3. SqMemoryInv' /\ PointersInv' /\ HookedReclaimed'
    BY <1>1, <1>3, <2>1 DEF SqInv, SqTypeOK, TypeOK, SqMemoryInv, PointersInv, HookedReclaimed
  <2> QED BY <2>2, <2>3 DEF SqInv
<1> QED BY <1>2, <1>3

\* Between callbacks, or by the sq_pop of PopScriptObject.
LEMMA GCCallbackSqInv ==
  ASSUME SqInv, ReleasePopped \/ \E i \in Obj : SquirrelClassGCCallback(i)
  PROVE  SqInv'
<1>1. CASE ReleasePopped
  <2>1. call.obj \in Obj
    BY <1>1, ObjAssumption DEF ReleasePopped, SqInv, SqTypeOK, TypeOK, SqFramesInv
  <2> QED BY <1>1, <2>1, ReleaseSqInv DEF ReleasePopped
<1>2. ASSUME NEW i \in Obj, SquirrelClassGCCallback(i)
      PROVE  SqInv'
  BY <1>2, ReleaseSqInv DEF SquirrelClassGCCallback, Collectable, Idle
<1> QED BY <1>1, <1>2

\* PopScriptObject, of an object the script keeps or of a temporary.
LEMMA PopSqInv ==
  ASSUME NEW i \in Obj, NEW temp \in BOOLEAN, SqInv, PopScriptObject(i, temp)
  PROVE  SqInv'
<1>1. CASE Fail("hang") /\ UNCHANGED <<up, hook, classHook>>
  BY <1>1, FailSqInv
<1>2. CASE /\ up[i] # NoObj
           /\ call' = Frame("popped", i)
           /\ handle' = [handle EXCEPT ![i] = IF temp THEN "garbage" ELSE @]
           /\ UNCHANGED <<wrapper, objectPtr, locked, host, backPtr, fin, context, fault, up, hook, classHook>>
  <2>1. PICK g \in {"reachable", "garbage"} : handle' = [handle EXCEPT ![i] = g]
    BY <1>2 DEF PopScriptObject
  <2>2. /\ fault = "none" /\ call.at = "idle" /\ fin.at = "idle" /\ fin.obj = NoObj
        /\ call' = [at |-> "popped", obj |-> i] /\ handle[i] = "reachable"
    BY <1>2 DEF PopScriptObject, InScript, Idle, Frame
  <2>3. SqTypeOK'
    BY <1>2, <2>1, <2>2 DEF SqInv, SqTypeOK, TypeOK, CallAt
  <2>4. SqFramesInv' /\ SqDestroyInv' /\ SqFinalizeInv' /\ OnlyTemporariesDangle'
    BY <1>2, <2>1, <2>2, ObjAssumption
    DEF SqInv, SqTypeOK, TypeOK, SqFramesInv, SqDestroyInv, SqFinalizeInv, OnlyTemporariesDangle
  <2>5. SqMemoryInv' /\ PointersInv' /\ HookedReclaimed'
    BY <1>2, <2>1, <2>2, ObjAssumption
    DEF SqInv, SqTypeOK, TypeOK, SqMemoryInv, PointersInv, HookedReclaimed
  <2> QED BY <2>3, <2>4, <2>5 DEF SqInv
<1> QED BY <1>1, <1>2 DEF PopScriptObject

\* ReplaceCPPObject finds the popped wrapper deleted only if the pop did it.
LEMMA BadPoppedSqInv ==
  ASSUME NEW i \in Obj, SqInv, fault = "none", fin = Idle, call.at = "popped", call.obj = i,
         BadPopped(i), UNCHANGED <<up, hook, classHook>>
  PROVE  SqInv'
<1>1. up[i] \in Obj
  BY DEF SqInv, SqTypeOK, SqFramesInv
<1>2. CASE Fail("nullDeref") \/ Fail("wrongClass")
  BY <1>2, FailSqInv
<1>3. CASE Usable(i) /\ host[up[i]] # "live"
  BY <1>1, <1>3, ObjAssumption DEF Usable, Idle, SqInv, SqMemoryInv
<1>4. CASE wrapper[up[i]] # "live" /\ Fail("useAfterFree")
  <2>1. /\ fault' = "useAfterFree"
        /\ UNCHANGED <<wrapper, objectPtr, locked, host, backPtr, handle, call, fin, context>>
    BY <1>4 DEF Fail
  <2>2. hook[i] /\ handle[i] = "collected"
    BY <1>1, <1>4, ObjAssumption DEF SqInv, SqTypeOK, PointersInv
  <2>3. SqTypeOK' /\ OnlyTemporariesDangle'
    BY <2>1, <2>2 DEF SqInv, SqTypeOK, TypeOK, Faults, OnlyTemporariesDangle
  <2>4. SqFramesInv' /\ SqDestroyInv' /\ SqFinalizeInv'
    BY <2>1 DEF SqInv, SqFramesInv, SqDestroyInv, SqFinalizeInv
  <2>5. PointersInv' /\ SqMemoryInv' /\ HookedReclaimed'
    BY <2>1 DEF SqInv, PointersInv, SqMemoryInv, HookedReclaimed
  <2> QED BY <2>3, <2>4, <2>5 DEF SqInv
<1> QED BY <1>2, <1>3, <1>4 DEF BadPopped

\* The rest of ReplaceCPPObject.
LEMMA ReplaceSqInv ==
  ASSUME NEW new \in Obj, SqInv, ReplaceCPPObject(new)
  PROVE  SqInv'
<1>1. call.obj \in Obj
  BY ObjAssumption DEF ReplaceCPPObject, SqInv, SqTypeOK, TypeOK, SqFramesInv
<1>2. CASE BadPopped(call.obj) /\ UNCHANGED <<up, hook, classHook>>
  BY <1>1, <1>2, BadPoppedSqInv DEF ReplaceCPPObject
<1>3. CASE /\ NewScriptObject(new, TRUE) /\ NewHost(new)
           /\ handle' = [handle EXCEPT ![new] = "reachable"]
           /\ up' = [up EXCEPT ![new] = new]
           /\ call' = Idle
           /\ UNCHANGED <<fin, context, fault, hook, classHook>>
  <2>1. up' = [i \in Obj |-> IF i = new THEN new ELSE up[i]]
    BY <1>3 DEF SqInv, SqTypeOK
  <2>2. hook' = [i \in Obj |-> (i = new /\ FALSE) \/ hook[i]]
    BY <1>3 DEF SqInv, SqTypeOK
  <2>3. classHook' \in BOOLEAN
    BY <1>3 DEF SqInv, SqTypeOK
  <2>4. /\ fault = "none" /\ fin = Idle /\ call.at \in {"idle", "popped"}
        /\ wrapper[new] = "none"
    BY DEF ReplaceCPPObject
  <2> QED BY <1>3, <2>1, <2>2, <2>3, <2>4, NewObjectSqInv
<1> QED BY <1>2, <1>3 DEF ReplaceCPPObject

\* The rest of Destroy(): its class is not garbage collected.
LEMMA DestroySqInv ==
  ASSUME SqInv, RunDestructor \/ EndDestroy, UNCHANGED <<up, hook, classHook>>
  PROVE  SqInv'
<1>1. PICK o \in Obj : o = call.obj
  BY ObjAssumption DEF RunDestructor, EndDestroy, SqInv, SqTypeOK, TypeOK, SqFramesInv
<1>2. /\ wrapper[o] = "live" /\ locked[o] /\ o \notin GarbageCollected
      /\ fault = "none" /\ fin.at = "idle" /\ fin.obj = NoObj
  BY <1>1 DEF RunDestructor, EndDestroy, Idle, SqInv, SqDestroyInv
<1>3. CASE RunDestructor
  <2>1. /\ objectPtr[o] => host[o] = "live"
        /\ call' = [at |-> "destroyed", obj |-> o]
        /\ UNCHANGED <<objectPtr, locked, handle, fin, context>>
    BY <1>1, <1>2, <1>3, ObjAssumption DEF RunDestructor, Frame, SqInv, SqMemoryInv
  <2>2. objectPtr[o]
    BY <1>1, <1>2, <1>3 DEF RunDestructor, SqInv, SqDestroyInv
  <2>3. /\ host' = [host EXCEPT ![o] = "freed"]
        /\ backPtr' = [backPtr EXCEPT ![o] = FALSE]
        /\ UNCHANGED <<wrapper, fault>>
    BY <1>1, <1>2, <1>3, <2>1, <2>2
    DEF RunDestructor, Generic_Destructor, DeleteHost, Release
  <2>4. SqTypeOK'
    BY <2>1, <2>3 DEF SqInv, SqTypeOK, TypeOK, CallAt, Memory
  <2>5. SqFramesInv' /\ SqDestroyInv' /\ SqFinalizeInv' /\ OnlyTemporariesDangle'
    BY <1>2, <2>1, <2>2, <2>3, ObjAssumption
    DEF SqInv, SqTypeOK, TypeOK, SqFramesInv, SqDestroyInv, SqFinalizeInv, OnlyTemporariesDangle
  <2>6. SqMemoryInv' /\ PointersInv' /\ HookedReclaimed'
    BY <1>2, <2>1, <2>3, ObjAssumption
    DEF SqInv, SqTypeOK, TypeOK, SqMemoryInv, PointersInv, HookedReclaimed
  <2> QED BY <2>4, <2>5, <2>6 DEF SqInv
<1>4. CASE EndDestroy
  <2>1. /\ locked' = [locked EXCEPT ![o] = FALSE]
        /\ objectPtr' = [objectPtr EXCEPT ![o] = FALSE]
        /\ call' = [at |-> "idle", obj |-> NoObj]
        /\ UNCHANGED <<wrapper, host, backPtr, handle, fin, context, fault>>
    BY <1>1, <1>2, <1>4 DEF EndDestroy, Idle
  <2>2. SqTypeOK'
    BY <2>1 DEF SqInv, SqTypeOK, TypeOK, CallAt
  <2>3. SqFramesInv' /\ SqDestroyInv' /\ SqFinalizeInv' /\ OnlyTemporariesDangle'
    BY <1>2, <2>1, ObjAssumption
    DEF SqInv, SqTypeOK, TypeOK, SqFramesInv, SqDestroyInv, SqFinalizeInv, OnlyTemporariesDangle
  <2>4. SqMemoryInv' /\ PointersInv' /\ HookedReclaimed'
    BY <1>1, <1>2, <2>1, ObjAssumption
    DEF SqInv, SqTypeOK, TypeOK, SqMemoryInv, PointersInv, HookedReclaimed
  <2> QED BY <2>2, <2>3, <2>4 DEF SqInv
<1> QED BY <1>3, <1>4

\* The hook: the user's destructor, then the wrapper.
LEMMA FinalizeSqInv ==
  ASSUME SqInv, FinalizeDestructor \/ FinalizeDelete, UNCHANGED <<up, hook, classHook>>
  PROVE  SqInv'
<1>1. PICK o \in Obj : o = fin.obj
  BY ObjAssumption DEF FinalizeDestructor, FinalizeDelete, SqInv, SqTypeOK, TypeOK, SqFramesInv
<1>2. /\ wrapper[o] = "live" /\ locked[o] /\ objectPtr[o] /\ o \in GarbageCollected
      /\ fin.at = "delete" => host[o] = "freed"
      /\ fault = "none" /\ call.at \in {"idle", "popped"}
      /\ \A i \in Obj : up[i] = o => hook[i] /\ handle[i] = "collected"
  BY <1>1 DEF FinalizeDestructor, FinalizeDelete, SqInv, SqFramesInv, SqFinalizeInv
<1>3. CASE FinalizeDestructor
  <2>1. host[o] = "live"
    BY <1>1, <1>2, <1>3, ObjAssumption DEF FinalizeDestructor, SqInv, SqMemoryInv
  <2>2. /\ host' = [host EXCEPT ![o] = "freed"]
        /\ backPtr' = [backPtr EXCEPT ![o] = FALSE]
        /\ fin' = [at |-> "delete", obj |-> o]
        /\ UNCHANGED <<wrapper, objectPtr, locked, handle, call, context, fault>>
    BY <1>1, <1>2, <1>3, <2>1
    DEF FinalizeDestructor, Generic_Destructor, DeleteHost, Release, Frame
  <2>3. SqTypeOK'
    BY <2>2 DEF SqInv, SqTypeOK, TypeOK, FinAt, Memory
  <2>4. SqFramesInv' /\ SqDestroyInv' /\ SqFinalizeInv' /\ OnlyTemporariesDangle'
    BY <1>1, <1>2, <2>2, ObjAssumption
    DEF SqInv, SqTypeOK, TypeOK, SqFramesInv, SqDestroyInv, SqFinalizeInv, OnlyTemporariesDangle
  <2>5. SqMemoryInv' /\ PointersInv' /\ HookedReclaimed'
    BY <1>1, <1>2, <2>2, ObjAssumption
    DEF SqInv, SqTypeOK, TypeOK, SqMemoryInv, PointersInv, HookedReclaimed
  <2> QED BY <2>3, <2>4, <2>5 DEF SqInv
<1>4. CASE FinalizeDelete
  <2>1. /\ wrapper' = [wrapper EXCEPT ![o] = "freed"] /\ host[o] = "freed"
        /\ fin' = [at |-> "idle", obj |-> NoObj]
        /\ UNCHANGED <<objectPtr, locked, host, backPtr, handle, call, context, fault>>
    BY <1>1, <1>2, <1>4 DEF FinalizeDelete, Idle
  <2>2. SqTypeOK'
    BY <2>1 DEF SqInv, SqTypeOK, TypeOK, FinAt, Memory
  <2>3. SqFramesInv' /\ SqDestroyInv' /\ SqFinalizeInv' /\ OnlyTemporariesDangle'
    BY <1>1, <1>2, <2>1, ObjAssumption
    DEF SqInv, SqTypeOK, TypeOK, SqFramesInv, SqDestroyInv, SqFinalizeInv, OnlyTemporariesDangle
  <2>4. SqMemoryInv' /\ PointersInv'
    BY <1>1, <1>2, <2>1, ObjAssumption
    DEF SqInv, SqTypeOK, TypeOK, SqMemoryInv, PointersInv
  <2>5. HookedReclaimed'
    BY <1>1, <1>2, <2>1, ObjAssumption
    DEF SqInv, SqTypeOK, TypeOK, PointersInv, HookedReclaimed
  <2> QED BY <2>2, <2>3, <2>4, <2>5 DEF SqInv
<1> QED BY <1>3, <1>4

\* The script drops an instance into a cycle, and delete context.
LEMMA ScriptSqInv ==
  ASSUME SqInv, (\E i \in Obj : Drop(i)) \/ CloseContext \/ ContextClosed,
         UNCHANGED <<up, hook, classHook>>
  PROVE  SqInv'
<1>1. ASSUME NEW i \in Obj, Drop(i)
      PROVE  SqInv'
  <2>1. /\ fault = "none" /\ handle[i] = "reachable" /\ call.at = "idle"
        /\ fin.at = "idle" /\ fin.obj = NoObj
        /\ handle' = [handle EXCEPT ![i] = "garbage"]
        /\ UNCHANGED <<wrapper, objectPtr, locked, host, backPtr, call, fin, context, fault>>
    BY <1>1 DEF Drop, InScript, Idle
  <2>2. SqTypeOK' /\ SqFramesInv' /\ SqDestroyInv' /\ SqFinalizeInv' /\ OnlyTemporariesDangle'
    BY <2>1, ObjAssumption
    DEF SqInv, SqTypeOK, TypeOK, SqFramesInv, SqDestroyInv, SqFinalizeInv, OnlyTemporariesDangle
  <2>3. SqMemoryInv' /\ PointersInv' /\ HookedReclaimed'
    BY <2>1 DEF SqInv, SqTypeOK, TypeOK, SqMemoryInv, PointersInv, HookedReclaimed
  <2> QED BY <2>2, <2>3 DEF SqInv
<1>2. CASE CloseContext \/ ContextClosed
  BY <1>2, QuietSqInv DEF CloseContext, ContextClosed
<1> QED BY <1>1, <1>2

\* Every step of the Squirrel backend preserves the invariant.
LEMMA NextSqInv == SqInv /\ [Next]_sqvars => SqInv'
<1> SUFFICES ASSUME SqInv, [Next]_sqvars PROVE SqInv'
  OBVIOUS
<1>1. CASE CommonStep
  BY <1>1, DestroySqInv, FinalizeSqInv, ScriptSqInv DEF CommonStep
<1>2. CASE Next
  BY <1>1, <1>2, ConstructorSqInv, DestructorSqInv, GCCallbackSqInv, MethodSqInv, PopSqInv,
     ReplaceSqInv, FailSqInv
  DEF Next, ReleaseClass
<1>3. CASE UNCHANGED sqvars
  BY <1>3, QuietSqInv DEF sqvars, SqInv, SqTypeOK, TypeOK
<1> QED BY <1>2, <1>3

\* The inductive invariant holds of every state of every run.
THEOREM SquirrelInvariant == Spec => []SqInv
  BY InitSqInv, NextSqInv, PTL DEF Spec

\* The parts of the invariant that the run checks one by one.
LEMMA SqInvParts ==
  SqInv => InstanceBacked /\ OnlyTemporariesDangle /\ HostBacked /\ LockScoped /\ HookedReclaimed
<1> SUFFICES ASSUME SqInv
             PROVE  InstanceBacked /\ HostBacked /\ LockScoped
  BY DEF SqInv
<1>1. InstanceBacked
  BY DEF SqInv, PointersInv, InstanceBacked
<1>2. HostBacked /\ LockScoped
  BY DEF SqInv, SqMemoryInv, HostBacked, LockScoped
<1> QED BY <1>1, <1>2

\* Freed memory is used by nobody but a C++ function whose PopScriptObject
\* popped the last reference to a hooked instance.
THEOREM SquirrelOnlyTemporariesDangle == Spec => []OnlyTemporariesDangle
  BY SquirrelInvariant, SqInvParts, PTL

\* The user pointer of an instance that has not been released is NULL or points
\* at an existing ScriptObject, its own or that of the object whose constructor
\* left the instance on the stack.
THEOREM SquirrelInstanceBacked == Spec => []InstanceBacked
  BY SquirrelInvariant, SqInvParts, PTL

\* A ScriptObject with an object pointer has that object, outside its destructor.
THEOREM SquirrelHostBacked == Spec => []HostBacked
  BY SquirrelInvariant, SqInvParts, PTL

\* m_lockedByScript is never left set, also by the Destroy() that asserts.
THEOREM SquirrelLockScoped == Spec => []LockScoped
  BY SquirrelInvariant, SqInvParts, PTL

\* A released instance with the hook leaves no ScriptObject it points at, and no
\* host of a garbage collected class, behind.
THEOREM SquirrelHookedReclaimed == Spec => []HookedReclaimed
  BY SquirrelInvariant, SqInvParts, PTL

\* Only the two destructor steps touch a live host: that of Destroy(), and that
\* of the hook, which runs for garbage collected classes only.
LEMMA HostsDie ==
  ASSUME SqInv, [Next]_sqvars, NEW o \in Obj \ GarbageCollected,
         host[o] = "live", host'[o] # "live"
  PROVE  call = Frame("destroy", o)
<1>1. CASE RunDestructor
  <2>1. call.obj = o
    BY <1>1
    DEF RunDestructor, Generic_Destructor, DeleteHost, SqInv, SqTypeOK, TypeOK
  <2> QED BY <1>1, <2>1 DEF RunDestructor, Frame, SqInv, SqTypeOK, TypeOK
<1>2. CASE FinalizeDestructor
  <2>1. fin.obj \in GarbageCollected
    BY <1>2, ObjAssumption
    DEF FinalizeDestructor, SqInv, SqTypeOK, TypeOK, SqFramesInv, SqFinalizeInv
  <2>2. host' = host \/ host' = [host EXCEPT ![fin.obj] = "freed"]
    BY <1>2 DEF FinalizeDestructor, Generic_Destructor, DeleteHost
  <2> QED BY <2>1, <2>2 DEF SqInv, SqTypeOK, TypeOK
<1>3. CASE CommonStep
  BY <1>1, <1>2, <1>3
  DEF CommonStep, Drop, EndDestroy, FinalizeDelete, CloseContext, ContextClosed
<1>4. ASSUME NEW i \in Obj, NEW t \in OnTop(i), NEW class \in BOOLEAN,
             SquirrelClassConstructorCallback(i, t, class)
      PROVE  FALSE
  BY <1>4 DEF SquirrelClassConstructorCallback, NewHost, SqInv, SqTypeOK, TypeOK
<1>5. ASSUME NEW i \in Obj, ReplaceCPPObject(i)
      PROVE  FALSE
  BY <1>5 DEF ReplaceCPPObject, BadPopped, Fail, NewHost, SqInv, SqTypeOK, TypeOK
<1>6. ASSUME NEW i \in Obj,
             \/ SquirrelClassDestructorCallback(i) \/ SquirrelClassMethodCallback(i)
             \/ (\E temp \in BOOLEAN : PopScriptObject(i, temp)) \/ PushScriptObject(i)
             \/ ReleaseClass
      PROVE  FALSE
  BY <1>6
  DEF SquirrelClassDestructorCallback, SquirrelClassMethodCallback, PopScriptObject,
      PushScriptObject, ReleaseClass, BeginDestroy, Unusable, Fail, vars
<1>7. ASSUME ReleasePopped \/ \E i \in Obj : SquirrelClassGCCallback(i)
      PROVE  FALSE
  BY <1>7 DEF ReleasePopped, SquirrelClassGCCallback, ReleaseInstance, FinalizeWrapper
<1>8. CASE UNCHANGED sqvars
  BY <1>8 DEF sqvars
<1> QED BY <1>3, <1>4, <1>5, <1>6, <1>7, <1>8 DEF Next

\* ScriptInterface.h:72: an object of a class that is not garbage collected is
\* destroyed by the script only in Destroy().
THEOREM SquirrelOnlyDestroyDestroys == Spec => OnlyDestroyDestroys
<1>1. SqInv /\ [Next]_sqvars =>
        [\A o \in Obj \ GarbageCollected :
            (host[o] = "live" /\ host'[o] # "live") => call = Frame("destroy", o)]_vars
  BY HostsDie
<1> QED BY <1>1, SquirrelInvariant, PTL DEF Spec, OnlyDestroyDestroys
=============================================================================
