------------------------------ MODULE GMObjects ------------------------------
(***************************************************************************)
(* Scripted objects under the GameMonkey backend (GMScriptContext.cpp and  *)
(* GMScriptStack.cpp).  GameMonkey collects only in CollectGarbage and in  *)
(* ~gmMachine (GMMACHINE_GCEVERYALLOC is 0), so finalisers never run       *)
(* inside a callback.  The constructor callback puts the user object on    *)
(* the script's stack before the user's constructor has run.               *)
(***************************************************************************)
EXTENDS ScriptObjects

\* GMClassConstructorCallback up to the user's constructor.
GMClassConstructorCallback(o) ==
    /\ InScript
    /\ wrapper[o] = "none"
    /\ NewScriptObject(o, FALSE)
    /\ handle' = [handle EXCEPT ![o] = "reachable"]
    /\ call' = Frame("construct", o)
    /\ UNCHANGED <<host, backPtr, fin, context, fault>>

\* The user's constructor; the assertion on m_objectPtr holds after it.
ConstructHost ==
    /\ fault = "none" /\ fin = Idle /\ call.at = "construct"
    /\ NewHost(call.obj)
    /\ objectPtr' = [objectPtr EXCEPT ![call.obj] = TRUE]
    /\ call' = Idle
    /\ UNCHANGED <<wrapper, locked, handle, fin, context, fault>>

\* Mutant: Destroy() does not lock the wrapper.
GMClassDestructorCallbackUnlocked(o) ==
    /\ InScript
    /\ handle[o] = "reachable" /\ o \notin GarbageCollected
    /\ call' = Frame("destroy", o)
    /\ UNCHANGED <<wrapper, objectPtr, locked, host, backPtr, handle, fin, context, fault>>

\* The Destroy() method, which a script may call more than once.
GMClassDestructorCallback(o) ==
    /\ InScript
    /\ handle[o] = "reachable" /\ o \notin GarbageCollected
    /\ IF wrapper[o] = "live" THEN BeginDestroy(o) ELSE Fail("useAfterFree")

\* Mutant: the callback forgets to delete the wrapper of a destroyed object.
GMClassGCCallbackLeaks(o) ==
    /\ fault = "none" /\ fin = Idle /\ call = Idle
    /\ Collectable(o)
    /\ IF objectPtr[o]
       THEN FinalizeBody(o)
       ELSE /\ handle' = [handle EXCEPT ![o] = "collected"]
            /\ UNCHANGED <<wrapper, objectPtr, locked, host, backPtr, fin, context, fault>>
    /\ UNCHANGED call

\* Mutant: the callback ignores m_garbageCollect.
GMClassGCCallbackAnyClass(o) ==
    /\ fault = "none" /\ fin = Idle /\ call = Idle
    /\ Collectable(o) /\ objectPtr[o]
    /\ handle' = [handle EXCEPT ![o] = "collected"]
    /\ locked' = [locked EXCEPT ![o] = TRUE]
    /\ fin' = Frame("destructor", o)
    /\ UNCHANGED <<wrapper, objectPtr, host, backPtr, call, context, fault>>

\* The collector's destruct callback.
GMClassGCCallback(o) ==
    /\ fault = "none" /\ fin = Idle /\ call = Idle
    /\ Collectable(o)
    /\ FinalizeBody(o)
    /\ UNCHANGED call

\* A method, AsString() or the debugger's string conversion: all of them
\* assert that m_objectPtr is set.
GMClassMethodCallback(o) ==
    /\ InScript
    /\ handle[o] = "reachable"
    /\ \/ wrapper[o] # "live" /\ Fail("useAfterFree")
       \/ wrapper[o] = "live" /\ ~objectPtr[o] /\ Fail("hang")
       \/ wrapper[o] = "live" /\ objectPtr[o] /\ host[o] # "live" /\ Fail("useAfterFree")
       \/ wrapper[o] = "live" /\ objectPtr[o] /\ host[o] = "live" /\ UNCHANGED vars

\* A C++ function that takes one object and returns a new one, as the test
\* program's ReplaceCPPObject does.  PopScriptObject leaves the parameter on
\* the thread's stack, so that the old object stays reachable; nothing
\* interrupts PushNewScriptObject.
ReplaceCPPObject(old, new) ==
    /\ InScript
    /\ handle[old] = "reachable" /\ old \in Scriptable
    /\ wrapper[new] = "none" /\ new \in Scriptable
    /\ \/ wrapper[old] # "live" /\ Fail("useAfterFree")
       \/ wrapper[old] = "live" /\ ~objectPtr[old] /\ Fail("nullDeref")
       \/ wrapper[old] = "live" /\ objectPtr[old] /\ host[old] # "live" /\ Fail("useAfterFree")
       \/ /\ wrapper[old] = "live" /\ objectPtr[old] /\ host[old] = "live"
          /\ NewScriptObject(new, TRUE)
          /\ NewHost(new)
          /\ handle' = [handle EXCEPT ![new] = "reachable"]
          /\ UNCHANGED <<call, fin, context, fault>>

\* A C++ function passes an object to the script again: PushUser of the
\* wrapper's m_gmUserObject.
PushScriptObject(o) ==
    /\ InScript
    /\ host[o] = "live" /\ backPtr[o]
    /\ IF wrapper[o] = "live"
       THEN /\ handle' = [handle EXCEPT ![o] = "reachable"]
            /\ UNCHANGED <<wrapper, objectPtr, locked, host, backPtr, call, fin, context, fault>>
       ELSE Fail("useAfterFree")

\* The application passes an object on only while the script refers to it.
PushRooted(o) == handle[o] = "reachable" /\ PushScriptObject(o)

Next ==
    \/ \E o \in Obj :
          \/ GMClassConstructorCallback(o)
          \/ GMClassDestructorCallback(o)
          \/ GMClassGCCallback(o)
          \/ GMClassMethodCallback(o)
          \/ PushRooted(o)
          \/ Drop(o)
    \/ \E old, new \in Obj : ReplaceCPPObject(old, new)
    \/ ConstructHost
    \/ RunDestructor \/ EndDestroy
    \/ FinalizeDestructor \/ FinalizeDelete
    \/ CloseContext \/ ContextClosed

Spec == Init /\ [][Next]_vars

\* The same program with an application that passes an object to the script
\* whenever it likes, as the comment on BaseScriptableClass intends.
HostSpec == Init /\ [][Next \/ \E o \in Obj : PushScriptObject(o)]_vars

-----------------------------------------------------------------------------
(* The invariant behind the properties *)

\* While the user's constructor runs, the script's handle exists and the host
\* does not; no other callback of this backend allocates in steps.
ConstructInv ==
    /\ call.at \notin {"push", "popped"}
    /\ \A o \in Obj :
          (call.obj = o /\ call.at = "construct")
              => wrapper[o] = "live" /\ ~objectPtr[o] /\ host[o] = "none" /\ handle[o] = "reachable"

\* Once constructed, an object of a garbage collected class keeps its m_objectPtr:
\* only Destroy() clears it, and these classes have none.
GCInv ==
    \A o \in GarbageCollected :
        wrapper[o] = "live" => objectPtr[o] \/ (call.obj = o /\ call.at = "construct")

GMInv == ObjInv /\ ConstructInv /\ GCInv /\ Reclaimed
=============================================================================
