----------------------------- MODULE LuaObjects -----------------------------
(***************************************************************************)
(* Scripted objects under the Lua backend (LuaScriptContext.cpp and        *)
(* LuaScriptStack.cpp).  Lua collects inside lua_newuserdata, so a         *)
(* finaliser may run inside a constructor callback or a                    *)
(* PushNewScriptObject, before the new userdata exists.                    *)
(***************************************************************************)
EXTENDS ScriptObjects

\* LuaClassConstructorCallback up to lua_newuserdata: the wrapper and the host
\* exist, the userdata does not.
LuaClassConstructorCallback(o) ==
    /\ InScript
    /\ wrapper[o] = "none"
    /\ NewScriptObject(o, TRUE)
    /\ NewHost(o)
    /\ call' = Frame("construct", o)
    /\ UNCHANGED <<handle, fin, context, fault>>

\* lua_newuserdata and its metatable, the end of the constructor callback.
NewUserdata ==
    /\ fault = "none" /\ fin = Idle /\ call.at = "construct"
    /\ handle' = [handle EXCEPT ![call.obj] = "reachable"]
    /\ call' = Idle
    /\ UNCHANGED <<wrapper, objectPtr, locked, host, backPtr, fin, context, fault>>

\* The Destroy() method; it does not test m_objectPtr, so that a second
\* Destroy() runs the user's destructor on NULL.
LuaClassDestructorCallback(o) ==
    /\ InScript
    /\ handle[o] = "reachable" /\ o \notin GarbageCollected
    /\ IF wrapper[o] = "live" THEN BeginDestroy(o) ELSE Fail("useAfterFree")

\* __gc: inside a collection step, or in lua_close.  Lua raises the threshold
\* while a finaliser runs, so finalisers do not nest.
LuaClassGCCallback(o) ==
    /\ fault = "none" /\ fin = Idle
    /\ call.at \in {"idle", "construct", "push"}
    /\ Collectable(o)
    /\ FinalizeBody(o)
    /\ UNCHANGED call

\* A method or ToString(): the callbacks hand the wrapper to the user's method
\* whatever its m_objectPtr is, and the method dereferences that.
LuaClassMethodCallback(o) ==
    /\ InScript
    /\ handle[o] = "reachable"
    /\ \/ wrapper[o] # "live" /\ Fail("useAfterFree")
       \/ wrapper[o] = "live" /\ ~objectPtr[o] /\ Fail("nullDeref")
       \/ wrapper[o] = "live" /\ objectPtr[o] /\ host[o] # "live" /\ Fail("useAfterFree")
       \/ wrapper[o] = "live" /\ objectPtr[o] /\ host[o] = "live" /\ UNCHANGED vars

\* A C++ function that takes one object and returns a new one, as the test
\* program's ReplaceCPPObject does: PopScriptObject (after which only the
\* script's variables keep the old object alive; temp: none does), a read of
\* the old host, a new host, and PushNewScriptObject up to lua_newuserdata.
ReplaceCPPObject(old, new, temp) ==
    /\ InScript
    /\ handle[old] = "reachable" /\ old \in Scriptable
    /\ wrapper[new] = "none" /\ new \in Scriptable
    /\ \/ wrapper[old] # "live" /\ Fail("useAfterFree")
       \/ wrapper[old] = "live" /\ ~objectPtr[old] /\ Fail("nullDeref")
       \/ wrapper[old] = "live" /\ objectPtr[old] /\ host[old] # "live" /\ Fail("useAfterFree")
       \/ /\ wrapper[old] = "live" /\ objectPtr[old] /\ host[old] = "live"
          /\ handle' = [handle EXCEPT ![old] = IF temp THEN "garbage" ELSE @]
          /\ NewScriptObject(new, TRUE)
          /\ host' = [host EXCEPT ![new] = "live"]
          /\ call' = Frame("push", new)
          /\ UNCHANGED <<backPtr, fin, context, fault>>

\* The rest of PushNewScriptObject, and m_scriptObject = its result.
PushNewScriptObject ==
    /\ fault = "none" /\ fin = Idle /\ call.at = "push"
    /\ handle' = [handle EXCEPT ![call.obj] = "reachable"]
    /\ backPtr' = [backPtr EXCEPT ![call.obj] = TRUE]
    /\ call' = Idle
    /\ UNCHANGED <<wrapper, objectPtr, locked, host, fin, context, fault>>

\* PushScriptObject is not implemented for Lua: MultiScriptAssert(false).
PushScriptObject(o) ==
    /\ InScript
    /\ host[o] = "live" /\ backPtr[o]
    /\ Fail("hang")

Next ==
    \/ \E o \in Obj :
          \/ LuaClassConstructorCallback(o)
          \/ LuaClassDestructorCallback(o)
          \/ LuaClassGCCallback(o)
          \/ LuaClassMethodCallback(o)
          \/ PushScriptObject(o)
          \/ Drop(o)
    \/ \E old, new \in Obj, temp \in BOOLEAN : ReplaceCPPObject(old, new, temp)
    \/ NewUserdata \/ PushNewScriptObject
    \/ RunDestructor \/ EndDestroy
    \/ FinalizeDestructor \/ FinalizeDelete
    \/ CloseContext \/ ContextClosed

(***************************************************************************)
(* A callback runs to its end, lua_close finalises every userdata, and the *)
(* program deletes its contexts (MultiScriptTest.cpp:483 and 527).  No     *)
(* fairness is assumed of the collector while the context is open.         *)
(***************************************************************************)
Fairness ==
    /\ WF_vars(NewUserdata \/ PushNewScriptObject \/ RunDestructor \/ EndDestroy)
    /\ WF_vars(FinalizeDestructor \/ FinalizeDelete)
    /\ WF_vars(context = "closing" /\ \E o \in Obj : LuaClassGCCallback(o))
    /\ SF_vars(CloseContext)

Spec == Init /\ [][Next]_vars /\ Fairness

\* The same program with an application that deletes its objects itself.
HostSpec == Init /\ [][Next \/ \E o \in Obj : HostDelete(o)]_vars

-----------------------------------------------------------------------------
(* The inductive invariant *)

\* Between the host's creation and lua_newuserdata no handle exists, so that no
\* finaliser can touch the new object.
AllocInv ==
    /\ call.at # "popped"
    /\ \A o \in Obj :
          (call.obj = o /\ call.at \in {"construct", "push"})
              => wrapper[o] = "live" /\ objectPtr[o] /\ host[o] = "live" /\ handle[o] = "none"

\* Only Destroy() clears m_objectPtr, and garbage collected classes have none.
GCInv == \A o \in GarbageCollected : wrapper[o] = "live" => objectPtr[o]

LuaInv == ObjInv /\ AllocInv /\ GCInv /\ Reclaimed
=============================================================================
