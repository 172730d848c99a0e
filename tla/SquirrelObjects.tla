--------------------------- MODULE SquirrelObjects ---------------------------
(***************************************************************************)
(* Scripted objects under the Squirrel backend (SquirrelScriptContext.cpp  *)
(* and SquirrelScriptStack.cpp).  Squirrel counts references: the release  *)
(* hook of an instance runs at once where its last reference goes, which   *)
(* may be the sq_pop inside PopScriptObject; only cycles wait for          *)
(* sq_collectgarbage.  An instance reaches its wrapper through its user    *)
(* pointer, which the constructor callback sets, like the hook, on what it *)
(* finds on the top of the stack: handle, up and hook are about instances, *)
(* wrapper and host about the objects they were made for, and an instance  *)
(* may come to point at the wrapper of another one.                        *)
(***************************************************************************)
EXTENDS ScriptObjects

VARIABLES
    up,        \* up[i]: the wrapper the user pointer of instance i points at, or NoObj
    hook,      \* hook[i]: instance i has the release hook
    classHook  \* some class has it

sqvars == <<wrapper, objectPtr, locked, host, backPtr, handle, call, fin, context, fault, up, hook, classHook>>

SqInit ==
    /\ Init
    /\ up = [i \in Obj |-> NoObj]
    /\ hook = [i \in Obj |-> FALSE]
    /\ classHook = FALSE

\* The two have the same ClassDesc: classes differ in what it says.
SameClass(i, w) ==
    /\ i \in GarbageCollected <=> w \in GarbageCollected
    /\ i \in Scriptable <=> w \in Scriptable

\* The methods of an instance read its user pointer, assert that m_objectPtr
\* is set and treat what it points at as an object of the instance's class.
Usable(i) ==
    /\ up[i] # NoObj
    /\ wrapper[up[i]] = "live" /\ objectPtr[up[i]] /\ SameClass(i, up[i])

Unusable(i) ==
    \/ up[i] = NoObj /\ Fail("nullDeref")
    \/ up[i] # NoObj /\ wrapper[up[i]] # "live" /\ Fail("useAfterFree")
    \/ up[i] # NoObj /\ wrapper[up[i]] = "live" /\ ~objectPtr[up[i]] /\ Fail("hang")
    \/ /\ up[i] # NoObj /\ wrapper[up[i]] = "live" /\ objectPtr[up[i]] /\ ~SameClass(i, up[i])
       /\ Fail("wrongClass")

\* What the constructor callback of o finds on the top of the stack: the new
\* instance, or a parameter that the user's constructor did not pop: another
\* instance or, for NoObj, a value that is none.
OnTop(o) == {o, NoObj} \cup {i \in Obj : handle[i] = "reachable"}

\* SquirrelClassConstructorCallback.  sq_setinstanceup and sq_setreleasehook
\* address the top of the stack: an instance takes the pointer and the hook, a
\* class the hook alone, and on any other value both do nothing.
SquirrelClassConstructorCallback(o, top, class) ==
    /\ InScript
    /\ class => top = NoObj
    /\ wrapper[o] = "none"
    /\ NewScriptObject(o, TRUE)
    /\ NewHost(o)
    /\ handle' = [handle EXCEPT ![o] = "reachable"]
    /\ up' = [i \in Obj |-> IF i = top THEN o ELSE up[i]]
    /\ hook' = [i \in Obj |-> i = top \/ hook[i]]
    /\ classHook' = (classHook \/ class)
    /\ UNCHANGED <<call, fin, context, fault>>

\* Mutant: Destroy() does not lock the wrapper.
SquirrelClassDestructorCallbackUnlocked(i) ==
    /\ InScript
    /\ handle[i] = "reachable" /\ i \notin GarbageCollected
    /\ Usable(i)
    /\ call' = Frame("destroy", up[i])
    /\ UNCHANGED <<wrapper, objectPtr, locked, host, backPtr, handle, fin, context, fault, up, hook, classHook>>

\* The Destroy() method, which only classes that are not garbage collected have.
SquirrelClassDestructorCallback(i) ==
    /\ InScript
    /\ handle[i] = "reachable" /\ i \notin GarbageCollected
    /\ Unusable(i) \/ (Usable(i) /\ BeginDestroy(up[i]))
    /\ UNCHANGED <<up, hook, classHook>>

\* Mutant: the hook forgets to delete the wrapper of a destroyed object.
ReleaseInstanceLeaks(i) ==
    /\ handle' = [handle EXCEPT ![i] = "collected"]
    /\ IF hook[i] /\ objectPtr[up[i]]
       THEN FinalizeWrapper(up[i])
       ELSE UNCHANGED <<wrapper, objectPtr, locked, host, backPtr, fin, context, fault>>
    /\ UNCHANGED <<call, up, hook, classHook>>

\* SQInstance::Release with SquirrelClassGCCallback as its hook, which goes by
\* the class of the wrapper.
ReleaseInstance(i) ==
    /\ handle' = [handle EXCEPT ![i] = "collected"]
    /\ IF hook[i]
       THEN FinalizeWrapper(up[i])
       ELSE UNCHANGED <<wrapper, objectPtr, locked, host, backPtr, fin, context, fault>>
    /\ UNCHANGED <<call, up, hook, classHook>>

\* The script's last reference goes, in a cycle is collected, or sq_close
\* releases everything.
SquirrelClassGCCallback(i) ==
    /\ fault = "none" /\ fin = Idle /\ call = Idle
    /\ Collectable(i) \/ (context = "open" /\ handle[i] = "reachable")
    /\ ReleaseInstance(i)

\* SQClass::Release: a class passes its type tag to the hook, which is NULL.
ReleaseClass ==
    /\ fault = "none" /\ fin = Idle /\ call = Idle /\ context # "closed"
    /\ classHook
    /\ Fail("nullDeref")
    /\ UNCHANGED <<up, hook, classHook>>

\* A method or AsString().
SquirrelClassMethodCallback(i) ==
    /\ InScript
    /\ handle[i] = "reachable"
    /\ \/ Unusable(i)
       \/ Usable(i) /\ host[up[i]] # "live" /\ Fail("useAfterFree")
       \/ Usable(i) /\ host[up[i]] = "live" /\ UNCHANGED vars
    /\ UNCHANGED <<up, hook, classHook>>

\* PopScriptObject in a C++ function such as the test program's
\* ReplaceCPPObject; the frame names the instance.  temp: the stack held the
\* last reference, so that sq_pop releases the instance.  Without a user
\* pointer it returns NULL, on which the function fails and the callback's
\* assertion with it.
PopScriptObject(i, temp) ==
    /\ InScript
    /\ handle[i] = "reachable" /\ i \in Scriptable
    /\ \/ up[i] = NoObj /\ Fail("hang") /\ UNCHANGED <<up, hook, classHook>>
       \/ /\ up[i] # NoObj
          /\ call' = Frame("popped", i)
          /\ handle' = [handle EXCEPT ![i] = IF temp THEN "garbage" ELSE @]
          /\ UNCHANGED <<wrapper, objectPtr, locked, host, backPtr, fin, context, fault, up, hook, classHook>>

\* The release that sq_pop causes; the function goes on when it is over.
ReleasePopped ==
    /\ fault = "none" /\ fin = Idle /\ call.at = "popped"
    /\ handle[call.obj] = "garbage"
    /\ ReleaseInstance(call.obj)

\* ReplaceCPPObject reads the old host through the popped wrapper.
BadPopped(i) ==
    \/ wrapper[up[i]] # "live" /\ Fail("useAfterFree")
    \/ wrapper[up[i]] = "live" /\ ~objectPtr[up[i]] /\ Fail("nullDeref")
    \/ wrapper[up[i]] = "live" /\ objectPtr[up[i]] /\ ~SameClass(i, up[i]) /\ Fail("wrongClass")
    \/ Usable(i) /\ host[up[i]] # "live" /\ Fail("useAfterFree")

\* The rest of ReplaceCPPObject: it makes a new host and passes it to
\* PushNewScriptObject, which sets the user pointer and no release hook.
ReplaceCPPObject(new) ==
    /\ fault = "none" /\ fin = Idle /\ call.at = "popped"
    /\ handle[call.obj] # "garbage"
    /\ wrapper[new] = "none" /\ new \in Scriptable
    /\ \/ BadPopped(call.obj) /\ UNCHANGED <<up, hook, classHook>>
       \/ /\ Usable(call.obj) /\ host[up[call.obj]] = "live"
          /\ NewScriptObject(new, TRUE)
          /\ NewHost(new)
          /\ handle' = [handle EXCEPT ![new] = "reachable"]
          /\ up' = [up EXCEPT ![new] = new]
          /\ call' = Idle
          /\ UNCHANGED <<fin, context, fault, hook, classHook>>

\* PushScriptObject is not implemented for Squirrel: MultiScriptAssert(false).
PushScriptObject(o) ==
    /\ InScript
    /\ host[o] = "live" /\ backPtr[o]
    /\ Fail("hang")
    /\ UNCHANGED <<up, hook, classHook>>

\* The steps shared with the other backends leave the instance alone.
CommonStep ==
    /\ \/ \E i \in Obj : Drop(i)
       \/ RunDestructor \/ EndDestroy
       \/ FinalizeDestructor \/ FinalizeDelete
       \/ CloseContext
       \/ ~classHook /\ ContextClosed
    /\ UNCHANGED <<up, hook, classHook>>

Next ==
    \/ \E o \in Obj :
          \/ \E top \in OnTop(o), class \in BOOLEAN : SquirrelClassConstructorCallback(o, top, class)
          \/ SquirrelClassDestructorCallback(o)
          \/ SquirrelClassGCCallback(o)
          \/ SquirrelClassMethodCallback(o)
          \/ \E temp \in BOOLEAN : PopScriptObject(o, temp)
          \/ ReplaceCPPObject(o)
          \/ PushScriptObject(o)
    \/ ReleasePopped \/ ReleaseClass
    \/ CommonStep

Spec == SqInit /\ [][Next]_sqvars

-----------------------------------------------------------------------------
(* Properties *)

\* Type correctness of the whole state.
SqTypeOK ==
    /\ TypeOK
    /\ up \in [Obj -> Obj \cup {NoObj}]
    /\ hook \in [Obj -> BOOLEAN]
    /\ classHook \in BOOLEAN

\* An instance that has not been released never points at a deleted wrapper,
\* also one whose user pointer the constructor of another object overwrote:
\* methods, Destroy() and the release hook dereference it without a test.
InstanceBacked ==
    \A i \in Obj :
        (handle[i] \in {"reachable", "garbage"} /\ up[i] # NoObj) => wrapper[up[i]] = "live"

\* Freed memory is used in one place only: in a C++ function whose
\* PopScriptObject popped the script's last reference to an instance with the
\* hook (SquirrelScriptStack.cpp:42-52).  No order of constructors, residue,
\* Destroy() and releases lets a callback use or delete it.
OnlyTemporariesDangle ==
    fault \in {"useAfterFree", "doubleFree"} =>
        call.at = "popped" /\ hook[call.obj] /\ handle[call.obj] = "collected"

\* Releasing an instance that has the release hook reclaims the wrapper it
\* points at and, if that is of a garbage collected class, the host.
HookedReclaimed ==
    \A i \in Obj :
        (hook[i] /\ handle[i] = "collected" /\ fin.obj # up[i])
            => /\ wrapper[up[i]] = "freed"
               /\ up[i] \in GarbageCollected => host[up[i]] = "freed"
-----------------------------------------------------------------------------
(* The invariant behind them *)

\* The frames: a finaliser runs between callbacks, or in PopScriptObject.
SqFramesInv ==
    /\ call.at \notin {"construct", "push"}
    /\ call.at = "idle" <=> call.obj = NoObj
    /\ fin.at = "idle" <=> fin.obj = NoObj
    /\ fin.at # "idle" => call.at \in {"idle", "popped"}
    /\ call.at = "popped" => up[call.obj] # NoObj

\* Destroy() keeps the wrapper it found locked, and so alive.
SqDestroyInv ==
    \A o \in Obj :
        (call.obj = o /\ call.at \in {"destroy", "destroyed"})
            => /\ wrapper[o] = "live" /\ locked[o] /\ objectPtr[o] /\ o \notin GarbageCollected
               /\ call.at = "destroyed" => host[o] = "freed"

\* So does the hook, whose instance is gone.
SqFinalizeInv ==
    \A o \in Obj :
        fin.obj = o
            => /\ wrapper[o] = "live" /\ locked[o]
               /\ objectPtr[o] /\ o \in GarbageCollected
               /\ fin.at = "delete" => host[o] = "freed"
               /\ \A i \in Obj : up[i] = o => hook[i] /\ handle[i] = "collected"

\* At most one instance points at a wrapper, and as long as it has not been
\* released, or has no hook, the wrapper is there.
PointersInv ==
    \A i \in Obj :
        /\ hook[i] => up[i] # NoObj
        /\ wrapper[i] = "none" <=> handle[i] = "none"
        /\ up[i] # NoObj =>
              /\ handle[i] # "none" /\ wrapper[up[i]] # "none"
              /\ (~hook[i] \/ handle[i] # "collected") => wrapper[up[i]] = "live"
              /\ \A j \in Obj : up[j] = up[i] => j = i

\* Where wrapper and host stand to each other between callbacks.
SqMemoryInv ==
    \A o \in Obj :
        /\ wrapper[o] = "none" => host[o] = "none"
        /\ backPtr[o] => host[o] = "live"
        /\ (wrapper[o] = "live" /\ objectPtr[o]) =>
              \/ host[o] = "live"
              \/ call.obj = o /\ call.at = "destroyed"
              \/ fin.obj = o /\ fin.at = "delete"
        /\ (wrapper[o] = "live" /\ o \in GarbageCollected) => objectPtr[o]
        /\ (wrapper[o] = "live" /\ locked[o]) =>
              \/ call.obj = o /\ call.at \in {"destroy", "destroyed"}
              \/ fin.obj = o

SqInv ==
    /\ SqTypeOK /\ SqFramesInv /\ SqDestroyInv /\ SqFinalizeInv
    /\ PointersInv /\ SqMemoryInv /\ OnlyTemporariesDangle /\ HookedReclaimed
=============================================================================
