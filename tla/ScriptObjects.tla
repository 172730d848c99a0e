---------------------------- MODULE ScriptObjects ----------------------------
(***************************************************************************)
(* The life of one scripted C++ object, as every class-binding backend of  *)
(* MultiScript shares it.  An object o stands for three pieces of memory   *)
(* that point at each other:                                               *)
(*   wrapper - the ScriptObject (ScriptInterface.h:122), heap allocated by *)
(*             the backend; it holds m_objectPtr and m_lockedByScript;     *)
(*   host    - the user's own C++ object, deleted by the user's destructor *)
(*             or by the application; a "scriptable" one embeds a          *)
(*             ScriptObjectPtr back to the wrapper;                        *)
(*   handle  - what the script holds: a Lua userdata, a GameMonkey user    *)
(*             object, a Squirrel instance; it points at the wrapper and   *)
(*             is finalised by the engine's collector.                     *)
(* This module has the state, the user's classes and the C++ side; the     *)
(* modules LuaObjects, GMObjects and SquirrelObjects add the callbacks the *)
(* engines run.  Callbacks take several steps, so that a finaliser can run *)
(* inside another callback wherever the engine may collect.                *)
(***************************************************************************)
EXTENDS Naturals

CONSTANTS
    Obj,              \* identities; each is used for at most one object
    NoObj,            \* no object
    GarbageCollected, \* objects whose ClassDesc has m_garbageCollect
    Scriptable        \* objects whose class derives from BaseScriptableClass

ASSUME ObjAssumption ==
    /\ NoObj \notin Obj
    /\ GarbageCollected \subseteq Obj
    /\ Scriptable \subseteq Obj

VARIABLES
    wrapper,    \* wrapper[o]: "none", "live" or "freed"
    objectPtr,  \* objectPtr[o]: the wrapper's m_objectPtr is not NULL
    locked,     \* locked[o]: the wrapper's m_lockedByScript
    host,       \* host[o]: "none", "live" or "freed"
    backPtr,    \* backPtr[o]: the host's m_scriptObject is not NULL
    handle,     \* handle[o]: "none", "reachable", "garbage" or "collected"
    call,       \* the callback the script is in
    fin,        \* the finaliser that is running, possibly inside that callback
    context,    \* "open", "closing" (in delete context) or "closed"
    fault       \* what ended the run, or "none"

vars == <<wrapper, objectPtr, locked, host, backPtr, handle, call, fin, context, fault>>

Memory == {"none", "live", "freed"}

Idle == [at |-> "idle", obj |-> NoObj]
Frame(at, o) == [at |-> at, obj |-> o]
CallAt == {"idle", "construct", "push", "destroy", "destroyed", "popped"}
FinAt == {"idle", "destructor", "delete"}

(***************************************************************************)
(* MultiScriptAssert prints and then loops for ever: a "hang".  The other  *)
(* faults are undefined behaviour of the C++ program; the model stops at   *)
(* the first one.                                                          *)
(***************************************************************************)
Faults == {"none", "hang", "nullDeref", "useAfterFree", "doubleFree", "wrongClass"}
Fail(f) ==
    /\ fault' = f
    /\ UNCHANGED <<wrapper, objectPtr, locked, host, backPtr, handle, call, fin, context>>

\* The script runs, outside any callback; C++ code called by it is in a callback.
InScript == fault = "none" /\ call = Idle /\ fin = Idle /\ context = "open"
\* No callback is running: the C++ program itself may act, also after delete context.
InHost == fault = "none" /\ call = Idle /\ fin = Idle /\ context # "closing"

Init ==
    /\ wrapper = [o \in Obj |-> "none"]
    /\ objectPtr = [o \in Obj |-> FALSE]
    /\ locked = [o \in Obj |-> FALSE]
    /\ host = [o \in Obj |-> "none"]
    /\ backPtr = [o \in Obj |-> FALSE]
    /\ handle = [o \in Obj |-> "none"]
    /\ call = Idle
    /\ fin = Idle
    /\ context = "open"
    /\ fault = "none"

-----------------------------------------------------------------------------
(* The wrapper and the user's class *)

\* new LuaScriptObject() and its GameMonkey and Squirrel counterparts.
NewScriptObject(o, hasPtr) ==
    /\ wrapper' = [wrapper EXCEPT ![o] = "live"]
    /\ objectPtr' = [objectPtr EXCEPT ![o] = hasPtr]
    /\ locked' = [locked EXCEPT ![o] = FALSE]

\* Generic_Constructor of the sample classes: new host, SetScriptObject when
\* the class is scriptable; scriptObject->m_objectPtr is set by the caller.
NewHost(o) ==
    /\ host' = [host EXCEPT ![o] = "live"]
    /\ backPtr' = [backPtr EXCEPT ![o] = o \in Scriptable]

\* ScriptObject::Release(), called by ~ScriptObjectPtr.
Release(o) ==
    \/ /\ wrapper[o] # "live"
       /\ fault' = "useAfterFree"
       /\ UNCHANGED wrapper
    \/ /\ wrapper[o] = "live" /\ ~locked[o]
       /\ wrapper' = [wrapper EXCEPT ![o] = "freed"]
       /\ UNCHANGED fault
    \/ /\ wrapper[o] = "live" /\ locked[o]
       /\ UNCHANGED <<wrapper, fault>>

\* delete of the host: ~BaseScriptableClass destroys m_scriptObject.
DeleteHost(o) ==
    \/ /\ host[o] # "live"
       /\ fault' = "doubleFree"
       /\ UNCHANGED <<wrapper, host, backPtr>>
    \/ /\ host[o] = "live"
       /\ host' = [host EXCEPT ![o] = "freed"]
       /\ backPtr' = [backPtr EXCEPT ![o] = FALSE]
       /\ IF backPtr[o] THEN Release(o) ELSE UNCHANGED <<wrapper, fault>>

\* Generic_Destructor of the sample classes.
Generic_Destructor(o) ==
    IF objectPtr[o] THEN DeleteHost(o) ELSE UNCHANGED <<wrapper, host, backPtr, fault>>

-----------------------------------------------------------------------------
(* What every backend's callbacks have in common *)

\* Mutant: Destroy() does not lock the wrapper.
BeginDestroyUnlocked(o) ==
    /\ call' = Frame("destroy", o)
    /\ UNCHANGED <<wrapper, objectPtr, locked, host, backPtr, handle, fin, context, fault>>

\* The Destroy() method: lock the wrapper, ...
BeginDestroy(o) ==
    /\ locked' = [locked EXCEPT ![o] = TRUE]
    /\ call' = Frame("destroy", o)
    /\ UNCHANGED <<wrapper, objectPtr, host, backPtr, handle, fin, context, fault>>

\* ... run the class's destructor, ...
RunDestructor ==
    /\ fault = "none" /\ fin = Idle /\ call.at = "destroy"
    /\ Generic_Destructor(call.obj)
    /\ call' = Frame("destroyed", call.obj)
    /\ UNCHANGED <<objectPtr, locked, handle, fin, context>>

\* Mutant: m_lockedByScript is not reset.
EndDestroyLocked ==
    /\ fault = "none" /\ fin = Idle /\ call.at = "destroyed"
    /\ objectPtr' = [objectPtr EXCEPT ![call.obj] = FALSE]
    /\ call' = Idle
    /\ UNCHANGED <<wrapper, locked, host, backPtr, handle, fin, context, fault>>

\* Mutant: m_objectPtr is not set to NULL.
EndDestroyDangling ==
    /\ fault = "none" /\ fin = Idle /\ call.at = "destroyed"
    /\ locked' = [locked EXCEPT ![call.obj] = FALSE]
    /\ call' = Idle
    /\ UNCHANGED <<wrapper, objectPtr, host, backPtr, handle, fin, context, fault>>

\* ... unlock it and forget the object.
EndDestroy ==
    /\ fault = "none" /\ fin = Idle /\ call.at = "destroyed"
    /\ \/ /\ wrapper[call.obj] # "live"
          /\ fault' = "useAfterFree"
          /\ UNCHANGED <<locked, objectPtr, call>>
       \/ /\ wrapper[call.obj] = "live"
          /\ locked' = [locked EXCEPT ![call.obj] = FALSE]
          /\ objectPtr' = [objectPtr EXCEPT ![call.obj] = FALSE]
          /\ call' = Idle
          /\ UNCHANGED fault
    /\ UNCHANGED <<wrapper, host, backPtr, handle, fin, context>>

\* Mutant: the finaliser deletes the wrapper and never runs the destructor.
FinalizeBodyWrapperOnly(o) ==
    /\ handle' = [handle EXCEPT ![o] = "collected"]
    /\ wrapper' = [wrapper EXCEPT ![o] = "freed"]
    /\ UNCHANGED <<objectPtr, locked, host, backPtr, fin, context, fault>>

\* Mutant: the finaliser ignores m_garbageCollect.
FinalizeBodyAnyClass(o) ==
    /\ handle' = [handle EXCEPT ![o] = "collected"]
    /\ \/ /\ objectPtr[o]
          /\ locked' = [locked EXCEPT ![o] = TRUE]
          /\ fin' = Frame("destructor", o)
          /\ UNCHANGED wrapper
       \/ /\ ~objectPtr[o]
          /\ wrapper' = [wrapper EXCEPT ![o] = "freed"]
          /\ UNCHANGED <<locked, fin>>
    /\ UNCHANGED <<objectPtr, host, backPtr, context, fault>>

\* What a finaliser does to the wrapper: one without an object is deleted, one
\* with an object is locked while the destructor runs (garbage collected
\* classes) or deleted at once (the others).
FinalizeWrapper(o) ==
    /\ \/ /\ wrapper[o] # "live"
          /\ fault' = "useAfterFree"
          /\ UNCHANGED <<wrapper, locked, fin>>
       \/ /\ wrapper[o] = "live" /\ objectPtr[o] /\ o \in GarbageCollected
          /\ locked' = [locked EXCEPT ![o] = TRUE]
          /\ fin' = Frame("destructor", o)
          /\ UNCHANGED <<wrapper, fault>>
       \/ /\ wrapper[o] = "live" /\ ~(objectPtr[o] /\ o \in GarbageCollected)
          /\ wrapper' = [wrapper EXCEPT ![o] = "freed"]
          /\ UNCHANGED <<locked, fin, fault>>
    /\ UNCHANGED <<objectPtr, host, backPtr, context>>

\* The finaliser of a handle that points at its own wrapper.
FinalizeBody(o) ==
    /\ handle' = [handle EXCEPT ![o] = "collected"]
    /\ FinalizeWrapper(o)

FinalizeDestructor ==
    /\ fault = "none" /\ fin.at = "destructor"
    /\ Generic_Destructor(fin.obj)
    /\ fin' = Frame("delete", fin.obj)
    /\ UNCHANGED <<objectPtr, locked, handle, call, context>>

FinalizeDelete ==
    /\ fault = "none" /\ fin.at = "delete"
    /\ \/ /\ wrapper[fin.obj] # "live"
          /\ fault' = "doubleFree"
          /\ UNCHANGED <<wrapper, fin>>
       \/ /\ wrapper[fin.obj] = "live"
          /\ wrapper' = [wrapper EXCEPT ![fin.obj] = "freed"]
          /\ fin' = Idle
          /\ UNCHANGED fault
    /\ UNCHANGED <<objectPtr, locked, host, backPtr, handle, call, context>>

\* A handle is due for finalisation when the script lost it, or when the
\* context is being deleted.
Collectable(o) ==
    \/ handle[o] = "garbage"
    \/ context = "closing" /\ handle[o] = "reachable"

-----------------------------------------------------------------------------
(* The script and the C++ program *)

\* The script drops its last reference (external: the script).
Drop(o) ==
    /\ InScript
    /\ handle[o] = "reachable"
    /\ handle' = [handle EXCEPT ![o] = "garbage"]
    /\ UNCHANGED <<wrapper, objectPtr, locked, host, backPtr, call, fin, context, fault>>

\* The application deletes an object it shares with the script, as the comment
\* on ScriptObject::Release() provides for.  No backend's Next has this step:
\* see HostSpec there.
HostDelete(o) ==
    /\ InHost
    /\ host[o] = "live" /\ o \in Scriptable
    /\ DeleteHost(o)
    /\ UNCHANGED <<objectPtr, locked, handle, call, fin, context>>

\* delete context.
CloseContext ==
    /\ InScript
    /\ context' = "closing"
    /\ UNCHANGED <<wrapper, objectPtr, locked, host, backPtr, handle, call, fin, fault>>

ContextClosed ==
    /\ fault = "none" /\ fin = Idle /\ context = "closing"
    /\ \A o \in Obj : handle[o] \in {"none", "collected"}
    /\ context' = "closed"
    /\ UNCHANGED <<wrapper, objectPtr, locked, host, backPtr, handle, call, fin, fault>>

-----------------------------------------------------------------------------
(* Properties *)

\* The user's object as ObjectLifetime sees it: an orphan is one that its
\* script can no longer reach and that is not garbage collected.
LifeOf ==
    [o \in Obj |->
        CASE host[o] = "none" -> "unborn"
          [] host[o] = "freed" -> "dead"
          [] OTHER -> IF handle[o] = "collected" /\ o \notin GarbageCollected
                      THEN "orphan" ELSE "alive"]

\* Type correctness of the shared state.
TypeOK ==
    /\ wrapper \in [Obj -> Memory]
    /\ objectPtr \in [Obj -> BOOLEAN]
    /\ locked \in [Obj -> BOOLEAN]
    /\ host \in [Obj -> Memory]
    /\ backPtr \in [Obj -> BOOLEAN]
    /\ handle \in [Obj -> {"none", "reachable", "garbage", "collected"}]
    /\ call \in [at : CallAt, obj : Obj \cup {NoObj}]
    /\ fin \in [at : FinAt, obj : Obj \cup {NoObj}]
    /\ context \in {"open", "closing", "closed"}
    /\ fault \in Faults

\* The script never holds a handle to a deleted wrapper: every method, Destroy
\* and finaliser callback dereferences it without a test.
HandleBacked ==
    \A o \in Obj : handle[o] \in {"reachable", "garbage"} => wrapper[o] = "live"

\* No freed wrapper or host is used or deleted again: m_lockedByScript keeps
\* the Release() that the user's destructor causes from deleting the wrapper
\* the callback is about to use or delete itself.
NoMemoryFault == fault \notin {"useAfterFree", "doubleFree"}

\* While the script can reach an object whose m_objectPtr is set, the host it
\* points at exists, except inside the Destroy() that is deleting it.
HostBacked ==
    \A o \in Obj :
        (wrapper[o] = "live" /\ objectPtr[o] /\ call.obj # o /\ fin.obj # o)
            => host[o] = "live"

\* m_lockedByScript is set only inside the callback that set it: a wrapper
\* never stays locked, which would turn later Release() calls into leaks.
LockScoped ==
    \A o \in Obj :
        (wrapper[o] = "live" /\ locked[o])
            => \/ call.obj = o /\ call.at \in {"destroy", "destroyed"}
               \/ fin.obj = o

\* Finalising a handle reclaims what hangs on it: the wrapper is deleted, and
\* "if [garbage collected], the destructor is called when garbage collector
\* destroys it" (ScriptInterface.h:72).
Reclaimed ==
    \A o \in Obj :
        (handle[o] = "collected" /\ fin.obj # o)
            => /\ wrapper[o] = "freed"
               /\ o \in GarbageCollected => host[o] = "freed"

\* "otherwise the only way to destroy object from the script is to call
\* special method Destroy() on it" (ScriptInterface.h:72).
OnlyDestroyDestroys ==
    [][\A o \in Obj \ GarbageCollected :
          (host[o] = "live" /\ host'[o] # "live") => call = Frame("destroy", o)]_vars

-----------------------------------------------------------------------------
(* The interface's promise *)

Lifetime == INSTANCE ObjectLifetime WITH life <- LifeOf

\* The destructor of the user's class runs when, and only when,
\* ScriptInterface.h:72-76 says so.
ImplementsLifetime == Lifetime!LifeSpec

(***************************************************************************)
(* The invariant behind them, which every step of every backend preserves. *)
(***************************************************************************)

\* The frames: only an idle one has no object, and a finaliser never runs
\* inside a Destroy(), nor on the object of the callback it interrupts.
FramesInv ==
    /\ call.at = "idle" <=> call.obj = NoObj
    /\ fin.at = "idle" <=> fin.obj = NoObj
    /\ fin.at # "idle" => call.at \notin {"destroy", "destroyed"} /\ call.obj # fin.obj

\* Destroy() keeps its wrapper locked, and so alive, until it is done with it;
\* m_objectPtr dangles from the user's destructor to the end of the callback.
DestroyInv ==
    \A o \in Obj :
        (call.obj = o /\ call.at \in {"destroy", "destroyed"})
            => /\ wrapper[o] = "live" /\ locked[o] /\ handle[o] = "reachable"
               /\ o \notin GarbageCollected
               /\ call.at = "destroyed" => host[o] = "freed"

\* A finaliser keeps its wrapper locked until it deletes it.
FinalizeInv ==
    \A o \in Obj :
        fin.obj = o
            => /\ wrapper[o] = "live" /\ locked[o] /\ handle[o] = "collected"
               /\ objectPtr[o] /\ o \in GarbageCollected
               /\ fin.at = "delete" => host[o] = "freed"

\* Where the three pieces of an object stand to each other between callbacks.
MemoryInv ==
    \A o \in Obj :
        /\ wrapper[o] = "none" =>
              host[o] = "none" /\ handle[o] = "none" /\ call.obj # o /\ fin.obj # o
        /\ handle[o] \in {"reachable", "garbage"} => wrapper[o] = "live"
        /\ backPtr[o] => host[o] = "live"
        /\ (wrapper[o] = "live" /\ objectPtr[o]) =>
              \/ host[o] = "live"
              \/ call.obj = o /\ call.at = "destroyed"
              \/ fin.obj = o /\ fin.at = "delete"
        /\ (wrapper[o] = "live" /\ ~objectPtr[o]) =>
              \/ host[o] = "freed"
              \/ call.obj = o /\ call.at = "construct"
        /\ (wrapper[o] = "live" /\ locked[o]) =>
              \/ call.obj = o /\ call.at \in {"destroy", "destroyed"}
              \/ fin.obj = o

ObjInv ==
    TypeOK /\ FramesInv /\ DestroyInv /\ FinalizeInv /\ MemoryInv /\ NoMemoryFault

\* The host of a garbage collected class is eventually destroyed, unless the
\* program stops first.
EventuallyDestroyed ==
    \A o \in GarbageCollected :
        (host[o] = "live") ~> (host[o] = "freed" \/ fault # "none")
=============================================================================
