---------------------------- MODULE ObjectLifetime ----------------------------
(***************************************************************************)
(* What ScriptInterface.h promises about the user's object behind a script *)
(* object, whatever the language: when the class's destructor runs.  The   *)
(* comments on ClassDesc::m_garbageCollect and m_destructor                *)
(* (ScriptInterface.h:72-76) allow exactly these changes.                  *)
(***************************************************************************)
CONSTANTS Obj, GarbageCollected

VARIABLE life  \* life[o]: "unborn", "alive", "orphan" or "dead"

Life == {"unborn", "alive", "orphan", "dead"}

LifeInit == life = [o \in Obj |-> "unborn"]

\* The constructor, or PushNewScriptObject.
Create(o) ==
    /\ life[o] = "unborn"
    /\ life' = [life EXCEPT ![o] = "alive"]

\* Destroy(), which only the classes that are not garbage collected have.
Destroy(o) ==
    /\ o \notin GarbageCollected
    /\ life[o] = "alive"
    /\ life' = [life EXCEPT ![o] = "dead"]

\* The script's object is garbage: a garbage collected class is destructed,
\* an object of another class is left to C++.
Collect(o) ==
    /\ life[o] = "alive"
    /\ life' = [life EXCEPT ![o] = IF o \in GarbageCollected THEN "dead" ELSE "orphan"]

LifeNext == \E o \in Obj : Create(o) \/ Destroy(o) \/ Collect(o)

LifeSpec == LifeInit /\ [][LifeNext]_life
=============================================================================
