----------------------------- MODULE GMCollector -----------------------------
(***************************************************************************)
(* The incremental garbage collector of the GameMonkey machine             *)
(* (gm/src/gm/gmIncGC.cpp) together with the mutator that runs between its *)
(* increments: table assignments, allocation, the unique string pool and   *)
(* the stacks of the script threads.  GMScriptContext::CollectGarbage      *)
(* drives it, and every pass of gmMachine::Execute.                        *)
(*                                                                         *)
(* The collector keeps each object on one of the segments of a single      *)
(* linked list (gray, black, free, white) or on the list of persistent     *)
(* objects; where[o] is that segment, "none" an object that does not       *)
(* exist.  The order inside a segment decides only which gray object is    *)
(* traced next and is left out.  An object is shaded when its color bit    *)
(* equals the collector's current one; the bit and the segment are two     *)
(* records of the same thing, kept by different code, and both are         *)
(* modelled.  refs[o] is the set of objects o holds in its cells, roots    *)
(* the objects on thread stacks, in globals or owned by C++.               *)
(*                                                                         *)
(* A collection starts with a flip: what is white becomes free, what is    *)
(* black becomes white, and the meaning of the color bit is inverted.      *)
(* Then the roots are grayed in one step, gray objects are traced one by   *)
(* one between steps of the mutator, a write barrier grays the old         *)
(* contents of an overwritten cell, and new objects are black.             *)
(*                                                                         *)
(* FullCollect returns after a flip, with the scan of the roots still to   *)
(* come, and the scripts that run before it create black objects: a table  *)
(* among them is never traced in this collection, whatever it refers to.   *)
(* The history variable exposed remembers that a scan left such an object. *)
(***************************************************************************)
EXTENDS Naturals

CONSTANTS
    Objects,   \* the objects that may exist at one time
    Strings    \* the ones that are strings: unique, without references

ASSUME StringsAreObjects == Strings \subseteq Objects

VARIABLES
    where,     \* the list segment an object is on
    color,     \* the color bit of an object
    shade,     \* m_curShadeColor
    refs,      \* the objects an object refers to
    roots,     \* the objects the scan of the roots would find
    off,       \* m_gcTurnedOff
    first,     \* m_firstCollectionIncrement
    full,      \* how far FullCollect has come: 0 when it is not running
    exposed    \* a scan of the roots has left a black object that refers to a white one

vars == <<where, color, shade, refs, roots, off, first, full, exposed>>

Segments == {"none", "gray", "black", "free", "white", "persistent"}

In(segment) == {o \in Objects : where[o] = segment}

Exists(o) == where[o] \notin {"none", "free"}

IsShaded(o) == color[o] = shade

\* What an access of the mutator can reach, by any chain of references.
Reachable ==
    {o \in Objects :
        \A C \in SUBSET Objects :
            (roots \subseteq C /\ \A p \in C : refs[p] \subseteq C) => o \in C}

\* No object that a script or C++ can still reach is on the free list or
\* destroyed.  Once one is, the next access to it is undefined behaviour, and
\* the model stops.
Intact == \A o \in Reachable : Exists(o)

TypeOK ==
    /\ where \in [Objects -> Segments]
    /\ color \in [Objects -> {0, 1}]
    /\ shade \in {0, 1}
    /\ refs \in [Objects -> SUBSET Objects]
    /\ roots \in SUBSET Objects
    /\ off \in BOOLEAN
    /\ first \in BOOLEAN
    /\ full \in 0 .. 3
    /\ exposed \in BOOLEAN

Init ==
    /\ where = [o \in Objects |-> "none"]
    /\ color = [o \in Objects |-> 0]
    /\ shade = 0
    /\ refs = [o \in Objects |-> {}]
    /\ roots = {}
    /\ off = TRUE
    /\ first = TRUE
    /\ full = 0
    /\ exposed = FALSE

------------------------------------------------------------------------------
(***************************************************************************)
(* Moves between the segments.                                             *)
(***************************************************************************)

\* Mutant: graying does not look at the color first.
UnshadedAny(S) == {o \in S : where[o] # "persistent"}

\* The objects of S that GrayAWhite and WriteBarrier hand to GrayThisObject.
Unshaded(S) == {o \in S : where[o] # "persistent" /\ ~IsShaded(o)}

\* GrayThisObject, for every object of S that needs it.
Gray(S) ==
    /\ where' = [o \in Objects |-> IF o \in Unshaded(S) THEN "gray" ELSE where[o]]
    /\ color' = [o \in Objects |-> IF o \in Unshaded(S) THEN shade ELSE color[o]]

\* Mutant: an assignment forgets the barrier.
WriteBarrierNone(gone) == UNCHANGED <<where, color>>

WriteBarrier(gone) == Gray(IF off THEN {} ELSE gone)

\* Mutant: the object is moved and its color left as it is.
BlackenedStale(o) ==
    /\ where' = [where EXCEPT ![o] = "black"]
    /\ UNCHANGED color

\* Put o at the end of the black objects, as Allocate and Revive do.
Blackened(o) ==
    /\ where' = [where EXCEPT ![o] = "black"]
    /\ color' = [color EXCEPT ![o] = shade]

\* ReclaimGarbage: the white objects become free and the black ones white.
Reclaimed ==
    [o \in Objects |-> CASE where[o] = "white" -> "free"
                         [] where[o] = "black" -> "white"
                         [] OTHER -> where[o]]

------------------------------------------------------------------------------
(***************************************************************************)
(* The mutator: script threads and C++ code between two increments.  It    *)
(* reads and writes only objects it holds.                                 *)
(***************************************************************************)
MutatorRuns == full = 0 /\ Intact

\* AllocTableObject and its siblings, and AllocStringObject of a new string.
Allocate(o) ==
    /\ MutatorRuns
    /\ where[o] = "none"
    /\ Blackened(o)
    /\ roots' = roots \cup {o}
    /\ UNCHANGED <<refs, shade, off, first, full, exposed>>

\* AllocStringObject of a string the pool still holds, garbage or not.
Revive(s) ==
    /\ MutatorRuns
    /\ where[s] # "none"
    /\ IF where[s] = "persistent" THEN UNCHANGED <<where, color>> ELSE Blackened(s)
    /\ roots' = roots \cup {s}
    /\ UNCHANGED <<refs, shade, off, first, full, exposed>>

\* AllocPermanantStringObject: allocate or revive, then move to the list of
\* persistent objects, which no collection looks at.
AllocPermanant(s) ==
    /\ MutatorRuns
    /\ where' = [where EXCEPT ![s] = "persistent"]
    /\ color' = [color EXCEPT ![s] = IF where[s] = "persistent" THEN @ ELSE shade]
    /\ roots' = roots \cup {s}
    /\ UNCHANGED <<refs, shade, off, first, full, exposed>>

\* What one cell of a table holds: a key and a value, or nothing.
Cells(S) == {{}} \cup {{k, v} : k, v \in S}

\* gmTableObject::Set inserts a cell, overwrites a value or removes a cell.
Set(t, gone, added) ==
    /\ MutatorRuns
    /\ WriteBarrier(gone)
    /\ refs' = [refs EXCEPT ![t] = (@ \ gone) \cup added]
    /\ UNCHANGED <<roots, shade, off, first, full, exposed>>

\* A reference is pushed on a stack, which has no barrier.
Load(v) ==
    /\ MutatorRuns
    /\ roots' = roots \cup {v}
    /\ UNCHANGED <<where, color, refs, shade, off, first, full, exposed>>

\* The last reference from a stack, a global or C++ goes, without a barrier.
Drop(v) ==
    /\ MutatorRuns
    /\ roots' = roots \ {v}
    /\ UNCHANGED <<where, color, refs, shade, off, first, full, exposed>>

MutatorStep ==
    \/ \E o \in Objects : Allocate(o)
    \/ \E s \in Strings : Revive(s) \/ AllocPermanant(s)
    \/ \E t \in roots \ Strings :
        \/ \E gone \in Cells(refs[t]), added \in Cells(roots) : Set(t, gone, added)
        \/ \E v \in refs[t] : Load(v)
    \/ \E v \in roots : Drop(v)

------------------------------------------------------------------------------
(***************************************************************************)
(* The collector.  An increment of Collect() does up to m_workPerIncrement *)
(* of these steps; the mutator may run between any two, except during      *)
(* FullCollect, which loops until it is done.                              *)
(***************************************************************************)

\* Flip() without the restart of the root scan.
Flip ==
    /\ where' = Reclaimed
    /\ shade' = 1 - shade
    /\ off' = FALSE
    /\ UNCHANGED color

\* gmMachine::CollectGarbage over the soft limit with the collector off: the
\* flip and, in the same call, the first increment, which grays the roots.
Restart ==
    /\ Intact
    /\ off
    /\ full = 0
    /\ shade' = 1 - shade
    /\ off' = FALSE
    /\ first' = FALSE
    /\ where' = [o \in Objects |->
                    IF o \in roots /\ Reclaimed[o] # "persistent" /\ color[o] # shade'
                    THEN "gray" ELSE Reclaimed[o]]
    /\ color' = [o \in Objects |->
                    IF o \in roots /\ Reclaimed[o] # "persistent"
                    THEN shade' ELSE color[o]]
    /\ UNCHANGED <<refs, roots, full, exposed>>

\* The first increment of a collection: ScanRootsCallBack.  An object that is
\* black by now was created after the flip and will not be traced.
ScanRoots ==
    /\ ~off
    /\ first
    /\ full < 3
    /\ Gray(roots)
    /\ first' = FALSE
    /\ exposed' = (exposed \/ \E p \in In("black") : \E o \in refs[p] : where'[o] = "white")
    /\ UNCHANGED <<refs, roots, shade, off, full>>

Tracing == ~off /\ ~first

\* BlackenNextGray: the object becomes black and Trace() grays what it holds.
Trace(o) ==
    /\ Tracing
    /\ where[o] = "gray"
    /\ where' = [p \in Objects |-> IF p = o THEN "black"
                                   ELSE IF p \in Unshaded(refs[o]) THEN "gray"
                                   ELSE where[p]]
    /\ color' = [p \in Objects |-> IF p \in Unshaded(refs[o]) THEN shade ELSE color[p]]
    /\ UNCHANGED <<refs, roots, shade, off, first, full, exposed>>

\* DestructSomeFreeObjects, one object of the free list.
Destruct(o) ==
    /\ full = 3 \/ (Tracing /\ In("gray") = {})
    /\ where[o] = "free"
    /\ where' = [where EXCEPT ![o] = "none"]
    /\ refs' = [refs EXCEPT ![o] = {}]
    /\ UNCHANGED <<color, roots, shade, off, first, full, exposed>>

CycleDone == Tracing /\ In("gray") = {} /\ In("free") = {}

\* Collect() finds nothing left to do and turns the collector off.
TurnOff ==
    /\ full = 0
    /\ CycleDone
    /\ off' = TRUE
    /\ UNCHANGED <<where, color, refs, roots, shade, first, full, exposed>>

\* FullCollect starts.
BeginFullCollect ==
    /\ Intact
    /\ full = 0
    /\ full' = 1
    /\ IF off THEN Flip /\ first' = TRUE
              ELSE UNCHANGED <<where, color, shade, off, first>>
    /\ UNCHANGED <<refs, roots, exposed>>

\* Mutant: one collection is enough.
NextCollectionOnce ==
    /\ full \in {1, 2}
    /\ CycleDone
    /\ Flip
    /\ first' = TRUE
    /\ full' = 3
    /\ UNCHANGED <<refs, roots, exposed>>

\* In FullCollect Collect() has returned true: flip and go on.
NextCollection ==
    /\ full \in {1, 2}
    /\ CycleDone
    /\ Flip
    /\ first' = TRUE
    /\ full' = full + 1
    /\ UNCHANGED <<refs, roots, exposed>>

\* FullCollect returns, with the collector on and the next scan still to do.
EndFullCollect ==
    /\ full = 3
    /\ In("free") = {}
    /\ full' = 0
    /\ UNCHANGED <<where, color, refs, roots, shade, off, first, exposed>>

CollectorStep ==
    /\ Intact
    /\ \/ ScanRoots
       \/ \E o \in Objects : Trace(o) \/ Destruct(o)
       \/ TurnOff
       \/ NextCollection
       \/ EndFullCollect

Next == MutatorStep \/ CollectorStep \/ Restart \/ BeginFullCollect

\* The host calls Execute again and again, and every call ends with an
\* increment of a collection that is under way; a full collection runs on its
\* own.  Nothing makes the machine start a collection: that depends on memory.
Spec == Init /\ [][Next]_vars /\ WF_vars(CollectorStep)

------------------------------------------------------------------------------
(***************************************************************************)
(* Properties.                                                             *)
(***************************************************************************)

\* Nothing a script or C++ can still reach is reclaimed, at whatever point of a
\* collection the references were moved around, until a scan of the roots
\* finds a table that was created since the flip and filled with references to
\* objects nothing else leads to: the debug check of ReclaimGarbage looks at
\* the new garbage "to make sure there aren't any live objects in there".
ReachableKept == ~exposed => Intact

\* The color bit and the list an object is on agree, so that IsShaded, which
\* sees only the bit, and the sweep, which sees only the list, decide alike
\* (gmGCColorSet::VerifyIntegrity).  Free objects are exempt: "we can't trust
\* the color mark" there (Revive).
ColorsAgree ==
    \A o \in Objects :
        /\ where[o] = "white" => ~IsShaded(o)
        /\ where[o] \in {"gray", "black"} => IsShaded(o)

\* When FullCollect returns, everything that could not be reached when it ran
\* is gone, whatever a collection under way had already colored: it collects
\* "a second time to catch floating black objects".
FullCollectReclaims ==
    [][(full = 3 /\ full' = 0) =>
          \A o \in Objects \ Reachable : where'[o] \in {"none", "persistent"}]_vars

\* A collection that has scanned the roots ends, however busily the scripts
\* assign to tables and allocate meanwhile, unless an object in use is lost.
CycleEnds == Tracing ~> (off \/ first \/ ~Intact)

==============================================================================
