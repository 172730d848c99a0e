-------------------------- MODULE GMCollector_proofs --------------------------
(***************************************************************************)
(* Proofs about the GameMonkey collector, for any set of objects and at    *)
(* any point of a collection: colors and lists agree, a full collection    *)
(* leaves nothing unreachable, and nothing reachable is reclaimed until a  *)
(* scan of the roots finds an object that was created since the flip and   *)
(* refers to an object nothing else leads to.                              *)
(***************************************************************************)
EXTENDS GMCollector, TLAPS

\* The control state of the collector: it is off only between collections,
\* with no work left; the last stage of a full collection precedes the scan.
PhasesAgree ==
    /\ off => full = 0 /\ In("gray") = {}
    /\ full = 3 => ~off /\ first

\* Strings and objects that do not exist hold no references, and only strings
\* are persistent.
LeavesAgree ==
    /\ \A s \in Strings : refs[s] = {}
    /\ \A o \in Objects : where[o] = "none" => refs[o] = {}
    /\ In("persistent") \subseteq Strings

\* Neither a root nor an object that exists refers to a free or a destroyed
\* object.
NoDangling ==
    /\ \A o \in roots : Exists(o)
    /\ \A p \in Objects : Exists(p) => \A o \in refs[p] : Exists(o)

\* C holds the gray objects and everything white that is found by tracing
\* from C.
Covers(C) ==
    /\ In("gray") \subseteq C
    /\ \A p \in C : where[p] # "black" =>
          \A o \in refs[p] : where[o] = "white" => o \in C

\* A white object that a root or a black object refers to will still be
\* found by tracing.
Protected ==
    \A C \in SUBSET Objects : Covers(C) =>
        /\ \A o \in roots : where[o] = "white" => o \in C
        /\ \A p \in In("black") : \A o \in refs[p] : where[o] = "white" => o \in C

\* Except between a flip and the scan of the roots, the white objects in use
\* are protected.
TracingSafe == (~off /\ first) \/ Protected

\* What the collector keeps up in any case ...
BaseInv ==
    /\ TypeOK
    /\ ColorsAgree
    /\ PhasesAgree
    /\ LeavesAgree

\* ... and until a scan exposes an object.
CleanInv == BaseInv /\ NoDangling /\ TracingSafe

CollectorInv == BaseInv /\ (~exposed => NoDangling /\ TracingSafe)

\* In its second collection FullCollect colors only what is reachable, and
\* after it keeps nothing else.
FullInv ==
    /\ full = 2 => In("gray") \cup In("black") \subseteq Reachable
    /\ (full = 2 /\ first) => In("gray") \cup In("black") = {}
    /\ full = 3 => In("gray") \cup In("black") \cup In("white") \subseteq Reachable

------------------------------------------------------------------------------
(***************************************************************************)
(* Every step keeps up what does not depend on reachability.               *)
(***************************************************************************)

\* Roots are reachable, and so is what a reachable object refers to.
LEMMA ReachableClosed ==
    ASSUME TypeOK
    PROVE  /\ roots \subseteq Reachable
           /\ \A p \in Reachable : refs[p] \subseteq Reachable
<1>1. roots \subseteq Reachable
    BY DEF TypeOK, Reachable
<1>2. ASSUME NEW p \in Reachable, NEW o \in refs[p] PROVE o \in Reachable
    BY DEF TypeOK, Reachable
<1> QED
    BY <1>1, <1>2

\* As long as the model runs, the roots exist.
LEMMA RootsExist ==
    ASSUME TypeOK, Intact
    PROVE  \A o \in roots : Exists(o)
    BY ReachableClosed DEF Intact

\* The mutator's allocations.
LEMMA AllocateBase ==
    ASSUME BaseInv, NEW o \in Objects,
           Allocate(o) \/ (o \in Strings /\ (Revive(o) \/ AllocPermanant(o)))
    PROVE  BaseInv'
<1> USE DEF BaseInv, TypeOK, Segments, In
<1>1. /\ roots' = roots \cup {o}
      /\ UNCHANGED <<refs, shade, off, first, full, exposed>>
      /\ refs[o] = {}
    BY DEF Allocate, Revive, AllocPermanant, LeavesAgree
<1>2. PICK w \in {"black", "persistent"}, c \in {0, 1} :
        /\ where' = [where EXCEPT ![o] = w] /\ color' = [color EXCEPT ![o] = c]
        /\ w = "black" => c = shade
        /\ w = "persistent" => o \in Strings
  <2>1. CASE Allocate(o)
    BY <2>1 DEF Allocate, Blackened
  <2>2. CASE o \in Strings /\ Revive(o)
    <3>1. CASE where[o] = "persistent"
      <4>1. where' = [where EXCEPT ![o] = "persistent"] /\ color' = [color EXCEPT ![o] = color[o]]
        BY <2>2, <3>1 DEF Revive
      <4> QED
        BY <2>2, <4>1
    <3>2. CASE where[o] # "persistent"
        BY <2>2, <3>2 DEF Revive, Blackened
    <3> QED
        BY <3>1, <3>2
  <2>3. CASE o \in Strings /\ AllocPermanant(o)
    BY <2>3 DEF AllocPermanant
  <2> QED
    BY <2>1, <2>2, <2>3
<1>3. TypeOK'
    BY <1>1, <1>2
<1>4. ColorsAgree' /\ PhasesAgree' /\ LeavesAgree'
    BY <1>1, <1>2 DEF ColorsAgree, IsShaded, PhasesAgree, LeavesAgree
<1> QED
    BY <1>3, <1>4

\* An assignment to a table that is held.
LEMMA SetBase ==
    ASSUME BaseInv, NEW t \in roots \ Strings,
           NEW gone \in SUBSET refs[t], NEW added \in SUBSET roots, Set(t, gone, added)
    PROVE  BaseInv'
<1> USE DEF BaseInv, TypeOK, Segments, In
<1>1. /\ roots' = roots /\ shade' = shade /\ off' = off /\ first' = first /\ full' = full
      /\ exposed' = exposed /\ refs' = [refs EXCEPT ![t] = (@ \ gone) \cup added]
      /\ t \in Objects /\ where[t] # "none"
    BY RootsExist DEF Set, MutatorRuns, Exists
<1>2. \A r \in Objects :
        \/ where'[r] = where[r] /\ color'[r] = color[r]
        \/ ~off /\ where[r] # "persistent" /\ where'[r] = "gray" /\ color'[r] = shade
    BY DEF Set, WriteBarrier, Gray, Unshaded
<1>3. where' \in [Objects -> Segments] /\ color' \in [Objects -> {0, 1}]
    BY DEF Set, WriteBarrier, Gray
<1>4. TypeOK'
    BY <1>1, <1>3
<1>5. ColorsAgree' /\ PhasesAgree'
    BY <1>1, <1>2 DEF ColorsAgree, IsShaded, PhasesAgree
<1>6. LeavesAgree'
    BY <1>1, <1>2, StringsAreObjects DEF LeavesAgree
<1> QED
    BY <1>4, <1>5, <1>6

\* References pushed on stacks and popped from them.
LEMMA StackBase ==
    ASSUME BaseInv, NEW v \in Objects, Load(v) \/ Drop(v)
    PROVE  BaseInv'
<1> USE DEF BaseInv, TypeOK, Segments, In
<1>1. UNCHANGED <<where, color, refs, shade, off, first, full, exposed>> /\ roots' \in SUBSET Objects
    BY DEF Load, Drop
<1>2. TypeOK'
    BY <1>1
<1>3. ColorsAgree' /\ PhasesAgree' /\ LeavesAgree'
    BY <1>1 DEF ColorsAgree, IsShaded, PhasesAgree, LeavesAgree
<1> QED
    BY <1>2, <1>3

\* A flip, when nothing is gray.
LEMMA FlipBase ==
    ASSUME BaseInv, In("gray") = {}, Flip, first' = TRUE,
           UNCHANGED <<refs, roots, exposed>>, full' \in 1 .. 3
    PROVE  BaseInv'
<1> USE DEF BaseInv, TypeOK, Segments, In
<1>0. \A o \in Objects :
        /\ where[o] = "white" => where'[o] = "free"
        /\ where[o] = "black" => where'[o] = "white"
        /\ where[o] \notin {"white", "black"} => where'[o] = where[o]
    BY DEF Flip, Reclaimed
<1>1. TypeOK'
  <2>1. where' \in [Objects -> Segments]
    BY DEF Flip, Reclaimed
  <2>2. shade' \in {0, 1} /\ full' \in 0 .. 3
    BY DEF Flip
  <2>3. off' \in BOOLEAN /\ first' \in BOOLEAN
    BY Zenon DEF Flip
  <2> QED
    BY <2>1, <2>2, <2>3 DEF Flip
<1>2. ColorsAgree'
    BY <1>0 DEF Flip, ColorsAgree, IsShaded
<1>3. PhasesAgree' /\ LeavesAgree'
    BY <1>0, StringsAreObjects DEF Flip, PhasesAgree, LeavesAgree
<1> QED
    BY <1>1, <1>2, <1>3

\* The scan of the roots.
LEMMA ScanRootsBase ==
    ASSUME BaseInv, ScanRoots
    PROVE  BaseInv'
<1> USE DEF BaseInv, TypeOK, Segments, In
<1>0. \A o \in Objects :
        \/ where'[o] = where[o] /\ color'[o] = color[o]
        \/ where[o] # "persistent" /\ where'[o] = "gray" /\ color'[o] = shade
    BY DEF ScanRoots, Gray, Unshaded
<1>1. exposed' \in BOOLEAN
    BY Zenon DEF ScanRoots
<1>2. TypeOK'
    BY <1>1 DEF ScanRoots, Gray
<1>3. ColorsAgree' /\ PhasesAgree' /\ LeavesAgree'
    BY <1>0, StringsAreObjects DEF ScanRoots, ColorsAgree, IsShaded, PhasesAgree, LeavesAgree
<1> QED
    BY <1>2, <1>3

\* The flip and the scan that start an incremental collection.
LEMMA RestartBase ==
    ASSUME BaseInv, Restart
    PROVE  BaseInv'
<1> USE DEF BaseInv, TypeOK, Segments, In
<1>1. /\ In("gray") = {} /\ off' = FALSE /\ first' = FALSE /\ full = 0 /\ full' = 0
      /\ refs' = refs /\ roots' = roots /\ exposed' = exposed
      /\ shade' = 1 - shade /\ shade' \in {0, 1}
    BY DEF Restart, PhasesAgree
<1>2. \A o \in roots : where[o] # "none"
    BY RootsExist DEF Restart, Exists
<1>3. \A o \in Objects :
        /\ where'[o] = "white" => where[o] = "black" /\ color'[o] = color[o]
        /\ where'[o] = "gray" => color'[o] = shade'
        /\ where'[o] # "black"
        /\ where'[o] = "none" => where[o] = "none"
        /\ where'[o] = "persistent" => where[o] = "persistent"
  <2> SUFFICES ASSUME NEW o \in Objects
               PROVE  /\ where'[o] = "white" => where[o] = "black" /\ color'[o] = color[o]
                      /\ where'[o] = "gray" => color'[o] = shade'
                      /\ where'[o] # "black"
                      /\ where'[o] = "none" => where[o] = "none"
                      /\ where'[o] = "persistent" => where[o] = "persistent"
    OBVIOUS
  <2>1. /\ Reclaimed[o] \notin {"black", "gray"}
        /\ Reclaimed[o] = "white" => where[o] = "black" /\ color[o] # shade'
        /\ Reclaimed[o] = "none" => where[o] = "none"
        /\ Reclaimed[o] = "persistent" => where[o] = "persistent"
    BY <1>1 DEF Reclaimed, ColorsAgree, IsShaded
  <2> QED
    BY <2>1 DEF Restart
<1>4. TypeOK'
  <2>1. where' \in [Objects -> Segments]
    BY DEF Restart, Reclaimed
  <2>2. color' \in [Objects -> {0, 1}]
    BY <1>1 DEF Restart
  <2> QED
    BY <1>1, <2>1, <2>2
<1>5. ColorsAgree'
    BY <1>1, <1>3 DEF ColorsAgree, IsShaded
<1>6. PhasesAgree' /\ LeavesAgree'
    BY <1>1, <1>3, StringsAreObjects DEF PhasesAgree, LeavesAgree
<1> QED
    BY <1>4, <1>5, <1>6

\* Tracing one object.
LEMMA TraceBase ==
    ASSUME BaseInv, NEW g \in Objects, Trace(g)
    PROVE  BaseInv'
<1> USE DEF BaseInv, TypeOK, Segments, In
<1>1. /\ where[g] = "gray" /\ where'[g] = "black" /\ color'[g] = shade /\ ~off
      /\ UNCHANGED <<refs, roots, shade, off, first, full, exposed>>
    BY DEF Trace, Tracing, ColorsAgree, IsShaded, Unshaded
<1>2. \A o \in Objects \ {g} :
        \/ where'[o] = where[o] /\ color'[o] = color[o]
        \/ where[o] # "persistent" /\ where'[o] = "gray" /\ color'[o] = shade
    BY DEF Trace, Unshaded
<1>3. TypeOK'
    BY DEF Trace, Tracing
<1>4. ColorsAgree' /\ PhasesAgree' /\ LeavesAgree'
    BY <1>1, <1>2, StringsAreObjects DEF ColorsAgree, IsShaded, PhasesAgree, LeavesAgree
<1> QED
    BY <1>3, <1>4

\* Destroying one free object.
LEMMA DestructBase ==
    ASSUME BaseInv, NEW d \in Objects, Destruct(d)
    PROVE  BaseInv'
<1> USE DEF BaseInv, TypeOK, Segments, In
<1>1. TypeOK'
    BY DEF Destruct
<1>2. ColorsAgree' /\ PhasesAgree' /\ LeavesAgree'
    BY StringsAreObjects DEF Destruct, ColorsAgree, IsShaded, PhasesAgree, LeavesAgree
<1> QED
    BY <1>1, <1>2

\* The steps that move no object, and FullCollect's flips.
LEMMA PhaseBase ==
    ASSUME BaseInv, TurnOff \/ BeginFullCollect \/ NextCollection \/ EndFullCollect
    PROVE  BaseInv'
<1>1. CASE TurnOff \/ EndFullCollect \/ (BeginFullCollect /\ ~off)
  <2> USE DEF BaseInv, TypeOK, Segments, In
  <2>1. /\ UNCHANGED <<where, color, refs, roots, shade, first, exposed>>
        /\ off' \in BOOLEAN /\ full' \in 0 .. 3
        /\ off' => full' = 0 /\ In("gray") = {}
        /\ full' = 3 => ~off' /\ first'
    <3>1. CASE TurnOff
      <4>1. off' \in BOOLEAN
        BY <3>1, Zenon DEF TurnOff
      <4> QED
        BY <3>1, <4>1 DEF TurnOff, CycleDone
    <3>2. CASE EndFullCollect
        BY <3>2 DEF EndFullCollect, PhasesAgree
    <3>3. CASE BeginFullCollect /\ ~off
        BY <3>3 DEF BeginFullCollect
    <3> QED
        BY <1>1, <3>1, <3>2, <3>3
  <2>2. TypeOK'
    BY <2>1
  <2>3. ColorsAgree' /\ PhasesAgree' /\ LeavesAgree'
    BY <2>1 DEF ColorsAgree, IsShaded, PhasesAgree, LeavesAgree
  <2> QED
    BY <2>2, <2>3
<1>2. CASE BeginFullCollect /\ off
    BY <1>2, FlipBase DEF BeginFullCollect, BaseInv, PhasesAgree
<1>3. CASE NextCollection
  <2>1. full' \in 1 .. 3
    BY <1>3 DEF NextCollection
  <2> QED
    BY <1>3, <2>1, FlipBase DEF NextCollection, CycleDone
<1> QED
    BY <1>1, <1>2, <1>3

\* Every step, whatever has been exposed.
LEMMA StepBase ==
    ASSUME BaseInv, [Next]_vars
    PROVE  BaseInv'
<1>1. CASE MutatorStep
  <2>1. ASSUME NEW s \in Strings, Revive(s) \/ AllocPermanant(s) PROVE BaseInv'
    BY <2>1, AllocateBase, StringsAreObjects
  <2>2. ASSUME NEW t \in roots \ Strings,
               NEW gone \in Cells(refs[t]), NEW added \in Cells(roots), Set(t, gone, added)
        PROVE  BaseInv'
    <3>1. gone \in SUBSET refs[t] /\ added \in SUBSET roots
        BY DEF Cells
    <3> QED
        BY <2>2, <3>1, SetBase
  <2>3. ASSUME NEW t \in roots \ Strings, NEW v \in refs[t], Load(v) PROVE BaseInv'
    BY <2>3, StackBase DEF BaseInv, TypeOK
  <2>4. ASSUME NEW v \in roots, Drop(v) PROVE BaseInv'
    BY <2>4, StackBase DEF BaseInv, TypeOK
  <2> QED
    BY <1>1, <2>1, <2>2, <2>3, <2>4, AllocateBase DEF MutatorStep
<1>2. CASE CollectorStep
    BY <1>2, ScanRootsBase, TraceBase, DestructBase, PhaseBase DEF CollectorStep
<1>3. CASE Restart \/ BeginFullCollect
    BY <1>3, RestartBase, PhaseBase
<1>4. CASE UNCHANGED vars
    BY <1>4 DEF vars, BaseInv, TypeOK, ColorsAgree, IsShaded, PhasesAgree, LeavesAgree, In
<1> QED
    BY <1>1, <1>2, <1>3, <1>4 DEF Next

------------------------------------------------------------------------------
(***************************************************************************)
(* The mutator loses nothing.                                              *)
(***************************************************************************)

\* A new object is black, refers to nothing and is referred to by nothing.
LEMMA AllocateSafe ==
    ASSUME CleanInv, BaseInv', NEW o \in Objects, Allocate(o)
    PROVE  NoDangling' /\ TracingSafe'
<1> USE DEF CleanInv, BaseInv, TypeOK, Segments, In, Exists
<1>1. NoDangling'
    BY DEF Allocate, Blackened, LeavesAgree, NoDangling
<1>2. TracingSafe'
  <2>1. CASE ~off /\ first
    BY <2>1 DEF Allocate, Blackened, TracingSafe
  <2>2. CASE ~(~off /\ first)
    <3>1. SUFFICES ASSUME NEW C \in SUBSET Objects, Covers(C)'
                   PROVE  /\ \A r \in roots' : where'[r] = "white" => r \in C
                          /\ \A p \in In("black")' : \A r \in refs'[p] : where'[r] = "white" => r \in C
        BY <2>2, <3>1 DEF Allocate, TracingSafe, Protected
    <3>2. refs[o] = {} /\ refs' = refs
        BY DEF Allocate, LeavesAgree
    <3>3. \A r \in Objects : r # o => where'[r] = where[r]
        BY DEF Allocate, Blackened
    <3>4. where'[o] = "black" /\ where[o] = "none"
        BY DEF Allocate, Blackened
    <3>5. Covers(C)
        BY <3>1, <3>2, <3>3, <3>4 DEF Covers
    <3>6. Protected
        BY <2>2 DEF TracingSafe
    <3>7. roots' = roots \cup {o}
        BY DEF Allocate
    <3> QED
        BY <3>2, <3>3, <3>4, <3>5, <3>6, <3>7 DEF Protected
  <2> QED
    BY <2>1, <2>2
<1> QED
    BY <1>1, <1>2

\* A string of the pool, dead or alive, becomes black or persistent: it holds
\* no references, so nothing else depends on it.
LEMMA StringSafe ==
    ASSUME CleanInv, BaseInv', NEW s \in Strings, Revive(s) \/ AllocPermanant(s)
    PROVE  NoDangling' /\ TracingSafe'
<1> USE DEF CleanInv, BaseInv, TypeOK, Segments, In, Exists
<1>0. s \in Objects
    BY StringsAreObjects
<1>a. /\ refs' = refs /\ roots' = roots \cup {s} /\ shade' = shade
      /\ off' = off /\ first' = first /\ full' = full
      /\ refs[s] = {}
    BY DEF Revive, AllocPermanant, LeavesAgree
<1>b. /\ where'[s] \in {"black", "persistent"}
      /\ where'[s] = "black" => color'[s] = shade
      /\ color'[s] \in {0, 1}
      /\ \A r \in Objects : r # s => where'[r] = where[r] /\ color'[r] = color[r]
      /\ where' \in [Objects -> Segments] /\ color' \in [Objects -> {0, 1}]
  <2>1. CASE Revive(s)
    <3>1. CASE where[s] = "persistent"
        BY <1>0, <2>1, <3>1 DEF Revive
    <3>2. CASE where[s] # "persistent"
        BY <1>0, <2>1, <3>2 DEF Revive, Blackened
    <3> QED
        BY <3>1, <3>2
  <2>2. CASE AllocPermanant(s)
    BY <1>0, <2>2 DEF AllocPermanant
  <2> QED
    BY <2>1, <2>2
<1>1. NoDangling'
    BY <1>0, <1>a, <1>b DEF NoDangling
<1>2. TracingSafe'
  <2>1. CASE ~off /\ first
    BY <1>0, <1>a, <1>b, <2>1 DEF TracingSafe
  <2>2. CASE ~(~off /\ first)
    <3>1. SUFFICES ASSUME NEW C \in SUBSET Objects, Covers(C)'
                   PROVE  /\ \A r \in roots' : where'[r] = "white" => r \in C
                          /\ \A p \in In("black")' : \A r \in refs'[p] : where'[r] = "white" => r \in C
        BY <1>a, <2>2, <3>1 DEF TracingSafe, Protected
    <3> DEFINE D == C \cup {s}
    <3>2. In("gray") \subseteq D
        BY <1>b, <3>1 DEF Covers
    <3>3. ASSUME NEW p \in D, where[p] # "black", NEW r \in refs[p], where[r] = "white"
          PROVE  r \in D
      <4>1. p \in Objects /\ r \in Objects /\ p # s
        BY <1>0, <1>a, <3>3
      <4>2. p \in C /\ where'[p] # "black" /\ r \in refs'[p]
        BY <1>a, <1>b, <3>3, <4>1
      <4>3. r # s => where'[r] = "white"
        BY <1>b, <3>3, <4>1
      <4> QED
        BY <3>1, <4>2, <4>3 DEF Covers
    <3>4. D \in SUBSET Objects /\ Covers(D)
        BY <1>0, <3>2, <3>3 DEF Covers
    <3>5. /\ \A r \in roots : where[r] = "white" => r \in D
          /\ \A p \in In("black") : \A r \in refs[p] : where[r] = "white" => r \in D
        BY <2>2, <3>4 DEF TracingSafe, Protected
    <3> QED
        BY <1>0, <1>a, <1>b, <3>5
  <2> QED
    BY <2>1, <2>2
<1> QED
    BY <1>1, <1>2

\* An assignment to a table grays the old contents of the cell: what could be
\* found through it before can still be found.
LEMMA SetSafe ==
    ASSUME CleanInv, BaseInv', NEW t \in roots \ Strings,
           NEW gone \in SUBSET refs[t], NEW added \in SUBSET roots, Set(t, gone, added)
    PROVE  NoDangling' /\ TracingSafe'
<1> USE DEF CleanInv, BaseInv, TypeOK, Segments, In, Exists
<1>0. t \in Objects /\ Exists(t) /\ where[t] # "persistent"
    BY DEF NoDangling, LeavesAgree
<1>a. /\ roots' = roots /\ shade' = shade /\ off' = off /\ first' = first /\ full' = full
      /\ refs' = [refs EXCEPT ![t] = (@ \ gone) \cup added]
    BY DEF Set
<1>b. gone \subseteq Objects /\ added \subseteq Objects
    BY <1>0
<1>c. \A r \in gone : Exists(r)
    BY <1>0 DEF NoDangling
<1>d. \A r \in Objects :
        \/ where'[r] = where[r] /\ color'[r] = color[r]
        \/ ~off /\ r \in gone /\ where[r] = "white" /\ where'[r] = "gray" /\ color'[r] = shade
  <2>1. ASSUME NEW r \in Objects, r \in Unshaded(gone)
        PROVE  where[r] = "white" /\ r \in gone
    BY <1>c, <2>1 DEF Unshaded, ColorsAgree, IsShaded
  <2> QED
    BY <2>1 DEF Set, WriteBarrier, Gray, Unshaded
<1>e. ~off => \A r \in gone : where'[r] # "white"
    BY <1>b DEF Set, WriteBarrier, Gray, Unshaded, ColorsAgree
<1>f. /\ where' \in [Objects -> Segments] /\ color' \in [Objects -> {0, 1}]
    BY DEF Set, WriteBarrier, Gray
<1>1. NoDangling'
  <2>1. \A r \in Objects : Exists(r) <=> Exists(r)'
    BY <1>d
  <2>2. \A p \in Objects : refs'[p] \subseteq refs[p] \cup (IF p = t THEN roots ELSE {})
    BY <1>0, <1>a
  <2> QED
    BY <1>0, <1>a, <1>b, <2>1, <2>2 DEF NoDangling
<1>2. TracingSafe'
  <2>1. CASE ~off /\ first
    BY <1>a, <1>d, <2>1 DEF TracingSafe
  <2>2. CASE off
    <3>1. Protected /\ In("gray") = {}
        BY <2>2 DEF TracingSafe, PhasesAgree
    <3>2. Covers({})
        BY <3>1 DEF Covers
    <3>3. /\ \A r \in roots : where[r] # "white"
          /\ \A p \in In("black") : \A r \in refs[p] : where[r] # "white"
        BY <3>1, <3>2 DEF Protected
    <3>4. where' = where
        BY <1>d, <1>f, <2>2
    <3>5. \A p \in In("black") : \A r \in refs'[p] : where[r] # "white"
        BY <1>0, <1>a, <3>3
    <3> QED
        BY <1>a, <2>2, <3>3, <3>4, <3>5 DEF TracingSafe, Protected
  <2>3. CASE ~off /\ ~first
    <3>1. SUFFICES ASSUME NEW C \in SUBSET Objects, Covers(C)'
                   PROVE  /\ \A r \in roots' : where'[r] = "white" => r \in C
                          /\ \A p \in In("black")' : \A r \in refs'[p] : where'[r] = "white" => r \in C
        BY <1>a, <2>3, <3>1 DEF TracingSafe, Protected
    <3>2. In("gray") \subseteq C
        BY <1>d, <3>1 DEF Covers
    <3>3. ASSUME NEW p \in C, where[p] # "black", NEW r \in refs[p], where[r] = "white"
          PROVE  r \in C
      <4>1. p \in Objects /\ r \in Objects /\ where'[p] # "black"
        BY <1>d, <3>3
      <4>2. CASE where'[r] # "white"
        <5>1. where'[r] = "gray"
            BY <1>d, <3>3, <4>1, <4>2
        <5> QED
            BY <3>1, <4>1, <5>1 DEF Covers
      <4>3. CASE where'[r] = "white"
        <5>1. r \in refs'[p]
            BY <1>0, <1>a, <1>e, <2>3, <3>3, <4>1, <4>3
        <5> QED
            BY <3>1, <4>1, <4>3, <5>1 DEF Covers
      <4> QED
        BY <4>2, <4>3
    <3>4. Covers(C)
        BY <3>2, <3>3 DEF Covers
    <3>5. /\ \A r \in roots : where[r] = "white" => r \in C
          /\ \A p \in In("black") : \A r \in refs[p] : where[r] = "white" => r \in C
        BY <2>3, <3>4 DEF TracingSafe, Protected
    <3>6. \A r \in Objects : where'[r] = "white" => where[r] = "white"
        BY <1>d
    <3>7. \A p \in In("black")' : p \in In("black")
        BY <1>d
    <3>8. \A p \in Objects : \A r \in refs'[p] : r \in refs[p] \/ r \in roots
        BY <1>0, <1>a
    <3> QED
        BY <1>a, <3>5, <3>6, <3>7, <3>8, <1>1
  <2> QED
    BY <2>1, <2>2, <2>3
<1> QED
    BY <1>1, <1>2

\* What a held table refers to can be held as well: if it is white, the table
\* is a root, is gray or is black, and leads to it.
LEMMA LoadSafe ==
    ASSUME CleanInv, BaseInv', NEW t \in roots \ Strings, NEW v \in refs[t], Load(v)
    PROVE  NoDangling' /\ TracingSafe'
<1> USE DEF CleanInv, BaseInv, TypeOK, Segments, In, Exists
<1>0. t \in Objects /\ v \in Objects /\ Exists(t) /\ Exists(v) /\ where[t] # "persistent"
    BY DEF NoDangling, LeavesAgree
<1>1. NoDangling'
    BY <1>0 DEF Load, NoDangling
<1>2. TracingSafe'
  <2>1. CASE ~off /\ first
    BY <2>1 DEF Load, TracingSafe
  <2>2. CASE ~(~off /\ first)
    <3>1. SUFFICES ASSUME NEW C \in SUBSET Objects, Covers(C), where[v] = "white"
                   PROVE  v \in C
        BY <2>2, <3>1 DEF Load, TracingSafe, Protected, Covers
    <3>2. where[t] = "black" => v \in C
        BY <1>0, <2>2, <3>1 DEF TracingSafe, Protected
    <3>3. where[t] = "white" => t \in C
        BY <1>0, <2>2, <3>1 DEF TracingSafe, Protected
    <3>4. where[t] = "gray" => t \in C
        BY <1>0, <3>1 DEF Covers
    <3>5. where[t] \in {"gray", "black", "white"}
        BY <1>0
    <3> QED
        BY <3>1, <3>2, <3>3, <3>4, <3>5 DEF Covers
  <2> QED
    BY <2>1, <2>2
<1> QED
    BY <1>1, <1>2

\* Dropping a root loses nothing.
LEMMA DropSafe ==
    ASSUME CleanInv, BaseInv', NEW v \in roots, Drop(v)
    PROVE  NoDangling' /\ TracingSafe'
<1> USE DEF CleanInv, BaseInv, TypeOK, Segments, In, Exists
<1>1. NoDangling'
    BY DEF Drop, NoDangling
<1>2. TracingSafe'
    BY DEF Drop, TracingSafe, Protected, Covers
<1> QED
    BY <1>1, <1>2

------------------------------------------------------------------------------
(***************************************************************************)
(* Nor does the collector, unless a scan exposes an object.                *)
(***************************************************************************)

\* When nothing is gray, no root and no black object leads to a white one.
LEMMA WhiteIsGarbage ==
    ASSUME CleanInv, ~(~off /\ first), In("gray") = {}
    PROVE  /\ \A o \in roots : where[o] # "white"
           /\ \A p \in In("black") : \A o \in refs[p] : where[o] # "white"
<1>1. Covers({})
    BY DEF Covers
<1> QED
    BY <1>1 DEF CleanInv, TracingSafe, Protected

\* The state after a flip: what was white is garbage, and nothing is black.
LEMMA FlipSafe ==
    ASSUME CleanInv, BaseInv', ~(~off /\ first), In("gray") = {}, Flip, first' = TRUE,
           UNCHANGED <<refs, roots>>, full' \in 1 .. 3
    PROVE  NoDangling' /\ TracingSafe'
<1> USE DEF CleanInv, BaseInv, TypeOK, Segments, In, Exists
<1>0. \A o \in Objects :
        /\ where[o] = "white" => where'[o] = "free"
        /\ where[o] = "black" => where'[o] = "white"
        /\ where[o] \notin {"white", "black"} => where'[o] = where[o]
    BY DEF Flip, Reclaimed
<1>1. NoDangling'
  <2>1. /\ \A o \in roots : where[o] # "white"
        /\ \A p \in In("black") : \A o \in refs[p] : where[o] # "white"
    BY WhiteIsGarbage
  <2>2. \A o \in Objects : Exists(o) /\ where[o] # "white" => Exists(o)'
    BY <1>0
  <2>3. \A o \in roots' : Exists(o)'
    BY <2>1, <2>2 DEF NoDangling
  <2>4. ASSUME NEW p \in Objects, Exists(p)', NEW o \in refs'[p]
        PROVE  Exists(o)'
    <3>1. Exists(p) /\ where[p] \in {"black", "persistent"} /\ o \in refs[p]
        BY <1>0, <2>4
    <3>2. where[p] = "black"
        BY <3>1 DEF LeavesAgree
    <3> QED
        BY <2>1, <2>2, <3>1, <3>2 DEF NoDangling
  <2> QED
    BY <2>3, <2>4 DEF NoDangling
<1>2. TracingSafe'
    BY <1>0 DEF Flip, TracingSafe
<1> QED
    BY <1>1, <1>2

\* Once the roots are grayed, everything white that is in use can be found
\* from a gray object, unless the scan exposes an object.
LEMMA ScanRootsSafe ==
    ASSUME CleanInv, BaseInv', ScanRoots, ~exposed'
    PROVE  NoDangling' /\ TracingSafe'
<1> USE DEF CleanInv, BaseInv, TypeOK, Segments, In, Exists
<1>0. \A o \in Objects :
        \/ where'[o] = where[o] /\ color'[o] = color[o]
        \/ o \in roots /\ where[o] = "white" /\ where'[o] = "gray" /\ color'[o] = shade
  <2>1. \A o \in Unshaded(roots) : where[o] = "white"
    BY DEF Unshaded, NoDangling, ColorsAgree
  <2> QED
    BY <2>1 DEF ScanRoots, Gray, Unshaded
<1>1. NoDangling'
  <2>1. \A o \in Objects : Exists(o) <=> Exists(o)'
    BY <1>0
  <2> QED
    BY <2>1 DEF ScanRoots, NoDangling
<1>2. TracingSafe'
  <2>1. \A o \in roots : where'[o] # "white"
    BY DEF ScanRoots, Gray, Unshaded, ColorsAgree
  <2>2. \A p \in In("black")' : \A o \in refs'[p] : where'[o] # "white"
    BY <1>0 DEF ScanRoots
  <2> QED
    BY <2>1, <2>2 DEF ScanRoots, TracingSafe, Protected
<1> QED
    BY <1>1, <1>2

\* Starting an incremental collection is a flip and a scan of the roots.
LEMMA RestartSafe ==
    ASSUME CleanInv, BaseInv', Restart
    PROVE  NoDangling' /\ TracingSafe'
<1> USE DEF CleanInv, BaseInv, TypeOK, Segments, In, Exists
<1>a. In("gray") = {} /\ off /\ off' = FALSE /\ first' = FALSE /\ full = 0
      /\ full' = 0 /\ refs' = refs /\ roots' = roots /\ shade' = 1 - shade
    BY DEF Restart, PhasesAgree
<1>b. /\ \A o \in roots : where[o] # "white"
      /\ \A p \in In("black") : \A o \in refs[p] : where[o] # "white"
    BY <1>a, WhiteIsGarbage
<1>c. \A o \in Objects :
        /\ where[o] = "white" => where'[o] = "free"
        /\ where[o] = "black" =>
              IF o \in roots THEN where'[o] = "gray" /\ color'[o] = shade'
                             ELSE where'[o] = "white" /\ color'[o] = color[o]
        /\ where[o] \notin {"white", "black"} => where'[o] = where[o]
  <2>1. ASSUME NEW o \in Objects, where[o] = "white"
        PROVE  where'[o] = "free"
    BY <1>b, <2>1 DEF Restart, Reclaimed
  <2>2. ASSUME NEW o \in Objects, where[o] = "black"
        PROVE  IF o \in roots THEN where'[o] = "gray" /\ color'[o] = shade'
                              ELSE where'[o] = "white" /\ color'[o] = color[o]
    <3>1. Reclaimed[o] = "white" /\ color[o] # shade'
        BY <1>a, <2>2 DEF Reclaimed, ColorsAgree, IsShaded
    <3> QED
        BY <3>1 DEF Restart
  <2>3. ASSUME NEW o \in Objects, where[o] \notin {"white", "black"}
        PROVE  where'[o] = where[o]
    <3>1. Reclaimed[o] = where[o]
        BY <2>3 DEF Reclaimed
    <3>2. o \in roots => where[o] = "persistent"
        BY <1>a, <2>3 DEF NoDangling
    <3> QED
        BY <3>1, <3>2 DEF Restart
  <2> QED
    BY <2>1, <2>2, <2>3
<1>1. NoDangling'
  <2>1. \A o \in Objects : Exists(o) /\ where[o] # "white" => Exists(o)'
    BY <1>c
  <2>2. \A o \in roots' : Exists(o)'
    BY <1>a, <1>b, <2>1 DEF NoDangling
  <2>3. ASSUME NEW p \in Objects, Exists(p)', NEW o \in refs'[p]
        PROVE  Exists(o)'
    <3>1. Exists(p) /\ where[p] \in {"black", "persistent"} /\ o \in refs[p]
        BY <1>a, <1>c, <2>3
    <3>2. where[p] = "black"
        BY <3>1 DEF LeavesAgree
    <3> QED
        BY <1>b, <2>1, <3>1, <3>2 DEF NoDangling
  <2> QED
    BY <2>2, <2>3 DEF NoDangling
<1>2. TracingSafe'
  <2>1. In("black")' = {}
    BY <1>c
  <2>2. \A o \in roots' : where'[o] # "white"
    BY <1>a, <1>b, <1>c
  <2> QED
    BY <1>a, <2>1, <2>2 DEF TracingSafe, Protected
<1> QED
    BY <1>1, <1>2

\* Tracing an object grays what it holds before anything else happens.
LEMMA TraceSafe ==
    ASSUME CleanInv, BaseInv', NEW g \in Objects, Trace(g)
    PROVE  NoDangling' /\ TracingSafe'
<1> USE DEF CleanInv, BaseInv, TypeOK, Segments, In, Exists
<1>a. /\ where[g] = "gray" /\ where'[g] = "black" /\ color'[g] = shade
      /\ refs' = refs /\ roots' = roots /\ shade' = shade
      /\ off' = off /\ first' = first /\ full' = full /\ ~off /\ ~first
    BY DEF Trace, Tracing, ColorsAgree, IsShaded, Unshaded
<1>b. \A o \in Objects \ {g} :
        \/ where'[o] = where[o] /\ color'[o] = color[o]
        \/ o \in refs[g] /\ where[o] = "white" /\ where'[o] = "gray" /\ color'[o] = shade
  <2>1. \A o \in Unshaded(refs[g]) : where[o] = "white"
    BY <1>a DEF Unshaded, NoDangling, ColorsAgree
  <2> QED
    BY <2>1 DEF Trace, Unshaded
<1>c. \A o \in refs[g] : where'[o] # "white"
    BY <1>a DEF Trace, Unshaded, ColorsAgree
<1>1. NoDangling'
  <2>1. \A o \in Objects : Exists(o) <=> Exists(o)'
    BY <1>a, <1>b
  <2> QED
    BY <1>a, <2>1 DEF NoDangling
<1>2. TracingSafe'
  <2>1. SUFFICES ASSUME NEW C \in SUBSET Objects, Covers(C)'
                 PROVE  /\ \A r \in roots' : where'[r] = "white" => r \in C
                        /\ \A p \in In("black")' : \A r \in refs'[p] : where'[r] = "white" => r \in C
    BY <1>a, <2>1 DEF TracingSafe, Protected
  <2> DEFINE D == C \cup {g}
  <2>2. In("gray") \subseteq D
    BY <1>b, <2>1 DEF Covers
  <2>3. ASSUME NEW p \in D, where[p] # "black", NEW r \in refs[p], where[r] = "white"
        PROVE  r \in D
    <3>1. p \in Objects /\ r \in Objects /\ r # g
        BY <1>a, <2>3
    <3>2. where'[r] \in {"white", "gray"}
        BY <1>b, <2>3, <3>1
    <3>3. CASE where'[r] = "gray"
        BY <2>1, <3>1, <3>3 DEF Covers
    <3>4. CASE where'[r] = "white"
      <4>1. p # g /\ p \in C
        BY <1>c, <2>3, <3>4
      <4>2. where'[p] # "black"
        BY <1>b, <2>3, <3>1, <4>1
      <4> QED
        BY <1>a, <2>1, <2>3, <3>4, <4>1, <4>2 DEF Covers
    <3> QED
        BY <3>2, <3>3, <3>4
  <2>4. D \in SUBSET Objects /\ Covers(D)
    BY <2>2, <2>3 DEF Covers
  <2>5. /\ \A r \in roots : where[r] = "white" => r \in D
        /\ \A p \in In("black") : \A r \in refs[p] : where[r] = "white" => r \in D
    BY <1>a, <2>4 DEF TracingSafe, Protected
  <2>6. \A r \in Objects : where'[r] = "white" => where[r] = "white" /\ r # g
    BY <1>a, <1>b
  <2>7. \A p \in In("black")' : p = g \/ p \in In("black")
    BY <1>b
  <2> QED
    BY <1>a, <1>c, <2>5, <2>6, <2>7
<1> QED
    BY <1>1, <1>2

\* A free object can be destroyed: nothing that exists refers to it.
LEMMA DestructSafe ==
    ASSUME CleanInv, BaseInv', NEW d \in Objects, Destruct(d)
    PROVE  NoDangling' /\ TracingSafe'
<1> USE DEF CleanInv, BaseInv, TypeOK, Segments, In, Exists
<1>a. /\ where[d] = "free" /\ where'[d] = "none" /\ refs'[d] = {}
      /\ color' = color /\ roots' = roots /\ shade' = shade
      /\ off' = off /\ first' = first /\ full' = full
      /\ \A o \in Objects \ {d} : where'[o] = where[o] /\ refs'[o] = refs[o]
    BY DEF Destruct
<1>1. NoDangling'
  <2>1. \A o \in Objects : Exists(o) <=> Exists(o)'
    BY <1>a
  <2> QED
    BY <1>a, <2>1 DEF NoDangling
<1>2. TracingSafe'
  <2>1. CASE ~off /\ first
    BY <1>a, <2>1 DEF TracingSafe
  <2>2. CASE ~(~off /\ first)
    <3>1. SUFFICES ASSUME NEW C \in SUBSET Objects, Covers(C)'
                   PROVE  /\ \A r \in roots' : where'[r] = "white" => r \in C
                          /\ \A p \in In("black")' : \A r \in refs'[p] : where'[r] = "white" => r \in C
        BY <1>a, <2>2, <3>1 DEF TracingSafe, Protected
    <3> DEFINE D == C \ {d}
    <3>2. In("gray") \subseteq D
        BY <1>a, <3>1 DEF Covers
    <3>3. ASSUME NEW p \in D, where[p] # "black", NEW r \in refs[p], where[r] = "white"
          PROVE  r \in D
      <4>1. p \in Objects /\ r \in Objects /\ p # d /\ r # d
        BY <1>a, <3>3
      <4> QED
        BY <1>a, <3>1, <3>3, <4>1 DEF Covers
    <3>4. D \in SUBSET Objects /\ Covers(D)
        BY <3>2, <3>3 DEF Covers
    <3>5. /\ \A r \in roots : where[r] = "white" => r \in D
          /\ \A p \in In("black") : \A r \in refs[p] : where[r] = "white" => r \in D
        BY <2>2, <3>4 DEF TracingSafe, Protected
    <3> QED
        BY <1>a, <3>5
  <2> QED
    BY <2>1, <2>2
<1> QED
    BY <1>1, <1>2

\* Turning the collector off with nothing gray.
LEMMA TurnOffSafe ==
    ASSUME CleanInv, BaseInv', TurnOff
    PROVE  NoDangling' /\ TracingSafe'
<1> USE DEF CleanInv, BaseInv, TypeOK, Segments, In, Exists
<1>1. NoDangling'
    BY DEF TurnOff, CycleDone, Tracing, NoDangling
<1>2. TracingSafe'
    BY DEF TurnOff, CycleDone, Tracing, TracingSafe, Protected, Covers
<1> QED
    BY <1>1, <1>2

\* FullCollect starts with a flip when the collector is off.
LEMMA BeginFullCollectSafe ==
    ASSUME CleanInv, BaseInv', BeginFullCollect
    PROVE  NoDangling' /\ TracingSafe'
<1>1. CASE off
    BY <1>1, FlipSafe DEF BeginFullCollect, CleanInv, BaseInv, PhasesAgree
<1>2. CASE ~off
  <2> USE DEF CleanInv, BaseInv, TypeOK, Segments, In, Exists
  <2>1. NoDangling'
    BY <1>2 DEF BeginFullCollect, NoDangling
  <2>2. TracingSafe'
    BY <1>2 DEF BeginFullCollect, TracingSafe, Protected, Covers
  <2> QED
    BY <2>1, <2>2
<1> QED
    BY <1>1, <1>2

\* The flips inside FullCollect come when nothing is gray.
LEMMA NextCollectionSafe ==
    ASSUME CleanInv, BaseInv', NextCollection
    PROVE  NoDangling' /\ TracingSafe'
<1>1. full' \in 1 .. 3
    BY DEF NextCollection
<1> QED
    BY <1>1, FlipSafe DEF NextCollection, CycleDone, Tracing

\* FullCollect returns.
LEMMA EndFullCollectSafe ==
    ASSUME CleanInv, BaseInv', EndFullCollect
    PROVE  NoDangling' /\ TracingSafe'
<1> USE DEF CleanInv, BaseInv, TypeOK, Segments, In, Exists
<1>1. NoDangling'
    BY DEF EndFullCollect, NoDangling
<1>2. TracingSafe'
    BY DEF EndFullCollect, TracingSafe, Protected, Covers
<1> QED
    BY <1>1, <1>2

------------------------------------------------------------------------------
(***************************************************************************)
(* Theorems.                                                               *)
(***************************************************************************)

\* Initially there are no objects.
LEMMA CollectorInit == Init => CollectorInv
<1> SUFFICES ASSUME Init PROVE CollectorInv
    OBVIOUS
<1>0. off \in BOOLEAN /\ first \in BOOLEAN /\ exposed \in BOOLEAN
    BY Zenon DEF Init
<1>1. BaseInv /\ NoDangling
  <2>1. TypeOK
    BY <1>0 DEF Init, TypeOK, Segments
  <2>2. ColorsAgree /\ PhasesAgree /\ LeavesAgree /\ NoDangling
    BY StringsAreObjects
    DEF Init, ColorsAgree, IsShaded, PhasesAgree, LeavesAgree, NoDangling, In, Exists
  <2> QED
    BY <2>1, <2>2 DEF BaseInv
<1>2. TracingSafe
    BY DEF Init, TracingSafe, Protected, In
<1> QED
    BY <1>1, <1>2 DEF CollectorInv

\* A step that exposes nothing loses nothing.
LEMMA CleanStep ==
    ASSUME CleanInv, BaseInv', [Next]_vars, ~exposed'
    PROVE  NoDangling' /\ TracingSafe'
<1>1. CASE MutatorStep
  <2>1. ASSUME NEW o \in Objects, Allocate(o) PROVE NoDangling' /\ TracingSafe'
    BY <2>1, AllocateSafe
  <2>2. ASSUME NEW s \in Strings, Revive(s) \/ AllocPermanant(s) PROVE NoDangling' /\ TracingSafe'
    BY <2>2, StringSafe
  <2>3. ASSUME NEW t \in roots \ Strings,
               NEW gone \in Cells(refs[t]), NEW added \in Cells(roots), Set(t, gone, added)
        PROVE  NoDangling' /\ TracingSafe'
    <3>1. gone \in SUBSET refs[t] /\ added \in SUBSET roots
        BY DEF Cells
    <3> QED
        BY <2>3, <3>1, SetSafe
  <2>4. ASSUME NEW t \in roots \ Strings, NEW v \in refs[t], Load(v)
        PROVE  NoDangling' /\ TracingSafe'
    BY <2>4, LoadSafe
  <2>5. ASSUME NEW v \in roots, Drop(v) PROVE NoDangling' /\ TracingSafe'
    BY <2>5, DropSafe
  <2> QED
    BY <1>1, <2>1, <2>2, <2>3, <2>4, <2>5 DEF MutatorStep
<1>2. CASE CollectorStep
    BY <1>2, ScanRootsSafe, TraceSafe, DestructSafe, TurnOffSafe, NextCollectionSafe,
       EndFullCollectSafe DEF CollectorStep
<1>3. CASE Restart
    BY <1>3, RestartSafe
<1>4. CASE BeginFullCollect
    BY <1>4, BeginFullCollectSafe
<1>5. CASE UNCHANGED vars
    BY <1>5 DEF vars, CleanInv, TracingSafe, Protected, Covers, NoDangling, In, Exists
<1> QED
    BY <1>1, <1>2, <1>3, <1>4, <1>5 DEF Next

\* Whatever has been exposed stays on record.
LEMMA ExposedForEver ==
    ASSUME [Next]_vars, exposed
    PROVE  exposed'
    BY DEF Next, MutatorStep, CollectorStep, Allocate, Revive, AllocPermanant, Set, Load, Drop,
       ScanRoots, Trace, Destruct, TurnOff, NextCollection, EndFullCollect, Restart,
       BeginFullCollect, vars

\* Every step preserves the invariant.
LEMMA CollectorStepSafe ==
    ASSUME CollectorInv, [Next]_vars
    PROVE  CollectorInv'
<1>1. BaseInv'
    BY StepBase DEF CollectorInv
<1>2. ASSUME ~exposed' PROVE NoDangling' /\ TracingSafe'
  <2>1. CleanInv
    BY <1>2, ExposedForEver DEF CollectorInv, CleanInv
  <2> QED
    BY <1>1, <1>2, <2>1, CleanStep
<1> QED
    BY <1>1, <1>2 DEF CollectorInv

\* The invariant holds in every reachable state of the collector.
THEOREM CollectorInvariant == Spec => []CollectorInv
<1>1. CollectorInv /\ [Next]_vars => CollectorInv'
    BY CollectorStepSafe
<1> QED
    BY <1>1, CollectorInit, PTL DEF Spec

\* The objects that exist are closed under references and hold the roots, so
\* whatever is reachable exists.
LEMMA ReachableExists ==
    ASSUME CollectorInv PROVE ReachableKept
<1> SUFFICES ASSUME ~exposed PROVE Intact
    BY DEF ReachableKept
<1> DEFINE E == {o \in Objects : Exists(o)}
<1>1. E \in SUBSET Objects /\ roots \subseteq E /\ \A p \in E : refs[p] \subseteq E
    BY DEF CollectorInv, BaseInv, TypeOK, NoDangling
<1>2. Reachable \subseteq E
    BY <1>1 DEF Reachable
<1> QED
    BY <1>2 DEF Intact

\* No object that can still be reached is reclaimed, for any number of objects
\* and any interleaving of scripts and collections, until a scan of the roots
\* finds a table that was created since the flip and refers to an object that
\* nothing else leads to.
THEOREM CollectorKeepsReachable == Spec => []ReachableKept
<1>1. CollectorInv => ReachableKept
    BY ReachableExists
<1> QED
    BY <1>1, CollectorInvariant, PTL

\* The color bits always agree with the lists, whatever has been exposed.
THEOREM CollectorColorsAgree == Spec => []ColorsAgree
<1>1. CollectorInv => ColorsAgree
    BY DEF CollectorInv, BaseInv
<1> QED
    BY <1>1, CollectorInvariant, PTL

------------------------------------------------------------------------------
(***************************************************************************)
(* A full collection is complete.                                          *)
(***************************************************************************)

\* Destroying a free object leaves everything else as reachable as it was:
\* while the model runs, nothing reachable is free.
LEMMA DestructKeepsReachable ==
    ASSUME TypeOK, Intact, NEW d \in Objects, Destruct(d)
    PROVE  Reachable \subseteq Reachable'
<1>1. SUFFICES ASSUME NEW o \in Reachable, NEW C \in SUBSET Objects,
                      roots' \subseteq C, \A p \in C : refs'[p] \subseteq C
               PROVE  o \in C
    BY <1>1 DEF Reachable
<1> DEFINE D == C \cap Reachable
<1>2. D \in SUBSET Objects /\ roots \subseteq D
    BY <1>1, ReachableClosed DEF Destruct, Reachable
<1>3. ASSUME NEW p \in D PROVE refs[p] \subseteq D
  <2>1. refs'[p] = refs[p]
    BY DEF Destruct, Intact, TypeOK, Exists, Reachable
  <2> QED
    BY <1>1, <2>1, ReachableClosed
<1> QED
    BY <1>2, <1>3 DEF Reachable

\* Every step preserves what is known of the last stages of FullCollect.
LEMMA FullStepSafe ==
    ASSUME CollectorInv, FullInv, [Next]_vars
    PROVE  FullInv'
<1> USE DEF FullInv, In
<1>1. CASE MutatorStep
    BY <1>1 DEF MutatorStep, MutatorRuns, Allocate, Revive, AllocPermanant, Set, Load, Drop
<1>2. CASE ScanRoots
  <2>1. Unshaded(roots) \subseteq Reachable
    BY ReachableClosed DEF Unshaded, CollectorInv, BaseInv
  <2>2. Reachable' = Reachable
    BY <1>2 DEF ScanRoots, Reachable
  <2> QED
    BY <1>2, <2>1, <2>2 DEF ScanRoots, Gray
<1>3. ASSUME NEW g \in Objects, Trace(g) PROVE FullInv'
  <2>1. full = 2 => Unshaded(refs[g]) \subseteq Reachable /\ g \in Reachable
    BY <1>3, ReachableClosed DEF Unshaded, CollectorInv, BaseInv, Trace
  <2>2. Reachable' = Reachable
    BY <1>3 DEF Trace, Reachable
  <2>3. full' = full /\ first' = first /\ ~first
    BY <1>3 DEF Trace, Tracing
  <2>4. full # 3
    BY <1>3 DEF Trace, Tracing, CollectorInv, BaseInv, PhasesAgree
  <2>5. \A p \in Objects : where'[p] \in {"gray", "black"} =>
            p = g \/ p \in Unshaded(refs[g]) \/ where[p] \in {"gray", "black"}
    BY <1>3 DEF Trace
  <2> QED
    BY <2>1, <2>2, <2>3, <2>4, <2>5
<1>4. ASSUME Intact, NEW d \in Objects, Destruct(d) PROVE FullInv'
  <2>1. Reachable \subseteq Reachable'
    BY <1>4, DestructKeepsReachable DEF CollectorInv, BaseInv
  <2>2. \A o \in Objects : where'[o] \in {"gray", "black", "white"} => where'[o] = where[o]
    BY <1>4 DEF Destruct, CollectorInv, BaseInv, TypeOK
  <2>3. full' = full /\ first' = first
    BY <1>4 DEF Destruct
  <2> QED
    BY <2>1, <2>2, <2>3
<1>5. CASE NextCollection
  <2>1. Reachable' = Reachable
    BY <1>5 DEF NextCollection, Reachable
  <2>2. \A o \in Objects : /\ where'[o] # "black" /\ where'[o] # "gray"
                           /\ where'[o] = "white" => where[o] = "black"
    BY <1>5 DEF NextCollection, CycleDone, Flip, Reclaimed
  <2>3. full \in {1, 2} /\ full' = full + 1
    BY <1>5 DEF NextCollection
  <2> QED
    BY <2>1, <2>2, <2>3
<1>6. CASE TurnOff \/ EndFullCollect \/ Restart \/ BeginFullCollect
    BY <1>6 DEF TurnOff, EndFullCollect, Restart, BeginFullCollect
<1>7. CASE UNCHANGED vars
    BY <1>7 DEF vars, Reachable
<1> QED
    BY <1>1, <1>2, <1>3, <1>4, <1>5, <1>6, <1>7 DEF Next, CollectorStep

\* When a full collection returns, nothing that was unreachable is left but
\* the persistent strings.
THEOREM CollectorFullCollectReclaims == Spec => FullCollectReclaims
<1>1. Init => FullInv
    BY DEF Init, FullInv
<1>2. CollectorInv /\ FullInv /\ [Next]_vars => FullInv'
    BY FullStepSafe
<1>3. ASSUME CollectorInv, FullInv, [Next]_vars, full = 3, full' = 0,
             NEW o \in Objects \ Reachable
      PROVE  where'[o] \in {"none", "persistent"}
  <2>1. EndFullCollect
    BY <1>3 DEF Next, MutatorStep, CollectorStep, MutatorRuns, Allocate, Revive, AllocPermanant,
       Set, Load, Drop, ScanRoots, Trace, Destruct, TurnOff, NextCollection, Restart,
       BeginFullCollect, vars
  <2>2. where[o] \notin {"gray", "black", "white"}
    BY <1>3 DEF FullInv, In
  <2>3. where' = where /\ where[o] # "free"
    BY <2>1 DEF EndFullCollect, In
  <2>4. where[o] \in Segments
    BY <1>3 DEF CollectorInv, BaseInv, TypeOK
  <2> QED
    BY <2>2, <2>3, <2>4 DEF Segments
<1>4. CollectorInv /\ FullInv /\ [Next]_vars =>
        [(full = 3 /\ full' = 0) =>
            \A o \in Objects \ Reachable : where'[o] \in {"none", "persistent"}]_vars
    BY <1>3
<1> QED
    BY <1>1, <1>2, <1>4, CollectorInvariant, PTL DEF Spec, FullCollectReclaims

==============================================================================
