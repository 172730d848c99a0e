# MultiScript: a TLA+ model of its script bindings

MultiScript lets one C++ program register functions and classes with four script
engines (Lua, GameMonkey, Squirrel, OCaml) through one interface,
`src/multiscript/ScriptInterface.h`. The engines are vendored under `src/lua`,
`src/gm`, `src/squirrel` and `src/ocaml`; the program's own code is
`src/multiscript` and the example `src/multiscript_test`. Everything runs in one
thread. What is hard about it is re-entrancy: a C++ callback runs a script that
runs a C++ callback; an allocation runs a finaliser that runs a user's
destructor that calls back into the binding.

## 1. Inventory

| Component | State | Operations | Hard behaviour | Correct when |
|---|---|---|---|---|
| Interface (`ScriptInterface.h`) | `ScriptObject::m_objectPtr`, the pointers in `ScriptObjectPtr` and `ScriptCallPtr` | `Release`, `ReleaseAfterCall`; asserts loop for ever | `Release` is called from a user's destructor inside a callback | the user's destructor runs exactly when lines 72-76 say |
| Objects, Lua (`LuaScriptContext.cpp`, `LuaScriptStack.cpp`) | wrapper (`LuaScriptObject`), host (user's object), userdata, `m_lockedByScript` | constructor, `Destroy`, `__gc`, method and `ToString` callbacks; `PopScriptObject`, `PushScriptObject`, `PushNewScriptObject`; `delete context` | finalisers run inside `lua_newuserdata`, in the middle of a callback | no dangling userdata, no double delete, everything reclaimed |
| Objects, GameMonkey (`GMScriptContext.*`, `GMScriptStack.cpp`) | the same with a `gmUserObject` | the same | a host outlives its wrapper | the same |
| Objects, Squirrel (`SquirrelScriptContext.cpp`, `SquirrelScriptStack.cpp`) | the same with an instance, its user pointer and release hook | the same | reference counting: the hook runs inside `sq_pop`; pointer and hook go to what lies on top of the stack | the same, for objects that got the hook |
| Calls, Lua | Lua stack frames, `m_numParams`, `m_numPushed`, registered classes, logger | `ExecuteString`, `RegisterUserClass`, `BeginCall`, `EndCall`, `ReleaseAfterCall`, pops, pushes, function callbacks | nested scripts and calls share one `lua_State`; errors leave values | the counters agree with the frame; the context stays usable |
| Calls, Squirrel | VM stack, `m_numParams`, `m_numPushed`, registered classes | the same | `EndCall` and `ReleaseAfterCall` pop fixed numbers of values; classes are looked up in whatever lies on top | the function and the results are where they are looked for; the stack balances |
| Calls, GameMonkey (`GMScriptStack.cpp`, `gmCall.h`) | `gmCall` with a thread per call, `m_numParams`, `m_numPopped` | the same | a call in preparation is a running thread without a frame; errors are not reported | no thread without a frame is executed |
| Threads, GameMonkey (`gmMachine.cpp`, `gmThread.cpp`, `gmMachineLib.cpp`) | lists of running, blocked, sleeping and killed threads; blocks, signals, time stamps; `m_nextThread` | `Execute`, `Signal`, `Sys_Block`, `Sys_SwitchState`, `thread`, `yield`, `sleep`, `exit`, `threadKill`, `threadKillAll` | threads change the lists that `Execute` iterates, several C++ and script frames deep | lists, states and blocks agree; no thread is skipped or forgotten |
| Collector, GameMonkey (`gmIncGC.*`, `gmMachine.cpp`, `gmTableObject.cpp`) | one list in four colors, a persistent list, a color bit per object | allocation, write barrier, revival, scan, trace, destruct, flip, full collection | scripts change references between two increments | nothing reachable is freed; garbage is; every collection ends |
| Calls and build pipeline, OCaml (`OcamlScriptContext.cpp`, `OcamlScriptStack.cpp`, `byterun/`) | `m_values`, `m_result`, `m_dirtyFakedDLL`; the runtime's table of primitives, `pc` and named values, all global | `RegisterFunction`, `ExecuteString`, calls, function callbacks | a DLL that is built by hand; scripts, contexts and nested interpreters share the globals | scripts call the functions they name; nothing but nested OCaml code disturbs a running script |
| Test program (`MultiScriptTest.cpp`) | hosts with a `ScriptObjectPtr` to their wrapper | `SampleClass`, `NewSampleClass`, `ReplaceCPPObject`, `main` | - | - |
| Factory, formatting (`ScriptInterface.cpp`) | none | `Create`, `printf` | - | - |

The components meet in three places: the value stack of an engine (calls and
parameters), the wrapper (shared by the script, the user's object and the
callback that runs), and the user's functions and destructors, which every
backend calls and which call the backend again. `PROJECT.json` lists the hazards
with their lines.

## 2. Modules

| Module | Models |
|---|---|
| `ObjectLifetime` | the interface's promise: when a user's object is created, destroyed, collected or orphaned |
| `ScriptObjects` | wrapper, host and handle of each object; the user's classes; the lock protocol of `Destroy()` and of finalisers; the shared properties and the refinement mapping to `ObjectLifetime` |
| `LuaObjects`, `GMObjects`, `SquirrelObjects` | the callbacks of one engine, on top of `ScriptObjects` |
| `LuaCalls` | scripts, calls and callbacks over one `lua_State` |
| `SquirrelCalls` | the same over the stack of one Squirrel VM, value by value |
| `OcamlCalls` | the OCaml backend: contexts, the build pipeline, scripts, calls and callbacks |
| `ScriptContexts` | `ScriptContext::Create`: a program that chooses Squirrel or OCaml (composes the two modules above) |
| `GMThreads` | GameMonkey's threads, and the calls that the binding makes with them |
| `GMCollector` | GameMonkey's incremental collector and the scripts that run between its increments |
| `ScriptObjects_proofs` | lemmas on the steps that the Lua and GameMonkey objects share |
| `LuaObjects_proofs`, `GMObjects_proofs`, `SquirrelObjects_proofs` | theorems on the objects of one engine |
| `LuaCalls_proofs`, `ScriptContexts_proofs` | theorems on calls: Lua; Squirrel and OCaml |
| `GMThreads_proofs` | theorems on GameMonkey's threads and calls |
| `GMCollector_proofs` | theorems on the collector |

**Objects.** An object `o` is three pieces of memory: `wrapper[o]` with its fields
`objectPtr[o]` (`m_objectPtr` is not NULL) and `locked[o]`
(`m_lockedByScript`), `host[o]` with `backPtr[o]` (its `m_scriptObject`), and
`handle[o]`, what the script holds. `call` is the callback the script is in, `fin`
the finaliser that runs, possibly inside it. Callbacks are split exactly where the
engine or the user's code can re-enter: `BeginDestroy`, `RunDestructor`,
`EndDestroy` are lines 297, 298 and 299-300 of `LuaScriptContext.cpp`;
`FinalizeBody`, `FinalizeDestructor`, `FinalizeDelete` the three parts of the
finaliser; `LuaClassConstructorCallback` and `NewUserdata` the constructor before
and from `lua_newuserdata`. Using or freeing freed memory, a NULL dereference and
a failed assertion set `fault`, after which nothing happens any more (an assertion
loops for ever).

How the engines differ: Lua may finalise at `lua_newuserdata`; its finalisers do not
nest, since `GCTM` (`src/lua/src/lgc.c`) raises the threshold while one runs.
GameMonkey finalises only in `CollectGarbage` and in its machine's destructor.
Squirrel runs the release hook where the last reference goes. `PushScriptObject` is
an assertion that fails under Lua and Squirrel.

The user's code is that of the test program: destructors that delete the host if
there is one, constructors that hand the wrapper to a host that is
"scriptable" (derived from `BaseScriptableClass`), and `ReplaceCPPObject`, a
function that takes an object and returns a new one.

**Assumptions on the application**: in `LuaObjects` the application does not delete
a host that the script shares (`HostSpec` has it: run `lua_host_delete`); in
`GMObjects` it passes an object to the script only while the script refers to it
(`gm_host_push`). `SquirrelObjects` assumes nothing of the kind.

**Objects, Squirrel.** An instance reaches its wrapper through its user pointer, and the
constructor callback sets pointer and hook on the value on top of the stack
(`SquirrelScriptContext.cpp:255-258`). That is the new instance only if the user's
constructor popped every parameter. So `up[i]`, `hook[i]` and `handle[i]` are about
instance `i`, and `wrapper[o]` and `host[o]` about the object `o` they were made for; a
leftover parameter that is an instance comes to point at the wrapper of the new object
(`sq_setinstanceup`, `sqapi.cpp:592-598`) and takes the hook
(`sq_setreleasehook`, `sqapi.cpp:958-968`): its own wrapper is lost and its release frees
the new object's. A leftover class takes the hook alone, which is then called with the
class's NULL type tag (`classHook`, `ReleaseClass`); any other value takes nothing. Methods
of an instance that points at the wrapper of another class end in the fault "wrongClass". A
function may be given a temporary: the `sq_pop` in `PopScriptObject` then releases the
instance, and the wrapper it returns is gone (`PopScriptObject(i, TRUE)`,
`ReleasePopped`, `BadPopped`).

**Calls, Lua.** Level 0 is the program, level `l` a C++ function `l` callbacks deep.
For each level the model has `top[l]` (`lua_gettop` on its frame), the counters
`params[l]` and `pushed[l]` of the `LuaScriptStack` it was given, and the call it
makes: `phase[l]`, `args[l]`, `results[l]`. Values are abstracted to their number;
whether the top value has the type a pop wants is nondeterministic (a pop that
fails changes nothing). `left[l]` is a history variable: how many values of the
frame no `LuaScriptStack` counts any more. The two stacks a level may use, the one it
was given and the one of its call, share the frame, and nothing in the code keeps
them apart: scripts run between `BeginCall` and `EndCall`, results pushed while a call is
open, parameters popped after results ("first pops parameters from the stack, then
pushes results", `ScriptInterface.h:21`, is up to the user) and pops beyond what
`GetNumParams` announces are all steps of the model. The history variable `mixed[l]` is set
when a level takes or covers values of one stack through the other. A level has one call
at a time. Not in the model: coroutines, and `RegisterFunction`, which leaves the stack as
it found it.

**Calls, Squirrel.** The levels are the same, but the frame `stk[l]` is a sequence of
kinds of values (root table, instance, class, function, anything else): Squirrel's
binding pops fixed numbers of values and takes the value on top for a table, an
instance or a result. `mark[l]` remembers how long the frame was at `BeginCall`.
`damage[l]` is a history variable: which of the six ways to leave a frame in disorder
were used on it: a failed call, a call released without `EndCall`, a `ScriptCallPtr`
assigned twice, a class registered on top of other values, the caller's values and those
of a call mixed (results pushed or parameters popped while a call is open or held), and
more pops than `GetNumParams` announced, which take the instance and then what lies under
the frame. The properties say what holds without damage, and which damage a
fault takes. `MaxDamage` bounds how many kinds one run combines.

**OCaml.** `frames` is the nesting of interpreters, C++ functions and calls. A script is
the sequence of external functions it declares; compiled code calls a function by its
index, in the `table` that the script loaded last brought along, whichever script or
context the code is of. `pc` is the frame that the interpreter's global program
counter points into, and it is what decides whether a script goes on (`Executing`) or the
interpreter executes what is no code (`Derailed`): `Restore_after_c_call`
(`interp.c:71`) does not set `pc` back, so that a C++ function that ran OCaml code, by
`ExecuteString` or `EndCall`, returns to a script that cannot go on. The history variables
`nested` and `derailed` in the frames record this. `C_CALLn` passes as many arguments as
the script declared, whatever was registered; with too few, the callback makes
what the C stack holds a root of the collector, which counts as a crash. Primitives of
the runtime come before registered functions (`Builtins`). In which order parameters are
popped is not in the model: only how many are left. `custom_caml_init` starts the
runtime over, heap, stack and atoms included; of the modelled state that changes
`vm.c_functions` alone, and calling a closure of the old heap is taken to work. The compiler and the developer who builds the DLL from the
generated header are external: the first accepts a script whose functions the DLL
exports, the second may build at any time between scripts. A script registers at most
one closure (`named`), under one name, which every later `BeginCall` finds.

**Threads, GameMonkey.** `running`, `blocked`, `sleeping`, `killed` are the machine's
lists, `stack` the nested activations of `Sys_Execute`, each with the thread, why it was
entered (the loop of `Execute`, `ExecuteString`, a call) and whether it is in a C++
function. `phase`, `callee` and `valid` are the `gmCall` of each level of C++ code.
`owed` (threads that the iteration still has to reach), `wait` (how long a thread
still wants to sleep) and `harm` are history variables. An exception, `exit` and a
return end a thread alike.

**Collector, GameMonkey.** `where[o]` is the segment of the collector's list that object
`o` is on, `color[o]` its color bit; `refs[o]` what it refers to and `roots` what stacks,
globals and C++ refer to. The order in a segment only decides which gray object is
traced next and is left out, and so is how much work an increment does: the mutator
may run between any two objects. `full` counts the collections of a `FullCollect`, during
which the mutator does not run. `FullCollect` returns after a flip, with the root scan
still to come, and scripts run then like at any other time. The history variable
`exposed` remembers that a scan met a black object that refers to a white one, which
nothing will trace. `Intact` says that nothing reachable is freed; the model stops where
it fails, since the next access is undefined.

## 3. Runs

Passing runs:

* **lua_objects** (`LuaObjects`, four objects: one garbage collected, two scriptable
  that are not, one that is both). No userdata points at a deleted wrapper
  (`HandleBacked`), nothing freed is used or freed again (`NoMemoryFault`),
  `m_objectPtr` points at a live host (`HostBacked`), the lock does not outlive its
  callback (`LockScoped`), finalised objects are reclaimed (`Reclaimed`), only
  `Destroy()` destroys what is not garbage collected (`OnlyDestroyDestroys`), what
  is garbage collected is destroyed in the end (`EventuallyDestroyed`), and the
  module implements `ObjectLifetime` (`ImplementsLifetime`; `LifeOf` is the
  refinement mapping).
* **gm_objects**: the same questions for GameMonkey.
* **squirrel_objects**, with constructors that leave anything on the stack and functions
  that are given temporaries. No instance points at a deleted wrapper, whichever wrapper
  it points at (`InstanceBacked`); freed memory is used only by a function whose
  `PopScriptObject` popped the last reference to an instance with the hook
  (`OnlyTemporariesDangle`: the code does use it there); `m_objectPtr` points at a live
  host (`HostBacked`); releasing an instance with the hook reclaims what it points at
  (`HookedReclaimed`). `Reclaimed` does not hold: an instance without the hook, or whose
  pointer was overwritten, leaves its wrapper behind, which is the finding of
  `squirrel_residue`.
* **lua_calls** (`LuaCalls`): when `EndCall` runs the function lies right under its
  arguments (`CalleeUnderArguments`), `GetNumParams` is the number of results or
  parameters left (`ResultsCounted`, `ParametersCounted`), and a callback has the
  values it returns (`ResultsBacked`), as long as no script or call left a value on the
  frame and the level mixed nothing; the program's `BeginCall` and
  `RegisterUserClass` hang only on what an earlier script or call left
  (`OnlyLeftoversWedge`), and what was left is never removed (`WedgedForEver`).

* **script_contexts** (`ScriptContexts`). Squirrel: `sq_call` finds the function under its
  arguments (`CalleePlaced`); `GetNumParams` is the number of results
  (`ResultsCounted`); between calls that went well a frame has gathered nothing but root
  tables (`OnlyTablesLeak`: it does gather those, one per result that was not popped
  and per name that is no function); and each fault has its cause (`FaultsExplained`):
  the VM's stack is read or popped below a frame only after a failed call, which `EndCall`
  and `ReleaseAfterCall` both clean up after, or where the level popped more than it was
  given; a result is lost only when it was pushed
  while a call was held or a class was registered on top of it, and a constructor's
  wrapper goes to the wrong value only when parameters or values of a call were left.
  OCaml: a script loaded last calls functions of the names it wrote and of its own
  context, whatever DLL it was linked against (`OcamlRightFunction`; code of an older
  script does call wrong functions); and a script that runs has the interpreter's
  `pc` to itself, also after an exception that skipped C++ frames, unless a function it
  called ran OCaml code and returned (`OcamlPcAgrees`): that always derails it.
* **gm_threads** (`GMThreads`): each thread is in the one list of its state
  (`ListsAgree`); `Execute` passes over none (`NoThreadSkipped`); a thread is
  `SYS_PENDING` exactly if one of its blocks was signalled, as `Execute` asserts, and a
  blocked one has a block that a signal can reach (`BlocksAgree`); sleepers wake on time
  as long as the clock does not wrap (`WokenOnTime`); a signalled thread resumes
  (`SignalledResume`); and a thread without a frame, or one that is gone, is used only
  after the misuse that `FaultsExplained` names.
* **gm_collector** (`GMCollector`): nothing reachable is freed, until a root scan exposed an
  object (`ReachableKept`); exposed or not, color bits and segments agree
  (`ColorsAgree`) and `FullCollect` leaves no garbage (`FullCollectReclaims`); a collection
  that scanned the roots ends however busy the scripts are (`CycleEnds`).

Runs that end in a violation, each a disagreement between the code and its comments
or the test program (`findings` in `PROJECT.json` quotes them):

* **lua_host_delete**: `Release` does not notify the script, it frees the wrapper
  under the userdata.
* **gm_host_push**: an object that the script dropped and the collector took cannot
  be passed to the script again; its `m_scriptObject` dangles.
* **squirrel_residue**: when a constructor leaves a parameter on the stack, hook and user
  pointer are set on that parameter if it is an instance and nowhere otherwise; the object
  is not destructed when its instance goes. Also an object from `PushNewScriptObject` has
  no hook.
* **lua_calls_failure**: after a script that failed, `BeginCall` hangs, where the test
  program prints `FAILED` and goes on.
* **gm_collector_early**: `FullCollect` ends with a flip, which leaves the collector on and
  its root scan undone. A table that a script creates before the next increment is
  black at once and never traced; an object moved from the stack into it is freed
  (`Intact` fails). The test program collects fully and then runs scripts.

**Bounds.** Objects interact only in pairs: a finaliser inside a callback on another
object, or `ReplaceCPPObject`. Four objects give every class combination that the
code tells apart twice over; an identity is used for one object, so runs are finite
without a counter. In `LuaCalls`, `MaxDepth = 1` has a program and a function that
itself runs scripts and calls (a deeper function meets the same frames);
`MaxTop = 3` holds a function, an argument and a value more; `MaxOver = 1` is a pop
beyond what was announced. The proofs need none of these bounds.

`ScriptContexts` has one level of C++ functions, as in `LuaCalls`, frames of up to five
values (two calls' worth of leftovers under a call), one kind of damage at a time, one pop
too many, two functions that a call can confuse; two OCaml contexts one after the other, two
functions per context and two scripts, so that one can run on the table of the
other, a name that is also a primitive of the runtime, and four frames: script, function,
call, script. With arity 3 in `Arities` the
registration that is refused is among the inputs. `GMThreads` has three threads (one
that runs, one it acts on, one in the list behind), a pool of one killed thread so that
it overflows, a clock that wraps after three units, C++ code two levels deep, one
signal with which a thread may block twice. `MaxWork` bounds the threads and C++ calls of
one `Execute`; a turn without end is the script's own fault. `GMCollector` has two tables
and a string, enough for a chain, a cycle and a revived string; the proof covers the rest.

The larger runs: `script_contexts` has 5.1 million states, `squirrel_objects` 880,000 and
`gm_collector` 500,000.

**Deadlock** is not checked: a fault, a closed context and a freed object that is in use end
the run.

**Fairness** (`LuaObjects`, for `EventuallyDestroyed` only). A callback and a
finaliser that began run to their end: they are straight-line C++ (weak fairness on
their steps). While `lua_close` runs it finalises every userdata (weak fairness on
the finaliser in state "closing"). The program deletes its contexts, as
`MultiScriptTest.cpp:483` and `:527` do; the script may be inside a callback again
and again before that, hence strong fairness on `CloseContext`. Nothing is assumed
of the collector while the context is open.

In `GMThreads` (for `SignalledResume`) something happens as long as something can: the
program is a loop that calls `Execute` again (`src/gm/src/gme/gme.cpp:433` is the one in
the repository), and `MaxWork` stands for turns that end. In `GMCollector` (for
`CycleEnds`) the collector's next step is taken in the end, since `Execute` closes with
`CollectGarbage`; nothing is assumed of when a collection starts.

## 4. Proofs

**Objects.** `LuaObjects_proofs`, `GMObjects_proofs` and `SquirrelObjects_proofs` prove
every safety property of the three object runs and the action property
`OnlyDestroyDestroys`, and for Lua and GameMonkey the refinement of `ObjectLifetime`, for every set `Obj` and every
choice of `GarbageCollected` and `Scriptable` (`ObjAssumption`: they are subsets of
`Obj`, and `NoObj` is none of them). Each argument is one inductive invariant:

    LuaInv = ObjInv /\ AllocInv /\ GCInv /\ Reclaimed
    GMInv  = ObjInv /\ ConstructInv /\ GCInv /\ Reclaimed
    ObjInv = TypeOK /\ FramesInv /\ DestroyInv /\ FinalizeInv /\ MemoryInv /\ NoMemoryFault

None of the properties is inductive alone. That a callback finds its wrapper alive
after the user's destructor needs that it is locked there (`DestroyInv`,
`FinalizeInv`); that the lock is not taken by two callbacks at once needs that a
finaliser never runs on the object of the callback it interrupts (`FramesInv`).
`MemoryInv` relates wrapper, host and handle between callbacks. These parts are the
same for Lua and GameMonkey, and so are the lemmas of `ScriptObjects_proofs` on the steps
they share. The engines differ in what a callback may be interrupted by:

* Lua finalises in `lua_newuserdata`; `AllocInv` says that a new object has no handle
  before that, and no allocation happens inside `Destroy()`.
* GameMonkey runs the user's constructor while the script's object exists already;
  `ConstructInv` says that the host does not exist then, so that nothing reads it.

`GCInv` says that a garbage collected object keeps its `m_objectPtr` (once it has one),
so that its finaliser does run the destructor.

The refinement goes through four kinds of steps (`HostStep` in `ScriptObjects_proofs`):
no host changes, one is created, one is destroyed, or one handle is collected. The
invariant shows that each action is of one of these kinds; that the kinds are steps
or stutters of `ObjectLifetime` (`LifeStep`), and that they obey `OnlyDestroyDestroys`
(`HostStepDestroys`), is then proved once for both engines. `TypeOK` is proved
(`LuaTypeCorrect`) and in no run of its own.

Under Squirrel an instance and a wrapper are not tied to each other, and the invariant is
its own:

    SqInv = SqTypeOK /\ SqFramesInv /\ SqDestroyInv /\ SqFinalizeInv
            /\ PointersInv /\ SqMemoryInv /\ OnlyTemporariesDangle /\ HookedReclaimed

`PointersInv` is its heart: at most one instance points at a wrapper, since a wrapper is
attached once, to one value, and as long as that instance is not released, or has no hook,
the wrapper is there. Whatever constructors left on the stack, a release therefore
frees a wrapper that no other instance uses, and `InstanceBacked` follows. The lifetime of
`ObjectLifetime` is not claimed: a hook on a foreign instance destroys a garbage collected
host while the script still holds the instance made for it.

**Calls.** `LuaCalls_proofs` proves every property of `lua_calls` for all bounds
(`BoundAssumption`), from

    CallInv = TypeOK /\ LevelsInv /\ StackAccounted /\ OpenInv /\ EndedInv

`StackAccounted` is the heart: the height of each frame is what is left over, plus the
parameters not yet popped, plus the results pushed, plus what the call in progress
holds, on every frame that its level has not mixed up. `OpenInv` says that a call in the
making has no results of its level beside it, `EndedInv` that there are no parameters
under it, which is what the assertion in `BeginCall` is for. `OnlyLeftoversWedge` needs one more
fact (`WedgeInv`): the run wedges only on a frame that is not empty.

`ScriptContexts_proofs` proves every property of `script_contexts`, as theorems of
`ContextsSpec`. Steps of one language leave the other's state alone, so that there are
two invariants. For Squirrel,

    SquirrelInv = TypeOK /\ FaultsExplained /\ \A l \in Level : LevelInv(l)
    LevelInv(l) = LevelOrder /\ LengthInv /\ CalleeInv /\ ResultsInv /\ ResultOnTop /\ CleanInv

for all bounds (`SquirrelAssumption`). It is stated level by level because a step touches
the frame of one level and at most creates or ends the one above; the lemma `OneLevel`
reduces the invariance to that of the frames touched. Each conjunct holds under its own
kinds of damage:

* `LengthInv` holds until a call failed or the level popped too often. The frame is long
  enough (`Enough`) for the parameters and for what the present call will pop, whatever was
  left, mixed or registered on top. It is why nothing else reaches below the frame.
* `CalleeInv` and `ResultsInv` need that no `ScriptCallPtr` was assigned twice, no class was
  registered on top and nothing was mixed. They say exactly what lies above `mark[l]` (`Placed`),
  which `CalleePlaced` and `ResultsCounted` follow from.
* `CleanInv` needs that nothing went wrong. What the level was given and leaked root
  tables are all there is under the results or the call (`Grounded`). Popping the
  results of a call takes its values and leaves one root table, so that the ground
  grows by one slot: `OnlyTablesLeak` alone is not inductive, since it says nothing
  while a call is held.

For OCaml,

    OcamlInv = OcamlTypeOK /\ FunctionsInv /\ TableInv /\ (\A f \in Range(frames) : Sound(f))
               /\ Stacked(frames) /\ PcInv(frames, pc)

for any names, contexts, scripts and frames; `OcamlAssumption` says that arities are
natural numbers. `FunctionsInv` (the vector holds functions of this context only) gives
`TableInv` when a script is loaded (the table of primitives is that of the last script,
name by name, of its context or the runtime's own), and this gives `Sound` when the
interpreter calls a function. `PcAgrees` speaks of the innermost frame only; `PcInv` adds
that `pc` still points at the script that called a C++ function as long as that function
ran no OCaml code, which is when nothing but calls not yet ended lie above it
(`Stacked`). An exception that skips C++ frames sets `pc` to the interpreter it reaches. That there is a nearest one, and a first function of a
name in the vector, rests on the well-foundedness of the natural numbers
(`WellFoundedInduction`).

**Threads.** `GMThreads_proofs` proves every safety property of `gm_threads`, the action
property `WokenOnTime` among them, for all sets of threads and signals, delays and bounds
(`GMAssumption`: the bounds are natural numbers and `MaxDepth` at least one, as some
thread has to be executed; delays are shorter than the clock's period), from

    GMInv = ListInv /\ BlockInv /\ SleepInv /\ StackInv /\ CallsInv /\ FrameInv /\ HarmInv

which is defined at the end of `GMThreads`, where TLC can check it on the instance of
`gm_threads`.

* `ListInv` has `ListsAgree`, and for `NoThreadSkipped` the fact `Ahead`: the threads
  owed a turn are behind the iterator in the running list. The second follows from the
  first only together with it: that a thread leaving the list does not lose the iterator
  needs that it is there once. `AheadWithout` is the lemma for the threads that are
  killed while the list is iterated.
* `BlockInv` is `BlocksAgree` with the types of blocks and signals.
* `SleepInv` says that the sleeping threads are in the order of their stamps (so that it
  is enough that `Execute` looks at the first), and that a stamp is the present time plus
  what the thread still wants to sleep, modulo `Wrap`. `WokenOnTime` is the step from
  there to the comparison that `Execute` makes; its condition that neither the clock nor the
  stamp passes its end is used where the remainders are removed.
* `StackInv`, `CallsInv` and `FrameInv` are what `FaultsExplained` needs, which says
  nothing before a fault. Only the innermost thread is in its script; a thread used
  further down is running unless a script killed it, and is used only once; a call
  belongs to C++ code that is under way, and its thread runs, without a frame until
  `EndCall`. Therefore a running thread without a frame is that of an open call, which the
  iteration meets only if the program interrupted or abandoned it (`HarmInv`), or of a
  C++ function used as a thread.

The step of each action is one lemma (`ExecuteKeeps`, `SpawnKeeps`, ...), put together from one
lemma for each part that the action can disturb. They rest on lemmas about lists
(append, insert in order, tail, removal): what `Without` removes, and that it keeps
the order, is proved by looking for a least counterexample (`LeastNumber`, `UpTo`), since
`Without` is defined by a recursive function.

**Collector.** `GMCollector_proofs` proves the three safety properties of `gm_collector` for all sets of
objects and strings, from

    CollectorInv = BaseInv /\ (~exposed => NoDangling /\ TracingSafe)
    BaseInv      = TypeOK /\ ColorsAgree /\ PhasesAgree /\ LeavesAgree

"Nothing reachable is freed" is not inductive: whether a white object is safe depends on
what the tracer has still to visit. `TracingSafe` is the snapshot argument. A set of
objects *covers* if it holds the gray objects and, with each of its objects that is
not black, the white objects this one refers to; every covering set holds each white
object that a root or a black object refers to: there is a path of white objects to
it from a gray one. The write barrier keeps this true, since it grays what an
assignment cuts off. When the gray list is empty the empty set covers, so nothing
white is in use and the flip may free it. `NoDangling` (roots and objects that exist
refer to objects that exist) is then all that `ReachableKept` needs. `PhasesAgree` says
when the collector may be off and have gray objects, `LeavesAgree` that strings refer
to nothing, which is why a string may be revived black.
Between a flip and the scan that follows it black objects may refer to white ones; if they
still do when the scan is over, `exposed` is set and the second part is given up.
`BaseInv`, and with it `ColorsAgree` and `FullCollectReclaims`, does not depend on it.
`FullCollectReclaims` needs one more invariant (`FullInv`), on what the second of the
two collections may still find black.

Only model-checked: `EventuallyDestroyed`, `SignalledResume` and `CycleEnds` (liveness
under fairness is beyond the prover), and of course the violations.

## 5. Not modelled

* Lexers, parsers, code generators, instruction interpreters, standard libraries and
  tools of the four engines, which make up most of the repository: third-party,
  sequential, and about data without bound. What the bindings use of them is part of
  the actions. A model of a parser or of an instruction set would be a
  transliteration.
* Lua: coroutines; `RegisterFunction`, which leaves the stack as it found it.
* GameMonkey's calls: the parameters on the call's stack and the counters
  `m_numParams`, `m_numPopped`. Threads: the debugger's `EXCEPTION` state, the `state()`
  functions, and a C++ function used as a thread that sleeps or blocks. Collector:
  destructors that allocate, `DestructAll` when the machine is deleted, the traces of
  other objects than tables, and the user objects of the binding, whose
  `GMClassTraceCallback` traces nothing.
* OCaml: `RegisterUserClass` fills a list that nothing reads; the print callback and its
  static `s_instance`; a fatal error without a logger; memory that
  `custom_caml_register_c_function` allocates for a pointer and uses for a structure is
  taken to suffice.
* Formatting, logging, method dispatch by index.

## 6. Plan

1. An abstract specification of a call (begin, push, end, pop, release) that each
   backend's calls are compared with.
