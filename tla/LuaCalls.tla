------------------------------ MODULE LuaCalls ------------------------------
(***************************************************************************)
(* Calls between C++ and Lua scripts (LuaScriptContext.cpp and             *)
(* LuaScriptStack.cpp).  One lua_State carries every value that crosses    *)
(* the border.  The C++ program runs at level 0; a C++ function called by  *)
(* a script runs one level deeper, on a Lua stack frame of its own, and    *)
(* may itself run scripts.  A LuaScriptStack does not hold values: it is a *)
(* pair of counters that have to agree with the frame it is used on.       *)
(* Values are abstracted to their number; whether the top one has the type *)
(* that PopInt or PopScriptObject wants is left open.                      *)
(***************************************************************************)
EXTENDS Integers

CONSTANTS
    MaxDepth,  \* bound on nested C++ functions
    MaxTop,    \* bound on the values on one frame, and on those one stack pushed
    MaxOver    \* bound on pops beyond what GetNumParams announces

ASSUME BoundAssumption == MaxDepth \in Nat /\ MaxTop \in Nat \ {0} /\ MaxOver \in Nat

Level == 0..MaxDepth

VARIABLES
    depth,    \* level of the innermost C++ code
    running,  \* running[l]: "no", or why level l runs a script: "string", "call"
    kind,     \* kind[l]: the C++ code at level l, "program", "function" or "constructor"
    top,      \* top[l]: lua_gettop on the frame of level l
    params,   \* params[l]: m_numParams of the LuaScriptStack passed to level l
    pushed,   \* pushed[l]: its m_numPushed
    phase,    \* phase[l]: the call that level l makes, "none", "open", "ended" or "failed"
    args,     \* args[l]: m_numPushed of its LuaScriptStack
    results,  \* results[l]: its m_numParams
    left,     \* left[l]: values on the frame that no LuaScriptStack counts
    mixed,    \* history: level l took or covered values of its caller's
              \* LuaScriptStack through that of its own call, or the reverse
    logger,   \* SetLogger was called
    class,    \* the class of the objects that C++ pushes is registered
    fault     \* what ended the run, or "none"

vars == <<depth, running, kind, top, params, pushed, phase, args, results, left, mixed, logger, class, fault>>
frames == <<depth, running, kind, top, params, pushed, phase, args, results, left, mixed>>

Phase == {"none", "open", "ended", "failed"}

\* "wedge": an assertion on lua_gettop; "hang": any other assertion;
\* "underflow": Lua is told of more values than the frame holds.
Faults == {"none", "wedge", "hang", "nullDeref", "underflow"}
Fail(f) == fault' = f /\ UNCHANGED <<frames, logger, class>>

Init ==
    /\ depth = 0
    /\ running = [l \in Level |-> "no"]
    /\ kind = [l \in Level |-> "program"]
    /\ top = [l \in Level |-> 0]
    /\ params = [l \in Level |-> 0]
    /\ pushed = [l \in Level |-> 0]
    /\ phase = [l \in Level |-> "none"]
    /\ args = [l \in Level |-> 0]
    /\ results = [l \in Level |-> 0]
    /\ left = [l \in Level |-> 0]
    /\ mixed = [l \in Level |-> FALSE]
    /\ logger = FALSE
    /\ class = FALSE
    /\ fault = "none"

InCPP == fault = "none" /\ running[depth] = "no"
InScript == fault = "none" /\ running[depth] # "no"

Positive(n) == IF n > 0 THEN n ELSE 0

\* How many values of the frame belong to the call that is being made: the
\* function under its arguments, the results, or the error message.
Held(l) ==
    CASE phase[l] = "open" -> 1 + args[l]
      [] phase[l] = "ended" -> Positive(results[l])
      [] phase[l] = "failed" -> 1
      [] OTHER -> 0

-----------------------------------------------------------------------------
(* The context *)

SetLogger ==
    /\ InCPP
    /\ logger' = TRUE
    /\ UNCHANGED <<frames, class, fault>>

\* Mutant: one of the two tables is left on the frame.
RegisterUserClassLeaves ==
    InCPP /\ ~class /\ Fail("wedge")

\* RegisterUserClass pops what it pushed and then asserts that the whole frame
\* is empty.
RegisterUserClass ==
    /\ InCPP /\ ~class
    /\ \/ top[depth] # 0 /\ Fail("wedge")
       \/ /\ top[depth] = 0
          /\ class' = TRUE
          /\ UNCHANGED <<frames, logger, fault>>

\* ExecuteString ignores the result of luaL_loadstring: after a syntax error
\* lua_pcall is asked to call the error message and leaves another one.  What a
\* script leaves stays on the frame, also on top of an open call.
ExecuteString(compiles) ==
    /\ InCPP
    /\ \/ /\ compiles
          /\ running' = [running EXCEPT ![depth] = "string"]
          /\ UNCHANGED <<depth, kind, top, params, pushed, phase, args, results, left, mixed, logger, class, fault>>
       \/ ~compiles /\ ~logger /\ Fail("nullDeref")
       \/ /\ ~compiles /\ logger /\ top[depth] < MaxTop
          /\ top' = [top EXCEPT ![depth] = @ + 1]
          /\ left' = [left EXCEPT ![depth] = @ + 1]
          /\ UNCHANGED <<depth, running, kind, params, pushed, phase, args, results, mixed, logger, class, fault>>

\* Mutant: BeginCall does not assert an empty frame.
BeginCallAnywhere(found) ==
    /\ InCPP /\ top[depth] < MaxTop
    /\ top' = [top EXCEPT ![depth] = IF found THEN @ + 1 ELSE @]
    /\ phase' = [phase EXCEPT ![depth] = IF found THEN "open" ELSE "none"]
    /\ args' = [args EXCEPT ![depth] = 0]
    /\ results' = [results EXCEPT ![depth] = 0]
    /\ UNCHANGED <<depth, running, kind, params, pushed, left, mixed, logger, class, fault>>

\* ScriptCallPtr call = context->BeginCall(name).  On a frame that is not empty
\* it reads the top value as a string, which may be NULL, and then asserts.  The
\* LuaScriptStack that the pointer held before is released.
BeginCall(found) ==
    /\ InCPP
    /\ \/ top[depth] # 0 /\ (Fail("wedge") \/ Fail("nullDeref"))
       \/ /\ top[depth] = 0
          /\ top' = [top EXCEPT ![depth] = IF found THEN 1 ELSE 0]
          /\ phase' = [phase EXCEPT ![depth] = IF found THEN "open" ELSE "none"]
          /\ args' = [args EXCEPT ![depth] = 0]
          /\ results' = [results EXCEPT ![depth] = 0]
          /\ UNCHANGED <<depth, running, kind, params, pushed, left, mixed, logger, class, fault>>

-----------------------------------------------------------------------------
(* The LuaScriptStack of a call *)

\* PushNewScriptObject registers an unknown class first, and that asserts an
\* empty frame.
Registrable(object) == object => class \/ top[depth] = 0

\* Mutant: a PushNewScriptObject that does not count its argument.
PushArgumentUncounted(object) ==
    /\ InCPP /\ phase[depth] = "open" /\ top[depth] < MaxTop
    /\ top' = [top EXCEPT ![depth] = @ + 1]
    /\ args' = [args EXCEPT ![depth] = IF object THEN @ ELSE @ + 1]
    /\ UNCHANGED <<depth, running, kind, params, pushed, phase, results, left, mixed, logger, class, fault>>

\* PushInt and PushString, or PushNewScriptObject when it is an object.
PushArgument(object) ==
    /\ InCPP /\ phase[depth] = "open"
    /\ \/ ~Registrable(object) /\ Fail("wedge")
       \/ /\ Registrable(object) /\ top[depth] < MaxTop /\ args[depth] < MaxTop
          /\ class' = (class \/ object)
          /\ top' = [top EXCEPT ![depth] = @ + 1]
          /\ args' = [args EXCEPT ![depth] = @ + 1]
          /\ UNCHANGED <<depth, running, kind, params, pushed, phase, results, left, mixed, logger, fault>>

\* EndCall: lua_pcall takes m_numPushed arguments and calls what lies under them.
EndCall ==
    /\ InCPP /\ phase[depth] = "open"
    /\ \/ top[depth] < 1 + args[depth] /\ Fail("underflow")
       \/ /\ top[depth] >= 1 + args[depth]
          /\ running' = [running EXCEPT ![depth] = "call"]
          /\ UNCHANGED <<depth, kind, top, params, pushed, phase, args, results, left, mixed, logger, class, fault>>

\* A pop takes the top of the frame, whatever the LuaScriptStack it is asked of
\* still counts.
Uncounted(count) ==
    left' = [left EXCEPT ![depth] = IF count > 0 \/ @ = 0 THEN @ ELSE @ - 1]

\* The values of a level's two LuaScriptStacks share a frame: a step that takes
\* or covers, through one of them, what the other counts is recorded.
Mixes(crossed) == mixed' = [mixed EXCEPT ![depth] = @ \/ crossed]

\* A successful PopInt or PopScriptObject of a result.
PopResult ==
    /\ InCPP /\ phase[depth] = "ended"
    /\ top[depth] > 0 /\ results[depth] > -MaxOver
    /\ top' = [top EXCEPT ![depth] = @ - 1]
    /\ results' = [results EXCEPT ![depth] = @ - 1]
    /\ Uncounted(results[depth])
    /\ Mixes(pushed[depth] > 0)
    /\ UNCHANGED <<depth, running, kind, params, pushed, phase, args, logger, class, fault>>

\* ~ScriptCallPtr, at any point of the call: it deletes the LuaScriptStack and
\* leaves the frame as it is.
ReleaseAfterCall ==
    /\ InCPP /\ phase[depth] # "none"
    /\ phase' = [phase EXCEPT ![depth] = "none"]
    /\ args' = [args EXCEPT ![depth] = 0]
    /\ results' = [results EXCEPT ![depth] = 0]
    /\ left' = [left EXCEPT ![depth] = @ + Held(depth)]
    /\ UNCHANGED <<depth, running, kind, top, params, pushed, mixed, logger, class, fault>>

-----------------------------------------------------------------------------
(* The script that level depth runs *)

\* What lies under the chunk or the function that runs.
Base == IF running[depth] = "call" THEN top[depth] - (1 + args[depth]) ELSE top[depth]

\* Mutant: EndCall forgets to set m_numParams.
ScriptReturnsUncounted(r) ==
    /\ InScript /\ Base + r <= MaxTop
    /\ top' = [top EXCEPT ![depth] = Base + r]
    /\ running' = [running EXCEPT ![depth] = "no"]
    /\ \/ /\ running[depth] = "call"
          /\ phase' = [phase EXCEPT ![depth] = "ended"]
          /\ left' = [left EXCEPT ![depth] = 0]
       \/ /\ running[depth] = "string"
          /\ left' = [left EXCEPT ![depth] = @ + r]
          /\ UNCHANGED phase
    /\ UNCHANGED <<depth, kind, params, pushed, args, results, mixed, logger, class, fault>>

\* lua_pcall returns r values; EndCall takes the height of the frame, with what
\* lay under the function, for the number of results.
ScriptReturns(r) ==
    /\ InScript /\ Base + r <= MaxTop
    /\ top' = [top EXCEPT ![depth] = Base + r]
    /\ running' = [running EXCEPT ![depth] = "no"]
    /\ \/ /\ running[depth] = "call"
          /\ phase' = [phase EXCEPT ![depth] = "ended"]
          /\ results' = [results EXCEPT ![depth] = Base + r]
          /\ left' = [left EXCEPT ![depth] = 0]
       \/ /\ running[depth] = "string"
          /\ left' = [left EXCEPT ![depth] = @ + r]
          /\ UNCHANGED <<phase, results>>
    /\ UNCHANGED <<depth, kind, params, pushed, args, mixed, logger, class, fault>>

\* lua_pcall fails: LuaCall logs the message and leaves it on the frame.
ScriptFails ==
    /\ InScript
    /\ \/ ~logger /\ Fail("nullDeref")
       \/ /\ logger /\ Base < MaxTop
          /\ top' = [top EXCEPT ![depth] = Base + 1]
          /\ running' = [running EXCEPT ![depth] = "no"]
          /\ \/ /\ running[depth] = "call"
                /\ phase' = [phase EXCEPT ![depth] = "failed"]
                /\ UNCHANGED left
             \/ /\ running[depth] = "string"
                /\ left' = [left EXCEPT ![depth] = @ + 1]
                /\ UNCHANGED phase
          /\ UNCHANGED <<depth, kind, params, pushed, args, results, mixed, logger, class, fault>>

-----------------------------------------------------------------------------
(* C++ functions, methods and constructors that the script calls *)

\* LuaFunctionCallback, LuaClassMethodCallback and LuaClassConstructorCallback
\* up to the user's function: n parameters are on the new frame, the object or
\* the class table that came with them has been removed.
EnterCallback(k, n) ==
    /\ InScript /\ depth < MaxDepth
    /\ depth' = depth + 1
    /\ kind' = [kind EXCEPT ![depth + 1] = k]
    /\ top' = [top EXCEPT ![depth + 1] = n]
    /\ params' = [params EXCEPT ![depth + 1] = n]
    /\ UNCHANGED <<running, pushed, phase, args, results, left, mixed, logger, class, fault>>

\* Mutant: PopScriptObject does not decrement m_numParams.
PopParameterUncounted ==
    /\ InCPP /\ depth > 0 /\ top[depth] > 0
    /\ top' = [top EXCEPT ![depth] = @ - 1]
    /\ UNCHANGED <<depth, running, kind, params, pushed, phase, args, results, left, mixed, logger, class, fault>>

\* A successful PopInt or PopScriptObject of a parameter.  "First pops parameters
\* from the stack, then pushes results" (ScriptInterface.h:21) is up to the user.
PopParameter ==
    /\ InCPP /\ depth > 0
    /\ top[depth] > 0 /\ params[depth] > -MaxOver
    /\ top' = [top EXCEPT ![depth] = @ - 1]
    /\ params' = [params EXCEPT ![depth] = @ - 1]
    /\ Uncounted(params[depth])
    /\ Mixes(Held(depth) > 0 \/ pushed[depth] > 0)
    /\ UNCHANGED <<depth, running, kind, pushed, phase, args, results, logger, class, fault>>

\* Mutant: m_numPushed++ for an object that was not pushed, as at the end of
\* the unimplemented PushScriptObject.
PushResultNothing(object) ==
    /\ InCPP /\ depth > 0 /\ top[depth] < MaxTop /\ pushed[depth] < MaxTop
    /\ pushed' = [pushed EXCEPT ![depth] = @ + 1]
    /\ top' = [top EXCEPT ![depth] = IF object THEN @ ELSE @ + 1]
    /\ Mixes(phase[depth] = "open")
    /\ UNCHANGED <<depth, running, kind, params, phase, args, results, left, logger, class, fault>>

\* PushInt, PushString or PushNewScriptObject of a result, also while a call is
\* open or still held.
PushResult(object) ==
    /\ InCPP /\ depth > 0
    /\ \/ ~Registrable(object) /\ Fail("wedge")
       \/ /\ Registrable(object) /\ top[depth] < MaxTop /\ pushed[depth] < MaxTop
          /\ class' = (class \/ object)
          /\ top' = [top EXCEPT ![depth] = @ + 1]
          /\ pushed' = [pushed EXCEPT ![depth] = @ + 1]
          /\ Mixes(phase[depth] = "open")
          /\ UNCHANGED <<depth, running, kind, params, phase, args, results, left, logger, fault>>

\* The end of the callback: the function's result and, for a constructor, that
\* it pushed nothing are asserted; the script gets m_numPushed values from the
\* top of the frame, or the new userdata.
LeaveCallback(result) ==
    /\ InCPP /\ depth > 0 /\ phase[depth] = "none"
    /\ \/ kind[depth] = "function" /\ ~result /\ Fail("hang")
       \/ kind[depth] = "constructor" /\ pushed[depth] # 0 /\ Fail("hang")
       \/ kind[depth] = "function" /\ result /\ pushed[depth] > top[depth] /\ Fail("underflow")
       \/ /\ \/ kind[depth] = "function" /\ result /\ pushed[depth] <= top[depth]
             \/ kind[depth] = "constructor" /\ pushed[depth] = 0
          /\ depth' = depth - 1
          /\ kind' = [kind EXCEPT ![depth] = "program"]
          /\ top' = [top EXCEPT ![depth] = 0]
          /\ params' = [params EXCEPT ![depth] = 0]
          /\ pushed' = [pushed EXCEPT ![depth] = 0]
          /\ left' = [left EXCEPT ![depth] = 0]
          /\ mixed' = [mixed EXCEPT ![depth] = FALSE]
          /\ UNCHANGED <<running, phase, args, results, logger, class, fault>>

Next ==
    \/ SetLogger \/ RegisterUserClass
    \/ \E b \in BOOLEAN :
          \/ ExecuteString(b) \/ BeginCall(b)
          \/ PushArgument(b) \/ PushResult(b) \/ LeaveCallback(b)
    \/ EndCall \/ PopResult \/ ReleaseAfterCall \/ PopParameter
    \/ \E r \in 0..MaxTop : ScriptReturns(r)
    \/ ScriptFails
    \/ \E k \in {"function", "constructor"}, n \in 0..MaxTop : EnterCallback(k, n)

Spec == Init /\ [][Next]_vars

-----------------------------------------------------------------------------
(* Properties *)

\* Type correctness.
TypeOK ==
    /\ depth \in Level
    /\ running \in [Level -> {"no", "string", "call"}]
    /\ kind \in [Level -> {"program", "function", "constructor"}]
    /\ top \in [Level -> Nat]
    /\ params \in [Level -> Int]
    /\ pushed \in [Level -> Nat]
    /\ phase \in [Level -> Phase]
    /\ args \in [Level -> Nat]
    /\ results \in [Level -> Int]
    /\ left \in [Level -> Nat]
    /\ mixed \in [Level -> BOOLEAN]
    /\ logger \in BOOLEAN
    /\ class \in BOOLEAN
    /\ fault \in Faults

\* lua_pcall finds the function right under the arguments that EndCall
\* announces, however scripts, functions and calls are nested: only a script run
\* since BeginCall that left a value, or a function that used the stack of its
\* caller in the middle of its own call, puts something else there.
CalleeUnderArguments ==
    \A l \in Level : (phase[l] = "open" /\ left[l] = 0 /\ ~mixed[l]) => top[l] = 1 + args[l]

\* "After call to EndCall() [GetNumParams] indicates number of results left to
\* pop" (ScriptInterface.h:99), unless a script run since left values of its own
\* or the function popped one stack's values through the other.
ResultsCounted ==
    \A l \in Level :
        (phase[l] = "ended" /\ left[l] = 0 /\ pushed[l] = 0 /\ ~mixed[l])
            => Positive(results[l]) = top[l]

\* "Within generic function indicates number of input parameters left to pop"
\* (ScriptInterface.h:99), as long as the function leaves nothing behind and keeps
\* its own call and its caller's values apart.
ParametersCounted ==
    \A l \in Level :
        (kind[l] # "program" /\ phase[l] = "none" /\ left[l] = 0 /\ pushed[l] = 0 /\ ~mixed[l])
            => Positive(params[l]) = top[l]

\* The values that a callback says it returns are on its frame, unless it popped
\* after it pushed or in the middle of a call.
ResultsBacked == \A l \in Level : ~mixed[l] => pushed[l] <= top[l]

\* The program's BeginCall and RegisterUserClass hang only on what an earlier
\* script or call of its own left behind.
OnlyLeftoversWedge ==
    (fault = "wedge" /\ depth = 0) => left[0] > 0 \/ Held(0) > 0

\* Values left at level 0 are there to stay: once there are any, no call of the
\* program ever begins again.
Wedged == left[0] > 0 /\ phase[0] = "none"
WedgedForEver == [][Wedged => Wedged']_vars

\* The test program goes on to ExecuteScriptFunction_ScriptAdd after a script
\* that FAILED (MultiScriptTest.cpp:519-524): once its classes are registered
\* and the calls before it are released, BeginCall does not hang.
CallsAfterFailure ==
    (fault = "wedge" /\ depth = 0 /\ class) => phase[0] # "none"

-----------------------------------------------------------------------------
(* The inductive invariant *)

\* Levels deeper than the innermost code are as in the initial state; a level
\* that runs a script waits for it, and only an open call waits for a function.
LevelsInv ==
    /\ kind[0] = "program" /\ params[0] = 0 /\ pushed[0] = 0 /\ ~mixed[0]
    /\ \A l \in Level :
          /\ l < depth => running[l] # "no"
          /\ l > depth => /\ running[l] = "no" /\ kind[l] = "program" /\ top[l] = 0
                          /\ params[l] = 0 /\ pushed[l] = 0 /\ phase[l] = "none" /\ left[l] = 0
                          /\ ~mixed[l]
          /\ 0 < l /\ l <= depth => kind[l] # "program"
          /\ running[l] = "call" => phase[l] = "open" /\ top[l] >= 1 + args[l]

\* Every value on a frame is accounted for.
StackAccounted ==
    \A l \in Level : ~mixed[l] => top[l] = left[l] + Positive(params[l]) + pushed[l] + Held(l)

\* A call begins on an empty frame: the level has pushed no result yet.
OpenInv ==
    \A l \in Level :
        (phase[l] = "open" /\ ~mixed[l]) => pushed[l] = 0

\* A level that makes a call has popped its parameters.
EndedInv ==
    \A l \in Level :
        (phase[l] # "none" /\ ~mixed[l]) => params[l] <= 0

\* The run ends in a wedge only on a frame that is not empty.
WedgeInv == fault = "wedge" => top[depth] # 0

CallInv == TypeOK /\ LevelsInv /\ StackAccounted /\ OpenInv /\ EndedInv
=============================================================================
