--------------------------- MODULE SquirrelCalls ---------------------------
(***************************************************************************)
(* Calls between C++ and Squirrel scripts (SquirrelScriptContext.cpp and   *)
(* SquirrelScriptStack.cpp).  All values cross the border on the stack of  *)
(* one VM, in a frame per level of C++ code; CallNative restores the       *)
(* caller's frame when a C++ function returns.  Unlike the Lua backend,    *)
(* SquirrelScriptStack pops what a call left with fixed numbers, and finds *)
(* classes through whatever value lies on top: what matters is not how     *)
(* many values a frame holds but which.                                    *)
(***************************************************************************)
EXTENDS Integers, Sequences, FiniteSets

CONSTANTS
    Functions, \* script functions that BeginCall can name
    MaxDepth,  \* bound on nested C++ functions
    MaxLen,    \* bound on the values on one frame
    MaxArgs,   \* bound on the parameters of a C++ function
    MaxOver,   \* bound on pops beyond what GetNumParams announces
    MaxDamage  \* bound on the kinds of damage that one run combines

ASSUME SquirrelAssumption ==
    /\ MaxDepth \in Nat /\ MaxLen \in Nat /\ MaxArgs \in Nat
    /\ MaxOver \in Nat /\ MaxDamage \in Nat
    /\ Functions \cap {"table", "this", "class", "value"} = {}

Level == 0..MaxDepth

\* What a slot may hold: the root table, the instance a method or constructor
\* runs on, a class, a function, or any other value.  Whether such a value has the
\* type that PopInt or PopScriptObject wants is left open.
Value == {"table", "this", "class", "value"} \cup Functions

\* The ways in which C++ or a script can leave a frame in disorder.
Damage == {"failed", "abandoned", "reassigned", "stray", "mixed", "overpopped"}

VARIABLES
    depth,    \* level of the innermost C++ code
    running,  \* running[l]: "no", or why level l runs a script: "string", "call"
    kind,     \* kind[l]: the C++ code at level l
    stk,      \* stk[l]: the frame of level l, _stack from _stackbase to _top
    params,   \* params[l]: m_numParams of the SquirrelScriptStack passed to level l
    pushed,   \* pushed[l]: its m_numPushed
    phase,    \* phase[l]: the call that level l makes
    fn,       \* fn[l]: the function that BeginCall was asked for
    args,     \* args[l]: m_numPushed of the call's SquirrelScriptStack
    results,  \* results[l]: its m_numParams
    mark,     \* mark[l]: how long the frame was before BeginCall
    damage,   \* damage[l]: what went wrong on the frame of level l
    known,    \* the class of the objects that C++ pushes is in m_classes
    inRoot,   \* it is in the root table
    fault     \* what ended the run, or "none"

frames == <<depth, running, kind, stk, params, pushed, phase, fn, args, results, mark, damage>>
vars == <<frames, known, inRoot, fault>>

Faults == {"none", "hang", "underflow", "detached", "lost"}
Fail(f) == fault' = f /\ UNCHANGED <<frames, known, inRoot>>

Init ==
    /\ depth = 0
    /\ running = [l \in Level |-> "no"]
    /\ kind = [l \in Level |-> "program"]
    /\ stk = [l \in Level |-> IF l = 0 THEN <<"table">> ELSE << >>]
    /\ params = [l \in Level |-> 0]
    /\ pushed = [l \in Level |-> 0]
    /\ phase = [l \in Level |-> "none"]
    /\ fn = [l \in Level |-> "none"]
    /\ args = [l \in Level |-> 0]
    /\ results = [l \in Level |-> 0]
    /\ mark = [l \in Level |-> 0]
    /\ damage = [l \in Level |-> {}]
    /\ known = FALSE
    /\ inRoot = FALSE
    /\ fault = "none"

InCPP == fault = "none" /\ running[depth] = "no"
InScript == fault = "none" /\ running[depth] # "no"

Frame == stk[depth]
Top == Frame[Len(Frame)]
Room(n) == Len(Frame) + n <= MaxLen
Popped(s, n) == SubSeq(s, 1, Len(s) - n)

\* A step that does damage of the kinds D to the frame.
Harm(D) ==
    /\ damage' = [damage EXCEPT ![depth] = @ \cup D]
    /\ Cardinality(UNION {damage'[l] : l \in Level}) <= MaxDamage

-----------------------------------------------------------------------------
(* The context *)

\* The last sq_createslot(-3) of RegisterUserClass: the class goes into the
\* value under its name when that is a table and the frame has three values.
\* It returns SQ_OK for any other value too, and leaves the pair on the frame.
Slotted == Len(Frame) >= 1 /\ Top = "table"
Registered(s) == IF Slotted THEN s ELSE s \o <<"value", "class">>

RegisterUserClass ==
    /\ InCPP /\ ~known /\ Room(2)
    /\ known' = TRUE
    /\ inRoot' = Slotted
    /\ stk' = [stk EXCEPT ![depth] = Registered(@)]
    /\ Harm(IF Slotted THEN {} ELSE {"stray"})
    /\ UNCHANGED <<depth, running, kind, params, pushed, phase, fn, args, results, mark, fault>>

\* A string that compiles: the function and its environment are pushed and,
\* when the script is over, popped.  One that does not leaves the VM alone.
ExecuteString ==
    /\ InCPP
    /\ running' = [running EXCEPT ![depth] = "string"]
    /\ UNCHANGED <<depth, kind, stk, params, pushed, phase, fn, args, results, mark, damage, known, inRoot, fault>>

\* The values that a level got, those it returns and those of the call it makes
\* lie on one frame: a call begun or a parameter popped after results were
\* pushed, and a result pushed or a parameter popped while a call is held, mix
\* them up.
Mixed == IF pushed[depth] > 0 THEN {"mixed"} ELSE {}
Kept == IF phase[depth] # "none" THEN {"mixed"} ELSE {}

\* A pop although GetNumParams, which is count, announces nothing more.
Over(count) == IF count > 0 THEN {} ELSE {"overpopped"}

\* Mutant: the root table is not pushed a second time, as the environment.
BeginCallNoEnvironment(f) ==
    /\ InCPP /\ phase[depth] = "none" /\ Room(2)
    /\ stk' = [stk EXCEPT ![depth] = @ \o <<"table", f>>]
    /\ phase' = [phase EXCEPT ![depth] = "open"]
    /\ fn' = [fn EXCEPT ![depth] = f]
    /\ args' = [args EXCEPT ![depth] = 0]
    /\ results' = [results EXCEPT ![depth] = 0]
    /\ mark' = [mark EXCEPT ![depth] = Len(Frame)]
    /\ Harm(Mixed)
    /\ UNCHANGED <<depth, running, kind, params, pushed, known, inRoot, fault>>

\* BeginCall of a function, held by a new ScriptCallPtr.
BeginCall(f) ==
    /\ InCPP /\ phase[depth] = "none" /\ Room(3)
    /\ stk' = [stk EXCEPT ![depth] = @ \o <<"table", f, "table">>]
    /\ phase' = [phase EXCEPT ![depth] = "open"]
    /\ fn' = [fn EXCEPT ![depth] = f]
    /\ args' = [args EXCEPT ![depth] = 0]
    /\ results' = [results EXCEPT ![depth] = 0]
    /\ mark' = [mark EXCEPT ![depth] = Len(Frame)]
    /\ Harm(Mixed)
    /\ UNCHANGED <<depth, running, kind, params, pushed, known, inRoot, fault>>

\* The same through ScriptCallPtr::operator= while the pointer holds a call:
\* the new values are pushed first, then ReleaseAfterCall of the old call pops
\* two of them.
ReassignCall(f) ==
    /\ InCPP /\ phase[depth] # "none" /\ Room(1)
    /\ stk' = [stk EXCEPT ![depth] = Append(@, "table")]
    /\ phase' = [phase EXCEPT ![depth] = "open"]
    /\ fn' = [fn EXCEPT ![depth] = f]
    /\ args' = [args EXCEPT ![depth] = 0]
    /\ results' = [results EXCEPT ![depth] = 0]
    /\ mark' = [mark EXCEPT ![depth] = Len(Frame)]
    /\ Harm({"reassigned"})
    /\ UNCHANGED <<depth, running, kind, params, pushed, known, inRoot, fault>>

\* Mutant: the name that sq_get could not resolve is popped, the table is not,
\* and neither is the value.
BeginCallLeavesValue ==
    /\ InCPP /\ phase[depth] = "none" /\ Room(2)
    /\ stk' = [stk EXCEPT ![depth] = @ \o <<"table", "value">>]
    /\ UNCHANGED <<depth, running, kind, params, pushed, phase, fn, args, results, mark, damage, known, inRoot, fault>>

\* BeginCall of a global that is no function: one value is popped for the two
\* that are there.  (sq_get pops the name of a global that does not exist, and
\* the frame is as before.)
BeginCallNotFunction ==
    /\ InCPP /\ phase[depth] = "none" /\ Room(1)
    /\ stk' = [stk EXCEPT ![depth] = Append(@, "table")]
    /\ Harm(Mixed)
    /\ UNCHANGED <<depth, running, kind, params, pushed, phase, fn, args, results, mark, known, inRoot, fault>>

-----------------------------------------------------------------------------
(* The SquirrelScriptStack of a call *)

PushArgument ==
    /\ InCPP /\ phase[depth] = "open" /\ Room(1)
    /\ stk' = [stk EXCEPT ![depth] = Append(@, "value")]
    /\ args' = [args EXCEPT ![depth] = @ + 1]
    /\ UNCHANGED <<depth, running, kind, params, pushed, phase, fn, results, mark, damage, known, inRoot, fault>>

\* PushNewScriptObject looks the class up in the value on top.  An unknown
\* class is registered first: where that fails the class lies on top, and is
\* instantiated although it was not found.
Instantiable == IF known THEN inRoot /\ Slotted ELSE TRUE

\* On an emptied frame sq_get reads what lies under it.
PushNewScriptObject(argument) ==
    /\ InCPP /\ IF argument THEN phase[depth] = "open" ELSE depth > 0
    /\ \/ known /\ Len(Frame) = 0 /\ Fail("underflow")
       \/ Len(Frame) > 0 /\ ~Instantiable /\ Fail("hang")
       \/ /\ Instantiable /\ Room(2) /\ pushed[depth] < MaxLen
          /\ stk' = [stk EXCEPT ![depth] =
                        IF Slotted THEN Append(@, "value") ELSE @ \o <<"value", "value">>]
          /\ known' = TRUE
          /\ inRoot' = (inRoot \/ Slotted)
          /\ Harm((IF Slotted THEN {} ELSE {"stray"}) \cup (IF argument THEN {} ELSE Kept))
          /\ args' = IF argument THEN [args EXCEPT ![depth] = @ + 1] ELSE args
          /\ pushed' = IF argument THEN pushed ELSE [pushed EXCEPT ![depth] = @ + 1]
          /\ UNCHANGED <<depth, running, kind, params, phase, fn, results, mark, fault>>

\* The value that sq_call(m_numPushed + 1) takes for the function.
CalleeIndex == Len(Frame) - args[depth] - 1
Callee(S) == CalleeIndex >= 1 /\ Frame[CalleeIndex] \in S

\* A value that a function was given or a script returned may be a function too.
EndCall ==
    /\ InCPP /\ phase[depth] = "open" /\ Callee(Functions \cup {"class", "value"})
    /\ running' = [running EXCEPT ![depth] = "call"]
    /\ UNCHANGED <<depth, kind, stk, params, pushed, phase, fn, args, results, mark, damage, known, inRoot, fault>>

\* sq_call fails: it pops the environment and the arguments, EndCall the
\* function and the root table.
CallFails ==
    /\ phase[depth] = "open"
    /\ \/ Len(Frame) < args[depth] + 3 /\ Fail("underflow")
       \/ /\ Len(Frame) >= args[depth] + 3
          /\ stk' = [stk EXCEPT ![depth] = Popped(@, args[depth] + 3)]
          /\ running' = [running EXCEPT ![depth] = "no"]
          /\ phase' = [phase EXCEPT ![depth] = "failed"]
          /\ Harm({"failed"})
          /\ UNCHANGED <<depth, kind, params, pushed, fn, args, results, mark, known, inRoot, fault>>

\* sq_call is asked to call something else than a function.
EndCallRefused == InCPP /\ ~Callee(Functions \cup {"class"}) /\ CallFails

\* PopInt of what is no number does nothing, PopScriptObject asserts an instance;
\* on an emptied frame both read what lies under it.
PopRefused ==
    \/ Len(Frame) = 0 /\ Fail("underflow")
    \/ Len(Frame) > 0 /\ Top # "this" /\ Fail("hang")

\* A successful PopInt or PopScriptObject takes the value on top, whatever
\* m_numParams says.
Poppable == Len(Frame) > 0 /\ Top \in {"value", "this"}

PopResult ==
    /\ InCPP /\ phase[depth] = "ended" /\ results[depth] > -MaxOver
    /\ \/ PopRefused
       \/ /\ Poppable
          /\ stk' = [stk EXCEPT ![depth] = Popped(@, 1)]
          /\ results' = [results EXCEPT ![depth] = @ - 1]
          /\ Harm(Over(results[depth]))
          /\ UNCHANGED <<depth, running, kind, params, pushed, phase, fn, args, mark, known, inRoot, fault>>

\* Mutant: a third value is popped, for the result that was not read.
ReleaseThree ==
    /\ InCPP /\ phase[depth] # "none"
    /\ \/ Len(Frame) < 3 /\ Fail("underflow")
       \/ /\ Len(Frame) >= 3
          /\ stk' = [stk EXCEPT ![depth] = Popped(@, 3)]
          /\ phase' = [phase EXCEPT ![depth] = "none"]
          /\ fn' = [fn EXCEPT ![depth] = "none"]
          /\ args' = [args EXCEPT ![depth] = 0]
          /\ results' = [results EXCEPT ![depth] = 0]
          /\ mark' = [mark EXCEPT ![depth] = 0]
          /\ Harm(IF phase[depth] = "open" THEN {"abandoned"} ELSE {})
          /\ UNCHANGED <<depth, running, kind, params, pushed, known, inRoot, fault>>

\* ~ScriptCallPtr pops two values, whatever the call came to.
ReleaseAfterCall ==
    /\ InCPP /\ phase[depth] # "none"
    /\ \/ Len(Frame) < 2 /\ Fail("underflow")
       \/ /\ Len(Frame) >= 2
          /\ stk' = [stk EXCEPT ![depth] = Popped(@, 2)]
          /\ phase' = [phase EXCEPT ![depth] = "none"]
          /\ fn' = [fn EXCEPT ![depth] = "none"]
          /\ args' = [args EXCEPT ![depth] = 0]
          /\ results' = [results EXCEPT ![depth] = 0]
          /\ mark' = [mark EXCEPT ![depth] = 0]
          /\ Harm(IF phase[depth] = "open" THEN {"abandoned"} ELSE {})
          /\ UNCHANGED <<depth, running, kind, params, pushed, known, inRoot, fault>>

-----------------------------------------------------------------------------
(* The script that level depth runs *)

\* Mutant: m_numParams is the number of values on the frame, as in the Lua
\* backend.
ScriptReturnsAll ==
    /\ InScript
    /\ running' = [running EXCEPT ![depth] = "no"]
    /\ \/ running[depth] = "string" /\ UNCHANGED <<stk, phase, results>>
       \/ /\ running[depth] = "call"
          /\ stk' = [stk EXCEPT ![depth] = Append(Popped(@, args[depth] + 1), "value")]
          /\ phase' = [phase EXCEPT ![depth] = "ended"]
          /\ results' = [results EXCEPT ![depth] = Len(Frame) - args[depth]]
    /\ UNCHANGED <<depth, kind, params, pushed, fn, args, mark, damage, known, inRoot, fault>>

\* sq_call replaces the environment and the arguments by one value, null if the
\* function returns nothing; ExecuteString asks for none and pops the function.
ScriptReturns ==
    /\ InScript
    /\ running' = [running EXCEPT ![depth] = "no"]
    /\ \/ running[depth] = "string" /\ UNCHANGED <<stk, phase, results>>
       \/ /\ running[depth] = "call"
          /\ stk' = [stk EXCEPT ![depth] = Append(Popped(@, args[depth] + 1), "value")]
          /\ phase' = [phase EXCEPT ![depth] = "ended"]
          /\ results' = [results EXCEPT ![depth] = 1]
    /\ UNCHANGED <<depth, kind, params, pushed, fn, args, mark, damage, known, inRoot, fault>>

ScriptFails ==
    /\ InScript
    /\ \/ running[depth] = "call" /\ CallFails
       \/ /\ running[depth] = "string"
          /\ running' = [running EXCEPT ![depth] = "no"]
          /\ UNCHANGED <<depth, kind, stk, params, pushed, phase, fn, args, results, mark, damage, known, inRoot, fault>>

-----------------------------------------------------------------------------
(* C++ functions, methods and constructors that the script calls *)

\* CallNative starts a frame with the instance or the table the function was
\* called on and its parameters; the callback pops the free variables.
EnterCallback(k, this, n) ==
    /\ InScript /\ depth < MaxDepth
    /\ k # "function" => this = "this"
    /\ depth' = depth + 1
    /\ kind' = [kind EXCEPT ![depth + 1] = k]
    /\ stk' = [stk EXCEPT ![depth + 1] = <<this>> \o [i \in 1..n |-> "value"]]
    /\ params' = [params EXCEPT ![depth + 1] = n]
    /\ UNCHANGED <<running, pushed, phase, fn, args, results, mark, damage, known, inRoot, fault>>

\* PopInt or PopScriptObject of a parameter.
PopParameter ==
    /\ InCPP /\ depth > 0 /\ params[depth] > -MaxOver
    /\ \/ PopRefused
       \/ /\ Poppable
          /\ stk' = [stk EXCEPT ![depth] = Popped(@, 1)]
          /\ params' = [params EXCEPT ![depth] = @ - 1]
          /\ Harm(Over(params[depth]) \cup Mixed \cup Kept)
          /\ UNCHANGED <<depth, running, kind, pushed, phase, fn, args, results, mark, known, inRoot, fault>>

\* PushInt or PushString of a result, also over an open call or while a finished
\* one is still held: its ReleaseAfterCall will then pop the result.
PushResult ==
    /\ InCPP /\ depth > 0
    /\ Room(1) /\ pushed[depth] < MaxLen
    /\ stk' = [stk EXCEPT ![depth] = Append(@, "value")]
    /\ pushed' = [pushed EXCEPT ![depth] = @ + 1]
    /\ Harm(Kept)
    /\ UNCHANGED <<depth, running, kind, params, phase, fn, args, results, mark, known, inRoot, fault>>

\* What a constructor finds on top when it attaches the new wrapper with
\* sq_setinstanceup(-1) is the new instance.
Attachable == Len(Frame) >= 1 /\ Top = "this"

\* CallNative takes the value on top for the result if the callback says that
\* it pushed any; a pushed value is never the root table, a class or a function.
Returnable == Len(Frame) >= 1 /\ Top = "value"

\* The end of the callback.  The result, or a constructor's m_numPushed, is
\* asserted; CallNative restores the frame of the caller.
LeaveCallback(result) ==
    /\ InCPP /\ depth > 0 /\ phase[depth] = "none"
    /\ \/ kind[depth] # "constructor" /\ ~result /\ Fail("hang")
       \/ kind[depth] = "constructor" /\ pushed[depth] # 0 /\ Fail("hang")
       \/ kind[depth] = "constructor" /\ pushed[depth] = 0 /\ ~Attachable /\ Fail("detached")
       \/ kind[depth] # "constructor" /\ result /\ pushed[depth] # 0 /\ ~Returnable /\ Fail("lost")
       \/ /\ \/ kind[depth] # "constructor" /\ result /\ (pushed[depth] # 0 => Returnable)
             \/ kind[depth] = "constructor" /\ pushed[depth] = 0 /\ Attachable
          /\ depth' = depth - 1
          /\ kind' = [kind EXCEPT ![depth] = "program"]
          /\ stk' = [stk EXCEPT ![depth] = << >>]
          /\ params' = [params EXCEPT ![depth] = 0]
          /\ pushed' = [pushed EXCEPT ![depth] = 0]
          /\ damage' = [damage EXCEPT ![depth] = {}]
          /\ UNCHANGED <<running, phase, fn, args, results, mark, known, inRoot, fault>>

Next ==
    \/ RegisterUserClass \/ ExecuteString \/ BeginCallNotFunction
    \/ \E f \in Functions : BeginCall(f) \/ ReassignCall(f)
    \/ \E b \in BOOLEAN : PushNewScriptObject(b) \/ LeaveCallback(b)
    \/ PushArgument \/ EndCall \/ EndCallRefused \/ PopResult \/ ReleaseAfterCall
    \/ ScriptReturns \/ ScriptFails
    \/ \E k \in {"function", "method", "constructor"}, this \in {"table", "this"}, n \in 0..MaxArgs :
          EnterCallback(k, this, n)
    \/ PopParameter \/ PushResult

Spec == Init /\ [][Next]_vars

-----------------------------------------------------------------------------
(* Properties *)

\* Type correctness.
TypeOK ==
    /\ depth \in Level
    /\ running \in [Level -> {"no", "string", "call"}]
    /\ kind \in [Level -> {"program", "function", "method", "constructor"}]
    /\ stk \in [Level -> Seq(Value)]
    /\ params \in [Level -> Int]
    /\ pushed \in [Level -> Nat]
    /\ phase \in [Level -> {"none", "open", "ended", "failed"}]
    /\ fn \in [Level -> Functions \cup {"none"}]
    /\ args \in [Level -> Nat]
    /\ results \in [Level -> Int]
    /\ mark \in [Level -> Nat]
    /\ damage \in [Level -> SUBSET Damage]
    /\ known \in BOOLEAN
    /\ inRoot \in BOOLEAN
    /\ fault \in Faults

\* sq_call finds the function that BeginCall was asked for right under the
\* environment and the arguments that EndCall announces, unless the ScriptCallPtr
\* was assigned a second call, a class was registered on top of the arguments, or
\* the level mixed the call with the values of its caller.
CalleePlaced ==
    \A l \in Level :
        (phase[l] = "open" /\ damage[l] \cap {"reassigned", "stray", "mixed"} = {}) =>
            /\ Len(stk[l]) = mark[l] + 3 + args[l]
            /\ SubSeq(stk[l], mark[l] + 1, mark[l] + 3) = <<"table", fn[l], "table">>

\* "After call to EndCall() [GetNumParams] indicates number of results left to
\* pop" (ScriptInterface.h:99): above the root table and the function lie as many
\* values as the SquirrelScriptStack announces.
ResultsCounted ==
    \A l \in Level :
        (phase[l] = "ended" /\ damage[l] \cap {"reassigned", "stray", "mixed"} = {}) =>
            Len(stk[l]) = mark[l] + 2 + results[l]

\* Between calls a frame holds what its level was given, what it pushes and, as
\* long as every call was ended, succeeded and had a ScriptCallPtr of its own and
\* nothing was popped or pushed out of turn,
\* nothing else than root tables: they leak, but RegisterUserClass and
\* PushNewScriptObject find a table where they expect one.
OnlyTablesLeak ==
    \A l \in Level :
        (l <= depth /\ phase[l] = "none" /\ damage[l] = {}) =>
            /\ Len(stk[l]) >= 1 + params[l] + pushed[l]
            /\ \A i \in (2 + params[l])..(Len(stk[l]) - pushed[l]) : stk[l][i] = "table"

\* The VM's stack is read or popped below a frame only after a call failed there
\* (both EndCall and ReleaseAfterCall pop its function) or the level popped more
\* than GetNumParams announced; a result is lost only when
\* results and calls were mixed, or a class was registered on top of it; a
\* constructor's wrapper gets lost only when it did not pop every parameter or
\* one of its calls left something behind.
FaultsExplained ==
    /\ fault = "underflow" => damage[depth] \cap {"failed", "overpopped"} # {}
    /\ fault = "lost" => damage[depth] \cap {"mixed", "stray"} # {}
    /\ fault = "detached" => params[depth] > 0 \/ damage[depth] # {} \/ Slotted

-----------------------------------------------------------------------------
(* The invariant behind them, level by level *)

\* A level that is not reached yet is blank, and sq_call runs only what EndCall
\* found under its arguments.
LevelOrder(l) ==
    /\ l > depth => /\ running[l] = "no" /\ pushed[l] = 0
                    /\ phase[l] = "none" /\ damage[l] = {}
    /\ running[l] = "call" => phase[l] = "open" /\ Len(stk[l]) >= args[l] + 2

\* c values are enough for a level with p parameters whose call, with n arguments
\* or r results, is in the phase ph.
Enough(c, ph, p, n, r) ==
    /\ ph # "failed" /\ p >= 0
    /\ ph = "none" => c >= 1 + p
    /\ ph = "open" => c >= 4 + p + n
    /\ ph = "ended" => r >= 0 /\ c >= 3 + p + r

\* However a frame was treated, it still holds the parameters and what the
\* present call will pop, until a failed call or the level itself popped too much.
LengthInv(l) ==
    (l <= depth /\ damage[l] \cap {"failed", "overpopped"} = {}) =>
        Enough(Len(stk[l]), phase[l], params[l], args[l], results[l])

\* On s, above the first m slots, lie the root table, f, the environment and n
\* arguments.
Placed(s, m, f, n) ==
    Len(s) = m + 3 + n /\ s[m + 1] = "table" /\ s[m + 2] = f /\ s[m + 3] = "table"

CalleeInv(l) ==
    (phase[l] = "open" /\ damage[l] \cap {"reassigned", "stray", "mixed"} = {}) =>
        Placed(stk[l], mark[l], fn[l], args[l])

ResultsInv(l) ==
    (phase[l] = "ended" /\ damage[l] \cap {"reassigned", "stray", "mixed"} = {}) =>
        Len(stk[l]) = mark[l] + 2 + results[l]

\* A result that was pushed between calls stays on top.
ValueOnTop(s) == Len(s) > 0 /\ s[Len(s)] = "value"

ResultOnTop(l) ==
    (pushed[l] > 0 /\ damage[l] \cap {"mixed", "stray"} = {}) =>
        phase[l] = "none" /\ ValueOnTop(stk[l])

\* The first g slots of s are what a level of kind k was given and has not taken,
\* p parameters, and leaked root tables.
Grounded(s, k, p, g) ==
    /\ 0 <= p /\ 1 + p <= g /\ g <= Len(s)
    /\ \A i \in (2 + p)..g : s[i] = "table"
    /\ k \in {"method", "constructor"} => s[1] = "this"

\* An undamaged frame stands on such slots, with the results or the call above.
CleanInv(l) ==
    (l <= depth /\ damage[l] = {}) =>
        /\ phase[l] = "none" => Grounded(stk[l], kind[l], params[l], Len(stk[l]) - pushed[l])
        /\ phase[l] # "none" => pushed[l] = 0 /\ Grounded(stk[l], kind[l], params[l], mark[l])
        /\ phase[l] = "ended" =>
              0 <= results[l] /\ results[l] <= 1 /\ Grounded(stk[l], kind[l], params[l], mark[l] + 1)

LevelInv(l) ==
    LevelOrder(l) /\ LengthInv(l) /\ CalleeInv(l) /\ ResultsInv(l) /\ ResultOnTop(l) /\ CleanInv(l)

SquirrelInv == TypeOK /\ FaultsExplained /\ \A l \in Level : LevelInv(l)
=============================================================================
