----------------------------- MODULE OcamlCalls -----------------------------
(***************************************************************************)
(* The OCaml backend: OcamlScriptContext, OcamlScriptStack and the parts   *)
(* of the OCaml runtime that multiscript changed for them                  *)
(* (byterun/custom_startup.c, dynlink.c, interp.c).                        *)
(*                                                                         *)
(* A script is compiled against a DLL whose source the context generates   *)
(* and a developer builds by hand.  Loading it replaces the runtime's one  *)
(* table of primitives: a primitive call in compiled code is an index into *)
(* whichever table is there when the call is made.  The program counter is *)
(* a global of the interpreter, shared by all activations of it.  Neither  *)
(* the table of primitives nor the values that scripts registered for C++  *)
(* belong to a context: they outlive it.                                   *)
(*                                                                         *)
(* Scripts are told apart by the external functions they name, in order;   *)
(* each registers at most one closure for C++, under one name.             *)
(***************************************************************************)
EXTENDS Naturals, SequencesExt

CONSTANTS
    Names,         \* names of C functions
    Builtins,      \* those that caml_names_of_builtin_cprim lists
    Arities,       \* m_numParams of the functions that are registered
    MaxContexts,   \* contexts created one after the other
    MaxFunctions,  \* functions registered in one context
    MaxScripts,    \* scripts loaded
    MaxFrames      \* nesting of interpreter, C++ functions and calls

VARIABLES
    context,    \* number of contexts created so far
    functions,  \* vm.c_functions, and m_functions of the present context
    dirty,      \* m_dirtyFakedDLL
    header,     \* the functions FakeDLL.h declares
    dll,        \* {} without a built FakeOcamlDLL.dll, else {the functions it exports}
    code,       \* the scripts loaded so far, in order
    table,      \* caml_prim_table and its user data
    named,      \* the script whose closure caml_named_value finds, 0 when none
    frames,     \* what is running, innermost last
    pc,         \* the frame whose code the interpreter's pc points into
    control     \* "ok", or how the program came to a stop

ocamlVars == <<context, functions, dirty, header, dll, code, table, named, frames, pc, control>>
linking == <<context, functions, dirty, header, dll, code, table>>

MaxParameters == 2    \* there is no callback for more
Function == [name : Names, arity : Arities, context : 1 .. MaxContexts]
Builtin == [name : Builtins, arity : {0}, context : {0}]  \* a primitive of the runtime

Depth == Len(frames)
Top == Last(frames)
Interpreting == control = "ok" /\ Depth > 0 /\ Top.kind = "script"
\* The interpreter executes what its pc points at: the code of the script.
Executing == Interpreting /\ pc = Depth
InFunction == control = "ok" /\ Depth > 0 /\ Top.kind = "function"
InCall == control = "ok" /\ Depth > 0 /\ Top.kind = "call"
\* C++ code runs, in the program or in a function called by a script.
InCPP == control = "ok" /\ context > 0 /\ (Depth > 0 => Top.kind # "script")

Push(frame) == frames' = Append(frames, frame)
Pop == frames' = Front(frames)
Replace(frame) == frames' = [frames EXCEPT ![Depth] = frame]

\* History: a C++ function that OCaml code runs inside of is marked.
Marked(f) == IF f.kind = "function" THEN [f EXCEPT !.nested = TRUE] ELSE f

\* A new activation of the interpreter takes the one pc.
Start(script) ==
    /\ frames' = Append([i \in DOMAIN frames |-> Marked(frames[i])],
                        [kind |-> "script", code |-> script, derailed |-> FALSE])
    /\ pc' = Depth + 1

OInit ==
    /\ context = 0
    /\ functions = <<>>
    /\ dirty = TRUE
    /\ header = {}
    /\ dll = {}
    /\ code = <<>>
    /\ table = <<>>
    /\ named = 0
    /\ frames = <<>>
    /\ pc = 0
    /\ control = "ok"

\* The program stops: MultiScriptAssert loops for ever ("hang"), memory is not
\* what it should be ("crash"), or the runtime ends the process ("exit").
Stop(how) == control' = how /\ frames' = <<>> /\ pc' = 0

------------------------------------------------------------------------------
(***************************************************************************)
(* Contexts, registration and the DLL.                                     *)
(***************************************************************************)

\* Mutant: the functions of the earlier context stay registered.
CreateContextKeeps ==
    /\ control = "ok"
    /\ frames = <<>>
    /\ context < MaxContexts
    /\ context' = context + 1
    /\ dirty' = TRUE
    /\ UNCHANGED <<functions, header, dll, code, table, named, frames, pc, control>>

\* CreateContext: custom_caml_init starts the runtime over with a new heap, stack
\* and atom table.  Of what is modelled it changes vm.c_functions only: the table
\* of primitives and the table of named values keep what they point at.
CreateContext ==
    /\ control = "ok"
    /\ frames = <<>>
    /\ context < MaxContexts
    /\ context' = context + 1
    /\ functions' = <<>>
    /\ dirty' = TRUE
    /\ UNCHANGED <<header, dll, code, table, named, frames, pc, control>>

\* RegisterFunction: a second function of the same name is added as well.
RegisterFunction(f) ==
    /\ InCPP
    /\ f.context = context
    /\ f.arity <= MaxParameters
    /\ Len(functions) < MaxFunctions
    /\ functions' = Append(functions, f)
    /\ dirty' = TRUE
    /\ UNCHANGED <<context, header, dll, code, table, named, frames, pc, control>>

\* A developer builds the DLL from the generated header.
BuildDLL ==
    /\ control = "ok"
    /\ frames = <<>>
    /\ dll' = {header}
    /\ dll' # dll
    /\ UNCHANGED <<context, functions, dirty, header, code, table, named, frames, pc, control>>

\* RebuildFakeDLL, when it is called for.
RebuiltHeader == IF dirty THEN {functions[i].name : i \in DOMAIN functions} ELSE header

------------------------------------------------------------------------------
(***************************************************************************)
(* ExecuteString.                                                          *)
(***************************************************************************)
Scripts == {s \in SeqOf(Names, 2) : IsInjective(s)}

\* ocamlc finds every external function of the script in the DLL or among the
\* primitives of the runtime.  How many parameters it has nobody compares.
Compiles(s) == \E exports \in dll : Range(s) \subseteq exports \cup Builtins

Registered(name) == {i \in DOMAIN functions : functions[i].name = name}

\* lookup_primitive: a primitive of the runtime goes before any registered
\* function, then the first of that name is taken; shared libraries are not
\* opened any more.
LookupPrimitive(name) ==
    IF name \in Builtins THEN [name |-> name, arity |-> 0, context |-> 0]
    ELSE functions[Min(Registered(name))]

\* The DLL is missing or the compiler reports an error: ExecuteString returns
\* false, and the header is taken to be up to date from now on.
ExecuteStringFails ==
    /\ InCPP
    /\ dirty
    /\ header' = RebuiltHeader
    /\ dirty' = FALSE
    /\ UNCHANGED <<context, functions, dll, code, table, named, frames, pc, control>>

\* The DLL exports a function that the context does not have: the runtime's
\* fatal error callback asserts.
ExecuteStringUnknown(s) ==
    /\ InCPP
    /\ Compiles(s)
    /\ \E name \in Range(s) \ Builtins : Registered(name) = {}
    /\ header' = RebuiltHeader
    /\ dirty' = FALSE
    /\ Stop("hang")
    /\ UNCHANGED <<context, functions, dll, code, table, named>>

\* custom_caml_load_code and custom_caml_run_code: the new table takes the
\* place of the old one, and the interpreter starts.
ExecuteString(s) ==
    /\ InCPP
    /\ Depth < MaxFrames
    /\ Len(code) < MaxScripts
    /\ Compiles(s)
    /\ \A name \in Range(s) \ Builtins : Registered(name) # {}
    /\ header' = RebuiltHeader
    /\ dirty' = FALSE
    /\ code' = Append(code, [names |-> s, context |-> context])
    /\ table' = [i \in DOMAIN s |-> LookupPrimitive(s[i])]
    /\ Start(Len(code) + 1)
    /\ UNCHANGED <<context, functions, dll, named, control>>

------------------------------------------------------------------------------
(***************************************************************************)
(* Scripts.                                                                *)
(***************************************************************************)

\* Callback.register.
RegisterNamedValue ==
    /\ Executing
    /\ named' = Top.code
    /\ UNCHANGED <<linking, frames, pc, control>>

\* The instruction C_CALLn: its operand is an index into the present table.  It
\* passes the n arguments of the type that the script gave the function, and the
\* callback takes as many as were registered: those that were not passed are
\* whatever the C stack holds, and roots of the collector nevertheless.  Behind
\* the end of a shorter table there is no function; a primitive of the runtime
\* returns at once, if it was meant.
CallPrimitive(n, i) ==
    /\ Executing
    /\ i \in DOMAIN code[Top.code].names
    /\ LET name == code[Top.code].names[i] IN
       \/ i \notin DOMAIN table /\ Stop("crash")
       \/ i \in DOMAIN table /\ table[i].context = 0 /\ UNCHANGED <<frames, pc, control>>
       \/ i \in DOMAIN table /\ table[i].context = 0 /\ table[i].name # name /\ Stop("crash")
       \/ i \in DOMAIN table /\ n < table[i].arity /\ Stop("crash")
       \/ /\ i \in DOMAIN table /\ table[i].context # 0
          /\ Depth < MaxFrames
          /\ Push([kind |-> "function", code |-> Top.code, name |-> name,
                   function |-> table[i], current |-> Top.code = Len(code),
                   left |-> table[i].arity, pushed |-> 0, nested |-> FALSE])
          /\ UNCHANGED <<pc, control>>
    /\ UNCHANGED <<linking, named>>

\* The STOP instruction.  pc stays where it is.
ScriptReturns ==
    /\ Executing
    /\ frames' = IF Depth > 1 /\ frames[Depth - 1].kind = "call"
                 THEN Append(SubSeq(frames, 1, Depth - 2),
                             [frames[Depth - 1] EXCEPT !.left = 1])
                 ELSE Front(frames)
    /\ UNCHANGED <<linking, named, pc, control>>

\* A script that ExecuteString started ends with an exception, which it
\* reports by returning false.
ScriptFails ==
    /\ Executing
    /\ Depth > 1 => frames[Depth - 1].kind # "call"
    /\ Pop
    /\ UNCHANGED <<linking, named, pc, control>>

\* The interpreter goes on behind the STOP of another activation, where there
\* is no code.
Derailed ==
    /\ Interpreting /\ pc # Depth
    /\ Stop("crash")
    /\ UNCHANGED <<linking, named>>

\* The interpreters that a longjmp can reach from the one on top.
Outer == {i \in 1 .. Depth - 1 : frames[i].kind = "script"}

\* Mutant: the interpreter goes on with the pc it finds.
CallbackRaisesAnywhere ==
    /\ Executing
    /\ Depth > 1 /\ frames[Depth - 1].kind = "call"
    /\ IF Outer = {}
       THEN Stop("exit")
       ELSE /\ frames' = SubSeq(frames, 1, Max(Outer))
            /\ UNCHANGED <<pc, control>>
    /\ UNCHANGED <<linking, named>>

\* An exception leaves the function that EndCall called: caml_callback raises
\* it again in the interpreter below, past the C++ frames in between, or ends
\* the process when there is none.
CallbackRaises ==
    /\ Executing
    /\ Depth > 1 /\ frames[Depth - 1].kind = "call"
    /\ IF Outer = {}
       THEN Stop("exit")
       ELSE /\ frames' = SubSeq(frames, 1, Max(Outer))
            /\ pc' = Max(Outer)
            /\ UNCHANGED control
    /\ UNCHANGED <<linking, named>>

------------------------------------------------------------------------------
(***************************************************************************)
(* A C++ function called by a script: OcamlFunctionCallback0Args, ...1Arg, *)
(* ...2Args around the user's function.                                    *)
(***************************************************************************)

\* PopInt in a C++ function: m_values[m_values.size() - m_numParams].
PopParameter ==
    /\ InFunction
    /\ Top.left > 0
    /\ Replace([Top EXCEPT !.left = @ - 1])
    /\ UNCHANGED <<linking, named, pc, control>>

\* PushInt in a C++ function: there is room for one result.
PushResult ==
    /\ InFunction
    /\ Top.pushed = 0
    /\ Replace([Top EXCEPT !.pushed = 1])
    /\ UNCHANGED <<linking, named, pc, control>>

\* Any other pop or push asserts, and so does a function that returns false.
Unsupported ==
    /\ InFunction \/ InCall
    /\ Stop("hang")
    /\ UNCHANGED <<linking, named>>

\* The function returns to its interpreter, which goes on at pc:
\* Restore_after_c_call does not set it.  History: a script is derailed by a
\* function that ran OCaml code itself.
ReturnToScript ==
    /\ InFunction
    /\ frames' = Append(SubSeq(frames, 1, Depth - 2),
                        [frames[Depth - 1] EXCEPT !.derailed = Top.nested])
    /\ UNCHANGED <<linking, named, pc, control>>

------------------------------------------------------------------------------
(***************************************************************************)
(* Calls from C++.                                                         *)
(***************************************************************************)

\* BeginCall of a name that some script has registered.
BeginCall ==
    /\ InCPP
    /\ named # 0
    /\ Depth < MaxFrames
    /\ Push([kind |-> "call", args |-> 0, left |-> 0])
    /\ UNCHANGED <<linking, named, pc, control>>

\* PushInt before EndCall.
PushArgument ==
    /\ InCall
    /\ Top.args < 1
    /\ Replace([Top EXCEPT !.args = @ + 1])
    /\ UNCHANGED <<linking, named, pc, control>>

\* EndCall: m_closure points at the registered value itself, so that it is the
\* closure registered last that runs.
EndCall ==
    /\ InCall
    /\ IF Top.args = 0
       THEN Stop("hang")
       ELSE /\ Depth < MaxFrames
            /\ Start(named)
            /\ UNCHANGED control
    /\ UNCHANGED <<linking, named>>

\* PopInt after EndCall.
PopResult ==
    /\ InCall
    /\ Top.left > 0
    /\ Replace([Top EXCEPT !.left = @ - 1])
    /\ UNCHANGED <<linking, named, pc, control>>

ReleaseAfterCall ==
    /\ InCall
    /\ Pop
    /\ UNCHANGED <<linking, named, pc, control>>

ONext ==
    \/ CreateContext \/ BuildDLL
    \/ \E f \in Function : RegisterFunction(f)
    \/ ExecuteStringFails
    \/ \E s \in Scripts : ExecuteStringUnknown(s) \/ ExecuteString(s)
    \/ RegisterNamedValue \/ ScriptReturns \/ ScriptFails \/ CallbackRaises \/ Derailed
    \/ \E n \in 1 .. MaxParameters, i \in 1 .. 2 : CallPrimitive(n, i)
    \/ PopParameter \/ PushResult \/ Unsupported \/ ReturnToScript
    \/ BeginCall \/ PushArgument \/ EndCall \/ PopResult \/ ReleaseAfterCall

OSpec == OInit /\ [][ONext]_ocamlVars

------------------------------------------------------------------------------
(***************************************************************************)
(* Properties.                                                             *)
(***************************************************************************)

\* A primitive call of the script that was loaded last reaches a function of
\* the name the script wrote, registered in the context the script was run
\* in: no function of an earlier context, whose descriptor may be gone, is
\* found first in the runtime's table.  Code of earlier scripts has no such
\* guarantee: it indexes a table that is not its own.
RightFunction ==
    \A i \in DOMAIN frames :
        (frames[i].kind = "function" /\ frames[i].current) =>
            /\ frames[i].function.name = frames[i].name
            /\ frames[i].function.context = code[frames[i].code].context

\* While a script runs, the interpreter's one pc points into that script, also
\* after C++ functions it called and exceptions that were thrown past them: only
\* a function that ran OCaml code itself, by ExecuteString or EndCall, and
\* returned has derailed it.
PcAgrees == (Interpreting /\ ~Top.derailed) => pc = Depth

------------------------------------------------------------------------------
(***************************************************************************)
(* The invariant behind them.                                              *)
(***************************************************************************)
ScriptFrame == [kind : {"script"}, code : Nat, derailed : BOOLEAN]
FunctionFrame == [kind : {"function"}, code : Nat, name : Names, function : Function,
                  current : BOOLEAN, left : Nat, pushed : {0, 1}, nested : BOOLEAN]
CallFrame == [kind : {"call"}, args : Nat, left : Nat]
Frame == ScriptFrame \cup FunctionFrame \cup CallFrame

OcamlTypeOK ==
    /\ context \in Nat
    /\ functions \in Seq(Function)
    /\ dirty \in BOOLEAN
    /\ header \subseteq Names
    /\ dll \subseteq SUBSET Names
    /\ code \in Seq([names : Seq(Names), context : Nat])
    /\ table \in Seq(Function \cup Builtin)
    /\ named \in 0 .. Len(code)
    /\ frames \in Seq(Frame)
    /\ pc \in Nat
    /\ control \in {"ok", "hang", "crash", "exit"}

\* custom_caml_init has emptied vm.c_functions of what earlier contexts registered.
FunctionsInv == \A i \in DOMAIN functions : functions[i].context = context

\* The table is the one of the script that was loaded last, and holds functions
\* of its context or primitives of the runtime.
TableInv ==
    Len(code) > 0 =>
        /\ Len(table) = Len(code[Len(code)].names)
        /\ \A i \in DOMAIN table :
              /\ table[i].name = code[Len(code)].names[i]
              /\ table[i].context \in {0, code[Len(code)].context}

\* A frame runs a script that was loaded, or calls a closure that was registered,
\* and a C++ function is the right one.
Sound(f) ==
    /\ f.kind = "script" => f.code \in 1 .. Len(code)
    /\ f.kind = "call" => named # 0
    /\ f.kind = "function" =>
          /\ f.code \in 1 .. Len(code)
          /\ f.current => /\ f.function.name = f.name
                          /\ f.function.context = code[f.code].context

\* Scripts call functions, and only C++ starts an interpreter or a call.
Stacked(fs) ==
    \A i \in 1 .. Len(fs) :
        IF fs[i].kind = "function" THEN i > 1 /\ fs[i - 1].kind = "script"
        ELSE i > 1 => fs[i - 1].kind # "script"

\* pc still points at the script that called a function as long as only calls
\* that were not ended lie above the function.
PcInv(fs, p) ==
    \A i \in 1 .. Len(fs) :
        /\ (fs[i].kind = "function" /\ ~fs[i].nested) =>
              p = i - 1 /\ \A j \in i + 1 .. Len(fs) : fs[j].kind = "call"
        /\ (fs[i].kind = "script" /\ ~fs[i].derailed /\ i = Len(fs)) => p = i

OcamlInv ==
    /\ OcamlTypeOK /\ FunctionsInv /\ TableInv
    /\ \A f \in Range(frames) : Sound(f)
    /\ Stacked(frames) /\ PcInv(frames, pc)
==============================================================================
