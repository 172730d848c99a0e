--------------------------- MODULE ScriptContexts ---------------------------
(***************************************************************************)
(* ScriptContext::Create for the two backends whose calls have modules of  *)
(* their own beside Lua's and GameMonkey's: a program names a language and *)
(* from then on uses the one interface of ScriptInterface.h.  Contexts of  *)
(* different languages share no state, so that a program with several of   *)
(* them behaves towards each as a program with one: the language is chosen *)
(* once.                                                                   *)
(***************************************************************************)
EXTENDS SquirrelCalls

CONSTANTS Names, Builtins, Arities, MaxContexts, MaxFunctions, MaxScripts, MaxFrames

\* Functions have a number of parameters, and some names are the runtime's own.
ASSUME OcamlAssumption == Arities \subseteq Nat /\ Builtins \subseteq Names

VARIABLES
    language,  \* the name given to Create, or "none" before
    context, functions, dirty, header, dll, code, table, named, ocamlFrames, pc, control

ocamlVars == <<context, functions, dirty, header, dll, code, table, named, ocamlFrames, pc, control>>

OCaml == INSTANCE OcamlCalls WITH frames <- ocamlFrames

Languages == {"squirrel", "ocaml"}

ContextsInit ==
    /\ language = "none"
    /\ Init
    /\ OCaml!OInit

\* The comparisons of ScriptContext::Create.  An unknown name gives NULL.
Create(name) ==
    /\ language = "none"
    /\ language' = name
    /\ UNCHANGED <<vars, ocamlVars>>

SquirrelStep == language = "squirrel" /\ Next /\ UNCHANGED <<language, ocamlVars>>

OcamlStep == language = "ocaml" /\ OCaml!ONext /\ UNCHANGED <<language, vars>>

ContextsNext ==
    \/ \E name \in Languages : Create(name)
    \/ SquirrelStep
    \/ OcamlStep

ContextsSpec ==
    /\ ContextsInit
    /\ [][ContextsNext]_<<language, vars, ocamlVars>>

\* The OCaml scripts loaded last call the functions they name, of their own
\* context (OCaml backend, lookup_primitive).
OcamlRightFunction == OCaml!RightFunction

\* The interpreter's one pc points into the OCaml script that runs, unless one of
\* its C++ functions ran OCaml code itself (caml_interprete).
OcamlPcAgrees == OCaml!PcAgrees

=============================================================================
