-------------------------- MODULE LuaCalls_proofs --------------------------
(***************************************************************************)
(* The counters of a LuaScriptStack agree with the Lua stack for any depth *)
(* of nesting and any number of values.                                    *)
(***************************************************************************)
EXTENDS LuaCalls, TLAPS

\* What the invariant says about the values of one frame.
FrameOK(l) ==
    ~mixed[l] =>
        /\ top[l] = left[l] + Positive(params[l]) + pushed[l] + Held(l)
        /\ phase[l] = "open" => pushed[l] = 0
        /\ phase[l] # "none" => params[l] <= 0

\* The invariant on values is one fact per level.
LEMMA FrameByFrame ==
  /\ StackAccounted /\ OpenInv /\ EndedInv <=> \A l \in Level : FrameOK(l)
  /\ (StackAccounted /\ OpenInv /\ EndedInv)' <=> \A l \in Level : FrameOK(l)'
  BY DEF StackAccounted, OpenInv, EndedInv, FrameOK

\* A step that changes one frame has to be looked at there only.
LEMMA OtherFrames ==
  ASSUME CallInv, NEW d \in Level, FrameOK(d)',
         \A l \in Level \ {d} :
            /\ top'[l] = top[l] /\ left'[l] = left[l] /\ params'[l] = params[l]
            /\ pushed'[l] = pushed[l] /\ phase'[l] = phase[l] /\ args'[l] = args[l]
            /\ results'[l] = results[l] /\ mixed'[l] = mixed[l]
  PROVE  (StackAccounted /\ OpenInv /\ EndedInv)'
<1>1. ASSUME NEW l \in Level PROVE FrameOK(l)'
  <2>1. CASE l = d
    BY <2>1
  <2>2. CASE l # d
    <3>1. FrameOK(l)
      BY FrameByFrame DEF CallInv
    <3> QED BY <2>2, <3>1 DEF FrameOK, Held
  <2> QED BY <2>1, <2>2
<1> QED BY <1>1, FrameByFrame

\* Nothing is on the stack at first.
LEMMA InitCallInv == Init => CallInv
<1> SUFFICES ASSUME Init PROVE CallInv
  OBVIOUS
<1>1. 0 \in Level
  BY BoundAssumption DEF Level
<1>2. TypeOK
  <2>1. /\ depth \in Level /\ logger \in BOOLEAN /\ class \in BOOLEAN /\ fault \in Faults
        /\ running \in [Level -> {"no", "string", "call"}]
        /\ kind \in [Level -> {"program", "function", "constructor"}]
        /\ phase \in [Level -> Phase] /\ mixed \in [Level -> BOOLEAN]
    BY <1>1 DEF Init, Phase, Faults
  <2>2. /\ top \in [Level -> Nat] /\ pushed \in [Level -> Nat]
        /\ args \in [Level -> Nat] /\ left \in [Level -> Nat]
    BY DEF Init
  <2>3. params \in [Level -> Int] /\ results \in [Level -> Int]
    BY DEF Init
  <2> QED BY <2>1, <2>2, <2>3 DEF TypeOK
<1>3. LevelsInv
  <2>1. \A l \in Level : running[l] = "no" /\ kind[l] = "program" /\ phase[l] = "none" /\ ~mixed[l]
    BY DEF Init
  <2>2. \A l \in Level : top[l] = 0 /\ params[l] = 0 /\ pushed[l] = 0 /\ left[l] = 0
    BY DEF Init
  <2>3. depth = 0 /\ \A l \in Level : l \in Nat
    BY BoundAssumption DEF Init, Level
  <2> QED BY <1>1, <2>1, <2>2, <2>3 DEF LevelsInv
<1>4. StackAccounted /\ OpenInv /\ EndedInv
  BY <1>1 DEF Init, StackAccounted, OpenInv, EndedInv, Positive, Held
<1> QED BY <1>2, <1>3, <1>4 DEF CallInv

\* A fault ends the run and leaves the frames as they are.
LEMMA FramesKept ==
  ASSUME CallInv, UNCHANGED frames, logger' \in BOOLEAN, class' \in BOOLEAN, fault' \in Faults
  PROVE  CallInv'
<1>1. TypeOK' /\ LevelsInv'
  BY DEF CallInv, frames, TypeOK, LevelsInv
<1>2. (StackAccounted /\ OpenInv /\ EndedInv)'
  BY DEF CallInv, frames, StackAccounted, OpenInv, EndedInv, Held
<1> QED BY <1>1, <1>2 DEF CallInv

\* The level of the innermost code, and what is known of it.
LEMMA DepthFacts ==
  ASSUME CallInv
  PROVE  /\ depth \in Level /\ depth \in Nat /\ FrameOK(depth)
         /\ top[depth] \in Nat /\ params[depth] \in Int /\ pushed[depth] \in Nat
         /\ phase[depth] \in Phase /\ args[depth] \in Nat /\ results[depth] \in Int
         /\ left[depth] \in Nat /\ mixed[depth] \in BOOLEAN
         /\ Positive(params[depth]) \in Nat /\ Held(depth) \in Nat
<1>1. /\ depth \in Level /\ depth \in Nat /\ FrameOK(depth)
      /\ top[depth] \in Nat /\ params[depth] \in Int /\ pushed[depth] \in Nat
      /\ phase[depth] \in Phase /\ args[depth] \in Nat /\ results[depth] \in Int
      /\ left[depth] \in Nat /\ mixed[depth] \in BOOLEAN
  BY FrameByFrame, BoundAssumption DEF CallInv, TypeOK, Level
<1>2. Positive(params[depth]) \in Nat /\ Held(depth) \in Nat
  BY <1>1 DEF Positive, Held
<1> QED BY <1>1, <1>2

\* What lua_pcall finds on the frame when it ends: under a function that EndCall
\* called, what scripts left over the callee.
LEMMA BaseFacts ==
  ASSUME CallInv
  PROVE  /\ running[depth] = "call" => /\ phase[depth] = "open" /\ Base \in Nat
                                       /\ ~mixed[depth] => /\ Base = left[depth] /\ pushed[depth] = 0
                                                           /\ params[depth] <= 0
         /\ running[depth] = "string" => Base = top[depth]
<1>1. depth \in Level /\ FrameOK(depth)
  BY DepthFacts
<1>2. running[depth] = "call" => phase[depth] = "open" /\ top[depth] >= 1 + args[depth]
  BY <1>1 DEF CallInv, LevelsInv
<1>3. running[depth] = "call" => Base \in Nat
  BY <1>2, DepthFacts DEF Base
<1>4. ASSUME running[depth] = "call", ~mixed[depth]
      PROVE  /\ pushed[depth] = 0 /\ params[depth] <= 0
             /\ Held(depth) = 1 + args[depth] /\ Positive(params[depth]) = 0
  BY <1>1, <1>2, <1>4, DepthFacts DEF FrameOK, Held, Positive
<1>5. (running[depth] = "call" /\ ~mixed[depth]) => Base = left[depth]
  BY <1>1, <1>4, DepthFacts DEF FrameOK, Base
<1>6. running[depth] = "string" => Base = top[depth]
  BY DEF Base
<1> QED BY <1>2, <1>3, <1>4, <1>5, <1>6

\* Counts that add up to nothing are nothing.
LEMMA SumZero ==
  ASSUME NEW a \in Nat, NEW b \in Nat, NEW c \in Nat, NEW e \in Nat, a + b + c + e = 0
  PROVE  a = 0 /\ b = 0 /\ c = 0
  OBVIOUS

\* PushInt, PushString and PushNewScriptObject of an argument.
LEMMA PushArgumentCallInv ==
  ASSUME NEW object \in BOOLEAN, CallInv, PushArgument(object) PROVE CallInv'
<1> USE DepthFacts
<1>1. CASE Fail("wedge")
  BY <1>1, FramesKept DEF Fail, Faults, CallInv, TypeOK
<1>2. CASE /\ running[depth] = "no" /\ phase[depth] = "open"
           /\ class' = (class \/ object)
           /\ top' = [top EXCEPT ![depth] = @ + 1]
           /\ args' = [args EXCEPT ![depth] = @ + 1]
           /\ UNCHANGED <<depth, running, kind, params, pushed, phase, results, left, mixed, logger, fault>>
  <2>1. TypeOK'
    BY <1>2 DEF CallInv, TypeOK
  <2>2. LevelsInv'
    BY <1>2 DEF CallInv, TypeOK, LevelsInv
  <2>3. FrameOK(depth)'
    BY <1>2 DEF CallInv, TypeOK, FrameOK, Held, Positive
  <2>4. (StackAccounted /\ OpenInv /\ EndedInv)'
    BY <1>2, <2>3, OtherFrames DEF CallInv, TypeOK
  <2> QED BY <2>1, <2>2, <2>4 DEF CallInv
<1> QED BY <1>1, <1>2 DEF PushArgument, InCPP

\* PushInt, PushString and PushNewScriptObject of a result.
LEMMA PushResultCallInv ==
  ASSUME NEW object \in BOOLEAN, CallInv, PushResult(object) PROVE CallInv'
<1> USE DepthFacts
<1>1. CASE Fail("wedge")
  BY <1>1, FramesKept DEF Fail, Faults, CallInv, TypeOK
<1>2. CASE /\ running[depth] = "no" /\ depth > 0
           /\ class' = (class \/ object)
           /\ top' = [top EXCEPT ![depth] = @ + 1]
           /\ pushed' = [pushed EXCEPT ![depth] = @ + 1]
           /\ mixed' = [mixed EXCEPT ![depth] = @ \/ (phase[depth] = "open")]
           /\ UNCHANGED <<depth, running, kind, params, phase, args, results, left, logger, fault>>
  <2>1. TypeOK'
    BY <1>2 DEF CallInv, TypeOK, Phase
  <2>2. LevelsInv'
    BY <1>2 DEF CallInv, TypeOK, LevelsInv
  <2>3. FrameOK(depth)'
    <3> SUFFICES ASSUME ~mixed'[depth]
                 PROVE  /\ top'[depth] = left'[depth] + Positive(params'[depth]) + pushed'[depth] + Held(depth)'
                        /\ phase'[depth] # "open" /\ (phase'[depth] # "none" => params'[depth] <= 0)
      BY <1>2 DEF FrameOK
    <3>1. ~mixed[depth] /\ phase[depth] # "open"
      BY <1>2 DEF CallInv, TypeOK
    <3>2. Held(depth)' = Held(depth) /\ Positive(params'[depth]) = Positive(params[depth])
      BY <1>2 DEF Held
    <3>3. top'[depth] = top[depth] + 1 /\ pushed'[depth] = pushed[depth] + 1
      BY <1>2 DEF CallInv, TypeOK
    <3> QED BY <1>2, <3>1, <3>2, <3>3 DEF FrameOK
  <2>4. (StackAccounted /\ OpenInv /\ EndedInv)'
    BY <1>2, <2>3, OtherFrames DEF CallInv, TypeOK
  <2> QED BY <2>1, <2>2, <2>4 DEF CallInv
<1> QED BY <1>1, <1>2 DEF PushResult, InCPP, Mixes

\* PopInt and PopScriptObject of a parameter.
LEMMA PopParameterCallInv ==
  ASSUME CallInv, PopParameter PROVE CallInv'
<1> USE DepthFacts
<1>0. PICK n \in Nat : n = IF params[depth] > 0 \/ left[depth] = 0 THEN left[depth] ELSE left[depth] - 1
  OBVIOUS
<1>1. /\ running[depth] = "no" /\ depth > 0 /\ top[depth] > 0
      /\ top' = [top EXCEPT ![depth] = @ - 1]
      /\ params' = [params EXCEPT ![depth] = @ - 1]
      /\ left' = [left EXCEPT ![depth] = n]
      /\ mixed' = [mixed EXCEPT ![depth] = @ \/ (Held(depth) > 0 \/ pushed[depth] > 0)]
      /\ UNCHANGED <<depth, running, kind, pushed, phase, args, results, logger, class, fault>>
  BY <1>0 DEF PopParameter, InCPP, Uncounted, Mixes, CallInv, TypeOK
<1>2. TypeOK'
  BY <1>1 DEF CallInv, TypeOK
<1>3. LevelsInv'
  BY <1>1 DEF CallInv, TypeOK, LevelsInv
<1>4. FrameOK(depth)'
  <2> SUFFICES ASSUME ~mixed'[depth]
               PROVE  /\ top'[depth] = left'[depth] + Positive(params'[depth]) + pushed'[depth] + Held(depth)'
                      /\ phase'[depth] = "open" => pushed'[depth] = 0
                      /\ phase'[depth] # "none" => params'[depth] <= 0
    BY <1>1 DEF FrameOK
  <2>1. ~mixed[depth] /\ ~(Held(depth) > 0) /\ ~(pushed[depth] > 0)
    BY <1>1 DEF CallInv, TypeOK
  <2>2. Held(depth) = 0 /\ pushed[depth] = 0
    BY <2>1
  <2>3. Held(depth)' = 0
    BY <1>1, <2>2 DEF Held
  <2>4. top[depth] = left[depth] + Positive(params[depth])
    BY <2>1, <2>2 DEF FrameOK
  <2>5. top'[depth] = left'[depth] + Positive(params'[depth])
    BY <1>0, <1>1, <2>4 DEF CallInv, TypeOK, Positive
  <2> QED BY <1>1, <2>1, <2>2, <2>3, <2>5 DEF CallInv, TypeOK, FrameOK
<1>5. (StackAccounted /\ OpenInv /\ EndedInv)'
  BY <1>1, <1>4, OtherFrames DEF CallInv, TypeOK
<1> QED BY <1>2, <1>3, <1>5 DEF CallInv

\* PopInt and PopScriptObject of a result.
LEMMA PopResultCallInv ==
  ASSUME CallInv, PopResult PROVE CallInv'
<1> USE DepthFacts
<1>0. PICK n \in Nat : n = IF results[depth] > 0 \/ left[depth] = 0 THEN left[depth] ELSE left[depth] - 1
  OBVIOUS
<1>1. /\ running[depth] = "no" /\ phase[depth] = "ended" /\ top[depth] > 0
      /\ top' = [top EXCEPT ![depth] = @ - 1]
      /\ results' = [results EXCEPT ![depth] = @ - 1]
      /\ left' = [left EXCEPT ![depth] = n]
      /\ mixed' = [mixed EXCEPT ![depth] = @ \/ (pushed[depth] > 0)]
      /\ UNCHANGED <<depth, running, kind, params, pushed, phase, args, logger, class, fault>>
  BY <1>0 DEF PopResult, InCPP, Uncounted, Mixes, CallInv, TypeOK
<1>2. TypeOK'
  BY <1>1 DEF CallInv, TypeOK
<1>3. LevelsInv'
  BY <1>1 DEF CallInv, TypeOK, LevelsInv
<1>4. FrameOK(depth)'
  <2> SUFFICES ASSUME ~mixed'[depth]
               PROVE  /\ top'[depth] = left'[depth] + Positive(params'[depth]) + pushed'[depth] + Held(depth)'
                      /\ phase'[depth] = "open" => pushed'[depth] = 0
                      /\ phase'[depth] # "none" => params'[depth] <= 0
    BY <1>1 DEF FrameOK
  <2>1. ~mixed[depth] /\ ~(pushed[depth] > 0)
    BY <1>1 DEF CallInv, TypeOK
  <2>2. params[depth] <= 0 /\ pushed[depth] = 0
    BY <1>1, <2>1 DEF FrameOK
  <2>3. top[depth] = left[depth] + Positive(results[depth])
    BY <1>1, <2>1, <2>2 DEF FrameOK, Held, Positive
  <2>4. top'[depth] = left'[depth] + Positive(results'[depth])
    BY <1>0, <1>1, <2>3 DEF CallInv, TypeOK, Positive
  <2>5. Held(depth)' = Positive(results'[depth]) /\ Positive(params'[depth]) = 0 /\ pushed'[depth] = 0
    BY <1>1, <2>2 DEF Held, Positive
  <2>6. left'[depth] \in Nat /\ Positive(results'[depth]) \in Nat
    BY <1>1, <1>2 DEF TypeOK, Positive
  <2> QED BY <1>1, <2>2, <2>4, <2>5, <2>6
<1>5. (StackAccounted /\ OpenInv /\ EndedInv)'
  BY <1>1, <1>4, OtherFrames DEF CallInv, TypeOK
<1> QED BY <1>2, <1>3, <1>5 DEF CallInv

\* BeginCall puts its function on an empty frame.
LEMMA BeginCallCallInv ==
  ASSUME NEW found \in BOOLEAN, CallInv, BeginCall(found) PROVE CallInv'
<1> USE DepthFacts
<1>1. CASE Fail("wedge") \/ Fail("nullDeref")
  BY <1>1, FramesKept DEF Fail, Faults, CallInv, TypeOK
<1>2. CASE /\ running[depth] = "no" /\ top[depth] = 0
           /\ top' = [top EXCEPT ![depth] = IF found THEN 1 ELSE 0]
           /\ phase' = [phase EXCEPT ![depth] = IF found THEN "open" ELSE "none"]
           /\ args' = [args EXCEPT ![depth] = 0]
           /\ results' = [results EXCEPT ![depth] = 0]
           /\ UNCHANGED <<depth, running, kind, params, pushed, left, mixed, logger, class, fault>>
  <2>0. ~mixed[depth] => left[depth] = 0 /\ params[depth] <= 0 /\ pushed[depth] = 0
    <3> SUFFICES ASSUME ~mixed[depth] PROVE left[depth] = 0 /\ params[depth] <= 0 /\ pushed[depth] = 0
      OBVIOUS
    <3>1. left[depth] = 0 /\ Positive(params[depth]) = 0 /\ pushed[depth] = 0
      <4>1. left[depth] + Positive(params[depth]) + pushed[depth] + Held(depth) = 0
        BY <1>2 DEF FrameOK
      <4> QED BY <4>1, SumZero
    <3> QED BY <3>1 DEF Positive
  <2>1. TypeOK'
    BY <2>0, <1>2 DEF CallInv, TypeOK, Phase
  <2>2. LevelsInv'
    BY <1>2 DEF CallInv, TypeOK, LevelsInv
  <2>3. FrameOK(depth)'
    BY <2>0, <1>2 DEF CallInv, TypeOK, FrameOK, Held, Positive
  <2>4. (StackAccounted /\ OpenInv /\ EndedInv)'
    BY <1>2, <2>3, OtherFrames DEF CallInv, TypeOK
  <2> QED BY <2>1, <2>2, <2>4 DEF CallInv
<1> QED BY <1>1, <1>2 DEF BeginCall, InCPP

\* ExecuteString starts a chunk, or leaves an error message.
LEMMA ExecuteStringCallInv ==
  ASSUME NEW compiles \in BOOLEAN, CallInv, ExecuteString(compiles) PROVE CallInv'
<1> USE DepthFacts
<1>1. CASE Fail("nullDeref")
  BY <1>1, FramesKept DEF Fail, Faults, CallInv, TypeOK
<1>2. CASE /\ running[depth] = "no"
           /\ running' = [running EXCEPT ![depth] = "string"]
           /\ UNCHANGED <<depth, kind, top, params, pushed, phase, args, results, left, mixed, logger, class, fault>>
  <2>1. TypeOK'
    BY <1>2 DEF CallInv, TypeOK, Phase
  <2>2. LevelsInv'
    BY <1>2 DEF CallInv, TypeOK, LevelsInv
  <2>3. FrameOK(depth)'
    BY <1>2 DEF CallInv, TypeOK, FrameOK, Held, Positive
  <2>4. (StackAccounted /\ OpenInv /\ EndedInv)'
    BY <1>2, <2>3, OtherFrames DEF CallInv, TypeOK
  <2> QED BY <2>1, <2>2, <2>4 DEF CallInv
<1>3. CASE /\ running[depth] = "no"
           /\ top' = [top EXCEPT ![depth] = @ + 1]
           /\ left' = [left EXCEPT ![depth] = @ + 1]
           /\ UNCHANGED <<depth, running, kind, params, pushed, phase, args, results, mixed, logger, class, fault>>
  <2>1. TypeOK'
    BY <1>3 DEF CallInv, TypeOK, Phase
  <2>2. LevelsInv'
    BY <1>3 DEF CallInv, TypeOK, LevelsInv
  <2>3. FrameOK(depth)'
    BY <1>3 DEF CallInv, TypeOK, FrameOK, Held, Positive
  <2>4. (StackAccounted /\ OpenInv /\ EndedInv)'
    BY <1>3, <2>3, OtherFrames DEF CallInv, TypeOK
  <2> QED BY <2>1, <2>2, <2>4 DEF CallInv
<1> QED BY <1>1, <1>2, <1>3 DEF ExecuteString, InCPP

\* EndCall starts the function.
LEMMA EndCallCallInv ==
  ASSUME CallInv, EndCall PROVE CallInv'
<1> USE DepthFacts
<1>0. CASE Fail("underflow")
  BY <1>0, FramesKept DEF Fail, Faults, CallInv, TypeOK
<1>1. CASE /\ running[depth] = "no" /\ phase[depth] = "open" /\ top[depth] >= 1 + args[depth]
           /\ running' = [running EXCEPT ![depth] = "call"]
           /\ UNCHANGED <<depth, kind, top, params, pushed, phase, args, results, left, mixed, logger, class, fault>>
  <2>1. TypeOK'
    BY <1>1 DEF CallInv, TypeOK, Phase
  <2>2. LevelsInv'
    BY <1>1 DEF CallInv, TypeOK, LevelsInv
  <2>3. FrameOK(depth)'
    BY <1>1 DEF CallInv, TypeOK, FrameOK, Held, Positive
  <2>4. (StackAccounted /\ OpenInv /\ EndedInv)'
    BY <1>1, <2>3, OtherFrames DEF CallInv, TypeOK
  <2> QED BY <2>1, <2>2, <2>4 DEF CallInv
<1> QED BY <1>0, <1>1 DEF EndCall, InCPP

\* ReleaseAfterCall turns what the call held into leftovers.
LEMMA ReleaseCallInv ==
  ASSUME CallInv, ReleaseAfterCall PROVE CallInv'
<1> USE DepthFacts
<1>1. CASE /\ running[depth] = "no"
           /\ phase' = [phase EXCEPT ![depth] = "none"]
           /\ args' = [args EXCEPT ![depth] = 0]
           /\ results' = [results EXCEPT ![depth] = 0]
           /\ left' = [left EXCEPT ![depth] = @ + Held(depth)]
           /\ Held(depth) \in Nat
           /\ UNCHANGED <<depth, running, kind, top, params, pushed, mixed, logger, class, fault>>
  <2>1. TypeOK'
    BY <1>1 DEF CallInv, TypeOK, Phase
  <2>2. LevelsInv'
    BY <1>1 DEF CallInv, TypeOK, LevelsInv
  <2>3. FrameOK(depth)'
    BY <1>1 DEF CallInv, TypeOK, FrameOK, Held, Positive
  <2>4. (StackAccounted /\ OpenInv /\ EndedInv)'
    BY <1>1, <2>3, OtherFrames DEF CallInv, TypeOK
  <2> QED BY <2>1, <2>2, <2>4 DEF CallInv
<1> QED BY <1>1 DEF ReleaseAfterCall, InCPP

\* lua_pcall replaces the function and its arguments by the results.
LEMMA ScriptReturnsCallInv ==
  ASSUME NEW r \in 0..MaxTop, CallInv, ScriptReturns(r) PROVE CallInv'
<1> USE DepthFacts, BaseFacts
<1>0. r \in Nat
  BY BoundAssumption
<1>1. CASE /\ running[depth] = "call" /\ Base + r \in Nat
           /\ top' = [top EXCEPT ![depth] = Base + r]
           /\ running' = [running EXCEPT ![depth] = "no"]
           /\ phase' = [phase EXCEPT ![depth] = "ended"]
           /\ results' = [results EXCEPT ![depth] = Base + r]
           /\ left' = [left EXCEPT ![depth] = 0]
           /\ UNCHANGED <<depth, kind, params, pushed, args, mixed, logger, class, fault>>
  <2>1. TypeOK'
    BY <1>1 DEF CallInv, TypeOK, Phase
  <2>2. LevelsInv'
    BY <1>1 DEF CallInv, TypeOK, LevelsInv
  <2>3. FrameOK(depth)'
    BY <1>1 DEF CallInv, TypeOK, FrameOK, Held, Positive
  <2>4. (StackAccounted /\ OpenInv /\ EndedInv)'
    BY <1>1, <2>3, OtherFrames DEF CallInv, TypeOK
  <2> QED BY <2>1, <2>2, <2>4 DEF CallInv
<1>2. CASE /\ running[depth] = "string" /\ Base = top[depth]
           /\ top' = [top EXCEPT ![depth] = Base + r]
           /\ running' = [running EXCEPT ![depth] = "no"]
           /\ left' = [left EXCEPT ![depth] = @ + r]
           /\ UNCHANGED <<depth, kind, params, pushed, phase, args, results, mixed, logger, class, fault>>
  <2>1. TypeOK'
    BY <1>2 DEF CallInv, TypeOK, Phase
  <2>2. LevelsInv'
    BY <1>2 DEF CallInv, TypeOK, LevelsInv
  <2>3. FrameOK(depth)'
    BY <1>2 DEF CallInv, TypeOK, FrameOK, Held, Positive
  <2>4. (StackAccounted /\ OpenInv /\ EndedInv)'
    BY <1>2, <2>3, OtherFrames DEF CallInv, TypeOK
  <2> QED BY <2>1, <2>2, <2>4 DEF CallInv
<1>3. running[depth] \in {"no", "string", "call"} /\ Base + r \in Nat
  BY <1>0 DEF CallInv, TypeOK, Base, ScriptReturns, InScript
<1> QED BY <1>1, <1>2, <1>3 DEF ScriptReturns, InScript

\* A failed lua_pcall leaves a message.
LEMMA ScriptFailsCallInv ==
  ASSUME CallInv, ScriptFails PROVE CallInv'
<1> USE DepthFacts, BaseFacts
<1>1. CASE Fail("nullDeref")
  BY <1>1, FramesKept DEF Fail, Faults, CallInv, TypeOK
<1>2. CASE /\ running[depth] = "call" /\ Base + 1 \in Nat
           /\ top' = [top EXCEPT ![depth] = Base + 1]
           /\ running' = [running EXCEPT ![depth] = "no"]
           /\ phase' = [phase EXCEPT ![depth] = "failed"]
           /\ UNCHANGED <<depth, kind, params, pushed, args, results, left, mixed, logger, class, fault>>
  <2>1. TypeOK'
    BY <1>2 DEF CallInv, TypeOK, Phase
  <2>2. LevelsInv'
    BY <1>2 DEF CallInv, TypeOK, LevelsInv
  <2>3. FrameOK(depth)'
    BY <1>2 DEF CallInv, TypeOK, FrameOK, Held, Positive
  <2>4. (StackAccounted /\ OpenInv /\ EndedInv)'
    BY <1>2, <2>3, OtherFrames DEF CallInv, TypeOK
  <2> QED BY <2>1, <2>2, <2>4 DEF CallInv
<1>3. CASE /\ running[depth] = "string" /\ Base = top[depth]
           /\ top' = [top EXCEPT ![depth] = Base + 1]
           /\ running' = [running EXCEPT ![depth] = "no"]
           /\ left' = [left EXCEPT ![depth] = @ + 1]
           /\ UNCHANGED <<depth, kind, params, pushed, phase, args, results, mixed, logger, class, fault>>
  <2>1. TypeOK'
    BY <1>3 DEF CallInv, TypeOK, Phase
  <2>2. LevelsInv'
    BY <1>3 DEF CallInv, TypeOK, LevelsInv
  <2>3. FrameOK(depth)'
    BY <1>3 DEF CallInv, TypeOK, FrameOK, Held, Positive
  <2>4. (StackAccounted /\ OpenInv /\ EndedInv)'
    BY <1>3, <2>3, OtherFrames DEF CallInv, TypeOK
  <2> QED BY <2>1, <2>2, <2>4 DEF CallInv
<1> QED BY <1>1, <1>2, <1>3 DEF ScriptFails, InScript

\* A callback starts on a frame of its own, with its parameters.
LEMMA EnterCallbackCallInv ==
  ASSUME NEW k \in {"function", "constructor"}, NEW n \in 0..MaxTop,
         CallInv, EnterCallback(k, n)
  PROVE  CallInv'
<1>0. PICK d \in Level : d = depth + 1
  BY BoundAssumption, DepthFacts DEF EnterCallback, Level
<1>1. /\ running[depth] # "no" /\ d \in Level /\ d \in Nat /\ depth \in Level /\ depth \in Nat
      /\ n \in Nat /\ depth' = d
      /\ kind' = [kind EXCEPT ![d] = k]
      /\ top' = [top EXCEPT ![d] = n]
      /\ params' = [params EXCEPT ![d] = n]
      /\ UNCHANGED <<running, pushed, phase, args, results, left, mixed, logger, class, fault>>
  BY <1>0, BoundAssumption, DepthFacts DEF EnterCallback, InScript, Level
<1>2. /\ running[d] = "no" /\ pushed[d] = 0 /\ phase[d] = "none" /\ left[d] = 0 /\ ~mixed[d]
      /\ \A l \in Level : l \in Nat
  BY <1>0, <1>1, BoundAssumption DEF CallInv, LevelsInv, Level
<1>3. TypeOK'
  BY <1>1 DEF CallInv, TypeOK
<1>4. LevelsInv'
  <2>1. kind'[0] = "program" /\ params'[0] = 0 /\ pushed'[0] = 0 /\ ~mixed'[0]
    BY <1>0, <1>1 DEF CallInv, TypeOK, LevelsInv
  <2>2. ASSUME NEW l \in Level
        PROVE  /\ l < d => running[l] # "no"
               /\ l > d => l > depth
               /\ l # d => kind'[l] = kind[l] /\ top'[l] = top[l] /\ params'[l] = params[l]
               /\ 0 < l /\ l <= d => kind'[l] # "program"
    <3>1. l < d => (l < depth \/ l = depth)
      BY <1>0, <1>1, <1>2
    <3> QED BY <1>0, <1>1, <1>2, <3>1 DEF CallInv, TypeOK, LevelsInv
  <2> QED BY <1>1, <1>2, <2>1, <2>2 DEF CallInv, LevelsInv
<1>5. FrameOK(d)'
  BY <1>1, <1>2 DEF CallInv, TypeOK, FrameOK, Held, Positive
<1>6. (StackAccounted /\ OpenInv /\ EndedInv)'
  BY <1>1, <1>5, OtherFrames DEF CallInv, TypeOK
<1> QED BY <1>3, <1>4, <1>6 DEF CallInv

\* The end of a callback drops its frame.
LEMMA LeaveCallbackCallInv ==
  ASSUME NEW result \in BOOLEAN, CallInv, LeaveCallback(result)
  PROVE  CallInv'
<1>1. CASE Fail("hang") \/ Fail("underflow")
  BY <1>1, FramesKept DEF Fail, Faults, CallInv, TypeOK
<1>2. CASE /\ running[depth] = "no" /\ depth > 0 /\ phase[depth] = "none"
           /\ depth' = depth - 1
           /\ kind' = [kind EXCEPT ![depth] = "program"]
           /\ top' = [top EXCEPT ![depth] = 0]
           /\ params' = [params EXCEPT ![depth] = 0]
           /\ pushed' = [pushed EXCEPT ![depth] = 0]
           /\ left' = [left EXCEPT ![depth] = 0]
           /\ mixed' = [mixed EXCEPT ![depth] = FALSE]
           /\ UNCHANGED <<running, phase, args, results, logger, class, fault>>
  <2>1. /\ depth \in Level /\ depth \in Nat /\ depth' \in Level /\ depth' \in Nat
        /\ \A l \in Level : l \in Nat
    BY <1>2, DepthFacts, BoundAssumption DEF Level
  <2>2. TypeOK'
    BY <1>2, <2>1 DEF CallInv, TypeOK
  <2>3. LevelsInv'
    <3>1. kind'[0] = "program" /\ params'[0] = 0 /\ pushed'[0] = 0 /\ ~mixed'[0]
      BY <1>2, <2>1 DEF CallInv, TypeOK, LevelsInv
    <3>2. ASSUME NEW l \in Level
          PROVE  /\ l < depth' => running[l] # "no"
                 /\ l > depth' => l = depth \/ l > depth
                 /\ l # depth => /\ kind'[l] = kind[l] /\ top'[l] = top[l] /\ params'[l] = params[l]
                                 /\ pushed'[l] = pushed[l] /\ left'[l] = left[l]
                                 /\ mixed'[l] = mixed[l]
                 /\ 0 < l /\ l <= depth' => kind'[l] # "program"
      <4>1. l <= depth' => l < depth
        BY <1>2, <2>1
      <4>2. l > depth' => l = depth \/ l > depth
        BY <1>2, <2>1
      <4>3. l # depth => /\ kind'[l] = kind[l] /\ top'[l] = top[l] /\ params'[l] = params[l]
                         /\ pushed'[l] = pushed[l] /\ left'[l] = left[l] /\ mixed'[l] = mixed[l]
        BY <1>2, <2>1 DEF CallInv, TypeOK
      <4>4. /\ l < depth' => running[l] # "no"
            /\ 0 < l /\ l <= depth' => kind[l] # "program" /\ l # depth
        BY <1>2, <2>1, <4>1 DEF CallInv, LevelsInv
      <4> QED BY <4>1, <4>2, <4>3, <4>4
    <3>3. /\ running[depth] = "no" /\ kind'[depth] = "program" /\ top'[depth] = 0
          /\ params'[depth] = 0 /\ pushed'[depth] = 0 /\ phase[depth] = "none" /\ left'[depth] = 0
          /\ ~mixed'[depth]
      BY <1>2, <2>1 DEF CallInv, TypeOK
    <3> QED BY <1>2, <2>1, <3>1, <3>2, <3>3 DEF CallInv, LevelsInv
  <2>4. PICK d \in Level : d = depth
    BY <2>1
  <2>5. /\ top'[d] = 0 /\ params'[d] = 0 /\ pushed'[d] = 0 /\ left'[d] = 0 /\ phase'[d] = "none"
    BY <1>2, <2>1, <2>4 DEF CallInv, TypeOK
  <2>6. FrameOK(d)'
    BY <2>5 DEF FrameOK, Held, Positive
  <2>7. (StackAccounted /\ OpenInv /\ EndedInv)'
    BY <1>2, <2>1, <2>4, <2>6, OtherFrames DEF CallInv, TypeOK
  <2> QED BY <2>2, <2>3, <2>7 DEF CallInv
<1> QED BY <1>1, <1>2 DEF LeaveCallback, InCPP

\* SetLogger and RegisterUserClass leave the frames as they are.
LEMMA ContextCallInv ==
  ASSUME CallInv, SetLogger \/ RegisterUserClass
  PROVE  CallInv'
<1>1. /\ UNCHANGED frames /\ logger' \in BOOLEAN /\ class' \in BOOLEAN /\ fault' \in Faults
  BY DEF SetLogger, RegisterUserClass, Fail, Faults, CallInv, TypeOK
<1> QED BY <1>1, FramesKept

\* Every step preserves the invariant.
LEMMA NextCallInv == CallInv /\ [Next]_vars => CallInv'
<1> SUFFICES ASSUME CallInv, [Next]_vars PROVE CallInv'
  OBVIOUS
<1>1. CASE UNCHANGED vars
  BY <1>1, FramesKept DEF vars, frames, CallInv, TypeOK
<1>2. CASE Next
  BY <1>2, ContextCallInv, ExecuteStringCallInv, BeginCallCallInv, PushArgumentCallInv,
     PushResultCallInv, LeaveCallbackCallInv, EndCallCallInv, PopResultCallInv,
     ReleaseCallInv, PopParameterCallInv, ScriptReturnsCallInv, ScriptFailsCallInv,
     EnterCallbackCallInv
  DEF Next
<1> QED BY <1>1, <1>2

\* The inductive invariant holds of every state of every run.
THEOREM CallInvariant == Spec => []CallInv
  BY InitCallInv, NextCallInv, PTL DEF Spec

\* The parts of the invariant that the run checks one by one.
LEMMA CallInvParts ==
  CallInv => TypeOK /\ CalleeUnderArguments /\ ResultsCounted /\ ParametersCounted /\ ResultsBacked
<1> SUFFICES ASSUME CallInv
             PROVE  TypeOK /\ CalleeUnderArguments /\ ResultsCounted /\ ParametersCounted /\ ResultsBacked
  OBVIOUS
<1>1. ASSUME NEW l \in Level
      PROVE  /\ FrameOK(l)
             /\ top[l] \in Nat /\ params[l] \in Int /\ pushed[l] \in Nat /\ left[l] \in Nat
             /\ phase[l] \in Phase /\ args[l] \in Nat /\ results[l] \in Int /\ mixed[l] \in BOOLEAN
  BY FrameByFrame DEF CallInv, TypeOK
<1>2. ASSUME NEW l \in Level
      PROVE  Positive(params[l]) \in Nat /\ Held(l) \in Nat
  BY <1>1 DEF Positive, Held
<1>3. CalleeUnderArguments
  BY <1>1 DEF CalleeUnderArguments, FrameOK, Held, Positive
<1>4. ResultsCounted
  BY <1>1 DEF ResultsCounted, FrameOK, Held, Positive
<1>5. ParametersCounted
  BY <1>1 DEF ParametersCounted, FrameOK, Held, Positive
<1>6. ResultsBacked
  BY <1>1, <1>2 DEF ResultsBacked, FrameOK
<1> QED BY <1>3, <1>4, <1>5, <1>6 DEF CallInv

\* Type correctness of the Lua stack.
THEOREM CallTypeCorrect == Spec => []TypeOK
  BY CallInvariant, CallInvParts, PTL

\* lua_pcall finds the function under its arguments, unless a script left a value
\* there or the stacks of the call and of the caller were mixed.
THEOREM CallCalleeUnderArguments == Spec => []CalleeUnderArguments
  BY CallInvariant, CallInvParts, PTL

\* After EndCall, GetNumParams counts the results.
THEOREM CallResultsCounted == Spec => []ResultsCounted
  BY CallInvariant, CallInvParts, PTL

\* In a callback, GetNumParams counts the parameters.
THEOREM CallParametersCounted == Spec => []ParametersCounted
  BY CallInvariant, CallInvParts, PTL

\* A callback returns values of its own frame.
THEOREM CallResultsBacked == Spec => []ResultsBacked
  BY CallInvariant, CallInvParts, PTL

\* A wedge has a cause on the frame where it happens.
LEMMA NextWedgeInv == CallInv /\ WedgeInv /\ [Next]_vars => WedgeInv'
<1> SUFFICES ASSUME CallInv, WedgeInv, [Next]_vars PROVE WedgeInv'
  OBVIOUS
<1>1. CASE UNCHANGED vars
  BY <1>1 DEF vars, WedgeInv
<1>2. CASE Next
  <2>1. \/ fault' # "wedge"
        \/ Fail("wedge") /\ top[depth] # 0
    BY <1>2
    DEF Next, SetLogger, RegisterUserClass, ExecuteString, BeginCall, PushArgument, PushResult,
        LeaveCallback, EndCall, PopResult, ReleaseAfterCall, PopParameter, ScriptReturns,
        ScriptFails, EnterCallback, Registrable, InCPP, InScript, Fail
  <2> QED BY <2>1 DEF WedgeInv, Fail, frames
<1> QED BY <1>1, <1>2

\* The program's own BeginCall and RegisterUserClass hang only on leftovers of
\* the program's own scripts and calls, never on those of a callback.
THEOREM CallOnlyLeftoversWedge == Spec => []OnlyLeftoversWedge
<1>1. Init => WedgeInv
  BY DEF Init, WedgeInv
<1>2. CallInv /\ WedgeInv => OnlyLeftoversWedge
  <2> SUFFICES ASSUME CallInv, WedgeInv, fault = "wedge", depth = 0
               PROVE  left[0] > 0 \/ Held(0) > 0
    BY DEF OnlyLeftoversWedge
  <2>1. FrameOK(0) /\ top[0] # 0 /\ left[0] \in Nat /\ Held(0) \in Nat
    BY DepthFacts DEF WedgeInv
  <2>2. params[0] = 0 /\ pushed[0] = 0 /\ ~mixed[0]
    BY DEF CallInv, LevelsInv
  <2>3. Positive(params[0]) = 0
    BY <2>2 DEF Positive
  <2> QED BY <2>1, <2>2, <2>3 DEF FrameOK
<1> QED BY <1>1, <1>2, CallInvariant, NextWedgeInv, PTL DEF Spec

\* Leftovers at level 0 stay, and no call of the program begins again.
THEOREM CallWedgedForEver == Spec => WedgedForEver
<1>1. CallInv /\ [Next]_vars => [Wedged => Wedged']_vars
  <2> SUFFICES ASSUME CallInv, Next, left[0] > 0, phase[0] = "none"
               PROVE  left'[0] > 0 /\ phase'[0] = "none"
    BY DEF Wedged, vars
  <2>1. /\ 0 \in Level /\ left[0] \in Nat /\ depth \in Nat /\ depth \in Level
        /\ left \in [Level -> Nat] /\ phase \in [Level -> Phase]
        /\ depth + 1 # 0
    <3>1. 0 \in Level
      BY BoundAssumption DEF Level
    <3>2. left \in [Level -> Nat] /\ phase \in [Level -> Phase]
      BY DEF CallInv, TypeOK
    <3>3. depth \in Nat /\ depth \in Level
      BY DepthFacts
    <3> QED BY <3>1, <3>2, <3>3
  <2>2. depth = 0 => top[depth] # 0
    <3> SUFFICES ASSUME depth = 0 PROVE top[depth] # 0
      OBVIOUS
    <3>1. FrameOK(depth) /\ Positive(params[depth]) \in Nat /\ Held(depth) \in Nat /\ pushed[depth] \in Nat
      BY DepthFacts
    <3>2. ~mixed[0]
      BY DEF CallInv, LevelsInv
    <3> QED BY <2>1, <3>1, <3>2 DEF FrameOK
  <2>3. running[0] # "call"
    BY <2>1 DEF CallInv, LevelsInv
  <2>4. CASE depth # 0
    <3>1. /\ left' = left \/ \E n : left' = [left EXCEPT ![depth] = n]
          /\ phase' = phase \/ \E n : phase' = [phase EXCEPT ![depth] = n]
      <4>1. CASE \E b \in BOOLEAN : \/ ExecuteString(b) \/ BeginCall(b)
                                    \/ PushArgument(b) \/ PushResult(b) \/ LeaveCallback(b)
        BY <4>1 DEF ExecuteString, BeginCall, PushArgument, PushResult, LeaveCallback, Fail, frames
      <4>2. CASE ScriptFails \/ \E r \in 0..MaxTop : ScriptReturns(r)
        BY <4>2 DEF ScriptFails, ScriptReturns, Fail, frames
      <4>3. CASE EndCall \/ PopResult \/ ReleaseAfterCall \/ PopParameter
        BY <4>3 DEF EndCall, PopResult, ReleaseAfterCall, PopParameter, Uncounted, Fail, frames
      <4>4. CASE \/ SetLogger \/ RegisterUserClass
                \/ \E k \in {"function", "constructor"}, n \in 0..MaxTop : EnterCallback(k, n)
        BY <4>4 DEF SetLogger, RegisterUserClass, EnterCallback, Fail, frames
      <4> QED BY <4>1, <4>2, <4>3, <4>4 DEF Next
    <3> QED BY <2>1, <2>4, <3>1
  <2>5. CASE depth = 0
    <3>1. CASE \E compiles \in BOOLEAN : ExecuteString(compiles)
      BY <2>1, <2>5, <3>1 DEF ExecuteString, Fail, frames
    <3>2. CASE \E r \in 0..MaxTop : ScriptReturns(r)
      BY <2>1, <2>3, <2>5, <3>2, BoundAssumption DEF ScriptReturns
    <3>3. CASE ScriptFails
      BY <2>1, <2>3, <2>5, <3>3 DEF ScriptFails, Fail, frames
    <3>4. CASE UNCHANGED <<left, phase>>
      BY <3>4
    <3> QED BY <2>1, <2>2, <2>5, <3>1, <3>2, <3>3, <3>4
        DEF Next, SetLogger, RegisterUserClass, BeginCall, PushArgument, PushResult,
            LeaveCallback, EndCall, PopResult, ReleaseAfterCall, PopParameter,
            EnterCallback, Fail, frames
  <2> QED BY <2>4, <2>5
<1> QED BY <1>1, CallInvariant, PTL DEF Spec, WedgedForEver
=============================================================================
