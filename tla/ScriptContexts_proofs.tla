------------------------ MODULE ScriptContexts_proofs ------------------------
(***************************************************************************)
(* What the Squirrel and the OCaml backend guarantee about calls, for any  *)
(* nesting, any number of values, functions, scripts and contexts.         *)
(***************************************************************************)
EXTENDS ScriptContexts, SequenceTheorems, WellFoundedInduction, TLAPS

-----------------------------------------------------------------------------
(* Squirrel: what the operations do to a frame, slot by slot *)

\* s lies under t.
Under(s, t) == Len(s) <= Len(t) /\ \A i \in 1..Len(s) : t[i] = s[i]

\* A pushed value.
LEMMA AppendFrame ==
  ASSUME NEW s \in Seq(Value), NEW v \in Value
  PROVE  /\ Append(s, v) \in Seq(Value)
         /\ Len(Append(s, v)) = Len(s) + 1
         /\ Under(s, Append(s, v))
         /\ Append(s, v)[Len(s) + 1] = v
  BY DEF Under

\* Two of them.
LEMMA PairFrame ==
  ASSUME NEW s \in Seq(Value), NEW v \in Value, NEW w \in Value
  PROVE  /\ s \o <<v, w>> \in Seq(Value)
         /\ Len(s \o <<v, w>>) = Len(s) + 2
         /\ Under(s, s \o <<v, w>>)
<1>1. <<v, w>> \in Seq(Value) /\ Len(<<v, w>>) = 2
  OBVIOUS
<1>2. Len(s) \in Nat
  OBVIOUS
<1> QED BY <1>1, <1>2, ConcatProperties DEF Under

\* The root table, the function and the environment.
LEMMA CallFrame ==
  ASSUME NEW s \in Seq(Value), NEW f \in Value
  PROVE  LET t == s \o <<"table", f, "table">>
         IN  t \in Seq(Value) /\ Len(t) = Len(s) + 3 /\ Under(s, t) /\ Placed(t, Len(s), f, 0)
<1>1. <<"table", f, "table">> \in Seq(Value) /\ Len(<<"table", f, "table">>) = 3
  BY DEF Value
<1>2. Len(s) \in Nat
  OBVIOUS
<1> QED BY <1>1, <1>2, ConcatProperties DEF Under, Placed

\* sq_pop.
LEMMA PopFrame ==
  ASSUME NEW s \in Seq(Value), NEW n \in Nat, n <= Len(s)
  PROVE  /\ Popped(s, n) \in Seq(Value)
         /\ Len(Popped(s, n)) = Len(s) - n
         /\ Under(Popped(s, n), s)
<1>1. Len(s) \in Nat /\ \A i \in 1..Len(s) : s[i] \in Value
  OBVIOUS
<1>2. \A i \in 1..(Len(s) - n) : s[i] \in Value
  BY <1>1
<1>3. /\ Popped(s, n) \in Seq(Value)
      /\ Len(Popped(s, n)) = Len(s) - n
      /\ \A i \in 1..(Len(s) - n) : Popped(s, n)[i] = s[i]
  BY <1>1, <1>2, SubSeqProperties DEF Popped
<1> QED BY <1>1, <1>3 DEF Under

\* The frame that CallNative starts.
LEMMA EnterFrame ==
  ASSUME NEW this \in Value, NEW n \in Nat, NEW k, k # "function" => this = "this"
  PROVE  LET s == <<this>> \o [i \in 1..n |-> "value"]
         IN  s \in Seq(Value) /\ Len(s) = 1 + n /\ Grounded(s, k, n, 1 + n)
<1> DEFINE t == [i \in 1..n |-> "value"]
<1>1. t \in Seq(Value) /\ Len(t) = n
  BY DEF Value
<1>2. <<this>> \in Seq(Value) /\ Len(<<this>>) = 1 /\ <<this>>[1] = this
  OBVIOUS
<1> HIDE DEF t
<1>3. <<this>> \o t \in Seq(Value) /\ Len(<<this>> \o t) = 1 + n /\ (<<this>> \o t)[1] = this
  BY <1>1, <1>2, ConcatProperties
<1>4. Grounded(<<this>> \o t, k, n, 1 + n)
  BY <1>3 DEF Grounded
<1> QED BY <1>3, <1>4 DEF t

\* An argument on top of a call.
LEMMA PlacedArgument ==
  ASSUME NEW s \in Seq(Value), NEW t \in Seq(Value), Under(s, t), Len(t) = Len(s) + 1,
         NEW m \in Nat, NEW f, NEW n \in Nat, Placed(s, m, f, n)
  PROVE  Placed(t, m, f, n + 1)
  BY DEF Under, Placed

\* The ground does not depend on what lies above it, ...
LEMMA GroundUnder ==
  ASSUME NEW s \in Seq(Value), NEW t \in Seq(Value), Under(s, t) \/ Under(t, s),
         NEW k, NEW p \in Int, NEW g \in Int, g <= Len(t), Grounded(s, k, p, g)
  PROVE  Grounded(t, k, p, g)
<1>1. Len(s) \in Nat /\ Len(t) \in Nat
  OBVIOUS
<1>2. \A i \in 1..g : t[i] = s[i]
  BY <1>1 DEF Under, Grounded
<1> QED BY <1>1, <1>2 DEF Grounded

\* ... and a root table on top of it belongs to it.
LEMMA GroundTable ==
  ASSUME NEW s \in Seq(Value), NEW k, NEW p \in Int, NEW g \in Int, Grounded(s, k, p, g),
         g < Len(s), s[g + 1] = "table"
  PROVE  Grounded(s, k, p, g + 1)
  BY DEF Grounded

\* The results that are pushed on it do not.
LEMMA GroundResult ==
  ASSUME NEW s \in Seq(Value), NEW t \in Seq(Value), Under(s, t), Len(t) = Len(s) + 1,
         NEW k, NEW p \in Int, NEW q \in Nat, Grounded(s, k, p, Len(s) - q)
  PROVE  Grounded(t, k, p, Len(t) - (q + 1))
<1>1. /\ Len(t) - (q + 1) = Len(s) - q /\ Len(s) - q \in Int
      /\ Len(s) - q <= Len(t)
  OBVIOUS
<1> QED BY <1>1, GroundUnder

\* A value that is popped off the ground is a parameter.
LEMMA GroundParameter ==
  ASSUME NEW s \in Seq(Value), NEW t \in Seq(Value), Under(t, s), Len(t) = Len(s) - 1,
         NEW k, NEW p \in Int, p > 0, Grounded(s, k, p, Len(s)), s[Len(s)] # "table"
  PROVE  Grounded(t, k, p - 1, Len(t))
<1>1. Len(s) \in Nat /\ Len(t) \in Nat
  OBVIOUS
<1>2. Len(s) = 1 + p
  BY <1>1 DEF Grounded
<1>3. t[1] = s[1]
  BY <1>1, <1>2 DEF Under
<1> QED BY <1>1, <1>2, <1>3 DEF Grounded

\* What is left when a call that returned is released: a result that was not popped was
\* popped in the place of the root table.
LEMMA GroundReleased ==
  ASSUME NEW s \in Seq(Value), NEW t \in Seq(Value), Under(t, s), Len(t) = Len(s) - 2,
         NEW k, NEW p \in Int, NEW m \in Nat, NEW r \in Int, 0 <= r, r <= 1, Len(s) = m + 2 + r,
         Grounded(s, k, p, m), Grounded(s, k, p, m + 1)
  PROVE  Grounded(t, k, p, Len(t) - 0)
<1>1. Len(s) \in Nat /\ Len(t) \in Nat /\ Len(t) = m + r
  OBVIOUS
<1>2. CASE r = 0
  <2>1. Len(t) = m /\ Len(t) - 0 = m /\ m \in Int /\ m <= Len(t)
    BY <1>1, <1>2
  <2>2. Grounded(t, k, p, m)
    BY <2>1, GroundUnder
  <2> QED BY <2>1, <2>2
<1>3. CASE r = 1
  <2>1. Len(t) = m + 1 /\ Len(t) - 0 = m + 1 /\ m + 1 \in Int /\ m + 1 <= Len(t)
    BY <1>1, <1>3
  <2>2. Grounded(t, k, p, m + 1)
    BY <2>1, GroundUnder
  <2> QED BY <2>1, <2>2
<1> QED BY <1>2, <1>3

\* sq_call replaces the environment and the n arguments by one value, ...
LEMMA ReturnFrame ==
  ASSUME NEW s \in Seq(Value), NEW n \in Nat, n + 2 <= Len(s)
  PROVE  LET t == Append(Popped(s, n + 1), "value")
         IN  /\ t \in Seq(Value) /\ Len(t) = Len(s) - n
             /\ \A i \in 1..(Len(s) - n - 1) : t[i] = s[i]
<1>1. PICK u \in Seq(Value) : u = Popped(s, n + 1) /\ Len(u) = Len(s) - (n + 1) /\ Under(u, s)
  <2>1. n + 1 \in Nat /\ n + 1 <= Len(s)
    OBVIOUS
  <2> QED BY <2>1, PopFrame
<1>2. PICK t \in Seq(Value) : t = Append(u, "value") /\ Len(t) = Len(u) + 1 /\ Under(u, t)
  BY AppendFrame DEF Value
<1>3. Len(t) = Len(s) - n /\ \A i \in 1..(Len(s) - n - 1) : t[i] = s[i]
  <2>1. Len(s) \in Nat /\ Len(u) = Len(s) - n - 1 /\ Len(t) = Len(s) - n
    BY <1>1, <1>2
  <2> QED BY <2>1, <1>1, <1>2 DEF Under
<1> QED BY <1>1, <1>2, <1>3

\* ... so that the root table under the function becomes part of the ground.
LEMMA GroundReturned ==
  ASSUME NEW s \in Seq(Value), NEW t \in Seq(Value), NEW n \in Nat, Len(t) = Len(s) - n,
         \A i \in 1..(Len(s) - n - 1) : t[i] = s[i],
         NEW m \in Nat, NEW f, Placed(s, m, f, n),
         NEW k, NEW p \in Int, Grounded(s, k, p, m)
  PROVE  Grounded(t, k, p, m) /\ Grounded(t, k, p, m + 1)
<1>1. Len(s) \in Nat /\ Len(s) = m + 3 + n /\ Len(t) = m + 3 /\ s[m + 1] = "table"
  BY DEF Placed
<1>2. \A i \in 1..(m + 1) : t[i] = s[i]
  BY <1>1
<1>3. t[m + 1] = "table"
  BY <1>1, <1>2
<1>4. Grounded(t, k, p, m)
  BY <1>1, <1>2 DEF Grounded
<1> QED BY <1>1, <1>3, <1>4, GroundTable

\* More values than there were are enough, also for one more argument.
LEMMA EnoughAbove ==
  ASSUME NEW c \in Nat, NEW b \in Nat, NEW ph, NEW p \in Int, NEW n \in Nat, NEW r \in Int,
         NEW n1 \in Nat, Enough(c, ph, p, n, r), n1 - n <= b - c, c <= b
  PROVE  Enough(b, ph, p, n1, r)
  BY DEF Enough

\* Three slots as a sequence.
LEMMA ThreeSlots ==
  ASSUME NEW s \in Seq(Value), NEW m \in Nat, m + 3 <= Len(s)
  PROVE  SubSeq(s, m + 1, m + 3) = <<s[m + 1], s[m + 2], s[m + 3]>>
<1> DEFINE t == SubSeq(s, m + 1, m + 3)
           u == <<s[m + 1], s[m + 2], s[m + 3]>>
<1>1. Len(s) \in Nat /\ \A i \in (m + 1)..(m + 3) : s[i] \in Value
  OBVIOUS
<1>2. t \in Seq(Value) /\ Len(t) = 3 /\ t[1] = s[m + 1] /\ t[2] = s[m + 2] /\ t[3] = s[m + 3]
  BY <1>1, SubSeqProperties
<1>3. u \in Seq(Value) /\ Len(u) = 3 /\ u[1] = s[m + 1] /\ u[2] = s[m + 2] /\ u[3] = s[m + 3]
  BY <1>1
<1>4. \A i \in 1..3 : t[i] = u[i]
  <2>1. \A i \in 1..3 : i = 1 \/ i = 2 \/ i = 3
    OBVIOUS
  <2> QED BY <1>2, <1>3, <2>1
<1> HIDE DEF t, u
<1>5. t = u
  BY <1>2, <1>3, <1>4, SeqEqual
<1> QED BY <1>5 DEF t, u
-----------------------------------------------------------------------------
(* Squirrel: every step preserves the invariant *)

\* The types of what belongs to one level.
LEMMA LevelType ==
  ASSUME TypeOK, NEW l \in Level
  PROVE  /\ stk[l] \in Seq(Value) /\ Len(stk[l]) \in Nat
         /\ params[l] \in Int /\ pushed[l] \in Nat /\ args[l] \in Nat
         /\ results[l] \in Int /\ mark[l] \in Nat /\ damage[l] \in SUBSET Damage
         /\ phase[l] \in {"none", "open", "ended", "failed"}
  BY DEF TypeOK

\* Nothing of level l changes.
SameLevel(l) ==
    /\ running'[l] = running[l] /\ kind'[l] = kind[l] /\ stk'[l] = stk[l]
    /\ params'[l] = params[l] /\ pushed'[l] = pushed[l] /\ phase'[l] = phase[l]
    /\ fn'[l] = fn[l] /\ args'[l] = args[l] /\ results'[l] = results[l]
    /\ mark'[l] = mark[l] /\ damage'[l] = damage[l]

\* Then its part of the invariant stays true.
LEMMA SameLevelInv ==
  ASSUME NEW l \in Level, LevelInv(l), SameLevel(l), UNCHANGED depth
  PROVE  LevelInv(l)'
  BY DEF SameLevel, LevelInv, LevelOrder, LengthInv, CalleeInv, ResultsInv, ResultOnTop,
         CleanInv

\* A step inside one C++ function is about the frame of that function only.
LEMMA OneLevel ==
  ASSUME SquirrelInv, NEW d \in Level, depth = d, depth' = d,
         \A l \in Level \ {d} : SameLevel(l),
         TypeOK', fault' = "none", LevelInv(d)'
  PROVE  SquirrelInv'
<1>1. ASSUME NEW l \in Level \ {d} PROVE LevelInv(l)'
  BY <1>1, SameLevelInv DEF SquirrelInv
<1>2. FaultsExplained'
  BY DEF FaultsExplained
<1> QED BY <1>1, <1>2 DEF SquirrelInv

\* A value that belongs to a call: PushInt, or the instance of a class that was found.
LEMMA ArgumentPushed ==
  ASSUME SquirrelInv, NEW d \in Level, depth = d,
         running[d] = "no", phase[d] = "open", fault = "none",
         stk' = [stk EXCEPT ![d] = Append(stk[d], "value")],
         args' = [args EXCEPT ![d] = args[d] + 1],
         known' \in BOOLEAN, inRoot' \in BOOLEAN,
         UNCHANGED <<depth, running, kind, params, pushed, phase, fn, results, mark, damage, fault>>
  PROVE  SquirrelInv'
<1>1. /\ TypeOK /\ LevelInv(d) /\ running[d] = "no" /\ phase[d] = "open" /\ fault = "none"
      /\ args' = [args EXCEPT ![d] = args[d] + 1]
      /\ UNCHANGED <<depth, running, kind, params, pushed, phase, fn, results, mark, damage, fault>>
  BY DEF SquirrelInv
<1>2. PICK s \in Seq(Value) : stk[d] = s
  BY <1>1 DEF TypeOK
<1>3. PICK t \in Seq(Value) : t = Append(s, "value") /\ Len(t) = Len(s) + 1 /\ Under(s, t)
  BY AppendFrame DEF Value
<1>4. stk' = [stk EXCEPT ![d] = t]
  BY <1>2, <1>3
<1>5. TypeOK' /\ \A l \in Level \ {d} : SameLevel(l)
  <2>1. TypeOK'
    BY <1>1, <1>4 DEF TypeOK
  <2>2. \A l \in Level \ {d} : SameLevel(l)
    BY <1>1, <1>4 DEF TypeOK, SameLevel
  <2> QED BY <2>1, <2>2
<1>6. stk'[d] = t /\ args'[d] = args[d] + 1
  BY <1>1, <1>4 DEF TypeOK
<1>7. LevelInv(d)'
  <2>0. /\ Len(s) \in Nat /\ Len(t) = Len(s) + 1
        /\ mark[d] \in Nat /\ args[d] \in Nat /\ params[d] \in Int
    BY <1>1, <1>3, LevelType
  <2>1. LevelOrder(d)' /\ LengthInv(d)'
    BY <2>0, <1>1, <1>2, <1>6 DEF LevelInv, LevelOrder, LengthInv, Enough
  <2>2. CalleeInv(d)'
    <3>1. Placed(s, mark[d], fn[d], args[d]) => Placed(t, mark[d], fn[d], args[d] + 1)
      BY <2>0, <1>3, PlacedArgument
    <3> QED BY <3>1, <1>1, <1>2, <1>6 DEF LevelInv, CalleeInv
  <2>3. ResultsInv(d)' /\ ResultOnTop(d)'
    BY <1>1, <1>6 DEF LevelInv, ResultsInv, ResultOnTop
  <2>4. CleanInv(d)'
    <3>1. Grounded(s, kind[d], params[d], mark[d]) => Grounded(t, kind[d], params[d], mark[d])
      BY <2>0, <1>3, GroundUnder DEF Grounded
    <3> QED BY <3>1, <1>1, <1>2, <1>6 DEF LevelInv, CleanInv
  <2> QED BY <2>1, <2>2, <2>3, <2>4 DEF LevelInv
<1> QED BY <1>1, <1>5, <1>7, OneLevel

\* A result: between calls it lies on top, during one it is mixed with the call.
LEMMA ResultPushed ==
  ASSUME SquirrelInv, NEW d \in Level, depth = d,
         running[d] = "no", fault = "none",
         stk' = [stk EXCEPT ![d] = Append(stk[d], "value")],
         pushed' = [pushed EXCEPT ![d] = pushed[d] + 1],
         NEW D \in SUBSET Damage, damage' = [damage EXCEPT ![d] = damage[d] \cup D],
         phase[d] # "none" => "mixed" \in D,
         known' \in BOOLEAN, inRoot' \in BOOLEAN,
         UNCHANGED <<depth, running, kind, params, phase, fn, args, results, mark, fault>>
  PROVE  SquirrelInv'
<1>1. TypeOK /\ LevelInv(d)
  BY DEF SquirrelInv
<1>2. PICK s \in Seq(Value) : stk[d] = s
  BY <1>1 DEF TypeOK
<1>3. PICK t \in Seq(Value) :
         /\ t = Append(s, "value") /\ Len(t) = Len(s) + 1 /\ Under(s, t)
         /\ t[Len(s) + 1] = "value"
  BY AppendFrame DEF Value
<1>4. stk' = [stk EXCEPT ![d] = t]
  BY <1>2, <1>3
<1>5. TypeOK'
  BY <1>1, <1>4 DEF TypeOK
<1>6. \A l \in Level \ {d} : SameLevel(l)
  BY <1>1, <1>4 DEF TypeOK, SameLevel
<1>7. /\ stk'[d] = t /\ pushed'[d] = pushed[d] + 1 /\ damage'[d] = damage[d] \cup D
      /\ depth' = d /\ running'[d] = "no" /\ kind'[d] = kind[d] /\ params'[d] = params[d]
      /\ phase'[d] = phase[d] /\ results'[d] = results[d] /\ args'[d] = args[d]
  BY <1>1, <1>4 DEF TypeOK
<1>8. LevelInv(d)'
  <2>0. /\ d \in Int /\ Len(s) \in Nat /\ Len(t) = Len(s) + 1
        /\ params[d] \in Int /\ pushed[d] \in Nat /\ results[d] \in Int /\ args[d] \in Nat
    BY <1>1, <1>3, LevelType DEF Level
  <2>1. LevelOrder(d)' /\ LengthInv(d)'
    <3>1. damage'[d] \cap {"failed", "overpopped"} = {}
            => damage[d] \cap {"failed", "overpopped"} = {}
      BY <1>7
    <3> QED BY <3>1, <2>0, <1>1, <1>2, <1>7 DEF LevelInv, LevelOrder, LengthInv, Enough
  <2>2. CalleeInv(d)' /\ ResultsInv(d)'
    <3>1. phase[d] # "none" => damage'[d] \cap {"reassigned", "stray", "mixed"} # {}
      BY <1>7
    <3> QED BY <3>1, <2>0, <1>7 DEF CalleeInv, ResultsInv
  <2>3. ResultOnTop(d)'
    <3>1. ValueOnTop(t)
      BY <2>0, <1>3 DEF ValueOnTop
    <3>2. phase[d] # "none" => damage'[d] \cap {"mixed", "stray"} # {}
      BY <1>7
    <3> QED BY <3>1, <3>2, <1>7 DEF ResultOnTop
  <2>4. CleanInv(d)'
    <3>1. ASSUME damage'[d] = {} PROVE damage[d] = {} /\ phase[d] = "none"
      BY <3>1, <1>7
    <3>2. Grounded(s, kind[d], params[d], Len(s) - pushed[d])
            => Grounded(t, kind[d], params[d], Len(t) - (pushed[d] + 1))
      BY <2>0, <1>3, GroundResult
    <3> QED BY <3>1, <3>2, <1>1, <1>2, <1>7 DEF LevelInv, CleanInv
  <2> QED BY <2>1, <2>2, <2>3, <2>4 DEF LevelInv
<1> QED BY <1>1, <1>5, <1>6, <1>7, <1>8, OneLevel

\* A class that sq_createslot did not find a table for, or its instance, and the name
\* stay on the frame.
LEMMA StrayPushed ==
  ASSUME SquirrelInv, NEW d \in Level, depth = d, running[d] = "no", fault = "none",
         NEW v \in Value, stk' = [stk EXCEPT ![d] = stk[d] \o <<"value", v>>],
         NEW D \in SUBSET Damage, damage' = [damage EXCEPT ![d] = damage[d] \cup D],
         "stray" \in D,
         NEW a \in Nat, a <= 1, args' = [args EXCEPT ![d] = args[d] + a],
         NEW b \in Nat, pushed' = [pushed EXCEPT ![d] = pushed[d] + b],
         known' \in BOOLEAN, inRoot' \in BOOLEAN,
         UNCHANGED <<depth, running, kind, params, phase, fn, results, mark, fault>>
  PROVE  SquirrelInv'
<1>1. TypeOK /\ LevelInv(d)
  BY DEF SquirrelInv
<1>2. PICK s \in Seq(Value) : stk[d] = s
  BY <1>1 DEF TypeOK
<1>3. PICK t \in Seq(Value) : t = s \o <<"value", v>> /\ Len(t) = Len(s) + 2
  BY PairFrame DEF Value
<1>4. stk' = [stk EXCEPT ![d] = t]
  BY <1>2, <1>3
<1>5. TypeOK'
  <2>1. args' \in [Level -> Nat]
    BY <1>1 DEF TypeOK
  <2>2. pushed' \in [Level -> Nat]
    BY <1>1 DEF TypeOK
  <2>3. stk' \in [Level -> Seq(Value)] /\ damage' \in [Level -> SUBSET Damage]
    BY <1>1, <1>4 DEF TypeOK
  <2> QED BY <2>1, <2>2, <2>3, <1>1 DEF TypeOK
<1>6. \A l \in Level \ {d} : SameLevel(l)
  BY <1>1, <1>4 DEF TypeOK, SameLevel
<1>7. /\ stk'[d] = t /\ damage'[d] = damage[d] \cup D
      /\ depth' = d /\ running'[d] = "no" /\ params'[d] = params[d]
      /\ phase'[d] = phase[d] /\ results'[d] = results[d]
  BY <1>1, <1>4 DEF TypeOK
<1>8. args'[d] = args[d] + a
  BY <1>1 DEF TypeOK
<1>9. LevelInv(d)'
  <2>0. /\ d \in Int /\ Len(s) \in Nat /\ Len(t) = Len(s) + 2
        /\ params[d] \in Int /\ args[d] \in Nat /\ results[d] \in Int
    BY <1>1, <1>3, LevelType DEF Level
  <2>1. "stray" \in damage'[d] /\ (damage'[d] \cap {"failed", "overpopped"} = {}
            => damage[d] \cap {"failed", "overpopped"} = {})
    BY <1>7
  <2>2. LevelOrder(d)'
    BY <2>0, <1>7 DEF LevelOrder
  <2>3. LengthInv(d)'
    <3>1. PICK p \in Int, n \in Nat, r \in Int : params[d] = p /\ args[d] = n /\ results[d] = r
      BY <2>0
    <3>2. \A ph : Enough(Len(s), ph, p, n, r) => Enough(Len(t), ph, p, n + a, r)
      BY <2>0, EnoughAbove
    <3> QED BY <3>1, <3>2, <1>8, <2>0, <2>1, <1>1, <1>2, <1>7 DEF LevelInv, LengthInv
  <2>4. CalleeInv(d)' /\ ResultsInv(d)' /\ ResultOnTop(d)' /\ CleanInv(d)'
    BY <2>1 DEF CalleeInv, ResultsInv, ResultOnTop, CleanInv
  <2> QED BY <2>2, <2>3, <2>4 DEF LevelInv
<1> QED BY <1>1, <1>5, <1>6, <1>7, <1>9, OneLevel

\* The frames stay as they are.
LEMMA FramesKept ==
  ASSUME SquirrelInv, UNCHANGED <<frames, fault>>, known' \in BOOLEAN, inRoot' \in BOOLEAN
  PROVE  SquirrelInv'
<1>1. TypeOK'
  BY DEF SquirrelInv, TypeOK, frames
<1>2. FaultsExplained'
  BY DEF SquirrelInv, FaultsExplained, frames, Slotted, Frame, Top
<1>3. ASSUME NEW l \in Level PROVE LevelInv(l)'
  BY <1>3, SameLevelInv DEF SquirrelInv, SameLevel, frames
<1> QED BY <1>1, <1>2, <1>3 DEF SquirrelInv

\* A script starts or ends, and the frame that ran it stays as it is.
LEMMA ScriptSwitched ==
  ASSUME SquirrelInv, NEW d \in Level, depth = d, fault = "none",
         NEW ru \in {"no", "string", "call"}, running' = [running EXCEPT ![d] = ru],
         ru = "call" => phase[d] = "open" /\ Len(stk[d]) >= args[d] + 2,
         UNCHANGED <<depth, kind, stk, params, pushed, phase, fn, args, results, mark, damage,
                     known, inRoot, fault>>
  PROVE  SquirrelInv'
<1>1. TypeOK /\ LevelInv(d)
  BY DEF SquirrelInv
<1>2. TypeOK'
  BY <1>1 DEF TypeOK
<1>3. \A l \in Level \ {d} : SameLevel(l)
  BY <1>1 DEF TypeOK, SameLevel
<1>4. running'[d] = ru
  BY <1>1 DEF TypeOK
<1>5. LevelInv(d)'
  <2>1. LevelOrder(d)'
    <3>1. ~(d > d)
      BY DEF Level
    <3> QED BY <3>1, <1>4 DEF LevelOrder
  <2> QED BY <2>1, <1>1 DEF LevelInv, LengthInv, CalleeInv, ResultsInv, ResultOnTop, CleanInv
<1> QED BY <1>2, <1>3, <1>5, OneLevel

\* A string is executed.
LEMMA ExecuteStringStep ==
  ASSUME SquirrelInv, ExecuteString
  PROVE  SquirrelInv'
  BY ScriptSwitched DEF SquirrelInv, TypeOK, ExecuteString, InCPP

\* EndCall calls the function that it finds.
LEMMA EndCallStep ==
  ASSUME SquirrelInv, EndCall
  PROVE  SquirrelInv'
<1>1. PICK d \in Level : depth = d
  BY DEF SquirrelInv, TypeOK
<1>2. Len(stk[d]) >= args[d] + 2
  <2>1. Len(stk[d]) \in Nat /\ args[d] \in Nat
    BY LevelType DEF SquirrelInv
  <2>2. Len(stk[d]) - args[d] - 1 >= 1
    BY <1>1 DEF EndCall, Callee, CalleeIndex, Frame
  <2> QED BY <2>1, <2>2
<1> QED BY <1>1, <1>2, ScriptSwitched DEF EndCall, InCPP

\* A call begins: the root table, the function and the environment are pushed.
LEMMA BeginCallStep ==
  ASSUME SquirrelInv, NEW f \in Functions, BeginCall(f)
  PROVE  SquirrelInv'
<1>1. TypeOK
  BY DEF SquirrelInv
<1>2. PICK d \in Level : depth = d
  BY <1>1 DEF TypeOK
<1>3. PICK s \in Seq(Value) : stk[d] = s
  BY <1>1 DEF TypeOK
<1>4. PICK t \in Seq(Value) :
         /\ t = s \o <<"table", f, "table">>
         /\ Len(t) = Len(s) + 3 /\ Under(s, t) /\ Placed(t, Len(s), f, 0)
  BY CallFrame DEF Value
<1>5. PICK D \in SUBSET Damage : D = Mixed
  BY DEF Mixed, Damage
<1>6. /\ stk' = [stk EXCEPT ![d] = t]
      /\ damage' = [damage EXCEPT ![d] = damage[d] \cup D]
      /\ phase' = [phase EXCEPT ![d] = "open"] /\ fn' = [fn EXCEPT ![d] = f]
      /\ args' = [args EXCEPT ![d] = 0] /\ results' = [results EXCEPT ![d] = 0]
      /\ mark' = [mark EXCEPT ![d] = Len(s)]
      /\ UNCHANGED <<depth, running, kind, params, pushed, known, inRoot, fault>>
  BY <1>2, <1>3, <1>4, <1>5 DEF BeginCall, Harm, Frame
<1>7. running[d] = "no" /\ phase[d] = "none" /\ fault = "none" /\ LevelInv(d)
  BY <1>2 DEF BeginCall, InCPP, SquirrelInv
<1>8. TypeOK' /\ \A l \in Level \ {d} : SameLevel(l)
  <2>1. /\ stk' \in [Level -> Seq(Value)] /\ damage' \in [Level -> SUBSET Damage]
        /\ phase' \in [Level -> {"none", "open", "ended", "failed"}]
    BY <1>1, <1>6 DEF TypeOK
  <2>2. /\ fn' \in [Level -> Functions \cup {"none"}] /\ mark' \in [Level -> Nat]
        /\ args' \in [Level -> Nat] /\ results' \in [Level -> Int]
    BY <1>1, <1>6 DEF TypeOK
  <2>3. TypeOK'
    BY <1>1, <1>6, <2>1, <2>2 DEF TypeOK
  <2>4. \A l \in Level \ {d} : SameLevel(l)
    BY <1>1, <1>6 DEF TypeOK, SameLevel
  <2> QED BY <2>3, <2>4
<1>9. /\ stk'[d] = t /\ damage'[d] = damage[d] \cup D /\ phase'[d] = "open" /\ fn'[d] = f
      /\ args'[d] = 0 /\ results'[d] = 0 /\ mark'[d] = Len(s) /\ running'[d] = "no"
      /\ pushed'[d] = pushed[d] /\ kind'[d] = kind[d] /\ params'[d] = params[d] /\ depth' = d
  BY <1>1, <1>2, <1>6, <1>7 DEF TypeOK
<1>10. LevelInv(d)'
  <2>0. /\ d \in Int /\ Len(s) \in Nat /\ Len(t) = Len(s) + 3
        /\ params[d] \in Int /\ pushed[d] \in Nat
    BY <1>1, <1>4, LevelType DEF Level
  <2>1. LevelOrder(d)' /\ LengthInv(d)'
    <3>1. damage'[d] \cap {"failed", "overpopped"} = {}
            => damage[d] \cap {"failed", "overpopped"} = {}
      BY <1>9
    <3> QED BY <3>1, <2>0, <1>2, <1>3, <1>7, <1>9 DEF LevelInv, LevelOrder, LengthInv, Enough
  <2>2. CalleeInv(d)' /\ ResultsInv(d)'
    BY <1>4, <1>9 DEF CalleeInv, ResultsInv
  <2>3. ResultOnTop(d)'
    <3>1. pushed[d] > 0 => damage'[d] \cap {"mixed", "stray"} # {}
      BY <1>2, <1>5, <1>9 DEF Mixed
    <3> QED BY <3>1, <1>9 DEF ResultOnTop
  <2>4. CleanInv(d)'
    <3>1. ASSUME damage'[d] = {} PROVE damage[d] = {} /\ pushed[d] = 0
      <4>1. damage[d] = {} /\ D = {}
        BY <3>1, <1>9
      <4>2. ~(pushed[d] > 0)
        BY <4>1, <1>2, <1>5 DEF Mixed
      <4> QED BY <4>1, <4>2, <2>0
    <3>2. Grounded(s, kind[d], params[d], Len(s)) => Grounded(t, kind[d], params[d], Len(s))
      <4>1. Len(s) \in Int /\ Len(s) <= Len(t)
        BY <2>0
      <4> QED BY <4>1, <2>0, <1>4, GroundUnder
    <3>3. Len(s) - 0 = Len(s) /\ d <= d
      BY <2>0
    <3> QED BY <3>1, <3>2, <3>3, <1>2, <1>3, <1>7, <1>9 DEF LevelInv, CleanInv
  <2> QED BY <2>1, <2>2, <2>3, <2>4 DEF LevelInv
<1> QED BY <1>2, <1>6, <1>7, <1>8, <1>10, OneLevel

\* The root table of a global that is no function.
LEMMA BeginCallNotFunctionStep ==
  ASSUME SquirrelInv, BeginCallNotFunction
  PROVE  SquirrelInv'
<1>1. TypeOK
  BY DEF SquirrelInv
<1>2. PICK d \in Level : depth = d
  BY <1>1 DEF TypeOK
<1>3. PICK s \in Seq(Value) : stk[d] = s
  BY <1>1 DEF TypeOK
<1>4. PICK t \in Seq(Value) :
         /\ t = Append(s, "table")
         /\ Len(t) = Len(s) + 1 /\ Under(s, t) /\ t[Len(s) + 1] = "table"
  BY AppendFrame DEF Value
<1>5. PICK D \in SUBSET Damage : D = Mixed
  BY DEF Mixed, Damage
<1>6. /\ stk' = [stk EXCEPT ![d] = t]
      /\ damage' = [damage EXCEPT ![d] = damage[d] \cup D]
      /\ UNCHANGED <<depth, running, kind, params, pushed, phase, fn, args, results, mark,
                     known, inRoot, fault>>
  BY <1>2, <1>3, <1>4, <1>5 DEF BeginCallNotFunction, Harm
<1>7. running[d] = "no" /\ phase[d] = "none" /\ fault = "none" /\ LevelInv(d)
  BY <1>2 DEF BeginCallNotFunction, InCPP, SquirrelInv
<1>8. TypeOK' /\ \A l \in Level \ {d} : SameLevel(l)
  <2>1. TypeOK'
    BY <1>1, <1>6 DEF TypeOK
  <2>2. \A l \in Level \ {d} : SameLevel(l)
    BY <1>1, <1>6 DEF TypeOK, SameLevel
  <2> QED BY <2>1, <2>2
<1>9. /\ stk'[d] = t /\ damage'[d] = damage[d] \cup D /\ phase'[d] = "none"
      /\ running'[d] = "no" /\ pushed'[d] = pushed[d]
      /\ kind'[d] = kind[d] /\ params'[d] = params[d] /\ depth' = d
  BY <1>1, <1>2, <1>6, <1>7 DEF TypeOK
<1>10. LevelInv(d)'
  <2>0. /\ d \in Int /\ Len(s) \in Nat /\ Len(t) = Len(s) + 1
        /\ params[d] \in Int /\ pushed[d] \in Nat
    BY <1>1, <1>4, LevelType DEF Level
  <2>1. LevelOrder(d)' /\ LengthInv(d)'
    <3>1. damage'[d] \cap {"failed", "overpopped"} = {}
            => damage[d] \cap {"failed", "overpopped"} = {}
      BY <1>9
    <3> QED BY <3>1, <2>0, <1>2, <1>3, <1>7, <1>9 DEF LevelInv, LevelOrder, LengthInv, Enough
  <2>2. CalleeInv(d)' /\ ResultsInv(d)'
    BY <1>9 DEF CalleeInv, ResultsInv
  <2>3. ResultOnTop(d)'
    <3>1. pushed[d] > 0 => damage'[d] \cap {"mixed", "stray"} # {}
      BY <1>2, <1>5, <1>9 DEF Mixed
    <3> QED BY <3>1, <1>9 DEF ResultOnTop
  <2>4. CleanInv(d)'
    <3>1. ASSUME damage'[d] = {} PROVE damage[d] = {} /\ pushed[d] = 0
      <4>1. damage[d] = {} /\ D = {}
        BY <3>1, <1>9
      <4>2. ~(pushed[d] > 0)
        BY <4>1, <1>2, <1>5 DEF Mixed
      <4> QED BY <4>1, <4>2, <2>0
    <3>2. Grounded(s, kind[d], params[d], Len(s)) => Grounded(t, kind[d], params[d], Len(t))
      <4>1. Len(s) \in Int /\ Len(s) < Len(t) /\ Len(s) <= Len(t) /\ Len(t) = Len(s) + 1
        BY <2>0
      <4> QED BY <4>1, <2>0, <1>4, GroundUnder, GroundTable
    <3>3. Len(s) - 0 = Len(s) /\ Len(t) - 0 = Len(t) /\ d <= d
      BY <2>0
    <3> QED BY <3>1, <3>2, <3>3, <1>2, <1>3, <1>7, <1>9 DEF LevelInv, CleanInv
  <2> QED BY <2>1, <2>2, <2>3, <2>4 DEF LevelInv
<1> QED BY <1>2, <1>6, <1>7, <1>8, <1>10, OneLevel

\* The old call gives up two of the new call's values; what is left is too little for the
\* new one, but enough for its ReleaseAfterCall.
LEMMA ReassignCallStep ==
  ASSUME SquirrelInv, NEW f \in Functions, ReassignCall(f)
  PROVE  SquirrelInv'
<1>1. TypeOK
  BY DEF SquirrelInv
<1>2. PICK d \in Level : depth = d
  BY <1>1 DEF TypeOK
<1>3. PICK s \in Seq(Value) : stk[d] = s
  BY <1>1 DEF TypeOK
<1>4. PICK t \in Seq(Value) : t = Append(s, "table") /\ Len(t) = Len(s) + 1
  BY AppendFrame DEF Value
<1>5. /\ stk' = [stk EXCEPT ![d] = t]
      /\ damage' = [damage EXCEPT ![d] = damage[d] \cup {"reassigned"}]
      /\ phase' = [phase EXCEPT ![d] = "open"] /\ fn' = [fn EXCEPT ![d] = f]
      /\ args' = [args EXCEPT ![d] = 0] /\ results' = [results EXCEPT ![d] = 0]
      /\ mark' = [mark EXCEPT ![d] = Len(s)]
      /\ UNCHANGED <<depth, running, kind, params, pushed, known, inRoot, fault>>
  BY <1>2, <1>3, <1>4 DEF ReassignCall, Harm, Frame
<1>6. running[d] = "no" /\ phase[d] # "none" /\ fault = "none" /\ LevelInv(d)
  BY <1>2 DEF ReassignCall, InCPP, SquirrelInv
<1>7. TypeOK' /\ \A l \in Level \ {d} : SameLevel(l)
  <2>0. /\ stk' \in [Level -> Seq(Value)] /\ damage' \in [Level -> SUBSET Damage]
        /\ phase' \in [Level -> {"none", "open", "ended", "failed"}]
    BY <1>1, <1>5 DEF TypeOK, Damage
  <2>3. /\ fn' \in [Level -> Functions \cup {"none"}] /\ mark' \in [Level -> Nat]
        /\ args' \in [Level -> Nat] /\ results' \in [Level -> Int]
    BY <1>1, <1>5 DEF TypeOK
  <2>1. TypeOK'
    BY <1>1, <1>5, <2>0, <2>3 DEF TypeOK
  <2>2. \A l \in Level \ {d} : SameLevel(l)
    BY <1>1, <1>5 DEF TypeOK, SameLevel
  <2> QED BY <2>1, <2>2
<1>8. /\ stk'[d] = t /\ damage'[d] = damage[d] \cup {"reassigned"} /\ phase'[d] = "open"
      /\ args'[d] = 0 /\ results'[d] = 0 /\ running'[d] = "no" /\ pushed'[d] = pushed[d]
      /\ params'[d] = params[d] /\ depth' = d
  BY <1>1, <1>2, <1>5, <1>6 DEF TypeOK
<1>9. LevelInv(d)'
  <2>0. /\ d \in Int /\ Len(s) \in Nat /\ Len(t) = Len(s) + 1
        /\ params[d] \in Int /\ args[d] \in Nat /\ results[d] \in Int
        /\ phase[d] \in {"open", "ended", "failed"}
    BY <1>1, <1>4, <1>6, LevelType DEF Level
  <2>1. LevelOrder(d)' /\ LengthInv(d)'
    <3>1. damage'[d] \cap {"failed", "overpopped"} = {}
            => damage[d] \cap {"failed", "overpopped"} = {}
      BY <1>8
    <3> QED BY <3>1, <2>0, <1>2, <1>3, <1>6, <1>8 DEF LevelInv, LevelOrder, LengthInv, Enough
  <2>2. CalleeInv(d)' /\ ResultsInv(d)' /\ CleanInv(d)'
    <3>1. "reassigned" \in damage'[d]
      BY <1>8
    <3> QED BY <3>1 DEF CalleeInv, ResultsInv, CleanInv
  <2>3. ResultOnTop(d)'
    <3>1. damage'[d] \cap {"mixed", "stray"} = {} => damage[d] \cap {"mixed", "stray"} = {}
      BY <1>8
    <3> QED BY <3>1, <1>6, <1>8 DEF LevelInv, ResultOnTop
  <2> QED BY <2>1, <2>2, <2>3 DEF LevelInv
<1> QED BY <1>2, <1>5, <1>6, <1>7, <1>9, OneLevel

\* The run ends, and the frames tell why.
LEMMA FailStep ==
  ASSUME SquirrelInv, NEW x \in Faults, Fail(x),
         x = "underflow" => damage[depth] \cap {"failed", "overpopped"} # {},
         x = "lost" => damage[depth] \cap {"mixed", "stray"} # {},
         x = "detached" => params[depth] > 0 \/ damage[depth] # {} \/ Slotted
  PROVE  SquirrelInv'
<1>1. TypeOK'
  BY DEF SquirrelInv, TypeOK, Fail, frames
<1>2. FaultsExplained'
  BY DEF FaultsExplained, Fail, frames, Slotted, Frame, Top
<1>3. ASSUME NEW l \in Level PROVE LevelInv(l)'
  BY <1>3, SameLevelInv DEF SquirrelInv, SameLevel, frames, Fail
<1> QED BY <1>1, <1>2, <1>3 DEF SquirrelInv

\* An open call that was not robbed of its values by a failed one or by a pop too many holds all it needs.
LEMMA OpenLength ==
  ASSUME SquirrelInv, phase[depth] = "open",
         damage[depth] \cap {"failed", "overpopped"} = {}
  PROVE  Len(stk[depth]) >= args[depth] + 4
<1>1. PICK d \in Level : depth = d
  BY DEF SquirrelInv, TypeOK
<1>2. LengthInv(d) /\ d \in Int
  BY DEF SquirrelInv, LevelInv, Level
<1>3. PICK c \in Nat, p \in Int, n \in Nat : Len(stk[d]) = c /\ params[d] = p /\ args[d] = n
  BY LevelType DEF SquirrelInv
<1>4. Enough(c, "open", p, n, results[d])
  BY <1>1, <1>2, <1>3 DEF LengthInv
<1>5. c >= n + 4
  BY <1>4 DEF Enough
<1> QED BY <1>1, <1>3, <1>5

\* A call that fails.
LEMMA CallFailsStep ==
  ASSUME SquirrelInv, fault = "none", CallFails
  PROVE  SquirrelInv'
<1>1. TypeOK
  BY DEF SquirrelInv
<1>2. PICK d \in Level : depth = d
  BY <1>1 DEF TypeOK
<1>3. PICK s \in Seq(Value), n \in Nat : stk[d] = s /\ args[d] = n
  BY <1>1 DEF TypeOK
<1>4. phase[d] = "open" /\ LevelInv(d)
  BY <1>2 DEF CallFails, SquirrelInv
<1>5. CASE Len(s) < n + 3 /\ Fail("underflow")
  <2>1. damage[depth] \cap {"failed", "overpopped"} # {}
    <3>1. SUFFICES ASSUME damage[depth] \cap {"failed", "overpopped"} = {} PROVE FALSE
      OBVIOUS
    <3>2. Len(s) >= n + 4
      BY <3>1, <1>2, <1>3, <1>4, OpenLength
    <3>3. Len(s) \in Nat
      OBVIOUS
    <3> QED BY <3>2, <3>3, <1>5
  <2> QED BY <1>5, <2>1, FailStep DEF Faults
<1>6. CASE /\ Len(s) >= n + 3
           /\ stk' = [stk EXCEPT ![d] = Popped(s, n + 3)]
           /\ running' = [running EXCEPT ![d] = "no"]
           /\ phase' = [phase EXCEPT ![d] = "failed"]
           /\ damage' = [damage EXCEPT ![d] = damage[d] \cup {"failed"}]
           /\ UNCHANGED <<depth, kind, params, pushed, fn, args, results, mark, known, inRoot, fault>>
  <2>1. PICK t \in Seq(Value) : t = Popped(s, n + 3)
    <3>1. n + 3 \in Nat /\ n + 3 <= Len(s)
      BY <1>6
    <3> QED BY <3>1, PopFrame
  <2>2. TypeOK' /\ \A l \in Level \ {d} : SameLevel(l)
    <3>1. TypeOK'
      BY <1>1, <1>6, <2>1 DEF TypeOK, Damage
    <3>2. \A l \in Level \ {d} : SameLevel(l)
      BY <1>1, <1>6 DEF TypeOK, SameLevel
    <3> QED BY <3>1, <3>2
  <2>3. /\ damage'[d] = damage[d] \cup {"failed"} /\ phase'[d] = "failed"
        /\ running'[d] = "no" /\ pushed'[d] = pushed[d] /\ depth' = d
    BY <1>1, <1>2, <1>6 DEF TypeOK
  <2>4. LevelInv(d)'
    <3>1. "failed" \in damage'[d] /\ damage'[d] \cap {"failed", "overpopped"} # {}
      BY <2>3
    <3>2. ~(d > d)
      BY DEF Level
    <3>3. LevelOrder(d)' /\ LengthInv(d)' /\ CalleeInv(d)' /\ ResultsInv(d)' /\ CleanInv(d)'
      BY <3>1, <3>2, <2>3 DEF LevelOrder, LengthInv, CalleeInv, ResultsInv, CleanInv
    <3>4. ResultOnTop(d)'
      <4>1. damage'[d] \cap {"mixed", "stray"} = {} => damage[d] \cap {"mixed", "stray"} = {}
        BY <2>3
      <4> QED BY <4>1, <1>4, <2>3 DEF LevelInv, ResultOnTop
    <3> QED BY <3>3, <3>4 DEF LevelInv
  <2>5. fault' = "none"
    BY <1>6
  <2> QED BY <1>2, <2>2, <2>3, <2>4, <2>5, OneLevel
<1> QED BY <1>2, <1>3, <1>5, <1>6 DEF CallFails, Frame, Harm

\* EndCall of something that is no function, and a script that ends with an error.
LEMMA FailingCallStep ==
  ASSUME SquirrelInv, EndCallRefused \/ ScriptFails
  PROVE  SquirrelInv'
<1>1. CASE fault = "none" /\ CallFails
  BY <1>1, CallFailsStep
<1>2. CASE ScriptFails /\ running[depth] = "string" /\ ~CallFails
  <2>1. PICK d \in Level : depth = d
    BY DEF SquirrelInv, TypeOK
  <2>2. fault = "none" /\ running' = [running EXCEPT ![d] = "no"]
        /\ UNCHANGED <<depth, kind, stk, params, pushed, phase, fn, args, results, mark, damage,
                       known, inRoot, fault>>
    BY <1>2, <2>1 DEF ScriptFails, InScript
  <2> QED BY <2>1, <2>2, ScriptSwitched
<1> QED BY <1>1, <1>2 DEF EndCallRefused, ScriptFails, InCPP, InScript

\* Only a failed call, or the level itself, empties a frame.
LEMMA EmptiedFrame ==
  ASSUME SquirrelInv, Len(stk[depth]) = 0
  PROVE  damage[depth] \cap {"failed", "overpopped"} # {}
<1>1. PICK d \in Level : depth = d
  BY DEF SquirrelInv, TypeOK
<1>2. LengthInv(d) /\ d \in Int /\ d <= d
  BY DEF SquirrelInv, LevelInv, Level
<1>3. PICK p \in Int, n \in Nat, r \in Int : params[d] = p /\ args[d] = n /\ results[d] = r
  BY LevelType DEF SquirrelInv
<1>4. phase[d] \in {"none", "open", "ended", "failed"}
  BY LevelType DEF SquirrelInv
<1>5. ~Enough(0, phase[d], p, n, r)
  BY <1>4 DEF Enough
<1> QED BY <1>1, <1>2, <1>3, <1>5 DEF LengthInv

\* A value that PopInt or PopScriptObject does not take.
LEMMA PopRefusedStep ==
  ASSUME SquirrelInv, PopRefused
  PROVE  SquirrelInv'
<1>1. CASE Len(Frame) = 0 /\ Fail("underflow")
  BY <1>1, EmptiedFrame, FailStep DEF Faults, Frame
<1>2. CASE Fail("hang")
  BY <1>2, FailStep DEF Faults
<1> QED BY <1>1, <1>2 DEF PopRefused

\* A value that is popped although none was announced is noted.
LEMMA OverNoted ==
  ASSUME NEW r \in Int
  PROVE  Over(r) \in SUBSET Damage /\ (r <= 0 => "overpopped" \in Over(r))
  BY DEF Over, Damage

\* A result that is popped.
LEMMA PopResultStep ==
  ASSUME SquirrelInv, PopResult
  PROVE  SquirrelInv'
<1>1. TypeOK
  BY DEF SquirrelInv
<1>2. PICK d \in Level : depth = d
  BY <1>1 DEF TypeOK
<1>3. PICK s \in Seq(Value), m \in Nat, p \in Int, r \in Int :
         stk[d] = s /\ mark[d] = m /\ params[d] = p /\ results[d] = r
  BY <1>1 DEF TypeOK
<1>4. running[d] = "no" /\ phase[d] = "ended" /\ fault = "none" /\ LevelInv(d)
  BY <1>2, <1>3 DEF PopResult, InCPP, SquirrelInv
<1>5. CASE PopRefused
  BY <1>5, PopRefusedStep
<1>6. CASE ~PopRefused
  <2>1. Len(s) > 0
    BY <1>2, <1>3, <1>6 DEF PopResult, Poppable, Frame
  <2>2. PICK t \in Seq(Value) : t = Popped(s, 1) /\ Len(t) = Len(s) - 1 /\ Under(t, s)
    <3>1. 1 \in Nat /\ 1 <= Len(s)
      BY <2>1
    <3> QED BY <3>1, PopFrame
  <2>3. PICK D \in SUBSET Damage : D = Over(r) /\ (r <= 0 => "overpopped" \in D)
    BY OverNoted
  <2>4. PICK q \in Int : q = r - 1
    OBVIOUS
  <2>5. /\ stk' = [stk EXCEPT ![d] = t] /\ results' = [results EXCEPT ![d] = q]
        /\ damage' = [damage EXCEPT ![d] = damage[d] \cup D]
        /\ UNCHANGED <<depth, running, kind, params, pushed, phase, fn, args, mark,
                       known, inRoot, fault>>
    BY <1>2, <1>3, <1>6, <2>2, <2>3, <2>4 DEF PopResult, Harm
  <2>6. TypeOK' /\ \A l \in Level \ {d} : SameLevel(l)
    <3>1. TypeOK'
      BY <1>1, <2>5 DEF TypeOK
    <3>2. \A l \in Level \ {d} : SameLevel(l)
      BY <1>1, <2>5 DEF TypeOK, SameLevel
    <3> QED BY <3>1, <3>2
  <2>7. /\ stk'[d] = t /\ results'[d] = q /\ damage'[d] = damage[d] \cup D /\ depth' = d
        /\ running'[d] = "no" /\ phase'[d] = "ended" /\ params'[d] = p /\ mark'[d] = m
        /\ args'[d] = args[d] /\ pushed'[d] = pushed[d] /\ kind'[d] = kind[d]
    BY <1>1, <1>2, <1>3, <1>4, <2>5 DEF TypeOK
  <2>8. LevelInv(d)'
    <3>0. d \in Int /\ d <= d /\ Len(s) \in Nat /\ Len(t) \in Nat /\ Len(t) = Len(s) - 1
      BY <2>2 DEF Level
    <3>1. LevelOrder(d)' /\ LengthInv(d)'
      <4>1. \A n : Enough(Len(s), "ended", p, n, r) /\ r > 0 => Enough(Len(t), "ended", p, n, q)
        BY <3>0, <2>4 DEF Enough
      <4>2. LevelOrder(d)'
        BY <3>0, <2>7 DEF LevelOrder
      <4>3. damage'[d] \cap {"failed", "overpopped"} = {}
              => damage[d] \cap {"failed", "overpopped"} = {} /\ "overpopped" \notin D
        BY <2>7
      <4>4. "overpopped" \notin D => r > 0
        BY <2>3
      <4> QED BY <4>1, <4>2, <4>3, <4>4, <3>0, <1>2, <1>3, <1>4, <2>7 DEF LevelInv, LengthInv
    <3>2. CalleeInv(d)' /\ ResultsInv(d)'
      <4>1. Len(s) = m + 2 + r => Len(t) = m + 2 + q
        BY <3>0, <2>4
      <4>2. damage'[d] \cap {"reassigned", "stray", "mixed"} = {}
              => damage[d] \cap {"reassigned", "stray", "mixed"} = {}
        BY <2>7
      <4> QED BY <4>1, <4>2, <1>3, <1>4, <2>7 DEF LevelInv, CalleeInv, ResultsInv
    <3>3. ResultOnTop(d)'
      <4>1. damage'[d] \cap {"mixed", "stray"} = {} => damage[d] \cap {"mixed", "stray"} = {}
        BY <2>7
      <4> QED BY <4>1, <1>4, <2>7 DEF LevelInv, ResultOnTop
    <3>4. CleanInv(d)'
      <4>1. SUFFICES ASSUME damage'[d] = {}
                     PROVE  /\ pushed[d] = 0 /\ 0 <= q /\ q <= 1
                            /\ Grounded(t, kind[d], p, m) /\ Grounded(t, kind[d], p, m + 1)
        BY <2>7 DEF CleanInv
      <4>2. damage[d] = {} /\ r > 0
        <5>1. damage[d] = {} /\ "overpopped" \notin D
          BY <4>1, <2>7
        <5> QED BY <5>1, <2>3
      <4>3. /\ pushed[d] = 0 /\ r <= 1 /\ Len(s) = m + 2 + r
            /\ Grounded(s, kind[d], p, m) /\ Grounded(s, kind[d], p, m + 1)
        <5>1. damage[d] \cap {"reassigned", "stray", "mixed"} = {}
          BY <4>2
        <5> QED BY <5>1, <4>2, <3>0, <1>2, <1>3, <1>4 DEF LevelInv, CleanInv, ResultsInv
      <4>4. m <= Len(t) /\ m + 1 <= Len(t) /\ m \in Int /\ m + 1 \in Int /\ 0 <= q /\ q <= 1
        BY <4>2, <4>3, <3>0, <2>4
      <4> QED BY <4>3, <4>4, <2>2, GroundUnder
    <3> QED BY <3>1, <3>2, <3>3, <3>4 DEF LevelInv
  <2>9. fault' = "none"
    BY <1>4, <2>5
  <2> QED BY <1>2, <2>6, <2>7, <2>8, <2>9, OneLevel
<1> QED BY <1>5, <1>6

\* A ScriptCallPtr that is destroyed.
LEMMA ReleaseAfterCallStep ==
  ASSUME SquirrelInv, ReleaseAfterCall
  PROVE  SquirrelInv'
<1>1. TypeOK
  BY DEF SquirrelInv
<1>2. PICK d \in Level : depth = d
  BY <1>1 DEF TypeOK
<1>3. PICK s \in Seq(Value), m \in Nat, p \in Int, n \in Nat, r \in Int :
         stk[d] = s /\ mark[d] = m /\ params[d] = p /\ args[d] = n /\ results[d] = r
  BY <1>1 DEF TypeOK
<1>4. /\ running[d] = "no" /\ phase[d] # "none" /\ fault = "none" /\ LevelInv(d)
      /\ phase[d] \in {"open", "ended", "failed"}
  BY <1>1, <1>2 DEF ReleaseAfterCall, InCPP, SquirrelInv, TypeOK
<1>5. Len(s) \in Nat /\ d \in Int /\ d <= d
  BY DEF Level
<1>6. damage[d] \cap {"failed", "overpopped"} = {} =>
        Len(s) >= 3 + p /\ p >= 0 /\ phase[d] # "failed"
  <2>1. Enough(Len(s), phase[d], p, n, r) => Len(s) >= 3 + p /\ p >= 0 /\ phase[d] # "failed"
    BY <1>4, <1>5 DEF Enough
  <2> QED BY <2>1, <1>2, <1>3, <1>4, <1>5 DEF LevelInv, LengthInv
<1>7. CASE Len(s) < 2 /\ Fail("underflow")
  <2>1. damage[depth] \cap {"failed", "overpopped"} # {}
    BY <1>2, <1>5, <1>6, <1>7
  <2> QED BY <1>7, <2>1, FailStep DEF Faults
<1>8. CASE Len(s) >= 2 /\ ~(Len(s) < 2)
  <2>1. PICK t \in Seq(Value) : t = Popped(s, 2) /\ Len(t) = Len(s) - 2 /\ Under(t, s)
    <3>1. 2 \in Nat /\ 2 <= Len(s)
      BY <1>8, <1>5
    <3> QED BY <3>1, PopFrame
  <2>2. PICK D \in SUBSET Damage : D = IF phase[depth] = "open" THEN {"abandoned"} ELSE {}
    BY DEF Damage
  <2>3. /\ stk' = [stk EXCEPT ![d] = t]
        /\ damage' = [damage EXCEPT ![d] = damage[d] \cup D]
        /\ phase' = [phase EXCEPT ![d] = "none"] /\ fn' = [fn EXCEPT ![d] = "none"]
        /\ args' = [args EXCEPT ![d] = 0] /\ results' = [results EXCEPT ![d] = 0]
        /\ mark' = [mark EXCEPT ![d] = 0]
        /\ UNCHANGED <<depth, running, kind, params, pushed, known, inRoot, fault>>
    BY <1>2, <1>3, <1>8, <2>1, <2>2 DEF ReleaseAfterCall, Harm, Frame
  <2>4. TypeOK' /\ \A l \in Level \ {d} : SameLevel(l)
    <3>1. TypeOK'
      <4>1. stk' \in [Level -> Seq(Value)] /\ phase' \in [Level -> {"none", "open", "ended", "failed"}]
        BY <1>1, <2>3 DEF TypeOK
      <4>2. fn' \in [Level -> Functions \cup {"none"}] /\ args' \in [Level -> Nat]
        BY <1>1, <2>3 DEF TypeOK
      <4>3. results' \in [Level -> Int] /\ mark' \in [Level -> Nat]
        BY <1>1, <2>3 DEF TypeOK
      <4>4. damage' \in [Level -> SUBSET Damage]
        BY <1>1, <2>2, <2>3 DEF TypeOK
      <4> QED BY <1>1, <2>3, <4>1, <4>2, <4>3, <4>4 DEF TypeOK
    <3>2. \A l \in Level \ {d} : SameLevel(l)
      BY <1>1, <2>3 DEF TypeOK, SameLevel
    <3> QED BY <3>1, <3>2
  <2>5. /\ stk'[d] = t /\ damage'[d] = damage[d] \cup D /\ phase'[d] = "none"
        /\ running'[d] = "no" /\ pushed'[d] = pushed[d] /\ results'[d] = 0
        /\ kind'[d] = kind[d] /\ params'[d] = p /\ depth' = d
    BY <1>1, <1>2, <1>3, <1>4, <2>3 DEF TypeOK
  <2>6. LevelInv(d)'
    <3>1. LevelOrder(d)' /\ LengthInv(d)'
      <4>1. damage'[d] \cap {"failed", "overpopped"} = {}
            => damage[d] \cap {"failed", "overpopped"} = {}
        BY <2>5
      <4>2. Len(s) >= 3 + p => Len(t) >= 1 + p
        BY <1>5, <2>1
      <4> QED BY <4>1, <4>2, <1>5, <1>6, <2>5 DEF LevelOrder, LengthInv, Enough
    <3>2. CalleeInv(d)' /\ ResultsInv(d)'
      BY <2>5 DEF CalleeInv, ResultsInv
    <3>3. ResultOnTop(d)'
      <4>1. damage'[d] \cap {"mixed", "stray"} = {} => damage[d] \cap {"mixed", "stray"} = {}
        BY <2>5
      <4> QED BY <4>1, <1>4, <2>5 DEF LevelInv, ResultOnTop
    <3>4. CleanInv(d)'
      <4>1. SUFFICES ASSUME damage'[d] = {}
                     PROVE  pushed[d] = 0 /\ Grounded(t, kind[d], p, Len(t) - 0)
        BY <2>5 DEF CleanInv
      <4>2. damage[d] = {} /\ phase[d] = "ended"
        <5>1. damage[d] = {} /\ D = {}
          BY <4>1, <2>5
        <5>2. damage[d] \cap {"failed", "overpopped"} = {}
          BY <5>1
        <5> QED BY <5>1, <5>2, <1>2, <1>4, <1>6, <2>2
      <4>3. /\ pushed[d] = 0 /\ 0 <= r /\ r <= 1 /\ Len(s) = m + 2 + r
            /\ Grounded(s, kind[d], p, m) /\ Grounded(s, kind[d], p, m + 1)
        <5>1. damage[d] \cap {"reassigned", "stray", "mixed"} = {}
          BY <4>2
        <5> QED BY <5>1, <4>2, <1>2, <1>3, <1>4, <1>5 DEF LevelInv, CleanInv, ResultsInv
      <4> QED BY <4>3, <2>1, GroundReleased
    <3> QED BY <3>1, <3>2, <3>3, <3>4 DEF LevelInv
  <2>7. fault' = "none"
    BY <1>4, <2>3
  <2> QED BY <1>2, <2>4, <2>5, <2>6, <2>7, OneLevel
<1> QED BY <1>2, <1>3, <1>5, <1>7, <1>8 DEF ReleaseAfterCall, Frame

\* A script that returns.
LEMMA ScriptReturnsStep ==
  ASSUME SquirrelInv, ScriptReturns
  PROVE  SquirrelInv'
<1>1. TypeOK
  BY DEF SquirrelInv
<1>2. PICK d \in Level : depth = d
  BY <1>1 DEF TypeOK
<1>3. PICK s \in Seq(Value), m \in Nat, p \in Int, n \in Nat :
         stk[d] = s /\ mark[d] = m /\ params[d] = p /\ args[d] = n
  BY <1>1 DEF TypeOK
<1>4. fault = "none" /\ LevelInv(d) /\ running' = [running EXCEPT ![d] = "no"]
      /\ UNCHANGED <<depth, kind, params, pushed, fn, args, mark, damage, known, inRoot, fault>>
  BY <1>2 DEF ScriptReturns, InScript, SquirrelInv
<1>5. CASE running[d] = "string" /\ UNCHANGED <<stk, phase, results>>
  BY <1>2, <1>4, <1>5, ScriptSwitched
<1>6. CASE /\ running[d] = "call"
           /\ stk' = [stk EXCEPT ![d] = Append(Popped(s, n + 1), "value")]
           /\ phase' = [phase EXCEPT ![d] = "ended"]
           /\ results' = [results EXCEPT ![d] = 1]
  <2>1. phase[d] = "open" /\ Len(s) >= n + 2
    BY <1>3, <1>4, <1>6 DEF LevelInv, LevelOrder
  <2>2. PICK t \in Seq(Value) :
           /\ t = Append(Popped(s, n + 1), "value") /\ Len(t) = Len(s) - n
           /\ \A i \in 1..(Len(s) - n - 1) : t[i] = s[i]
    <3>1. n + 2 <= Len(s)
      BY <2>1
    <3> QED BY <3>1, ReturnFrame
  <2>3. /\ stk' = [stk EXCEPT ![d] = t] /\ phase' = [phase EXCEPT ![d] = "ended"]
        /\ results' = [results EXCEPT ![d] = 1]
    BY <1>6, <2>2
  <2>4. TypeOK' /\ \A l \in Level \ {d} : SameLevel(l)
    <3>1. TypeOK'
      <4>1. stk' \in [Level -> Seq(Value)] /\ phase' \in [Level -> {"none", "open", "ended", "failed"}]
        BY <1>1, <2>3 DEF TypeOK
      <4>2. running' \in [Level -> {"no", "string", "call"}] /\ results' \in [Level -> Int]
        BY <1>1, <1>4, <2>3 DEF TypeOK
      <4> QED BY <1>1, <1>4, <4>1, <4>2 DEF TypeOK
    <3>2. \A l \in Level \ {d} : SameLevel(l)
      BY <1>1, <1>4, <2>3 DEF TypeOK, SameLevel
    <3> QED BY <3>1, <3>2
  <2>5. /\ stk'[d] = t /\ phase'[d] = "ended" /\ running'[d] = "no" /\ results'[d] = 1
        /\ mark'[d] = m /\ params'[d] = p /\ depth' = d
        /\ pushed'[d] = pushed[d] /\ kind'[d] = kind[d] /\ damage'[d] = damage[d]
    BY <1>1, <1>2, <1>3, <1>4, <2>3 DEF TypeOK
  <2>6. LevelInv(d)'
    <3>0. d \in Int /\ d <= d /\ Len(s) \in Nat /\ Len(t) = Len(s) - n
      BY <2>2 DEF Level
    <3>1. LevelOrder(d)' /\ LengthInv(d)'
      <4>1. \A r, n1 : Enough(Len(s), "open", p, n, r) => Enough(Len(t), "ended", p, n1, 1)
        BY <3>0 DEF Enough
      <4>2. LevelOrder(d)'
        BY <3>0, <2>5 DEF LevelOrder
      <4> QED BY <4>1, <4>2, <3>0, <1>2, <1>3, <1>4, <2>1, <2>5 DEF LevelInv, LengthInv
    <3>2. CalleeInv(d)' /\ ResultsInv(d)'
      <4>2. Placed(s, m, fn[d], n) => Len(t) = m + 2 + 1
        BY <3>0 DEF Placed
      <4> QED BY <4>2, <1>3, <1>4, <2>1, <2>5 DEF LevelInv, CalleeInv, ResultsInv
    <3>3. ResultOnTop(d)'
      BY <1>4, <2>1, <2>5 DEF LevelInv, ResultOnTop
    <3>4. CleanInv(d)'
      <4>1. SUFFICES ASSUME damage[d] = {}
                     PROVE  /\ pushed[d] = 0
                            /\ Grounded(t, kind[d], p, m) /\ Grounded(t, kind[d], p, m + 1)
        BY <2>5 DEF CleanInv
      <4>2. pushed[d] = 0 /\ Grounded(s, kind[d], p, m) /\ Placed(s, m, fn[d], n)
        <5>1. damage[d] \cap {"reassigned", "stray", "mixed"} = {}
          BY <4>1
        <5> QED BY <5>1, <4>1, <3>0, <2>1, <1>2, <1>3, <1>4 DEF LevelInv, CleanInv, CalleeInv
      <4>3. Grounded(t, kind[d], p, m) /\ Grounded(t, kind[d], p, m + 1)
        <5>1. Len(t) = Len(s) - n /\ \A i \in 1..(Len(s) - n - 1) : t[i] = s[i]
          BY <2>2
        <5> HIDE <2>2
        <5> QED BY <4>2, <5>1, GroundReturned
      <4> QED BY <4>2, <4>3
    <3> QED BY <3>1, <3>2, <3>3, <3>4 DEF LevelInv
  <2>7. fault' = "none"
    BY <1>4
  <2> QED BY <1>2, <2>4, <2>5, <2>6, <2>7, OneLevel
<1> QED BY <1>2, <1>3, <1>5, <1>6 DEF ScriptReturns

\* A class is registered, in a table or on top of whatever else there is.
LEMMA RegisterUserClassStep ==
  ASSUME SquirrelInv, RegisterUserClass
  PROVE  SquirrelInv'
<1>1. TypeOK
  BY DEF SquirrelInv
<1>2. PICK d \in Level : depth = d
  BY <1>1 DEF TypeOK
<1>3. known' \in BOOLEAN /\ inRoot' \in BOOLEAN
  BY DEF RegisterUserClass, Slotted
<1>4. CASE Slotted
  <2>1. stk' = [stk EXCEPT ![d] = stk[d]] /\ damage' = [damage EXCEPT ![d] = damage[d] \cup {}]
    BY <1>2, <1>4 DEF RegisterUserClass, Registered, Harm
  <2>2. stk' = stk
    BY <2>1, <1>1 DEF TypeOK
  <2>3. damage' = damage
    BY <2>1, <1>1 DEF TypeOK
  <2> QED BY <2>2, <2>3, <1>3, FramesKept DEF RegisterUserClass, frames
<1>5. CASE ~Slotted
  <2>1. /\ stk' = [stk EXCEPT ![d] = stk[d] \o <<"value", "class">>]
        /\ damage' = [damage EXCEPT ![d] = damage[d] \cup {"stray"}]
        /\ running[d] = "no" /\ fault = "none"
        /\ UNCHANGED <<depth, running, kind, params, pushed, phase, fn, args, results, mark, fault>>
    BY <1>2, <1>5 DEF RegisterUserClass, Registered, Harm, InCPP
  <2>2. args' = [args EXCEPT ![d] = args[d] + 0] /\ pushed' = [pushed EXCEPT ![d] = pushed[d] + 0]
    <3>1. args = [args EXCEPT ![d] = args[d] + 0]
      BY <1>1 DEF TypeOK
    <3>2. pushed = [pushed EXCEPT ![d] = pushed[d] + 0]
      BY <1>1 DEF TypeOK
    <3> QED BY <3>1, <3>2, <2>1
  <2>3. "class" \in Value /\ {"stray"} \in SUBSET Damage /\ "stray" \in {"stray"}
    BY DEF Value, Damage
  <2>4. 0 \in Nat /\ 0 <= 1
    OBVIOUS
  <2> QED BY <2>1, <2>2, <2>3, <2>4, <1>2, <1>3, StrayPushed
<1> QED BY <1>4, <1>5

\* An argument.
LEMMA PushArgumentStep ==
  ASSUME SquirrelInv, PushArgument
  PROVE  SquirrelInv'
<1>1. PICK d \in Level : depth = d
  BY DEF SquirrelInv, TypeOK
<1>2. known' \in BOOLEAN /\ inRoot' \in BOOLEAN
  BY DEF SquirrelInv, TypeOK, PushArgument
<1> QED BY <1>1, <1>2, ArgumentPushed DEF PushArgument, InCPP

\* A result.
LEMMA PushResultStep ==
  ASSUME SquirrelInv, PushResult
  PROVE  SquirrelInv'
<1>1. PICK d \in Level : depth = d
  BY DEF SquirrelInv, TypeOK
<1>2. known' \in BOOLEAN /\ inRoot' \in BOOLEAN
  BY DEF SquirrelInv, TypeOK, PushResult
<1>3. PICK D \in SUBSET Damage : D = Kept /\ (phase[d] # "none" => "mixed" \in D)
  BY <1>1 DEF Kept, Damage
<1>4. /\ stk' = [stk EXCEPT ![d] = Append(stk[d], "value")]
      /\ pushed' = [pushed EXCEPT ![d] = pushed[d] + 1]
      /\ damage' = [damage EXCEPT ![d] = damage[d] \cup D]
      /\ running[d] = "no" /\ fault = "none"
      /\ UNCHANGED <<depth, running, kind, params, phase, fn, args, results, mark, fault>>
  BY <1>1, <1>3 DEF PushResult, InCPP, Harm
<1> QED BY <1>1, <1>2, <1>3, <1>4, ResultPushed

\* An object, as an argument or as a result.
LEMMA PushNewScriptObjectStep ==
  ASSUME SquirrelInv, NEW argument \in BOOLEAN, PushNewScriptObject(argument)
  PROVE  SquirrelInv'
<1>1. TypeOK
  BY DEF SquirrelInv
<1>2. PICK d \in Level : depth = d
  BY <1>1 DEF TypeOK
<1>3. CASE Fail("hang")
  BY <1>3, FailStep DEF Faults
<1>5. CASE Len(stk[d]) = 0 /\ Fail("underflow")
  <2>1. damage[depth] \cap {"failed", "overpopped"} # {}
    BY <1>2, <1>5, EmptiedFrame
  <2> QED BY <1>5, <2>1, FailStep DEF Faults
<1>4. CASE ~Fail("hang") /\ ~(Len(stk[d]) = 0 /\ Fail("underflow"))
  <2>1. /\ running[d] = "no" /\ fault = "none" /\ (argument => phase[d] = "open")
        /\ UNCHANGED <<depth, running, kind, params, phase, fn, results, mark, fault>>
    BY <1>2, <1>4 DEF PushNewScriptObject, InCPP, Frame
  <2>2. known' \in BOOLEAN /\ inRoot' \in BOOLEAN
    BY <1>1, <1>2, <1>4 DEF PushNewScriptObject, TypeOK, Slotted, Frame
  <2>3. PICK D \in SUBSET Damage :
           D = (IF Slotted THEN {} ELSE {"stray"}) \cup (IF argument THEN {} ELSE Kept)
    BY DEF Damage, Kept
  <2>4. /\ stk' = [stk EXCEPT ![d] =
                      IF Slotted THEN Append(stk[d], "value") ELSE stk[d] \o <<"value", "value">>]
        /\ damage' = [damage EXCEPT ![d] = damage[d] \cup D]
        /\ args' = IF argument THEN [args EXCEPT ![d] = args[d] + 1] ELSE args
        /\ pushed' = IF argument THEN pushed ELSE [pushed EXCEPT ![d] = pushed[d] + 1]
    BY <1>2, <1>4, <2>3 DEF PushNewScriptObject, Harm, Frame
  <2>5. CASE Slotted /\ argument
    <3>1. /\ stk' = [stk EXCEPT ![d] = Append(stk[d], "value")]
          /\ args' = [args EXCEPT ![d] = args[d] + 1] /\ pushed' = pushed
      BY <2>4, <2>5
    <3>2. damage' = damage
      <4>1. damage' = [damage EXCEPT ![d] = damage[d]]
        BY <2>3, <2>4, <2>5
      <4> QED BY <4>1, <1>1 DEF TypeOK
    <3>3. phase[d] = "open"
      BY <2>1, <2>5
    <3> QED BY <3>1, <3>2, <3>3, <1>2, <2>1, <2>2, ArgumentPushed
  <2>6. CASE Slotted /\ ~argument
    <3>1. /\ stk' = [stk EXCEPT ![d] = Append(stk[d], "value")]
          /\ pushed' = [pushed EXCEPT ![d] = pushed[d] + 1] /\ args' = args
      BY <2>4, <2>6
    <3>2. phase[d] # "none" => "mixed" \in D
      BY <1>2, <2>1, <2>3, <2>6 DEF Kept
    <3>3. damage' = [damage EXCEPT ![d] = damage[d] \cup D]
      BY <2>4
    <3> QED BY <3>1, <3>2, <3>3, <1>2, <2>1, <2>2, ResultPushed
  <2>7. CASE ~Slotted
    <3>1. /\ stk' = [stk EXCEPT ![d] = stk[d] \o <<"value", "value">>] /\ "value" \in Value
          /\ "stray" \in D /\ damage' = [damage EXCEPT ![d] = damage[d] \cup D]
      BY <2>3, <2>4, <2>7 DEF Value
    <3>2. args = [args EXCEPT ![d] = args[d] + 0]
      BY <1>1 DEF TypeOK
    <3>3. pushed = [pushed EXCEPT ![d] = pushed[d] + 0]
      BY <1>1 DEF TypeOK
    <3>4. CASE argument
      <4>1. /\ args' = [args EXCEPT ![d] = args[d] + 1]
            /\ pushed' = [pushed EXCEPT ![d] = pushed[d] + 0]
        BY <3>3, <3>4, <2>4
      <4>2. 1 \in Nat /\ 1 <= 1 /\ 0 \in Nat
        OBVIOUS
      <4> QED BY <3>1, <4>1, <4>2, <1>2, <2>1, <2>2, StrayPushed
    <3>5. CASE ~argument
      <4>1. /\ args' = [args EXCEPT ![d] = args[d] + 0]
            /\ pushed' = [pushed EXCEPT ![d] = pushed[d] + 1]
        BY <3>2, <3>5, <2>4
      <4>2. 1 \in Nat /\ 0 <= 1 /\ 0 \in Nat
        OBVIOUS
      <4> QED BY <3>1, <4>1, <4>2, <1>2, <2>1, <2>2, StrayPushed
    <3> QED BY <3>4, <3>5
  <2> QED BY <2>5, <2>6, <2>7
<1> QED BY <1>3, <1>4, <1>5

\* A parameter that is popped.
LEMMA PopParameterStep ==
  ASSUME SquirrelInv, PopParameter
  PROVE  SquirrelInv'
<1>1. TypeOK
  BY DEF SquirrelInv
<1>2. PICK d \in Level : depth = d
  BY <1>1 DEF TypeOK
<1>3. PICK s \in Seq(Value), p \in Int, n \in Nat, r \in Int :
         stk[d] = s /\ params[d] = p /\ args[d] = n /\ results[d] = r
  BY <1>1 DEF TypeOK
<1>4. running[d] = "no" /\ fault = "none" /\ LevelInv(d) /\ pushed[d] \in Nat
  BY <1>1, <1>2, LevelType DEF PopParameter, InCPP, SquirrelInv
<1>5. CASE PopRefused
  BY <1>5, PopRefusedStep
<1>6. CASE ~PopRefused
  <2>1. Len(s) > 0 /\ s[Len(s)] # "table"
    BY <1>2, <1>3, <1>6 DEF PopParameter, Poppable, Top, Frame
  <2>2. PICK t \in Seq(Value) : t = Popped(s, 1) /\ Len(t) = Len(s) - 1 /\ Under(t, s)
    <3>1. 1 \in Nat /\ 1 <= Len(s)
      BY <2>1
    <3> QED BY <3>1, PopFrame
  <2>3. PICK D \in SUBSET Damage :
           /\ D = Over(p) \cup Mixed \cup Kept /\ (p <= 0 => "overpopped" \in D)
           /\ phase[d] # "none" \/ pushed[d] > 0 => "mixed" \in D
    BY <1>2, OverNoted DEF Mixed, Kept, Damage
  <2>4. PICK q \in Int : q = p - 1
    OBVIOUS
  <2>5. /\ stk' = [stk EXCEPT ![d] = t] /\ params' = [params EXCEPT ![d] = q]
        /\ damage' = [damage EXCEPT ![d] = damage[d] \cup D]
        /\ UNCHANGED <<depth, running, kind, pushed, phase, fn, args, results, mark,
                       known, inRoot, fault>>
    BY <1>2, <1>3, <1>6, <2>2, <2>3, <2>4 DEF PopParameter, Harm
  <2>6. TypeOK' /\ \A l \in Level \ {d} : SameLevel(l)
    <3>1. TypeOK'
      BY <1>1, <2>5 DEF TypeOK
    <3>2. \A l \in Level \ {d} : SameLevel(l)
      BY <1>1, <2>5 DEF TypeOK, SameLevel
    <3> QED BY <3>1, <3>2
  <2>7. /\ stk'[d] = t /\ params'[d] = q /\ damage'[d] = damage[d] \cup D /\ depth' = d
        /\ running'[d] = "no" /\ phase'[d] = phase[d] /\ args'[d] = n /\ results'[d] = r
        /\ pushed'[d] = pushed[d] /\ kind'[d] = kind[d]
    BY <1>1, <1>2, <1>3, <1>4, <2>5 DEF TypeOK
  <2>8. LevelInv(d)'
    <3>0. /\ d \in Int /\ d <= d /\ Len(s) \in Nat /\ Len(t) \in Nat /\ Len(t) = Len(s) - 1
          /\ Len(s) - 0 = Len(s) /\ Len(t) - 0 = Len(t)
      BY <2>2 DEF Level
    <3>1. LevelOrder(d)' /\ LengthInv(d)'
      <4>1. \A ph : Enough(Len(s), ph, p, n, r) /\ p > 0 => Enough(Len(t), ph, q, n, r)
        BY <3>0, <2>4 DEF Enough
      <4>2. LevelOrder(d)'
        BY <3>0, <2>7 DEF LevelOrder
      <4>3. damage'[d] \cap {"failed", "overpopped"} = {}
              => damage[d] \cap {"failed", "overpopped"} = {} /\ "overpopped" \notin D
        BY <2>7
      <4>4. "overpopped" \notin D => p > 0
        BY <2>3
      <4> QED BY <4>1, <4>2, <4>3, <4>4, <3>0, <1>2, <1>3, <1>4, <2>7 DEF LevelInv, LengthInv
    <3>2. CalleeInv(d)' /\ ResultsInv(d)' /\ ResultOnTop(d)'
      <4>1. phase[d] # "none" \/ pushed[d] > 0 => "mixed" \in damage'[d]
        BY <2>3, <2>7
      <4>2. "mixed" \in damage'[d] => /\ damage'[d] \cap {"reassigned", "stray", "mixed"} # {}
                                      /\ damage'[d] \cap {"mixed", "stray"} # {}
        OBVIOUS
      <4> QED BY <4>1, <4>2, <2>7 DEF CalleeInv, ResultsInv, ResultOnTop
    <3>3. CleanInv(d)'
      <4>1. ASSUME damage'[d] = {} PROVE damage[d] = {} /\ phase[d] = "none" /\ pushed[d] = 0 /\ p > 0
        <5>1. damage[d] = {} /\ D = {}
          BY <4>1, <2>7
        <5> QED BY <5>1, <1>4, <2>3
      <4>2. p > 0 /\ Grounded(s, kind[d], p, Len(s)) => Grounded(t, kind[d], q, Len(t))
        BY <2>1, <2>2, <2>4, GroundParameter
      <4> QED BY <4>1, <4>2, <3>0, <1>2, <1>3, <1>4, <2>7 DEF LevelInv, CleanInv
    <3> QED BY <3>1, <3>2, <3>3 DEF LevelInv
  <2>9. fault' = "none"
    BY <1>4, <2>5
  <2> QED BY <1>2, <2>6, <2>7, <2>8, <2>9, OneLevel
<1> QED BY <1>5, <1>6

\* When the innermost level changes, the others keep their place relative to it.
LEMMA OtherLevelInv ==
  ASSUME NEW l \in Level, LevelInv(l), SameLevel(l),
         (l <= depth') <=> (l <= depth), (l > depth') <=> (l > depth)
  PROVE  LevelInv(l)'
  BY DEF SameLevel, LevelInv, LevelOrder, LengthInv, CalleeInv, ResultsInv, ResultOnTop,
         CleanInv

\* A script calls C++.
LEMMA EnterCallbackStep ==
  ASSUME SquirrelInv, NEW k \in {"function", "method", "constructor"},
         NEW this \in {"table", "this"}, NEW n \in 0..MaxArgs, EnterCallback(k, this, n)
  PROVE  SquirrelInv'
<1>1. TypeOK /\ n \in Nat /\ MaxDepth \in Nat
  BY SquirrelAssumption DEF SquirrelInv
<1>2. PICK d \in Level : depth = d
  BY <1>1 DEF TypeOK
<1>3. PICK e \in Level : e = d + 1 /\ d \in Nat /\ e \in Nat
  BY <1>1, <1>2 DEF EnterCallback, Level
<1>4. PICK t \in Seq(Value) :
         t = <<this>> \o [i \in 1..n |-> "value"] /\ Len(t) = 1 + n /\ Grounded(t, k, n, 1 + n)
  <2>1. this \in Value /\ (k # "function" => this = "this")
    BY DEF EnterCallback, Value
  <2> QED BY <2>1, <1>1, EnterFrame
<1>5. /\ depth' = e /\ kind' = [kind EXCEPT ![e] = k] /\ stk' = [stk EXCEPT ![e] = t]
      /\ params' = [params EXCEPT ![e] = n]
      /\ UNCHANGED <<running, pushed, phase, fn, args, results, mark, damage, known, inRoot, fault>>
      /\ fault = "none"
  BY <1>2, <1>3, <1>4 DEF EnterCallback, InScript
<1>6. TypeOK'
  <2>0. n \in Int /\ params \in [Level -> Int] /\ params' = [params EXCEPT ![e] = n]
    BY <1>1, <1>5 DEF TypeOK
  <2>1. params' \in [Level -> Int]
    BY <2>0
  <2>2. stk' \in [Level -> Seq(Value)]
    BY <1>1, <1>5 DEF TypeOK
  <2> QED BY <2>1, <2>2, <1>1, <1>5 DEF TypeOK
<1>7. FaultsExplained'
  BY <1>5 DEF FaultsExplained
<1>8. ASSUME NEW l \in Level, l # e PROVE LevelInv(l)'
  <2>1. SameLevel(l)
    BY <1>1, <1>5, <1>8 DEF TypeOK, SameLevel
  <2>2. (l <= e <=> l <= d) /\ (l > e <=> l > d)
    BY <1>3, <1>8 DEF Level
  <2> QED BY <2>1, <2>2, <1>2, <1>5, OtherLevelInv DEF SquirrelInv
<1>9. LevelInv(e)'
  <2>1. /\ e > d /\ e <= e /\ ~(e > e) /\ 1 + n - 0 = 1 + n /\ 1 + n >= 1 + n
    BY <1>1, <1>3
  <2>2. running[e] = "no" /\ pushed[e] = 0 /\ phase[e] = "none" /\ damage[e] = {}
    BY <2>1, <1>2, <1>3 DEF SquirrelInv, LevelInv, LevelOrder
  <2>3. stk'[e] = t /\ params'[e] = n /\ kind'[e] = k
    BY <1>1, <1>5 DEF TypeOK
  <2>4. LevelOrder(e)' /\ CalleeInv(e)' /\ ResultsInv(e)' /\ ResultOnTop(e)'
    BY <2>1, <2>2, <1>5 DEF LevelOrder, CalleeInv, ResultsInv, ResultOnTop
  <2>5. LengthInv(e)'
    BY <2>1, <2>2, <2>3, <1>4, <1>5 DEF LengthInv, Enough
  <2>6. CleanInv(e)'
    BY <2>1, <2>2, <2>3, <1>4, <1>5 DEF CleanInv
  <2> QED BY <2>4, <2>5, <2>6 DEF LevelInv
<1> QED BY <1>6, <1>7, <1>8, <1>9 DEF SquirrelInv

\* On an undamaged frame a constructor that popped its parameters finds the instance on
\* top, or a root table that a call of it left.
LEMMA ConstructorTop ==
  ASSUME NEW s \in Seq(Value), Grounded(s, "constructor", 0, Len(s))
  PROVE  Len(s) >= 1 /\ (s[Len(s)] = "this" \/ s[Len(s)] = "table")
<1>1. Len(s) \in Nat /\ Len(s) >= 1 /\ s[1] = "this"
  BY DEF Grounded
<1>2. CASE Len(s) = 1
  BY <1>1, <1>2
<1>3. CASE Len(s) >= 2
  <2>1. Len(s) \in (2 + 0)..Len(s)
    BY <1>1, <1>3
  <2>2. \A i \in (2 + 0)..Len(s) : s[i] = "table"
    BY DEF Grounded
  <2> QED BY <2>1, <2>2, <1>1
<1> QED BY <1>1, <1>2, <1>3

\* C++ returns to the script.
LEMMA LeaveCallbackStep ==
  ASSUME SquirrelInv, NEW result \in BOOLEAN, LeaveCallback(result)
  PROVE  SquirrelInv'
<1>1. TypeOK /\ MaxDepth \in Nat
  BY SquirrelAssumption DEF SquirrelInv
<1>2. PICK d \in Level : depth = d
  BY <1>1 DEF TypeOK
<1>3. PICK s \in Seq(Value), p \in Int, q \in Nat : stk[d] = s /\ params[d] = p /\ pushed[d] = q
  BY <1>1 DEF TypeOK
<1>4. d > 0 /\ running[d] = "no" /\ phase[d] = "none" /\ fault = "none" /\ LevelInv(d)
  BY <1>2 DEF LeaveCallback, InCPP, SquirrelInv
<1>5. d \in Nat /\ d <= d /\ Len(s) \in Nat /\ Len(s) - 0 = Len(s)
  BY DEF Level
<1>6. CASE Fail("hang")
  BY <1>6, FailStep DEF Faults
<1>7. CASE kind[d] = "constructor" /\ q = 0 /\ ~Attachable /\ Fail("detached")
  <2>1. SUFFICES ASSUME ~(p > 0), damage[d] = {} PROVE Slotted
    BY <1>2, <1>3, <1>7, FailStep DEF Faults
  <2>2. Grounded(s, "constructor", p, Len(s))
    BY <2>1, <1>2, <1>3, <1>4, <1>5, <1>7 DEF LevelInv, CleanInv
  <2>3. Grounded(s, "constructor", 0, Len(s))
    <3>1. p = 0
      BY <2>1, <2>2 DEF Grounded
    <3> QED BY <2>2, <3>1
  <2>4. Len(s) >= 1 /\ (s[Len(s)] = "this" \/ s[Len(s)] = "table")
    BY <2>3, ConstructorTop
  <2> QED BY <2>4, <1>2, <1>3, <1>7 DEF Attachable, Slotted, Top, Frame
<1>8. CASE q # 0 /\ ~Returnable /\ Fail("lost")
  <2>1. SUFFICES ASSUME damage[d] \cap {"mixed", "stray"} = {} PROVE FALSE
    BY <1>2, <1>8, FailStep DEF Faults
  <2>2. q > 0
    BY <1>8
  <2>3. ValueOnTop(s)
    BY <2>1, <2>2, <1>3, <1>4 DEF LevelInv, ResultOnTop
  <2> QED BY <2>3, <1>2, <1>3, <1>5, <1>8 DEF ValueOnTop, Returnable, Top, Frame
<1>9. CASE /\ depth' = d - 1
           /\ kind' = [kind EXCEPT ![d] = "program"] /\ stk' = [stk EXCEPT ![d] = << >>]
           /\ params' = [params EXCEPT ![d] = 0] /\ pushed' = [pushed EXCEPT ![d] = 0]
           /\ damage' = [damage EXCEPT ![d] = {}]
           /\ UNCHANGED <<running, phase, fn, args, results, mark, known, inRoot, fault>>
  <2>1. PICK e \in Level : e = d - 1
    BY <1>1, <1>4, <1>5 DEF Level
  <2>2. << >> \in Seq(Value)
    OBVIOUS
  <2>3. TypeOK'
    <3>0. 0 \in Int /\ params \in [Level -> Int] /\ params' = [params EXCEPT ![d] = 0]
      BY <1>1, <1>9 DEF TypeOK
    <3>1. params' \in [Level -> Int]
      BY <3>0
    <3>2. stk' \in [Level -> Seq(Value)]
      BY <1>1, <1>9, <2>2 DEF TypeOK
    <3> QED BY <3>1, <3>2, <1>1, <1>9, <2>1 DEF TypeOK
  <2>4. FaultsExplained'
    BY <1>4, <1>9 DEF FaultsExplained
  <2>5. ASSUME NEW l \in Level, l # d PROVE LevelInv(l)'
    <3>1. SameLevel(l)
      BY <1>1, <1>9, <2>5 DEF TypeOK, SameLevel
    <3>2. (l <= e <=> l <= d) /\ (l > e <=> l > d)
      BY <1>5, <2>1, <2>5 DEF Level
    <3> QED BY <3>1, <3>2, <1>2, <1>9, <2>1, OtherLevelInv DEF SquirrelInv
  <2>6. LevelInv(d)'
    <3>1. pushed'[d] = 0 /\ damage'[d] = {} /\ phase'[d] = "none" /\ running'[d] = "no"
      BY <1>1, <1>4, <1>9 DEF TypeOK
    <3>2. depth' = e /\ d > e /\ ~(d <= e)
      BY <1>5, <1>9, <2>1 DEF Level
    <3> QED BY <3>1, <3>2 DEF LevelInv, LevelOrder, LengthInv, CalleeInv, ResultsInv,
                              ResultOnTop, CleanInv
  <2> QED BY <2>3, <2>4, <2>5, <2>6 DEF SquirrelInv
<1> QED BY <1>2, <1>3, <1>6, <1>7, <1>8, <1>9 DEF LeaveCallback

-----------------------------------------------------------------------------
(* Squirrel: the theorems *)

\* The invariant holds when the context is created.
LEMMA SquirrelInitially ==
  ASSUME Init
  PROVE  SquirrelInv
<1>1. 0 \in Level /\ MaxDepth \in Nat
  BY SquirrelAssumption DEF Level
<1>2. <<"table">> \in Seq(Value) /\ Len(<<"table">>) = 1 /\ << >> \in Seq(Value)
  BY DEF Value
<1>3. TypeOK
  <2>1. stk \in [Level -> Seq(Value)]
    BY <1>2 DEF Init
  <2> QED BY <1>1, <2>1 DEF Init, TypeOK, Faults
<1>4. FaultsExplained
  BY DEF Init, FaultsExplained
<1>5. ASSUME NEW l \in Level PROVE LevelInv(l)
  <2>1. /\ depth = 0 /\ running[l] = "no" /\ kind[l] = "program" /\ params[l] = 0
        /\ results[l] = 0 /\ pushed[l] = 0 /\ phase[l] = "none" /\ damage[l] = {}
        /\ (l = 0 => stk[l] = <<"table">>)
    BY DEF Init
  <2>2. l \in Nat /\ (l <= 0 => l = 0)
    BY DEF Level
  <2>3. LevelOrder(l) /\ CalleeInv(l) /\ ResultsInv(l) /\ ResultOnTop(l)
    BY <2>1 DEF LevelOrder, CalleeInv, ResultsInv, ResultOnTop
  <2>4. LengthInv(l)
    <3>1. Enough(1, "none", 0, args[l], 0)
      BY DEF Enough
    <3>2. l = 0 => Len(stk[l]) = 1
      BY <2>1, <1>2
    <3> QED BY <2>1, <2>2, <3>1, <3>2 DEF LengthInv
  <2>5. CleanInv(l)
    <3>1. Grounded(<<"table">>, "program", 0, 1 - 0)
      BY <1>2 DEF Grounded
    <3> QED BY <3>1, <2>1, <2>2, <1>2 DEF CleanInv
  <2> QED BY <2>3, <2>4, <2>5 DEF LevelInv
<1> QED BY <1>3, <1>4, <1>5 DEF SquirrelInv

\* Every step of C++ and of a script preserves it.
LEMMA SquirrelStepInv ==
  ASSUME SquirrelInv, Next
  PROVE  SquirrelInv'
  BY RegisterUserClassStep, ExecuteStringStep, BeginCallNotFunctionStep, BeginCallStep,
     ReassignCallStep, PushNewScriptObjectStep, LeaveCallbackStep, PushArgumentStep, EndCallStep,
     FailingCallStep, PopResultStep, ReleaseAfterCallStep, ScriptReturnsStep, EnterCallbackStep,
     PopParameterStep, PushResultStep
  DEF Next

\* What the invariant says, level by level, is what the properties say.
LEMMA SquirrelInvMeaning ==
  ASSUME SquirrelInv
  PROVE  TypeOK /\ CalleePlaced /\ ResultsCounted /\ OnlyTablesLeak /\ FaultsExplained
<1>1. TypeOK /\ FaultsExplained
  BY DEF SquirrelInv
<1>2. CalleePlaced
  <2>1. SUFFICES ASSUME NEW l \in Level, phase[l] = "open",
                        damage[l] \cap {"reassigned", "stray", "mixed"} = {}
                 PROVE  /\ Len(stk[l]) = mark[l] + 3 + args[l]
                        /\ SubSeq(stk[l], mark[l] + 1, mark[l] + 3) = <<"table", fn[l], "table">>
    BY DEF CalleePlaced
  <2>2. PICK s \in Seq(Value), m \in Nat, n \in Nat, f \in Functions \cup {"none"} :
           stk[l] = s /\ mark[l] = m /\ args[l] = n /\ fn[l] = f
    BY <1>1 DEF TypeOK
  <2>3. Placed(s, m, f, n)
    BY <2>1, <2>2 DEF SquirrelInv, LevelInv, CalleeInv
  <2>4. Len(s) = m + 3 + n /\ s[m + 1] = "table" /\ s[m + 2] = f /\ s[m + 3] = "table"
    BY <2>3 DEF Placed
  <2>5. m + 3 <= Len(s)
    BY <2>4
  <2>6. SubSeq(s, m + 1, m + 3) = <<"table", f, "table">>
    BY <2>4, <2>5, ThreeSlots
  <2> QED BY <2>2, <2>4, <2>6
<1>3. ResultsCounted
  BY DEF SquirrelInv, LevelInv, ResultsInv, ResultsCounted
<1>4. OnlyTablesLeak
  <2>1. SUFFICES ASSUME NEW l \in Level, l <= depth, phase[l] = "none", damage[l] = {}
                 PROVE  /\ Len(stk[l]) >= 1 + params[l] + pushed[l]
                        /\ \A i \in (2 + params[l])..(Len(stk[l]) - pushed[l]) : stk[l][i] = "table"
    BY DEF OnlyTablesLeak
  <2>2. PICK s \in Seq(Value), p \in Int, q \in Nat :
           stk[l] = s /\ params[l] = p /\ pushed[l] = q
    BY <1>1 DEF TypeOK
  <2>3. Grounded(s, kind[l], p, Len(s) - q)
    BY <2>1, <2>2 DEF SquirrelInv, LevelInv, CleanInv
  <2>4. Len(s) >= 1 + p + q /\ \A i \in (2 + p)..(Len(s) - q) : s[i] = "table"
    BY <2>3 DEF Grounded
  <2> QED BY <2>2, <2>4
<1> QED BY <1>1, <1>2, <1>3, <1>4

\* The frames of SquirrelScriptStack stay as the invariant describes them, level by
\* level, in every context that ScriptContext::Create can give.
THEOREM SquirrelCallsInvariant == ContextsSpec => []SquirrelInv
<1>1. ContextsInit => SquirrelInv
  BY SquirrelInitially DEF ContextsInit
<1>2. SquirrelInv /\ [ContextsNext]_<<language, vars, ocamlVars>> => SquirrelInv'
  <2>1. ASSUME SquirrelInv, UNCHANGED vars PROVE SquirrelInv'
    <3>1. known' \in BOOLEAN /\ inRoot' \in BOOLEAN
      BY <2>1 DEF SquirrelInv, TypeOK, vars
    <3> QED BY <2>1, <3>1, FramesKept DEF vars
  <2> QED BY <2>1, SquirrelStepInv DEF ContextsNext, Create, SquirrelStep, OcamlStep
<1> QED BY <1>1, <1>2, PTL DEF ContextsSpec

\* sq_call finds the function that BeginCall was asked for right under the environment
\* and the arguments, whatever calls were nested, failed or abandoned before
\* (SquirrelScriptContext::BeginCall, SquirrelScriptStack::EndCall).
THEOREM SquirrelCalleePlaced == ContextsSpec => []CalleePlaced
  BY SquirrelCallsInvariant, SquirrelInvMeaning, PTL

\* After EndCall the frame holds exactly as many results as GetNumParams announces
\* (SquirrelScriptStack::EndCall, PopInt).
THEOREM SquirrelResultsCounted == ContextsSpec => []ResultsCounted
  BY SquirrelCallsInvariant, SquirrelInvMeaning, PTL

\* Calls that are ended, succeed and are held one at a time leak root tables only
\* (SquirrelScriptContext::ReleaseAfterCall).
THEOREM SquirrelOnlyTablesLeak == ContextsSpec => []OnlyTablesLeak
  BY SquirrelCallsInvariant, SquirrelInvMeaning, PTL

\* The stack is popped below a frame, a result is lost or a wrapper is not attached only
\* for the reasons that FaultsExplained names (ReleaseAfterCall, the C++ callbacks).
THEOREM SquirrelFaultsExplained == ContextsSpec => []FaultsExplained
  BY SquirrelCallsInvariant, SquirrelInvMeaning, PTL

-----------------------------------------------------------------------------
(* OCaml: indices and frames *)

\* A nonempty set of indices has a least element, ...
LEMMA LeastNumber ==
  ASSUME NEW S \in SUBSET Nat, S # {}
  PROVE  \E x \in S : \A y \in S : x <= y
<1>1. PICK x \in S : \A y \in S : <<y, x>> \notin OpToRel(<, Nat)
  BY NatLessThanWellFounded, WFMin, Zenon
<1>2. \A y \in S : y < x => <<y, x>> \in OpToRel(<, Nat)
  BY Zenon DEF OpToRel
<1>3. \A y \in S : ~(y < x)
  BY <1>1, <1>2, Zenon
<1> QED BY <1>3

\* ... which Min finds, ...
LEMMA LeastIndex ==
  ASSUME NEW S \in SUBSET Nat, S # {}
  PROVE  OCaml!Min(S) \in S
  BY LeastNumber DEF OCaml!Min

\* ... and, below a bound, a greatest one.
LEMMA GreatestIndex ==
  ASSUME NEW n \in Nat, NEW S \in SUBSET (1 .. n), S # {}
  PROVE  OCaml!Max(S) \in S
<1> DEFINE T == {n - i : i \in S}
<1>1. \A i \in S : i \in Nat /\ n - i \in Nat
  OBVIOUS
<1>2. T \in SUBSET Nat /\ T # {}
  BY <1>1
<1>3. PICK x \in T : \A y \in T : x <= y
  BY <1>2, LeastNumber
<1>4. PICK i \in S : x = n - i
  OBVIOUS
<1>5. \A j \in S : n - i <= n - j
  BY <1>3, <1>4
<1>6. \A j \in S : i >= j
  BY <1>1, <1>5
<1> QED BY <1>6 DEF OCaml!Max

\* The kind of a frame tells its fields.
LEMMA FrameKind ==
  ASSUME NEW f \in OCaml!Frame
  PROVE  /\ f.kind = "script" => f \in OCaml!ScriptFrame
         /\ f.kind = "function" => f \in OCaml!FunctionFrame
         /\ f.kind = "call" => f \in OCaml!CallFrame
  BY DEF OCaml!Frame, OCaml!ScriptFrame, OCaml!FunctionFrame, OCaml!CallFrame

\* What Append does.
LEMMA AppendSlots ==
  ASSUME NEW S, NEW s \in Seq(S), NEW e \in S
  PROVE  /\ Append(s, e) \in Seq(S) /\ Len(Append(s, e)) = Len(s) + 1
         /\ DOMAIN Append(s, e) = 1 .. Len(s) + 1
         /\ Append(s, e)[Len(s) + 1] = e
         /\ \A i \in 1..Len(s) : Append(s, e)[i] = s[i]
  OBVIOUS

\* A function on an interval is a sequence.
LEMMA IntervalSeq ==
  ASSUME NEW S, NEW n \in Nat, NEW h \in [1 .. n -> S]
  PROVE  h \in Seq(S) /\ Len(h) = n /\ DOMAIN h = 1 .. n
  OBVIOUS

\* A frame is pushed, ...
LEMMA FramePushed ==
  ASSUME NEW fs \in Seq(OCaml!Frame), NEW f \in OCaml!Frame, OCaml!Stacked(fs),
         IF f.kind = "function" THEN Len(fs) > 0 /\ fs[Len(fs)].kind = "script"
         ELSE Len(fs) > 0 => fs[Len(fs)].kind # "script"
  PROVE  LET g == Append(fs, f)
         IN  /\ g \in Seq(OCaml!Frame) /\ Len(g) = Len(fs) + 1 /\ g[Len(g)] = f
             /\ \A i \in 1..Len(fs) : g[i] = fs[i]
             /\ OCaml!Range(g) \subseteq OCaml!Range(fs) \cup {f}
             /\ OCaml!Stacked(g)
<1>1. PICK g \in Seq(OCaml!Frame) :
         /\ g = Append(fs, f) /\ Len(g) = Len(fs) + 1 /\ g[Len(g)] = f
         /\ \A i \in 1..Len(fs) : g[i] = fs[i]
  <2>1. Append(fs, f) \in Seq(OCaml!Frame)
    OBVIOUS
  <2>2. Len(Append(fs, f)) = Len(fs) + 1 /\ Append(fs, f)[Len(fs) + 1] = f
    OBVIOUS
  <2>3. \A i \in 1..Len(fs) : Append(fs, f)[i] = fs[i]
    OBVIOUS
  <2> QED BY <2>1, <2>2, <2>3
<1>2. Len(fs) \in Nat /\ DOMAIN g = 1..Len(g) /\ DOMAIN fs = 1..Len(fs)
  BY <1>1
<1>3. OCaml!Range(g) \subseteq OCaml!Range(fs) \cup {f}
  BY <1>1, <1>2 DEF OCaml!Range
<1>4. OCaml!Stacked(g)
  <2>1. SUFFICES ASSUME NEW i \in 1..Len(g)
                 PROVE  IF g[i].kind = "function" THEN i > 1 /\ g[i - 1].kind = "script"
                        ELSE i > 1 => g[i - 1].kind # "script"
    BY DEF OCaml!Stacked
  <2>2. CASE i = Len(g)
    <3>1. i - 1 = Len(fs) /\ (Len(fs) > 0 <=> i > 1) /\ (Len(fs) > 0 => Len(fs) \in 1..Len(fs))
      BY <1>1, <1>2, <2>2
    <3>2. g[i] = f /\ (i > 1 => g[i - 1] = fs[Len(fs)])
      BY <1>1, <2>2, <3>1
    <3> QED BY <3>1, <3>2
  <2>3. CASE i # Len(g)
    <3>1. i \in 1..Len(fs) /\ (i > 1 => i - 1 \in 1..Len(fs))
      BY <1>1, <1>2, <2>3
    <3> QED BY <1>1, <3>1 DEF OCaml!Stacked
  <2> QED BY <2>2, <2>3
<1> QED BY <1>1, <1>3, <1>4

\* ... some are popped, ...
LEMMA FramesCut ==
  ASSUME NEW fs \in Seq(OCaml!Frame), NEW n \in 0..Len(fs), OCaml!Stacked(fs)
  PROVE  LET g == SubSeq(fs, 1, n)
         IN  /\ g \in Seq(OCaml!Frame) /\ Len(g) = n /\ \A i \in 1..n : g[i] = fs[i]
             /\ OCaml!Range(g) \subseteq OCaml!Range(fs)
             /\ OCaml!Stacked(g)
<1>1. Len(fs) \in Nat /\ \A i \in 1..n : fs[i] \in OCaml!Frame
  OBVIOUS
<1>2. PICK g \in Seq(OCaml!Frame) :
         g = SubSeq(fs, 1, n) /\ Len(g) = n /\ \A i \in 1..n : g[i] = fs[i]
  <2>1. /\ SubSeq(fs, 1, n) \in Seq(OCaml!Frame) /\ Len(SubSeq(fs, 1, n)) = n
        /\ \A i \in 1..n : SubSeq(fs, 1, n)[i] = fs[i]
    BY <1>1, SubSeqProperties
  <2> QED BY <2>1
<1>3. DOMAIN g = 1..n /\ DOMAIN fs = 1..Len(fs) /\ n <= Len(fs) /\ n \in Nat
  BY <1>2
<1>4. OCaml!Range(g) \subseteq OCaml!Range(fs)
  BY <1>1, <1>2, <1>3 DEF OCaml!Range
<1>5. OCaml!Stacked(g)
  BY <1>1, <1>2, <1>3 DEF OCaml!Stacked
<1> QED BY <1>2, <1>4, <1>5

\* ... and the one on top is changed.
LEMMA FrameReplaced ==
  ASSUME NEW fs \in Seq(OCaml!Frame), Len(fs) > 0, OCaml!Stacked(fs),
         NEW f \in OCaml!Frame, f.kind = fs[Len(fs)].kind
  PROVE  LET g == [fs EXCEPT ![Len(fs)] = f]
         IN  /\ g \in Seq(OCaml!Frame) /\ Len(g) = Len(fs) /\ g[Len(g)] = f
             /\ \A i \in 1..Len(fs) : i # Len(fs) => g[i] = fs[i]
             /\ OCaml!Range(g) \subseteq OCaml!Range(fs) \cup {f}
             /\ OCaml!Stacked(g)
<1>1. Len(fs) \in Nat /\ Len(fs) \in 1..Len(fs) /\ DOMAIN fs = 1..Len(fs)
  OBVIOUS
<1>2. PICK g \in Seq(OCaml!Frame) :
         /\ g = [fs EXCEPT ![Len(fs)] = f] /\ Len(g) = Len(fs) /\ g[Len(fs)] = f
         /\ \A i \in 1..Len(fs) : i # Len(fs) => g[i] = fs[i]
  <2>1. /\ [fs EXCEPT ![Len(fs)] = f] \in Seq(OCaml!Frame)
        /\ Len([fs EXCEPT ![Len(fs)] = f]) = Len(fs)
    BY <1>1, ExceptSeq
  <2>2. /\ [fs EXCEPT ![Len(fs)] = f][Len(fs)] = f
        /\ \A i \in 1..Len(fs) : i # Len(fs) => [fs EXCEPT ![Len(fs)] = f][i] = fs[i]
    BY <1>1
  <2> QED BY <2>1, <2>2
<1>3. \A i \in 1..Len(fs) : g[i].kind = fs[i].kind
  BY <1>1, <1>2
<1>4. OCaml!Range(g) \subseteq OCaml!Range(fs) \cup {f}
  <2>1. DOMAIN g = 1..Len(fs)
    BY <1>2
  <2> QED BY <1>1, <1>2, <2>1 DEF OCaml!Range
<1>5. OCaml!Stacked(g)
  <2>1. SUFFICES ASSUME NEW i \in 1..Len(fs)
                 PROVE  IF g[i].kind = "function" THEN i > 1 /\ g[i - 1].kind = "script"
                        ELSE i > 1 => g[i - 1].kind # "script"
    BY <1>2 DEF OCaml!Stacked
  <2>2. i > 1 => i - 1 \in 1..Len(fs)
    BY <1>1
  <2>3. IF fs[i].kind = "function" THEN i > 1 /\ fs[i - 1].kind = "script"
        ELSE i > 1 => fs[i - 1].kind # "script"
    BY DEF OCaml!Stacked
  <2> QED BY <2>1, <2>2, <2>3, <1>3
<1> QED BY <1>2, <1>4, <1>5

\* Every C++ function under an interpreter has run OCaml code.
LEMMA NestedUnder ==
  ASSUME NEW fs \in Seq(OCaml!Frame), NEW p, OCaml!PcInv(fs, p),
         NEW j \in 1..Len(fs), fs[j].kind = "script"
  PROVE  \A i \in 1..Len(fs) : i <= j /\ fs[i].kind = "function" => fs[i].nested
<1>1. SUFFICES ASSUME NEW i \in 1..Len(fs), i <= j, fs[i].kind = "function", ~fs[i].nested
               PROVE  FALSE
  OBVIOUS
<1>2. i # j
  BY <1>1
<1>3. j \in i + 1 .. Len(fs)
  BY <1>1, <1>2
<1>4. fs[j].kind = "call"
  BY <1>1, <1>3 DEF OCaml!PcInv
<1> QED BY <1>4

\* The frame of an interpreter or a C++ function that OCaml code runs inside of.
LEMMA MarkedFrame ==
  ASSUME NEW f \in OCaml!Frame
  PROVE  /\ OCaml!Marked(f) \in OCaml!Frame /\ OCaml!Marked(f).kind = f.kind
         /\ OCaml!Marked(f).kind = "function" => OCaml!Marked(f).nested
         /\ OCaml!Sound(f) => OCaml!Sound(OCaml!Marked(f))
<1>1. CASE f.kind = "function"
  <2>1. f \in OCaml!FunctionFrame
    BY <1>1, FrameKind
  <2>2. PICK h \in OCaml!FunctionFrame :
           /\ h = OCaml!Marked(f) /\ h.kind = f.kind /\ h.nested = TRUE
           /\ h.code = f.code /\ h.name = f.name /\ h.function = f.function /\ h.current = f.current
    <3>1. OCaml!Marked(f) = [f EXCEPT !.nested = TRUE]
      BY <1>1 DEF OCaml!Marked
    <3>2. PICK h \in OCaml!FunctionFrame : h = [f EXCEPT !.nested = TRUE]
      <4>1. [f EXCEPT !.nested = TRUE] \in OCaml!FunctionFrame
        BY <2>1 DEF OCaml!FunctionFrame
      <4> QED BY <4>1, Zenon
    <3>3. /\ h.kind = f.kind /\ h.nested = TRUE
          /\ h.code = f.code /\ h.name = f.name /\ h.function = f.function /\ h.current = f.current
      BY <2>1, <3>2 DEF OCaml!FunctionFrame
    <3>4. h = OCaml!Marked(f)
      BY <3>1, <3>2
    <3> QED BY <3>3, <3>4, Zenon
  <2>3. OCaml!Sound(f) => OCaml!Sound(h)
    BY <1>1, <2>2 DEF OCaml!Sound
  <2>4. h \in OCaml!Frame
    BY <2>2 DEF OCaml!Frame
  <2> QED BY <2>2, <2>3, <2>4
<1>2. CASE f.kind # "function"
  BY <1>2 DEF OCaml!Marked
<1> QED BY <1>1, <1>2

\* A new interpreter starts: pc is its own, and the functions below are marked.
LEMMA InterpreterStarted ==
  ASSUME NEW fs \in Seq(OCaml!Frame), OCaml!Stacked(fs), NEW c \in Nat,
         Len(fs) > 0 => fs[Len(fs)].kind # "script",
         \A f \in OCaml!Range(fs) : OCaml!Sound(f)
  PROVE  LET g == Append([i \in DOMAIN fs |-> OCaml!Marked(fs[i])],
                         [kind |-> "script", code |-> c, derailed |-> FALSE])
         IN  /\ g \in Seq(OCaml!Frame) /\ OCaml!Stacked(g) /\ OCaml!PcInv(g, Len(fs) + 1)
             /\ \A x \in OCaml!Range(g) : (x.kind = "script" /\ x.code = c) \/ OCaml!Sound(x)
<1>1. Len(fs) \in Nat /\ DOMAIN fs = 1..Len(fs) /\ \A i \in 1..Len(fs) : fs[i] \in OCaml!Frame
  OBVIOUS
<1>2. PICK m \in Seq(OCaml!Frame) :
         /\ m = [i \in DOMAIN fs |-> OCaml!Marked(fs[i])] /\ Len(m) = Len(fs)
         /\ DOMAIN m = 1..Len(fs) /\ \A i \in 1..Len(fs) : m[i] = OCaml!Marked(fs[i])
  <2>1. \A i \in 1..Len(fs) : OCaml!Marked(fs[i]) \in OCaml!Frame
    BY <1>1, MarkedFrame
  <2>2. PICK h \in [1 .. Len(fs) -> OCaml!Frame] :
           /\ h = [i \in DOMAIN fs |-> OCaml!Marked(fs[i])]
           /\ \A i \in 1..Len(fs) : h[i] = OCaml!Marked(fs[i])
    <3>1. DOMAIN fs = 1..Len(fs)
      BY <1>1
    <3>2. [i \in DOMAIN fs |-> OCaml!Marked(fs[i])] \in [1 .. Len(fs) -> OCaml!Frame]
      BY <2>1, <3>1
    <3>3. \A i \in 1..Len(fs) : [j \in DOMAIN fs |-> OCaml!Marked(fs[j])][i] = OCaml!Marked(fs[i])
      BY <3>1
    <3> QED BY <3>2, <3>3, Zenon
  <2>3. h \in Seq(OCaml!Frame) /\ Len(h) = Len(fs) /\ DOMAIN h = 1 .. Len(fs)
    BY <1>1, IntervalSeq
  <2> QED BY <2>2, <2>3
<1>3. \A i \in 1..Len(fs) : m[i].kind = fs[i].kind /\ (m[i].kind = "function" => m[i].nested)
  BY <1>1, <1>2, MarkedFrame
<1>4. OCaml!Stacked(m)
  <2>1. SUFFICES ASSUME NEW i \in 1..Len(fs)
                 PROVE  IF m[i].kind = "function" THEN i > 1 /\ m[i - 1].kind = "script"
                        ELSE i > 1 => m[i - 1].kind # "script"
    BY <1>2 DEF OCaml!Stacked
  <2>2. i > 1 => i - 1 \in 1..Len(fs)
    BY <1>1
  <2>3. IF fs[i].kind = "function" THEN i > 1 /\ fs[i - 1].kind = "script"
        ELSE i > 1 => fs[i - 1].kind # "script"
    BY DEF OCaml!Stacked
  <2> QED BY <2>2, <2>3, <1>3
<1>5. \A x \in OCaml!Range(m) : OCaml!Sound(x)
  <2>1. \A i \in 1..Len(fs) : OCaml!Sound(fs[i])
    BY <1>1 DEF OCaml!Range
  <2>2. \A i \in 1..Len(fs) : OCaml!Sound(m[i])
    BY <1>1, <1>2, <2>1, MarkedFrame
  <2> QED BY <1>2, <2>2 DEF OCaml!Range
<1>6. PICK f \in OCaml!Frame :
         /\ f = [kind |-> "script", code |-> c, derailed |-> FALSE]
         /\ f.kind = "script" /\ f.code = c
  <2>1. [kind |-> "script", code |-> c, derailed |-> FALSE] \in OCaml!Frame
    BY DEF OCaml!Frame, OCaml!ScriptFrame
  <2> QED BY <2>1
<1>7. PICK g \in Seq(OCaml!Frame) :
         /\ g = Append(m, f) /\ Len(g) = Len(m) + 1 /\ g[Len(g)] = f
         /\ \A i \in 1..Len(m) : g[i] = m[i]
         /\ OCaml!Range(g) \subseteq OCaml!Range(m) \cup {f} /\ OCaml!Stacked(g)
  <2>1. Len(m) > 0 => m[Len(m)].kind # "script"
    BY <1>1, <1>2, <1>3
  <2> QED BY <1>4, <1>6, <2>1, FramePushed
<1>8. OCaml!PcInv(g, Len(fs) + 1)
  <2>1. SUFFICES ASSUME NEW i \in 1..Len(g)
                 PROVE  /\ g[i].kind = "function" => g[i].nested
                        /\ i = Len(g) => Len(fs) + 1 = i
    BY DEF OCaml!PcInv
  <2>2. i = Len(g) \/ i \in 1..Len(fs)
    BY <1>1, <1>2, <1>7
  <2> QED BY <1>2, <1>3, <1>6, <1>7, <2>2
<1>9. \A x \in OCaml!Range(g) : (x.kind = "script" /\ x.code = c) \/ OCaml!Sound(x)
  BY <1>5, <1>6, <1>7
<1> QED BY <1>2, <1>6, <1>7, <1>8, <1>9
-----------------------------------------------------------------------------
(* OCaml: every step preserves the invariant *)

\* Loading a script changes nothing for the frames of the earlier ones.
LEMMA SoundKept ==
  ASSUME NEW f \in OCaml!Frame, Len(code) \in Nat, OCaml!Sound(f), Len(code') \in Nat,
         Len(code) <= Len(code'), \A i \in 1..Len(code) : code'[i] = code[i],
         named # 0 => named' # 0
  PROVE  OCaml!Sound(f)'
<1>1. \A i \in 1..Len(code) : i \in 1..Len(code')
  OBVIOUS
<1> QED BY <1>1 DEF OCaml!Sound

\* The frame on top.
LEMMA TopFrame ==
  ASSUME OCaml!OcamlInv, OCaml!Depth > 0
  PROVE  /\ ocamlFrames \in Seq(OCaml!Frame) /\ Len(ocamlFrames) \in Nat /\ Len(ocamlFrames) > 0
         /\ OCaml!Depth = Len(ocamlFrames)
         /\ OCaml!Top = ocamlFrames[Len(ocamlFrames)]
         /\ OCaml!Top \in OCaml!Frame /\ OCaml!Top \in OCaml!Range(ocamlFrames)
         /\ OCaml!Sound(OCaml!Top)
<1>1. /\ ocamlFrames \in Seq(OCaml!Frame) /\ Len(ocamlFrames) \in Nat /\ Len(ocamlFrames) > 0
      /\ Len(ocamlFrames) \in DOMAIN ocamlFrames
  BY DEF OCaml!OcamlInv, OCaml!OcamlTypeOK, OCaml!Depth
<1>2. OCaml!Top = ocamlFrames[Len(ocamlFrames)]
  BY DEF OCaml!Top, OCaml!Last
<1>3. OCaml!Top \in OCaml!Frame
  BY <1>1, <1>2
<1>4. OCaml!Top \in OCaml!Range(ocamlFrames)
  BY <1>1, <1>2 DEF OCaml!Range
<1>5. OCaml!Sound(OCaml!Top)
  BY <1>4 DEF OCaml!OcamlInv
<1> QED BY <1>1, <1>2, <1>3, <1>4, <1>5 DEF OCaml!Depth

\* A step that loads and registers nothing is about the frames only.
LEMMA FramesStep ==
  ASSUME OCaml!OcamlInv, UNCHANGED <<context, functions, dirty, header, dll, code, table>>,
         named' \in 0..Len(code), named # 0 => named' # 0,
         pc' \in Nat, control' \in {"ok", "hang", "crash", "exit"},
         NEW g \in Seq(OCaml!Frame), ocamlFrames' = g, OCaml!Stacked(g),
         \A f \in OCaml!Range(g) : f \in OCaml!Range(ocamlFrames) \/ OCaml!Sound(f)',
         OCaml!PcInv(g, pc')
  PROVE  OCaml!OcamlInv'
<1>1. OCaml!OcamlTypeOK'
  BY DEF OCaml!OcamlInv, OCaml!OcamlTypeOK
<1>2. OCaml!FunctionsInv' /\ OCaml!TableInv'
  BY DEF OCaml!OcamlInv, OCaml!FunctionsInv, OCaml!TableInv
<1>3. ASSUME NEW f \in OCaml!Range(g) PROVE OCaml!Sound(f)'
  <2>1. f \in OCaml!Frame
    BY DEF OCaml!Range
  <2>2. Len(code) \in Nat /\ Len(code) <= Len(code)
    BY DEF OCaml!OcamlInv, OCaml!OcamlTypeOK
  <2>3. f \in OCaml!Range(ocamlFrames) => OCaml!Sound(f)
    BY DEF OCaml!OcamlInv
  <2> QED BY <2>1, <2>2, <2>3, SoundKept
<1>4. (\A f \in OCaml!Range(ocamlFrames) : OCaml!Sound(f))'
  BY <1>3
<1>5. OCaml!Stacked(ocamlFrames)' /\ OCaml!PcInv(ocamlFrames, pc)'
  BY DEF OCaml!Stacked, OCaml!PcInv
<1> QED BY <1>1, <1>2, <1>4, <1>5 DEF OCaml!OcamlInv

\* The frames stay as they are.
LEMMA FramesStay ==
  ASSUME OCaml!OcamlInv, UNCHANGED <<context, functions, dirty, header, dll, code, table>>,
         named' \in 0..Len(code), named # 0 => named' # 0, UNCHANGED <<ocamlFrames, pc, control>>
  PROVE  OCaml!OcamlInv'
<1>1. ocamlFrames \in Seq(OCaml!Frame) /\ OCaml!Stacked(ocamlFrames) /\ OCaml!PcInv(ocamlFrames, pc)
      /\ pc' \in Nat /\ control' \in {"ok", "hang", "crash", "exit"}
  BY DEF OCaml!OcamlInv, OCaml!OcamlTypeOK
<1>2. PICK g \in Seq(OCaml!Frame) :
         /\ g = ocamlFrames /\ OCaml!Stacked(g) /\ OCaml!Range(g) \subseteq OCaml!Range(ocamlFrames)
         /\ OCaml!PcInv(g, pc')
  BY <1>1
<1> QED BY <1>1, <1>2, FramesStep

\* A program that has stopped has no frames.
LEMMA NoFrames ==
  /\ <<>> \in Seq(OCaml!Frame) /\ OCaml!Range(<<>>) = {}
  /\ OCaml!Stacked(<<>>) /\ \A p : OCaml!PcInv(<<>>, p)
  BY DEF OCaml!Range, OCaml!Stacked, OCaml!PcInv

\* The program stops.
LEMMA StopStep ==
  ASSUME OCaml!OcamlInv, UNCHANGED <<context, functions, dirty, header, dll, code, table>>,
         UNCHANGED named, NEW how \in {"hang", "crash", "exit"}, OCaml!Stop(how)
  PROVE  OCaml!OcamlInv'
<1>1. PICK g \in Seq(OCaml!Frame) :
         /\ g = <<>> /\ OCaml!Stacked(g) /\ OCaml!PcInv(g, pc')
         /\ \A f \in OCaml!Range(g) : f \in OCaml!Range(ocamlFrames)
  BY NoFrames
<1>2. /\ ocamlFrames' = g /\ pc' \in Nat /\ control' \in {"ok", "hang", "crash", "exit"}
      /\ named' \in 0..Len(code) /\ (named # 0 => named' # 0)
  BY <1>1 DEF OCaml!Stop, OCaml!OcamlInv, OCaml!OcamlTypeOK
<1> QED BY <1>1, <1>2, FramesStep

\* C++ pushes a call, an interpreter pushes a C++ function.
LEMMA PushStep ==
  ASSUME OCaml!OcamlInv, UNCHANGED <<context, functions, dirty, header, dll, code, table>>,
         UNCHANGED <<named, pc, control>>, NEW f \in OCaml!Frame, OCaml!Push(f), OCaml!Sound(f),
         \/ f.kind = "call" /\ (OCaml!Depth > 0 => OCaml!Top.kind # "script")
         \/ /\ f.kind = "function" /\ OCaml!Depth > 0 /\ OCaml!Top.kind = "script"
            /\ pc = OCaml!Depth
  PROVE  OCaml!OcamlInv'
<1>1. /\ ocamlFrames \in Seq(OCaml!Frame) /\ OCaml!Stacked(ocamlFrames) /\ named \in 0..Len(code)
      /\ pc \in Nat /\ control \in {"ok", "hang", "crash", "exit"} /\ Len(ocamlFrames) \in Nat
      /\ Len(code) \in Nat
  BY DEF OCaml!OcamlInv, OCaml!OcamlTypeOK
<1>2. PICK fs \in Seq(OCaml!Frame) : fs = ocamlFrames /\ Len(fs) \in Nat /\ OCaml!PcInv(fs, pc)
  BY <1>1 DEF OCaml!OcamlInv
<1>3. \/ f.kind = "call" /\ (Len(fs) > 0 => fs[Len(fs)].kind # "script")
      \/ f.kind = "function" /\ Len(fs) > 0 /\ fs[Len(fs)].kind = "script" /\ pc = Len(fs)
  BY <1>2 DEF OCaml!Depth, OCaml!Top, OCaml!Last
<1>4. PICK g \in Seq(OCaml!Frame) :
         /\ g = Append(fs, f) /\ Len(g) = Len(fs) + 1 /\ g[Len(g)] = f
         /\ \A i \in 1..Len(fs) : g[i] = fs[i]
         /\ OCaml!Range(g) \subseteq OCaml!Range(fs) \cup {f}
         /\ OCaml!Stacked(g)
  BY <1>1, <1>2, <1>3, FramePushed
<1>5. ocamlFrames' = g
  BY <1>2, <1>4 DEF OCaml!Push
<1>6. OCaml!Sound(f)'
  BY <1>1, SoundKept
<1>7. OCaml!PcInv(g, pc')
  <2>1. SUFFICES ASSUME NEW i \in 1..Len(g)
                 PROVE  /\ (g[i].kind = "function" /\ ~g[i].nested) =>
                              pc = i - 1 /\ \A j \in i + 1 .. Len(g) : g[j].kind = "call"
                        /\ (g[i].kind = "script" /\ ~g[i].derailed /\ i = Len(g)) => pc = i
    BY DEF OCaml!PcInv
  <2>2. CASE i = Len(g)
    <3>1. i - 1 = Len(fs) /\ \A j \in i + 1 .. Len(g) : FALSE
      BY <1>2, <1>4, <2>2
    <3> QED BY <1>3, <1>4, <2>2, <3>1
  <2>3. CASE i # Len(g)
    <3>1. i \in 1..Len(fs) /\ g[i] = fs[i]
      BY <1>2, <1>4, <2>3
    <3>2. SUFFICES ASSUME fs[i].kind = "function", ~fs[i].nested
                   PROVE  pc = i - 1 /\ \A j \in i + 1 .. Len(g) : g[j].kind = "call"
      BY <2>3, <3>1
    <3>3. pc = i - 1 /\ \A j \in i + 1 .. Len(fs) : fs[j].kind = "call"
      BY <1>2, <3>1, <3>2 DEF OCaml!PcInv
    <3>4. f.kind = "call"
      <4>1. SUFFICES ASSUME Len(fs) > 0, fs[Len(fs)].kind = "script" PROVE FALSE
        BY <1>3
      <4>2. Len(fs) \in 1..Len(fs) /\ i <= Len(fs)
        BY <1>2, <3>1, <4>1
      <4> QED BY <1>2, <3>1, <3>2, <4>1, <4>2, NestedUnder
    <3>5. \A j \in i + 1 .. Len(g) : j = Len(g) \/ (j \in i + 1 .. Len(fs) /\ j \in 1..Len(fs))
      BY <1>2, <1>4, <3>1
    <3> QED BY <1>4, <3>3, <3>4, <3>5
  <2> QED BY <2>2, <2>3
<1>8. \A x \in OCaml!Range(g) : x \in OCaml!Range(ocamlFrames) \/ OCaml!Sound(x)'
  BY <1>2, <1>4, <1>6
<1>9. /\ named' \in 0..Len(code) /\ (named # 0 => named' # 0) /\ pc' \in Nat
      /\ control' \in {"ok", "hang", "crash", "exit"}
  BY <1>1
<1> QED BY <1>4, <1>5, <1>7, <1>8, <1>9, FramesStep

\* The frame on top is changed, and is no interpreter.
LEMMA ReplaceStep ==
  ASSUME OCaml!OcamlInv, UNCHANGED <<context, functions, dirty, header, dll, code, table>>,
         UNCHANGED <<named, pc, control>>, OCaml!Depth > 0,
         NEW f \in OCaml!Frame, OCaml!Replace(f), OCaml!Sound(f),
         f.kind = OCaml!Top.kind, f.kind # "script",
         f.kind = "function" => f.nested = OCaml!Top.nested
  PROVE  OCaml!OcamlInv'
<1>1. /\ ocamlFrames \in Seq(OCaml!Frame) /\ OCaml!Stacked(ocamlFrames) /\ named \in 0..Len(code)
      /\ pc \in Nat /\ control \in {"ok", "hang", "crash", "exit"} /\ Len(ocamlFrames) \in Nat
      /\ Len(code) \in Nat
  BY DEF OCaml!OcamlInv, OCaml!OcamlTypeOK
<1>2. PICK g \in Seq(OCaml!Frame) :
         /\ g = [ocamlFrames EXCEPT ![Len(ocamlFrames)] = f] /\ Len(g) = Len(ocamlFrames)
         /\ g[Len(g)] = f /\ OCaml!Range(g) \subseteq OCaml!Range(ocamlFrames) \cup {f}
         /\ \A i \in 1..Len(ocamlFrames) : i # Len(ocamlFrames) => g[i] = ocamlFrames[i]
         /\ OCaml!Stacked(g)
  <2>1. Len(ocamlFrames) > 0 /\ f.kind = ocamlFrames[Len(ocamlFrames)].kind
    BY DEF OCaml!Depth, OCaml!Top, OCaml!Last
  <2> QED BY <1>1, <2>1, FrameReplaced
<1>3. ocamlFrames' = g
  BY <1>2 DEF OCaml!Replace, OCaml!Depth
<1>4. OCaml!Sound(f)'
  BY <1>1, SoundKept
<1>5. OCaml!PcInv(g, pc')
  <2>1. PICK fs \in Seq(OCaml!Frame) : fs = ocamlFrames /\ OCaml!PcInv(fs, pc)
    BY <1>1 DEF OCaml!OcamlInv
  <2>2. \A i \in 1..Len(fs) :
           /\ g[i].kind = fs[i].kind /\ (g[i].kind = "function" => g[i].nested = fs[i].nested)
           /\ i = Len(fs) => g[i].kind # "script"
    <3>1. OCaml!Top = fs[Len(fs)]
      BY <2>1 DEF OCaml!Top, OCaml!Last
    <3> QED BY <1>2, <2>1, <3>1
  <2>3. Len(g) = Len(fs) /\ Len(fs) \in Nat
    BY <1>1, <1>2, <2>1
  <2>4. SUFFICES ASSUME NEW i \in 1..Len(fs), g[i].kind = "function", ~g[i].nested
                 PROVE  pc = i - 1 /\ \A j \in i + 1 .. Len(fs) : g[j].kind = "call"
    BY <2>2, <2>3 DEF OCaml!PcInv
  <2>5. pc = i - 1 /\ \A j \in i + 1 .. Len(fs) : fs[j].kind = "call"
    BY <2>1, <2>2, <2>4 DEF OCaml!PcInv
  <2>6. \A j \in i + 1 .. Len(fs) : j \in 1..Len(fs)
    BY <2>3
  <2> QED BY <2>2, <2>5, <2>6
<1>6. \A x \in OCaml!Range(g) : x \in OCaml!Range(ocamlFrames) \/ OCaml!Sound(x)'
  BY <1>2, <1>4
<1>7. /\ named' \in 0..Len(code) /\ (named # 0 => named' # 0) /\ pc' \in Nat
      /\ control' \in {"ok", "hang", "crash", "exit"}
  BY <1>1
<1> QED BY <1>2, <1>3, <1>5, <1>6, <1>7, FramesStep

\* An interpreter or a call goes, down to a frame that is no interpreter, or one that pc
\* points into.
LEMMA PopStep ==
  ASSUME OCaml!OcamlInv, UNCHANGED <<context, functions, dirty, header, dll, code, table>>,
         UNCHANGED <<named, control>>, OCaml!Depth > 0, OCaml!Top.kind # "function",
         NEW n \in 0..Len(ocamlFrames), ocamlFrames' = SubSeq(ocamlFrames, 1, n),
         pc' \in Nat, pc' = pc \/ OCaml!Top.kind = "script",
         n > 0 => ocamlFrames[n].kind # "script" \/ pc' = n
  PROVE  OCaml!OcamlInv'
<1>1. /\ ocamlFrames \in Seq(OCaml!Frame) /\ OCaml!Stacked(ocamlFrames) /\ named \in 0..Len(code)
      /\ Len(ocamlFrames) \in Nat /\ Len(ocamlFrames) > 0 /\ n \in Nat
      /\ control \in {"ok", "hang", "crash", "exit"}
  BY DEF OCaml!OcamlInv, OCaml!OcamlTypeOK, OCaml!Depth
<1>2. PICK fs \in Seq(OCaml!Frame) :
         /\ fs = ocamlFrames /\ Len(fs) \in Nat /\ Len(fs) > 0 /\ n \in 0..Len(fs)
         /\ OCaml!PcInv(fs, pc) /\ OCaml!Top = fs[Len(fs)]
  BY <1>1 DEF OCaml!OcamlInv, OCaml!Top, OCaml!Last
<1>3. PICK g \in Seq(OCaml!Frame) :
         /\ g = SubSeq(fs, 1, n) /\ Len(g) = n /\ \A i \in 1..n : g[i] = fs[i]
         /\ OCaml!Range(g) \subseteq OCaml!Range(fs)
         /\ OCaml!Stacked(g)
  BY <1>1, <1>2, FramesCut
<1>4. OCaml!PcInv(g, pc')
  <2>1. SUFFICES ASSUME NEW i \in 1..n
                 PROVE  /\ (g[i].kind = "function" /\ ~g[i].nested) =>
                              pc' = i - 1 /\ \A j \in i + 1 .. n : g[j].kind = "call"
                        /\ (g[i].kind = "script" /\ ~g[i].derailed /\ i = n) => pc' = i
    BY <1>3 DEF OCaml!PcInv
  <2>2. i \in 1..Len(fs) /\ i <= Len(fs) /\ n > 0 /\ g[i] = fs[i]
    BY <1>2, <1>3
  <2>3. ASSUME fs[i].kind = "function", ~fs[i].nested
        PROVE  pc' = i - 1 /\ \A j \in i + 1 .. n : g[j].kind = "call"
    <3>1. pc = i - 1 /\ \A j \in i + 1 .. Len(fs) : fs[j].kind = "call"
      BY <1>2, <2>2, <2>3 DEF OCaml!PcInv
    <3>2. Len(fs) \in 1..Len(fs)
      BY <1>2
    <3>3. OCaml!Top.kind # "script"
      BY <1>2, <2>2, <2>3, <3>2, NestedUnder
    <3>4. \A j \in i + 1 .. n : j \in i + 1 .. Len(fs) /\ j \in 1..n
      BY <1>1, <1>2
    <3> QED BY <1>3, <3>1, <3>3, <3>4
  <2> QED BY <1>2, <2>2, <2>3
<1>5. /\ \A x \in OCaml!Range(g) : x \in OCaml!Range(ocamlFrames)
      /\ ocamlFrames' = g /\ named' \in 0..Len(code) /\ (named # 0 => named' # 0)
      /\ control' \in {"ok", "hang", "crash", "exit"}
  BY <1>1, <1>2, <1>3
<1> QED BY <1>3, <1>4, <1>5, FramesStep

\* Callback.register.
LEMMA RegisterNamedValueStep ==
  ASSUME OCaml!OcamlInv, OCaml!RegisterNamedValue
  PROVE  OCaml!OcamlInv'
<1>1. OCaml!Depth > 0 /\ OCaml!Top.kind = "script" /\ named' = OCaml!Top.code
      /\ UNCHANGED <<context, functions, dirty, header, dll, code, table>>
      /\ UNCHANGED <<ocamlFrames, pc, control>>
  BY DEF OCaml!RegisterNamedValue, OCaml!Executing, OCaml!Interpreting, OCaml!linking
<1>2. Len(code) \in Nat
  BY DEF OCaml!OcamlInv, OCaml!OcamlTypeOK
<1>3. OCaml!Top.code \in 1..Len(code)
  BY <1>1, TopFrame DEF OCaml!Sound
<1>4. named' \in 0..Len(code) /\ named' # 0
  BY <1>1, <1>2, <1>3
<1> QED BY <1>1, <1>4, FramesStay

\* Any operation that the backend does not support asserts, and an interpreter that has
\* lost its code crashes.
LEMMA UnsupportedStep ==
  ASSUME OCaml!OcamlInv, OCaml!Unsupported \/ OCaml!Derailed
  PROVE  OCaml!OcamlInv'
<1>1. PICK how \in {"hang", "crash", "exit"} :
         /\ OCaml!Stop(how) /\ UNCHANGED named
         /\ UNCHANGED <<context, functions, dirty, header, dll, code, table>>
  BY DEF OCaml!Unsupported, OCaml!Derailed, OCaml!linking
<1> QED BY <1>1, StopStep

\* C_CALL: the table is that of the script loaded last.
LEMMA CallPrimitiveStep ==
  ASSUME OCaml!OcamlInv, NEW n, NEW i \in 1..2, OCaml!CallPrimitive(n, i)
  PROVE  OCaml!OcamlInv'
<1>1. /\ OCaml!OcamlTypeOK /\ OCaml!TableInv
      /\ code \in Seq([names : Seq(Names), context : Nat]) /\ Len(code) \in Nat
      /\ table \in Seq(OCaml!Function \cup OCaml!Builtin) /\ named \in 0..Len(code)
  BY DEF OCaml!OcamlInv, OCaml!OcamlTypeOK
<1>2. /\ OCaml!Depth > 0 /\ OCaml!Top.kind = "script"
      /\ i \in DOMAIN code[OCaml!Top.code].names
      /\ pc = OCaml!Depth
      /\ UNCHANGED <<context, functions, dirty, header, dll, code, table>> /\ UNCHANGED named
  BY DEF OCaml!CallPrimitive, OCaml!Executing, OCaml!Interpreting, OCaml!linking
<1>3. PICK c \in 1..Len(code) : OCaml!Top.code = c
  BY <1>2, TopFrame DEF OCaml!Sound
<1>4. PICK sc \in [names : Seq(Names), context : Nat] : code[c] = sc
  <2>1. code[c] \in [names : Seq(Names), context : Nat]
    BY <1>1, ElementOfSeq
  <2> QED BY <2>1, Zenon
<1>5. CASE OCaml!Stop("crash")
  BY <1>2, <1>5, StopStep
<1>7. CASE UNCHANGED <<ocamlFrames, pc, control>>
  BY <1>1, <1>2, <1>7, FramesStay
<1>6. CASE /\ i \in DOMAIN table /\ table[i].context # 0 /\ UNCHANGED <<pc, control>>
           /\ OCaml!Push([kind |-> "function", code |-> OCaml!Top.code,
                          name |-> code[OCaml!Top.code].names[i],
                          function |-> table[i], current |-> OCaml!Top.code = Len(code),
                          left |-> table[i].arity, pushed |-> 0, nested |-> FALSE])
  <2>1. PICK fun \in OCaml!Function : table[i] = fun /\ fun.context # 0
    <3>1. table[i] \in OCaml!Function \cup OCaml!Builtin
      BY <1>1, <1>6, ElementOfSeq
    <3>2. table[i] \notin OCaml!Builtin
      BY <1>6 DEF OCaml!Builtin
    <3> QED BY <1>6, <3>1, <3>2, Zenon
  <2>2. PICK name \in Names : sc.names[i] = name
    <3>1. i \in DOMAIN sc.names /\ sc.names \in Seq(Names)
      BY <1>2, <1>3, <1>4
    <3> QED BY <3>1
  <2>3. PICK b \in BOOLEAN : b = (c = Len(code))
    OBVIOUS
  <2>4. fun.arity \in Nat
    BY OcamlAssumption DEF OCaml!Function
  <2> DEFINE f == [kind |-> "function", code |-> c, name |-> name, function |-> fun, current |-> b,
                   left |-> fun.arity, pushed |-> 0, nested |-> FALSE]
  <2>5. f \in OCaml!FunctionFrame
    <3>1. c \in Nat
      BY <1>1
    <3> QED BY <3>1, <2>4 DEF OCaml!FunctionFrame
  <2>6. OCaml!Push(f) /\ UNCHANGED control
    BY <1>3, <1>4, <1>6, <2>1, <2>2, <2>3
  <2>7. OCaml!Sound(f)
    <3>2. f.current => f.function.name = f.name /\ f.function.context = code[f.code].context
      <4>1. SUFFICES ASSUME c = Len(code)
                     PROVE  fun.name = name /\ fun.context = code[c].context
        BY <2>3
      <4>2. Len(code) > 0
        BY <1>1, <4>1
      <4>3. table[i].name = code[Len(code)].names[i] /\ table[i].context \in {0, code[Len(code)].context}
        BY <1>1, <1>6, <4>2 DEF OCaml!TableInv
      <4> QED BY <1>4, <2>1, <2>2, <4>1, <4>3
    <3>3. f.kind = "function" /\ f.code = c
      OBVIOUS
    <3> HIDE DEF f
    <3> QED BY <3>2, <3>3, <1>3 DEF OCaml!Sound
  <2>8. f.kind = "function" /\ f \in OCaml!Frame
    BY <2>5 DEF OCaml!Frame
  <2> HIDE DEF f
  <2> QED BY <1>2, <1>6, <2>6, <2>7, <2>8, PushStep
<1> QED BY <1>5, <1>6, <1>7 DEF OCaml!CallPrimitive

\* BeginCall.
LEMMA OcamlBeginCallStep ==
  ASSUME OCaml!OcamlInv, OCaml!BeginCall
  PROVE  OCaml!OcamlInv'
<1> DEFINE f == [kind |-> "call", args |-> 0, left |-> 0]
<1>1. f \in OCaml!Frame /\ f.kind = "call"
  BY DEF OCaml!Frame, OCaml!CallFrame
<1>2. OCaml!Sound(f)
  BY DEF OCaml!Sound, OCaml!BeginCall
<1>3. /\ OCaml!Push(f) /\ UNCHANGED <<context, functions, dirty, header, dll, code, table>>
      /\ UNCHANGED <<named, pc, control>> /\ (OCaml!Depth > 0 => OCaml!Top.kind # "script")
  BY DEF OCaml!BeginCall, OCaml!InCPP, OCaml!linking
<1> HIDE DEF f
<1> QED BY <1>1, <1>2, <1>3, PushStep

\* EndCall runs a closure that was registered.
LEMMA OcamlEndCallStep ==
  ASSUME OCaml!OcamlInv, OCaml!EndCall
  PROVE  OCaml!OcamlInv'
<1>1. /\ OCaml!Depth > 0 /\ OCaml!Top.kind = "call"
      /\ UNCHANGED <<context, functions, dirty, header, dll, code, table>> /\ UNCHANGED named
  BY DEF OCaml!EndCall, OCaml!InCall, OCaml!linking
<1>2. named # 0 /\ named \in 0..Len(code) /\ Len(code) \in Nat
  BY <1>1, TopFrame DEF OCaml!Sound, OCaml!OcamlInv, OCaml!OcamlTypeOK
<1>3. CASE OCaml!Top.args = 0
  BY <1>1, <1>3, StopStep DEF OCaml!EndCall
<1>4. CASE OCaml!Top.args # 0
  <2>1. OCaml!Start(named) /\ UNCHANGED control
    BY <1>4 DEF OCaml!EndCall
  <2>2. named \in 1..Len(code) /\ named \in Nat
    BY <1>2
  <2>3. PICK fs \in Seq(OCaml!Frame) :
           /\ fs = ocamlFrames /\ Len(fs) \in Nat /\ OCaml!Stacked(fs)
           /\ \A f \in OCaml!Range(fs) : OCaml!Sound(f)
           /\ Len(fs) > 0 => fs[Len(fs)].kind # "script"
    BY <1>1, TopFrame DEF OCaml!OcamlInv
  <2>4. PICK g \in Seq(OCaml!Frame) :
           /\ g = Append([i \in DOMAIN fs |-> OCaml!Marked(fs[i])],
                         [kind |-> "script", code |-> named, derailed |-> FALSE])
           /\ OCaml!Stacked(g) /\ OCaml!PcInv(g, Len(fs) + 1)
           /\ \A x \in OCaml!Range(g) : (x.kind = "script" /\ x.code = named) \/ OCaml!Sound(x)
    BY <2>2, <2>3, InterpreterStarted
  <2>5. ocamlFrames' = g /\ pc' = Len(fs) + 1
    BY <2>1, <2>3, <2>4 DEF OCaml!Start, OCaml!Depth
  <2>6. ASSUME NEW x \in OCaml!Range(g) PROVE OCaml!Sound(x)'
    <3>1. OCaml!Sound(x)
      BY <2>2, <2>4 DEF OCaml!Sound
    <3>2. x \in OCaml!Frame /\ Len(code) <= Len(code)
      BY <1>2 DEF OCaml!Range
    <3> QED BY <1>1, <1>2, <3>1, <3>2, SoundKept
  <2>7. /\ pc' \in Nat /\ control' \in {"ok", "hang", "crash", "exit"} /\ named' \in 0..Len(code)
        /\ (named # 0 => named' # 0) /\ OCaml!PcInv(g, pc')
    BY <1>1, <1>2, <2>1, <2>3, <2>4, <2>5 DEF OCaml!OcamlInv, OCaml!OcamlTypeOK
  <2> QED BY <1>1, <2>4, <2>5, <2>6, <2>7, FramesStep
<1> QED BY <1>3, <1>4

\* What a C++ function, or a call, does with its frame.
LEMMA OwnFrameStep ==
  ASSUME OCaml!OcamlInv,
         OCaml!PopParameter \/ OCaml!PushResult \/ OCaml!PushArgument \/ OCaml!PopResult
  PROVE  OCaml!OcamlInv'
<1>1. /\ OCaml!Depth > 0 /\ OCaml!Top.kind \in {"function", "call"}
      /\ UNCHANGED <<context, functions, dirty, header, dll, code, table>>
      /\ UNCHANGED <<named, pc, control>>
  BY DEF OCaml!PopParameter, OCaml!PushResult, OCaml!PushArgument, OCaml!PopResult,
         OCaml!InFunction, OCaml!InCall, OCaml!linking
<1>2. PICK f \in OCaml!Frame : f = OCaml!Top /\ OCaml!Sound(f)
  BY <1>1, TopFrame
<1>3. CASE OCaml!PopParameter
  <2>1. /\ f \in OCaml!FunctionFrame /\ f.left > 0 /\ f.kind = "function"
        /\ OCaml!Replace([f EXCEPT !.left = @ - 1])
    BY <1>2, <1>3, FrameKind DEF OCaml!PopParameter, OCaml!InFunction
  <2>2. PICK h \in OCaml!FunctionFrame :
           /\ h = [f EXCEPT !.left = @ - 1]
           /\ h.kind = "function" /\ h.code = f.code /\ h.name = f.name
           /\ h.function = f.function /\ h.current = f.current /\ h.nested = f.nested
    BY <2>1 DEF OCaml!FunctionFrame
  <2>3. OCaml!Sound(h)
    BY <1>2, <2>1, <2>2 DEF OCaml!Sound
  <2>4. /\ h \in OCaml!Frame /\ h.kind = OCaml!Top.kind /\ h.kind # "script"
        /\ h.kind = "function" => h.nested = OCaml!Top.nested
    BY <1>2, <2>1, <2>2 DEF OCaml!Frame
  <2> QED BY <1>1, <2>1, <2>2, <2>3, <2>4, ReplaceStep
<1>4. CASE OCaml!PushResult
  <2>1. f \in OCaml!FunctionFrame /\ f.kind = "function" /\ OCaml!Replace([f EXCEPT !.pushed = 1])
    BY <1>2, <1>4, FrameKind DEF OCaml!PushResult, OCaml!InFunction
  <2>2. PICK h \in OCaml!FunctionFrame :
           /\ h = [f EXCEPT !.pushed = 1]
           /\ h.kind = "function" /\ h.code = f.code /\ h.name = f.name
           /\ h.function = f.function /\ h.current = f.current /\ h.nested = f.nested
    BY <2>1 DEF OCaml!FunctionFrame
  <2>3. OCaml!Sound(h)
    BY <1>2, <2>1, <2>2 DEF OCaml!Sound
  <2>4. /\ h \in OCaml!Frame /\ h.kind = OCaml!Top.kind /\ h.kind # "script"
        /\ h.kind = "function" => h.nested = OCaml!Top.nested
    BY <1>2, <2>1, <2>2 DEF OCaml!Frame
  <2> QED BY <1>1, <2>1, <2>2, <2>3, <2>4, ReplaceStep
<1>5. CASE OCaml!PushArgument
  <2>1. f \in OCaml!CallFrame /\ f.kind = "call" /\ OCaml!Replace([f EXCEPT !.args = @ + 1])
    BY <1>2, <1>5, FrameKind DEF OCaml!PushArgument, OCaml!InCall
  <2>2. PICK h \in OCaml!CallFrame : h = [f EXCEPT !.args = @ + 1] /\ h.kind = "call"
    BY <2>1 DEF OCaml!CallFrame
  <2>3. OCaml!Sound(h)
    BY <1>2, <2>1, <2>2 DEF OCaml!Sound
  <2>4. /\ h \in OCaml!Frame /\ h.kind = OCaml!Top.kind /\ h.kind # "script"
        /\ h.kind = "function" => h.nested = OCaml!Top.nested
    BY <1>2, <2>1, <2>2 DEF OCaml!Frame
  <2> QED BY <1>1, <2>1, <2>2, <2>3, <2>4, ReplaceStep
<1>6. CASE OCaml!PopResult
  <2>1. /\ f \in OCaml!CallFrame /\ f.kind = "call" /\ f.left > 0
        /\ OCaml!Replace([f EXCEPT !.left = @ - 1])
    BY <1>2, <1>6, FrameKind DEF OCaml!PopResult, OCaml!InCall
  <2>2. PICK h \in OCaml!CallFrame : h = [f EXCEPT !.left = @ - 1] /\ h.kind = "call"
    BY <2>1 DEF OCaml!CallFrame
  <2>3. OCaml!Sound(h)
    BY <1>2, <2>1, <2>2 DEF OCaml!Sound
  <2>4. /\ h \in OCaml!Frame /\ h.kind = OCaml!Top.kind /\ h.kind # "script"
        /\ h.kind = "function" => h.nested = OCaml!Top.nested
    BY <1>2, <2>1, <2>2 DEF OCaml!Frame
  <2> QED BY <1>1, <2>1, <2>2, <2>3, <2>4, ReplaceStep
<1> QED BY <1>3, <1>4, <1>5, <1>6

\* The frame under an interpreter or a call is no interpreter.
LEMMA FrameBelow ==
  ASSUME OCaml!OcamlInv, OCaml!Depth > 0, OCaml!Top.kind # "function"
  PROVE  Len(ocamlFrames) - 1 > 0 => ocamlFrames[Len(ocamlFrames) - 1].kind # "script"
<1>1. Len(ocamlFrames) \in Nat /\ OCaml!Top = ocamlFrames[Len(ocamlFrames)]
  BY TopFrame
<1>2. Len(ocamlFrames) - 1 > 0 => Len(ocamlFrames) \in 1..Len(ocamlFrames) /\ Len(ocamlFrames) > 1
  BY <1>1
<1> QED BY <1>1, <1>2 DEF OCaml!OcamlInv, OCaml!Stacked

\* A call is released, a script fails.
LEMMA PopOneStep ==
  ASSUME OCaml!OcamlInv, OCaml!ReleaseAfterCall \/ OCaml!ScriptFails
  PROVE  OCaml!OcamlInv'
<1>1. /\ OCaml!Depth > 0 /\ OCaml!Pop /\ OCaml!Top.kind # "function"
      /\ UNCHANGED <<context, functions, dirty, header, dll, code, table>>
      /\ UNCHANGED <<named, pc, control>>
  BY DEF OCaml!ReleaseAfterCall, OCaml!ScriptFails,
         OCaml!InCall, OCaml!Executing, OCaml!Interpreting, OCaml!linking
<1>2. Len(ocamlFrames) \in Nat /\ Len(ocamlFrames) > 0
  BY <1>1, TopFrame
<1>3. Len(ocamlFrames) - 1 \in 0..Len(ocamlFrames)
  BY <1>2
<1>4. PICK n \in 0..Len(ocamlFrames) : n = Len(ocamlFrames) - 1
  BY <1>3, Zenon
<1>5. ocamlFrames' = SubSeq(ocamlFrames, 1, n) /\ pc' \in Nat /\ pc' = pc
  BY <1>1, <1>4 DEF OCaml!Pop, OCaml!Front, OCaml!OcamlInv, OCaml!OcamlTypeOK
<1>6. n > 0 => ocamlFrames[n].kind # "script"
  BY <1>1, <1>4, FrameBelow
<1> QED BY <1>1, <1>5, <1>6, PopStep

\* A C++ function returns to the script below it: pc is where the function left it.
LEMMA ReturnToScriptStep ==
  ASSUME OCaml!OcamlInv, OCaml!ReturnToScript
  PROVE  OCaml!OcamlInv'
<1>1. /\ OCaml!Depth > 0 /\ OCaml!Top.kind = "function"
      /\ UNCHANGED <<context, functions, dirty, header, dll, code, table>>
      /\ UNCHANGED <<named, pc, control>>
  BY DEF OCaml!ReturnToScript, OCaml!InFunction, OCaml!linking
<1>2. PICK fs \in Seq(OCaml!Frame) :
         /\ fs = ocamlFrames /\ Len(fs) \in Nat /\ Len(fs) > 0 /\ OCaml!Top = fs[Len(fs)]
         /\ OCaml!Depth = Len(fs) /\ OCaml!Stacked(fs) /\ OCaml!PcInv(fs, pc)
  BY <1>1, TopFrame DEF OCaml!OcamlInv
<1>3. Len(fs) \in 1..Len(fs) /\ fs[Len(fs)] \in OCaml!FunctionFrame
  BY <1>1, <1>2, FrameKind
<1>4. Len(fs) > 1 /\ fs[Len(fs) - 1].kind = "script"
  BY <1>1, <1>2, <1>3 DEF OCaml!Stacked
<1>5. PICK n \in 0..Len(fs), k \in 1..Len(fs) : n = Len(fs) - 2 /\ k = Len(fs) - 1
  <2>1. Len(fs) - 2 \in 0..Len(fs) /\ Len(fs) - 1 \in 1..Len(fs)
    BY <1>2, <1>4
  <2> QED BY <2>1, Zenon
<1>6. PICK h \in OCaml!ScriptFrame :
         /\ h = [fs[k] EXCEPT !.derailed = fs[Len(fs)].nested] /\ h.kind = "script"
         /\ h.code = fs[k].code /\ h.derailed = fs[Len(fs)].nested
  <2>1. fs[k] \in OCaml!ScriptFrame
    BY <1>4, <1>5, FrameKind
  <2>2. fs[Len(fs)].nested \in BOOLEAN
    BY <1>3 DEF OCaml!FunctionFrame
  <2>3. PICK b \in BOOLEAN : b = fs[Len(fs)].nested
    BY <2>2, Zenon
  <2>4. PICK h \in OCaml!ScriptFrame : h = [fs[k] EXCEPT !.derailed = b]
    <3>1. [fs[k] EXCEPT !.derailed = b] \in OCaml!ScriptFrame
      BY <2>1 DEF OCaml!ScriptFrame
    <3> QED BY <3>1, Zenon
  <2>5. h.kind = "script" /\ h.code = fs[k].code /\ h.derailed = b
    BY <2>1, <2>4 DEF OCaml!ScriptFrame
  <2> QED BY <2>3, <2>4, <2>5, Zenon
<1>7. h \in OCaml!Frame
  BY <1>6 DEF OCaml!Frame
<1>8. PICK cut \in Seq(OCaml!Frame) :
         /\ cut = SubSeq(fs, 1, n) /\ Len(cut) = n /\ \A i \in 1..n : cut[i] = fs[i]
         /\ OCaml!Range(cut) \subseteq OCaml!Range(fs) /\ OCaml!Stacked(cut)
  BY <1>2, FramesCut
<1>9. Len(cut) > 0 => cut[Len(cut)].kind # "script"
  <2>1. n > 0 => k > 1 /\ k - 1 = n /\ n \in 1..n
    BY <1>2, <1>5
  <2>2. n > 0 => fs[n].kind # "script"
    BY <1>2, <1>4, <1>5, <2>1 DEF OCaml!Stacked
  <2> QED BY <1>8, <2>1, <2>2
<1>10. PICK g \in Seq(OCaml!Frame) :
         /\ g = Append(cut, h) /\ Len(g) = n + 1 /\ g[Len(g)] = h /\ OCaml!Stacked(g)
         /\ \A i \in 1..n : g[i] = cut[i]
         /\ OCaml!Range(g) \subseteq OCaml!Range(cut) \cup {h}
  <2>1. IF h.kind = "function" THEN Len(cut) > 0 /\ cut[Len(cut)].kind = "script"
        ELSE Len(cut) > 0 => cut[Len(cut)].kind # "script"
    BY <1>6, <1>9
  <2>2. /\ Append(cut, h) \in Seq(OCaml!Frame) /\ Len(Append(cut, h)) = Len(cut) + 1
        /\ Append(cut, h)[Len(Append(cut, h))] = h
        /\ \A i \in 1..Len(cut) : Append(cut, h)[i] = cut[i]
        /\ OCaml!Range(Append(cut, h)) \subseteq OCaml!Range(cut) \cup {h}
        /\ OCaml!Stacked(Append(cut, h))
    BY <1>7, <1>8, <2>1, FramePushed
  <2> QED BY <1>8, <2>2
<1>11. ocamlFrames' = g
  <2>1. ocamlFrames' = Append(SubSeq(fs, 1, Len(fs) - 2),
                              [fs[Len(fs) - 1] EXCEPT !.derailed = fs[Len(fs)].nested])
    BY <1>2 DEF OCaml!ReturnToScript
  <2> QED BY <1>5, <1>6, <1>8, <1>10, <2>1
<1>12. OCaml!PcInv(g, pc')
  <2>1. n \in Nat /\ n + 1 = k /\ Len(g) = k /\ k <= k
    BY <1>2, <1>5, <1>10
  <2>2. SUFFICES ASSUME NEW i \in 1..Len(g)
                 PROVE  /\ g[i].kind = "function" => g[i].nested
                        /\ (g[i].kind = "script" /\ ~g[i].derailed /\ i = Len(g)) => pc = i
    BY <1>1 DEF OCaml!PcInv
  <2>3. CASE i = k
    <3>1. ~fs[Len(fs)].nested => pc = Len(fs) - 1
      BY <1>1, <1>2, <1>3 DEF OCaml!PcInv
    <3> QED BY <1>5, <1>6, <1>10, <2>1, <2>3, <3>1
  <2>4. CASE i # k
    <3>1. i \in 1..n /\ i \in 1..Len(fs) /\ i <= k
      BY <1>2, <1>5, <2>1, <2>4
    <3>2. g[i] = fs[i] /\ i # Len(g)
      BY <1>8, <1>10, <2>1, <2>4, <3>1
    <3>3. fs[i].kind = "function" => fs[i].nested
      BY <1>2, <1>4, <1>5, <3>1, NestedUnder
    <3> QED BY <3>2, <3>3
  <2> QED BY <2>3, <2>4
<1>13. OCaml!Sound(h)'
  <2>1. fs[k] \in OCaml!Range(ocamlFrames) /\ fs[k].kind = "script"
    BY <1>2, <1>4, <1>5 DEF OCaml!Range
  <2>2. fs[k].code \in 1..Len(code)
    BY <2>1 DEF OCaml!OcamlInv, OCaml!Sound
  <2> QED BY <1>1, <1>6, <2>2 DEF OCaml!Sound
<1>14. /\ \A x \in OCaml!Range(g) : x \in OCaml!Range(ocamlFrames) \/ OCaml!Sound(x)'
       /\ named' \in 0..Len(code) /\ (named # 0 => named' # 0)
       /\ pc' \in Nat /\ control' \in {"ok", "hang", "crash", "exit"}
  BY <1>1, <1>2, <1>8, <1>10, <1>13 DEF OCaml!OcamlInv, OCaml!OcamlTypeOK
<1> QED BY <1>1, <1>10, <1>11, <1>12, <1>14, FramesStep

\* A script returns to the C++ code that started it.
LEMMA OcamlScriptReturnsStep ==
  ASSUME OCaml!OcamlInv, OCaml!ScriptReturns
  PROVE  OCaml!OcamlInv'
<1>1. /\ OCaml!Depth > 0 /\ OCaml!Top.kind = "script" /\ control = "ok"
      /\ UNCHANGED <<context, functions, dirty, header, dll, code, table>>
      /\ UNCHANGED <<named, pc, control>>
  BY DEF OCaml!ScriptReturns, OCaml!Executing, OCaml!Interpreting, OCaml!linking
<1>2. PICK fs \in Seq(OCaml!Frame) : fs = ocamlFrames /\ Len(fs) \in Nat /\ Len(fs) > 0
  BY <1>1, TopFrame
<1>3. OCaml!Depth = Len(fs) /\ OCaml!Stacked(fs) /\ pc' \in Nat /\ named' \in 0..Len(code)
      /\ Len(code) \in Nat
  BY <1>1, <1>2 DEF OCaml!Depth, OCaml!OcamlInv, OCaml!OcamlTypeOK
<1>4. CASE Len(fs) > 1 /\ fs[Len(fs) - 1].kind = "call"
  <2>1. PICK n \in 0..Len(fs) : n = Len(fs) - 2
    <3>1. Len(fs) - 2 \in 0..Len(fs)
      BY <1>2, <1>4
    <3> QED BY <3>1, Zenon
  <2>2. PICK f \in OCaml!Frame : f = fs[n + 1] /\ f.kind = "call" /\ OCaml!Sound(f)
    <3>1. n + 1 = Len(fs) - 1 /\ n + 1 \in 1..Len(fs) /\ n + 1 \in DOMAIN fs
      BY <1>2, <1>4, <2>1
    <3>2. fs[n + 1] \in OCaml!Frame /\ fs[n + 1] \in OCaml!Range(fs)
      BY <3>1 DEF OCaml!Range
    <3> QED BY <1>2, <1>4, <3>1, <3>2 DEF OCaml!OcamlInv
  <2>3. PICK h \in OCaml!CallFrame : h = [f EXCEPT !.left = 1] /\ h.kind = "call"
    <3>1. f \in OCaml!CallFrame
      BY <2>2, FrameKind
    <3>2. [f EXCEPT !.left = 1] \in OCaml!CallFrame /\ [f EXCEPT !.left = 1].kind = "call"
      BY <3>1 DEF OCaml!CallFrame
    <3> QED BY <3>2, Zenon
  <2>4. h \in OCaml!Frame
    BY <2>3 DEF OCaml!Frame
  <2>5. PICK cut \in Seq(OCaml!Frame) :
           /\ cut = SubSeq(fs, 1, n) /\ Len(cut) = n /\ \A i \in 1..n : cut[i] = fs[i]
           /\ OCaml!Range(cut) \subseteq OCaml!Range(fs) /\ OCaml!Stacked(cut)
    BY <1>3, FramesCut
  <2>6. Len(cut) > 0 => cut[Len(cut)].kind # "script"
    <3>1. n > 0 => n + 1 \in 1..Len(fs) /\ n + 1 > 1 /\ n + 1 - 1 = n /\ n \in 1..n
      BY <1>2, <2>1
    <3>2. n > 0 => fs[n].kind # "script"
      <4>1. fs[n + 1].kind # "function"
        BY <2>2
      <4>2. n > 0 => (fs[n + 1].kind # "function" => fs[n + 1 - 1].kind # "script")
        BY <1>3, <3>1 DEF OCaml!Stacked
      <4> QED BY <3>1, <4>1, <4>2
    <3> QED BY <2>5, <3>1, <3>2
  <2>7. PICK g \in Seq(OCaml!Frame) :
           /\ g = Append(cut, h) /\ Len(g) = n + 1 /\ g[Len(g)] = h /\ OCaml!Stacked(g)
           /\ \A i \in 1..n : g[i] = cut[i]
           /\ OCaml!Range(g) \subseteq OCaml!Range(cut) \cup {h}
    <3>1. PICK x \in OCaml!Frame : x = h /\ x.kind = "call"
      BY <2>3, <2>4
    <3>2. IF x.kind = "function" THEN Len(cut) > 0 /\ cut[Len(cut)].kind = "script"
          ELSE Len(cut) > 0 => cut[Len(cut)].kind # "script"
      BY <2>6, <3>1
    <3>3. /\ Append(cut, x) \in Seq(OCaml!Frame) /\ Len(Append(cut, x)) = Len(cut) + 1
          /\ Append(cut, x)[Len(Append(cut, x))] = x
          /\ \A i \in 1..Len(cut) : Append(cut, x)[i] = cut[i]
          /\ OCaml!Range(Append(cut, x)) \subseteq OCaml!Range(cut) \cup {x}
          /\ OCaml!Stacked(Append(cut, x))
      BY <2>5, <3>2, FramePushed
    <3> QED BY <2>5, <3>1, <3>3
  <2>8. ocamlFrames' = g
    <3>1. n + 1 = Len(fs) - 1
      BY <1>2, <2>1
    <3>2. ocamlFrames' = Append(SubSeq(fs, 1, Len(fs) - 2), [fs[Len(fs) - 1] EXCEPT !.left = 1])
      BY <1>2, <1>3, <1>4 DEF OCaml!ScriptReturns
    <3>3. Append(SubSeq(fs, 1, Len(fs) - 2), [fs[Len(fs) - 1] EXCEPT !.left = 1]) = Append(cut, h)
      BY <2>1, <2>2, <2>3, <2>5, <3>1
    <3> QED BY <2>7, <3>2, <3>3
  <2>9. OCaml!Sound(h)'
    BY <1>1, <2>2, <2>3 DEF OCaml!Sound
  <2>10. OCaml!PcInv(g, pc')
    <3>1. OCaml!PcInv(fs, pc) /\ fs[Len(fs)].kind = "script" /\ Len(fs) \in 1..Len(fs)
      BY <1>1, <1>2, TopFrame DEF OCaml!OcamlInv
    <3>2. \A i \in 1..Len(fs) : i <= Len(fs) /\ fs[i].kind = "function" => fs[i].nested
      BY <3>1, NestedUnder
    <3>3. SUFFICES ASSUME NEW i \in 1..Len(g)
                   PROVE  /\ g[i].kind = "function" => g[i].nested
                          /\ i = Len(g) => g[i].kind # "script"
      BY DEF OCaml!PcInv
    <3>4. i = Len(g) \/ (i \in 1..n /\ i \in 1..Len(fs) /\ i <= Len(fs) /\ i # Len(g))
      BY <1>2, <2>1, <2>7
    <3> QED BY <2>3, <2>5, <2>7, <3>2, <3>4
  <2>11. \A x \in OCaml!Range(g) : x \in OCaml!Range(ocamlFrames) \/ OCaml!Sound(x)'
    BY <1>2, <2>5, <2>7, <2>9
  <2>12. named' \in 0..Len(code) /\ control' \in {"ok", "hang", "crash", "exit"}
    BY <1>1, <1>3
  <2> QED BY <1>1, <1>3, <2>7, <2>8, <2>10, <2>11, <2>12, FramesStep
<1>5. CASE ~(Len(fs) > 1 /\ fs[Len(fs) - 1].kind = "call")
  <2>1. PICK n \in 0..Len(fs) : n = Len(fs) - 1
    <3>1. Len(fs) - 1 \in 0..Len(fs)
      BY <1>2
    <3> QED BY <3>1, Zenon
  <2>2. ocamlFrames' = SubSeq(ocamlFrames, 1, n)
    BY <1>2, <1>3, <1>5, <2>1 DEF OCaml!ScriptReturns, OCaml!Front
  <2>3. n > 0 => ocamlFrames[n].kind # "script"
    BY <1>1, <1>2, <2>1, FrameBelow
  <2>4. n \in 0..Len(ocamlFrames)
    BY <1>2
  <2> QED BY <1>1, <1>3, <2>2, <2>3, <2>4, PopStep
<1> QED BY <1>4, <1>5

\* An exception ends in the innermost interpreter below the call.
LEMMA CallbackRaisesStep ==
  ASSUME OCaml!OcamlInv, OCaml!CallbackRaises
  PROVE  OCaml!OcamlInv'
<1>1. /\ OCaml!Depth > 0 /\ OCaml!Top.kind = "script"
      /\ UNCHANGED <<context, functions, dirty, header, dll, code, table>> /\ UNCHANGED named
  BY DEF OCaml!CallbackRaises, OCaml!Executing, OCaml!Interpreting, OCaml!linking
<1>2. Len(ocamlFrames) \in Nat /\ OCaml!Depth = Len(ocamlFrames) /\ named \in 0..Len(code)
  BY <1>1, TopFrame DEF OCaml!OcamlInv, OCaml!OcamlTypeOK
<1>3. CASE OCaml!Outer = {}
  BY <1>1, <1>3, StopStep DEF OCaml!CallbackRaises
<1>4. CASE OCaml!Outer # {}
  <2>1. PICK S : S = OCaml!Outer
    OBVIOUS
  <2>2. S \in SUBSET (1..Len(ocamlFrames)) /\ S # {}
    BY <1>2, <1>4, <2>1 DEF OCaml!Outer
  <2>3. OCaml!Max(S) \in 1..Len(ocamlFrames)
    BY <1>2, <2>2, GreatestIndex
  <2>4. PICK n \in 0..Len(ocamlFrames) : n = OCaml!Max(OCaml!Outer)
    BY <1>2, <2>1, <2>3
  <2>5. ocamlFrames' = SubSeq(ocamlFrames, 1, n) /\ pc' = n /\ UNCHANGED control
    BY <1>4, <2>4 DEF OCaml!CallbackRaises
  <2>6. pc' \in Nat
    BY <1>2, <2>5
  <2> QED BY <1>1, <2>5, <2>6, PopStep
<1> QED BY <1>3, <1>4

\* A context is created, a function is registered, the DLL is built, ExecuteString fails:
\* no script is loaded, and the frames stay as they are.
LEMMA LinkingStep ==
  ASSUME OCaml!OcamlInv, UNCHANGED <<code, table, named>>,
         UNCHANGED <<ocamlFrames, pc, control>> \/ OCaml!Stop("hang"),
         context' \in Nat, functions' \in Seq(OCaml!Function), OCaml!FunctionsInv',
         dirty' \in BOOLEAN, header' \subseteq Names, dll' \subseteq SUBSET Names
  PROVE  OCaml!OcamlInv'
<1>1. PICK g \in Seq(OCaml!Frame) :
         /\ ocamlFrames' = g /\ OCaml!Stacked(g) /\ OCaml!PcInv(g, pc')
         /\ OCaml!Range(g) \subseteq OCaml!Range(ocamlFrames)
         /\ pc' \in Nat /\ control' \in {"ok", "hang", "crash", "exit"}
  <2>1. CASE UNCHANGED <<ocamlFrames, pc, control>>
    BY <2>1 DEF OCaml!OcamlInv, OCaml!OcamlTypeOK
  <2>2. CASE OCaml!Stop("hang")
    BY <2>2, NoFrames DEF OCaml!Stop
  <2> QED BY <2>1, <2>2
<1>2. OCaml!OcamlTypeOK'
  BY <1>1 DEF OCaml!OcamlInv, OCaml!OcamlTypeOK
<1>3. OCaml!TableInv'
  BY DEF OCaml!OcamlInv, OCaml!TableInv
<1>4. (\A f \in OCaml!Range(ocamlFrames) : OCaml!Sound(f))'
  <2>1. SUFFICES ASSUME NEW f \in OCaml!Range(g) PROVE OCaml!Sound(f)'
    BY <1>1
  <2>2. f \in OCaml!Range(ocamlFrames)
    BY <1>1, <2>1
  <2> QED BY <2>2 DEF OCaml!OcamlInv, OCaml!Sound
<1>5. OCaml!Stacked(ocamlFrames)' /\ OCaml!PcInv(ocamlFrames, pc)'
  BY <1>1 DEF OCaml!Stacked, OCaml!PcInv
<1> QED BY <1>2, <1>3, <1>4, <1>5 DEF OCaml!OcamlInv

\* The header declares names.
LEMMA HeaderNames ==
  ASSUME OCaml!OcamlInv
  PROVE  OCaml!RebuiltHeader \subseteq Names
<1>1. functions \in Seq(OCaml!Function) /\ header \subseteq Names
  BY DEF OCaml!OcamlInv, OCaml!OcamlTypeOK
<1>2. \A i \in DOMAIN functions : functions[i] \in OCaml!Function
  BY <1>1
<1>3. \A i \in DOMAIN functions : functions[i].name \in Names
  BY <1>2 DEF OCaml!Function
<1> QED BY <1>1, <1>3 DEF OCaml!RebuiltHeader

\* Those steps one by one.
LEMMA LinkingSteps ==
  ASSUME OCaml!OcamlInv,
         \/ OCaml!CreateContext \/ OCaml!BuildDLL \/ OCaml!ExecuteStringFails
         \/ \E f \in OCaml!Function : OCaml!RegisterFunction(f)
         \/ \E s \in OCaml!Scripts : OCaml!ExecuteStringUnknown(s)
  PROVE  OCaml!OcamlInv'
<1>1. /\ context \in Nat /\ functions \in Seq(OCaml!Function) /\ OCaml!FunctionsInv
      /\ dirty \in BOOLEAN /\ header \subseteq Names /\ dll \subseteq SUBSET Names
  BY DEF OCaml!OcamlInv, OCaml!OcamlTypeOK
<1>2. CASE OCaml!CreateContext
  <2>1. /\ functions' = <<>> /\ dirty' = TRUE /\ context' = context + 1
        /\ UNCHANGED <<header, dll, code, table, named, ocamlFrames, pc, control>>
    BY <1>2 DEF OCaml!CreateContext
  <2>2. functions' \in Seq(OCaml!Function) /\ OCaml!FunctionsInv' /\ context' \in Nat
    BY <1>1, <2>1 DEF OCaml!FunctionsInv
  <2> QED BY <1>1, <2>1, <2>2, LinkingStep
<1>3. CASE OCaml!BuildDLL
  <2>1. /\ dll' = {header}
        /\ UNCHANGED <<context, functions, dirty, header, code, table, named, ocamlFrames, pc, control>>
    BY <1>3 DEF OCaml!BuildDLL
  <2>2. OCaml!FunctionsInv' /\ dll' \subseteq SUBSET Names
    BY <1>1, <2>1 DEF OCaml!FunctionsInv
  <2> QED BY <1>1, <2>1, <2>2, LinkingStep
<1>4. CASE OCaml!ExecuteStringFails \/ \E s \in OCaml!Scripts : OCaml!ExecuteStringUnknown(s)
  <2>1. /\ header' = OCaml!RebuiltHeader /\ dirty' = FALSE
        /\ UNCHANGED <<ocamlFrames, pc, control>> \/ OCaml!Stop("hang")
        /\ UNCHANGED <<context, functions, dll, code, table, named>>
    BY <1>4 DEF OCaml!ExecuteStringFails, OCaml!ExecuteStringUnknown
  <2>2. OCaml!FunctionsInv' /\ header' \subseteq Names
    BY <1>1, <2>1, HeaderNames DEF OCaml!FunctionsInv
  <2> QED BY <1>1, <2>1, <2>2, LinkingStep
<1>5. CASE \E f \in OCaml!Function : OCaml!RegisterFunction(f)
  <2>1. PICK f \in OCaml!Function : OCaml!RegisterFunction(f)
    BY <1>5
  <2>2. /\ functions' = Append(functions, f) /\ dirty' = TRUE /\ f.context = context
        /\ UNCHANGED <<context, header, dll, code, table, named, ocamlFrames, pc, control>>
    BY <2>1 DEF OCaml!RegisterFunction
  <2>3. PICK fs \in Seq(OCaml!Function) : fs = functions
    BY <1>1
  <2>4. PICK gs \in Seq(OCaml!Function) :
           /\ gs = Append(fs, f) /\ DOMAIN gs = 1 .. Len(fs) + 1 /\ gs[Len(fs) + 1] = f
           /\ \A i \in 1..Len(fs) : gs[i] = fs[i]
    <3>1. /\ Append(fs, f) \in Seq(OCaml!Function) /\ DOMAIN Append(fs, f) = 1 .. Len(fs) + 1
          /\ Append(fs, f)[Len(fs) + 1] = f /\ \A i \in 1..Len(fs) : Append(fs, f)[i] = fs[i]
      BY AppendSlots
    <3> QED BY <3>1, Zenon
  <2>5. OCaml!FunctionsInv'
    <3>1. \A i \in DOMAIN gs : i = Len(fs) + 1 \/ i \in 1..Len(fs)
      BY <2>4
    <3>2. \A i \in 1..Len(fs) : fs[i].context = context
      BY <1>1, <2>3 DEF OCaml!FunctionsInv
    <3>3. \A i \in DOMAIN gs : gs[i].context = context
      BY <2>2, <2>4, <3>1, <3>2
    <3> QED BY <2>2, <2>3, <2>4, <3>3 DEF OCaml!FunctionsInv
  <2> QED BY <1>1, <2>2, <2>3, <2>4, <2>5, LinkingStep
<1> QED BY <1>2, <1>3, <1>4, <1>5

\* A script names C++ functions.
LEMMA ScriptNames ==
  ASSUME NEW s \in OCaml!Scripts
  PROVE  s \in Seq(Names)
<1>1. PICK m \in 0..2 : s \in [1..m -> Names]
  BY DEF OCaml!Scripts, OCaml!SeqOf
<1> QED BY <1>1

\* lookup_primitive finds a primitive of the runtime, or a function of the name that is
\* registered in the present context.
LEMMA LookupFinds ==
  ASSUME OCaml!OcamlInv, NEW name, name \in Builtins \/ OCaml!Registered(name) # {}
  PROVE  /\ OCaml!LookupPrimitive(name) \in OCaml!Function \cup OCaml!Builtin
         /\ OCaml!LookupPrimitive(name).name = name
         /\ OCaml!LookupPrimitive(name).context \in {0, context}
<1>0. CASE name \in Builtins
  BY <1>0 DEF OCaml!LookupPrimitive, OCaml!Builtin
<1> SUFFICES ASSUME name \notin Builtins, OCaml!Registered(name) # {}
             PROVE  /\ OCaml!LookupPrimitive(name) \in OCaml!Function
                    /\ OCaml!LookupPrimitive(name).name = name
                    /\ OCaml!LookupPrimitive(name).context = context
  BY <1>0
<1>1. functions \in Seq(OCaml!Function) /\ OCaml!FunctionsInv
  BY DEF OCaml!OcamlInv, OCaml!OcamlTypeOK
<1>2. PICK S : S = OCaml!Registered(name)
  OBVIOUS
<1>3. S \in SUBSET Nat /\ S # {} /\ \A i \in S : i \in DOMAIN functions /\ functions[i].name = name
  <2>1. DOMAIN functions \subseteq Nat
    BY <1>1
  <2> QED BY <1>2, <2>1 DEF OCaml!Registered
<1>4. OCaml!Min(S) \in S
  BY <1>3, LeastIndex
<1>5. PICK i \in DOMAIN functions : OCaml!LookupPrimitive(name) = functions[i] /\ functions[i].name = name
  BY <1>2, <1>3, <1>4 DEF OCaml!LookupPrimitive
<1>6. functions[i] \in OCaml!Function
  BY <1>1
<1> QED BY <1>1, <1>5, <1>6 DEF OCaml!FunctionsInv

\* A script is loaded and starts.
LEMMA OcamlExecuteStringStep ==
  ASSUME OCaml!OcamlInv, NEW s \in OCaml!Scripts, OCaml!ExecuteString(s)
  PROVE  OCaml!OcamlInv'
<1>1. /\ context \in Nat /\ code \in Seq([names : Seq(Names), context : Nat]) /\ Len(code) \in Nat
      /\ ocamlFrames \in Seq(OCaml!Frame) /\ Len(ocamlFrames) \in Nat
      /\ OCaml!Stacked(ocamlFrames) /\ named \in 0..Len(code)
  BY DEF OCaml!OcamlInv, OCaml!OcamlTypeOK
<1>2. s \in Seq(Names) /\ Len(s) \in Nat /\ DOMAIN s = 1..Len(s)
  BY ScriptNames
<1>3. PICK sc \in [names : Seq(Names), context : Nat] :
         sc = [names |-> s, context |-> context] /\ sc.names = s /\ sc.context = context
  <2>1. [names |-> s, context |-> context] \in [names : Seq(Names), context : Nat]
    BY <1>1, <1>2
  <2> QED BY <2>1
<1>4. PICK cs \in Seq([names : Seq(Names), context : Nat]) :
         /\ cs = Append(code, sc) /\ Len(cs) = Len(code) + 1 /\ cs[Len(code) + 1] = sc
         /\ \A i \in 1..Len(code) : cs[i] = code[i]
  <2>1. /\ Append(code, sc) \in Seq([names : Seq(Names), context : Nat])
        /\ Len(Append(code, sc)) = Len(code) + 1 /\ Append(code, sc)[Len(code) + 1] = sc
        /\ \A i \in 1..Len(code) : Append(code, sc)[i] = code[i]
    BY <1>1, AppendSlots
  <2> QED BY <2>1, Zenon
<1>5. PICK c \in Nat : c = Len(code) + 1
  BY <1>1
<1>6. PICK fs \in Seq(OCaml!Frame), g \in Seq(OCaml!Frame) :
         /\ fs = ocamlFrames
         /\ g = Append([i \in DOMAIN fs |-> OCaml!Marked(fs[i])],
                       [kind |-> "script", code |-> c, derailed |-> FALSE])
         /\ OCaml!Stacked(g) /\ OCaml!PcInv(g, Len(fs) + 1)
         /\ \A x \in OCaml!Range(g) : (x.kind = "script" /\ x.code = c) \/ OCaml!Sound(x)
  <2>1. Len(ocamlFrames) > 0 => ocamlFrames[Len(ocamlFrames)].kind # "script"
    BY DEF OCaml!ExecuteString, OCaml!InCPP, OCaml!Depth, OCaml!Top, OCaml!Last
  <2>2. \A f \in OCaml!Range(ocamlFrames) : OCaml!Sound(f)
    BY DEF OCaml!OcamlInv
  <2>3. LET g == Append([i \in DOMAIN ocamlFrames |-> OCaml!Marked(ocamlFrames[i])],
                        [kind |-> "script", code |-> c, derailed |-> FALSE])
        IN  /\ g \in Seq(OCaml!Frame) /\ OCaml!Stacked(g) /\ OCaml!PcInv(g, Len(ocamlFrames) + 1)
            /\ \A x \in OCaml!Range(g) : (x.kind = "script" /\ x.code = c) \/ OCaml!Sound(x)
    BY <1>1, <1>5, <2>1, <2>2, InterpreterStarted
  <2> QED BY <1>1, <2>3, Zenon
<1>7. /\ code' = cs /\ ocamlFrames' = g /\ pc' = Len(fs) + 1
      /\ header' = OCaml!RebuiltHeader /\ dirty' = FALSE
      /\ table' = [i \in DOMAIN s |-> OCaml!LookupPrimitive(s[i])]
      /\ UNCHANGED <<context, functions, dll, named, control>>
  BY <1>3, <1>4, <1>5, <1>6 DEF OCaml!ExecuteString, OCaml!Start, OCaml!Depth
<1>8. PICK t \in Seq(OCaml!Function \cup OCaml!Builtin) :
         /\ table' = t /\ Len(t) = Len(s) /\ DOMAIN t = 1..Len(s)
         /\ \A i \in 1..Len(s) : t[i].name = s[i] /\ t[i].context \in {0, context}
  <2>1. ASSUME NEW i \in 1..Len(s)
        PROVE  /\ OCaml!LookupPrimitive(s[i]) \in OCaml!Function \cup OCaml!Builtin
               /\ OCaml!LookupPrimitive(s[i]).name = s[i]
               /\ OCaml!LookupPrimitive(s[i]).context \in {0, context}
    <3>1. s[i] \in OCaml!Range(s)
      BY <1>2 DEF OCaml!Range
    <3>2. s[i] \in Builtins \/ OCaml!Registered(s[i]) # {}
      BY <3>1 DEF OCaml!ExecuteString
    <3> QED BY <3>2, LookupFinds
  <2>2. /\ table' \in [1..Len(s) -> OCaml!Function \cup OCaml!Builtin]
        /\ \A i \in 1..Len(s) : table'[i].name = s[i] /\ table'[i].context \in {0, context}
    BY <1>2, <1>7, <2>1
  <2>3. table' \in Seq(OCaml!Function \cup OCaml!Builtin) /\ Len(table') = Len(s) /\ DOMAIN table' = 1..Len(s)
    <3>1. PICK h \in [1 .. Len(s) -> OCaml!Function \cup OCaml!Builtin] : h = table'
      BY <2>2
    <3> QED BY <1>2, <3>1, IntervalSeq
  <2> QED BY <2>2, <2>3
<1>9. OCaml!OcamlTypeOK'
  <2>1. header' \subseteq Names
    BY <1>7, HeaderNames
  <2>2. named' \in 0..Len(cs) /\ pc' \in Nat
    BY <1>1, <1>4, <1>6, <1>7
  <2>3. /\ context' \in Nat /\ functions' \in Seq(OCaml!Function) /\ dll' \subseteq SUBSET Names
        /\ control' \in {"ok", "hang", "crash", "exit"}
    BY <1>7 DEF OCaml!OcamlInv, OCaml!OcamlTypeOK
  <2>4. /\ code' \in Seq([names : Seq(Names), context : Nat])
        /\ table' \in Seq(OCaml!Function \cup OCaml!Builtin)
        /\ ocamlFrames' \in Seq(OCaml!Frame) /\ dirty' \in BOOLEAN /\ named' \in 0..Len(code')
    BY <1>7, <1>8, <2>2
  <2> QED BY <2>1, <2>2, <2>3, <2>4 DEF OCaml!OcamlTypeOK
<1>10. OCaml!FunctionsInv' /\ OCaml!TableInv'
  BY <1>1, <1>3, <1>4, <1>7, <1>8 DEF OCaml!OcamlInv, OCaml!FunctionsInv, OCaml!TableInv
<1>11. ASSUME NEW x \in OCaml!Range(g) PROVE OCaml!Sound(x)'
  <2>1. CASE x.kind = "script" /\ x.code = c
    <3>1. c \in 1..Len(cs)
      BY <1>1, <1>4, <1>5
    <3> QED BY <1>7, <2>1, <3>1 DEF OCaml!Sound
  <2>2. CASE OCaml!Sound(x)
    <3>1. x \in OCaml!Frame
      BY DEF OCaml!Range
    <3>2. Len(code') \in Nat /\ Len(code) <= Len(code') /\ \A i \in 1..Len(code) : code'[i] = code[i]
      BY <1>1, <1>4, <1>7
    <3> QED BY <1>1, <1>7, <2>2, <3>1, <3>2, SoundKept
  <2> QED BY <1>6, <2>1, <2>2
<1>12. OCaml!PcInv(ocamlFrames, pc)' /\ OCaml!Stacked(ocamlFrames)'
  <2>1. PICK p : p = Len(fs) + 1 /\ OCaml!PcInv(g, p) /\ pc' = p
    BY <1>6, <1>7
  <2>2. OCaml!PcInv(ocamlFrames, pc)'
    BY <1>7, <2>1 DEF OCaml!PcInv
  <2>3. OCaml!Stacked(ocamlFrames)'
    BY <1>6, <1>7 DEF OCaml!Stacked
  <2> QED BY <2>2, <2>3
<1>13. (\A x \in OCaml!Range(ocamlFrames) : OCaml!Sound(x))'
  BY <1>7, <1>11
<1> QED BY <1>9, <1>10, <1>12, <1>13 DEF OCaml!OcamlInv

-----------------------------------------------------------------------------
(* OCaml: the theorems *)

\* The invariant holds before the first context is created.
LEMMA OcamlInitially ==
  ASSUME OCaml!OInit
  PROVE  OCaml!OcamlInv
<1>1. /\ context = 0 /\ functions = <<>> /\ dirty = TRUE /\ header = {} /\ dll = {} /\ code = <<>>
      /\ table = <<>> /\ named = 0 /\ ocamlFrames = <<>> /\ pc = 0 /\ control = "ok"
  BY DEF OCaml!OInit
<1>2. Len(<<>>) = 0 /\ DOMAIN <<>> = {}
  OBVIOUS
<1>3. OCaml!OcamlTypeOK
  BY <1>1, <1>2 DEF OCaml!OcamlTypeOK
<1>4. OCaml!FunctionsInv /\ OCaml!TableInv
  BY <1>1, <1>2 DEF OCaml!FunctionsInv, OCaml!TableInv
<1>5. /\ \A f \in OCaml!Range(ocamlFrames) : OCaml!Sound(f)
      /\ OCaml!Stacked(ocamlFrames) /\ OCaml!PcInv(ocamlFrames, pc)
  BY <1>1, NoFrames
<1> QED BY <1>3, <1>4, <1>5 DEF OCaml!OcamlInv

\* Every step of the program, its scripts and the developer preserves it.
LEMMA OcamlStepInv ==
  ASSUME OCaml!OcamlInv, OCaml!ONext
  PROVE  OCaml!OcamlInv'
  BY LinkingSteps, OcamlExecuteStringStep, RegisterNamedValueStep, OcamlScriptReturnsStep,
     CallbackRaisesStep, CallPrimitiveStep, OwnFrameStep, UnsupportedStep, PopOneStep, ReturnToScriptStep,
     OcamlBeginCallStep, OcamlEndCallStep
  DEF OCaml!ONext

\* What the invariant says of every frame is what the properties say.
LEMMA OcamlInvMeaning ==
  ASSUME OCaml!OcamlInv
  PROVE  OcamlRightFunction /\ OcamlPcAgrees
<1>1. \A i \in DOMAIN ocamlFrames : OCaml!Sound(ocamlFrames[i])
  BY DEF OCaml!OcamlInv, OCaml!Range
<1>2. OcamlRightFunction
  BY <1>1 DEF OcamlRightFunction, OCaml!RightFunction, OCaml!Sound
<1>3. OcamlPcAgrees
  <2>1. SUFFICES ASSUME OCaml!Depth > 0, OCaml!Top.kind = "script", ~OCaml!Top.derailed
                 PROVE  pc = OCaml!Depth
    BY DEF OcamlPcAgrees, OCaml!PcAgrees, OCaml!Interpreting
  <2>2. /\ OCaml!Depth = Len(ocamlFrames) /\ Len(ocamlFrames) \in 1..Len(ocamlFrames)
        /\ OCaml!Top = ocamlFrames[Len(ocamlFrames)]
    BY <2>1, TopFrame
  <2> QED BY <2>1, <2>2 DEF OCaml!OcamlInv, OCaml!PcInv
<1> QED BY <1>2, <1>3

\* The OCaml runtime's table, its frames and its pc stay as the invariant describes them.
THEOREM OcamlInvariant == ContextsSpec => []OCaml!OcamlInv
<1>1. ContextsInit => OCaml!OcamlInv
  BY OcamlInitially DEF ContextsInit
<1>2. OCaml!OcamlInv /\ [ContextsNext]_<<language, vars, ocamlVars>> => OCaml!OcamlInv'
  <2>1. ASSUME OCaml!OcamlInv, UNCHANGED ocamlVars PROVE OCaml!OcamlInv'
    <3>1. named' \in 0..Len(code)
      BY <2>1 DEF OCaml!OcamlInv, OCaml!OcamlTypeOK, ocamlVars
    <3> QED BY <2>1, <3>1, FramesStay DEF ocamlVars
  <2> QED BY <2>1, OcamlStepInv DEF ContextsNext, Create, SquirrelStep, OcamlStep
<1> QED BY <1>1, <1>2, PTL DEF ContextsSpec

\* A primitive call of the script that was loaded last reaches the function it names, of
\* the script's own context (lookup_primitive, the C_CALL instructions).
THEOREM OcamlCallsRightFunction == ContextsSpec => []OcamlRightFunction
  BY OcamlInvariant, OcamlInvMeaning, PTL

\* A running script finds the interpreter's global pc in its own code, after calls and
\* exceptions too, unless a C++ function that it called ran OCaml code itself
\* (caml_interprete, caml_callback).
THEOREM OcamlPcIsItsOwn == ContextsSpec => []OcamlPcAgrees
  BY OcamlInvariant, OcamlInvMeaning, PTL
=============================================================================
