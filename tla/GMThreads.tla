----------------------------- MODULE GMThreads -----------------------------
(***************************************************************************)
(* The threads of GameMonkey's machine (gmMachine.cpp, gmThread.cpp and    *)
(* the thread functions of gmMachineLib.cpp), and the calls that a program *)
(* makes through GMScriptContext and gmCall, each on a thread of its own.  *)
(*                                                                         *)
(* A gmThread object is in the list of its state.  gmMachine::Execute runs *)
(* the running threads one after the other while they create, signal and   *)
(* kill each other.  A thread that calls a C++ function stays on the C++   *)
(* stack, and the function may run further threads: stack holds the calls  *)
(* of gmThread::Sys_Execute that are under way.                            *)
(***************************************************************************)
EXTENDS Integers, Sequences, SequencesExt, FiniteSets

CONSTANTS
    Threads,    \* gmThread objects that the machine can allocate
    Signals,    \* values that threads block on
    MaxKilled,  \* GMMACHINE_MAXKILLEDTHREADS, the limit of the pool of killed threads
    Wrap,       \* the milliseconds after which the machine's clock starts again at zero
    Delays,     \* delays that a script sleeps
    Deltas,     \* times that pass between two calls of Execute
    MaxDepth,   \* bound on the nested calls of Sys_Execute
    MaxWork,    \* bound on the threads created and the C++ functions called between
                \* two calls of Execute
    MaxSignals, \* bound on the signals that a thread keeps
    MaxHarm     \* bound on the kinds of misuse that one run combines

ASSUME GMAssumption ==
    /\ MaxKilled \in Nat /\ MaxDepth \in Nat \ {0} /\ MaxWork \in Nat
    /\ MaxSignals \in Nat /\ MaxHarm \in Nat
    /\ Wrap \in Nat \ {0}
    /\ Delays \subseteq 0..(Wrap - 1) /\ Deltas \subseteq 0..(Wrap - 1)
    /\ "end" \notin Threads

End == "end"
Level == 0..MaxDepth

State == {"free", "RUNNING", "BLOCKED", "SYS_PENDING", "SLEEPING", "KILLED"}

\* What a program can do that leads to a fault: release a call that it did not
\* end, run a C++ function as a thread or call one that yields, execute
\* the machine between BeginCall and EndCall, kill a thread that C++ uses.
Harms == {"abandoned", "native", "interrupted", "killed"}

VARIABLES
    state,    \* gmThread::m_state; "free" is an object that is not allocated
    running, blocked, sleeping, killed, \* the machine's lists
    framed,   \* the thread has a stack frame
    blocks,   \* gmThread::m_blocks, latest first
    signals,  \* gmThread::m_signals, latest first
    stamp,    \* gmThread::m_timeStamp of a sleeping thread, 0 of any other
    wait,     \* how much longer a sleeping thread was meant to sleep, -1 if it is late
    time,     \* gmMachine::m_time
    pass,     \* m_nextThreadValid: Execute is running threads
    nextThread, \* m_nextThread
    owed,     \* threads that were running when Execute began, or were created since,
              \* and have not run in it
    work,     \* what counts against MaxWork
    stack,    \* the calls of Sys_Execute that are under way, innermost last
    phase,    \* phase[l]: the gmCall of the C++ code over l entries of stack
    callee,   \* callee[l]: its m_thread until End
    valid,    \* valid[l]: that thread was not reset since BeginCall
    harm,     \* the misuse so far
    fault     \* what ended the run, or "none"

lists == <<state, running, blocked, sleeping, killed>>
content == <<framed, blocks, signals, stamp, wait>>
turn == <<pass, nextThread, owed, work>>
calls == <<phase, callee, valid>>
vars == <<lists, content, time, turn, stack, calls, harm, fault>>

Init ==
    /\ state = [t \in Threads |-> "free"]
    /\ running = << >> /\ blocked = << >> /\ sleeping = << >> /\ killed = << >>
    /\ framed = [t \in Threads |-> FALSE]
    /\ blocks = [t \in Threads |-> << >>]
    /\ signals = [t \in Threads |-> << >>]
    /\ stamp = [t \in Threads |-> 0]
    /\ wait = [t \in Threads |-> 0]
    /\ time = 0
    /\ pass = FALSE /\ nextThread = End /\ owed = {} /\ work = 0
    /\ stack = << >>
    /\ phase = [l \in Level |-> "none"]
    /\ callee = [l \in Level |-> End]
    /\ valid = [l \in Level |-> FALSE]
    /\ harm = {}
    /\ fault = "none"

Fail(f) == fault' = f /\ UNCHANGED <<lists, content, time, turn, stack, calls, harm>>

Harm(H) == harm' = harm \cup H /\ Cardinality(harm') <= MaxHarm

\* C++ code runs: the program itself, or a function that the innermost thread
\* called.  The loop of Execute is no program code.
InCPP == fault = "none" /\ IF stack = << >> THEN ~pass ELSE Last(stack).in = "cpp"
InScript == fault = "none" /\ stack # << >> /\ Last(stack).in = "script"
Depth == Len(stack)
Self == Last(stack).thread

-----------------------------------------------------------------------------
(* Lists and states *)

\* What is left of the list s, in its order, when the threads K leave it.
Without(s, K) ==
    LET keep[i \in 0..Len(s)] ==
            IF i = 0 THEN << >>
            ELSE IF s[i] \in K THEN keep[i - 1] ELSE Append(keep[i - 1], s[i])
    IN  keep[Len(s)]

\* The running threads from m_nextThread on.
Rest ==
    IF nextThread = End THEN << >>
    ELSE SubSeq(running, CHOOSE i \in 1..Len(running) : running[i] = nextThread, Len(running))

First(s) == IF s = << >> THEN End ELSE s[1]

\* m_nextThread when the threads K leave the running list.
NextAfter(K) == First(Without(Rest, K))

\* The object that CreateThread takes: the last one killed, or a new one.
Fresh == killed # << >> \/ \E t \in Threads : state[t] = "free"
NewThread == IF killed # << >> THEN killed[1] ELSE CHOOSE t \in Threads : state[t] = "free"

\* Mutant: an iteration that is at its end stays there.
NextCreatedKept(t) == nextThread

\* The fix-up of an iteration that is at its end.
NextCreated(t) == IF pass /\ nextThread = End THEN t ELSE nextThread

\* CreateThread, with a stack frame if f.
Create(t, f) ==
    /\ Fresh /\ t = NewThread
    /\ work < MaxWork
    /\ state' = [state EXCEPT ![t] = "RUNNING"]
    /\ running' = Append(running, t)
    /\ killed' = IF killed = << >> THEN killed ELSE Tail(killed)
    /\ framed' = [framed EXCEPT ![t] = f]
    /\ nextThread' = NextCreated(t)
    /\ owed' = IF pass THEN owed \cup {t} ELSE owed
    /\ work' = work + 1
    /\ UNCHANGED <<blocked, sleeping, blocks, signals, stamp, wait, time, pass>>

\* Sys_SwitchState to KILLED of the threads of v, one after the other: each is
\* reset and put into the pool, or deleted if the pool is full.
Kill(v) ==
    LET K == Range(v)
        room == MaxKilled - Len(killed)
        pooled == SubSeq(v, 1, IF Len(v) < room THEN Len(v) ELSE room)
    IN  /\ state' = [t \in Threads |->
                        IF t \in Range(pooled) THEN "KILLED" ELSE IF t \in K THEN "free" ELSE state[t]]
        /\ running' = Without(running, K)
        /\ blocked' = Without(blocked, K)
        /\ sleeping' = Without(sleeping, K)
        /\ killed' = Reverse(pooled) \o killed
        /\ framed' = [t \in Threads |-> framed[t] /\ t \notin K]
        /\ blocks' = [t \in Threads |-> IF t \in K THEN << >> ELSE blocks[t]]
        /\ signals' = [t \in Threads |-> IF t \in K THEN << >> ELSE signals[t]]
        /\ stamp' = [t \in Threads |-> IF t \in K THEN 0 ELSE stamp[t]]
        /\ wait' = [t \in Threads |-> IF t \in K THEN 0 ELSE wait[t]]
        /\ nextThread' = NextAfter(K)
        /\ owed' = owed \ K
        /\ UNCHANGED <<time, pass, work>>

\* What C++ still holds of the threads K is worthless from now on.
Stale(s, K) == [i \in 1..Len(s) |-> [s[i] EXCEPT !.alive = @ /\ s[i].thread \notin K]]
Invalid(K) == [l \in Level |-> valid[l] /\ callee[l] \notin K]
InUse(K) ==
    \/ \E i \in 1..Len(stack) : stack[i].alive /\ stack[i].thread \in K
    \/ \E l \in Level : valid[l] /\ callee[l] \in K

-----------------------------------------------------------------------------
(* The program: GMScriptContext and gmCall *)

Entry(t, why, in) == [thread |-> t, why |-> why, in |-> in, alive |-> TRUE]

\* A string that compiles; its thread is executed at once.
ExecuteString ==
    /\ InCPP /\ Depth < MaxDepth
    /\ \E t \in Threads :
          /\ Create(t, TRUE)
          /\ stack' = Append(stack, Entry(t, "string", "script"))
    /\ UNCHANGED <<calls, harm, fault>>

\* gmCall creates the thread but no frame: that waits for End.
BeginCall ==
    /\ InCPP /\ phase[Depth] = "none" /\ Depth < MaxDepth
    /\ \E t \in Threads :
          /\ Create(t, FALSE)
          /\ callee' = [callee EXCEPT ![Depth] = t]
    /\ phase' = [phase EXCEPT ![Depth] = "open"]
    /\ valid' = [valid EXCEPT ![Depth] = TRUE]
    /\ UNCHANGED <<stack, harm, fault>>

\* AddParam or End of a call whose thread is gone.
UseStaleCall == InCPP /\ phase[Depth] = "open" /\ ~valid[Depth] /\ Fail("stale")

\* PushStackFrame and Sys_Execute.  A C++ function gets no frame and runs at once.
EndCall(native) ==
    /\ InCPP /\ phase[Depth] = "open" /\ valid[Depth] /\ Depth < MaxDepth
    /\ framed' = [framed EXCEPT ![callee[Depth]] = ~native]
    /\ stack' = Append(stack, Entry(callee[Depth], "call", IF native THEN "cpp" ELSE "script"))
    /\ UNCHANGED <<lists, blocks, signals, stamp, wait, time, turn, calls, harm, fault>>

\* A library function that yields or raises an exception, called by the program:
\* End goes on to execute a thread that has no frame.  (One that sleeps or blocks
\* suspends the thread; the machine then fails when it wakes it up.)
EndCallUnframed ==
    /\ InCPP /\ phase[Depth] = "open" /\ valid[Depth]
    /\ Harm({"native"}) /\ fault' = "noframe"
    /\ UNCHANGED <<lists, content, time, turn, stack, calls>>

\* The gmCall is deleted, its thread is not.
ReleaseAfterCall ==
    /\ InCPP /\ phase[Depth] # "none"
    /\ phase' = [phase EXCEPT ![Depth] = "none"]
    /\ callee' = [callee EXCEPT ![Depth] = End]
    /\ valid' = [valid EXCEPT ![Depth] = FALSE]
    /\ Harm(IF phase[Depth] = "open" THEN {"abandoned"} ELSE {})
    /\ UNCHANGED <<lists, content, time, turn, stack, fault>>

-----------------------------------------------------------------------------
(* gmMachine::Execute *)

\* Mutant: threads that were signalled are left where they are.
NothingPending == << >>

\* The threads that the second loop of Execute moves, in the order of the list.
PendingThreads == Without(blocked, {t \in Threads : state[t] # "SYS_PENDING"})

\* The first loop takes sleeping threads from the front as long as they are due.
DueThreads(now) ==
    LET Due(n) == \A i \in 1..n : stamp[sleeping[i]] <= now
    IN  SubSeq(sleeping, 1, CHOOSE n \in 0..Len(sleeping) :
                                Due(n) /\ (n < Len(sleeping) => ~Due(n + 1)))

Execute(delta) ==
    LET now == (time + delta) % Wrap
        woken == DueThreads(now) \o PendingThreads
        ready == running \o woken
    IN  /\ fault = "none" /\ stack = << >> /\ ~pass
        /\ time' = now
        /\ running' = ready
        /\ sleeping' = Without(sleeping, Range(woken))
        /\ blocked' = Without(blocked, Range(woken))
        /\ state' = [t \in Threads |-> IF t \in Range(woken) THEN "RUNNING" ELSE state[t]]
        /\ blocks' = [t \in Threads |-> IF t \in Range(woken) THEN << >> ELSE blocks[t]]
        /\ stamp' = [t \in Threads |-> IF t \in Range(woken) THEN 0 ELSE stamp[t]]
        /\ wait' = [t \in Threads |->
                        IF state[t] # "SLEEPING" \/ t \in Range(woken) THEN 0
                        ELSE IF wait[t] < delta THEN -1 ELSE wait[t] - delta]
        /\ pass' = TRUE
        /\ nextThread' = First(ready)
        /\ owed' = Range(ready)
        /\ work' = 0
        /\ Harm(IF phase[0] = "open" THEN {"interrupted"} ELSE {})
        /\ UNCHANGED <<killed, framed, signals, stack, calls, fault>>

\* The third loop runs the next thread; Sys_Execute asserts that it has a frame.
RunNext ==
    /\ fault = "none" /\ stack = << >> /\ pass /\ nextThread # End
    /\ \/ ~framed[nextThread] /\ Fail("noframe")
       \/ /\ framed[nextThread]
          /\ stack' = <<Entry(nextThread, "pass", "script")>>
          /\ nextThread' = First(Tail(Rest))
          /\ owed' = owed \ {nextThread}
          /\ UNCHANGED <<lists, content, time, pass, work, calls, harm, fault>>

EndPass ==
    /\ fault = "none" /\ stack = << >> /\ pass /\ nextThread = End
    /\ pass' = FALSE
    /\ UNCHANGED <<lists, content, time, nextThread, owed, work, stack, calls, harm, fault>>

-----------------------------------------------------------------------------
(* What the script on the innermost thread does *)

\* Mutant: PushStackFrame of the new thread is missing.
SpawnUnframed(native) ==
    /\ InScript
    /\ \E t \in Threads : Create(t, FALSE)
    /\ Harm(IF native THEN {"native"} ELSE {})
    /\ UNCHANGED <<stack, calls, fault>>

\* thread(fn): a script function gets a frame; a C++ function is called at once
\* and leaves the new thread running without one.
Spawn(native) ==
    /\ InScript
    /\ \E t \in Threads : Create(t, ~native)
    /\ Harm(IF native THEN {"native"} ELSE {})
    /\ UNCHANGED <<stack, calls, fault>>

\* Mutant: the signal is kept for a thread that is still blocked, too.
DeliveredLate(t, s, n) ==
    [state |-> IF n = 0 THEN state[t] ELSE "SYS_PENDING",
     blocks |-> blocks[t],
     signals |-> [i \in 1..n |-> s] \o signals[t]]

\* What Signal does with the first n blocks of t on s: the first one that finds t
\* blocked is marked, every other one leaves a signal with the thread.
Delivered(t, s, n) ==
    LET mark == n > 0 /\ state[t] = "BLOCKED"
        hit == CHOOSE i \in 1..Len(blocks[t]) :
                  blocks[t][i].on = s /\ \A j \in 1..(i - 1) : blocks[t][j].on # s
    IN  [state |-> IF mark THEN "SYS_PENDING" ELSE state[t],
         blocks |-> IF mark THEN [blocks[t] EXCEPT ![hit].signalled = TRUE] ELSE blocks[t],
         signals |-> [i \in 1..(IF mark THEN n - 1 ELSE n) |-> s] \o signals[t]]

\* signal(s) to every thread, or to dst only, where it stops at the first block.
Signal(s, dst) ==
    LET matching(t) == Cardinality({i \in 1..Len(blocks[t]) : blocks[t][i].on = s})
        hits(t) == IF dst = End THEN matching(t)
                   ELSE IF t = dst /\ matching(t) > 0 THEN 1 ELSE 0
        after == [t \in Threads |-> Delivered(t, s, hits(t))]
    IN  /\ InScript
        /\ \E t \in Threads : hits(t) > 0
        /\ \A t \in Threads : Len(after[t].signals) <= MaxSignals
        /\ state' = [t \in Threads |-> after[t].state]
        /\ blocks' = [t \in Threads |-> after[t].blocks]
        /\ signals' = [t \in Threads |-> after[t].signals]
        /\ UNCHANGED <<running, blocked, sleeping, killed, framed, stamp, wait, time, turn, stack, calls,
                       harm, fault>>

\* threadKill of another thread.
ThreadKill(t) ==
    /\ InScript /\ t # Self /\ state[t] \notin {"free", "KILLED"}
    /\ Kill(<<t>>)
    /\ stack' = Stale(stack, {t})
    /\ valid' = Invalid({t})
    /\ Harm(IF InUse({t}) THEN {"killed"} ELSE {})
    /\ UNCHANGED <<phase, callee, fault>>

\* Mutant: the calling thread is not left out.
ThreadKillAllAndSelf ==
    LET v == running \o Without(blocked, {t \in Threads : state[t] = "SYS_PENDING"}) \o sleeping
    IN  /\ InScript /\ v # << >>
        /\ Kill(v)
        /\ stack' = Stale(stack, Range(v))
        /\ valid' = Invalid(Range(v))
        /\ Harm(IF InUse(Range(v)) THEN {"killed"} ELSE {})
        /\ UNCHANGED <<phase, callee, fault>>

\* threadKillAll: the running, blocked and sleeping threads, in this order, but
\* for the caller; not those that were signalled.  With killCurrent the caller ends
\* next, which is Finish.
ThreadKillAll ==
    LET v == Without(running, {Self})
                 \o Without(blocked, {t \in Threads : state[t] = "SYS_PENDING"}) \o sleeping
    IN  /\ InScript /\ v # << >>
        /\ Kill(v)
        /\ stack' = Stale(stack, Range(v))
        /\ valid' = Invalid(Range(v))
        /\ Harm(IF InUse(Range(v)) THEN {"killed"} ELSE {})
        /\ UNCHANGED <<phase, callee, fault>>

\* The script calls a registered C++ function.
CallCPP ==
    /\ InScript /\ Depth < MaxDepth /\ work < MaxWork
    /\ stack' = [stack EXCEPT ![Depth].in = "cpp"]
    /\ work' = work + 1
    /\ UNCHANGED <<lists, content, time, pass, nextThread, owed, calls, harm, fault>>

-----------------------------------------------------------------------------
(* How Sys_Execute of the innermost thread ends *)

\* Back to the loop of Execute, to ExecuteString or to gmCall::End.
Left ==
    /\ stack' = Front(stack)
    /\ phase' = IF Last(stack).why = "call" THEN [phase EXCEPT ![Depth - 1] = "ended"] ELSE phase
    /\ valid' = IF Last(stack).why = "call" THEN [valid EXCEPT ![Depth - 1] = FALSE] ELSE valid
    /\ callee' = IF Last(stack).why = "call" THEN [callee EXCEPT ![Depth - 1] = End] ELSE callee
    /\ UNCHANGED <<harm, fault>>

\* The thread's last function returned, called exit or raised an exception: the
\* three look the same to the caller.
Finish == InScript /\ Kill(<<Self>>) /\ Left

\* A C++ function returns.  PushStackFrame goes on with the thread, or kills it
\* if the function was its only one.
ReturnFromCPP ==
    /\ InCPP /\ stack # << >> /\ phase[Depth] = "none"
    /\ \/ ~Last(stack).alive /\ Fail("stale")
       \/ /\ Last(stack).alive /\ framed[Self]
          /\ stack' = [stack EXCEPT ![Depth].in = "script"]
          /\ UNCHANGED <<lists, content, time, turn, calls, harm, fault>>
       \/ /\ Last(stack).alive /\ ~framed[Self]
          /\ Kill(<<Self>>)
          /\ Left

Yield ==
    /\ InScript
    /\ signals' = [signals EXCEPT ![Self] = << >>]
    /\ Left
    /\ UNCHANGED <<lists, framed, blocks, stamp, wait, time, turn>>

\* Mutant: sleeping threads are kept in the order in which they fell asleep.
SleeperAppended(t, at) == Append(sleeping, t)

\* The list of sleeping threads is ordered by m_timeStamp.
SleeperInserted(t, at) ==
    LET later == {i \in 1..Len(sleeping) : stamp[sleeping[i]] > at}
        pos == IF later = {} THEN Len(sleeping) + 1
               ELSE CHOOSE i \in later : \A j \in later : i <= j
    IN  InsertAt(sleeping, pos, t)

\* The thread leaves the running list: its signals are removed.
Suspend(to) ==
    /\ state' = [state EXCEPT ![Self] = to]
    /\ running' = Without(running, {Self})
    /\ signals' = [signals EXCEPT ![Self] = << >>]
    /\ nextThread' = NextAfter({Self})
    /\ owed' = owed \ {Self}

Sleep(ms) ==
    /\ InScript
    /\ Suspend("SLEEPING")
    /\ stamp' = [stamp EXCEPT ![Self] = (time + ms) % Wrap]
    /\ wait' = [wait EXCEPT ![Self] = ms]
    /\ sleeping' = SleeperInserted(Self, (time + ms) % Wrap)
    /\ Left
    /\ UNCHANGED <<blocked, killed, framed, blocks, time, pass, work>>

\* Sys_Block: the signals that the thread kept are used up, the latest first,
\* until one is in ss; then the thread goes on.
Kept(ss) == {i \in 1..Len(signals[Self]) : signals[Self][i] \in Range(ss)}

BlockSignalled(ss) ==
    /\ InScript /\ Kept(ss) # {}
    /\ LET i == CHOOSE i \in Kept(ss) : \A j \in Kept(ss) : i <= j
       IN  signals' = [signals EXCEPT ![Self] = SubSeq(@, i + 1, Len(@))]
    /\ UNCHANGED <<lists, framed, blocks, stamp, wait, time, turn, stack, calls, harm, fault>>

Block(ss) ==
    /\ InScript /\ Kept(ss) = {}
    /\ Suspend("BLOCKED")
    /\ blocks' = [blocks EXCEPT ![Self] =
                     Reverse([i \in 1..Len(ss) |-> [on |-> ss[i], signalled |-> FALSE]])]
    /\ blocked' = <<Self>> \o blocked
    /\ Left
    /\ UNCHANGED <<sleeping, killed, framed, stamp, wait, time, pass, work>>

-----------------------------------------------------------------------------
SignalLists == {<<s>> : s \in Signals} \cup {<<s, r>> : s, r \in Signals}

Machine == (\E d \in Deltas : Execute(d)) \/ RunNext \/ EndPass

Program ==
    \/ ExecuteString \/ BeginCall \/ UseStaleCall \/ EndCallUnframed \/ ReleaseAfterCall
    \/ \E b \in BOOLEAN : EndCall(b)

TurnEnds ==
    \/ Finish \/ Yield
    \/ \E ms \in Delays : Sleep(ms)
    \/ \E ss \in SignalLists : Block(ss)

Script ==
    \/ \E b \in BOOLEAN : Spawn(b)
    \/ \E s \in Signals, dst \in Threads \cup {End} : Signal(s, dst)
    \/ \E t \in Threads : ThreadKill(t)
    \/ ThreadKillAll
    \/ \E ss \in SignalLists : BlockSignalled(ss)
    \/ CallCPP \/ ReturnFromCPP

Next == Machine \/ Program \/ TurnEnds \/ Script

\* The program and its scripts go on.  MaxWork stands for what the program has to
\* see to itself: that every turn of a script and every C++ function comes to an
\* end, and that its loop then calls Execute again (gme.cpp:433).
Spec == Init /\ [][Next]_vars /\ WF_vars(Next)

-----------------------------------------------------------------------------
(* Properties *)

\* Type correctness.
TypeOK ==
    /\ state \in [Threads -> State]
    /\ running \in Seq(Threads) /\ blocked \in Seq(Threads)
    /\ sleeping \in Seq(Threads) /\ killed \in Seq(Threads)
    /\ framed \in [Threads -> BOOLEAN]
    /\ blocks \in [Threads -> Seq([on : Signals, signalled : BOOLEAN])]
    /\ signals \in [Threads -> Seq(Signals)]
    /\ stamp \in [Threads -> 0..(Wrap - 1)]
    /\ wait \in [Threads -> Int]
    /\ time \in 0..(Wrap - 1)
    /\ pass \in BOOLEAN
    /\ nextThread \in Threads \cup {End}
    /\ owed \in SUBSET Threads
    /\ work \in Nat
    /\ stack \in Seq([thread : Threads, why : {"pass", "string", "call"},
                      in : {"script", "cpp"}, alive : BOOLEAN])
    /\ phase \in [Level -> {"none", "open", "ended"}]
    /\ callee \in [Level -> Threads \cup {End}]
    /\ valid \in [Level -> BOOLEAN]
    /\ harm \in SUBSET Harms
    /\ fault \in {"none", "noframe", "stale"}

\* Every thread is in the one list of its state, once, and the pool of killed
\* threads stays within its limit, however threads create, suspend and kill each
\* other while the lists are iterated.
ListsAgree ==
    LET In(s, S) == IsInjective(s) /\ Range(s) = {t \in Threads : state[t] \in S}
    IN  /\ In(running, {"RUNNING"})
        /\ In(blocked, {"BLOCKED", "SYS_PENDING"})
        /\ In(sleeping, {"SLEEPING"})
        /\ In(killed, {"KILLED"})
        /\ Len(killed) <= MaxKilled

\* Execute passes over no thread (gmMachine.cpp:798): whatever the threads before
\* it do, each one that was running at the start, or was created since, is still
\* ahead of the iteration until it has run or left the list.
NoThreadSkipped ==
    /\ nextThread # End => pass /\ state[nextThread] = "RUNNING"
    /\ owed \subseteq Range(Rest)

\* A thread is SYS_PENDING exactly if one of its blocks was signalled, as Execute
\* asserts (gmMachine.cpp:1088); only blocked threads have blocks, and they have
\* one, so that a signal can reach them; signals are kept only for threads that
\* are about to run.
BlocksAgree ==
    \A t \in Threads :
        /\ state[t] = "SYS_PENDING" <=> \E i \in 1..Len(blocks[t]) : blocks[t][i].signalled
        /\ blocks[t] # << >> <=> state[t] \in {"BLOCKED", "SYS_PENDING"}
        /\ signals[t] # << >> => state[t] \in {"SYS_PENDING", "RUNNING"}

\* Execute wakes exactly the sleeping threads whose time has come, although it
\* looks only at the first of the list, as long as neither the clock nor the time
\* stamp passes its end.
WokenOnTime ==
    [][\A t \in Threads :
          (/\ ~pass /\ pass' /\ time <= time'
           /\ state[t] = "SLEEPING" /\ wait[t] >= 0 /\ time + wait[t] < Wrap) =>
              (state'[t] = "RUNNING" <=> wait[t] <= time' - time)]_vars

\* No signalled thread waits for ever: there is always a later moment, the start
\* of an Execute, at which all of them are running, unless a fault ends the run.
SignalledResume == []<>((\A t \in Threads : state[t] # "SYS_PENDING") \/ fault # "none")

\* A thread without a frame is executed only if the program released a call that
\* it did not end, executed the machine during one, or used a C++ function as a
\* thread; C++ meets a dead thread only if a script killed one that it was using.
FaultsExplained ==
    /\ fault = "noframe" => harm \cap {"abandoned", "interrupted", "native"} # {}
    /\ fault = "stale" => "killed" \in harm

-----------------------------------------------------------------------------
(* The invariant behind them *)

\* The list s holds each of the threads S once.
Lists(s, S) == s \in Seq(Threads) /\ IsInjective(s) /\ Range(s) = S

\* An iteration of s that goes on with n still comes to the threads O.
Ahead(s, n, O) ==
    \/ n = End /\ O = {}
    \/ \E i \in 1..Len(s) : n = s[i] /\ O \subseteq {s[k] : k \in i..Len(s)}

\* The threads with a state in S.
With(S) == {t \in Threads : state[t] \in S}

\* Every list holds the threads of its state, and the iteration of the running list
\* still comes to those that Execute owes a turn.
ListInv ==
    /\ state \in [Threads -> State]
    /\ Lists(running, With({"RUNNING"})) /\ Lists(blocked, With({"BLOCKED", "SYS_PENDING"}))
    /\ Lists(sleeping, With({"SLEEPING"})) /\ Lists(killed, With({"KILLED"}))
    /\ Len(killed) <= MaxKilled
    /\ pass \in BOOLEAN /\ owed \in SUBSET Threads
    /\ nextThread \in With({"RUNNING"}) \cup {End} /\ (nextThread # End => pass)
    /\ Ahead(running, nextThread, owed)

\* Blocks and signals fit the states of the threads.
BlockInv ==
    /\ blocks \in [Threads -> Seq([on : Signals, signalled : BOOLEAN])]
    /\ signals \in [Threads -> Seq(Signals)]
    /\ BlocksAgree

\* The sleeping threads are in the order of their time stamps, and a stamp is the
\* time at which the thread meant to wake up.
SleepInv ==
    /\ stamp \in [Threads -> 0..(Wrap - 1)] /\ time \in 0..(Wrap - 1)
    /\ wait \in [Threads -> -1..(Wrap - 1)]
    /\ \A i, j \in 1..Len(sleeping) : i < j => stamp[sleeping[i]] <= stamp[sleeping[j]]
    /\ \A t \in Threads :
          (state[t] = "SLEEPING" /\ wait[t] >= 0) => stamp[t] = (time + wait[t]) % Wrap

\* Only the innermost thread is in its script; it is there, with a frame.  A thread
\* that is used further down runs, once, unless it was killed.
Entries == [thread : Threads, why : {"pass", "string", "call"}, in : {"script", "cpp"},
            alive : BOOLEAN]

EntryInv(i) ==
    /\ i < Depth => stack[i].in = "cpp"
    /\ stack[i].in = "script" => stack[i].alive /\ framed[stack[i].thread]
    /\ stack[i].alive => state[stack[i].thread] = "RUNNING"
    /\ ~stack[i].alive => "killed" \in harm

StackInv ==
    /\ stack \in Seq(Entries) /\ Depth \in Level
    /\ \A i \in 1..Depth : EntryInv(i)
    /\ \A i, j \in 1..Depth :
          (stack[i].alive /\ stack[j].alive /\ stack[i].thread = stack[j].thread) => i = j

\* A call belongs to C++ code that is under way; its thread runs unless it was
\* killed, and has a frame only while the call executes it.
CallInv(l) ==
    /\ phase[l] # "none" => l <= Depth /\ (l > 0 => stack[l].in = "cpp")
    /\ valid[l] => phase[l] = "open" /\ callee[l] \in Threads /\ state[callee[l]] = "RUNNING"
    /\ (phase[l] = "open" /\ ~valid[l]) => "killed" \in harm
    /\ (valid[l] /\ framed[callee[l]]) => l < Depth /\ stack[l + 1].why = "call"
    /\ (valid[l] /\ l < Depth /\ stack[l + 1].why = "call") => stack[l + 1].thread = callee[l]
    /\ \A i \in 1..Depth :
          (valid[l] /\ stack[i].alive /\ stack[i].thread = callee[l])
              => i = l + 1 /\ stack[i].why = "call"

CallsInv ==
    /\ phase \in [Level -> {"none", "open", "ended"}]
    /\ callee \in [Level -> Threads \cup {End}] /\ valid \in [Level -> BOOLEAN]
    /\ \A l \in Level : CallInv(l)
    /\ \A l, m \in Level : (valid[l] /\ valid[m] /\ callee[l] = callee[m]) => l = m
    /\ (pass /\ phase[0] = "open") => "interrupted" \in harm

\* A thread without a frame is the one of a call, or of misuse.
FrameInv ==
    /\ framed \in [Threads -> BOOLEAN]
    /\ \A t \in Threads :
          /\ state[t] \in {"BLOCKED", "SYS_PENDING", "SLEEPING"} => framed[t]
          /\ (state[t] = "RUNNING" /\ ~framed[t]) =>
                \/ harm \cap {"abandoned", "interrupted", "native"} # {}
                \/ \E l \in Level : valid[l] /\ callee[l] = t

\* Every fault has its cause in the misuse so far.
HarmInv ==
    /\ harm \in SUBSET Harms /\ work \in Nat
    /\ fault \in {"none", "noframe", "stale"} /\ FaultsExplained

GMInv == ListInv /\ BlockInv /\ SleepInv /\ StackInv /\ CallsInv /\ FrameInv /\ HarmInv
=============================================================================
