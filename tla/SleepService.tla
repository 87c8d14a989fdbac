---------------------------- MODULE SleepService ----------------------------
(***************************************************************************)
(* Services that wait for time to pass or for a signal: SleepService and   *)
(* WaitSignal of System, with the timers behind them.                      *)
(*                                                                         *)
(* A step is what happens under the mutex of a service's context, or a     *)
(* tick of the timer wheel.  A timer is represented by the number of ticks *)
(* it has left: a timer for n ticks is called back in the tick after n     *)
(* others.  The wheel's own steps are in module TimerService.              *)
(***************************************************************************)
EXTENDS Naturals

CONSTANTS
    Sleepers,     \* services
    SleepTimes,   \* the milliseconds they sleep
    kPeriod,      \* milliseconds of a tick
    MaxLeft,      \* bound: no timer runs for more ticks
    MaxAge,       \* bound: a longer wait is as long
    MaxArmed      \* bound on the timers a service has left behind

VARIABLES
    sat,        \* where a service is: "run", "leaving" (kBlocked, being
                \* swapped out), "out", "ready", "stuck" (it waits for the
                \* mutex it holds) or "dead"
    waitsIn,    \* the call it waits in
    sevents,    \* events
    signalled,  \* wakeup_signal
    sstopping,  \* stopping
    age,        \* ticks since blocked_time, up to MaxAge
    armed,      \* how many of its timers have how many ticks left
    late,       \* its timers that are out of their list and not called yet
    owed,       \* ticks the timer of the current sleep has left
    disturbed,  \* history: was a sleep ever interrupted?
    brief       \* history: has one returned OK before its time until then?

sleepVars == <<sat, waitsIn, sevents, signalled, sstopping, age, armed, late,
               owed, disturbed, brief>>

NoTimers == [k \in 1 .. MaxLeft |-> 0]

SleepInit ==
    /\ sat = [s \in Sleepers |-> "run"]
    /\ waitsIn = [s \in Sleepers |-> "none"]
    /\ sevents = [s \in Sleepers |-> {}]
    /\ signalled = [s \in Sleepers |-> FALSE]
    /\ sstopping = [s \in Sleepers |-> FALSE]
    /\ age = [s \in Sleepers |-> 0]
    /\ armed = [s \in Sleepers |-> NoTimers]
    /\ late = [s \in Sleepers |-> 0]
    /\ owed = [s \in Sleepers |-> 0]
    /\ brief = [s \in Sleepers |-> FALSE]
    /\ disturbed = [s \in Sleepers |-> FALSE]

\* AddTimer rounds to the nearest tick.
TimeoutTicks(ms) == (ms + kPeriod \div 2) \div kPeriod

ASSUME SleepAssumption ==
    /\ MaxLeft \in Nat \ {0}
    /\ \A ms \in SleepTimes : TimeoutTicks(ms) + 1 \in 1 .. MaxLeft

WaitedFor(call) ==
    CASE call = "Sleep" -> {"kSleep", "kServiceStop", "kInterrupt"}
      [] call = "WaitSignal" -> {"kSignal", "kServiceStop", "kInterrupt"}
      [] OTHER -> {}

TimerAdded(timers, left) == [timers EXCEPT ![left] = @ + 1]

\* DeleteTimer of a timer that is out of its list does nothing.
TimerDeleted(timers, left) ==
    IF left = 0 THEN timers ELSE [timers EXCEPT ![left] = @ - 1]

\* The wait of call ends with revents; timers are those of the service, left
\* the ticks that the timer of the sleep has left.
Returns(s, call, revents, timers, left) ==
    LET slept == call = "Sleep" /\ "kSleep" \in revents
        cut == call = "Sleep" /\ "kSleep" \notin revents
    IN  /\ sat' = [sat EXCEPT ![s] = "run"]
        /\ waitsIn' = [waitsIn EXCEPT ![s] = "none"]
        /\ armed' = [armed EXCEPT ![s] = IF cut THEN TimerDeleted(timers, left) ELSE timers]
        /\ owed' = [owed EXCEPT ![s] = 0]
        /\ brief' = [brief EXCEPT ![s] = @ \/ (slept /\ left > 0 /\ ~ disturbed[s])]
        /\ disturbed' = [disturbed EXCEPT ![s] = @ \/ cut]

\* Mutant: what was waited for stays in events.
EventsAfterKept(s, call) == sevents[s]

\* events &= ~events
EventsAfter(s, call) == sevents[s] \ WaitedFor(call)

\* Wait_Locked: a stopping service does not wait, an event that came before
\* the wait ends it, and otherwise the service is swapped out.
WaitLocked(s, call, timers, left) ==
    LET revents == sevents[s] \cap WaitedFor(call) IN
    /\ IF sstopping[s]
       THEN Returns(s, call, {"kServiceStop"}, timers, left) /\ UNCHANGED sevents
       ELSE IF revents # {}
       THEN /\ Returns(s, call, revents, timers, left)
            /\ sevents' = [sevents EXCEPT ![s] = EventsAfter(s, call)]
       ELSE /\ sat' = [sat EXCEPT ![s] = "leaving"]
            /\ waitsIn' = [waitsIn EXCEPT ![s] = call]
            /\ armed' = [armed EXCEPT ![s] = timers]
            /\ owed' = [owed EXCEPT ![s] = left]
            /\ UNCHANGED <<sevents, brief, disturbed>>
    /\ UNCHANGED <<signalled, sstopping, age, late>>

\* SleepService.  A timeout of no tick calls WakeUp in AddTimer, which locks
\* the mutex that SleepService holds.
Sleep(s, ms) ==
    LET left == TimeoutTicks(ms) + 1 IN
    /\ sat[s] = "run"
    /\ \A k \in 1 .. MaxLeft : armed[s][k] < MaxArmed
    /\ IF left = 1
       THEN /\ sat' = [sat EXCEPT ![s] = "stuck"]
            /\ UNCHANGED <<waitsIn, sevents, signalled, sstopping, age, armed, late,
                           owed, brief, disturbed>>
       ELSE WaitLocked(s, "Sleep", TimerAdded(armed[s], left), left)

WaitSignal(s) == sat[s] = "run" /\ WaitLocked(s, "WaitSignal", armed[s], 0)

\* Mutant: a wakeup on the way is not looked at.
AfterSwapOut(s) == "out"

AfterSwap(s) == IF signalled[s] THEN "ready" ELSE "out"

\* SwitchTo stores blocked_time after the status is kBlocked; then the next
\* service lets this one go, which may have been woken up on the way.
SwapOut(s) ==
    /\ sat[s] = "leaving"
    /\ sat' = [sat EXCEPT ![s] = AfterSwap(s)]
    /\ age' = [age EXCEPT ![s] = 0]
    /\ UNCHANGED <<waitsIn, sevents, signalled, sstopping, armed, late, owed,
                   brief, disturbed>>

\* A worker takes the service from the run queue and its wait returns.
Resume(s) ==
    LET call == waitsIn[s] IN
    /\ sat[s] = "ready"
    /\ signalled' = [signalled EXCEPT ![s] = FALSE]
    /\ sevents' = [sevents EXCEPT ![s] = EventsAfter(s, call)]
    /\ Returns(s, call, sevents[s] \cap WaitedFor(call), armed[s], owed[s])
    /\ UNCHANGED <<sstopping, age, late>>

\* Wakeup may happen before Wait.
Latched(s, e) == sevents[s] \cup {e}

\* Wakeup_Locked, for who can take the mutex.
WakeUp(s, e) ==
    LET waits == e \in WaitedFor(waitsIn[s]) IN
    /\ sat[s] # "stuck"
    /\ sevents' = [sevents EXCEPT ![s] = Latched(s, e)]
    /\ signalled' = [signalled EXCEPT ![s] = @ \/ waits]
    /\ sat' = [sat EXCEPT ![s] = IF @ = "out" /\ waits THEN "ready" ELSE @]

\* The callback of a sleep's timer; a service that ended is not found.
SleepCallback(s) ==
    /\ late[s] > 0
    /\ late' = [late EXCEPT ![s] = @ - 1]
    /\ IF sat[s] = "dead" THEN UNCHANGED <<sat, sevents, signalled>> ELSE WakeUp(s, "kSleep")
    /\ UNCHANGED <<waitsIn, sstopping, age, armed, owed, brief, disturbed>>

\* Signal, InterruptService (of a service that waits for it) and StopService.
Signal(s) ==
    /\ sat[s] # "dead" /\ WakeUp(s, "kSignal")
    /\ UNCHANGED <<waitsIn, sstopping, age, armed, late, owed, brief, disturbed>>

InterruptService(s) ==
    /\ sat[s] \in {"leaving", "out"} /\ WakeUp(s, "kInterrupt")
    /\ UNCHANGED <<waitsIn, sstopping, age, armed, late, owed, brief, disturbed>>

StopSleeper(s) ==
    /\ sat[s] # "dead" /\ ~ sstopping[s]
    /\ sstopping' = [sstopping EXCEPT ![s] = TRUE]
    /\ WakeUp(s, "kServiceStop")
    /\ UNCHANGED <<waitsIn, age, armed, late, owed, brief, disturbed>>

\* Main returns.
SleeperEnds(s) ==
    /\ sat[s] = "run"
    /\ sat' = [sat EXCEPT ![s] = "dead"]
    /\ UNCHANGED <<waitsIn, sevents, signalled, sstopping, age, armed, late, owed,
                   brief, disturbed>>

Shift(timers) == [k \in 1 .. MaxLeft |-> IF k = MaxLeft THEN 0 ELSE timers[k + 1]]

\* A tick: the timers that are due leave their list.
SleepTick ==
    /\ armed' = [s \in Sleepers |-> Shift(armed[s])]
    /\ late' = [s \in Sleepers |-> armed[s][1]]
    /\ owed' = [s \in Sleepers |-> IF owed[s] = 0 THEN 0 ELSE owed[s] - 1]
    /\ age' = [s \in Sleepers |-> IF age[s] = MaxAge THEN age[s] ELSE age[s] + 1]
    /\ UNCHANGED <<sat, waitsIn, sevents, signalled, sstopping, brief, disturbed>>

SleeperNext(s) ==
    \/ \E ms \in SleepTimes : Sleep(s, ms)
    \/ WaitSignal(s)
    \/ SwapOut(s)
    \/ Resume(s)
    \/ SleeperEnds(s)

OthersNext(s) == Signal(s) \/ InterruptService(s) \/ StopSleeper(s)

-----------------------------------------------------------------------------
\* A sleep that nobody ever interrupted lasts its time.  (After the first
\* interruption the callback of the abandoned timer may come late; its kSleep
\* then ends the next sleep, whose own timer is left armed, and so on.)
SleepsWhole == \A s \in Sleepers : ~ brief[s]

\* A sleep ends, as long as no service has stopped the timer thread.
SleepEnds ==
    \A s \in Sleepers :
        (waitsIn[s] = "Sleep") ~> (waitsIn[s] = "none" \/ \E t \in Sleepers : sat[t] = "stuck")
=============================================================================
