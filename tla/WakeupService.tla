--------------------------- MODULE WakeupService ---------------------------
(***************************************************************************)
(* WakeupService: interrupts the services that have waited for longer than *)
(* they asked to (WakeupIfWaitTimeout).  It looks at them in Update, which *)
(* its timer posts to its mailbox.  A step is the handling of a message,   *)
(* except that Update looks at the sleep time and wakes up in two steps.   *)
(***************************************************************************)
EXTENDS SleepService, Sequences

CONSTANTS
    IdleTimes,          \* the milliseconds WakeupIfWaitTimeout is called with
    min_interval_ms,
    kDefaultInterval,   \* the first interval_ms_
    MaxAdds             \* bound on the calls of WakeupIfWaitTimeout

VARIABLES
    wmail,       \* the mailbox
    conn_srvs,   \* conn_srvs_
    interval,    \* interval_ms_
    wtimers,     \* how many timers of the service have how many ticks left
    wlate,       \* those out of their list and not called yet
    timer,       \* the ticks left of timer_; 0 when it is out of its list
    expired,     \* is timer_ expired?
    ticking,     \* does the timer thread call the timers of a tick?
    cursor,      \* the item Update is at, 0 outside of it
    toWake,      \* has it found that item idle for too long?
    wstopping,
    adds         \* calls of WakeupIfWaitTimeout so far

wakeupVars == <<sleepVars, wmail, conn_srvs, interval, wtimers, wlate, timer,
                expired, ticking, cursor, toWake, wstopping, adds>>

WakeupInit ==
    /\ SleepInit
    /\ wmail = <<>> /\ conn_srvs = <<>>
    /\ interval = kDefaultInterval
    /\ wtimers = NoTimers /\ wlate = 0
    /\ timer = 0 /\ expired = TRUE /\ ticking = FALSE
    /\ cursor = 0 /\ toWake = FALSE /\ wstopping = FALSE /\ adds = 0

ofService == <<wmail, conn_srvs, interval, cursor, toWake, wstopping, adds>>
ofTimers == <<wtimers, wlate, timer, expired, ticking>>

\* A service asks to be interrupted; SendMessage refuses for a stopping one.
WakeupIfWaitTimeout(s, ms) ==
    /\ adds < MaxAdds /\ sat[s] = "run"
    /\ adds' = adds + 1
    /\ wmail' = IF wstopping THEN wmail
                ELSE Append(wmail, [method |-> "AddService", srv |-> s, max |-> ms])
    /\ UNCHANGED <<sleepVars, ofTimers, conn_srvs, interval, cursor, toWake, wstopping>>

AddWakeupTimer(ms) ==
    LET left == TimeoutTicks(ms) + 1 IN
    /\ wtimers' = TimerAdded(wtimers, left)
    /\ timer' = left /\ expired' = FALSE
    /\ UNCHANGED <<wlate, ticking>>

AtMost(a, b) == IF a < b THEN a ELSE b
AtLeast(a, b) == IF a > b THEN a ELSE b

NeedsTimer == expired

AddService ==
    LET m == Head(wmail)
        max == AtLeast(m.max, min_interval_ms)
        ms == AtMost(interval, max)
    IN  /\ cursor = 0 /\ wmail # <<>> /\ m.method = "AddService"
        /\ wmail' = Tail(wmail)
        /\ interval' = ms
        /\ conn_srvs' = Append(conn_srvs, [srv |-> m.srv, max |-> max])
        /\ IF NeedsTimer THEN AddWakeupTimer(ms) ELSE UNCHANGED ofTimers
        /\ UNCHANGED <<sleepVars, cursor, toWake, wstopping, adds>>

UpdateBegins ==
    /\ cursor = 0 /\ wmail # <<>> /\ Head(wmail).method = "Update"
    /\ wmail' = Tail(wmail)
    /\ cursor' = 1
    /\ UNCHANGED <<sleepVars, ofTimers, conn_srvs, interval, toWake, wstopping, adds>>

Erased(i) == SubSeq(conn_srvs, 1, i - 1) \o SubSeq(conn_srvs, i + 1, Len(conn_srvs))

\* ServiceSleepTime of a blocked service, by the blocked_time that is there.
IdleTooLong(item) ==
    sat[item.srv] \in {"leaving", "out"} /\ age[item.srv] * kPeriod > item.max

UpdateLooks ==
    LET item == conn_srvs[cursor] IN
    /\ cursor \in DOMAIN conn_srvs /\ ~ toWake
    /\ IF sat[item.srv] = "dead"
       THEN conn_srvs' = Erased(cursor) /\ UNCHANGED <<cursor, toWake>>
       ELSE /\ toWake' = IdleTooLong(item)
            /\ cursor' = IF IdleTooLong(item) THEN cursor ELSE cursor + 1
            /\ UNCHANGED conn_srvs
    /\ UNCHANGED <<sleepVars, ofTimers, wmail, interval, wstopping, adds>>

\* The bool that WakeUp returns has no bit in common with kServiceStop, so
\* the loop goes on.
UpdateWakes ==
    /\ toWake
    /\ WakeUp(conn_srvs[cursor].srv, "kInterrupt")
    /\ conn_srvs' = Erased(cursor)
    /\ toWake' = FALSE
    /\ UNCHANGED <<waitsIn, sstopping, age, armed, late, owed, brief, disturbed>>
    /\ UNCHANGED <<ofTimers, wmail, interval, cursor, wstopping, adds>>

\* Mutant: no new timer when there is nobody to look at.
GoesOnWithItems == ~ wstopping /\ conn_srvs # <<>>
GoesOn == ~ wstopping

UpdateEnds ==
    /\ cursor = Len(conn_srvs) + 1
    /\ cursor' = 0
    /\ IF GoesOn THEN AddWakeupTimer(interval) ELSE UNCHANGED ofTimers
    /\ UNCHANGED <<sleepVars, wmail, conn_srvs, interval, toWake, wstopping, adds>>

\* The callback.  When it cannot post, the service is stopping, and the timer
\* it then removes would only have failed as well.
WakeupCallback ==
    /\ wlate > 0
    /\ wlate' = wlate - 1
    /\ wmail' = IF wstopping THEN wmail ELSE Append(wmail, [method |-> "Update"])
    /\ UNCHANGED <<sleepVars, wtimers, timer, expired, ticking, conn_srvs, interval,
                   cursor, toWake, wstopping, adds>>

StopWakeup ==
    /\ ~ wstopping /\ wstopping' = TRUE
    /\ UNCHANGED <<sleepVars, ofTimers, wmail, conn_srvs, interval, cursor, toWake, adds>>

\* One tick of the timer thread; it calls the timers that are due before it
\* drops them.
Tick ==
    /\ ~ ticking
    /\ ticking' = TRUE
    /\ SleepTick
    /\ wtimers' = Shift(wtimers) /\ wlate' = wtimers[1]
    /\ timer' = (IF timer = 0 THEN 0 ELSE timer - 1)
    /\ UNCHANGED <<expired, ofService>>

TickEnds ==
    /\ ticking /\ wlate = 0 /\ \A s \in Sleepers : late[s] = 0
    /\ ticking' = FALSE
    /\ expired' = (timer = 0)
    /\ UNCHANGED <<sleepVars, wtimers, wlate, timer, ofService>>

Update == UpdateBegins \/ UpdateLooks \/ UpdateWakes \/ UpdateEnds

InSleep(A) == A /\ UNCHANGED <<ofTimers, ofService>>

WakeupNext ==
    \/ \E s \in Sleepers :
         \/ InSleep(SleeperNext(s) \/ OthersNext(s) \/ SleepCallback(s))
         \/ \E ms \in IdleTimes : WakeupIfWaitTimeout(s, ms)
    \/ AddService \/ Update \/ WakeupCallback \/ StopWakeup
    \/ Tick \/ TickEnds

WakeupSystem == WakeupInit /\ [][WakeupNext]_wakeupVars

-----------------------------------------------------------------------------
Registered(s) == \E i \in DOMAIN conn_srvs : conn_srvs[i].srv = s

\* A registered service does not wait for ever, whatever it waits for.
IdleIsInterrupted ==
    \A s \in Sleepers :
        (Registered(s) /\ waitsIn[s] # "none")
            ~> (waitsIn[s] = "none" \/ wstopping \/ \E t \in Sleepers : sat[t] = "stuck")
=============================================================================
