----------------------------- MODULE MCWaiting -----------------------------
(***************************************************************************)
(* Services that wait, and what ends their waiting: IOService for sockets, *)
(* the timer thread for sleeps and WakeupService for all.  Both halves     *)
(* share no state, so one instance checks them: part is the one that       *)
(* moves, the other stays in its initial state.                            *)
(***************************************************************************)
EXTENDS WakeupService, IOService, TLC

CONSTANTS s1, s2, f1, f3

\* Each service reads from one socket.
UsesOne == (s1 :> {f1}) @@ (s2 :> {f3})

VARIABLE part
waitingVars == <<part, wakeupVars, vars>>

WaitingInit == WakeupInit /\ Init /\ part \in {"sleep", "io"}

Sleeping(A) == part = "sleep" /\ A
Reading(A) == part = "io" /\ A

WaitingNext ==
    \/ Sleeping(WakeupNext) /\ UNCHANGED <<part, vars>>
    \/ Reading(Next) /\ UNCHANGED <<part, wakeupVars>>

\* The scheduler resumes what it has been told to, the timer thread ticks and
\* calls the timers that are due, and the epoll thread runs.  Nobody has to
\* sleep, signal, read or stop.
WaitingFairness ==
    /\ \A s \in Sleepers :
         /\ WF_wakeupVars(Sleeping(InSleep(SwapOut(s) \/ Resume(s))))
         /\ WF_wakeupVars(Sleeping(InSleep(SleepCallback(s))))
    /\ WF_wakeupVars(Sleeping(AddService \/ Update))
    /\ WF_wakeupVars(Sleeping(WakeupCallback))
    /\ WF_wakeupVars(Sleeping(Tick \/ TickEnds))
    /\ WF_vars(Reading(RunStep))
    /\ \A s \in Services : WF_vars(Reading(ReadStep(s)))

WaitingSpec == WaitingInit /\ [][WaitingNext]_waitingVars /\ WaitingFairness
=============================================================================
