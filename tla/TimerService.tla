--------------------------- MODULE TimerService ---------------------------
(***************************************************************************)
(* The hierarchical timing wheel of mcast::TimerService: one array of      *)
(* lists for the near future and four coarser ones whose lists are sorted  *)
(* down as time reaches them.  One thread runs the wheel; any thread adds  *)
(* and deletes timers.                                                     *)
(*                                                                         *)
(* One action is one critical section of mutex_, or the fetch_add of       *)
(* cur_time_, which happens outside of it.  A list is modelled by the set  *)
(* of timers whose slot it is.  Times are uint32_t: their range is exactly *)
(* what the five arrays span, so the model computes modulo that span.      *)
(***************************************************************************)
EXTENDS Naturals

CONSTANTS
    Timers,         \* the TimerSlot objects that may be alive at a time
    kSection1Num,   \* lists of the first array (256)
    kSection2Num,   \* lists of each of the four others (64)
    kPeriod,        \* milliseconds of a tick (10)
    Requests        \* the milliseconds AddTimer is called with

\* Ticks that section s of the coarse arrays spends on one of its lists; the
\* four of them take Grain(4) ticks.
Grain(s) ==
    CASE s = 0 -> kSection1Num
      [] s = 1 -> kSection1Num * kSection2Num
      [] s = 2 -> kSection1Num * kSection2Num * kSection2Num
      [] s = 3 -> kSection1Num * kSection2Num * kSection2Num * kSection2Num
      [] s = 4 -> kSection1Num * kSection2Num * kSection2Num * kSection2Num
                    * kSection2Num

Span == Grain(4)

ASSUME WheelAssumption ==
    /\ kSection1Num \in Nat \ {0, 1}
    /\ kSection2Num \in Nat \ {0, 1}
    /\ kPeriod \in Nat \ {0}
    /\ Requests \subseteq 0 .. Span - 1

VARIABLES
    cur_time,
    tm, slot,   \* of each timer; NoList is the null slot
    state,      \* "none", "armed" (in a list), "expired" (spliced out of its
                \* list) or "called" (its callback has returned)
    deleted,    \* has DeleteTimer returned true for it, and left it alive?
    pc,         \* where Run is
    curtime,    \* the argument of the Update in progress
    section     \* the section it is to tick next

vars == <<cur_time, tm, slot, state, deleted, pc, curtime, section>>

NoList == <<>>

Init ==
    /\ cur_time = 1
    /\ tm = [t \in Timers |-> 0]
    /\ slot = [t \in Timers |-> NoList]
    /\ state = [t \in Timers |-> "none"]
    /\ deleted = [t \in Timers |-> FALSE]
    /\ pc = "sleep"
    /\ curtime = 0
    /\ section = 0

-----------------------------------------------------------------------------
(* Where a timer belongs                                                   *)

GetSection2Index(t, s) == (t \div Grain(s)) % kSection2Num

\* Unsigned subtraction.
Minus(a, b) == (a + Span - b) % Span

\* <<0, i>> is time_slot_section1_[i], <<s + 1, i>> time_slot_section2_[s][i].
AddSection1(t) == <<0, t % kSection1Num>>
AddSection2(s, t) == <<s + 1, GetSection2Index(t, s)>>

\* Mutant: the near array takes one tick too many.
DoAddOneMore(now, t) ==
    LET tm_dx == Minus(t, now) IN
    CASE tm_dx <= kSection1Num -> AddSection1(t)
      [] tm_dx > kSection1Num /\ tm_dx < Grain(1) -> AddSection2(0, t)
      [] tm_dx >= Grain(1) /\ tm_dx < Grain(2) -> AddSection2(1, t)
      [] tm_dx >= Grain(2) /\ tm_dx < Grain(3) -> AddSection2(2, t)
      [] OTHER -> AddSection2(3, t)

\* The list DoAdd puts a timer for time t into.
DoAdd(now, t) ==
    LET tm_dx == Minus(t, now) IN
    CASE tm_dx < kSection1Num -> AddSection1(t)
      [] tm_dx >= kSection1Num /\ tm_dx < Grain(1) -> AddSection2(0, t)
      [] tm_dx >= Grain(1) /\ tm_dx < Grain(2) -> AddSection2(1, t)
      [] tm_dx >= Grain(2) /\ tm_dx < Grain(3) -> AddSection2(2, t)
      [] OTHER -> AddSection2(3, t)

\* Milliseconds rounded to the nearest tick.
Timeout(ms) == ((ms + kPeriod \div 2) % Span) \div kPeriod

-----------------------------------------------------------------------------
(* Callers                                                                 *)

\* A timeout of no tick is called back at once, in the caller's thread and
\* before any handle exists: nothing of the wheel changes.
AddTimer(t, ms) ==
    LET timeout == Timeout(ms)
        due == (cur_time + timeout) % Span IN
    /\ state[t] = "none"
    /\ timeout # 0
    /\ tm' = [tm EXCEPT ![t] = due]
    /\ slot' = [slot EXCEPT ![t] = DoAdd(cur_time, due)]
    /\ state' = [state EXCEPT ![t] = "armed"]
    /\ UNCHANGED <<cur_time, deleted, pc, curtime, section>>

\* The TimerSlots of ts are destroyed; the others keep what they have.
Destroy(ts) ==
    /\ state' = [t \in Timers |-> IF t \in ts THEN "none" ELSE state[t]]
    /\ tm' = [t \in Timers |-> IF t \in ts THEN 0 ELSE tm[t]]
    /\ slot' = [t \in Timers |-> IF t \in ts THEN NoList ELSE slot[t]]
    /\ deleted' = [t \in Timers |-> t \notin ts /\ deleted[t]]

\* The weak handle of a living timer locks; with a null slot nothing is
\* erased and true is returned all the same.  Each timer is deleted at most
\* once at a time, as SleepService and WakeupService do.
DeleteTimer(t) ==
    /\ state[t] # "none"
    /\ ~deleted[t]
    /\ IF slot[t] # NoList
         THEN Destroy({t})
         ELSE /\ deleted' = [deleted EXCEPT ![t] = TRUE]
              /\ UNCHANGED <<tm, slot, state>>
    /\ UNCHANGED <<cur_time, pc, curtime, section>>

-----------------------------------------------------------------------------
(* The thread that runs the wheel                                          *)

\* Mutant: cur_time_ is read and not advanced.
TickStands ==
    /\ pc = "sleep"
    /\ curtime' = cur_time
    /\ section' = 0
    /\ pc' = IF cur_time % kSection1Num = 0 THEN "section2" ELSE "splice"
    /\ UNCHANGED <<cur_time, tm, slot, state, deleted>>

\* One elapsed period: cur_time_.fetch_add(1), then Update of the old value.
Tick ==
    /\ pc = "sleep"
    /\ curtime' = cur_time
    /\ cur_time' = (cur_time + 1) % Span
    /\ section' = 0
    /\ pc' = IF cur_time % kSection1Num = 0 THEN "section2" ELSE "splice"
    /\ UNCHANGED <<tm, slot, state, deleted>>

Members(list) == {t \in Timers : slot[t] = list}

\* Mutant: stops after the first coarse section.
TickSection2Once ==
    LET i == GetSection2Index(curtime, section)
        list == <<section + 1, i>> IN
    /\ pc = "section2"
    /\ slot' = [t \in Timers |-> IF t \in Members(list)
                                   THEN DoAdd(curtime, tm[t]) ELSE slot[t]]
    /\ pc' = "splice"
    /\ UNCHANGED <<cur_time, tm, state, deleted, curtime, section>>

\* TickSection2 sorts one list down; Update goes on to the next section when
\* this one has come round to its first list.
TickSection2 ==
    LET i == GetSection2Index(curtime, section)
        list == <<section + 1, i>> IN
    /\ pc = "section2"
    /\ slot' = [t \in Timers |-> IF t \in Members(list)
                                   THEN DoAdd(curtime, tm[t]) ELSE slot[t]]
    /\ IF i = 0 /\ section < 3
         THEN section' = section + 1 /\ UNCHANGED pc
         ELSE pc' = "splice" /\ UNCHANGED section
    /\ UNCHANGED <<cur_time, tm, state, deleted, curtime>>

\* Update takes the list of this tick and forgets its timers' slots.
Splice ==
    LET list == AddSection1(curtime) IN
    /\ pc = "splice"
    /\ state' = [t \in Timers |-> IF t \in Members(list) THEN "expired"
                                  ELSE state[t]]
    /\ slot' = [t \in Timers |-> IF t \in Members(list) THEN NoList
                                 ELSE slot[t]]
    /\ pc' = "call"
    /\ UNCHANGED <<cur_time, tm, deleted, curtime, section>>

\* ... and calls them back without the lock.
Callback(t) ==
    /\ pc = "call"
    /\ state[t] = "expired"
    /\ state' = [state EXCEPT ![t] = "called"]
    /\ UNCHANGED <<cur_time, tm, slot, deleted, pc, curtime, section>>

\* The list goes out of scope and its timers with it.
UpdateReturns ==
    /\ pc = "call"
    /\ \A t \in Timers : state[t] # "expired"
    /\ Destroy({t \in Timers : state[t] = "called"})
    /\ pc' = "sleep"
    /\ UNCHANGED <<cur_time, curtime, section>>

\* Run ends when Stop has interrupted the thread.
RunEnds ==
    /\ pc = "sleep"
    /\ pc' = "stopped"
    /\ UNCHANGED <<cur_time, tm, slot, state, deleted, curtime, section>>

RunStep ==
    \/ Tick \/ TickSection2 \/ Splice \/ UpdateReturns
    \/ \E t \in Timers : Callback(t)

Next ==
    \/ \E t \in Timers : DeleteTimer(t) \/ \E ms \in Requests : AddTimer(t, ms)
    \/ RunStep \/ RunEnds

Spec == Init /\ [][Next]_vars

\* Time passes, and callbacks return.
FairSpec == Spec /\ WF_vars(RunStep)

-----------------------------------------------------------------------------
(* Properties                                                              *)

Lists == ({0} \X (0 .. kSection1Num - 1)) \cup ((1 .. 4) \X (0 .. kSection2Num - 1))

\* A timer's slot is null exactly when it is in no list of the wheel, so that
\* DeleteTimer erases from the right one.
SlotWhileArmed == \A t \in Timers : state[t] = "armed" <=> slot[t] # NoList

\* Every variable keeps its type.
TypeOK ==
    /\ cur_time \in 0 .. Span - 1
    /\ tm \in [Timers -> 0 .. Span - 1]
    /\ slot \in [Timers -> Lists \cup {NoList}]
    /\ state \in [Timers -> {"none", "armed", "expired", "called"}]
    /\ deleted \in [Timers -> BOOLEAN]
    /\ pc \in {"sleep", "section2", "splice", "call", "stopped"}
    /\ curtime \in 0 .. Span - 1
    /\ section \in 0 .. 3
    /\ SlotWhileArmed

\* The tick whose Update has not spliced its list yet.
NextTick == IF pc \in {"section2", "splice"} THEN curtime ELSE cur_time

\* A timer is called back by the Update of the tick it was set for: no other
\* one finds it in its list.
FiresOnItsTick == \A t \in Timers : state[t] = "expired" => tm[t] = curtime

\* Sorting a list down moves every timer to another list: appending to the
\* list it iterates over, TickSection2 would never end.
CascadeDescends ==
    pc = "section2" =>
        \A t \in Timers :
            slot[t] = <<section + 1, GetSection2Index(curtime, section)>>
                => DoAdd(curtime, tm[t])[1] # section + 1

\* No armed timer is passed over: its tick is still to come, within the
\* longest timeout there is (a missed one would wait a whole span), its slot is
\* the list DeleteTimer erases it from, and no cascade puts it back into the
\* list that TickSection2 is about to clear.
NeverMissed ==
    /\ SlotWhileArmed
    /\ CascadeDescends
    /\ \A t \in Timers : state[t] = "armed" =>
         \E ms \in Requests : Minus(tm[t], NextTick) <= Timeout(ms) + 1

\* A timer that is not deleted is called back, unless the system stops.
TimerFires ==
    \A t \in Timers :
        state[t] = "armed" ~> state[t] # "armed" \/ pc = "stopped"

=============================================================================
