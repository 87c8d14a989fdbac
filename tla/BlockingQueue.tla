--------------------------- MODULE BlockingQueue ---------------------------
(***************************************************************************)
(* BlockingQueue: a queue behind a mutex, whose pop waits on a condition   *)
(* variable until there is an item or its thread is interrupted.  The      *)
(* interruption flag is set without the mutex; who sets it calls wakeAll   *)
(* next.  pop reads the flag in the wait's predicate and once more after.  *)
(***************************************************************************)
EXTENDS Integers, Sequences, FiniteSets

CONSTANTS
    Consumers,
    Goods,       \* each is pushed once
    Nobody

ASSUME ConsumersAssumption == Nobody \notin Consumers

VARIABLES
    items,       \* queue_
    lock,        \* the consumer that holds mutex_ between two steps of pop
    popAt,       \* "user", "waiting", "notified", "decided" or "gone"
    flagged,     \* interrupted threads
    wakeDue,     \* has a flag been set without a wakeAll after it?
    itemState    \* "new", "queued" or "popped"

blockingVars == <<items, lock, popAt, flagged, wakeDue, itemState>>

BlockingInit ==
    /\ items = <<>>
    /\ lock = Nobody
    /\ popAt = [c \in Consumers |-> "user"]
    /\ flagged = {}
    /\ wakeDue = FALSE
    /\ itemState = [x \in Goods |-> "new"]

Waiting == {c \in Consumers : popAt[c] = "waiting"}

Notify(cs) == popAt' = [c \in Consumers |-> IF c \in cs THEN "notified" ELSE popAt[c]]

\* Mutant: notifies only for the first item, for one thread.
NotifyAfterPushFirst(n) ==
    IF n > 1 THEN {{}} ELSE {cs \in SUBSET Waiting : Cardinality(cs) = 1}

\* The threads a push of the n-th item may wake: one, or all of them.
NotifyAfterPush(n) ==
    IF n > 1 THEN {Waiting} ELSE {cs \in SUBSET Waiting : Cardinality(cs) = 1}

PushItem(x) ==
    /\ lock = Nobody
    /\ itemState[x] = "new"
    /\ itemState' = [itemState EXCEPT ![x] = "queued"]
    /\ items' = Append(items, x)
    /\ IF Waiting = {} THEN UNCHANGED popAt
       ELSE \E cs \in NotifyAfterPush(Len(items) + 1) : Notify(cs)
    /\ UNCHANGED <<lock, flagged, wakeDue>>

\* The predicate of pop's wait, with the mutex held.
PopTest(c) ==
    /\ lock = Nobody
    /\ popAt[c] \in {"user", "notified"}
    /\ IF items # <<>> \/ c \in flagged
       THEN /\ popAt' = [popAt EXCEPT ![c] = "decided"]
            /\ lock' = c
       ELSE /\ popAt' = [popAt EXCEPT ![c] = "waiting"]
            /\ UNCHANGED lock
    /\ UNCHANGED <<items, flagged, wakeDue, itemState>>

GivesUp(c) == c \in flagged

PopTakes(c) ==
    /\ popAt[c] = "decided"
    /\ ~ GivesUp(c)
    /\ itemState' = [itemState EXCEPT ![Head(items)] = "popped"]
    /\ items' = Tail(items)
    /\ popAt' = [popAt EXCEPT ![c] = "user"]
    /\ lock' = Nobody
    /\ UNCHANGED <<flagged, wakeDue>>

\* pop returns false, and the item it may have been woken for stays.
PopGivesUp(c) ==
    /\ popAt[c] = "decided"
    /\ GivesUp(c)
    /\ popAt' = [popAt EXCEPT ![c] = "gone"]
    /\ lock' = Nobody
    /\ UNCHANGED <<items, flagged, wakeDue, itemState>>

SpuriousWakeup(c) ==
    /\ c \in Waiting
    /\ Notify({c})
    /\ UNCHANGED <<items, lock, flagged, wakeDue, itemState>>

\* Thread::Interrupt, without the mutex.
InterruptConsumer(c) ==
    /\ c \notin flagged
    /\ flagged' = flagged \cup {c}
    /\ wakeDue' = TRUE
    /\ UNCHANGED <<items, lock, popAt, itemState>>

\* cond_.notify_all().
WakeAllTargets == Waiting

WakeAll ==
    /\ lock = Nobody
    /\ wakeDue
    /\ wakeDue' = FALSE
    /\ Notify(WakeAllTargets)
    /\ UNCHANGED <<items, lock, flagged, itemState>>

Consumer(c) == PopTest(c) \/ PopTakes(c) \/ PopGivesUp(c)

BlockingNext ==
    \/ \E x \in Goods : PushItem(x)
    \/ \E c \in Consumers :
         Consumer(c) \/ SpuriousWakeup(c) \/ InterruptConsumer(c)
    \/ WakeAll

BlockingSpec == BlockingInit /\ [][BlockingNext]_blockingVars

-----------------------------------------------------------------------------
\* While a thread sleeps beside an item, another one is awake to take it, or
\* a wakeAll is still to come: an interrupted thread that was woken for an
\* item and leaves it does not strand the others.  No interrupted thread
\* sleeps on after the wakeAll.
NoItemStranded ==
    /\ items # <<>> /\ Waiting # {} =>
           wakeDue \/ \E c \in Consumers \ flagged : popAt[c] \in {"notified", "decided"}
    /\ ~ wakeDue => Waiting \cap flagged = {}

=============================================================================
