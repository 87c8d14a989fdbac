----------------------------- MODULE MCStorage -----------------------------
(***************************************************************************)
(* What the rest of mcast is built from: containers, memory, statuses,     *)
(* stacks, messages and the stopwatch.  They know nothing of each other,   *)
(* so one instance checks them all: part is the one that moves, the others *)
(* stay in one initial state each.                                         *)
(***************************************************************************)
EXTENDS BlockQueue, ObjectCache, Status, Context, Messages, Timer

CONSTANTS b1, b2, b3, t1, t2, s1, s2, s3, a1, a2, a3, a4, c0, c1, c2

\* The blocks of one buffer, in the order they were carved.
OneBuffer == [b \in Blocks |-> CASE b = b1 -> b2 [] b = b2 -> b3 [] OTHER -> Raw]

\* The empty text and one whose length takes two bytes.
SomePayloads == {<<>>, [i \in 1 .. 130 |-> 65]}

\* Fractions of one and of two digits, and a counter that changes its speed.
CpuInfo ==
    {[mhz |-> <<0>>, fraction |-> <<0, 3>>, invariant |-> TRUE],
     [mhz |-> <<0>>, fraction |-> <<0, 4>>, invariant |-> TRUE],
     [mhz |-> <<0>>, fraction |-> <<1>>, invariant |-> TRUE],
     [mhz |-> <<0>>, fraction |-> <<1>>, invariant |-> FALSE]}

VARIABLE part
storageVars == <<part, ringVars, blockQueueVars, cacheVars, statusVars,
                 contextVars, messageVars, stopwatchVars>>

StorageInit ==
    /\ RingInit /\ QueueInit /\ CacheInit /\ StatusInit
    /\ ContextInit /\ MessageInit /\ StopwatchInit
    /\ part \in {"ring", "queue", "cache", "status", "context", "message", "stopwatch"}
    /\ part # "ring" => ring.capacity = 1
    /\ part # "context" => platform = "linux_x86_64"
    /\ part # "message" => msg["a"] = New(EchoRequest)
    /\ part # "stopwatch" => ~ cpuinfo.invariant /\ counter = 0
    /\ qbegin.block = b1

StorageNext ==
    \/ /\ part = "ring" /\ RingNext
       /\ UNCHANGED <<part, blockQueueVars, cacheVars, statusVars, contextVars,
                      messageVars, stopwatchVars>>
    \/ /\ part = "queue" /\ QueueNext
       /\ UNCHANGED <<part, ringVars, cacheVars, statusVars, contextVars,
                      messageVars, stopwatchVars>>
    \/ /\ part = "cache" /\ CacheNext
       /\ UNCHANGED <<part, ringVars, blockQueueVars, statusVars, contextVars,
                      messageVars, stopwatchVars>>
    \/ /\ part = "status" /\ StatusNext
       /\ UNCHANGED <<part, ringVars, blockQueueVars, cacheVars, contextVars,
                      messageVars, stopwatchVars>>
    \/ /\ part = "context" /\ ContextNext
       /\ UNCHANGED <<part, ringVars, blockQueueVars, cacheVars, statusVars,
                      messageVars, stopwatchVars>>
    \/ /\ part = "message" /\ MessageNext
       /\ UNCHANGED <<part, ringVars, blockQueueVars, cacheVars, statusVars,
                      contextVars, stopwatchVars>>
    \/ /\ part = "stopwatch" /\ StopwatchNext
       /\ UNCHANGED <<part, ringVars, blockQueueVars, cacheVars, statusVars,
                      contextVars, messageVars>>

StorageSpec == StorageInit /\ [][StorageNext]_storageVars
=============================================================================
