----------------------------- MODULE BlockQueue -----------------------------
(***************************************************************************)
(* mcast::Queue: a queue of fixed-size blocks that come from MemCache and  *)
(* are kept in order in a CircularBuffer.  begin_ and end_ are a block and *)
(* an offset in it.  A block the queue has outgrown is not given back when *)
(* its last object is popped but by the Pop after that, so that begin_ can *)
(* stand at the end of its block.  MemCache carves blocks one behind the   *)
(* other, so that the end of a block may be the beginning of another one;  *)
(* it hands out again what was given back in any order.                    *)
(***************************************************************************)
EXTENDS CircularBuffer, FiniteSets

CONSTANTS
    Blocks,        \* the addresses of blocks
    Behind,        \* the block that begins where one ends, or Raw
    PerBlock,      \* NumOfObjectsPerBlock
    QueueValues,   \* the values that are pushed
    MaxQueue       \* bound on the elements of the queue

ASSUME PerBlockAssumption == PerBlock \in Nat \ {0}

\* The map has at most a block per element and one more, and room to double.
ASSUME QueueAssumption ==
    /\ MaxQueue \in Nat /\ 2 * (MaxQueue + 1) <= SizeMod
    /\ Raw \notin Blocks /\ Raw \notin QueueValues
    /\ Behind \in [Blocks -> Blocks \cup {Raw}]

VARIABLES
    map,         \* map_, the blocks of the queue
    cell,        \* the content of each block's slots
    qbegin,      \* begin_
    qend,        \* end_
    qsize,       \* size_
    freeBlocks,  \* what MemCache can hand out
    lostBlocks,  \* the blocks that nobody has a pointer to
    destroyed,   \* the slots that the last call ran ~T on
    queueSeq     \* what was pushed and not popped

blockQueueVars ==
    <<map, cell, qbegin, qend, qsize, freeBlocks, lostBlocks, destroyed, queueSeq>>

QueueSlots == Blocks \X (0 .. PerBlock - 1)

Iterator(b) == [block |-> b, pos |-> 0]
AtBlockEnd(it) == it.pos >= PerBlock

QueueInit ==
    \E b \in Blocks :
        /\ map = PushBack(NewRing(1), b)
        /\ cell = [c \in Blocks |-> RawBlock(PerBlock)]
        /\ qbegin = Iterator(b)
        /\ qend = Iterator(b)
        /\ qsize = 0
        /\ freeBlocks = Blocks \ {b}
        /\ lostBlocks = {}
        /\ destroyed = {}
        /\ queueSeq = <<>>

\* Mutant: the new block is begun at its second slot.
EndAfterPushSkips(b) == [block |-> b, pos |-> IF PerBlock > 1 THEN 1 ELSE 0]

\* end_ once Push has a slot, in the new block b if the last one is full.
EndAfterPush(b) == Iterator(b)

\* Push, with the block MemCache would give it.
QueuePush(x, b) ==
    LET full == AtBlockEnd(qend)
        at == IF full THEN EndAfterPush(b) ELSE qend
    IN  /\ Len(queueSeq) < MaxQueue
        /\ full => b \in freeBlocks
        /\ map' = IF full THEN PushBack(map, b) ELSE map
        /\ freeBlocks' = IF full THEN freeBlocks \ {b} ELSE freeBlocks
        /\ cell' = [cell EXCEPT ![at.block][at.pos] = x]
        /\ qend' = [at EXCEPT !.pos = @ + 1]
        /\ qsize' = qsize + 1
        /\ destroyed' = {}
        /\ queueSeq' = Append(queueSeq, x)
        /\ UNCHANGED <<qbegin, lostBlocks>>

DropFront(m) == PopFront(m)

\* Pop: first the exhausted block goes back to MemCache.
QueuePop ==
    LET over == AtBlockEnd(qbegin)
        rest == DropFront(map)
        at == IF over THEN Iterator(RingFront(rest)) ELSE qbegin
    IN  /\ queueSeq # <<>>
        /\ map' = IF over THEN rest ELSE map
        /\ freeBlocks' = IF over THEN freeBlocks \cup {RingFront(map)} ELSE freeBlocks
        /\ cell' = [cell EXCEPT ![at.block][at.pos] = Raw]
        /\ destroyed' = {<<at.block, at.pos>>}
        /\ qbegin' = [at EXCEPT !.pos = @ + 1]
        /\ qsize' = qsize - 1
        /\ queueSeq' = Tail(queueSeq)
        /\ UNCHANGED <<qend, lostBlocks>>

\* Mutant: the last block is destroyed as a whole.
LoopEndWhole(b) == PerBlock

\* Where Clear stops in a block after the first: at its end or at end_.pos,
\* which at the end of the last block is also the begin of the one behind it.
LoopEnd(b) ==
    CASE b = qend.block -> qend.pos
      [] b # qend.block /\ AtBlockEnd(qend) /\ Behind[qend.block] = b -> 0
      [] OTHER -> PerBlock

\* Clear runs ~T on the slots of the first block from begin_ to its end,
\* constructed or not, and on those of the others up to LoopEnd.
ClearDestroys ==
    LET blocks == Elements(map)
    IN  {s \in QueueSlots :
            \/ s[1] = blocks[1] /\ s[2] >= qbegin.pos
            \/ \E n \in 2 .. Len(blocks) : s[1] = blocks[n] /\ s[2] < LoopEnd(s[1])}

\* The blocks that Clear gives back, and the one it keeps.
ClearedBlocks ==
    LET blocks == Elements(map) IN {blocks[n] : n \in 1 .. Len(blocks) - 1}
KeptBlock ==
    LET blocks == Elements(map) IN blocks[Len(blocks)]

\* What ~T makes of bytes that are no object is not said here, only where it
\* runs.  What is left in a block that is given back belongs to nobody.
DestroyAll ==
    LET dead == ClearDestroys
        cleared == ClearedBlocks
    IN  /\ destroyed' = dead
        /\ cell' = [b \in Blocks |-> [i \in 0 .. PerBlock - 1 |->
                       IF b \in cleared \/ <<b, i>> \in dead THEN Raw ELSE cell[b][i]]]

\* An empty queue in block b.
Restart(b) ==
    /\ qbegin' = Iterator(b)
    /\ qend' = Iterator(b)
    /\ qsize' = 0
    /\ queueSeq' = <<>>

QueueClear ==
    LET last == KeptBlock
    IN  /\ DestroyAll
        /\ map' = [map EXCEPT !.begin = (@ + Len(Elements(map)) - 1) % SizeMod,
                              !.size = 1,
                              !.vector = [i \in DOMAIN @ |->
                                            IF @[i] = last THEN last ELSE Raw]]
        /\ freeBlocks' = freeBlocks \cup ClearedBlocks
        /\ Restart(last)
        /\ UNCHANGED lostBlocks

\* ~Queue, which is Clear and forgets the block that Clear keeps; the
\* constructor of the next queue gets block b.
QueueRenew(b) ==
    /\ b \in freeBlocks \cup ClearedBlocks
    /\ DestroyAll
    /\ map' = PushBack(NewRing(1), b)
    /\ freeBlocks' = (freeBlocks \cup ClearedBlocks) \ {b}
    /\ lostBlocks' = lostBlocks \cup {KeptBlock}
    /\ Restart(b)

QueueNext ==
    \/ \E x \in QueueValues, b \in Blocks : QueuePush(x, b)
    \/ QueuePop
    \/ QueueClear
    \/ \E b \in Blocks : QueueRenew(b)

QueueSpec == QueueInit /\ [][QueueNext]_blockQueueVars

\* What Front can return: the object at begin_.pos, which at the end of a block
\* is the first slot of the queue's block behind it, or whatever else is there.
QueueFronts ==
    LET behind == Behind[qbegin.block]
    IN  IF ~ AtBlockEnd(qbegin) THEN {cell[qbegin.block][qbegin.pos]}
        ELSE IF \E n \in DOMAIN Elements(map) : Elements(map)[n] = behind
        THEN {cell[behind][0]}
        ELSE QueueValues \cup {Raw}

-----------------------------------------------------------------------------
\* The slots from begin_ to end_, block by block.
Slots ==
    LET blocks == Elements(map)
        first(n) == IF n = 1 THEN qbegin.pos ELSE 0
        last(n) == IF n = Len(blocks) THEN qend.pos ELSE PerBlock
    IN  {s \in (1 .. Len(blocks)) \X (0 .. PerBlock - 1) :
             first(s[1]) <= s[2] /\ s[2] < last(s[1])}

Before(r, s) == r[1] < s[1] \/ (r[1] = s[1] /\ r[2] < s[2])

\* Every block is in the map, there once, or free, or was the last one of a
\* queue that ended; the two iterators point into the first and the last one.
BlocksAreAccounted ==
    LET blocks == Elements(map)
        used == {blocks[n] : n \in DOMAIN blocks}
    IN  /\ \A m, n \in DOMAIN blocks : blocks[m] = blocks[n] => m = n
        /\ freeBlocks = Blocks \ (used \cup lostBlocks)
        /\ lostBlocks \cap used = {}
        /\ qbegin.block = blocks[1]
        /\ qend.block = blocks[Len(blocks)]

\* The queue is the sequence of what was pushed and not popped: slot by slot
\* in order, across blocks that are given back and used again while others
\* are still in the map, through Clear and from one queue to the next.
QueueIsSequence ==
    LET blocks == Elements(map)
        rank(s) == 1 + Cardinality({r \in Slots : Before(r, s)})
    IN  /\ BlocksAreAccounted
        /\ qsize = Len(queueSeq)
        /\ Cardinality(Slots) = Len(queueSeq)
        /\ \A s \in Slots : cell[blocks[s[1]]][s[2]] = queueSeq[rank(s)]

\* The slots of the queue's objects.
HeldSlots == LET blocks == Elements(map) IN {<<blocks[s[1]], s[2]>> : s \in Slots}

\* Objects in the block behind the full last one, where Clear stops at once.
SkippedSlots ==
    {s \in HeldSlots :
        AtBlockEnd(qend) /\ s[1] = Behind[qend.block] /\ s[1] # qbegin.block}

\* The slots behind end_ in the only block, which Clear does not stop before.
UnbegunSlots ==
    {s \in QueueSlots : Len(Elements(map)) = 1 /\ s[1] = qend.block /\ s[2] >= qend.pos}

\* A call that leaves an empty queue at the begin of its block, as Clear and
\* ~Queue do, may pass over the objects in the block behind a full last one,
\* and in an only block it may also destroy what was never constructed.
ClearedRoughly(gone) ==
    /\ queueSeq' = <<>> /\ qbegin'.pos = 0
    /\ gone \ SkippedSlots \subseteq destroyed'
    /\ destroyed' \subseteq gone \cup UnbegunSlots

\* ~T runs for the objects that leave the queue and for nothing else, whichever
\* block they are in; Clear and ~Queue depart from this in two ways, no further.
DestroysWhatLeaves ==
    [][LET gone == HeldSlots \ HeldSlots'
       IN  destroyed' = gone \/ ClearedRoughly(gone)]_blockQueueVars

\* What QueueTest expects of Front, "ASSERT_EQ(q.Front(), 2)" after a Pop: of
\* a queue with elements it is the oldest one.
FrontIsOldest == queueSeq # <<>> => QueueFronts = {queueSeq[1]}
=============================================================================
