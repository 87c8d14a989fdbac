--------------------------- MODULE CircularBuffer ---------------------------
(***************************************************************************)
(* mcast::CircularBuffer, a growing ring of power-of-two capacity.  The    *)
(* buffer is a record of the class's fields; begin_ and end_ only ever     *)
(* count up, in a word of SizeMod values (2^64 in the code), and are       *)
(* reduced to an index when a slot is touched.  A slot without a live      *)
(* object holds Raw.                                                       *)
(***************************************************************************)
EXTENDS Integers, Sequences

CONSTANTS
    Raw,          \* the content of a slot without an object
    SizeMod,      \* the number of values of a size_t
    RingValues,   \* the values that are pushed
    RingCaps,     \* the capacities asked for
    MaxRing       \* bound on the elements of the buffer

ASSUME SizeModAssumption == SizeMod \in Nat \ {0}

\* The powers of two of a word, by what makes them so: no odd divisor but 1.
PowersOfTwo ==
    {p \in 1 .. SizeMod : \A d, e \in 1 .. p : d * e = p => d = 1 \/ d % 2 = 0}

\* A word has a number of bits, and the elements of a buffer, each of at least
\* a byte, and the block they outgrow leave room for a block of twice the size.
ASSUME RingAssumption ==
    /\ SizeMod \in PowersOfTwo
    /\ MaxRing \in Nat /\ 2 * MaxRing <= SizeMod
    /\ RingCaps \subseteq Nat \ {0}
    /\ \A cap \in RingCaps : 2 * cap <= SizeMod
    /\ Raw \notin RingValues

\* Mutant: the capacity is taken as it is asked for.
PowOfTwoNot(x) == x

\* The smallest power of two from x on, as the smeared bits of x - 1 give it.
\* Zero wraps around to zero, and so does what has no such power in a word.
PowOfTwo(x) ==
    IF x = 0 THEN 0
    ELSE (CHOOSE p \in PowersOfTwo :
             p >= x /\ \A q \in PowersOfTwo : q >= x => p <= q) % SizeMod

RawBlock(n) == [i \in 0 .. n - 1 |-> Raw]

NewRing(cap) ==
    [vector |-> RawBlock(PowOfTwo(cap)), capacity |-> PowOfTwo(cap),
     size |-> 0, begin |-> 0, end |-> 0]

\* p & (capacity_ - 1), for a capacity that is a power of two.
GetIndex(r, p) == p % r.capacity

Get(r, p) == r.vector[GetIndex(r, p)]

\* A construction or destruction in the slot of position p.
SetSlot(r, p, x) == [r EXCEPT !.vector[GetIndex(r, p)] = x]

Succ(p) == (p + 1) % SizeMod

\* The objects move to the front of a block of twice the size.
Grow(r, cap) ==
    [r EXCEPT !.vector = [i \in 0 .. cap - 1 |->
                            IF i < r.size THEN Get(r, (r.begin + i) % SizeMod)
                                          ELSE Raw],
              !.begin = 0,
              !.end = r.size,
              !.capacity = cap]

PushBack(r, x) ==
    LET room == IF r.size = r.capacity THEN Grow(r, r.capacity * 2) ELSE r
    IN  [SetSlot(room, room.end, x) EXCEPT !.end = Succ(@), !.size = @ + 1]

RingFront(r) == Get(r, r.begin)

RingBack(r) == Get(r, (r.end + SizeMod - 1) % SizeMod)

PopFront(r) ==
    [SetSlot(r, r.begin, Raw) EXCEPT !.begin = Succ(@), !.size = @ - 1]

\* The positions from the first to one before the last, as an iterator that
\* starts at begin() and is advanced until it equals end() visits them.
Positions(r) == [i \in 1 .. (r.end - r.begin) % SizeMod |->
                    (r.begin + i - 1) % SizeMod]

Elements(r) == [i \in DOMAIN Positions(r) |-> Get(r, Positions(r)[i])]

\* Destroys size_ objects from begin_ on and starts again at the front.
Clear(r) ==
    LET dead == {GetIndex(r, (r.begin + i) % SizeMod) : i \in 0 .. r.size - 1}
    IN  [r EXCEPT !.vector = [i \in DOMAIN @ |-> IF i \in dead THEN Raw ELSE @[i]],
                  !.size = 0, !.begin = 0, !.end = 0]

-----------------------------------------------------------------------------
(* A user of one buffer, beside the sequence the buffer is meant to be.    *)
VARIABLES
    ring,      \* the buffer
    ringSeq    \* what was pushed and not popped

ringVars == <<ring, ringSeq>>

RingInit ==
    /\ \E cap \in RingCaps : ring = NewRing(cap)
    /\ ringSeq = <<>>

RingPush(x) ==
    /\ Len(ringSeq) < MaxRing
    /\ ring' = PushBack(ring, x)
    /\ ringSeq' = Append(ringSeq, x)

RingPop ==
    /\ ringSeq # <<>>
    /\ ring' = PopFront(ring)
    /\ ringSeq' = Tail(ringSeq)

RingClear ==
    /\ ring' = Clear(ring)
    /\ ringSeq' = <<>>

RingNext ==
    \/ \E x \in RingValues : RingPush(x)
    \/ RingPop
    \/ RingClear

RingSpec == RingInit /\ [][RingNext]_ringVars

\* Through growth, through the wrap of the positions around the block and
\* around the word, and after Clear: the iterators visit what was pushed, in
\* order; Front and Back are its ends, and exactly its slots hold objects (so
\* that nothing is constructed over a live object or destroyed twice).
RingIsSequence ==
    /\ Elements(ring) = ringSeq
    /\ ring.size = Len(ringSeq)
    /\ ring.capacity = PowOfTwo(ring.capacity)
    /\ ringSeq # <<>> => /\ RingFront(ring) = ringSeq[1]
                         /\ RingBack(ring) = ringSeq[Len(ringSeq)]
    /\ {i \in DOMAIN ring.vector : ring.vector[i] # Raw} =
           {GetIndex(ring, Positions(ring)[i]) : i \in DOMAIN Positions(ring)}
=============================================================================
