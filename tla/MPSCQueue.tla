----------------------------- MODULE MPSCQueue -----------------------------
(***************************************************************************)
(* The intrusive multi-producer, single-consumer queue of util/MPSCQueue.h.*)
(* A push swings tail_ with an exchange and links the old tail afterwards: *)
(* in between the list is cut.  head_ is a stub whose value is gone; a pop *)
(* moves the value of its successor into it and hands the stub out.        *)
(*                                                                         *)
(* One action is one access to an atomic.  A popped node is freed and its  *)
(* memory may come back as a new node, so a late write to it would show.   *)
(***************************************************************************)
EXTENDS Integers, Sequences, FiniteSets

CONSTANTS
    Nodes,       \* addresses of nodes
    Stub,        \* the node the queue is built with
    Producers,
    Values,
    None         \* nullptr; no value

ASSUME StubAssumption == Stub \in Nodes
ASSUME NullAssumption == None \notin Nodes \cup Values
ASSUME ProducersAssumption == IsFiniteSet(Producers)

VARIABLES
    next, value,           \* of the nodes
    tail, head, size,      \* tail_, head_, size_
    pc, node, old_tail,    \* Push, of each producer
    cpc, local,            \* Pop: `next' while it moves, then `old_head'
    got,                   \* the value of the node Pop returned last
    fresh,                 \* nodes that are not constructed
    popped,                \* nodes the consumer has got and not freed
    order                  \* history: the nodes from head_ on, as exchanged

producerVars == <<pc, node, old_tail>>
consumerVars == <<cpc, local, got>>
vars == <<next, value, tail, head, size, producerVars, consumerVars, fresh,
          popped, order>>

Init ==
    /\ next = [n \in Nodes |-> None]
    /\ value = [n \in Nodes |-> None]
    /\ tail = Stub
    /\ head = Stub
    /\ size = 0
    /\ pc = [p \in Producers |-> "idle"]
    /\ node = [p \in Producers |-> None]
    /\ old_tail = [p \in Producers |-> None]
    /\ cpc = "idle"
    /\ local = None
    /\ got = None
    /\ fresh = Nodes \ {Stub}
    /\ popped = {}
    /\ order = <<Stub>>

-----------------------------------------------------------------------------
(* Push                                                                    *)

\* Mutant: the size is not counted up.
PushUncounted(p, n, v) ==
    /\ pc[p] = "idle"
    /\ n \in fresh
    /\ fresh' = fresh \ {n}
    /\ value' = [value EXCEPT ![n] = v]
    /\ node' = [node EXCEPT ![p] = n]
    /\ pc' = [pc EXCEPT ![p] = "exchange"]
    /\ UNCHANGED <<next, tail, head, size, old_tail, consumerVars, popped, order>>

\* A producer makes a node, and Push begins with size_.fetch_add.
PushCount(p, n, v) ==
    /\ pc[p] = "idle"
    /\ n \in fresh
    /\ fresh' = fresh \ {n}
    /\ value' = [value EXCEPT ![n] = v]
    /\ size' = size + 1
    /\ node' = [node EXCEPT ![p] = n]
    /\ pc' = [pc EXCEPT ![p] = "exchange"]
    /\ UNCHANGED <<next, tail, head, old_tail, consumerVars, popped, order>>

\* tail_.exchange(node)
PushExchange(p) ==
    /\ pc[p] = "exchange"
    /\ old_tail' = [old_tail EXCEPT ![p] = tail]
    /\ tail' = node[p]
    /\ order' = Append(order, node[p])
    /\ pc' = [pc EXCEPT ![p] = "link"]
    /\ UNCHANGED <<next, value, head, size, node, consumerVars, fresh, popped>>

\* old_tail->next.store(node)
PushLink(p) ==
    /\ pc[p] = "link"
    /\ next' = [next EXCEPT ![old_tail[p]] = node[p]]
    /\ node' = [node EXCEPT ![p] = None]
    /\ old_tail' = [old_tail EXCEPT ![p] = None]
    /\ pc' = [pc EXCEPT ![p] = "idle"]
    /\ UNCHANGED <<value, tail, head, size, consumerVars, fresh, popped, order>>

-----------------------------------------------------------------------------
(* Pop, by the only consumer                                               *)

\* head_->next.load; a null pointer is returned, and nothing has changed.
PopLoad ==
    /\ cpc = "idle"
    /\ next[head] # None
    /\ local' = next[head]
    /\ cpc' = "move"
    /\ UNCHANGED <<next, value, tail, head, size, producerVars, got, fresh,
                   popped, order>>

\* Mutant: hands out the stub with the value it had.
PopMoveNothing ==
    /\ cpc = "move"
    /\ got' = value[head]
    /\ local' = head
    /\ head' = local
    /\ order' = Tail(order)
    /\ cpc' = "count"
    /\ UNCHANGED <<next, value, tail, size, producerVars, fresh, popped>>

\* Mutant: does not advance head_.
PopMoveStays ==
    /\ cpc = "move"
    /\ value' = [value EXCEPT ![head] = value[local]]
    /\ got' = value[local]
    /\ local' = None
    /\ cpc' = "idle"
    /\ UNCHANGED <<next, tail, head, size, producerVars, fresh, popped, order>>

\* The value moves into the old head, and head_ moves on.  Neither is seen by
\* a producer.
PopMove ==
    /\ cpc = "move"
    /\ value' = [value EXCEPT ![head] = value[local], ![local] = None]
    /\ got' = value[local]
    /\ local' = head
    /\ head' = local
    /\ order' = Tail(order)
    /\ cpc' = "count"
    /\ UNCHANGED <<next, tail, size, producerVars, fresh, popped>>

\* size_.fetch_sub; the old head is returned.
PopCount ==
    /\ cpc = "count"
    /\ size' = size - 1
    /\ popped' = popped \cup {local}
    /\ local' = None
    /\ cpc' = "idle"
    /\ UNCHANGED <<next, value, tail, head, producerVars, got, fresh, order>>

\* The owner of a popped node frees it; a node made there starts anew.
Free(n) ==
    /\ n \in popped
    /\ popped' = popped \ {n}
    /\ fresh' = fresh \cup {n}
    /\ next' = [next EXCEPT ![n] = None]
    /\ value' = [value EXCEPT ![n] = None]
    /\ UNCHANGED <<tail, head, size, producerVars, consumerVars, order>>

Push(p) == PushExchange(p) \/ PushLink(p)
Pop == PopLoad \/ PopMove \/ PopCount

Next ==
    \/ \E p \in Producers :
         Push(p) \/ \E n \in Nodes, v \in Values : PushCount(p, n, v)
    \/ Pop
    \/ \E n \in Nodes : Free(n)

Spec == Init /\ [][Next]_vars

\* Pushes are completed, and the consumer keeps popping.
FairSpec ==
    /\ Spec
    /\ \A p \in Producers : WF_vars(Push(p))
    /\ WF_vars(Pop)

-----------------------------------------------------------------------------
(* Properties                                                              *)

InList(n) == \E i \in DOMAIN order : order[i] = n

\* Every variable keeps its type; Pop never moves through a null pointer, and
\* the list is never without its stub.
TypeOK ==
    /\ next \in [Nodes -> Nodes \cup {None}]
    /\ value \in [Nodes -> Values \cup {None}]
    /\ tail \in Nodes
    /\ head \in Nodes
    /\ size \in Int
    /\ pc \in [Producers -> {"idle", "exchange", "link"}]
    /\ node \in [Producers -> Nodes \cup {None}]
    /\ old_tail \in [Producers -> Nodes \cup {None}]
    /\ cpc \in {"idle", "move", "count"}
    /\ local \in Nodes \cup {None}
    /\ cpc # "idle" => local # None
    /\ got \in Values \cup {None}
    /\ fresh \subseteq Nodes
    /\ popped \subseteq Nodes
    /\ order \in Seq(Nodes) /\ order # <<>>

\* The chain is the order of the exchanges, and it is cut only where a
\* producer is still about to write the link: what a Push has completed is
\* reached as soon as the pushes before it are.
ChainFollowsExchanges ==
    /\ head = order[1]
    /\ tail = order[Len(order)]
    /\ next[tail] = None
    /\ \A i \in 1 .. Len(order) - 1 :
         \/ next[order[i]] = order[i + 1]
         \/ /\ next[order[i]] = None
            /\ \E p \in Producers : /\ pc[p] = "link"
                                    /\ old_tail[p] = order[i]
                                    /\ node[p] = order[i + 1]

\* No producer writes to a node the consumer has been given: a node whose link
\* is still to be written cannot be popped.
NoWriteAfterPop ==
    \A p \in Producers : pc[p] = "link" =>
        /\ InList(old_tail[p])
        /\ old_tail[p] # local \/ cpc # "count"
        /\ old_tail[p] \notin popped \cup fresh

\* size_, a size_t, counts the values in the list, the pushes under way and
\* the pop that is about to count itself: it never wraps below zero, and is
\* zero, as Clear asserts, when a pop finds nothing and no push is under way.
SizeIsExact ==
    size = Len(order) - 1
           + Cardinality({p \in Producers : pc[p] = "exchange"})
           + (IF cpc = "count" THEN 1 ELSE 0)

\* Whatever pushes are cut off between their steps, the list, the memory behind
\* it and its size fit each other.
QueueIsConsistent == ChainFollowsExchanges /\ NoWriteAfterPop /\ SizeIsExact

\* The values that are in the queue, for the abstract specification.
Items == [i \in 1 .. Len(order) - 1 |-> value[order[i + 1]]]

Fifo == INSTANCE FifoQueue WITH items <- Items

\* The queue is a FIFO queue, whose push takes effect at the exchange.
ImplementsFifo == Fifo!Spec

\* A pushed value is not stuck: the consumer reaches its node.
PushedIsPopped ==
    \A n \in Nodes :
        (\E p \in Producers : pc[p] = "link" /\ node[p] = n) ~> head = n
=============================================================================
