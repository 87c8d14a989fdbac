--------------------------- MODULE Threads_proofs ---------------------------
(***************************************************************************)
(* What threads share through util/, for any number of them: the lock-free *)
(* queue is a FIFO queue and never touches a node it has handed out, no    *)
(* consumer of a BlockingQueue sleeps beside an item that nobody is to     *)
(* take, and a task of a ThreadPool is in one queue or with one worker, or *)
(* done.                                                                   *)
(***************************************************************************)
EXTENDS MPSCQueue, BlockingQueue, ThreadPool, SequenceTheorems, FiniteSetTheorems, TLAPS

-----------------------------------------------------------------------------
(* MPSCQueue.  QueueInv adds to the chain's invariant who owns a node: a   *)
(* node is unmade, with a producer before its exchange, in the list, with  *)
(* the consumer inside Pop, or popped, and nowhere twice; and which        *)
(* producer owes which link.                                               *)

\* A node in the list is there once, and neither unmade nor given away; nor is
\* the node of a push before its exchange, or of a pop before its return.
OwnInv ==
    /\ \A i, j \in DOMAIN order : order[i] = order[j] => i = j
    /\ \A i \in DOMAIN order : order[i] \notin fresh \cup popped
    /\ fresh \cap popped = {}
    /\ cpc = "count" => local \notin fresh \cup popped /\ ~InList(local)
    /\ \A p \in Producers : pc[p] = "exchange" =>
         /\ node[p] \in Nodes \ (fresh \cup popped)
         /\ ~InList(node[p])
         /\ cpc = "count" => local # node[p]
         /\ \A q \in Producers : pc[q] = "exchange" /\ q # p => node[q] # node[p]

\* A node before its exchange has no successor.
NextInv ==
    /\ \A n \in fresh : next[n] = None
    /\ \A p \in Producers : pc[p] = "exchange" => next[node[p]] = None

\* A producer after its exchange owes one link of the list, and no other
\* producer owes the same.
LinkInv ==
    /\ \A p \in Producers : pc[p] = "link" =>
         \E i \in 1 .. Len(order) - 1 : /\ old_tail[p] = order[i]
                                        /\ node[p] = order[i + 1]
                                        /\ next[order[i]] = None
    /\ \A p, q \in Producers :
         pc[p] = "link" /\ pc[q] = "link" /\ p # q => old_tail[p] # old_tail[q]

\* A pop that has loaded a link holds the second node of the list.
PopInv ==
    cpc = "move" => Len(order) > 1 /\ local = order[2] /\ next[order[1]] = local

\* Every node behind the stub, and every node to be pushed, has a value.
ValueInv ==
    /\ \A i \in 2 .. Len(order) : value[order[i]] \in Values
    /\ \A p \in Producers : pc[p] = "exchange" => value[node[p]] \in Values

QueueInv ==
    /\ TypeOK
    /\ ChainFollowsExchanges
    /\ OwnInv
    /\ NextInv
    /\ LinkInv
    /\ PopInv
    /\ ValueInv

-----------------------------------------------------------------------------
\* What an exchange appends to the list, and what a pop leaves of it.
LEMMA OrderFacts ==
    ASSUME NEW q \in Seq(Nodes), q # <<>>
    PROVE  /\ Len(q) \in Nat /\ Len(q) > 0 /\ DOMAIN q = 1 .. Len(q)
           /\ \A i \in 1 .. Len(q) : q[i] \in Nodes
           /\ Tail(q) \in Seq(Nodes) /\ Len(Tail(q)) = Len(q) - 1
           /\ DOMAIN Tail(q) = 1 .. Len(q) - 1
           /\ \A i \in 1 .. Len(q) - 1 : Tail(q)[i] = q[i + 1]
           /\ \A n \in Nodes :
                /\ Append(q, n) \in Seq(Nodes) /\ Append(q, n) # <<>>
                /\ Len(Append(q, n)) = Len(q) + 1
                /\ DOMAIN Append(q, n) = 1 .. Len(q) + 1
                /\ Append(q, n)[Len(q) + 1] = n
                /\ \A i \in 1 .. Len(q) : Append(q, n)[i] = q[i]
  OBVIOUS

\* The queue as it is built.
LEMMA QueueInit == Init => QueueInv
  <1> SUFFICES ASSUME Init PROVE QueueInv
    OBVIOUS
  <1> USE StubAssumption, NullAssumption DEF Init
  <1>1. order \in Seq(Nodes) /\ order # <<>> /\ Len(order) = 1 /\ order[1] = Stub
        /\ DOMAIN order = 1 .. 1
    OBVIOUS
  <1>2. TypeOK
    BY <1>1 DEF TypeOK
  <1>3. ChainFollowsExchanges /\ LinkInv /\ PopInv /\ ValueInv
    BY <1>1 DEF ChainFollowsExchanges, LinkInv, PopInv, ValueInv
  <1>4. OwnInv /\ NextInv
    BY <1>1 DEF OwnInv, NextInv, InList
  <1> QED
    BY <1>2, <1>3, <1>4 DEF QueueInv

\* A new node is nobody's and has no successor.
LEMMA PushCountKeeps ==
    ASSUME QueueInv, NEW p \in Producers, NEW n \in Nodes, NEW v \in Values,
           PushCount(p, n, v)
    PROVE  QueueInv'
  <1> USE NullAssumption DEF QueueInv, PushCount, producerVars, consumerVars
  <1>1. TypeOK'
    BY DEF TypeOK
  <1>2. ChainFollowsExchanges'
    BY DEF TypeOK, ChainFollowsExchanges
  <1>3. OwnInv'
    BY DEF TypeOK, OwnInv, InList
  <1>4. NextInv' /\ LinkInv' /\ PopInv'
    BY DEF TypeOK, NextInv, LinkInv, PopInv
  <1>5. ValueInv'
    BY OrderFacts DEF TypeOK, ValueInv, OwnInv
  <1> QED
    BY <1>1, <1>2, <1>3, <1>4, <1>5

\* The exchange appends the node and makes its producer owe the link from the
\* tail before it, which no other producer owes: nothing was behind it.
LEMMA PushExchangeKeeps ==
    ASSUME QueueInv, NEW p \in Producers, PushExchange(p)
    PROVE  QueueInv'
  <1> USE NullAssumption DEF QueueInv, producerVars, consumerVars
  <1> DEFINE n == node[p]
             L == Len(order)
  <1>1. /\ pc[p] = "exchange" /\ n \in Nodes /\ ~InList(n) /\ next[n] = None
        /\ n \notin fresh \cup popped /\ (cpc = "count" => local # n)
        /\ value[n] \in Values
        /\ \A q \in Producers : pc[q] = "exchange" /\ q # p => node[q] # n
    BY DEF PushExchange, OwnInv, NextInv, ValueInv
  <1>2. /\ old_tail' = [old_tail EXCEPT ![p] = tail]
        /\ tail' = n
        /\ order' = Append(order, n)
        /\ pc' = [pc EXCEPT ![p] = "link"]
        /\ UNCHANGED <<next, value, head, size, node, cpc, local, got, fresh, popped>>
    BY DEF PushExchange
  <1>3. /\ L \in Nat /\ L > 0 /\ DOMAIN order = 1 .. L
        /\ \A i \in 1 .. L : order[i] \in Nodes
        /\ order' \in Seq(Nodes) /\ order' # <<>>
        /\ Len(order') = L + 1 /\ DOMAIN order' = 1 .. L + 1
        /\ order'[L + 1] = n
        /\ \A i \in 1 .. L : order'[i] = order[i]
    BY <1>1, <1>2, OrderFacts DEF TypeOK
  <1>4. \A i \in 1 .. L : order[i] # n
    BY <1>1, <1>3 DEF InList
  <1>5. \A m : (\E i \in DOMAIN order' : order'[i] = m) => InList(m) \/ m = n
    BY <1>3 DEF InList
  <1>6. \A q \in Producers : /\ pc'[q] = "link" => q = p \/ pc[q] = "link"
                             /\ pc'[q] = "exchange" => q # p /\ pc[q] = "exchange"
                             /\ q # p => old_tail'[q] = old_tail[q]
    BY <1>2 DEF TypeOK
  <1>7. pc'[p] = "link" /\ old_tail'[p] = tail /\ tail = order[L] /\ next[tail] = None
    BY <1>2 DEF TypeOK, ChainFollowsExchanges
  <1> HIDE DEF n, L
  <1>8. TypeOK'
    BY <1>1, <1>2, <1>3 DEF TypeOK
  <1>9. ChainFollowsExchanges'
    <2>1. head' = order'[1] /\ tail' = order'[Len(order')] /\ next'[tail'] = None
      BY <1>1, <1>2, <1>3 DEF ChainFollowsExchanges
    <2>2. ASSUME NEW i \in 1 .. L
          PROVE  \/ next'[order'[i]] = order'[i + 1]
                 \/ /\ next'[order'[i]] = None
                    /\ \E q \in Producers : /\ pc'[q] = "link"
                                            /\ old_tail'[q] = order'[i]
                                            /\ node'[q] = order'[i + 1]
      <3>1. CASE i = L
        BY <1>2, <1>3, <1>7, <3>1 DEF n
      <3>2. CASE i # L
        <4>1. i \in 1 .. L - 1 /\ i + 1 \in 1 .. L /\ i \in 1 .. L
          BY <1>3, <3>2
        <4>2. CASE next[order[i]] = order[i + 1]
          BY <1>2, <1>3, <4>1, <4>2
        <4>3. CASE next[order[i]] # order[i + 1]
          <5>1. PICK q \in Producers : /\ pc[q] = "link"
                                       /\ old_tail[q] = order[i]
                                       /\ node[q] = order[i + 1]
            BY <4>1, <4>3 DEF ChainFollowsExchanges, L
          <5>2. q # p /\ pc'[q] = "link"
            BY <1>1, <1>2, <5>1 DEF TypeOK
          <5>3. next[order[i]] = None
            BY <4>1, <4>3 DEF ChainFollowsExchanges, L
          <5> QED
            BY <1>2, <1>3, <1>6, <4>1, <5>1, <5>2, <5>3
        <4> QED
          BY <4>2, <4>3
      <3> QED
        BY <3>1, <3>2
    <2>3. Len(order') - 1 = L
      BY <1>3
    <2> QED
      BY <2>1, <2>2, <2>3 DEF ChainFollowsExchanges
  <1>10. OwnInv'
    <2>1. \A i, j \in 1 .. L + 1 : order'[i] = order'[j] => i = j
      BY <1>3, <1>4 DEF OwnInv
    <2>2. \A i \in 1 .. L + 1 : order'[i] \notin fresh \cup popped
      BY <1>1, <1>3 DEF OwnInv
    <2>3. \A q \in Producers : pc'[q] = "exchange" =>
             /\ node'[q] \in Nodes \ (fresh' \cup popped')
             /\ ~\E i \in DOMAIN order' : order'[i] = node'[q]
             /\ cpc' = "count" => local' # node'[q]
             /\ \A r \in Producers : pc'[r] = "exchange" /\ r # q => node'[r] # node'[q]
      BY <1>1, <1>2, <1>5, <1>6 DEF OwnInv
    <2>4. cpc' = "count" => /\ local' \notin fresh' \cup popped'
                             /\ ~\E i \in DOMAIN order' : order'[i] = local'
      BY <1>1, <1>2, <1>5 DEF OwnInv
    <2> QED
      BY <1>2, <1>3, <2>1, <2>2, <2>3, <2>4 DEF OwnInv, InList
  <1>11. NextInv'
    BY <1>2, <1>6 DEF NextInv
  <1>12. LinkInv'
    <2>1. ASSUME NEW q \in Producers, pc'[q] = "link"
          PROVE  \E i \in 1 .. Len(order') - 1 : /\ old_tail'[q] = order'[i]
                                                 /\ node'[q] = order'[i + 1]
                                                 /\ next'[order'[i]] = None
      <3>1. CASE q = p
        <4>1. L \in 1 .. Len(order') - 1
          BY <1>3
        <4> QED
          BY <1>2, <1>3, <1>7, <3>1, <4>1 DEF n
      <3>2. CASE q # p
        <4>1. PICK i \in 1 .. L - 1 : /\ old_tail[q] = order[i]
                                      /\ node[q] = order[i + 1]
                                      /\ next[order[i]] = None
          BY <1>6, <2>1, <3>2 DEF LinkInv, L
        <4>2. i \in 1 .. Len(order') - 1 /\ i \in 1 .. L /\ i + 1 \in 1 .. L
          BY <1>3
        <4> QED
          BY <1>2, <1>3, <1>6, <3>2, <4>1, <4>2
      <3> QED
        BY <3>1, <3>2
    <2>2. \A q \in Producers : pc[q] = "link" => old_tail[q] # tail
      <3> SUFFICES ASSUME NEW q \in Producers, pc[q] = "link" PROVE old_tail[q] # tail
        OBVIOUS
      <3>1. PICK i \in 1 .. L - 1 : old_tail[q] = order[i]
        BY DEF LinkInv, L
      <3> QED
        BY <1>3, <1>7, <3>1 DEF OwnInv
    <2>3. \A q, r \in Producers :
            pc'[q] = "link" /\ pc'[r] = "link" /\ q # r => old_tail'[q] # old_tail'[r]
      BY <1>6, <1>7, <2>2 DEF LinkInv
    <2> QED
      BY <2>1, <2>3 DEF LinkInv
  <1>13. PopInv'
    BY <1>2, <1>3 DEF PopInv, L
  <1>14. ValueInv'
    BY <1>1, <1>2, <1>3, <1>6 DEF ValueInv, L
  <1> QED
    BY <1>8, <1>9, <1>10, <1>11, <1>12, <1>13, <1>14

\* The link is written where it was owed, and only there.
LEMMA PushLinkKeeps ==
    ASSUME QueueInv, NEW p \in Producers, PushLink(p)
    PROVE  QueueInv'
  <1> USE NullAssumption DEF QueueInv, producerVars, consumerVars
  <1>1. PICK k \in 1 .. Len(order) - 1 : /\ old_tail[p] = order[k]
                                         /\ node[p] = order[k + 1]
                                         /\ next[order[k]] = None
    BY DEF PushLink, LinkInv
  <1>2. /\ pc[p] = "link"
        /\ next' = [next EXCEPT ![order[k]] = order[k + 1]]
        /\ node' = [node EXCEPT ![p] = None]
        /\ old_tail' = [old_tail EXCEPT ![p] = None]
        /\ pc' = [pc EXCEPT ![p] = "idle"]
        /\ UNCHANGED <<value, tail, head, size, cpc, local, got, fresh, popped, order>>
    BY <1>1 DEF PushLink
  <1>3. /\ Len(order) \in Nat /\ Len(order) > 0 /\ DOMAIN order = 1 .. Len(order)
        /\ \A i \in 1 .. Len(order) : order[i] \in Nodes
        /\ k \in 1 .. Len(order) /\ k + 1 \in 1 .. Len(order)
    BY OrderFacts DEF TypeOK
  <1>4. /\ \A m \in Nodes : m # order[k] => next'[m] = next[m]
        /\ next'[order[k]] = order[k + 1]
        /\ \A i \in 1 .. Len(order) : i # k => order[i] # order[k]
    BY <1>2, <1>3 DEF TypeOK, OwnInv
  <1>5. \A q \in Producers : /\ pc'[q] # "idle" => q # p /\ pc'[q] = pc[q]
                             /\ q # p => node'[q] = node[q] /\ old_tail'[q] = old_tail[q]
                                         /\ pc'[q] = pc[q]
    BY <1>2 DEF TypeOK
  <1>6. TypeOK'
    BY <1>2, <1>3 DEF TypeOK
  <1>7. ChainFollowsExchanges'
    <2>1. next'[tail'] = None
      BY <1>2, <1>3, <1>4 DEF ChainFollowsExchanges, TypeOK
    <2>2. ASSUME NEW i \in 1 .. Len(order) - 1
          PROVE  \/ next'[order[i]] = order[i + 1]
                 \/ /\ next'[order[i]] = None
                    /\ \E q \in Producers : /\ pc'[q] = "link"
                                            /\ old_tail'[q] = order[i]
                                            /\ node'[q] = order[i + 1]
      <3>1. CASE i = k
        BY <1>4, <3>1
      <3>2. CASE i # k
        <4>1. order[i] \in Nodes /\ order[i] # order[k] /\ next'[order[i]] = next[order[i]]
          BY <1>3, <1>4, <3>2
        <4>2. CASE next[order[i]] = order[i + 1]
          BY <4>1, <4>2
        <4>3. CASE next[order[i]] # order[i + 1]
          <5>1. PICK q \in Producers : /\ pc[q] = "link"
                                       /\ old_tail[q] = order[i]
                                       /\ node[q] = order[i + 1]
            BY <4>3 DEF ChainFollowsExchanges
          <5>2. q # p
            BY <1>1, <4>1, <5>1
          <5>3. next[order[i]] = None
            BY <4>3 DEF ChainFollowsExchanges
          <5> QED
            BY <1>5, <4>1, <5>1, <5>2, <5>3
        <4> QED
          BY <4>2, <4>3
      <3> QED
        BY <3>1, <3>2
    <2> QED
      BY <1>2, <2>1, <2>2 DEF ChainFollowsExchanges
  <1>8. OwnInv'
    BY <1>2, <1>5 DEF OwnInv, InList
  <1>9. NextInv'
    <2>1. \A m \in fresh : m \in Nodes /\ m # order[k]
      BY <1>3 DEF OwnInv, TypeOK
    <2>2. \A q \in Producers : pc[q] = "exchange" => node[q] \in Nodes /\ node[q] # order[k]
      BY <1>3 DEF OwnInv, InList
    <2> QED
      BY <1>2, <1>4, <1>5, <2>1, <2>2 DEF NextInv
  <1>10. LinkInv'
    <2>1. ASSUME NEW q \in Producers, pc'[q] = "link"
          PROVE  \E i \in 1 .. Len(order) - 1 : /\ old_tail'[q] = order[i]
                                                /\ node'[q] = order[i + 1]
                                                /\ next'[order[i]] = None
      <3>1. q # p /\ pc[q] = "link" /\ old_tail'[q] = old_tail[q] /\ node'[q] = node[q]
        BY <1>5, <2>1
      <3>2. PICK i \in 1 .. Len(order) - 1 : /\ old_tail[q] = order[i]
                                             /\ node[q] = order[i + 1]
                                             /\ next[order[i]] = None
        BY <3>1 DEF LinkInv
      <3>3. order[i] # order[k] /\ order[i] \in Nodes
        BY <1>1, <1>2, <1>3, <3>1, <3>2 DEF LinkInv
      <3> QED
        BY <1>4, <3>1, <3>2, <3>3
    <2>2. \A q, r \in Producers :
            pc'[q] = "link" /\ pc'[r] = "link" /\ q # r => old_tail'[q] # old_tail'[r]
      BY <1>5 DEF LinkInv
    <2> QED
      BY <1>2, <2>1, <2>2 DEF LinkInv
  <1>11. PopInv'
    <2>1. CASE cpc = "move"
      <3>1. order[1] \in Nodes /\ next[order[1]] # None
        BY <1>3, <2>1 DEF PopInv, TypeOK
      <3>2. order[1] # order[k]
        BY <1>1, <3>1
      <3> QED
        BY <1>2, <1>4, <2>1, <3>1, <3>2 DEF PopInv
    <2>2. CASE cpc # "move"
      BY <1>2, <2>2 DEF PopInv
    <2> QED
      BY <2>1, <2>2
  <1>12. ValueInv'
    BY <1>2, <1>5 DEF ValueInv
  <1> QED
    BY <1>6, <1>7, <1>8, <1>9, <1>10, <1>11, <1>12

\* Loading a link changes nothing; a link that is there leads to the second
\* node of the list.
LEMMA PopLoadKeeps ==
    ASSUME QueueInv, PopLoad
    PROVE  QueueInv'
  <1> USE NullAssumption DEF QueueInv, PopLoad, producerVars, consumerVars
  <1>1. Len(order) \in Nat /\ Len(order) > 0
    BY OrderFacts DEF TypeOK
  <1>2. Len(order) > 1 /\ next[order[1]] = order[2]
    BY <1>1 DEF ChainFollowsExchanges
  <1>3. TypeOK'
    BY DEF TypeOK
  <1>4. ChainFollowsExchanges' /\ NextInv' /\ LinkInv' /\ ValueInv'
    BY DEF ChainFollowsExchanges, NextInv, LinkInv, ValueInv
  <1>5. OwnInv' /\ PopInv'
    BY <1>2 DEF OwnInv, InList, PopInv, ChainFollowsExchanges
  <1> QED
    BY <1>3, <1>4, <1>5

\* head_ moves on; nobody owes the link it followed, so nobody will write to
\* the node it leaves.
LEMMA PopMoveKeeps ==
    ASSUME QueueInv, PopMove
    PROVE  QueueInv'
  <1> USE NullAssumption DEF QueueInv, producerVars, consumerVars
  <1> DEFINE L == Len(order)
             a == order[1]
             b == order[2]
  <1>1. /\ cpc = "move" /\ local = b /\ head = a /\ L > 1 /\ next[a] = b
    BY DEF PopMove, PopInv, ChainFollowsExchanges
  <1>2. /\ value' = [value EXCEPT ![a] = value[b], ![b] = None]
        /\ got' = value[b]
        /\ local' = a /\ head' = b /\ order' = Tail(order) /\ cpc' = "count"
        /\ UNCHANGED <<next, tail, size, pc, node, old_tail, fresh, popped>>
    BY <1>1 DEF PopMove
  <1>3. /\ L \in Nat /\ DOMAIN order = 1 .. L
        /\ \A i \in 1 .. L : order[i] \in Nodes
        /\ order' \in Seq(Nodes) /\ Len(order') = L - 1 /\ DOMAIN order' = 1 .. L - 1
        /\ order' # <<>>
        /\ \A i \in 1 .. L - 1 : order'[i] = order[i + 1]
        /\ 1 \in 1 .. L /\ 2 \in 1 .. L /\ a \in Nodes /\ b \in Nodes /\ a # b
    <2>1. L \in Nat /\ DOMAIN order = 1 .. L /\ (\A i \in 1 .. L : order[i] \in Nodes)
      BY OrderFacts DEF TypeOK
    <2>2. /\ order' \in Seq(Nodes) /\ Len(order') = L - 1 /\ DOMAIN order' = 1 .. L - 1
          /\ \A i \in 1 .. L - 1 : order'[i] = order[i + 1]
      BY <1>2, OrderFacts DEF TypeOK
    <2>3. order' # <<>>
      BY <1>1, <2>1, <2>2
    <2>4. 1 \in 1 .. L /\ 2 \in 1 .. L
      BY <1>1, <2>1
    <2>5. a # b
      BY <2>1, <2>4 DEF OwnInv
    <2> QED
      BY <2>1, <2>2, <2>3, <2>4, <2>5
  <1>4. \A i \in 1 .. L - 1 : i + 1 \in 1 .. L /\ order'[i] # a
    BY <1>3 DEF OwnInv
  <1>5. value[b] \in Values
    BY <1>1, <1>3 DEF ValueInv
  <1> HIDE DEF L, a, b
  <1>6. TypeOK'
    BY <1>2, <1>3, <1>5 DEF TypeOK
  <1>7. ChainFollowsExchanges'
    <2>1. head' = order'[1] /\ tail' = order'[Len(order')] /\ next'[tail'] = None
      BY <1>1, <1>2, <1>3 DEF ChainFollowsExchanges, L, b
    <2>2. ASSUME NEW i \in 1 .. Len(order') - 1
          PROVE  \/ next'[order'[i]] = order'[i + 1]
                 \/ /\ next'[order'[i]] = None
                    /\ \E q \in Producers : /\ pc'[q] = "link"
                                            /\ old_tail'[q] = order'[i]
                                            /\ node'[q] = order'[i + 1]
      <3>1. i + 1 \in 1 .. L - 1 /\ i \in 1 .. L - 1
        BY <1>1, <1>3
      <3>2. order'[i] = order[i + 1] /\ order'[i + 1] = order[i + 1 + 1]
        BY <1>3, <3>1
      <3> QED
        BY <1>2, <3>1, <3>2 DEF ChainFollowsExchanges, L
    <2> QED
      BY <2>1, <2>2 DEF ChainFollowsExchanges
  <1>8. OwnInv'
    <2>1. \A i, j \in 1 .. L - 1 : order'[i] = order'[j] => i = j
      <3>1. \A i, j \in 1 .. L - 1 : i + 1 = j + 1 => i = j
        BY <1>3
      <3>2. \A i, j \in 1 .. L - 1 : order[i + 1] = order[j + 1] => i + 1 = j + 1
        BY <1>3, <1>4 DEF OwnInv
      <3> QED
        BY <1>3, <3>1, <3>2
    <2>2. \A i \in 1 .. L - 1 : order'[i] \notin fresh \cup popped
      BY <1>3, <1>4 DEF OwnInv
    <2>3. a \notin fresh \cup popped
      BY <1>3 DEF OwnInv, a
    <2>4. \A q \in Producers : pc[q] = "exchange" =>
             node[q] # a /\ ~\E i \in 1 .. L - 1 : order'[i] = node[q]
      <3>1. \A q \in Producers : pc[q] = "exchange" =>
               \A i \in 1 .. L : order[i] # node[q]
        BY <1>3 DEF OwnInv, InList
      <3> QED
        BY <1>3, <1>4, <3>1 DEF a
    <2> QED
      BY <1>2, <1>3, <1>4, <2>1, <2>2, <2>3, <2>4 DEF OwnInv, InList
  <1>9. NextInv'
    BY <1>2 DEF NextInv
  <1>10. LinkInv'
    <2>1. ASSUME NEW q \in Producers, pc[q] = "link"
          PROVE  \E i \in 1 .. Len(order') - 1 : /\ old_tail[q] = order'[i]
                                                 /\ node[q] = order'[i + 1]
                                                 /\ next[order'[i]] = None
      <3>1. PICK i \in 1 .. L - 1 : /\ old_tail[q] = order[i]
                                    /\ node[q] = order[i + 1]
                                    /\ next[order[i]] = None
        BY <2>1 DEF LinkInv, L
      <3>2. i # 1
        BY <1>1, <1>3, <3>1 DEF a
      <3>3. i - 1 \in 1 .. Len(order') - 1 /\ i - 1 \in 1 .. L - 1 /\ i \in 1 .. L - 1
            /\ (i - 1) + 1 = i
        BY <1>1, <1>3, <3>2
      <3>4. order'[i - 1] = order[i] /\ order'[i] = order[i + 1]
        BY <1>3, <3>3
      <3> QED
        BY <3>1, <3>3, <3>4
    <2> QED
      BY <1>2, <2>1 DEF LinkInv
  <1>11. PopInv'
    BY <1>2 DEF PopInv
  <1>12. ValueInv'
    <2>1. ASSUME NEW i \in 2 .. Len(order')
          PROVE  value'[order'[i]] \in Values
      <3>1. i \in 1 .. L - 1 /\ i + 1 \in 2 .. L /\ i + 1 \in 1 .. L
        BY <1>1, <1>3
      <3>2. order'[i] = order[i + 1] /\ order[i + 1] # a /\ order[i + 1] # b
        <4>1. order'[i] = order[i + 1] /\ order[i + 1] # a
          BY <1>3, <1>4, <3>1
        <4>2. \A j, k \in 1 .. L : order[j] = order[k] => j = k
          BY <1>3 DEF OwnInv
        <4>3. i + 1 # 2
          OBVIOUS
        <4> QED
          BY <1>3, <3>1, <4>1, <4>2, <4>3 DEF b
      <3> QED
        BY <1>2, <1>3, <3>1, <3>2 DEF ValueInv, TypeOK, L
    <2>2. ASSUME NEW q \in Producers, pc[q] = "exchange"
          PROVE  value'[node[q]] \in Values
      <3>1. node[q] \in Nodes /\ node[q] # a /\ node[q] # b
        BY <1>3, <2>2 DEF OwnInv, InList, a, b
      <3> QED
        BY <1>2, <2>2, <3>1 DEF ValueInv, TypeOK
    <2> QED
      BY <1>2, <2>1, <2>2 DEF ValueInv
  <1> QED
    BY <1>6, <1>7, <1>8, <1>9, <1>10, <1>11, <1>12

\* Pop returns the node it has left.
LEMMA PopCountKeeps ==
    ASSUME QueueInv, PopCount
    PROVE  QueueInv'
  <1> USE NullAssumption DEF QueueInv, PopCount, producerVars, consumerVars
  <1>1. TypeOK'
    BY DEF TypeOK
  <1>2. ChainFollowsExchanges' /\ NextInv' /\ LinkInv' /\ PopInv' /\ ValueInv'
    BY DEF ChainFollowsExchanges, NextInv, LinkInv, PopInv, ValueInv
  <1>3. OwnInv'
    BY DEF OwnInv, InList, TypeOK
  <1> QED
    BY <1>1, <1>2, <1>3

\* Freeing a popped node touches no node of the list.
LEMMA FreeKeeps ==
    ASSUME QueueInv, NEW n \in Nodes, Free(n)
    PROVE  QueueInv'
  <1> USE NullAssumption DEF QueueInv, Free, producerVars, consumerVars
  <1>0. /\ Len(order) \in Nat /\ Len(order) > 0 /\ DOMAIN order = 1 .. Len(order)
        /\ \A i \in 1 .. Len(order) : order[i] \in Nodes /\ order[i] # n
    BY OrderFacts DEF TypeOK, OwnInv
  <1>1. TypeOK'
    BY DEF TypeOK
  <1>2. \A m \in Nodes : m # n => next'[m] = next[m] /\ value'[m] = value[m]
    BY DEF TypeOK
  <1>3. next'[n] = None
    BY DEF TypeOK
  <1>4. ChainFollowsExchanges'
    BY <1>0, <1>2 DEF ChainFollowsExchanges
  <1>5. OwnInv'
    BY DEF OwnInv, InList, TypeOK
  <1>6. NextInv'
    BY <1>2, <1>3 DEF NextInv, OwnInv, TypeOK
  <1>7. LinkInv'
    BY <1>0, <1>2 DEF LinkInv
  <1>8. PopInv'
    BY <1>0, <1>2 DEF PopInv
  <1>9. ValueInv'
    BY <1>0, <1>2 DEF ValueInv, OwnInv
  <1> QED
    BY <1>1, <1>4, <1>5, <1>6, <1>7, <1>8, <1>9

-----------------------------------------------------------------------------
\* Every step keeps QueueInv.
LEMMA QueueNext == QueueInv /\ [Next]_vars => QueueInv'
  <1> SUFFICES ASSUME QueueInv, [Next]_vars PROVE QueueInv'
    OBVIOUS
  <1>1. ASSUME NEW p \in Producers, Push(p) PROVE QueueInv'
    BY <1>1, PushExchangeKeeps, PushLinkKeeps DEF Push
  <1>2. ASSUME NEW p \in Producers, NEW n \in Nodes, NEW v \in Values, PushCount(p, n, v)
        PROVE  QueueInv'
    BY <1>2, PushCountKeeps
  <1>3. CASE Pop
    BY <1>3, PopLoadKeeps, PopMoveKeeps, PopCountKeeps DEF Pop
  <1>4. ASSUME NEW n \in Nodes, Free(n) PROVE QueueInv'
    BY <1>4, FreeKeeps
  <1>5. CASE UNCHANGED vars
    BY <1>5 DEF vars, producerVars, consumerVars, QueueInv, TypeOK,
                ChainFollowsExchanges, OwnInv, NextInv, LinkInv, PopInv, ValueInv, InList
  <1> QED
    BY <1>1, <1>2, <1>3, <1>4, <1>5 DEF Next

\* The queue, any number of threads pushing into it, stays well formed.
THEOREM QueueInvariant == Spec => []QueueInv
  BY QueueInit, QueueNext, PTL DEF Spec

\* Every completed push is linked behind the one before it: the chain is the
\* order of the exchanges, cut only where a Push has not returned.
THEOREM ChainIsTheOrderOfPushes == Spec => []ChainFollowsExchanges
  <1>1. QueueInv => ChainFollowsExchanges
    BY DEF QueueInv
  <1> QED
    BY <1>1, QueueInvariant, PTL

\* Push never writes to a node that Pop has returned, whoever owns or reuses
\* its memory by then.
THEOREM PoppedNodesAreNotTouched == Spec => []NoWriteAfterPop
  <1>1. QueueInv => NoWriteAfterPop
    <2> SUFFICES ASSUME QueueInv, NEW p \in Producers, pc[p] = "link"
                 PROVE  /\ InList(old_tail[p])
                        /\ old_tail[p] # local \/ cpc # "count"
                        /\ old_tail[p] \notin popped \cup fresh
      BY DEF NoWriteAfterPop
    <2>1. PICK i \in 1 .. Len(order) - 1 : old_tail[p] = order[i]
      BY DEF QueueInv, LinkInv
    <2>2. i \in DOMAIN order
      BY OrderFacts DEF QueueInv, TypeOK
    <2>3. InList(old_tail[p])
      BY <2>1, <2>2 DEF InList
    <2> QED
      BY <2>1, <2>2, <2>3 DEF QueueInv, OwnInv
  <1> QED
    BY <1>1, QueueInvariant, PTL

-----------------------------------------------------------------------------
(* size_                                                                   *)

\* The pushes that are counted and not in the list yet.
Counted == {p \in Producers : pc[p] = "exchange"}

\* Finitely many; a push that begins, or takes effect, is one more or less.
LEMMA CountedFacts ==
    /\ IsFiniteSet(Counted) /\ Cardinality(Counted) \in Nat
    /\ \A p \in Producers :
         /\ p \notin Counted => Cardinality(Counted \cup {p}) = Cardinality(Counted) + 1
         /\ p \in Counted => Cardinality(Counted \ {p}) = Cardinality(Counted) - 1
  <1>1. IsFiniteSet(Counted)
    <2>1. Counted \in SUBSET Producers
      BY DEF Counted
    <2> QED
      BY <2>1, ProducersAssumption, FS_Subset
  <1> QED
    BY <1>1, FS_CardinalityType, FS_AddElement, FS_RemoveElement

LEMMA SizeStep == QueueInv /\ SizeIsExact /\ [Next]_vars => SizeIsExact'
  <1> SUFFICES ASSUME QueueInv, SizeIsExact, [Next]_vars PROVE SizeIsExact'
    OBVIOUS
  <1> USE DEF QueueInv, producerVars, consumerVars
  <1>1. /\ Len(order) \in Nat /\ Len(order) > 0
        /\ Len(Tail(order)) = Len(order) - 1
        /\ \A n \in Nodes : Len(Append(order, n)) = Len(order) + 1
    BY OrderFacts DEF TypeOK
  <1>2. size = Len(order) - 1 + Cardinality(Counted) + (IF cpc = "count" THEN 1 ELSE 0)
    BY DEF SizeIsExact, Counted
  <1>3. SUFFICES size' = Len(order') - 1 + Cardinality(Counted')
                         + (IF cpc' = "count" THEN 1 ELSE 0)
    BY DEF SizeIsExact, Counted
  <1>4. ASSUME NEW p \in Producers, NEW n \in Nodes, NEW v \in Values, PushCount(p, n, v)
        PROVE  size' = Len(order') - 1 + Cardinality(Counted')
                       + (IF cpc' = "count" THEN 1 ELSE 0)
    <2>1. Counted' = Counted \cup {p} /\ p \notin Counted
      BY <1>4 DEF PushCount, Counted, TypeOK
    <2>2. size' = size + 1 /\ UNCHANGED <<order, cpc>>
      BY <1>4 DEF PushCount
    <2> QED
      BY <1>1, <1>2, <2>1, <2>2, CountedFacts
  <1>5. ASSUME NEW p \in Producers, PushExchange(p)
        PROVE  size' = Len(order') - 1 + Cardinality(Counted')
                       + (IF cpc' = "count" THEN 1 ELSE 0)
    <2>1. Counted' = Counted \ {p} /\ p \in Counted /\ node[p] \in Nodes
      BY <1>5 DEF PushExchange, Counted, TypeOK, OwnInv
    <2>2. order' = Append(order, node[p]) /\ UNCHANGED <<size, cpc>>
      BY <1>5 DEF PushExchange
    <2> QED
      BY <1>1, <1>2, <2>1, <2>2, CountedFacts
  <1>6. ASSUME NEW p \in Producers, PushLink(p)
        PROVE  size' = Len(order') - 1 + Cardinality(Counted')
                       + (IF cpc' = "count" THEN 1 ELSE 0)
    <2>1. Counted' = Counted
      BY <1>6 DEF PushLink, Counted, TypeOK
    <2> QED
      BY <1>2, <1>6, <2>1 DEF PushLink
  <1>7. CASE Pop
    <2>1. Counted' = Counted
      BY <1>7 DEF Pop, PopLoad, PopMove, PopCount, Counted
    <2>2. CASE PopLoad
      BY <1>2, <2>1, <2>2 DEF PopLoad
    <2>3. CASE PopMove
      <3>1. order' = Tail(order) /\ cpc = "move" /\ cpc' = "count" /\ size' = size
        BY <2>3 DEF PopMove
      <3> QED
        BY <1>1, <1>2, <2>1, <3>1, CountedFacts
    <2>4. CASE PopCount
      <3>1. order' = order /\ cpc = "count" /\ cpc' = "idle" /\ size' = size - 1
        BY <2>4 DEF PopCount
      <3> QED
        BY <1>1, <1>2, <2>1, <3>1, CountedFacts
    <2> QED
      BY <1>7, <2>2, <2>3, <2>4 DEF Pop
  <1>8. CASE UNCHANGED <<size, order, cpc, pc>>
    BY <1>2, <1>8 DEF Counted
  <1> QED
    BY <1>4, <1>5, <1>6, <1>7, <1>8 DEF Next, Push, Free, vars

\* size_ counts what is in the list, the pushes that are counted and not yet
\* in it, and the pop that has yet to count itself.
THEOREM SizeCounts == Spec => []SizeIsExact
  <1>1. Init => SizeIsExact
    <2> SUFFICES ASSUME Init PROVE SizeIsExact
      OBVIOUS
    <2>1. {p \in Producers : pc[p] = "exchange"} = {}
      BY DEF Init
    <2>2. Len(order) = 1 /\ cpc = "idle" /\ size = 0
      BY DEF Init
    <2> QED
      BY <2>1, <2>2, FS_EmptySet DEF SizeIsExact
  <1> QED
    BY <1>1, SizeStep, QueueInvariant, PTL DEF Spec

\* The list, the memory of its nodes and size_ fit each other between any two
\* steps of Push and Pop.
THEOREM QueueStaysConsistent == Spec => []QueueIsConsistent
  BY ChainIsTheOrderOfPushes, PoppedNodesAreNotTouched, SizeCounts, PTL
     DEF QueueIsConsistent

\* The size_t never wraps below zero, and it is zero when the list is empty
\* and no push or pop is under way, as Clear asserts.
SizeFitsUnsigned ==
    /\ size \in Nat
    /\ /\ order = <<head>>
       /\ cpc = "idle"
       /\ \A p \in Producers : pc[p] # "exchange"
       => size = 0

\* However Push and Pop overlap, size_ stays a size_t's value.
THEOREM SizeNeverWraps == Spec => []SizeFitsUnsigned
  <1>1. QueueInv /\ SizeIsExact => SizeFitsUnsigned
    <2> SUFFICES ASSUME QueueInv, SizeIsExact PROVE SizeFitsUnsigned
      OBVIOUS
    <2>1. Len(order) \in Nat /\ Len(order) > 0
      BY OrderFacts DEF QueueInv, TypeOK
    <2>2. size = Len(order) - 1 + Cardinality(Counted) + (IF cpc = "count" THEN 1 ELSE 0)
      BY DEF SizeIsExact, Counted
    <2>3. size \in Nat
      BY <2>1, <2>2, CountedFacts
    <2>4. ASSUME order = <<head>>, cpc = "idle", \A p \in Producers : pc[p] # "exchange"
          PROVE  size = 0
      <3>1. Counted = {} /\ Len(order) = 1
        BY <2>4 DEF Counted
      <3> QED
        BY <2>2, <2>4, <3>1, FS_EmptySet
    <2> QED
      BY <2>3, <2>4 DEF SizeFitsUnsigned
  <1> QED
    BY <1>1, QueueInvariant, SizeCounts, PTL

-----------------------------------------------------------------------------
(* The refinement                                                          *)

\* The abstract queue's contents are a sequence of values.
LEMMA ItemsType ==
    ASSUME QueueInv
    PROVE  /\ Items \in Seq(Values)
           /\ Len(Items) = Len(order) - 1
           /\ \A i \in 1 .. Len(order) - 1 : Items[i] = value[order[i + 1]]
  <1>1. Len(order) \in Nat /\ Len(order) - 1 \in Nat
    BY OrderFacts DEF QueueInv, TypeOK
  <1>2. \A i \in 1 .. Len(order) - 1 : value[order[i + 1]] \in Values
    BY <1>1 DEF QueueInv, ValueInv
  <1>3. Items \in [1 .. Len(order) - 1 -> Values]
    BY <1>2 DEF Items
  <1>4. Items \in Seq(Values)
    BY <1>1, <1>3, SeqDef
  <1>5. Len(Items) = Len(order) - 1
    BY <1>1, <1>4 DEF Items
  <1> QED
    BY <1>4, <1>5 DEF Items

\* A step that changes neither the list nor the values in it nor what Pop
\* returned is invisible.
LEMMA ItemsSame ==
    ASSUME QueueInv, UNCHANGED <<order, got>>,
           \A i \in 2 .. Len(order) : value'[order[i]] = value[order[i]]
    PROVE  UNCHANGED <<Items, got>>
  <1>1. Len(order) \in Nat
    BY OrderFacts DEF QueueInv, TypeOK
  <1>2. \A i \in 1 .. Len(order) - 1 : value'[order[i + 1]] = value[order[i + 1]]
    BY <1>1
  <1> QED
    BY <1>2 DEF Items

\* The exchange is the abstract push.
LEMMA ExchangeIsPush ==
    ASSUME QueueInv, QueueInv', NEW p \in Producers, PushExchange(p)
    PROVE  \E v \in Values : Fifo!Push(v)
  <1> DEFINE v == value[node[p]]
             L == Len(order)
  <1>1. v \in Values /\ node[p] \in Nodes
    BY DEF QueueInv, ValueInv, OwnInv, PushExchange
  <1>2. order' = Append(order, node[p]) /\ value' = value /\ got' = got
    BY DEF PushExchange, consumerVars
  <1>3. /\ L \in Nat /\ L > 0 /\ Len(order') = L + 1 /\ order'[L + 1] = node[p]
        /\ \A i \in 1 .. L : order'[i] = order[i]
    BY <1>1, <1>2, OrderFacts DEF QueueInv, TypeOK
  <1>4. /\ Items \in Seq(Values) /\ Len(Items) = L - 1
        /\ \A i \in 1 .. L - 1 : Items[i] = value[order[i + 1]]
    BY ItemsType
  <1>5. /\ Items' \in Seq(Values) /\ Len(Items') = Len(order') - 1
        /\ \A i \in 1 .. Len(order') - 1 : Items'[i] = value'[order'[i + 1]]
    <2>1. Items' = [i \in 1 .. Len(order') - 1 |-> value'[order'[i + 1]]]
      BY DEF Items
    <2>2. \A i \in 1 .. Len(order') - 1 : value'[order'[i + 1]] \in Values
      BY <1>3 DEF QueueInv, ValueInv
    <2>3. Items' \in [1 .. L -> Values]
      BY <1>3, <2>1, <2>2
    <2>4. Items' \in Seq(Values)
      BY <1>3, <2>3, SeqDef
    <2>5. Len(Items') = L
      BY <1>3, <2>3, <2>4
    <2> QED
      BY <1>3, <2>1, <2>4, <2>5
  <1> HIDE DEF v, L
  <1>6. /\ Append(Items, v) \in Seq(Values) /\ Len(Append(Items, v)) = L
        /\ \A i \in 1 .. L - 1 : Append(Items, v)[i] = Items[i]
        /\ Append(Items, v)[L] = v
    BY <1>1, <1>3, <1>4, AppendProperties
  <1>7. ASSUME NEW i \in 1 .. L PROVE Items'[i] = Append(Items, v)[i]
    <2>1. CASE i = L
      BY <1>2, <1>3, <1>5, <1>6, <2>1 DEF v
    <2>2. CASE i # L
      <3>1. i \in 1 .. L - 1 /\ i + 1 \in 1 .. L
        BY <1>3, <2>2
      <3>2. Items'[i] = value'[order'[i + 1]]
        BY <1>3, <1>5, <3>1
      <3>3. order'[i + 1] = order[i + 1]
        BY <1>3, <3>1
      <3>4. Append(Items, v)[i] = value[order[i + 1]]
        BY <1>4, <1>6, <3>1
      <3> QED
        BY <1>2, <3>2, <3>3, <3>4
    <2> QED
      BY <2>1, <2>2
  <1>8. Items' = Append(Items, v)
    BY <1>3, <1>5, <1>6, <1>7, SeqEqual
  <1> QED
    BY <1>1, <1>2, <1>8 DEF Fifo!Push

\* Moving head_ on is the abstract pop.
LEMMA MoveIsPop ==
    ASSUME QueueInv, QueueInv', PopMove
    PROVE  Fifo!Pop
  <1> DEFINE L == Len(order)
  <1>1. /\ L > 1 /\ local = order[2] /\ head = order[1]
        /\ order' = Tail(order) /\ got' = value[order[2]]
        /\ value' = [value EXCEPT ![head] = value[local], ![local] = None]
    BY DEF QueueInv, PopInv, ChainFollowsExchanges, PopMove
  <1>2. /\ L \in Nat /\ Len(order') = L - 1 /\ DOMAIN order = 1 .. L
        /\ \A i \in 1 .. L : order[i] \in Nodes
        /\ \A i \in 1 .. L - 1 : order'[i] = order[i + 1]
    BY <1>1, OrderFacts DEF QueueInv, TypeOK
  <1>3. /\ Items \in Seq(Values) /\ Len(Items) = L - 1
        /\ \A i \in 1 .. L - 1 : Items[i] = value[order[i + 1]]
    BY ItemsType
  <1>4. \A j, k \in 1 .. L : order[j] = order[k] => j = k
    BY <1>2 DEF QueueInv, OwnInv
  <1>5. \A i \in 3 .. L : value'[order[i]] = value[order[i]]
    <2> SUFFICES ASSUME NEW i \in 3 .. L PROVE value'[order[i]] = value[order[i]]
      OBVIOUS
    <2>1. i \in 1 .. L /\ 1 \in 1 .. L /\ 2 \in 1 .. L /\ i # 1 /\ i # 2
      BY <1>1, <1>2
    <2>2. order[i] # order[1] /\ order[i] # order[2] /\ order[i] \in Nodes
      BY <1>2, <1>4, <2>1
    <2> QED
      BY <1>1, <2>2 DEF QueueInv, TypeOK
  <1>6. \A i \in 1 .. L - 2 : Items'[i] = Items[i + 1]
    <2> SUFFICES ASSUME NEW i \in 1 .. L - 2 PROVE Items'[i] = Items[i + 1]
      OBVIOUS
    <2>1. i + 1 \in 1 .. L - 1 /\ i + 2 \in 3 .. L /\ i \in 1 .. Len(order') - 1
          /\ (i + 1) + 1 = i + 2
      BY <1>2
    <2>2. Items'[i] = value'[order'[i + 1]]
      BY <2>1 DEF Items
    <2> QED
      BY <1>2, <1>3, <1>5, <2>1, <2>2
  <1>7. Items' \in Seq(Values) /\ Len(Items') = L - 2
    <2>1. Items' = [i \in 1 .. Len(order') - 1 |-> value'[order'[i + 1]]]
      BY DEF Items
    <2>2. \A i \in 1 .. Len(order') - 1 : value'[order'[i + 1]] \in Values
      BY <1>2 DEF QueueInv, ValueInv
    <2>3. Items' \in [1 .. L - 2 -> Values] /\ L - 2 \in Nat
      <3>1. Len(order') - 1 = L - 2 /\ L - 2 \in Nat
        BY <1>1, <1>2
      <3>2. Items' \in [1 .. Len(order') - 1 -> Values]
        BY <2>1, <2>2
      <3> QED
        BY <3>1, <3>2
    <2>4. Items' \in Seq(Values)
      BY <2>3, SeqDef
    <2> QED
      BY <2>3, <2>4
  <1> HIDE DEF L
  <1>8. Items # <<>> /\ Head(Items) = value[order[2]]
    BY <1>1, <1>2, <1>3
  <1>9. /\ Tail(Items) \in Seq(Values) /\ Len(Tail(Items)) = L - 2
        /\ \A i \in 1 .. L - 2 : Tail(Items)[i] = Items[i + 1]
    BY <1>2, <1>3, <1>8, HeadTailProperties
  <1>10. Items' = Tail(Items)
    BY <1>6, <1>7, <1>9, SeqEqual
  <1> QED
    BY <1>1, <1>8, <1>10 DEF Fifo!Pop

\* Every step is a push, a pop or invisible.
LEMMA StepIsFifoStep ==
    QueueInv /\ QueueInv' /\ [Next]_vars => [Fifo!Next]_<<Items, got>>
  <1> SUFFICES ASSUME QueueInv, QueueInv', [Next]_vars
               PROVE  [Fifo!Next]_<<Items, got>>
    OBVIOUS
  <1>0. /\ Len(order) \in Nat /\ DOMAIN order = 1 .. Len(order)
        /\ \A i \in 1 .. Len(order) : order[i] \in Nodes
    BY OrderFacts DEF QueueInv, TypeOK
  <1>1. ASSUME NEW p \in Producers, PushExchange(p) PROVE Fifo!Next
    BY <1>1, ExchangeIsPush DEF Fifo!Next
  <1>2. CASE PopMove
    BY <1>2, MoveIsPop DEF Fifo!Next
  <1>3. ASSUME \/ \E p \in Producers : PushLink(p)
               \/ PopLoad \/ PopCount \/ UNCHANGED vars
        PROVE  UNCHANGED <<Items, got>>
    <2>1. UNCHANGED <<order, got, value>>
      BY <1>3 DEF PushLink, PopLoad, PopCount, vars, producerVars, consumerVars
    <2> QED
      BY <2>1, ItemsSame
  <1>4. ASSUME NEW p \in Producers, NEW n \in Nodes, NEW v \in Values, PushCount(p, n, v)
        PROVE  UNCHANGED <<Items, got>>
    <2>1. n \in fresh /\ value' = [value EXCEPT ![n] = v] /\ UNCHANGED <<order, got>>
      BY <1>4 DEF PushCount, consumerVars
    <2>2. \A i \in 2 .. Len(order) : order[i] \in Nodes /\ order[i] # n
      BY <1>0, <2>1 DEF QueueInv, OwnInv
    <2>3. \A i \in 2 .. Len(order) : value'[order[i]] = value[order[i]]
      BY <2>1, <2>2 DEF QueueInv, TypeOK
    <2> QED
      BY <2>1, <2>3, ItemsSame
  <1>5. ASSUME NEW n \in Nodes, Free(n) PROVE UNCHANGED <<Items, got>>
    <2>1. n \in popped /\ value' = [value EXCEPT ![n] = None] /\ UNCHANGED <<order, got>>
      BY <1>5 DEF Free, consumerVars
    <2>2. \A i \in 2 .. Len(order) : order[i] \in Nodes /\ order[i] # n
      BY <1>0, <2>1 DEF QueueInv, OwnInv
    <2>3. \A i \in 2 .. Len(order) : value'[order[i]] = value[order[i]]
      BY <2>1, <2>2 DEF QueueInv, TypeOK
    <2> QED
      BY <2>1, <2>3, ItemsSame
  <1> QED
    BY <1>1, <1>2, <1>3, <1>4, <1>5 DEF Next, Push, Pop

\* Any number of concurrent pushes and the consumer's pops behave as one FIFO
\* queue, whose push takes effect at the exchange of tail_.
THEOREM QueueImplementsFifo == Spec => ImplementsFifo
  <1>1. Init => Fifo!Init
    BY DEF Init, Fifo!Init, Items
  <1> QED
    BY <1>1, StepIsFifoStep, QueueInvariant, PTL DEF Spec, ImplementsFifo, Fifo!Spec

-----------------------------------------------------------------------------
(* BlockingQueue                                                           *)

BlockingTypeOK ==
    /\ items \in Seq(Goods)
    /\ lock \in Consumers \cup {Nobody}
    /\ popAt \in [Consumers -> {"user", "waiting", "notified", "decided", "gone"}]
    /\ flagged \in SUBSET Consumers
    /\ wakeDue \in BOOLEAN
    /\ itemState \in [Goods -> {"new", "queued", "popped"}]

\* A consumer between its wait and its return holds the mutex, and what made
\* it leave the wait still stands.
DecidedInv ==
    \A c \in Consumers : popAt[c] = "decided" =>
        lock = c /\ (items # <<>> \/ c \in flagged)

\* Beside a sleeping consumer there is one item at most: the push of a second
\* one wakes every thread.
ShortInv == Waiting # {} => Len(items) <= 1

BlockingInv ==
    /\ BlockingTypeOK
    /\ DecidedInv
    /\ ShortInv
    /\ NoItemStranded

\* A set of threads of cardinality one has an element.
LEMMA OneThread ==
    ASSUME NEW cs \in SUBSET Consumers, Cardinality(cs) = 1
    PROVE  cs # {}
BY FS_EmptySet

LEMMA PushKeeps ==
    ASSUME BlockingInv, NEW x \in Goods, PushItem(x)
    PROVE  BlockingInv'
<1> USE DEF BlockingInv
<1>1. BlockingTypeOK'
  BY DEF BlockingTypeOK, PushItem, Notify
<1>2. DecidedInv'
  BY DEF BlockingTypeOK, DecidedInv, PushItem, Notify, Waiting
<1>3. Len(items') = Len(items) + 1 /\ items' # <<>>
  BY DEF BlockingTypeOK, PushItem
<1>4. CASE Waiting = {}
  <2>1. Waiting' = {} /\ UNCHANGED <<popAt, flagged, wakeDue>>
    BY <1>4 DEF Waiting, PushItem
  <2> QED
    BY <1>1, <1>2, <2>1 DEF ShortInv, NoItemStranded
<1>5. CASE Waiting # {} /\ Len(items) + 1 > 1
  <2>1. Waiting' = {}
    BY <1>5 DEF Waiting, PushItem, Notify, NotifyAfterPush
  <2> QED
    BY <1>1, <1>2, <2>1 DEF ShortInv, NoItemStranded
<1>6. CASE Waiting # {} /\ ~(Len(items) + 1 > 1)
  <2>1. PICK cs \in SUBSET Waiting : Cardinality(cs) = 1 /\ Notify(cs)
    BY <1>6 DEF PushItem, NotifyAfterPush
  <2>2. PICK c \in cs : TRUE
    BY <2>1, OneThread DEF Waiting
  <2>3. c \in Waiting /\ c \in Consumers /\ popAt'[c] = "notified"
    BY <2>1, <2>2 DEF Waiting, Notify
  <2>4. Waiting' \subseteq Waiting
    BY <2>1 DEF Waiting, Notify
  <2>5. UNCHANGED <<flagged, wakeDue>>
    BY DEF PushItem
  <2>6. ShortInv'
    BY <1>3, <1>6 DEF ShortInv, BlockingTypeOK
  <2>7. NoItemStranded'
    BY <2>3, <2>4, <2>5 DEF NoItemStranded
  <2> QED
    BY <1>1, <1>2, <2>6, <2>7
<1> QED
  BY <1>4, <1>5, <1>6

LEMMA PopTestKeeps ==
    ASSUME BlockingInv, NEW c \in Consumers, PopTest(c)
    PROVE  BlockingInv'
<1> USE DEF BlockingInv
<1>1. BlockingTypeOK'
  BY DEF BlockingTypeOK, PopTest
<1>2. CASE items # <<>> \/ c \in flagged
  <2>1. Waiting' = Waiting
    BY <1>2 DEF Waiting, PopTest, BlockingTypeOK
  <2>2. DecidedInv'
    BY <1>2, ConsumersAssumption DEF DecidedInv, PopTest, BlockingTypeOK
  <2>3. ShortInv' /\ NoItemStranded'
    BY <1>2, <2>1 DEF ShortInv, NoItemStranded, PopTest, BlockingTypeOK
  <2> QED
    BY <1>1, <2>2, <2>3
<1>3. CASE items = <<>> /\ c \notin flagged
  <2>1. Waiting' = Waiting \cup {c} /\ items' = <<>>
    BY <1>3 DEF Waiting, PopTest, BlockingTypeOK
  <2>2. DecidedInv'
    BY <1>3 DEF DecidedInv, PopTest, BlockingTypeOK
  <2>3. ShortInv' /\ NoItemStranded'
    BY <1>3, <2>1 DEF ShortInv, NoItemStranded, PopTest
  <2> QED
    BY <1>1, <2>2, <2>3
<1> QED
  BY <1>2, <1>3

LEMMA PopTakesKeeps ==
    ASSUME BlockingInv, NEW c \in Consumers, PopTakes(c)
    PROVE  BlockingInv'
<1> USE DEF BlockingInv
<1>1. items # <<>> /\ lock = c
  BY DEF PopTakes, GivesUp, DecidedInv
<1>2. BlockingTypeOK'
  BY <1>1 DEF BlockingTypeOK, PopTakes
<1>3. Waiting' = Waiting
  BY DEF Waiting, PopTakes, BlockingTypeOK
<1>4. DecidedInv'
  BY <1>1 DEF DecidedInv, PopTakes, BlockingTypeOK
<1>5. Len(items) <= 1 => items' = <<>>
  BY <1>1 DEF PopTakes, BlockingTypeOK
<1>6. ShortInv' /\ NoItemStranded'
  BY <1>3, <1>5 DEF ShortInv, NoItemStranded, PopTakes
<1> QED
  BY <1>2, <1>4, <1>6

LEMMA PopGivesUpKeeps ==
    ASSUME BlockingInv, NEW c \in Consumers, PopGivesUp(c)
    PROVE  BlockingInv'
<1> USE DEF BlockingInv
<1>1. BlockingTypeOK'
  BY DEF BlockingTypeOK, PopGivesUp
<1>2. Waiting' = Waiting /\ c \in flagged
  BY DEF Waiting, PopGivesUp, GivesUp, BlockingTypeOK
<1>3. DecidedInv'
  BY DEF DecidedInv, PopGivesUp, BlockingTypeOK
<1>4. ShortInv' /\ NoItemStranded'
  BY <1>2 DEF ShortInv, NoItemStranded, PopGivesUp, BlockingTypeOK
<1> QED
  BY <1>1, <1>3, <1>4

LEMMA SpuriousWakeupKeeps ==
    ASSUME BlockingInv, NEW c \in Consumers, SpuriousWakeup(c)
    PROVE  BlockingInv'
<1> USE DEF BlockingInv
<1>1. BlockingTypeOK'
  BY DEF BlockingTypeOK, SpuriousWakeup, Notify
<1>2. Waiting' = Waiting \ {c} /\ popAt'[c] = "notified"
  BY DEF Waiting, SpuriousWakeup, Notify, BlockingTypeOK
<1>3. \A d \in Consumers : d # c => popAt'[d] = popAt[d]
  BY DEF SpuriousWakeup, Notify
<1>4. DecidedInv'
  BY <1>2, <1>3 DEF DecidedInv, SpuriousWakeup
<1>5. ShortInv' /\ NoItemStranded'
  BY <1>2, <1>3 DEF ShortInv, NoItemStranded, SpuriousWakeup
<1> QED
  BY <1>1, <1>4, <1>5

LEMMA InterruptConsumerKeeps ==
    ASSUME BlockingInv, NEW c \in Consumers, InterruptConsumer(c)
    PROVE  BlockingInv'
BY DEF BlockingInv, BlockingTypeOK, DecidedInv, ShortInv, NoItemStranded,
       InterruptConsumer, Waiting

LEMMA WakeAllKeeps ==
    ASSUME BlockingInv, WakeAll
    PROVE  BlockingInv'
<1>1. Waiting' = {}
  BY DEF Waiting, WakeAll, WakeAllTargets, Notify
<1> QED
  BY <1>1 DEF BlockingInv, BlockingTypeOK, DecidedInv, ShortInv, NoItemStranded,
       WakeAll, WakeAllTargets, Notify, Waiting

LEMMA BlockingStep == BlockingInv /\ [BlockingNext]_blockingVars => BlockingInv'
<1> SUFFICES ASSUME BlockingInv, [BlockingNext]_blockingVars
             PROVE  BlockingInv'
  OBVIOUS
<1>1. CASE UNCHANGED blockingVars
  BY <1>1 DEF BlockingInv, BlockingTypeOK, DecidedInv, ShortInv, NoItemStranded,
       Waiting, blockingVars
<1>2. CASE BlockingNext
  BY <1>2, PushKeeps, PopTestKeeps, PopTakesKeeps, PopGivesUpKeeps,
     SpuriousWakeupKeeps, InterruptConsumerKeeps, WakeAllKeeps
     DEF BlockingNext, Consumer
<1> QED
  BY <1>1, <1>2

\* BlockingQueue: a consumer that sleeps in pop beside an item has an
\* uninterrupted thread awake before it, or a wakeAll to come; and none sleeps
\* on after the wakeAll of its interruption.
THEOREM NoItemIsStranded == BlockingSpec => []NoItemStranded
<1>1. BlockingInit => BlockingInv
  <2> SUFFICES ASSUME BlockingInit PROVE BlockingInv
    OBVIOUS
  <2>1. BlockingTypeOK
    <3>1. items \in Seq(Goods)
      BY DEF BlockingInit
    <3> QED
      BY <3>1 DEF BlockingInit, BlockingTypeOK
  <2>2. DecidedInv /\ Waiting = {}
    BY DEF BlockingInit, DecidedInv, Waiting
  <2> QED
    BY <2>1, <2>2 DEF BlockingInv, ShortInv, NoItemStranded
<1>2. BlockingInv => NoItemStranded
  BY DEF BlockingInv
<1> QED
  BY <1>1, <1>2, BlockingStep, PTL DEF BlockingSpec

-----------------------------------------------------------------------------
(* ThreadPool                                                              *)

PoolTypeOK ==
    /\ policy \in {"single", "stealing"}
    /\ pool \in {"idle", "starting", "running", "interrupt", "join"}
    /\ poolIndex \in 0 .. NumWorkers
    /\ taskQueue \in [0 .. NumWorkers -> Seq(Tasks)]
    /\ workerAt \in [Workers ->
                        {"none", "loop", "local", "global", "others", "run", "ended"}]
    /\ scan \in [Workers -> Nat]
    /\ taskOf \in [Workers -> Tasks \cup {NoTask}]
    /\ interrupted \in [Workers -> BOOLEAN]
    /\ taskState \in [Tasks -> {"new", "submitted", "running", "done"}]

\* Start runs through the threads upwards and finds none; Stop leaves none
\* behind it.
PhaseInv ==
    /\ pool \in {"starting", "interrupt", "join"} => poolIndex \in Workers
    /\ pool = "idle" => \A w \in Workers : workerAt[w] = "none"
    /\ pool = "starting" => \A w \in Workers : w >= poolIndex => workerAt[w] = "none"
    /\ pool \in {"interrupt", "join"} =>
         \A w \in Workers : w < poolIndex => workerAt[w] = "none"

\* Exactly the submitted tasks are queued, each once.
QueuedInv ==
    /\ \A q \in 0 .. NumWorkers : \A i \in DOMAIN taskQueue[q] :
         taskState[taskQueue[q][i]] = "submitted"
    /\ \A q, r \in 0 .. NumWorkers :
         \A i \in DOMAIN taskQueue[q], j \in DOMAIN taskQueue[r] :
           taskQueue[q][i] = taskQueue[r][j] => q = r /\ i = j
    /\ \A t \in Tasks : taskState[t] = "submitted" =>
         \E q \in 0 .. NumWorkers : \E i \in DOMAIN taskQueue[q] : taskQueue[q][i] = t

\* Exactly the running tasks are with a worker, each with one.
RunInv ==
    /\ \A w \in Workers : taskOf[w] # NoTask <=> workerAt[w] = "run"
    /\ \A w \in Workers : taskOf[w] # NoTask => taskState[taskOf[w]] = "running"
    /\ \A v, w \in Workers : taskOf[v] = taskOf[w] /\ taskOf[v] # NoTask => v = w
    /\ \A t \in Tasks : taskState[t] = "running" => \E w \in Workers : taskOf[w] = t

PoolInv == PoolTypeOK /\ PhaseInv /\ QueuedInv /\ RunInv

\* A queue never holds more tasks than there are.
LEMMA QueueIsShort ==
    ASSUME PoolTypeOK, QueuedInv, NEW q \in 0 .. NumWorkers
    PROVE  Len(taskQueue[q]) <= Cardinality(Tasks)
<1>1. taskQueue[q] \in Seq(Tasks)
  BY DEF PoolTypeOK
<1>2. taskQueue[q] \in [1 .. Len(taskQueue[q]) -> Tasks] /\ Len(taskQueue[q]) \in Nat
  BY <1>1
<1>3. taskQueue[q] \in Injection(1 .. Len(taskQueue[q]), Tasks)
  BY <1>1, <1>2 DEF Injection, IsInjective, QueuedInv
<1>4. Cardinality(1 .. Len(taskQueue[q])) <= Cardinality(Tasks)
  BY <1>3, FS_Injection, TasksAssumption
<1>5. Cardinality(1 .. Len(taskQueue[q])) = Len(taskQueue[q])
  BY <1>2, FS_Interval
<1> QED
  BY <1>4, <1>5

\* The invariant says where every task is.
LEMMA PoolInvImplies == PoolInv => TaskInOnePlace
<1> SUFFICES ASSUME PoolInv PROVE TaskInOnePlace
  OBVIOUS
<1> USE DEF PoolInv
<1>1. ASSUME NEW t \in Tasks
      PROVE  Cardinality({p \in (0 .. NumWorkers) \X (1 .. Cardinality(Tasks)) :
                             /\ p[2] <= Len(taskQueue[p[1]])
                             /\ taskQueue[p[1]][p[2]] = t})
             = (IF taskState[t] = "submitted" THEN 1 ELSE 0)
  <2> DEFINE queued == {p \in (0 .. NumWorkers) \X (1 .. Cardinality(Tasks)) :
                             /\ p[2] <= Len(taskQueue[p[1]])
                             /\ taskQueue[p[1]][p[2]] = t}
  <2>1. CASE taskState[t] = "submitted"
    <3>1. PICK q \in 0 .. NumWorkers : \E i \in DOMAIN taskQueue[q] : taskQueue[q][i] = t
      BY <2>1 DEF QueuedInv
    <3>2. PICK i \in DOMAIN taskQueue[q] : taskQueue[q][i] = t
      BY <3>1
    <3>3. i \in 1 .. Cardinality(Tasks) /\ i <= Len(taskQueue[q])
      BY <3>2, QueueIsShort, FS_CardinalityType, TasksAssumption DEF PoolTypeOK
    <3>4. queued = {<<q, i>>}
      BY <3>2, <3>3 DEF QueuedInv, PoolTypeOK
    <3> QED
      BY <2>1, <3>4, FS_Singleton
  <2>2. CASE taskState[t] # "submitted"
    <3>1. queued = {}
      BY <2>2 DEF QueuedInv, PoolTypeOK
    <3> QED
      BY <2>2, <3>1, FS_EmptySet
  <2> QED
    BY <2>1, <2>2
<1>2. ASSUME NEW t \in Tasks
      PROVE  Cardinality({w \in Workers : taskOf[w] = t})
             = (IF taskState[t] = "running" THEN 1 ELSE 0)
  <2>1. CASE taskState[t] = "running"
    <3>1. PICK w \in Workers : taskOf[w] = t
      BY <2>1 DEF RunInv
    <3>2. {v \in Workers : taskOf[v] = t} = {w}
      BY <3>1, TasksAssumption DEF RunInv
    <3> QED
      BY <2>1, <3>2, FS_Singleton
  <2>2. CASE taskState[t] # "running"
    <3>1. {v \in Workers : taskOf[v] = t} = {}
      BY <2>2, TasksAssumption DEF RunInv
    <3> QED
      BY <2>2, <3>1, FS_EmptySet
  <2> QED
    BY <2>1, <2>2
<1> QED
  BY <1>1, <1>2 DEF TaskInOnePlace, RunInv, PhaseInv

\* A task that is submitted goes to the end of one queue.
LEMMA SubmitKeeps ==
    ASSUME PoolInv, NEW t \in Tasks, NEW q \in 0 .. NumWorkers,
           taskState[t] = "new",
           push(q, t),
           taskState' = [taskState EXCEPT ![t] = "submitted"],
           UNCHANGED <<control, workerLocals, interrupted>>
    PROVE  PoolInv'
<1> USE DEF PoolInv, control, workerLocals
<1>1. /\ taskQueue'[q] = Append(taskQueue[q], t)
      /\ \A r \in 0 .. NumWorkers : r # q => taskQueue'[r] = taskQueue[r]
  BY DEF push, PoolTypeOK
<1>2. /\ taskQueue[q] \in Seq(Tasks)
      /\ Len(taskQueue'[q]) = Len(taskQueue[q]) + 1
      /\ DOMAIN taskQueue[q] = 1 .. Len(taskQueue[q])
      /\ DOMAIN taskQueue'[q] = 1 .. Len(taskQueue[q]) + 1
      /\ \A i \in 1 .. Len(taskQueue[q]) : taskQueue'[q][i] = taskQueue[q][i]
      /\ taskQueue'[q][Len(taskQueue[q]) + 1] = t
      /\ Len(taskQueue[q]) \in Nat
  BY <1>1 DEF PoolTypeOK
<1>3. /\ taskState'[t] = "submitted"
      /\ \A u \in Tasks : u # t => taskState'[u] = taskState[u]
  BY DEF PoolTypeOK
<1>4. PoolTypeOK'
  <2>1. Append(taskQueue[q], t) \in Seq(Tasks)
    BY <1>2
  <2>2. taskQueue' \in [0 .. NumWorkers -> Seq(Tasks)]
    BY <2>1 DEF PoolTypeOK, push
  <2> QED
    BY <2>2 DEF PoolTypeOK
<1>8. PhaseInv'
  BY DEF PhaseInv
<1>5. \A r \in 0 .. NumWorkers : \A i \in DOMAIN taskQueue[r] :
         taskQueue[r][i] \in Tasks /\ taskQueue[r][i] # t
  <2> SUFFICES ASSUME NEW r \in 0 .. NumWorkers, NEW i \in DOMAIN taskQueue[r]
               PROVE  taskQueue[r][i] \in Tasks /\ taskQueue[r][i] # t
    OBVIOUS
  <2>1. taskQueue[r] \in Seq(Tasks)
    BY DEF PoolTypeOK
  <2>2. taskQueue[r][i] \in Tasks
    BY <2>1
  <2>3. taskState[taskQueue[r][i]] = "submitted"
    BY DEF QueuedInv
  <2> QED
    BY <2>2, <2>3
<1>6. QueuedInv'
  <2>1. \A r \in 0 .. NumWorkers : \A i \in DOMAIN taskQueue'[r] :
          \/ i \in DOMAIN taskQueue[r] /\ taskQueue'[r][i] = taskQueue[r][i]
          \/ r = q /\ i = Len(taskQueue[q]) + 1 /\ taskQueue'[r][i] = t
    <3>1. \A i \in 1 .. Len(taskQueue[q]) + 1 :
            i \in 1 .. Len(taskQueue[q]) \/ i = Len(taskQueue[q]) + 1
      BY <1>2
    <3> QED
      BY <1>1, <1>2, <3>1
  <2>2. \A r \in 0 .. NumWorkers : \A i \in DOMAIN taskQueue[r] :
          i \in DOMAIN taskQueue'[r] /\ taskQueue'[r][i] = taskQueue[r][i]
    <3> SUFFICES ASSUME NEW r \in 0 .. NumWorkers, NEW i \in DOMAIN taskQueue[r]
                 PROVE  i \in DOMAIN taskQueue'[r] /\ taskQueue'[r][i] = taskQueue[r][i]
      OBVIOUS
    <3>1. CASE r = q
      <4>1. i \in 1 .. Len(taskQueue[q])
        BY <1>2, <3>1
      <4>2. i \in 1 .. Len(taskQueue[q]) + 1 /\ taskQueue'[q][i] = taskQueue[q][i]
        BY <1>2, <4>1
      <4> QED
        BY <1>2, <3>1, <4>2
    <3>2. CASE r # q
      BY <1>1, <3>2
    <3> QED
      BY <3>1, <3>2
  <2>3. \A r \in 0 .. NumWorkers : \A i \in DOMAIN taskQueue'[r] :
          taskState'[taskQueue'[r][i]] = "submitted"
    BY <1>3, <1>5, <2>1 DEF QueuedInv
  <2>4. \A r1, r2 \in 0 .. NumWorkers :
          \A i \in DOMAIN taskQueue'[r1], j \in DOMAIN taskQueue'[r2] :
            taskQueue'[r1][i] = taskQueue'[r2][j] => r1 = r2 /\ i = j
    BY <1>5, <2>1 DEF QueuedInv
  <2>5. ASSUME NEW u \in Tasks, taskState'[u] = "submitted"
        PROVE  \E r \in 0 .. NumWorkers : \E i \in DOMAIN taskQueue'[r] :
                  taskQueue'[r][i] = u
    <3>1. CASE u = t
      BY <1>2, <3>1
    <3>2. CASE u # t
      <4>1. \E r \in 0 .. NumWorkers : \E i \in DOMAIN taskQueue[r] : taskQueue[r][i] = u
        BY <1>3, <2>5, <3>2 DEF QueuedInv
      <4> QED
        BY <4>1, <2>2
    <3> QED
      BY <3>1, <3>2
  <2> QED
    BY <2>3, <2>4, <2>5 DEF QueuedInv
<1>7. RunInv'
  BY <1>3 DEF RunInv, PoolTypeOK
<1> QED
  BY <1>4, <1>6, <1>7, <1>8

\* A worker that pops a task from any queue runs it; with an empty queue it
\* goes on to where it looks next.
LEMMA PopKeeps ==
    ASSUME PoolInv, NEW w \in Workers, NEW q \in 0 .. NumWorkers,
           NEW otherwise \in {"loop", "global", "others"},
           workerAt[w] \in {"local", "global", "others"},
           pop(w, q, otherwise),
           scan' \in [Workers -> Nat],
           UNCHANGED <<control, interrupted>>
    PROVE  PoolInv'
<1> USE DEF PoolInv, control
<1>1. CASE taskQueue[q] = <<>>
  <2>1. /\ workerAt' = [workerAt EXCEPT ![w] = otherwise]
        /\ UNCHANGED <<taskQueue, taskOf, taskState>>
    BY <1>1 DEF pop
  <2>2. PoolTypeOK' /\ PhaseInv'
    BY <2>1 DEF PoolTypeOK, PhaseInv
  <2>3. QueuedInv'
    BY <2>1 DEF QueuedInv
  <2>4. RunInv'
    BY <2>1 DEF RunInv, PoolTypeOK
  <2> QED
    BY <2>2, <2>3, <2>4
<1>2. CASE taskQueue[q] # <<>>
  <2> DEFINE t == Head(taskQueue[q])
             n == Len(taskQueue[q])
  <2>1. /\ taskQueue' = [taskQueue EXCEPT ![q] = Tail(taskQueue[q])]
        /\ taskOf' = [taskOf EXCEPT ![w] = t]
        /\ taskState' = [taskState EXCEPT ![t] = "running"]
        /\ workerAt' = [workerAt EXCEPT ![w] = "run"]
    BY <1>2 DEF pop, QueueAfterPop
  <2>2. /\ taskQueue[q] \in Seq(Tasks)
        /\ t \in Tasks
        /\ n \in Nat \ {0}
        /\ DOMAIN taskQueue[q] = 1 .. n
        /\ taskQueue[q][1] = t
    <3>1. taskQueue[q] \in Seq(Tasks)
      BY DEF PoolTypeOK
    <3> QED
      BY <1>2, <3>1
  <2>3. /\ taskQueue'[q] = Tail(taskQueue[q])
        /\ \A r \in 0 .. NumWorkers : r # q => taskQueue'[r] = taskQueue[r]
    BY <2>1 DEF PoolTypeOK
  <2>4. /\ DOMAIN taskQueue'[q] = 1 .. n - 1
        /\ \A i \in 1 .. n - 1 : taskQueue'[q][i] = taskQueue[q][i + 1]
    BY <1>2, <2>2, <2>3
  <2>5. /\ taskState'[t] = "running"
        /\ \A u \in Tasks : u # t => taskState'[u] = taskState[u]
        /\ taskState[t] = "submitted"
    BY <2>1, <2>2 DEF PoolTypeOK, QueuedInv
  <2>6. PoolTypeOK'
    BY <1>2, <2>1, <2>2 DEF PoolTypeOK
  <2>7. PhaseInv'
    BY <2>1 DEF PhaseInv, PoolTypeOK
  <2> HIDE DEF t, n
  <2>8. QueuedInv'
    <3> DEFINE shift(r) == IF r = q THEN 1 ELSE 0
    <3>1. \A r \in 0 .. NumWorkers : \A i \in DOMAIN taskQueue'[r] :
            /\ i \in Nat
            /\ i + shift(r) \in DOMAIN taskQueue[r]
            /\ taskQueue'[r][i] = taskQueue[r][i + shift(r)]
            /\ ~(r = q /\ i + shift(r) = 1)
      <4> SUFFICES ASSUME NEW r \in 0 .. NumWorkers, NEW i \in DOMAIN taskQueue'[r]
                   PROVE  /\ i \in Nat
                          /\ i + shift(r) \in DOMAIN taskQueue[r]
                          /\ taskQueue'[r][i] = taskQueue[r][i + shift(r)]
                          /\ ~(r = q /\ i + shift(r) = 1)
        OBVIOUS
      <4>1. CASE r = q
        BY <2>2, <2>4, <4>1
      <4>2. CASE r # q
        <5>1. taskQueue'[r] = taskQueue[r] /\ taskQueue[r] \in Seq(Tasks)
          BY <2>3, <4>2 DEF PoolTypeOK
        <5> QED
          BY <4>2, <5>1
      <4> QED
        BY <4>1, <4>2
    <3>2. \A r \in 0 .. NumWorkers : \A i \in DOMAIN taskQueue'[r] :
            taskQueue'[r][i] \in Tasks /\ taskQueue'[r][i] # t
      <4> SUFFICES ASSUME NEW r \in 0 .. NumWorkers, NEW i \in DOMAIN taskQueue'[r]
                   PROVE  taskQueue'[r][i] \in Tasks /\ taskQueue'[r][i] # t
        OBVIOUS
      <4>1. taskQueue[r][i + shift(r)] \in Tasks
        BY <3>1 DEF PoolTypeOK
      <4>2. 1 \in DOMAIN taskQueue[q] /\ taskQueue[q][1] = t
        BY <2>2
      <4>3. taskQueue[r][i + shift(r)] # t
        BY <3>1, <4>2 DEF QueuedInv
      <4> QED
        BY <3>1, <4>1, <4>3
    <3>3. \A r \in 0 .. NumWorkers : \A i \in DOMAIN taskQueue'[r] :
            taskState'[taskQueue'[r][i]] = "submitted"
      <4> SUFFICES ASSUME NEW r \in 0 .. NumWorkers, NEW i \in DOMAIN taskQueue'[r]
                   PROVE  taskState'[taskQueue'[r][i]] = "submitted"
        OBVIOUS
      <4>1. taskState[taskQueue[r][i + shift(r)]] = "submitted"
        BY <3>1 DEF QueuedInv
      <4> QED
        BY <2>5, <3>1, <3>2, <4>1
    <3>4. \A r1, r2 \in 0 .. NumWorkers :
            \A i \in DOMAIN taskQueue'[r1], j \in DOMAIN taskQueue'[r2] :
              taskQueue'[r1][i] = taskQueue'[r2][j] => r1 = r2 /\ i = j
      <4> SUFFICES ASSUME NEW r1 \in 0 .. NumWorkers, NEW r2 \in 0 .. NumWorkers,
                          NEW i \in DOMAIN taskQueue'[r1], NEW j \in DOMAIN taskQueue'[r2],
                          taskQueue'[r1][i] = taskQueue'[r2][j]
                   PROVE  r1 = r2 /\ i = j
        OBVIOUS
      <4>1. r1 = r2 /\ i + shift(r1) = j + shift(r2)
        BY <3>1 DEF QueuedInv
      <4> QED
        BY <3>1, <4>1
    <3>5. ASSUME NEW u \in Tasks, taskState'[u] = "submitted"
          PROVE  \E r \in 0 .. NumWorkers : \E i \in DOMAIN taskQueue'[r] :
                    taskQueue'[r][i] = u
      <4>1. u # t /\ taskState[u] = "submitted"
        BY <2>2, <2>5, <3>5
      <4>2. PICK r \in 0 .. NumWorkers : \E i \in DOMAIN taskQueue[r] : taskQueue[r][i] = u
        BY <4>1 DEF QueuedInv
      <4>3. PICK i \in DOMAIN taskQueue[r] : taskQueue[r][i] = u
        BY <4>2
      <4>4. CASE r # q
        BY <2>3, <4>3, <4>4
      <4>5. CASE r = q
        <5>1. i - 1 \in DOMAIN taskQueue'[q] /\ taskQueue'[q][i - 1] = u
          BY <2>2, <2>4, <4>1, <4>3, <4>5
        <5> QED
          BY <5>1
      <4> QED
        BY <4>4, <4>5
    <3> QED
      BY <3>3, <3>4, <3>5 DEF QueuedInv
  <2>9. RunInv'
    <3>1. taskOf[w] = NoTask /\ \A v \in Workers : taskOf[v] # t
      BY <2>2, <2>5, TasksAssumption DEF RunInv
    <3>2. /\ taskOf'[w] = t /\ workerAt'[w] = "run"
          /\ \A v \in Workers : v # w => taskOf'[v] = taskOf[v] /\ workerAt'[v] = workerAt[v]
      BY <2>1 DEF PoolTypeOK
    <3>3. t # NoTask
      BY <2>2, TasksAssumption
    <3> QED
      <4>1. \A v \in Workers : taskOf'[v] # NoTask <=> workerAt'[v] = "run"
        BY <3>2, <3>3 DEF RunInv
      <4>2. \A v \in Workers : taskOf'[v] # NoTask => taskState'[taskOf'[v]] = "running"
        <5> SUFFICES ASSUME NEW v \in Workers, taskOf'[v] # NoTask
                     PROVE  taskState'[taskOf'[v]] = "running"
          OBVIOUS
        <5>1. CASE v = w
          BY <2>5, <3>2, <5>1
        <5>2. CASE v # w
          <6>1. taskOf[v] \in Tasks /\ taskOf[v] # t /\ taskState[taskOf[v]] = "running"
            BY <3>1, <3>2, <5>2 DEF RunInv, PoolTypeOK
          <6> QED
            BY <2>5, <3>2, <5>2, <6>1
        <5> QED
          BY <5>1, <5>2
      <4>3. \A u, v \in Workers : taskOf'[u] = taskOf'[v] /\ taskOf'[u] # NoTask => u = v
        BY <3>1, <3>2 DEF RunInv
      <4>4. \A u \in Tasks : taskState'[u] = "running" => \E v \in Workers : taskOf'[v] = u
        BY <2>5, <3>1, <3>2, TasksAssumption DEF RunInv
      <4> QED
        BY <4>1, <4>2, <4>3, <4>4 DEF RunInv
  <2> QED
    BY <2>6, <2>7, <2>8, <2>9
<1> QED
  BY <1>1, <1>2

LEMMA LoopTestKeeps ==
    ASSUME PoolInv, NEW w \in Workers, LoopTest(w)
    PROVE  PoolInv'
<1> USE DEF PoolInv, control
<1>1. /\ workerAt[w] = "loop"
      /\ workerAt'[w] \in {"ended", "global", "local"}
      /\ workerAt' = [workerAt EXCEPT ![w] = workerAt'[w]]
      /\ UNCHANGED <<control, taskQueue, scan, taskOf, interrupted, taskState>>
  BY DEF LoopTest, PoolTypeOK
<1>2. PoolTypeOK'
  BY <1>1 DEF PoolTypeOK
<1>3. PhaseInv'
  BY <1>1 DEF PhaseInv, PoolTypeOK
<1>4. QueuedInv'
  BY <1>1 DEF QueuedInv
<1>5. RunInv'
  BY <1>1 DEF RunInv, PoolTypeOK
<1> QED
  BY <1>2, <1>3, <1>4, <1>5

LEMMA TakeKeeps ==
    ASSUME PoolInv, NEW w \in Workers,
           TakeFromLocal(w) \/ TakeFromGlobal(w) \/ TakeFromOtherThread(w)
    PROVE  PoolInv'
<1>1. w \in 0 .. NumWorkers /\ 0 \in 0 .. NumWorkers
  BY NumWorkersAssumption DEF Workers
<1>2. CASE TakeFromLocal(w)
  <2>1. /\ workerAt[w] = "local" /\ pop(w, w, "global")
        /\ scan' \in [Workers -> Nat] /\ UNCHANGED <<control, interrupted>>
    BY <1>2 DEF TakeFromLocal, PoolInv, PoolTypeOK
  <2> QED
    BY <1>1, <2>1, PopKeeps
<1>3. CASE TakeFromGlobal(w)
  <2> DEFINE goesOn == IF policy = "single" THEN "loop" ELSE "others"
  <2>1. /\ workerAt[w] = "global" /\ pop(w, 0, goesOn)
        /\ scan' \in [Workers -> Nat] /\ UNCHANGED <<control, interrupted>>
    BY <1>3 DEF TakeFromGlobal, PoolInv, PoolTypeOK
  <2>2. goesOn \in {"loop", "global", "others"}
    OBVIOUS
  <2> HIDE DEF goesOn
  <2> QED
    BY <1>1, <2>1, <2>2, PopKeeps
<1>4. CASE TakeFromOtherThread(w) /\ scan[w] > ScanEnd
  <2>1. /\ workerAt[w] = "others"
        /\ workerAt' = [workerAt EXCEPT ![w] = "loop"]
        /\ UNCHANGED <<control, taskQueue, taskOf, taskState, scan, interrupted>>
    BY <1>4 DEF TakeFromOtherThread
  <2>2. PoolTypeOK'
    BY <2>1 DEF PoolInv, PoolTypeOK, control
  <2>3. PhaseInv'
    BY <2>1 DEF PoolInv, PhaseInv, PoolTypeOK, control
  <2>4. QueuedInv'
    BY <2>1 DEF PoolInv, QueuedInv
  <2>5. RunInv'
    BY <2>1 DEF PoolInv, RunInv, PoolTypeOK
  <2> QED
    BY <2>2, <2>3, <2>4, <2>5 DEF PoolInv
<1>5. CASE TakeFromOtherThread(w) /\ ~(scan[w] > ScanEnd)
  <2>1. /\ workerAt[w] = "others" /\ pop(w, scan[w], "others")
        /\ scan' = [scan EXCEPT ![w] = @ + 1]
        /\ UNCHANGED <<control, interrupted>>
    BY <1>5 DEF TakeFromOtherThread
  <2>2. scan[w] \in 0 .. NumWorkers /\ scan' \in [Workers -> Nat]
    BY <1>5, <2>1, NumWorkersAssumption DEF PoolInv, PoolTypeOK, ScanEnd
  <2> QED
    BY <2>1, <2>2, PopKeeps
<1> QED
  BY <1>2, <1>3, <1>4, <1>5

LEMMA TaskReturnsKeeps ==
    ASSUME PoolInv, NEW w \in Workers, TaskReturns(w)
    PROVE  PoolInv'
<1> USE DEF PoolInv, control
<1>1. taskOf[w] \in Tasks /\ taskState[taskOf[w]] = "running"
  BY DEF TaskReturns, RunInv, PoolTypeOK
<1>2. /\ taskOf'[w] = NoTask /\ workerAt'[w] = "loop"
      /\ \A v \in Workers : v # w => taskOf'[v] = taskOf[v] /\ workerAt'[v] = workerAt[v]
      /\ taskState'[taskOf[w]] = "done"
      /\ \A t \in Tasks : t # taskOf[w] => taskState'[t] = taskState[t]
  BY <1>1 DEF TaskReturns, PoolTypeOK
<1>3. PoolTypeOK'
  BY <1>1 DEF TaskReturns, PoolTypeOK
<1>4. PhaseInv'
  BY DEF TaskReturns, PhaseInv, PoolTypeOK
<1>5. QueuedInv'
  BY <1>1, <1>2 DEF TaskReturns, QueuedInv, PoolTypeOK
<1>6. RunInv'
  <2>1. \A v \in Workers : taskOf'[v] # NoTask <=> workerAt'[v] = "run"
    BY <1>2 DEF RunInv
  <2>2. \A v \in Workers : taskOf'[v] # NoTask => taskState'[taskOf'[v]] = "running"
    BY <1>1, <1>2 DEF RunInv, PoolTypeOK
  <2>3. \A u, v \in Workers : taskOf'[u] = taskOf'[v] /\ taskOf'[u] # NoTask => u = v
    BY <1>2 DEF RunInv
  <2>4. \A t \in Tasks : taskState'[t] = "running" => \E v \in Workers : taskOf'[v] = t
    BY <1>2 DEF RunInv
  <2> QED
    BY <2>1, <2>2, <2>3, <2>4 DEF RunInv
<1> QED
  BY <1>3, <1>4, <1>5, <1>6

LEMMA ControlKeeps ==
    ASSUME PoolInv, Start \/ Stop \/ Controller
    PROVE  PoolInv'
<1> USE DEF PoolInv, workerLocals, Workers
<1>1. UNCHANGED <<policy, taskQueue, scan, taskOf, taskState>>
  BY DEF Start, Stop, Controller, StartThread, Interrupt, Join
<1>2. QueuedInv'
  BY <1>1 DEF QueuedInv
<1>3. CASE Start
  <2>1. PoolTypeOK' /\ PhaseInv'
    BY <1>3, NumWorkersAssumption DEF Start, PoolTypeOK, PhaseInv
  <2>2. RunInv'
    BY <1>3 DEF Start, RunInv
  <2> QED
    BY <1>2, <2>1, <2>2
<1>4. CASE Stop
  <2>1. PoolTypeOK' /\ PhaseInv'
    BY <1>4, NumWorkersAssumption DEF Stop, PoolTypeOK, PhaseInv
  <2>2. RunInv'
    BY <1>4 DEF Stop, RunInv
  <2> QED
    BY <1>2, <2>1, <2>2
<1>5. CASE StartThread
  <2>1. poolIndex \in Workers /\ workerAt[poolIndex] = "none"
    BY <1>5 DEF StartThread, PhaseInv
  <2>2. PoolTypeOK'
    BY <1>5, <2>1, NumWorkersAssumption DEF StartThread, PoolTypeOK
  <2>3. PhaseInv'
    BY <1>5, <2>1, NumWorkersAssumption DEF StartThread, PoolTypeOK, PhaseInv
  <2>4. RunInv'
    BY <1>5, <2>1 DEF StartThread, PoolTypeOK, RunInv
  <2> QED
    BY <1>2, <2>2, <2>3, <2>4
<1>6. CASE Interrupt
  <2>1. PoolTypeOK'
    BY <1>6 DEF Interrupt, PoolTypeOK, PhaseInv
  <2>2. PhaseInv'
    BY <1>6 DEF Interrupt, PhaseInv
  <2>3. RunInv'
    BY <1>6 DEF Interrupt, RunInv
  <2> QED
    BY <1>2, <2>1, <2>2, <2>3
<1>7. CASE Join
  <2>1. poolIndex \in Workers /\ workerAt[poolIndex] = "ended"
    BY <1>7 DEF Join, Joinable, PhaseInv
  <2>2. PoolTypeOK'
    <3>1. poolIndex' \in 0 .. NumWorkers /\ pool' \in {"idle", "interrupt"}
      BY <1>7, <2>1, NumWorkersAssumption DEF Join
    <3>2. workerAt' = [workerAt EXCEPT ![poolIndex] = "none"] /\ UNCHANGED interrupted
      BY <1>7 DEF Join
    <3> QED
      BY <1>1, <3>1, <3>2 DEF PoolTypeOK
  <2>3. PhaseInv'
    BY <1>7, <2>1, NumWorkersAssumption DEF Join, PoolTypeOK, PhaseInv
  <2>4. RunInv'
    BY <1>7, <2>1 DEF Join, PoolTypeOK, RunInv
  <2> QED
    BY <1>2, <2>2, <2>3, <2>4
<1> QED
  BY <1>3, <1>4, <1>5, <1>6, <1>7 DEF Controller

LEMMA PoolStep == PoolInv /\ [PoolNext]_poolVars => PoolInv'
<1> SUFFICES ASSUME PoolInv, [PoolNext]_poolVars
             PROVE  PoolInv'
  OBVIOUS
<1>1. CASE UNCHANGED poolVars
  BY <1>1 DEF PoolInv, PoolTypeOK, PhaseInv, QueuedInv, RunInv, poolVars
<1>2. ASSUME NEW t \in Tasks, Submit(t)
      PROVE  PoolInv'
  <2>1. 0 \in 0 .. NumWorkers
    BY NumWorkersAssumption
  <2> QED
    BY <1>2, <2>1, SubmitKeeps DEF Submit
<1>3. ASSUME NEW w \in Workers, NEW t \in Tasks, SubmitFromTask(w, t)
      PROVE  PoolInv'
  <2>1. AddQueue(w) \in 0 .. NumWorkers
    BY NumWorkersAssumption DEF AddQueue, Workers
  <2> QED
    BY <1>3, <2>1, SubmitKeeps DEF SubmitFromTask
<1> QED
  BY <1>1, <1>2, <1>3, ControlKeeps, LoopTestKeeps, TakeKeeps, TaskReturnsKeeps
     DEF PoolNext, Worker

\* ThreadPool, with either queue policy, any number of workers and tasks, and
\* any sequence of Start, Submit and Stop: a submitted task is in one queue
\* once, a running one on one worker, any other nowhere; and no worker is left
\* when Stop has returned.
THEOREM TasksAreInOnePlace == PoolSpec => []TaskInOnePlace
<1>1. PoolInit => PoolInv
  <2> SUFFICES ASSUME PoolInit PROVE PoolInv
    OBVIOUS
  <2>1. \A q \in 0 .. NumWorkers : taskQueue[q] = <<>> /\ taskQueue[q] \in Seq(Tasks)
    BY DEF PoolInit
  <2>2. PoolTypeOK
    BY <2>1, NumWorkersAssumption DEF PoolInit, PoolTypeOK
  <2>3. PhaseInv /\ RunInv
    BY DEF PoolInit, PhaseInv, RunInv
  <2>4. QueuedInv
    BY <2>1 DEF PoolInit, QueuedInv
  <2> QED
    BY <2>2, <2>3, <2>4 DEF PoolInv
<1> QED
  BY <1>1, PoolInvImplies, PoolStep, PTL DEF PoolSpec
=============================================================================
