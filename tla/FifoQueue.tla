----------------------------- MODULE FifoQueue -----------------------------
(***************************************************************************)
(* What a queue promises: values come out in the order they went in, each  *)
(* once.  A pop that reports "empty" changes nothing and may do so at any  *)
(* time; mcast's lock-free queue promises no more.                         *)
(***************************************************************************)
EXTENDS Sequences

CONSTANTS Values, None

VARIABLES
    items,   \* the values in the queue
    got      \* what the last successful pop returned

Init ==
    /\ items = <<>>
    /\ got = None

Push(v) ==
    /\ items' = Append(items, v)
    /\ UNCHANGED got

Pop ==
    /\ items # <<>>
    /\ got' = Head(items)
    /\ items' = Tail(items)

Next == Pop \/ \E v \in Values : Push(v)

Spec == Init /\ [][Next]_<<items, got>>
=============================================================================
