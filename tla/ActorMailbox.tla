---------------------------- MODULE ActorMailbox ----------------------------
(***************************************************************************)
(* What a message-driven service promises its callers, without threads,    *)
(* queues of ready services or events: an accepted message is handled once *)
(* and alone, in the order of acceptance, also after the service has been  *)
(* closed; a closed service accepts nothing and retires when it is empty.  *)
(***************************************************************************)
EXTENDS Sequences

CONSTANTS Actors, Msgs, None

VARIABLES
    life,     \* "absent", "alive" or "dead"
    closed,   \* has the actor been told to stop?
    inbox,    \* accepted messages that wait
    busy,     \* the message in work, or None
    outcome   \* what became of each message

vars == <<life, closed, inbox, busy, outcome>>

Init ==
    /\ life = [a \in Actors |-> "absent"]
    /\ closed = [a \in Actors |-> FALSE]
    /\ inbox = [a \in Actors |-> <<>>]
    /\ busy = [a \in Actors |-> None]
    /\ outcome = [m \in Msgs |-> "unsent"]

Launch(a) ==
    /\ life[a] = "absent"
    /\ life' = [life EXCEPT ![a] = "alive"]
    /\ UNCHANGED <<closed, inbox, busy, outcome>>

Accept(m, a) ==
    /\ outcome[m] = "unsent"
    /\ life[a] = "alive" /\ ~closed[a]
    /\ inbox' = [inbox EXCEPT ![a] = Append(@, m)]
    /\ outcome' = [outcome EXCEPT ![m] = "queued"]
    /\ UNCHANGED <<life, closed, busy>>

Reject(m, a) ==
    /\ outcome[m] = "unsent"
    /\ closed[a]
    /\ outcome' = [outcome EXCEPT ![m] = "rejected"]
    /\ UNCHANGED <<life, closed, inbox, busy>>

Close(a) ==
    /\ life[a] = "alive" /\ ~closed[a]
    /\ closed' = [closed EXCEPT ![a] = TRUE]
    /\ UNCHANGED <<life, inbox, busy, outcome>>

Begin(a) ==
    /\ life[a] = "alive"
    /\ busy[a] = None
    /\ inbox[a] # <<>>
    /\ busy' = [busy EXCEPT ![a] = Head(inbox[a])]
    /\ inbox' = [inbox EXCEPT ![a] = Tail(@)]
    /\ outcome' = [outcome EXCEPT ![Head(inbox[a])] = "handling"]
    /\ UNCHANGED <<life, closed>>

Finish(a) ==
    /\ busy[a] # None
    /\ outcome' = [outcome EXCEPT ![busy[a]] = "done"]
    /\ busy' = [busy EXCEPT ![a] = None]
    /\ UNCHANGED <<life, closed, inbox>>

Retire(a) ==
    /\ life[a] = "alive" /\ closed[a]
    /\ busy[a] = None
    /\ inbox[a] = <<>>
    /\ life' = [life EXCEPT ![a] = "dead"]
    /\ UNCHANGED <<closed, inbox, busy, outcome>>

Next ==
    \E a \in Actors :
        \/ Launch(a) \/ Close(a) \/ Begin(a) \/ Finish(a) \/ Retire(a)
        \/ \E m \in Msgs : Accept(m, a) \/ Reject(m, a)

Spec == Init /\ [][Next]_vars

FairSpec ==
    /\ Spec
    /\ \A a \in Actors :
         WF_vars(Begin(a)) /\ WF_vars(Finish(a)) /\ WF_vars(Retire(a))
=============================================================================
