------------------------------- MODULE Status -------------------------------
(***************************************************************************)
(* mcast::Status and Result: a null pointer for OK, or an array of its own *)
(* with the state, a byte for the length of the text, and the text.  The   *)
(* variables of a program are copied, moved, swapped and destroyed, with   *)
(* arrays that are freed and allocated again.  A text is its length; the   *)
(* length byte keeps it modulo ByteMod (256).                              *)
(***************************************************************************)
EXTENDS Integers

CONSTANTS
    Statuses,    \* variables of type Status
    Arrays,      \* addresses of arrays
    ByteMod,     \* the number of values of the length byte
    TextSizes,   \* the lengths of error texts
    UsedStates,  \* the failures that occur
    Null

\* enum State.
States == {"InvailArgument", "NotFound", "Failed", "Interrupt", "Eof", "Again"}
ASSUME UsedStatesAssumption == UsedStates \subseteq States
ASSUME StatusAssumption ==
    Null \notin Arrays /\ ByteMod \in Nat \ {0} /\ TextSizes \subseteq Nat

VARIABLES
    state_,     \* the array of each variable, or Null
    heap,       \* the contents of the arrays that are allocated
    meant       \* history: the state and text each variable was given

statusVars == <<state_, heap, meant>>

OKMeant == [state |-> "OK", text |-> 0]

StatusInit ==
    /\ state_ = [v \in Statuses |-> Null]
    /\ heap = [a \in {} |-> Null]
    /\ meant = [v \in Statuses |-> OKMeant]

IsOK(v) == state_[v] = Null
StateValue(v) == IF IsOK(v) THEN "OK" ELSE heap[state_[v]].state
ErrorTextSize(v) == heap[state_[v]].size
ErrorText(v) == IF IsOK(v) THEN 0 ELSE ErrorTextSize(v)

\* delete[] of a variable's array; deleting Null does nothing.
Without(h, v) == [a \in DOMAIN h \ {state_[v]} |-> h[a]]

\* new char[]: the array a with contents x.
Allocate(h, a, x) == [b \in DOMAIN h \cup {a} |-> IF b = a THEN x ELSE h[b]]

\* Mutant: the length byte is one short of the text.
NewArrayShort(s, size) == [state |-> s, size |-> (size - 1) % ByteMod, text |-> size]

\* The array of Status(s, msg, size).
NewArray(s, size) == [state |-> s, size |-> size % ByteMod, text |-> size]

\* The array a copy of w gets: none, or the new one.
CopyTarget(w, a) == IF IsOK(w) THEN Null ELSE a

\* v = Status(s, text): a new array is moved into v, whose own is freed.
Construct(v, s, size, a) ==
    /\ a \in Arrays \ DOMAIN heap
    /\ heap' = Allocate(Without(heap, v), a, NewArray(s, size))
    /\ state_' = [state_ EXCEPT ![v] = a]
    /\ meant' = [meant EXCEPT ![v] = [state |-> s, text |-> size % ByteMod]]

\* v = w: a copy that is as long as w's length byte says, swapped with v; the
\* old array goes with the temporary.
CopyAssign(v, w, a) ==
    /\ a \in Arrays \ DOMAIN heap
    /\ heap' = IF IsOK(w) THEN Without(heap, v)
               ELSE Allocate(Without(heap, v), CopyTarget(w, a),
                             [heap[state_[w]] EXCEPT !.text = ErrorTextSize(w)])
    /\ state_' = [state_ EXCEPT ![v] = CopyTarget(w, a)]
    /\ meant' = [meant EXCEPT ![v] = meant[w]]

MovedFrom(w) == Null

\* v = std::move(w), which does nothing for a variable moved to itself; the
\* source is OK afterwards.
MoveAssign(v, w) ==
    /\ v # w
    /\ heap' = Without(heap, v)
    /\ state_' = [state_ EXCEPT ![v] = state_[w], ![w] = MovedFrom(w)]
    /\ meant' = [meant EXCEPT ![v] = meant[w], ![w] = OKMeant]

StatusSwap(v, w) ==
    /\ state_' = [state_ EXCEPT ![v] = state_[w], ![w] = state_[v]]
    /\ meant' = [meant EXCEPT ![v] = meant[w], ![w] = meant[v]]
    /\ UNCHANGED heap

\* The end of v's life; its name is a new OK status then.
Destroy(v) ==
    /\ heap' = Without(heap, v)
    /\ state_' = [state_ EXCEPT ![v] = Null]
    /\ meant' = [meant EXCEPT ![v] = OKMeant]

StatusNext ==
    \E v, w \in Statuses :
        \/ \E s \in UsedStates, size \in TextSizes, a \in Arrays : Construct(v, s, size, a)
        \/ \E a \in Arrays : CopyAssign(v, w, a)
        \/ MoveAssign(v, w)
        \/ StatusSwap(v, w)
        \/ Destroy(v)

StatusSpec == StatusInit /\ [][StatusNext]_statusVars

-----------------------------------------------------------------------------
\* Every array has one owner and every owner an array that is not freed:
\* nothing is freed twice, used after it was freed, or leaked.
ArraysHaveOneOwner ==
    /\ \A v, w \in Statuses : v # w /\ ~ IsOK(v) => state_[v] # state_[w]
    /\ {state_[v] : v \in Statuses} \ {Null} = DOMAIN heap

\* A status says what it was made with, through any copies and moves of arrays
\* that have one owner: the state, and the text as far as the length byte
\* reaches.
StatusSaysWhatWasMeant ==
    /\ ArraysHaveOneOwner
    /\ \A v \in Statuses :
         /\ StateValue(v) = meant[v].state
         /\ ErrorText(v) = meant[v].text
         /\ ~ IsOK(v) => ErrorTextSize(v) <= heap[state_[v]].text
=============================================================================
