------------------------------ MODULE Messages ------------------------------
(***************************************************************************)
(* Two messages of one type under any sequence of calls of the generated   *)
(* interface.  said is what the calls mean: the fields a message has and   *)
(* their values.                                                           *)
(***************************************************************************)
EXTENDS Protobuf

CONSTANT Payloads    \* the strings that fields are set to

ASSUME PayloadAssumption ==
    \A v \in Payloads : v \in Seq(0 .. 255) /\ Len(v) < 128 * 128 * 128

VARIABLES msg, said
messageVars == <<msg, said>>

MessageObjects == {"a", "b"}
Unknown == <<<<>>, <<122, 1, 7>>>>          \* field 15, of a later version

MessageInit ==
    /\ \E type \in {RpcRequest, EchoRequest} : msg = [o \in MessageObjects |-> New(type)]
    /\ said = [o \in MessageObjects |-> <<>>]

\* A call leaves message o as m, meaning the fields of meant.
Calls(o, m, meant) ==
    /\ msg' = [msg EXCEPT ![o] = m]
    /\ said' = [said EXCEPT ![o] = meant]

With(o, f, v) == [g \in DOMAIN said[o] \cup {f} |-> IF g = f THEN v ELSE said[o][g]]
WithoutField(o, f) == [g \in DOMAIN said[o] \ {f} |-> said[o][g]]
Override(base, top) ==
    [g \in DOMAIN base \cup DOMAIN top |-> IF g \in DOMAIN top THEN top[g] ELSE base[g]]

FieldCalls(o) ==
    \E f \in DOMAIN msg[o].str :
        \/ \E v \in Payloads : Calls(o, SetField(msg[o], f, v), With(o, f, v))
        \/ Calls(o, MutableField(msg[o], f),
                 With(o, f, IF f \in DOMAIN said[o] THEN said[o][f] ELSE <<>>))
        \/ Calls(o, ClearField(msg[o], f), WithoutField(o, f))
        \/ Calls(o, ReleaseField(msg[o], f), WithoutField(o, f))
        \/ \E v \in Payloads : Calls(o, SetAllocated(msg[o], f, v), With(o, f, v))
        \/ Calls(o, SetAllocated(msg[o], f, DefaultString), WithoutField(o, f))

MessageCalls(o, p) ==
    \/ Calls(o, MessageClear(msg[o]), <<>>)
    \/ /\ o # p
       /\ \/ /\ Len(msg[o].unknown \o msg[p].unknown) <= 3
             /\ Calls(o, MergeFrom(msg[o], msg[p]), Override(said[o], said[p]))
          \/ Calls(o, CopyFrom(msg[o], msg[p]), said[p])
          \/ /\ msg' = [msg EXCEPT ![o] = msg[p], ![p] = msg[o]]      \* Swap
             /\ said' = [said EXCEPT ![o] = said[p], ![p] = said[o]]

\* o parses what p serializes to, followed by a field of a later version; a
\* parse that fails leaves o in between, and users drop it.
ParseCall(o, p) ==
    \E u \in 1..2 :
        LET r == Parse(msg[o], Serialize([msg[p] EXCEPT !.unknown = Unknown[u]])) IN
        IF r.ok THEN Calls(o, r.m, said[p]) ELSE Calls(o, New(DOMAIN msg[o].str), <<>>)

MessageNext ==
    \E o, p \in MessageObjects : FieldCalls(o) \/ MessageCalls(o, p) \/ ParseCall(o, p)

MessageSpec == MessageInit /\ [][MessageNext]_messageVars

--------------------------------------------------------------------------
(* A field whose bit is set has a string of its own, never the shared      *)
(* empty one: Clear() empties that string in place (the GOOGLE_DCHECKs of  *)
(* Clear).                                                                 *)
BitsOwnStrings ==
    \A o \in MessageObjects : \A f \in msg[o].has : msg[o].str[f] # DefaultString

(* Whatever was called before, a message has exactly the fields that were  *)
(* set, copied, merged or parsed into it since, with those values, in      *)
(* strings of its own.                                                     *)
MessageSaysWhatWasSet ==
    /\ BitsOwnStrings
    /\ \A o \in MessageObjects :
         /\ msg[o].has = DOMAIN said[o]
         /\ \A f \in msg[o].has : Field(msg[o], f) = said[o][f]

(* What was written is as long as the buffer that ByteSizeLong sized, and  *)
(* parses, into a message that held anything before, exactly when every    *)
(* required field is there, to the same fields and the same bytes again.   *)
RoundTrips ==
    \A o, p \in MessageObjects :
        LET s == Serialize(msg[o])
            r == Parse(msg[p], s)
        IN  /\ Len(s) = ByteSizeLong(msg[o])
            /\ r.ok = IsInitialized(msg[o])
            /\ r.ok => Serialize(r.m) = s /\ \A f \in r.m.has : Field(r.m, f) = said[o][f]
=============================================================================
