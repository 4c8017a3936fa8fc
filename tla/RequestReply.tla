---------------------------- MODULE RequestReply ----------------------------
(***************************************************************************)
(* What a cast channel promises its callers, with no table, no dispatcher  *)
(* and no identifiers on the wire: every request gets a number nobody else *)
(* gets, reaches the device at most once, and ends at most once - with the *)
(* device's answer to that very request, with a timeout, or with a send    *)
(* error.  An answer comes only to a request that was sent; a send error   *)
(* only to one that was not.  primitives/Channel implements it             *)
(* (Channel.tla, property ImplementsRequestReply).                         *)
(***************************************************************************)
EXTENDS Naturals

CONSTANTS
    Channels,     \* the channels of one client
    MaxRequests   \* how many requests one channel sees

VARIABLES
    fate,         \* fate[ch][n]: what became of request n of channel ch
    delivered     \* the requests that reached the device, as <<ch, n>>

vars == <<fate, delivered>>

Numbers == 0 .. MaxRequests - 1

Fates == {"unused", "pending", "answered", "timedOut", "failed"}

Init ==
    /\ fate = [ch \in Channels |-> [n \in Numbers |-> "unused"]]
    /\ delivered = {}

Becomes(ch, n, from, to) ==
    /\ fate[ch][n] = from
    /\ fate' = [fate EXCEPT ![ch][n] = to]

Ask(ch, n) ==
    /\ Becomes(ch, n, "unused", "pending")
    /\ UNCHANGED delivered

Deliver(ch, n) ==
    /\ fate[ch][n] = "pending"
    /\ <<ch, n>> \notin delivered
    /\ delivered' = delivered \cup {<<ch, n>>}
    /\ UNCHANGED fate

Answer(ch, n) ==
    /\ <<ch, n>> \in delivered
    /\ Becomes(ch, n, "pending", "answered")
    /\ UNCHANGED delivered

Expire(ch, n) ==
    /\ <<ch, n>> \in delivered
    /\ Becomes(ch, n, "pending", "timedOut")
    /\ UNCHANGED delivered

Fail(ch, n) ==
    /\ <<ch, n>> \notin delivered
    /\ Becomes(ch, n, "pending", "failed")
    /\ UNCHANGED delivered

Next ==
    \E ch \in Channels, n \in Numbers :
        \/ Ask(ch, n)
        \/ Deliver(ch, n)
        \/ Answer(ch, n)
        \/ Expire(ch, n)
        \/ Fail(ch, n)

Spec == Init /\ [][Next]_vars
=============================================================================
