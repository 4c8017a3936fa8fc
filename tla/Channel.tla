------------------------------ MODULE Channel -------------------------------
(***************************************************************************)
(* The request/response engine of go-castv2: primitives/Channel.go, the    *)
(* dispatcher goroutine of primitives/Client.go and the generic.Counter    *)
(* that numbers requests.                                                  *)
(*                                                                         *)
(* Callers run Channel.Request concurrently, one call each at a time; one  *)
(* dispatcher goroutine per client reads what the device sends and hands   *)
(* answers to the waiting callers over unbuffered Go channels.  A request  *)
(* is named by its channel and by the number GetAndIncrement returned for  *)
(* it, which also names the Go channel its caller waits on.                *)
(***************************************************************************)
EXTENDS Integers

CONSTANTS
    Callers,        \* goroutines that call Request
    Channels,       \* the channels of the client
    MediaChannels,  \* those of MediaController.GetStatus, all of whose calls pass
    GlobalPayload,  \* this one package-level payload (getMediaStatus)
    MaxRequests     \* bound: requests per channel

ASSUME ChannelAssumption ==
    /\ Channels # {}
    /\ MediaChannels \subseteq Channels
    /\ GlobalPayload \notin Callers
    /\ MaxRequests \in Nat \ {0}

VARIABLES
    counter,    \* counter[ch]: the next request number of ch
    payload,    \* payload[c]: the payload c's current call passed
    payloadID,  \* payloadID[p]: the RequestID field of payload p
    inFlight,   \* inFlight[ch][id]: whose response chan is filed under id
    pc,         \* pc[c]: where caller c is in Request
    call,       \* call[c]: the channel and the number of c's current call
    sent,       \* the requests the device received
    dpc,        \* where the dispatcher is
    msg,        \* the answer the dispatcher works on
    listener,   \* the response chan it took from inFlight
    fate,       \* history: what became of each request
    shared,     \* history: two calls under way at once passed one payload
    crashed     \* the Go runtime killed the process

vars == <<counter, payload, payloadID, inFlight, pc, call, sent, dpc, msg, listener,
          fate, shared, crashed>>
numbering == <<counter, payload, payloadID, shared>>
callerVars == <<numbering, pc, call, sent>>
dispatcherVars == <<dpc, msg, listener>>

Numbers == 0 .. MaxRequests - 1
AnyChannel == CHOOSE ch \in Channels : TRUE
Nobody == -1
Message == [chan : Channels, id : Numbers, number : Numbers]

\* Slip: every caller passes the package-level payload.
PayloadAlwaysGlobal(c) == GlobalPayload

Payload(c) == payload[c]

Payloads == Callers \cup {GlobalPayload}
WireID(c) == payloadID[Payload(c)]
Chan(c) == call[c].chan
Number(c) == call[c].number

Steps == {"idle", "numbered", "registered", "waiting", "failed", "expired"}
DispatcherSteps == {"read", "lookup", "offer", "delete", "callback"}
Fates == {"unused", "pending", "answered", "crossed", "timedOut", "failed"}

TypeOK ==
    /\ counter \in [Channels -> 0 .. MaxRequests]
    /\ payload \in [Callers -> Payloads]
    /\ payloadID \in [Payloads -> Numbers]
    /\ inFlight \in [Channels -> [Numbers -> Numbers \cup {Nobody}]]
    /\ pc \in [Callers -> Steps]
    /\ call \in [Callers -> [chan : Channels, number : Numbers]]
    /\ sent \subseteq Message
    /\ dpc \in DispatcherSteps
    /\ msg \in Message
    /\ listener \in Numbers
    /\ fate \in [Channels -> [Numbers -> Fates]]
    /\ shared \in BOOLEAN /\ crashed \in BOOLEAN

\* msg, listener, call and payload hold no meaning before their first use.
Init ==
    /\ counter = [ch \in Channels |-> 0]
    /\ payload = [c \in Callers |-> c]
    /\ payloadID = [p \in Payloads |-> 0]
    /\ inFlight = [ch \in Channels |-> [n \in Numbers |-> Nobody]]
    /\ pc = [c \in Callers |-> "idle"]
    /\ call = [c \in Callers |-> [chan |-> AnyChannel, number |-> 0]]
    /\ sent = {}
    /\ dpc = "read"
    /\ msg = [chan |-> AnyChannel, id |-> 0, number |-> 0]
    /\ listener = 0
    /\ fate = [ch \in Channels |-> [n \in Numbers |-> "unused"]]
    /\ shared = FALSE
    /\ crashed = FALSE

----------------------------------------------------------------------------
(* Helpers *)

Goes(c, from, to) ==
    /\ ~crashed
    /\ pc[c] = from
    /\ pc' = [pc EXCEPT ![c] = to]

DispatcherGoes(from, to) ==
    /\ ~crashed
    /\ dpc = from
    /\ dpc' = to

\* generic.Counter.GetAndIncrement, its mutex held.
GetAndIncrement(ch) == counter' = [counter EXCEPT ![ch] = @ + 1]

\* c.inFlight[id] = response
File(ch, id, n) == inFlight' = [inFlight EXCEPT ![ch][id] = n]

\* delete(c.inFlight, id)
Unfile(ch, id) == inFlight' = [inFlight EXCEPT ![ch][id] = Nobody]

Ends(ch, n, how) == fate' = [fate EXCEPT ![ch][n] = how]

----------------------------------------------------------------------------
(* Channel.Request, run by caller c *)

\* Does a call with payload p meet another's with the same one?
Pending(c) == pc[c] # "idle"
Meets(c, p) == \E d \in Callers \ {c} : Pending(d) /\ payload[d] = p

\* A caller builds its payload for the call, but GetStatus of the
\* MediaController passes the package's.
Passes(c, ch) ==
    \E p \in {c} \cup {GlobalPayload : m \in MediaChannels \cap {ch}} :
        /\ payload' = [payload EXCEPT ![c] = p]
        /\ shared' = (shared \/ Meets(c, p))

\* The payload takes the next number.  The field belongs to the payload and
\* not to the call: every later step reads it again through WireID.
TakeNumber(c, ch) ==
    /\ Goes(c, "idle", "numbered")
    /\ counter[ch] < MaxRequests
    /\ call' = [call EXCEPT ![c] = [chan |-> ch, number |-> counter[ch]]]
    /\ Passes(c, ch)
    /\ payloadID' = [payloadID EXCEPT ![Payload(c)'] = counter[ch]]
    /\ GetAndIncrement(ch)
    /\ Ends(ch, counter[ch], "pending")
    /\ UNCHANGED <<inFlight, sent, dispatcherVars, crashed>>

Register(c) ==
    /\ Goes(c, "numbered", "registered")
    /\ File(Chan(c), WireID(c), Number(c))
    /\ UNCHANGED <<numbering, call, sent, dispatcherVars, fate, crashed>>

Transmit(c) ==
    /\ Goes(c, "registered", "waiting")
    /\ sent' = sent \cup {[chan |-> Chan(c), id |-> WireID(c), number |-> Number(c)]}
    /\ UNCHANGED <<numbering, inFlight, call, dispatcherVars, fate, crashed>>

\* Slip: Request ignores the error of Send and waits for an answer.
SendErrorIgnored(c) ==
    /\ Goes(c, "registered", "waiting")
    /\ UNCHANGED <<numbering, inFlight, call, sent, dispatcherVars, fate, crashed>>

\* The connection is down or was closed by Client.Close.
SendFails(c) ==
    /\ Goes(c, "registered", "failed")
    /\ UNCHANGED <<numbering, inFlight, call, sent, dispatcherVars, fate, crashed>>

ReturnSendError(c) ==
    /\ Goes(c, "failed", "idle")
    /\ Unfile(Chan(c), WireID(c))
    /\ Ends(Chan(c), Number(c), "failed")
    /\ UNCHANGED <<numbering, call, sent, dispatcherVars, crashed>>

\* Slip: Request waits for the answer only, with no time.After case.
TimerMissing(c) == FALSE

\* The select takes the timer's case: the caller stops listening here, the
\* entry goes one step later.
TimerFires(c) ==
    /\ Goes(c, "waiting", "expired")
    /\ UNCHANGED <<numbering, inFlight, call, sent, dispatcherVars, fate, crashed>>

\* Slip: the entry of a timed out request stays in the map.
ReturnTimeoutKeepsEntry(c) ==
    /\ Goes(c, "expired", "idle")
    /\ Ends(Chan(c), Number(c), "timedOut")
    /\ UNCHANGED <<numbering, inFlight, call, sent, dispatcherVars, crashed>>

ReturnTimeout(c) ==
    /\ Goes(c, "expired", "idle")
    /\ Unfile(Chan(c), WireID(c))
    /\ Ends(Chan(c), Number(c), "timedOut")
    /\ UNCHANGED <<numbering, call, sent, dispatcherVars, crashed>>

----------------------------------------------------------------------------
(* The dispatcher: the goroutine of NewClient, in receiveMessage *)

\* The device answers the requests it received in any order, after any delay,
\* more than once or never.  The channels the answer is not addressed to
\* return at once from receiveMessage.
ReadAnswer(m) ==
    /\ DispatcherGoes("read", "lookup")
    /\ msg' = m
    /\ UNCHANGED <<callerVars, inFlight, listener, fate, crashed>>

\* A broadcast, or a message without a request number, goes to the listeners.
ReadEvent ==
    /\ DispatcherGoes("read", "callback")
    /\ UNCHANGED <<callerVars, inFlight, msg, listener, fate, crashed>>

CallbacksReturn ==
    /\ DispatcherGoes("callback", "read")
    /\ UNCHANGED <<callerVars, inFlight, msg, listener, fate, crashed>>

LookupFinds ==
    /\ DispatcherGoes("lookup", "offer")
    /\ inFlight[msg.chan][msg.id] # Nobody
    /\ listener' = inFlight[msg.chan][msg.id]
    /\ UNCHANGED <<callerVars, inFlight, msg, fate, crashed>>

LookupMisses ==
    /\ DispatcherGoes("lookup", "read")
    /\ inFlight[msg.chan][msg.id] = Nobody
    /\ UNCHANGED <<callerVars, inFlight, msg, listener, fate, crashed>>

\* The send on the unbuffered chan and the caller's receive are one step: it
\* needs the caller of that very request to be waiting.
HandOff(c) ==
    /\ DispatcherGoes("offer", "delete")
    /\ Goes(c, "waiting", "idle")
    /\ call[c] = [chan |-> msg.chan, number |-> listener]
    /\ Ends(msg.chan, listener,
            IF msg.number = listener THEN "answered" ELSE "crossed")
    /\ UNCHANGED <<numbering, inFlight, call, sent, msg, listener, crashed>>

\* Slip: the entry of an answered request stays in the map.
DeleteEntryForgotten ==
    /\ DispatcherGoes("delete", "read")
    /\ UNCHANGED <<callerVars, inFlight, msg, listener, fate, crashed>>

DeleteEntry ==
    /\ DispatcherGoes("delete", "read")
    /\ Unfile(msg.chan, msg.id)
    /\ UNCHANGED <<callerVars, msg, listener, fate, crashed>>

----------------------------------------------------------------------------
(* inFlight is a Go map no lock protects.  Two goroutines about to touch the *)
(* map of one channel, one of them to write it, may meet: the runtime then   *)
(* ends the process ("fatal error: concurrent map writes") or does not.      *)

MapWriters(ch) == {c \in Callers : Chan(c) = ch /\ pc[c] \in {"numbered", "failed", "expired"}}

DispatcherAtMap(ch) == dpc \in {"lookup", "delete"} /\ msg.chan = ch

MapFault(ch) ==
    /\ ~crashed
    /\ \/ \E c, d \in MapWriters(ch) : c # d
       \/ DispatcherAtMap(ch) /\ MapWriters(ch) # {}
    /\ crashed' = TRUE
    /\ UNCHANGED <<callerVars, inFlight, dispatcherVars, fate>>

----------------------------------------------------------------------------

Finish(c) == ReturnSendError(c) \/ TimerFires(c) \/ ReturnTimeout(c)

CallerStep(c) ==
    \/ \E ch \in Channels : TakeNumber(c, ch)
    \/ Register(c)
    \/ Transmit(c)
    \/ SendFails(c)
    \/ ReturnSendError(c)
    \/ TimerFires(c)
    \/ ReturnTimeout(c)

Dispatch ==
    \/ LookupFinds
    \/ LookupMisses
    \/ \E c \in Callers : HandOff(c)
    \/ DeleteEntry

DispatcherStep ==
    \/ \E m \in sent : ReadAnswer(m)
    \/ ReadEvent
    \/ CallbacksReturn
    \/ Dispatch

Next ==
    \/ \E c \in Callers : CallerStep(c)
    \/ DispatcherStep
    \/ \E ch \in Channels : MapFault(ch)

Spec == Init /\ [][Next]_vars

(***************************************************************************)
(* Fairness: goroutines are scheduled and time.After fires, so a caller    *)
(* past its write and the dispatcher inside a message keep moving.  Nothing*)
(* is assumed of the device (ReadAnswer, ReadEvent), of new calls, nor of  *)
(* what may block in the socket write, which has no deadline: Transmit and *)
(* the callbacks, one of which answers a PING.                             *)
(***************************************************************************)
FairSpec ==
    /\ Spec
    /\ \A c \in Callers : WF_vars(Finish(c))
    /\ WF_vars(Dispatch)

----------------------------------------------------------------------------
(* Properties *)

\* What follows breaks for one reason only: two calls that were under way at
\* once wrote their numbers to one payload.  One GetStatus of the media channel
\* next to any other calls, or after another that ended in any way, does no harm.

\* "message is sent via the request method with unique requestID"
\* (Channel.go:34): no two requests of one channel reach the device with the
\* same id, unless two calls shared a payload.
RequestIDsUnique ==
    ~shared => \A m1, m2 \in sent : m1.chan = m2.chan /\ m1.id = m2.id => m1 = m2

\* An answer is only ever returned by the call it answers, however late,
\* repeated or out of order the device answers and however many calls timed
\* out before, unless two calls shared a payload.
ReplyMatchesRequest ==
    ~shared => \A ch \in Channels, n \in Numbers : fate[ch][n] # "crossed"

\* inFlight does not leak: an entry belongs to a call that still runs, or
\* is the one the dispatcher is about to delete, unless two calls shared a
\* payload.
InFlightIsPending ==
    ~shared => \A ch \in Channels, id \in Numbers :
        inFlight[ch][id] # Nobody =>
            \/ \E c \in Callers :
                   Pending(c) /\ call[c] = [chan |-> ch, number |-> inFlight[ch][id]]
            \/ dpc = "delete" /\ msg.chan = ch /\ msg.id = id

\* The dispatcher blocks on a response chan only while its caller waits, or
\* because the call timed out between the lookup and the hand-off: never on
\* a call that was answered already or that failed to send, unless two calls
\* shared a payload.
StallMeansTimeout ==
    ~shared /\ dpc = "offer" =>
        \/ fate[msg.chan][listener] = "timedOut"
        \/ \E c \in Callers :
              /\ pc[c] \in {"waiting", "expired"}
              /\ call[c] = [chan |-> msg.chan, number |-> listener]

\* Each request has one fate, reached the way RequestReply allows, in every
\* step until two calls share a payload.
Delivered == {<<m.chan, m.number>> : m \in sent}
Abstract == INSTANCE RequestReply WITH delivered <- Delivered
ImplementsRequestReply ==
    Abstract!Init /\ [][Abstract!Next \/ shared']_(Abstract!vars)

\* Once its message is written (or failed to be), a call returns: an answer,
\* the timer or the error ends it even if the dispatcher is stuck.
WaitingRequestReturns ==
    \A c \in Callers :
        pc[c] \in {"waiting", "failed", "expired"} ~> pc[c] = "idle" \/ crashed
=============================================================================
