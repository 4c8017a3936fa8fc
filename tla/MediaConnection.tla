--------------------------- MODULE MediaConnection --------------------------
(***************************************************************************)
(* controllers/MediaConnection.go on top of ReceiverController.go: before  *)
(* every request to an application, the connection asks the device which   *)
(* session runs the application, and sets up a channel to it.              *)
(*                                                                         *)
(* getAppSession starts a goroutine, the waiter, that takes one status     *)
(* from the receiver controller's unbuffered Incoming chan, calls          *)
(* GetStatus, and then waits for the waiter's signal.  Statuses are        *)
(* offered to Incoming by onStatus: from GetStatus by its own caller, and  *)
(* from the dispatcher for each status the device broadcasts.  Nothing     *)
(* ties a status to the waiter it was asked for.                           *)
(*                                                                         *)
(* The connection has no lock: sessionID, channel, connectionController    *)
(* and the channel's DestinationID are shared by the callers, and each     *)
(* access to one of them that another caller can come between is a step.   *)
(*                                                                         *)
(* Channel.Request is used through its contract (RequestReply): past its   *)
(* write it ends with the device's answer, handed over by the dispatcher,  *)
(* or fails.  A write to the socket may block for ever.                    *)
(***************************************************************************)
EXTENDS Integers, FiniteSets

CONSTANTS
    Callers,     \* goroutines that call mediaConnection.Request
    Sessions,    \* sessions of the application; each has its own transport
    Nil,         \* no session, no channel, no connection controller
    MaxSwitches, \* bound: how often the device changes its session
    MaxFailures  \* bound: how many GetStatus calls fail

ASSUME MediaConnectionAssumption ==
    /\ IsFiniteSet(Callers)
    /\ Nil \notin Sessions \cup Callers
    /\ MaxSwitches \in Nat
    /\ MaxFailures \in Nat

VARIABLES
    session,     \* the session that runs on the device
    switches,    \* how often it changed
    connected,   \* the transports with a CONNECT and no CLOSE behind it
    dpc,         \* the dispatcher: reading, or offering a broadcast status
    dstatus,     \* the status it offers
    pc,          \* pc[c]: where caller c is in Request
    phase,       \* phase[c]: which getAppSession, ensure's or refresh's
    got,         \* got[c]: the status c's GetStatus returned
    waiter,      \* waiter[c]: the goroutine of c's getAppSession
    seen,        \* seen[c]: the session it found
    using,       \* using[c]: the channel c loaded last
    orphans,     \* waiters left on Incoming by calls whose GetStatus failed
    failures,    \* how many GetStatus calls failed
    upset,       \* history: two refreshConnections overlapped, or one failed
    sessionID,   \* the connection's sessionID
    controller,  \* the transport of its connection controller
    channel,     \* its channel, named after the caller that made it
    destination  \* destination[c]: DestinationID of the channel c made

device == <<session, switches, connected>>
dispatcher == <<dpc, dstatus>>
status == <<got, seen, waiter, orphans>>
counts == <<failures, upset>>
connection == <<sessionID, controller, channel, destination>>
vars == <<device, dispatcher, pc, phase, status, using, counts, connection>>

Statuses == Sessions \cup {Nil}
InGetAppSession == {"asked", "wait", "offer", "await", "decide"}
InRefresh == {"clean", "close", "clear", "connect", "install", "load", "redirect", "publish"}
InRequest == {"send", "write"}

TypeOK ==
    /\ session \in Statuses
    /\ switches \in 0 .. MaxSwitches
    /\ connected \subseteq Sessions
    /\ dpc \in {"read", "offer", "crashed"}
    /\ dstatus \in Statuses
    /\ pc \in [Callers -> {"idle", "compare"} \cup InGetAppSession \cup InRefresh \cup InRequest]
    /\ phase \in [Callers -> {"ensure", "refresh"}]
    /\ got \in [Callers -> Statuses]
    /\ seen \in [Callers -> Statuses]
    /\ waiter \in [Callers -> {"none", "receive", "signal"}]
    /\ using \in [Callers -> Callers \cup {Nil}]
    /\ orphans \in 0 .. MaxFailures
    /\ failures \in 0 .. MaxFailures
    /\ upset \in BOOLEAN
    /\ sessionID \in Statuses
    /\ controller \in Statuses
    /\ channel \in Callers \cup {Nil}
    /\ destination \in [Callers -> Statuses]

Init ==
    /\ session \in Statuses
    /\ switches = 0
    /\ connected = {}
    /\ dpc = "read"
    /\ dstatus = Nil
    /\ pc = [c \in Callers |-> "idle"]
    /\ phase = [c \in Callers |-> "ensure"]
    /\ got = [c \in Callers |-> Nil]
    /\ seen = [c \in Callers |-> Nil]
    /\ waiter = [c \in Callers |-> "none"]
    /\ using = [c \in Callers |-> Nil]
    /\ orphans = 0
    /\ failures = 0
    /\ upset = FALSE
    /\ sessionID = Nil
    /\ controller = Nil
    /\ channel = Nil
    /\ destination = [c \in Callers |-> Nil]

Goes(c, from, to) == pc[c] = from /\ pc' = [pc EXCEPT ![c] = to]

\* Request returns, and its variables with it.
Returns(c, from) ==
    /\ Goes(c, from, "idle")
    /\ phase' = [phase EXCEPT ![c] = "ensure"]
    /\ got' = [got EXCEPT ![c] = Nil]
    /\ seen' = [seen EXCEPT ![c] = Nil]
    /\ using' = [using EXCEPT ![c] = Nil]

----------------------------------------------------------------------------
(* The device, external *)

\* An application is launched, replaced or stopped, by anyone.
Switch(s) ==
    /\ switches < MaxSwitches
    /\ s # session
    /\ session' = s
    /\ switches' = switches + 1
    /\ UNCHANGED <<connected, dispatcher, pc, phase, status, using, counts, connection>>

----------------------------------------------------------------------------
(* Offers to Incoming *)

Receiving == {c \in Callers : waiter[c] = "receive"}

\* c.Incoming <- s: some goroutine that waits on Incoming takes it, the waiter
\* of any caller or an orphan, which then blocks for ever on a signal nobody
\* takes.
Taken(s) ==
    \/ \E d \in Receiving :
          /\ waiter' = [waiter EXCEPT ![d] = "signal"]
          /\ seen' = [seen EXCEPT ![d] = s]
          /\ UNCHANGED orphans
    \/ /\ orphans > 0
       /\ orphans' = orphans - 1
       /\ UNCHANGED <<waiter, seen>>

\* The second of time.After passes with nobody on Incoming.
OfferExpires ==
    /\ Receiving = {}
    /\ orphans = 0
    /\ UNCHANGED <<waiter, orphans, seen>>

\* Slip: the offer does not wait for a waiter (select with a default case).
OfferDropped(s) == UNCHANGED <<waiter, orphans, seen>>

\* ReceiverController.onStatus, its offer.
OnStatus(s) == Taken(s) \/ OfferExpires

\* The dispatcher reads a RECEIVER_STATUS broadcast and is in the listener
\* until its offer ends.
Broadcast ==
    /\ dpc = "read"
    /\ dpc' = "offer"
    /\ dstatus' = session
    /\ UNCHANGED <<device, pc, phase, status, using, counts, connection>>

BroadcastOffered ==
    /\ dpc = "offer"
    /\ OnStatus(dstatus)
    /\ dpc' = "read"
    /\ dstatus' = Nil
    /\ UNCHANGED <<device, pc, phase, got, using, counts, connection>>

----------------------------------------------------------------------------
(* getAppSession, run by caller c *)

\* Starts the waiter, and goes on to GetStatus.
Ask(c, from) ==
    /\ Goes(c, from, "asked")
    /\ waiter' = [waiter EXCEPT ![c] = "receive"]
    /\ UNCHANGED <<got, orphans>>

Call(c) ==
    /\ Ask(c, "idle")
    /\ UNCHANGED <<device, dispatcher, phase, seen, using, counts, connection>>

\* The request for a status is written.
StatusRequested(c) ==
    /\ Goes(c, "asked", "wait")
    /\ UNCHANGED <<device, dispatcher, phase, status, using, counts, connection>>

\* The answer needs the dispatcher: it is not in a listener.
StatusAnswered(c) ==
    /\ dpc = "read"
    /\ Goes(c, "wait", "offer")
    /\ got' = [got EXCEPT ![c] = session]
    /\ UNCHANGED <<device, dispatcher, phase, seen, waiter, orphans, using, counts, connection>>

\* Timeout, send error or an answer that is no status: the call returns and
\* leaves its waiter behind, on Incoming or, when it already got a status, on
\* a signal nobody takes.
StatusFails(c) ==
    /\ failures < MaxFailures
    /\ Returns(c, pc[c])
    /\ pc[c] \in {"asked", "wait"}
    /\ waiter' = [waiter EXCEPT ![c] = "none"]
    /\ orphans' = IF waiter[c] = "receive" THEN orphans + 1 ELSE orphans
    /\ failures' = failures + 1
    /\ upset' = (upset \/ phase[c] = "refresh")
    /\ UNCHANGED <<device, dispatcher, connection>>

\* Slip: GetStatus returns its answer without passing it to onStatus.
StatusNotOffered(c) ==
    /\ Goes(c, "offer", "await")
    /\ got' = [got EXCEPT ![c] = Nil]
    /\ UNCHANGED <<device, dispatcher, phase, seen, waiter, orphans, using, counts, connection>>

\* GetStatus passes its answer to onStatus too, as the channel calls no
\* listener for an answer.
StatusOffered(c) ==
    /\ Goes(c, "offer", "await")
    /\ OnStatus(got[c])
    /\ got' = [got EXCEPT ![c] = Nil]
    /\ UNCHANGED <<device, dispatcher, phase, using, counts, connection>>

\* <-getStatusCh
Signal(c) ==
    /\ Goes(c, "await", "decide")
    /\ waiter[c] = "signal"
    /\ waiter' = [waiter EXCEPT ![c] = "none"]
    /\ UNCHANGED <<device, dispatcher, phase, got, seen, orphans, using, counts, connection>>

NoSuchSession(c) ==
    /\ Returns(c, "decide")
    /\ seen[c] = Nil
    /\ upset' = (upset \/ phase[c] = "refresh")
    /\ UNCHANGED <<device, dispatcher, waiter, orphans, failures, connection>>

----------------------------------------------------------------------------
(* ensureConnectionActive, once getAppSession returned *)

Local(c) == UNCHANGED <<device, dispatcher, phase, status, counts>>

\* connection.sessionID = *appSession.SessionID
SetSessionID(c) ==
    /\ Goes(c, "decide", "compare")
    /\ phase[c] = "ensure"
    /\ seen[c] # Nil
    /\ sessionID' = seen[c]
    /\ Local(c)
    /\ UNCHANGED <<using, controller, channel, destination>>

\* Slip: a connection without a channel is not set up.
ResetOnChangeOnly(c) == sessionID # seen[c]

\* Another caller may have set the sessionID again.
ShouldResetConnection(c) == channel = Nil \/ sessionID # seen[c]

\* d is in refreshConnection.
Refreshing(d) == pc[d] \in InRefresh \/ phase[d] = "refresh"

Compare(c) ==
    /\ \/ /\ ShouldResetConnection(c)
          /\ Goes(c, "compare", "clean")
          /\ upset' = (upset \/ \E d \in Callers : Refreshing(d))
       \/ /\ ~ShouldResetConnection(c)
          /\ Goes(c, "compare", "send")
          /\ UNCHANGED upset
    /\ UNCHANGED <<device, dispatcher, phase, status, using, failures, connection>>

----------------------------------------------------------------------------
(* refreshConnection *)

\* performCleanup: the check, the Close of what the field holds by then, and
\* the nil.
CheckController(c) ==
    /\ Goes(c, "clean", IF controller = Nil THEN "clear" ELSE "close")
    /\ Local(c)
    /\ UNCHANGED <<using, connection>>

\* CLOSE is written, or another caller cleared the field and the program ends.
CloseController(c) ==
    /\ Goes(c, "close", "clear")
    /\ connected' = connected \ {controller}
    /\ dpc' = IF controller = Nil THEN "crashed" ELSE dpc
    /\ UNCHANGED <<session, switches, dstatus, phase, status, using, counts, connection>>

\* connectionController = nil, and getAppSession once more.
ClearController(c) ==
    /\ Ask(c, "clear")
    /\ controller' = Nil
    /\ phase' = [phase EXCEPT ![c] = "refresh"]
    /\ seen' = [seen EXCEPT ![c] = Nil]
    /\ UNCHANGED <<device, dispatcher, using, counts, sessionID, channel, destination>>

SessionFoundAgain(c) ==
    /\ Goes(c, "decide", "connect")
    /\ phase[c] = "refresh"
    /\ seen[c] # Nil
    /\ Local(c)
    /\ UNCHANGED <<using, connection>>

\* Slip: CONNECT is for a new channel only, as if a redirected one were still
\* connected.
ConnectOnce(c) ==
    /\ Goes(c, "connect", "install")
    /\ connected' = IF channel = Nil THEN connected \cup {seen[c]} ELSE connected
    /\ UNCHANGED <<session, switches, dispatcher, phase, status, using, counts, connection>>

\* setupConnectionController: a new controller writes CONNECT ...
Connect(c) ==
    /\ Goes(c, "connect", "install")
    /\ connected' = connected \cup {seen[c]}
    /\ UNCHANGED <<session, switches, dispatcher, phase, status, using, counts, connection>>

\* ... and becomes the connection's.
Install(c) ==
    /\ Goes(c, "install", "load")
    /\ controller' = seen[c]
    /\ Local(c)
    /\ UNCHANGED <<using, sessionID, channel, destination>>

\* setupChannel is called with the channel there is ...
LoadChannel(c) ==
    /\ Goes(c, "load", "redirect")
    /\ using' = [using EXCEPT ![c] = channel]
    /\ Local(c)
    /\ UNCHANGED connection

\* ... gives it another destination, or makes one if there was none ...
SetupChannel(c) ==
    /\ Goes(c, "redirect", "publish")
    /\ LET ch == IF using[c] = Nil THEN c ELSE using[c]
       IN  /\ using' = [using EXCEPT ![c] = ch]
           /\ destination' = [destination EXCEPT ![ch] = seen[c]]
    /\ Local(c)
    /\ UNCHANGED <<sessionID, controller, channel>>

\* ... which becomes the connection's.
Publish(c) ==
    /\ Goes(c, "publish", "send")
    /\ channel' = using[c]
    /\ phase' = [phase EXCEPT ![c] = "ensure"]
    /\ UNCHANGED <<device, dispatcher, status, using, counts, sessionID, controller, destination>>

----------------------------------------------------------------------------
(* connection.channel.Request *)

LoadAndSend(c) ==
    /\ Goes(c, "send", "write")
    /\ using' = [using EXCEPT ![c] = channel]
    /\ Local(c)
    /\ UNCHANGED connection

\* The message takes the destination the channel has by then; from there to
\* the end the contract is Channel's.
Send(c) ==
    /\ Returns(c, "write")
    /\ UNCHANGED <<device, dispatcher, waiter, orphans, counts, connection>>

----------------------------------------------------------------------------

GetAppSession(c) ==
    \/ StatusRequested(c)
    \/ StatusAnswered(c)
    \/ StatusFails(c)
    \/ StatusOffered(c)
    \/ Signal(c)
    \/ NoSuchSession(c)

RefreshConnection(c) ==
    \/ CheckController(c)
    \/ CloseController(c)
    \/ ClearController(c)
    \/ SessionFoundAgain(c)
    \/ Connect(c)
    \/ Install(c)
    \/ LoadChannel(c)
    \/ SetupChannel(c)
    \/ Publish(c)

Request(c) ==
    \/ Call(c)
    \/ GetAppSession(c)
    \/ SetSessionID(c)
    \/ Compare(c)
    \/ RefreshConnection(c)
    \/ LoadAndSend(c)
    \/ Send(c)

Next ==
    /\ dpc # "crashed"
    /\ \/ \E s \in Statuses : Switch(s)
       \/ Broadcast
       \/ BroadcastOffered
       \/ \E c \in Callers : Request(c)

Spec == Init /\ [][Next]_vars

(***************************************************************************)
(* Goroutines are scheduled, time.After ends an offer nobody takes, and a  *)
(* GetStatus past its write is answered or times out                       *)
(* (WaitingRequestReturns of Channel).  Nothing is assumed of the writes,  *)
(* which may block in the socket, nor of the dispatcher.                   *)
(***************************************************************************)
FairSpec ==
    /\ Spec
    /\ \A c \in Callers :
          /\ WF_vars(StatusAnswered(c) \/ (StatusFails(c) /\ pc[c] = "wait"))
          /\ WF_vars(StatusOffered(c))
          /\ WF_vars(Signal(c))

----------------------------------------------------------------------------
(* Properties *)

ToOffer == {c \in Callers : pc[c] \in {"asked", "wait", "offer"}}

\* The goroutines on Incoming never outnumber the statuses still to be offered
\* by GetStatus, but by the GetStatus calls that failed: while none failed,
\* whoever takes whose status, nobody is left without one.
WaitersCovered ==
    Cardinality(Receiving) + orphans <= Cardinality(ToOffer) + failures

InWrite(c) == pc[c] = "asked"

\* A caller waits for ever on its waiter only after some GetStatus failed, the
\* waiter that failure left behind taking the status meant for another, or if
\* another caller, whose waiter took its status, is itself held up for ever in
\* the write of its GetStatus.
HangsOnlyAfterFailure ==
    (\A d \in Callers : []<>~InWrite(d)) =>
        \A c \in Callers : pc[c] = "await" ~> pc[c] # "await" \/ failures > 0

\* While the device keeps its session, no interleaving of callers sends a
\* request elsewhere than to the session its call found.
AstrayOnlyAfterSwitch ==
    \A c \in Callers : pc[c] = "write" =>
        /\ using[c] # Nil
        /\ destination[using[c]] # seen[c] => switches > 0

\* "Treat it effectively as a channel with setup and teardown"
\* (MediaConnection.go:18): a request is sent to a transport that was sent
\* CONNECT and no CLOSE since, unless another caller is just refreshing the
\* connection.  Past two refreshes at a time, or one that failed behind its
\* Close, it is not.
ConnectedUnlessRefreshing ==
    \A c \in Callers : pc[c] = "write" =>
        \/ destination[using[c]] \in connected
        \/ \E d \in Callers : Refreshing(d)
        \/ upset
=============================================================================
