--------------------------- MODULE MediaController ---------------------------
(***************************************************************************)
(* controllers/MediaController.go: a command (play, pause, stop, next,     *)
(* previous) is sent twice, first with a timeout of a nanosecond and the   *)
(* media session last heard of, then with the one updateForNewSession      *)
(* learnt.  That function waits for any status that onStatus offers, and   *)
(* onStatus runs in the dispatcher, for what the device sends unasked, as  *)
(* well as in every GetStatus.                                             *)
(*                                                                         *)
(* A status is the number of the media session the device played when it   *)
(* sent it, 0 for an empty list.  Requests go through the connection of    *)
(* module MediaConnection: one may fail, be answered or time out, or never *)
(* get as far as its own timeout, in getAppSession or in the socket.       *)
(***************************************************************************)
EXTENDS Integers, Sequences, FiniteSets

CONSTANTS
    Commands,     \* calls of Play, Pause, Stop, Next or Previous
    Queries,      \* calls of GetStatus
    Device,       \* the addressee of a status nobody waits for
    MaxSession,   \* bound: media sessions the device goes through
    MaxStream     \* bound: messages on their way from the device

Callers == Commands \cup Queries

ASSUME MediaControllerAssumption ==
    /\ Commands \cap Queries = {}
    /\ Device \notin Callers
    /\ MaxSession \in Nat /\ MaxStream \in Nat

VARIABLES
    session,         \* the media session the device plays
    stream,          \* messages from the device: whose request, what status
    dispatching,     \* the status the dispatcher has stored and not yet offered
    mediaSessionID,  \* MediaSessionID
    pc,              \* pc[c]: where call c is
    got,             \* got[c]: the answer to its GetStatus
    waiter,          \* waiter[c]: the goroutine of its updateForNewSession
    taken,           \* taken[c]: the status that goroutine received
    sent,            \* sent[c]: the session its last message is for
    acted,           \* acted[c]: how often the device carried its command out
    base,            \* history: the session when the call began
    disturbed,       \* history: it met another call or took another's status
    unlucky,         \* history: its own status did not reach its waiter
    crashed          \* Status[0] of an empty list ended the program

deviceVars == <<session, stream>>
callVars == <<pc, got, sent, acted, base>>
waiterVars == <<waiter, taken>>
history == <<disturbed, unlucky>>
vars == <<deviceVars, dispatching, mediaSessionID, callVars, waiterVars, history, crashed>>

Session == 0 .. MaxSession

TypeOK ==
    /\ session \in Session
    /\ stream \in Seq((Callers \cup {Device}) \X Session) /\ Len(stream) <= MaxStream
    /\ dispatching \in Session
    /\ mediaSessionID \in Session
    /\ pc \in [Callers -> {"idle", "first", "update", "ask", "asked", "store", "offer",
                            "wait", "send", "second", "returned"}]
    /\ got \in [Callers -> Session]
    /\ waiter \in [Callers -> {"none", "spawned", "receive", "set", "signal", "done"}]
    /\ taken \in [Callers -> Session]
    /\ sent \in [Callers -> Session]
    /\ acted \in [Callers -> 0 .. 2]
    /\ base \in [Callers -> Session]
    /\ disturbed \in [Callers -> BOOLEAN]
    /\ unlucky \in [Callers -> BOOLEAN]
    /\ crashed \in BOOLEAN

\* NewMediaController
Init ==
    /\ session \in Session
    /\ stream = <<>>
    /\ dispatching = 0
    /\ mediaSessionID = 0
    /\ pc = [c \in Callers |-> "idle"]
    /\ got = [c \in Callers |-> 0]
    /\ waiter = [c \in Callers |-> "none"]
    /\ taken = [c \in Callers |-> 0]
    /\ sent = [c \in Callers |-> 0]
    /\ acted = [c \in Callers |-> 0]
    /\ base = [c \in Callers |-> 0]
    /\ disturbed = [c \in Callers |-> FALSE]
    /\ unlucky = [c \in Callers |-> FALSE]
    /\ crashed = FALSE

Goes(c, from, to) == ~crashed /\ pc[c] = from /\ pc' = [pc EXCEPT ![c] = to]

UnderWay == {c \in Callers : pc[c] \notin {"idle", "returned"}}

\* The device sends its status, in answer to c or unasked.
Sends(to) ==
    /\ Len(stream) < MaxStream
    /\ stream' = Append(stream, <<to, session'>>)

\* The device plays something new, and says so.
NewMedia ==
    /\ ~crashed
    /\ session < MaxSession
    /\ session' = session + 1
    /\ Sends(Device)
    /\ UNCHANGED <<dispatching, mediaSessionID, callVars, waiterVars, history, crashed>>

----------------------------------------------------------------------------
(* onStatus *)

\* The first half: an empty list has no element 0.
Stores(status) ==
    IF status = 0
    THEN crashed' = TRUE /\ UNCHANGED mediaSessionID
    ELSE mediaSessionID' = status /\ UNCHANGED crashed

Receivers == {w \in Callers : waiter[w] = "receive"}

\* The second half, a send that does not block: a goroutine at its receive gets
\* the status.  `own' is the call whose answer it is.
Offers(status, own) ==
    \/ /\ Receivers = {}
       /\ unlucky' = [c \in Callers |-> unlucky[c] \/ c = own]
       /\ UNCHANGED <<waiterVars, disturbed>>
    \/ \E w \in Receivers :
          /\ waiter' = [waiter EXCEPT ![w] = "set"]
          /\ taken' = [taken EXCEPT ![w] = status]
          /\ unlucky' = [c \in Callers |-> unlucky[c] \/ (c = own /\ w # own)]
          /\ disturbed' = [disturbed EXCEPT ![w] = @ \/ w # own]

----------------------------------------------------------------------------
(* The dispatcher *)

\* An answer in time goes to its caller, anything else to the listener.
Dispatch ==
    /\ ~crashed
    /\ dispatching = 0
    /\ stream # <<>>
    /\ stream' = Tail(stream)
    /\ LET to == Head(stream)[1]
           status == Head(stream)[2]
       IN \/ /\ to \in Callers /\ pc[to] = "asked"
             /\ pc' = [pc EXCEPT ![to] = "store"]
             /\ got' = [got EXCEPT ![to] = status]
             /\ UNCHANGED <<dispatching, mediaSessionID, crashed>>
          \/ /\ ~(to \in Callers /\ pc[to] = "asked")
             /\ Stores(status)
             /\ dispatching' = status
             /\ UNCHANGED <<pc, got>>
    /\ UNCHANGED <<session, sent, acted, base, waiterVars, history>>

DispatchOffers ==
    /\ ~crashed
    /\ dispatching # 0
    /\ Offers(dispatching, Device)
    /\ dispatching' = 0
    /\ UNCHANGED <<deviceVars, mediaSessionID, callVars, crashed>>

----------------------------------------------------------------------------
(* Calls *)

Begins(c) ==
    /\ base' = [base EXCEPT ![c] = session]
    /\ disturbed' = [d \in Callers |->
          disturbed[d] \/ (UnderWay # {} /\ d \in UnderWay \cup {c})]

CallGetStatus(c) ==
    /\ c \in Queries
    /\ Goes(c, "idle", "ask")
    /\ Begins(c)
    /\ UNCHANGED <<deviceVars, dispatching, mediaSessionID, got, sent, acted, waiterVars, unlucky, crashed>>

\* sendCommand makes its first message.
CallCommand(c) ==
    /\ c \in Commands
    /\ Goes(c, "idle", "first")
    /\ sent' = [sent EXCEPT ![c] = mediaSessionID]
    /\ Begins(c)
    /\ UNCHANGED <<deviceVars, dispatching, mediaSessionID, got, acted, waiterVars, unlucky, crashed>>

\* The connection fails, or the device carries the command out if it is for the
\* session it plays.  Its answer, if any, comes too late or is ignored.
Message(c) ==
    /\ UNCHANGED session
    /\ \/ UNCHANGED <<stream, acted>>
       \/ /\ acted' = IF sent[c] = session THEN [acted EXCEPT ![c] = @ + 1] ELSE acted
          /\ Sends(Device) \/ UNCHANGED stream

\* Request with a timeout of one nanosecond; what it returns is dropped.
FirstMessage(c) ==
    /\ Goes(c, "first", "update")
    /\ Message(c)
    /\ UNCHANGED <<dispatching, mediaSessionID, got, sent, base, waiterVars, history, crashed>>

\* updateForNewSession starts its goroutine.
UpdateForNewSession(c) ==
    /\ Goes(c, "update", "ask")
    /\ waiter' = [waiter EXCEPT ![c] = "spawned"]
    /\ UNCHANGED <<deviceVars, dispatching, mediaSessionID, got, sent, acted, base, taken, history, crashed>>

\* Slip: a command starts again when its GetStatus failed.
AfterStatusAgain(c) ==
    IF c \in Queries THEN "returned" ELSE IF pc[c] = "offer" THEN "wait" ELSE "first"

\* After GetStatus a command waits, whatever came of it.
AfterStatus(c) == IF c \in Commands THEN "wait" ELSE "returned"

\* GetStatus sends its request.
GetStatus(c) ==
    /\ Goes(c, "ask", "asked")
    /\ UNCHANGED session
    /\ Sends(c) \/ UNCHANGED stream
    /\ UNCHANGED <<dispatching, mediaSessionID, got, sent, acted, base, waiterVars, history, crashed>>

\* The request could not be sent, or was not answered in time.
GetStatusFails(c) ==
    /\ pc[c] \in {"ask", "asked"}
    /\ Goes(c, pc[c], AfterStatus(c))
    /\ unlucky' = [unlucky EXCEPT ![c] = TRUE]
    /\ UNCHANGED <<deviceVars, dispatching, mediaSessionID, got, sent, acted, base, waiterVars, disturbed, crashed>>

StoreAnswer(c) ==
    /\ Goes(c, "store", "offer")
    /\ Stores(got[c])
    /\ UNCHANGED <<deviceVars, dispatching, got, sent, acted, base, waiterVars, history>>

OfferAnswer(c) ==
    /\ Goes(c, "offer", AfterStatus(c))
    /\ Offers(got[c], c)
    /\ UNCHANGED <<deviceVars, dispatching, mediaSessionID, got, sent, acted, base, crashed>>

\* Slip: nobody waits for the goroutine.
ResumeAtOnce(c) ==
    /\ Goes(c, "wait", "send")
    /\ UNCHANGED <<deviceVars, dispatching, mediaSessionID, got, sent, acted, base, waiterVars, history, crashed>>

Resume(c) ==
    /\ Goes(c, "wait", "send")
    /\ waiter[c] = "signal"
    /\ waiter' = [waiter EXCEPT ![c] = "done"]
    /\ UNCHANGED <<deviceVars, dispatching, mediaSessionID, got, sent, acted, base, taken, history, crashed>>

\* The second message is made, and sent.
ReadSession(c) ==
    /\ Goes(c, "send", "second")
    /\ sent' = [sent EXCEPT ![c] = mediaSessionID]
    /\ UNCHANGED <<deviceVars, dispatching, mediaSessionID, got, acted, base, waiterVars, history, crashed>>

SecondMessage(c) ==
    /\ Goes(c, "second", "returned")
    /\ Message(c)
    /\ UNCHANGED <<dispatching, mediaSessionID, got, sent, base, waiterVars, history, crashed>>

----------------------------------------------------------------------------
(* The goroutine of updateForNewSession *)

WaiterReceives(c) ==
    /\ ~crashed
    /\ waiter[c] = "spawned"
    /\ waiter' = [waiter EXCEPT ![c] = "receive"]
    /\ UNCHANGED <<deviceVars, dispatching, mediaSessionID, callVars, taken, history, crashed>>

\* Slip: the goroutine ends without a word.
WaiterEnds(c) ==
    /\ ~crashed
    /\ waiter[c] = "set"
    /\ waiter' = [waiter EXCEPT ![c] = "done"]
    /\ mediaSessionID' = taken[c]
    /\ UNCHANGED <<deviceVars, dispatching, callVars, taken, history, crashed>>

WaiterSets(c) ==
    /\ ~crashed
    /\ waiter[c] = "set"
    /\ waiter' = [waiter EXCEPT ![c] = "signal"]
    /\ mediaSessionID' = taken[c]
    /\ UNCHANGED <<deviceVars, dispatching, callVars, taken, history, crashed>>

----------------------------------------------------------------------------

Proceed(c) ==
    \/ FirstMessage(c)
    \/ UpdateForNewSession(c)
    \/ GetStatus(c)
    \/ GetStatusFails(c)
    \/ StoreAnswer(c)
    \/ OfferAnswer(c)
    \/ Resume(c)
    \/ ReadSession(c)
    \/ SecondMessage(c)
    \/ WaiterReceives(c)
    \/ WaiterSets(c)

Next ==
    \/ NewMedia
    \/ Dispatch \/ DispatchOffers
    \/ \E c \in Callers : CallGetStatus(c) \/ CallCommand(c) \/ Proceed(c)

Spec == Init /\ [][Next]_vars

\* In the connection's Request, before its timeout runs.
Requesting(c) == pc[c] \in {"first", "ask", "second"}

(***************************************************************************)
(* Goroutines are scheduled, and the timeout of a request that was sent    *)
(* fires.  Nothing is assumed of a request up to there, which may block    *)
(* for ever in getAppSession (MediaConnection.go:88) or in the socket, nor *)
(* of the device, nor of the dispatcher.                                   *)
(***************************************************************************)
FairSpec ==
    /\ Spec
    /\ \A c \in Callers : WF_vars(~Requesting(c) /\ Proceed(c))

----------------------------------------------------------------------------
(* Properties *)

\* "UpdateForNewSession refreshes the media controller for a new media session"
\* (MediaController.go:228): the second message is for the session the device
\* played when the call began, or a later one.  With one call at a time, and
\* its waiter served by its own GetStatus.
CommandIsCurrent ==
    \A c \in Commands :
        pc[c] \in {"second", "returned"} /\ ~disturbed[c] => sent[c] >= base[c]

\* "Next goes to the next video" (MediaController.go:139).  Does not hold: the
\* device may carry out both messages.
CommandActsOnce == \A c \in Commands : acted[c] <= 1

\* Unless one of its requests hangs, a command does for one reason only: the
\* answer of its own GetStatus did not reach its own goroutine, which then waits
\* for a status from elsewhere.
CommandReturns ==
    \A c \in Commands :
        ([]<>~Requesting(c)) =>
            (pc[c] = "first" ~> pc[c] = "returned" \/ unlucky[c] \/ crashed)
=============================================================================
