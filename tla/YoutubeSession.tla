---------------------------- MODULE YoutubeSession ----------------------------
(***************************************************************************)
(* controllers/YoutubeController.go and controllers/youtube: videos are    *)
(* queued by HTTP requests to YouTube's lounge, in a session that is bound *)
(* anew before every request.  The controller learns which screen to bind  *)
(* to from the device: getScreenID starts a goroutine that waits for any   *)
(* status that onStatus offers, and gives up after five seconds.           *)
(*                                                                         *)
(* The fields of a session, its two counters apart, have no lock.  A       *)
(* session is named after the call of PlayVideo that made it.              *)
(***************************************************************************)
EXTENDS Naturals

CONSTANTS
    Plays,     \* calls of PlayVideo
    Actions,   \* calls of PlayNext, AddToQueue, RemoveFromQueue or ClearPlaylist
    Dummy,     \* the session of NewYoutubeController
    MaxMail    \* bound: statuses on their way from the device

Calls == Plays \cup Actions
Sessions == Plays \cup {Dummy}

ASSUME YoutubeAssumption ==
    /\ Plays \cap Actions = {}
    /\ Dummy \notin Calls
    /\ MaxMail \in Nat

VARIABLES
    session,         \* the controller's session
    lounge,          \* lounge[s]: loungeID is set
    bound,           \* bound[s]: the binding whose ids s holds, 0 for nil
    initialized,     \* initialized[s]
    requestCounter,  \* requestCounter[s]
    sessionCounter,  \* sessionCounter[s]
    pc,              \* pc[c]: where call c is
    phase,           \* phase[c]: what it wants the session for
    on,              \* on[c]: the session it works on
    got,             \* got[c]: the binding it was given last
    number,          \* number[c]: the request number it took
    ofs,             \* ofs[c]: the number within the session it took
    waiter,          \* waiter[c]: the goroutine of its getScreenID
    mail,            \* how many statuses are on their way
    binds,           \* how many bindings the lounge gave out
    posted,          \* the requests the lounge got, bind requests apart
    raced,           \* history: two calls worked on one session at once
    crashed          \* a nil pointer or an empty list ended the program

ids == <<lounge, bound, initialized>>
counters == <<requestCounter, sessionCounter>>
taken == <<got, number, ofs>>
device == <<waiter, mail>>
vars == <<session, ids, counters, pc, phase, on, taken, device, binds, posted, raced, crashed>>

Working == {"ensure", "token", "reset", "take", "bind", "assign", "number", "ofs", "post"}
Request == [by : Calls, binding : Nat, own : BOOLEAN, number : Nat, ofs : Nat]

TypeOK ==
    /\ session \in Sessions
    /\ lounge \in [Sessions -> BOOLEAN]
    /\ bound \in [Sessions -> 0 .. binds]
    /\ initialized \in [Sessions -> BOOLEAN]
    /\ requestCounter \in [Sessions -> Nat]
    /\ sessionCounter \in [Sessions -> Nat]
    /\ pc \in [Calls -> Working \cup {"idle", "try", "screen", "ask", "wait", "new", "start",
                                          "queue", "returned"}]
    /\ phase \in [Calls -> {"action", "first", "start", "second", "rebind"}]
    /\ on \in [Calls -> Sessions]
    /\ got \in [Calls -> 0 .. binds]
    /\ number \in [Calls -> Nat]
    /\ ofs \in [Calls -> Nat]
    /\ waiter \in [Calls -> {"none", "receive", "signal", "done"}]
    /\ mail \in 0 .. MaxMail
    /\ binds \in Nat
    /\ posted \subseteq Request
    /\ raced \in BOOLEAN /\ crashed \in BOOLEAN

\* NewYoutubeController
Init ==
    /\ session = Dummy
    /\ lounge = [s \in Sessions |-> FALSE]
    /\ bound = [s \in Sessions |-> 0]
    /\ initialized = [s \in Sessions |-> FALSE]
    /\ requestCounter = [s \in Sessions |-> 0]
    /\ sessionCounter = [s \in Sessions |-> 0]
    /\ pc = [c \in Calls |-> "idle"]
    /\ phase = [c \in Calls |-> "action"]
    /\ on = [c \in Calls |-> Dummy]
    /\ got = [c \in Calls |-> 0]
    /\ number = [c \in Calls |-> 0]
    /\ ofs = [c \in Calls |-> 0]
    /\ waiter = [c \in Calls |-> "none"]
    /\ mail = 0
    /\ binds = 0
    /\ posted = {}
    /\ raced = FALSE /\ crashed = FALSE

Goes(c, from, to) == ~crashed /\ pc[c] = from /\ pc' = [pc EXCEPT ![c] = to]

\* Call c takes up session s.
WorksOn(c, s, why) ==
    /\ on' = [on EXCEPT ![c] = s]
    /\ phase' = [phase EXCEPT ![c] = why]
    /\ raced' = (raced \/ \E d \in Calls \ {c} : pc[d] \in Working /\ on[d] = s)

\* Where a call goes when the session could not be bound, or the request not
\* posted: an error is dropped everywhere but in the first try of PlayVideo.
Failed(c) ==
    CASE phase[c] = "first" -> "screen"
      [] phase[c] = "start" -> "queue"
      [] OTHER -> "returned"

\* Where it goes when the session is bound.
Ready(c) ==
    CASE phase[c] = "start" -> "queue"
      [] phase[c] = "rebind" -> "returned"
      [] OTHER -> "number"

----------------------------------------------------------------------------
(* Session.ensureSessionActive, StartSession and bindAndSetVars *)

\* A session that has its ids is bound again all the same.
EnsureSessionActive(c) ==
    /\ Goes(c, "ensure", IF lounge[on[c]] /\ bound[on[c]] # 0 THEN "reset" ELSE "token")
    /\ UNCHANGED <<session, ids, counters, phase, on, taken, device, binds, posted, raced, crashed>>

SetLoungeID(c) ==
    /\ Goes(c, "token", "reset")
    /\ lounge' = [lounge EXCEPT ![on[c]] = TRUE]
    /\ UNCHANGED <<session, bound, initialized, counters, phase, on, taken, device, binds, posted, raced, crashed>>

\* An error, or an answer with no screens, whose first one is taken.
SetLoungeIDFails(c) ==
    /\ Goes(c, "token", Failed(c))
    /\ crashed' \in BOOLEAN
    /\ UNCHANGED <<session, ids, counters, phase, on, taken, device, binds, posted, raced>>

\* Slip: one counter is forgotten.
ResetOneCounter(c) ==
    /\ Goes(c, "reset", "take")
    /\ requestCounter' = [requestCounter EXCEPT ![on[c]] = 0]
    /\ UNCHANGED <<session, ids, sessionCounter, phase, on, taken, device, binds, posted, raced, crashed>>

ResetCounters(c) ==
    /\ Goes(c, "reset", "take")
    /\ requestCounter' = [requestCounter EXCEPT ![on[c]] = 0]
    /\ sessionCounter' = [sessionCounter EXCEPT ![on[c]] = 0]
    /\ UNCHANGED <<session, ids, phase, on, taken, device, binds, posted, raced, crashed>>

\* The bind request takes a number too.
CreateBindRequest(c) ==
    /\ Goes(c, "take", "bind")
    /\ requestCounter' = [requestCounter EXCEPT ![on[c]] = @ + 1]
    /\ UNCHANGED <<session, ids, sessionCounter, phase, on, taken, device, binds, posted, raced, crashed>>

Bind(c) ==
    /\ Goes(c, "bind", "assign")
    /\ binds' = binds + 1
    /\ got' = [got EXCEPT ![c] = binds + 1]
    /\ UNCHANGED <<session, ids, counters, phase, on, number, ofs, device, posted, raced, crashed>>

\* Slip: the error of ParseResponse is dropped as that of Post is.
BindErrorDropped(c) ==
    /\ Goes(c, "bind", Ready(c))
    /\ UNCHANGED <<session, ids, counters, phase, on, taken, device, binds, posted, raced, crashed>>

\* No ids in the answer; or no answer at all, which is taken apart all the same.
BindFails(c) ==
    /\ Goes(c, "bind", Failed(c))
    /\ crashed' \in BOOLEAN
    /\ UNCHANGED <<session, ids, counters, phase, on, taken, device, binds, posted, raced>>

AssignVariables(c) ==
    /\ Goes(c, "assign", Ready(c))
    /\ bound' = [bound EXCEPT ![on[c]] = got[c]]
    /\ lounge' = [lounge EXCEPT ![on[c]] = TRUE]
    /\ initialized' = [initialized EXCEPT ![on[c]] = TRUE]
    /\ UNCHANGED <<session, counters, phase, on, taken, device, binds, posted, raced, crashed>>

----------------------------------------------------------------------------
(* Session.sendAction and InitializeQueue *)

TakeRequestCount(c) ==
    /\ Goes(c, "number", "ofs")
    /\ number' = [number EXCEPT ![c] = requestCounter[on[c]]]
    /\ requestCounter' = [requestCounter EXCEPT ![on[c]] = @ + 1]
    /\ UNCHANGED <<session, ids, sessionCounter, phase, on, got, ofs, device, binds, posted, raced, crashed>>

TakeSessionRequestCount(c) ==
    /\ Goes(c, "ofs", "post")
    /\ ofs' = [ofs EXCEPT ![c] = sessionCounter[on[c]]]
    /\ sessionCounter' = [sessionCounter EXCEPT ![on[c]] = @ + 1]
    /\ UNCHANGED <<session, ids, requestCounter, phase, on, got, number, device, binds, posted, raced, crashed>>

\* The answer may be 400 or 404: the session is bound again, for the next call.
Post(c) ==
    /\ \/ Goes(c, "post", "returned") /\ UNCHANGED phase
       \/ Goes(c, "post", "reset") /\ phase' = [phase EXCEPT ![c] = "rebind"]
    /\ posted' = posted \cup {[by |-> c, binding |-> bound[on[c]], own |-> bound[on[c]] = got[c],
                               number |-> number[c], ofs |-> ofs[c]]}
    /\ UNCHANGED <<session, ids, counters, on, taken, device, binds, raced, crashed>>

PostFails(c) ==
    /\ Goes(c, "post", Failed(c))
    /\ UNCHANGED <<session, ids, counters, phase, on, taken, device, binds, posted, raced, crashed>>

----------------------------------------------------------------------------
(* YoutubeController *)

\* runFast: the command never fails, so that nothing is tried again.
CallAction(c) ==
    /\ c \in Actions
    /\ Goes(c, "idle", "ensure")
    /\ WorksOn(c, session, "action")
    /\ UNCHANGED <<session, ids, counters, taken, device, binds, posted, crashed>>

PlayVideo(c) ==
    /\ c \in Plays
    /\ Goes(c, "idle", IF initialized[session] THEN "try" ELSE "screen")
    /\ UNCHANGED <<session, ids, counters, phase, on, taken, device, binds, posted, raced, crashed>>

\* The first try of PlayVideo; or the second, whatever came of StartSession,
\* of which the outcome is dropped.
InitializeQueue(c) ==
    /\ \/ Goes(c, "try", "ensure") /\ WorksOn(c, session, "first")
       \/ Goes(c, "queue", "ensure") /\ WorksOn(c, session, "second")
    /\ UNCHANGED <<session, ids, counters, taken, device, binds, posted, crashed>>

\* getScreenID starts its goroutine.
GetScreenID(c) ==
    /\ Goes(c, "screen", "ask")
    /\ waiter' = [waiter EXCEPT ![c] = "receive"]
    /\ UNCHANGED <<session, ids, counters, phase, on, taken, mail, binds, posted, raced, crashed>>

\* The request, of which the result is dropped.  It may never come to its own
\* timeout: getAppSession can wait for ever (MediaConnection).
AskStatus(c) ==
    /\ Goes(c, "ask", "wait")
    /\ mail' \in {mail, mail + 1} /\ mail' <= MaxMail
    /\ UNCHANGED <<session, ids, counters, phase, on, taken, waiter, binds, posted, raced, crashed>>

GotScreenID(c) ==
    /\ Goes(c, "wait", "new")
    /\ waiter[c] = "signal"
    /\ waiter' = [waiter EXCEPT ![c] = "done"]
    /\ UNCHANGED <<session, ids, counters, phase, on, taken, mail, binds, posted, raced, crashed>>

\* Slip: no timeout.
NoTimeOut(c) == FALSE

\* PlayVideo returns an error.  The goroutine stays, and takes the next status
\* if it has got none.
TimesOut(c) ==
    /\ Goes(c, "wait", "returned")
    /\ UNCHANGED <<session, ids, counters, phase, on, taken, device, binds, posted, raced, crashed>>

\* The screen id is new in every status, as pointers are compared.
UpdateYoutubeSession(c) ==
    /\ Goes(c, "new", "start")
    /\ session' = c
    /\ UNCHANGED <<ids, counters, phase, on, taken, device, binds, posted, raced, crashed>>

StartSession(c) ==
    /\ Goes(c, "start", "token")
    /\ WorksOn(c, session, "start")
    /\ UNCHANGED <<session, ids, counters, taken, device, binds, posted, crashed>>

----------------------------------------------------------------------------
(* Statuses *)

\* The device tells its screen unasked.
Tells ==
    /\ ~crashed
    /\ mail < MaxMail
    /\ mail' = mail + 1
    /\ UNCHANGED <<session, ids, counters, pc, phase, on, taken, waiter, binds, posted, raced, crashed>>

Receiving == {c \in Calls : waiter[c] = "receive"}

\* The dispatcher offers a status for a second.
OnStatus ==
    /\ ~crashed
    /\ mail > 0
    /\ mail' = mail - 1
    /\ \/ Receiving = {} /\ UNCHANGED waiter
       \/ \E c \in Receiving : waiter' = [waiter EXCEPT ![c] = "signal"]
    /\ UNCHANGED <<session, ids, counters, pc, phase, on, taken, binds, posted, raced, crashed>>

----------------------------------------------------------------------------

Proceed(c) ==
    \/ EnsureSessionActive(c)
    \/ SetLoungeID(c) \/ SetLoungeIDFails(c)
    \/ ResetCounters(c)
    \/ CreateBindRequest(c)
    \/ Bind(c) \/ BindFails(c)
    \/ AssignVariables(c)
    \/ TakeRequestCount(c)
    \/ TakeSessionRequestCount(c)
    \/ Post(c) \/ PostFails(c)
    \/ InitializeQueue(c)
    \/ GetScreenID(c) \/ AskStatus(c) \/ GotScreenID(c) \/ TimesOut(c)
    \/ UpdateYoutubeSession(c) \/ StartSession(c)

Next ==
    \/ \E c \in Calls : CallAction(c) \/ PlayVideo(c) \/ Proceed(c)
    \/ Tells
    \/ OnStatus

Spec == Init /\ [][Next]_vars

\* In the connection's Request, or in an HTTP request to the lounge.
Requesting(c) == pc[c] \in {"ask", "token", "bind", "post"}

(***************************************************************************)
(* Goroutines are scheduled and timers fire.  Nothing is assumed of the    *)
(* device, nor of requests: that for the status may block for ever in      *)
(* getAppSession (MediaConnection.go:88) or in the socket, and the code    *)
(* sets no timeout for those to the lounge.                                *)
(***************************************************************************)
FairSpec == Spec /\ \A c \in Calls : WF_vars(~Requesting(c) /\ Proceed(c))

----------------------------------------------------------------------------
(* Properties *)

\* A request is made only from a session that has its ids: no nil pointer is
\* followed, whatever failed before and whoever else binds.
IdsAreThere ==
    \A c \in Calls :
        pc[c] \in {"number", "ofs", "post"} => lounge[on[c]] /\ bound[on[c]] # 0

\* The first request of a binding has number 1 and is "req0", in the binding its
\* own call was given, and there is no second one: unless two calls worked on
\* one session at once, when counters are reset under a request under way.
NumbersStartOver ==
    ~raced =>
        /\ \A p \in posted : p.number = 1 /\ p.ofs = 0 /\ p.own
        /\ \A p, q \in posted : p.binding = q.binding => p = q

\* Unless one of its requests hangs, PlayVideo returns, though the device may
\* never tell its screen, or tell it to the goroutine of an earlier call, though
\* every request may fail and the session be bound several times over.
PlayVideoReturns ==
    \A c \in Plays :
        ([]<>~Requesting(c)) => (pc[c] # "idle" ~> pc[c] = "returned" \/ crashed)
=============================================================================
