------------------------------- MODULE Device -------------------------------
(***************************************************************************)
(* Device.go and the commands of ReceiverController.go: a device kept      *)
(* alive by its heartbeat while several callers, the handlers of HTTP      *)
(* requests among them, run its commands.  A command is one request after  *)
(* another; currentStatus points to a media status whose volume it caches, *)
(* without a lock.                                                         *)
(*                                                                         *)
(* The device is external: it serves a request at any time or never, also  *)
(* after the caller gave up, or refuses it in an answer that the commands  *)
(* do not look at.  The volume of a media status is the stream's and has   *)
(* nothing to do with the receiver's, which SetVolume sets.  A media       *)
(* status with an empty list ends the program in MediaController, before   *)
(* it gets here.                                                           *)
(***************************************************************************)
EXTENDS Heartbeat

CONSTANTS
    Calls,      \* calls of the operations below
    Volumes,    \* volumes
    First,      \* the application that runs before any PlayMedia
    None        \* nil: no status, no request, no answer

VARIABLES
    apps,           \* the applications that run, by the call that launched them
    volume,         \* the receiver's volume
    currentStatus,  \* the media status it points to, by the call that stored it
    cached,         \* cached[s]: the volume in media status s
    shared,         \* the one MediaController holds too, and merges into
    loaded,         \* loaded[c]: the one SetVolume c is about to write to
    wire,           \* requests not yet served
    op,             \* op[c]: the operation of call c, or how it ended
    ask,            \* ask[c]: the request it waits for
    answer,         \* answer[c]: the answer to it
    todo,           \* todo[c]: the applications QuitApplication has not stopped
    saw,            \* history: those of the status it got
    quiet           \* history: the last SetVolume, if nothing disturbed it

callVars == <<op, ask, answer, todo, saw>>
deviceVars == <<apps, volume, wire>>
cacheVars == <<currentStatus, cached, shared, loaded>>
vars == <<heartbeatVars, crashed, callVars, deviceVars, cacheVars, quiet>>

Operations == {"GetVolume", "SetVolume", "GetMediaStatus", "QuitApplication", "PlayMedia"}

\* How far a call is that waits for no answer, or how it ended.
Steps == {"none", "store", "stopTicker", "clearTicker", "failed", "done"}

\* First: of the constructor, which asked for the status once.
Statuses == Calls \cup {First}

Sessions == Calls \cup {First}

Requests == [by : Calls, kind : {"mediaStatus", "status", "setVolume", "launch", "load", "stop"},
             of : Volumes \cup Sessions \cup {None}]

ASSUME DeviceAssumption == First \notin Calls /\ None \notin Requests

TypeOK ==
    /\ HeartbeatTypeOK
    /\ apps \subseteq Sessions
    /\ volume \in Volumes /\ cached \in [Statuses -> Volumes]
    /\ currentStatus \in Statuses \cup {None} /\ shared \in Statuses \cup {None}
    /\ loaded \in [Calls -> Statuses \cup {None}]
    /\ quiet \in Calls \cup {None} /\ crashed \in BOOLEAN
    /\ wire \subseteq Requests
    /\ op \in [Calls -> Operations \cup Steps]
    /\ ask \in [Calls -> Requests \cup {None}]
    /\ todo \in [Calls -> SUBSET Sessions] /\ saw \in [Calls -> SUBSET Sessions]

\* After NewDevice, which asked for the status once, or NewDeviceFromDeviceInfo.
Init ==
    /\ HeartbeatInit
    /\ crashed = FALSE
    /\ apps = {First}
    /\ volume \in Volumes
    /\ currentStatus \in {First, None}
    /\ \E v \in Volumes : cached = [s \in Statuses |-> v]
    /\ shared = None
    /\ loaded = [c \in Calls |-> None]
    /\ wire = {}
    /\ op = [c \in Calls |-> "none"]
    /\ ask = [c \in Calls |-> None]
    /\ answer = [c \in Calls |-> None]
    /\ todo = [c \in Calls |-> {}]
    /\ saw = [c \in Calls |-> {}]
    /\ quiet = None

Same == UNCHANGED <<heartbeatVars, apps, volume>>

----------------------------------------------------------------------------
(* Requests *)

\* Channel.Request sends, and waits for the answer or the timeout.
Ask(c, kind, x) ==
    LET request == [by |-> c, kind |-> kind, of |-> x] IN
    /\ ask' = [ask EXCEPT ![c] = request]
    /\ wire' = wire \cup {request}
    /\ answer' = [answer EXCEPT ![c] = None]

Finish(c, how) ==
    /\ op' = [op EXCEPT ![c] = how]
    /\ ask' = [ask EXCEPT ![c] = None]
    /\ answer' = [answer EXCEPT ![c] = None]
    /\ UNCHANGED wire

\* What the device answers, if the caller still waits.
Answer(request, a) ==
    answer' = IF ask[request.by] = request THEN [answer EXCEPT ![request.by] = a] ELSE answer

Serve(request) ==
    /\ ~crashed /\ request \in wire
    /\ wire' = wire \ {request}
    /\ \/ /\ request.kind = "setVolume"
          /\ volume' = request.of
          /\ Answer(request, TRUE)
          /\ UNCHANGED apps
       \/ /\ request.kind = "launch"
          /\ apps' \in {{request.by}, apps \cup {request.by}, apps}
          /\ Answer(request, TRUE)
          /\ UNCHANGED volume
       \/ /\ request.kind = "stop"
          /\ apps' = apps \ {request.of}
          /\ Answer(request, TRUE)
          /\ UNCHANGED volume
       \/ /\ request.kind = "mediaStatus"
          /\ \E v \in Volumes : Answer(request, v)
          /\ UNCHANGED <<apps, volume>>
       \/ /\ request.kind = "status"
          /\ Answer(request, apps)
          /\ UNCHANGED <<apps, volume>>
       \/ /\ request.kind = "load"
          /\ Answer(request, TRUE)
          /\ UNCHANGED <<apps, volume>>
    /\ UNCHANGED <<heartbeatVars, crashed, cacheVars, quiet, op, ask, todo, saw>>

\* It answers that it does not, or cannot.
Refuse(request) ==
    /\ ~crashed /\ request \in wire /\ request.kind \in {"setVolume", "stop"}
    /\ wire' = wire \ {request}
    /\ Answer(request, TRUE)
    /\ quiet' = IF request.kind = "setVolume" THEN None ELSE quiet
    /\ saw' = IF request.kind = "stop"
              THEN [saw EXCEPT ![request.by] = @ \ {request.of}] ELSE saw
    /\ UNCHANGED <<heartbeatVars, crashed, apps, volume, cacheVars, op, ask, todo>>

\* Somebody turns the volume at the device.
TurnVolume ==
    /\ ~crashed
    /\ volume' \in Volumes \ {volume}
    /\ quiet' = None
    /\ UNCHANGED <<heartbeatVars, crashed, apps, wire, callVars, cacheVars>>

\* A status comes after the volume was cached, or past the one it goes to.
Overwritten(steps) == quiet' = IF quiet # None /\ op[quiet] \in steps THEN None ELSE quiet

\* mergo.Merge of a pushed MEDIA_STATUS into a status GetMediaStatus stored, which
\* updateForNewSession took from Incoming.
MergeStatus ==
    /\ ~crashed /\ shared # None
    /\ \E v \in Volumes \ {cached[shared]} : cached' = [cached EXCEPT ![shared] = v]
    /\ Overwritten(IF shared = currentStatus THEN {"done"} ELSE {})
    /\ UNCHANGED <<heartbeatVars, crashed, deviceVars, callVars, currentStatus, shared, loaded>>

Returns(c, kind) == ~crashed /\ ask[c] # None /\ ask[c].kind = kind /\ answer[c] # None

\* The timeout, or an error of Send; the request may still reach the device.
Fails(c, kind) == ~crashed /\ ask[c] # None /\ ask[c].kind = kind

Begin(c, operation) ==
    /\ ~crashed /\ op[c] = "none"
    /\ op' = [op EXCEPT ![c] = operation]
    /\ Same /\ UNCHANGED <<crashed, cacheVars, todo, saw>>

Undisturbed == UNCHANGED <<crashed, cacheVars, quiet>>

----------------------------------------------------------------------------
(* GetVolume and GetMediaStatus *)

\* A status once cached answers every GetVolume.
BeginGetVolume(c) ==
    /\ currentStatus = None
    /\ Begin(c, "GetVolume")
    /\ Ask(c, "mediaStatus", None)
    /\ UNCHANGED quiet

BeginGetMediaStatus(c) ==
    /\ Begin(c, "GetMediaStatus")
    /\ Ask(c, "mediaStatus", None)
    /\ UNCHANGED quiet

StoreStatus(c) ==
    /\ Returns(c, "mediaStatus")
    /\ currentStatus' = c
    /\ cached' = [cached EXCEPT ![c] = answer[c]]
    /\ shared' \in {shared, c}
    /\ Overwritten({"store", "done"})
    /\ Finish(c, "done")
    /\ Same /\ UNCHANGED <<crashed, loaded, todo, saw>>

\* GetVolume asks the receiver, unless somebody else stored a status.
StatusFails(c) ==
    /\ Fails(c, "mediaStatus")
    /\ IF op[c] = "GetVolume" /\ currentStatus = None
       THEN Ask(c, "status", None) /\ UNCHANGED op
       ELSE Finish(c, "failed")
    /\ Same /\ Undisturbed /\ UNCHANGED <<todo, saw>>

ReceiverVolume(c) ==
    /\ op[c] = "GetVolume"
    /\ Returns(c, "status") \/ Fails(c, "status")
    /\ Finish(c, "done")
    /\ Same /\ Undisturbed /\ UNCHANGED <<todo, saw>>

----------------------------------------------------------------------------
(* SetVolume *)

\* Another SetVolume is under way, or was given up and may yet be served.
OtherSets(c) ==
    \/ \E d \in Calls \ {c} : op[d] \in {"SetVolume", "store"}
    \/ \E request \in wire : request.kind = "setVolume"

BeginSetVolume(c) ==
    /\ Begin(c, "SetVolume")
    /\ \E v \in Volumes : Ask(c, "setVolume", v)
    /\ quiet' = IF OtherSets(c) THEN None ELSE c

\* Slip: the new volume is cached whatever came of the request.
LoadUnanswered(c) ==
    /\ op[c] = "SetVolume" /\ Fails(c, "setVolume")
    /\ op' = [op EXCEPT ![c] = "store"]
    /\ loaded' = [loaded EXCEPT ![c] = currentStatus]
    /\ Same /\ UNCHANGED <<crashed, wire, currentStatus, cached, shared, quiet, ask, answer, todo, saw>>

\* The pointer is read, and the volume written to what it pointed to.
LoadStatus(c) ==
    /\ op[c] = "SetVolume" /\ Returns(c, "setVolume")
    /\ op' = [op EXCEPT ![c] = "store"]
    /\ loaded' = [loaded EXCEPT ![c] = currentStatus]
    /\ Same /\ UNCHANGED <<crashed, wire, currentStatus, cached, shared, quiet, ask, answer, todo, saw>>

StoreVolume(c) ==
    /\ ~crashed /\ op[c] = "store" /\ loaded[c] # None
    /\ cached' = [cached EXCEPT ![loaded[c]] = ask[c].of]
    /\ loaded' = [loaded EXCEPT ![c] = None]
    /\ Finish(c, "done")
    /\ Same /\ UNCHANGED <<crashed, currentStatus, shared, quiet, todo, saw>>

\* Nil: the device has changed its volume and the program ends.
StoreVolumePanics(c) ==
    /\ ~crashed /\ op[c] = "store" /\ loaded[c] = None
    /\ crashed' = TRUE
    /\ Same /\ UNCHANGED <<callVars, wire, cacheVars, quiet>>

SetVolumeFails(c) ==
    /\ op[c] = "SetVolume" /\ Fails(c, "setVolume")
    /\ Finish(c, "failed")
    /\ Same /\ Undisturbed /\ UNCHANGED <<todo, saw>>

----------------------------------------------------------------------------
(* QuitApplication *)

BeginQuit(c) ==
    /\ Begin(c, "QuitApplication")
    /\ Ask(c, "status", None)
    /\ UNCHANGED quiet

QuitFails(c) ==
    /\ op[c] = "QuitApplication"
    /\ Fails(c, "status")
    /\ Finish(c, "failed")
    /\ Same /\ Undisturbed /\ UNCHANGED <<todo, saw>>

\* The next session of the list, or the end of the loop.
StopNext(c, rest) ==
    /\ todo' = [todo EXCEPT ![c] = rest]
    /\ \/ rest = {} /\ Finish(c, "done")
       \/ \E s \in rest : Ask(c, "stop", s) /\ UNCHANGED op

StatusSeen(c) ==
    /\ op[c] = "QuitApplication"
    /\ Returns(c, "status")
    /\ StopNext(c, answer[c])
    /\ saw' = [saw EXCEPT ![c] = answer[c]]
    /\ Same /\ Undisturbed

\* Slip: the loop ends with the first session.
FirstStopped(c) ==
    /\ Returns(c, "stop")
    /\ Finish(c, "done")
    /\ Same /\ Undisturbed /\ UNCHANGED <<todo, saw>>

Stopped(c) ==
    /\ Returns(c, "stop")
    /\ StopNext(c, todo[c] \ {ask[c].of})
    /\ Same /\ Undisturbed /\ UNCHANGED saw

\* The error is dropped and the loop goes on.
StopFails(c) ==
    /\ Fails(c, "stop")
    /\ StopNext(c, todo[c] \ {ask[c].of})
    /\ saw' = [saw EXCEPT ![c] = @ \ {ask[c].of}]
    /\ Same /\ Undisturbed

----------------------------------------------------------------------------
(* PlayMedia *)

BeginPlayMedia(c) ==
    /\ Begin(c, "PlayMedia")
    /\ Ask(c, "launch", None)
    /\ UNCHANGED quiet

\* Launched or not, the media is loaded.
Load(c) ==
    /\ Returns(c, "launch") \/ Fails(c, "launch")
    /\ Ask(c, "load", None)
    /\ Same /\ Undisturbed /\ UNCHANGED <<op, todo, saw>>

Loaded(c) ==
    /\ Returns(c, "load") \/ Fails(c, "load")
    /\ Finish(c, "done")
    /\ Same /\ Undisturbed /\ UNCHANGED <<todo, saw>>

----------------------------------------------------------------------------

(* The heartbeat *)

StartsHeartbeat(c) ==
    /\ op[c] = "none" /\ op' = [op EXCEPT ![c] = "done"]
    /\ StartHeartbeat

\* Stop: nothing to do, or the ticker is stopped and then forgotten.
StopsHeartbeat(c) ==
    \/ /\ ~crashed /\ op[c] = "none"
       /\ op' = [op EXCEPT ![c] = IF ticker = 0 THEN "done" ELSE "stopTicker"]
       /\ UNCHANGED <<heartbeatVars, crashed>>
    \/ op[c] = "stopTicker" /\ op' = [op EXCEPT ![c] = "clearTicker"] /\ StopTicker
    \/ op[c] = "stopTicker" /\ UNCHANGED op /\ StopPanics
    \/ op[c] = "clearTicker" /\ op' = [op EXCEPT ![c] = "done"] /\ ClearTicker

StartOrStop(c) ==
    /\ StartsHeartbeat(c) \/ StopsHeartbeat(c)
    /\ UNCHANGED <<ask, answer, todo, saw, deviceVars, cacheVars, quiet>>

TickerTicks(n) ==
    Tick(n) /\ UNCHANGED <<callVars, deviceVars, cacheVars, quiet>>

HeartBeats(n) ==
    Beats(n) /\ UNCHANGED <<callVars, deviceVars, cacheVars, quiet>>

PingSent(n) ==
    SendPing(n) /\ UNCHANGED <<callVars, deviceVars, cacheVars, quiet>>

HeartbeatRuns(n) == TickerTicks(n) \/ HeartBeats(n) \/ PingSent(n)

Begins(c) ==
    \/ StartOrStop(c)
    \/ BeginGetVolume(c)
    \/ BeginGetMediaStatus(c)
    \/ BeginSetVolume(c)
    \/ BeginQuit(c)
    \/ BeginPlayMedia(c)

GoesOn(c) ==
    \/ StoreStatus(c)
    \/ StatusFails(c)
    \/ ReceiverVolume(c)
    \/ LoadStatus(c)
    \/ StoreVolume(c)
    \/ StoreVolumePanics(c)
    \/ SetVolumeFails(c)
    \/ QuitFails(c)
    \/ StatusSeen(c)
    \/ Stopped(c)
    \/ StopFails(c)
    \/ Load(c)
    \/ Loaded(c)

Next ==
    \/ \E n \in Numbers : HeartbeatRuns(n)
    \/ \E c \in Calls : Begins(c) \/ GoesOn(c)
    \/ \E request \in wire : Serve(request) \/ Refuse(request)
    \/ TurnVolume
    \/ MergeStatus

Spec == Init /\ [][Next]_vars

\* A call is in Stop, whose steps wait for nothing.
InStop(c) == op[c] \in {"stopTicker", "clearTicker"}

\* Tickers tick, and goroutines that wait for nothing or for their ticker run.  A
\* PING may be written for ever, and a command wait for ever: MediaController's
\* requests do, after a failed status.
FairSpec ==
    /\ Spec
    /\ \A n \in Numbers : WF_vars(TickerTicks(n)) /\ WF_vars(HeartBeats(n))
    /\ \A c \in Calls : WF_vars(InStop(c) /\ StartOrStop(c))

----------------------------------------------------------------------------
(* Properties *)

\* SetVolume (Device.go:179): what GetVolume answers ever after is the
\* receiver's volume, if the device did not refuse it, no other SetVolume was
\* about when it began, nobody turned the volume since, and no media status was
\* stored since it read the pointer, nor merged since it wrote.
SetVolumeLasts ==
    quiet # None /\ op[quiet] = "done" =>
        currentStatus # None /\ cached[currentStatus] = volume

\* "QuitApplication that is currently running on the device" (Device.go:124):
\* a session it saw runs on only if its own StopApplication failed or was
\* refused, whatever else was launched and stopped meanwhile.
QuitStopsWhatItSaw == \A c \in Calls : op[c] = "done" => saw[c] \cap apps = {}
=============================================================================
