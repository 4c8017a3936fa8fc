---------------------------- MODULE DeviceProofs ----------------------------
(***************************************************************************)
(* For any number of calls, volumes and starts of the heartbeat: the types *)
(* of what a device answers, that an undisturbed SetVolume is what stays   *)
(* cached, and that QuitApplication stops every session it saw.            *)
(***************************************************************************)
EXTENDS Device, TLAPS

\* Call c waits for the answer to a request of this kind.
Waits(c, kind) == ask[c] # None /\ ask[c].kind = kind

\* A request is its caller's, who began, and sets a volume or launches an
\* application once.
WellFormed(request) ==
    /\ op[request.by] # "none"
    /\ request.kind = "setVolume" => request.of \in Volumes
    /\ request.kind = "launch" => request.of = None

RequestsWellFormed ==
    /\ \A request \in wire : WellFormed(request)
    /\ \A c \in Calls :
          ask[c] # None =>
              ask[c].by = c /\ WellFormed(ask[c]) /\ op[c] \in Operations \cup {"store"}

\* An answer is of the kind that was asked for.
AnswersFit ==
    /\ answer = [c \in Calls |-> answer[c]]
    /\ \A c \in Calls :
          answer[c] # None =>
              /\ Waits(c, "mediaStatus") => answer[c] \in Volumes
              /\ Waits(c, "status") => answer[c] \subseteq Sessions

\* A SetVolume keeps its own request until it stored its volume, and nobody else
\* has one like it.
SettersWait == \A c \in Calls : op[c] \in {"SetVolume", "store"} <=> Waits(c, "setVolume")

TypeInv == TypeOK /\ RequestsWellFormed /\ AnswersFit /\ SettersWait

\* No other request sets the volume while or after the quiet one does.
OnlyQuietSets ==
    /\ op[quiet] \in {"SetVolume", "store", "done", "failed"}
    /\ op[quiet] = "SetVolume" =>
          /\ \A request \in wire : request.kind = "setVolume" => request = ask[quiet]
          /\ answer[quiet] # None =>
                /\ volume = ask[quiet].of
                /\ \A request \in wire : request.kind # "setVolume"
    /\ op[quiet] = "store" =>
          /\ volume = ask[quiet].of
          /\ loaded[quiet] = currentStatus
    /\ op[quiet] = "done" => currentStatus # None /\ cached[currentStatus] = volume
    /\ op[quiet] \in {"store", "done"} => \A request \in wire : request.kind # "setVolume"
    /\ op[quiet] \in {"SetVolume", "store", "done"} =>
          \A d \in Calls \ {quiet} : op[d] \notin {"SetVolume", "store"}

VolumeInv == TypeInv /\ (quiet # None => OnlyQuietSets)

\* Call d has launched its application for the last time.
Launched(d) ==
    /\ op[d] # "none"
    /\ \A request \in wire : ~(request.kind = "launch" /\ request.by = d)

\* The status that call c was answered.
Told(c) == IF Waits(c, "status") /\ answer[c] # None THEN answer[c] ELSE {}

Known == apps \cup UNION {saw[c] \cup Told(c) : c \in Calls}

\* What runs or was seen to run is not launched again.
KnownAreLaunched == \A d \in Calls \cap Known : Launched(d)

\* QuitApplication's loop: it stops what it saw and has not stopped, one after
\* another, and what it has stopped does not run unless the device refused.
Stops(c) ==
    /\ saw[c] \cap apps \subseteq todo[c]
    /\ todo[c] # {} => op[c] = "QuitApplication" /\ Waits(c, "stop")
    /\ Waits(c, "stop") =>
          /\ ask[c].of \in todo[c]
          /\ answer[c] # None => ask[c].of \notin saw[c] \cap apps

QuitInv == TypeInv /\ KnownAreLaunched /\ (\A c \in Calls : Stops(c))

----------------------------------------------------------------------------
(* The heartbeat *)

LEMMA HeartbeatStep ==
  ASSUME HeartbeatTypeOK, crashed \in BOOLEAN,
         \/ StartHeartbeat \/ StopTicker \/ StopPanics \/ ClearTicker
         \/ \E n \in Numbers : Tick(n) \/ Beats(n) \/ SendPing(n)
  PROVE  HeartbeatTypeOK' /\ crashed' \in BOOLEAN
<1> USE HeartbeatAssumption DEF HeartbeatTypeOK, Numbers
<1>1. CASE StartHeartbeat
  <2>1. started' \in 1 .. MaxStarts /\ started' = started + 1 /\ ticker' = started'
    BY <1>1 DEF StartHeartbeat
  <2>2. on' \in [1 .. MaxStarts -> 0 .. started']
    BY <1>1, <2>1 DEF StartHeartbeat
  <2>3. beat' \in [1 .. MaxStarts -> {"none", "load", "wait", "ping"}]
    BY <1>1, <2>1 DEF StartHeartbeat
  <2> QED
    BY <1>1, <2>1, <2>2, <2>3 DEF StartHeartbeat
<1>2. CASE StopTicker \/ StopPanics \/ ClearTicker
  <2>1. CASE StopTicker
    BY <2>1 DEF StopTicker
  <2>2. CASE StopPanics
    BY <2>2 DEF StopPanics, heartbeatVars
  <2>3. CASE ClearTicker
    BY <2>3 DEF ClearTicker
  <2> QED
    BY <1>2, <2>1, <2>2, <2>3
<1>3. ASSUME NEW n \in Numbers, Tick(n) PROVE HeartbeatTypeOK' /\ crashed' \in BOOLEAN
  BY <1>3 DEF Tick
<1>4. ASSUME NEW n \in Numbers, Beats(n) \/ SendPing(n) PROVE HeartbeatTypeOK' /\ crashed' \in BOOLEAN
  <2>1. CASE LoadTicker(n)
    BY <2>1 DEF LoadTicker, Goes
  <2>2. CASE LoadPanics(n)
    BY <2>2 DEF LoadPanics, heartbeatVars
  <2>3. CASE TakeTick(n)
    <3>1. /\ on' = [on EXCEPT ![n] = 0] /\ beat' = [beat EXCEPT ![n] = "ping"]
          /\ kept' \subseteq kept /\ UNCHANGED <<started, ticker, running, crashed>>
      BY <2>3 DEF TakeTick, Goes
    <3> QED
      BY <3>1
  <2>4. CASE SendPing(n)
    BY <2>4 DEF SendPing, Goes
  <2> QED
    BY <1>4, <2>1, <2>2, <2>3, <2>4 DEF Beats
<1> QED
  BY <1>1, <1>2, <1>3, <1>4

----------------------------------------------------------------------------
(* What a step of a call does *)

\* It asks, one more request on its way.
Asks(c) ==
    /\ ask'[c] \in Requests /\ ask'[c].by = c
    /\ op'[c] \in Operations
    /\ ask'[c].kind = "setVolume" => ask'[c].of \in Volumes
    /\ ask'[c].kind = "launch" => ask'[c].of = None /\ op[c] = "none"
    /\ ask'[c].kind = "setVolume" <=> op'[c] = "SetVolume"
    /\ ask'[c].kind = "setVolume" => op[c] = "none"
    /\ wire' = wire \cup {ask'[c]}
    /\ answer'[c] = None

\* It ends, and leaves what it asked for on its way.
Ends(c) ==
    /\ op'[c] \in {"done", "failed"}
    /\ ask'[c] = None /\ answer'[c] = None
    /\ wire' = wire

\* It has no request: Start and Stop of the heartbeat.
HasNoRequest(c) ==
    /\ op[c] \in {"none", "stopTicker", "clearTicker"}
    /\ op'[c] \in {"done", "stopTicker", "clearTicker"}
    /\ UNCHANGED <<ask, answer, wire>>

\* It goes on with the answer to its request.
Keeps(c) ==
    /\ op[c] = "SetVolume" /\ op'[c] = "store"
    /\ UNCHANGED <<ask, answer, wire>>

CallTypes ==
    /\ op \in [Calls -> Operations \cup Steps]
    /\ ask \in [Calls -> Requests \cup {None}]
    /\ todo \in [Calls -> SUBSET Sessions] /\ saw \in [Calls -> SUBSET Sessions]
    /\ wire \subseteq Requests

OthersWait(c) ==
    \A d \in Calls \ {c} :
        op'[d] = op[d] /\ ask'[d] = ask[d] /\ answer'[d] = answer[d]
        /\ todo'[d] = todo[d] /\ saw'[d] = saw[d]

Kinds == {"mediaStatus", "status", "setVolume", "launch", "load", "stop"}

AnswerFunction == answer = [d \in Calls |-> answer[d]]

LEMMA Asked ==
  ASSUME CallTypes, AnswerFunction, NEW c \in Calls, NEW kind \in Kinds,
         NEW x \in Volumes \cup Sessions \cup {None}, Ask(c, kind, x)
  PROVE  /\ ask' \in [Calls -> Requests \cup {None}] /\ wire' \subseteq Requests /\ AnswerFunction'
         /\ ask'[c] \in Requests
         /\ ask'[c].by = c /\ ask'[c].kind = kind /\ ask'[c].of = x
         /\ wire' = wire \cup {ask'[c]} /\ answer'[c] = None
         /\ \A d \in Calls \ {c} : ask'[d] = ask[d] /\ answer'[d] = answer[d]
<1> DEFINE request == [by |-> c, kind |-> kind, of |-> x]
<1>1. request \in Requests /\ request.by = c /\ request.kind = kind /\ request.of = x
  BY DEF Requests, Kinds
<1>2. /\ ask' = [ask EXCEPT ![c] = request]
      /\ wire' = wire \cup {request}
      /\ answer' = [answer EXCEPT ![c] = None]
  BY DEF Ask
<1> HIDE DEF request
<1>3. /\ ask' \in [Calls -> Requests \cup {None}] /\ ask'[c] = request
      /\ \A d \in Calls \ {c} : ask'[d] = ask[d]
  BY <1>1, <1>2 DEF CallTypes
<1>4. /\ AnswerFunction' /\ answer'[c] = None
      /\ \A d \in Calls \ {c} : answer'[d] = answer[d]
  BY <1>2 DEF AnswerFunction
<1>5. wire' \subseteq Requests
  BY <1>1, <1>2 DEF CallTypes
<1> QED
  BY <1>1, <1>2, <1>3, <1>4, <1>5 DEF request

LEMMA Finished ==
  ASSUME CallTypes, AnswerFunction, NEW c \in Calls, NEW how \in {"done", "failed"}, Finish(c, how)
  PROVE  /\ ask' \in [Calls -> Requests \cup {None}] /\ AnswerFunction'
         /\ op' \in [Calls -> Operations \cup Steps]
         /\ Ends(c) /\ op'[c] = how
         /\ \A d \in Calls \ {c} : op'[d] = op[d] /\ ask'[d] = ask[d] /\ answer'[d] = answer[d]
<1>1. /\ op' = [op EXCEPT ![c] = how] /\ ask' = [ask EXCEPT ![c] = None]
      /\ answer' = [answer EXCEPT ![c] = None] /\ wire' = wire
  BY DEF Finish
<1>2. /\ AnswerFunction' /\ answer'[c] = None
      /\ \A d \in Calls \ {c} : answer'[d] = answer[d]
  BY <1>1 DEF AnswerFunction
<1> QED
  BY <1>1, <1>2 DEF CallTypes, Ends, Steps

\* A call asks, ends, or ends the program; the others wait.
LEMMA CallSteps ==
  ASSUME TypeInv, NEW c \in Calls, Begins(c) \/ GoesOn(c)
  PROVE  /\ OthersWait(c) /\ UNCHANGED <<apps, volume>> /\ CallTypes' /\ AnswerFunction'
         /\ \/ Asks(c)
            \/ Ends(c)
            \/ HasNoRequest(c)
            \/ Keeps(c)
            \/ UNCHANGED callVars /\ UNCHANGED wire
<1> DEFINE Goal == /\ OthersWait(c) /\ UNCHANGED <<apps, volume>> /\ CallTypes' /\ AnswerFunction'
                   /\ \/ Asks(c)
                      \/ Ends(c)
                      \/ HasNoRequest(c)
                      \/ Keeps(c)
                      \/ UNCHANGED callVars /\ UNCHANGED wire
<1>1. CallTypes /\ AnswerFunction
  BY DEF TypeInv, TypeOK, CallTypes, AnswersFit, AnswerFunction
<1>2. CASE StartOrStop(c)
  BY <1>1, <1>2 DEF StartOrStop, StartsHeartbeat, StopsHeartbeat, HasNoRequest, OthersWait,
     CallTypes, AnswerFunction, Steps, callVars, deviceVars
<1>3. ASSUME NEW operation \in Operations, Begin(c, operation), NEW kind \in Kinds,
             NEW x \in Volumes \cup {None}, Ask(c, kind, x),
             kind = "setVolume" => x \in Volumes,
             kind = "launch" => x = None,
             kind = "setVolume" <=> operation = "SetVolume"
      PROVE  Goal
  <2>1. /\ op[c] = "none" /\ op' = [op EXCEPT ![c] = operation] /\ UNCHANGED <<apps, volume, todo, saw>>
    BY <1>3 DEF Begin, Same
  <2>2. Asks(c)
    <3>1. /\ ask'[c] \in Requests
          /\ ask'[c].by = c /\ ask'[c].kind = kind /\ ask'[c].of = x
          /\ wire' = wire \cup {ask'[c]} /\ answer'[c] = None
      BY <1>1, <1>3, Asked
    <3>2. op'[c] = operation
      BY <1>1, <2>1 DEF CallTypes
    <3> QED
      BY <1>3, <2>1, <3>1, <3>2 DEF Asks
  <2>3. op' \in [Calls -> Operations \cup Steps]
        /\ \A d \in Calls \ {c} : op'[d] = op[d]
    BY <1>1, <2>1 DEF CallTypes
  <2>4. CallTypes' /\ AnswerFunction'
    BY <1>1, <1>3, <2>1, <2>3, Asked DEF CallTypes
  <2>5. OthersWait(c)
    BY <1>1, <1>3, <2>1, <2>3, Asked DEF OthersWait
  <2> QED
    BY <2>1, <2>2, <2>4, <2>5
<1>4. CASE BeginGetVolume(c) \/ BeginGetMediaStatus(c) \/ BeginSetVolume(c) \/ BeginQuit(c) \/ BeginPlayMedia(c)
  BY <1>3, <1>4 DEF BeginGetVolume, BeginGetMediaStatus, BeginSetVolume, BeginQuit, BeginPlayMedia,
       Operations, Kinds
<1>5. ASSUME NEW how \in {"done", "failed"}, Finish(c, how), Same, UNCHANGED <<todo, saw>>
      PROVE  Goal
  <2>1. /\ ask' \in [Calls -> Requests \cup {None}] /\ AnswerFunction'
        /\ op' \in [Calls -> Operations \cup Steps]
        /\ Ends(c)
        /\ \A d \in Calls \ {c} : op'[d] = op[d] /\ ask'[d] = ask[d] /\ answer'[d] = answer[d]
    BY <1>1, <1>5, Finished
  <2>2. CallTypes'
    BY <1>1, <1>5, <2>1 DEF CallTypes, Ends
  <2> QED
    BY <1>5, <2>1, <2>2 DEF Same, OthersWait
<1>6. CASE \/ StoreStatus(c) \/ ReceiverVolume(c) \/ StoreVolume(c) \/ SetVolumeFails(c)
           \/ QuitFails(c) \/ Loaded(c)
  BY <1>5, <1>6 DEF StoreStatus, ReceiverVolume, StoreVolume, SetVolumeFails, QuitFails, Loaded
<1>7. CASE StoreVolumePanics(c)
  BY <1>1, <1>7 DEF StoreVolumePanics, Same, CallTypes, AnswerFunction, OthersWait, callVars
<1>8. CASE LoadStatus(c)
  BY <1>1, <1>8 DEF LoadStatus, Keeps, Same, CallTypes, AnswerFunction, OthersWait, Steps
<1>9. ASSUME NEW kind \in Kinds \ {"setVolume", "launch"}, NEW x \in Sessions \cup {None}, Ask(c, kind, x),
             op[c] \in Operations \ {"SetVolume"}, UNCHANGED op, Same,
             todo' \in [Calls -> SUBSET Sessions], saw' \in [Calls -> SUBSET Sessions],
             \A d \in Calls \ {c} : todo'[d] = todo[d] /\ saw'[d] = saw[d]
      PROVE  Goal
  <2>1. Asks(c)
    <3>1. /\ ask'[c] \in Requests
          /\ ask'[c].by = c /\ ask'[c].kind = kind
          /\ wire' = wire \cup {ask'[c]} /\ answer'[c] = None
      BY <1>1, <1>9, Asked
    <3> QED
      BY <1>9, <3>1 DEF Asks
  <2>2. CallTypes' /\ AnswerFunction'
    BY <1>1, <1>9, Asked DEF CallTypes
  <2>3. OthersWait(c)
    BY <1>1, <1>9, Asked DEF OthersWait
  <2> QED
    BY <1>9, <2>1, <2>2, <2>3 DEF Same
<1>10. ASSUME NEW rest \in SUBSET Sessions, StopNext(c, rest), Same, op[c] \in Operations \ {"SetVolume"},
             saw' \in [Calls -> SUBSET Sessions], \A d \in Calls \ {c} : saw'[d] = saw[d]
      PROVE  Goal
  <2>1. /\ todo' \in [Calls -> SUBSET Sessions]
        /\ \A d \in Calls \ {c} : todo'[d] = todo[d]
    BY <1>1, <1>10 DEF StopNext, CallTypes
  <2>2. CASE Finish(c, "done")
    <3>1. /\ ask' \in [Calls -> Requests \cup {None}] /\ AnswerFunction'
          /\ op' \in [Calls -> Operations \cup Steps]
          /\ Ends(c)
          /\ \A d \in Calls \ {c} : op'[d] = op[d] /\ ask'[d] = ask[d] /\ answer'[d] = answer[d]
      BY <1>1, <2>2, Finished
    <3>2. CallTypes'
      BY <1>1, <1>10, <2>1, <3>1 DEF CallTypes, Ends
    <3> QED
      BY <1>10, <2>1, <3>1, <3>2 DEF Same, OthersWait
  <2>3. ASSUME NEW s \in rest, Ask(c, "stop", s), UNCHANGED op PROVE Goal
    BY <1>9, <1>10, <2>1, <2>3 DEF Kinds
  <2> QED
    BY <1>10, <2>2, <2>3 DEF StopNext
<1>11. CASE StatusSeen(c)
  <2>1. answer[c] \in SUBSET Sessions
    BY <1>11 DEF StatusSeen, Returns, Waits, TypeInv, AnswersFit
  <2> QED
    BY <1>1, <1>10, <1>11, <2>1 DEF StatusSeen, CallTypes, Operations
<1>12. CASE Stopped(c) \/ StopFails(c)
  <2>1. ask[c] # None /\ ask[c].kind = "stop"
    BY <1>12 DEF Stopped, StopFails, Returns, Fails
  <2>2. op[c] \in Operations \ {"SetVolume"}
    BY <2>1 DEF TypeInv, SettersWait, Waits, RequestsWellFormed
  <2>3. StopNext(c, todo[c] \ {ask[c].of}) /\ Same /\ todo[c] \ {ask[c].of} \in SUBSET Sessions
    BY <1>1, <1>12 DEF Stopped, StopFails, CallTypes
  <2>4. saw' \in [Calls -> SUBSET Sessions] /\ \A d \in Calls \ {c} : saw'[d] = saw[d]
    BY <1>1, <1>12 DEF Stopped, StopFails, CallTypes
  <2> QED
    BY <1>10, <2>2, <2>3, <2>4
<1>13. CASE StatusFails(c)
  <2>1. CASE Ask(c, "status", None) /\ UNCHANGED op /\ op[c] = "GetVolume"
    BY <1>1, <1>9, <1>13, <2>1 DEF StatusFails, CallTypes, Operations, Kinds
  <2>2. CASE Finish(c, "failed")
    BY <1>5, <1>13, <2>2 DEF StatusFails
  <2> QED
    BY <1>13, <2>1, <2>2 DEF StatusFails
<1>14. CASE Load(c)
  <2>1. ask[c] # None /\ ask[c].kind = "launch"
    BY <1>14 DEF Load, Returns, Fails
  <2>2. op[c] \in Operations \ {"SetVolume"}
    BY <2>1 DEF TypeInv, SettersWait, Waits, RequestsWellFormed
  <2> QED
    BY <1>1, <1>9, <1>14, <2>2 DEF Load, CallTypes, Kinds
<1> QED
  BY <1>2, <1>4, <1>6, <1>7, <1>8, <1>11, <1>12, <1>13, <1>14 DEF Begins, GoesOn

----------------------------------------------------------------------------
(* What a step of the device does *)

LEMMA Answered ==
  ASSUME TypeInv, NEW request \in wire, NEW a, Answer(request, a)
  PROVE  /\ AnswerFunction'
         /\ \A c \in Calls : answer'[c] = answer[c] \/ (ask[c] = request /\ answer'[c] = a)
<1>1. answer = [d \in Calls |-> answer[d]]
  BY DEF TypeInv, AnswersFit
<1>2. answer' = answer \/ (ask[request.by] = request /\ answer' = [answer EXCEPT ![request.by] = a])
  BY DEF Answer
<1> QED
  BY <1>1, <1>2 DEF AnswerFunction

LEMMA Served ==
  ASSUME TypeInv, NEW request \in wire, Serve(request)
  PROVE  /\ request \in Requests /\ WellFormed(request)
         /\ UNCHANGED <<op, ask, todo, saw, quiet, cacheVars, crashed, heartbeatVars>>
         /\ wire' = wire \ {request} /\ AnswerFunction'
         /\ \A c \in Calls :
               answer'[c] = answer[c] \/
               /\ ask[c] = request
               /\ request.kind = "mediaStatus" => answer'[c] \in Volumes
               /\ request.kind = "status" => answer'[c] = apps
         /\ volume' = IF request.kind = "setVolume" THEN request.of ELSE volume
         /\ CASE request.kind = "launch" -> apps' \subseteq apps \cup {request.by}
              [] request.kind = "stop" -> apps' = apps \ {request.of}
              [] OTHER -> apps' = apps
<1>1. request \in Requests /\ WellFormed(request)
  BY DEF TypeInv, TypeOK, RequestsWellFormed
<1>2. /\ UNCHANGED <<op, ask, todo, saw, quiet, cacheVars, crashed, heartbeatVars>>
      /\ wire' = wire \ {request}
  BY DEF Serve
<1>3. \/ request.kind = "setVolume" /\ volume' = request.of /\ apps' = apps
         /\ Answer(request, TRUE)
      \/ request.kind = "launch" /\ volume' = volume /\ apps' \subseteq apps \cup {request.by}
         /\ Answer(request, TRUE)
      \/ request.kind = "stop" /\ volume' = volume /\ apps' = apps \ {request.of}
         /\ Answer(request, TRUE)
      \/ request.kind = "mediaStatus" /\ volume' = volume /\ apps' = apps
         /\ \E v \in Volumes : Answer(request, v)
      \/ request.kind = "status" /\ volume' = volume /\ apps' = apps
         /\ Answer(request, apps)
      \/ request.kind = "load" /\ volume' = volume /\ apps' = apps
         /\ Answer(request, TRUE)
  BY DEF Serve
<1>4. /\ AnswerFunction'
      /\ \A c \in Calls :
            answer'[c] = answer[c] \/
            /\ ask[c] = request
            /\ request.kind = "mediaStatus" => answer'[c] \in Volumes
            /\ request.kind = "status" => answer'[c] = apps
  BY <1>3, Answered
<1> QED
  BY <1>1, <1>2, <1>3, <1>4

LEMMA Refused ==
  ASSUME TypeInv, NEW request \in wire, Refuse(request)
  PROVE  /\ request \in Requests /\ WellFormed(request) /\ request.kind \in {"setVolume", "stop"}
         /\ UNCHANGED <<op, ask, todo, apps, volume, cacheVars, crashed, heartbeatVars>>
         /\ wire' = wire \ {request} /\ AnswerFunction'
         /\ \A c \in Calls : answer'[c] = answer[c] \/ ask[c] = request
         /\ quiet' = IF request.kind = "setVolume" THEN None ELSE quiet
         /\ saw' \in [Calls -> SUBSET Sessions]
         /\ \A c \in Calls :
               \/ saw'[c] = saw[c]
               \/ request.kind = "stop" /\ request.by = c /\ saw'[c] = saw[c] \ {request.of}
         /\ request.kind = "stop" => request.of \notin saw'[request.by]
<1>1. request \in Requests /\ WellFormed(request) /\ request.by \in Calls
  BY DEF TypeInv, TypeOK, RequestsWellFormed, Requests
<1>2. saw \in [Calls -> SUBSET Sessions]
  BY DEF TypeInv, TypeOK
<1>3. AnswerFunction' /\ \A c \in Calls : answer'[c] = answer[c] \/ ask[c] = request
  BY Answered DEF Refuse
<1> QED
  BY <1>1, <1>2, <1>3 DEF Refuse

----------------------------------------------------------------------------
(* Types *)

LEMMA TypeInit == Init => TypeInv
<1> SUFFICES ASSUME Init PROVE TypeInv
  OBVIOUS
<1> USE HeartbeatAssumption
<1>1. HeartbeatTypeOK
  BY DEF Init, HeartbeatInit, HeartbeatTypeOK, Numbers
<1>2. TypeOK
  BY <1>1 DEF Init, TypeOK, Sessions, Statuses, Steps
<1>3. answer = [c \in Calls |-> answer[c]]
  BY DEF Init
<1> QED
  BY <1>2, <1>3 DEF Init, TypeInv, RequestsWellFormed, AnswersFit, SettersWait, Waits

\* A step of a call asks for what it may.
LEMMA CallsTyped ==
  ASSUME TypeInv, NEW c \in Calls, Begins(c) \/ GoesOn(c)
  PROVE  RequestsWellFormed' /\ AnswersFit' /\ SettersWait'
<1> USE DEF TypeInv
<1>1. OthersWait(c) /\ AnswerFunction' /\ op \in [Calls -> Operations \cup Steps]
  BY CallSteps DEF TypeOK
<1>2. \A d \in Calls : ask[d] # None => op[d] \in Operations \cup {"store"}
  BY DEF RequestsWellFormed
<1>3. CASE Asks(c)
  <2>1. op'[c] # "none" /\ op'[c] \in Operations
    BY <1>3 DEF Asks, Operations
  <2>2. \A d \in Calls : op[d] # "none" => op'[d] # "none"
    BY <1>1, <2>1 DEF OthersWait
  <2>3. WellFormed(ask[c])' /\ ask'[c].by = c
    BY <1>3, <2>1 DEF Asks, WellFormed
  <2>4. RequestsWellFormed'
    BY <1>1, <1>3, <2>1, <2>2, <2>3 DEF Asks, OthersWait, RequestsWellFormed, WellFormed, TypeOK, Requests
  <2>5. AnswersFit'
    BY <1>1, <1>3 DEF Asks, OthersWait, AnswersFit, AnswerFunction, Waits
  <2>6. SettersWait'
    BY <1>1, <1>3, DeviceAssumption DEF Asks, OthersWait, SettersWait, Waits, Operations
  <2> QED
    BY <2>4, <2>5, <2>6
<1>4. CASE Ends(c)
  <2>1. \A d \in Calls : op[d] # "none" => op'[d] # "none"
    BY <1>1, <1>4 DEF Ends, OthersWait
  <2>2. RequestsWellFormed'
    BY <1>1, <1>4, <2>1 DEF Ends, OthersWait, RequestsWellFormed, WellFormed, TypeOK, Requests
  <2>3. AnswersFit' /\ SettersWait'
    BY <1>1, <1>4 DEF Ends, OthersWait, AnswersFit, AnswerFunction, SettersWait, Waits
  <2> QED
    BY <2>2, <2>3
<1>5. CASE HasNoRequest(c) \/ Keeps(c)
  <2>1. UNCHANGED <<ask, answer, wire>> /\ op'[c] # "none"
    BY <1>5 DEF HasNoRequest, Keeps
  <2>2. ask[c] # None => op[c] = "SetVolume" /\ op'[c] = "store"
    BY <1>2, <1>5 DEF HasNoRequest, Keeps, Operations
  <2>3. op[c] = "SetVolume" <=> op'[c] = "store"
    BY <1>5 DEF HasNoRequest, Keeps
  <2>4. \A d \in Calls : op[d] # "none" => op'[d] # "none"
    BY <1>1, <2>1 DEF OthersWait
  <2>5. RequestsWellFormed'
    BY <1>1, <2>1, <2>2, <2>4 DEF OthersWait, RequestsWellFormed, WellFormed, TypeOK, Requests
  <2>6. op'[c] # "SetVolume" /\ op[c] # "store"
    BY <1>5 DEF HasNoRequest, Keeps
  <2>7. AnswersFit' /\ SettersWait'
    BY <1>1, <2>1, <2>3, <2>6 DEF OthersWait, AnswersFit, AnswerFunction, SettersWait, Waits
  <2> QED
    BY <2>5, <2>7
<1>6. CASE UNCHANGED callVars /\ UNCHANGED wire
  BY <1>6 DEF callVars, RequestsWellFormed, WellFormed, AnswersFit, SettersWait, Waits
<1> QED
  BY <1>3, <1>4, <1>5, <1>6, CallSteps

\* What TypeOK says of the cache.
CacheTypes ==
    /\ cached \in [Statuses -> Volumes]
    /\ currentStatus \in Statuses \cup {None} /\ shared \in Statuses \cup {None}
    /\ loaded \in [Calls -> Statuses \cup {None}]
    /\ quiet \in Calls \cup {None}

LEMMA CallsCache ==
  ASSUME TypeInv, NEW c \in Calls, Begins(c) \/ GoesOn(c)
  PROVE  HeartbeatTypeOK' /\ crashed' \in BOOLEAN /\ CacheTypes'
<1>1. TypeOK /\ CacheTypes /\ c \in Statuses
  BY DEF TypeInv, TypeOK, CacheTypes, Statuses
<1>2. CASE StartOrStop(c)
  <2>1. UNCHANGED <<heartbeatVars, crashed>> \/ StartHeartbeat \/ StopTicker \/ StopPanics \/ ClearTicker
    BY <1>2 DEF StartOrStop, StartsHeartbeat, StopsHeartbeat
  <2>2. HeartbeatTypeOK' /\ crashed' \in BOOLEAN
    <3>1. CASE UNCHANGED <<heartbeatVars, crashed>>
      BY <1>1, <3>1 DEF TypeOK, HeartbeatTypeOK, heartbeatVars, Numbers
    <3>2. CASE StartHeartbeat \/ StopTicker \/ StopPanics \/ ClearTicker
      BY <1>1, <3>2, HeartbeatStep DEF TypeOK
    <3> QED
      BY <2>1, <3>1, <3>2
  <2> QED
    BY <1>1, <1>2, <2>2 DEF StartOrStop, CacheTypes, cacheVars
<1>3. ASSUME Same PROVE HeartbeatTypeOK'
  BY <1>1, <1>3 DEF Same, TypeOK, HeartbeatTypeOK, heartbeatVars, Numbers
<1>4. ASSUME NEW operation, Begin(c, operation), quiet' \in {quiet, c, None}
      PROVE  HeartbeatTypeOK' /\ crashed' \in BOOLEAN /\ CacheTypes'
  BY <1>1, <1>3, <1>4 DEF Begin, TypeOK, CacheTypes, cacheVars
<1>5. CASE BeginGetVolume(c) \/ BeginGetMediaStatus(c) \/ BeginSetVolume(c) \/ BeginQuit(c) \/ BeginPlayMedia(c)
  BY <1>4, <1>5 DEF BeginGetVolume, BeginGetMediaStatus, BeginSetVolume, BeginQuit, BeginPlayMedia
<1>6. CASE StoreStatus(c)
  <2>1. answer[c] \in Volumes
    BY <1>6 DEF StoreStatus, Returns, Waits, TypeInv, AnswersFit
  <2>2. quiet' \in Calls \cup {None}
    BY <1>1, <1>6 DEF StoreStatus, Overwritten, TypeOK
  <2> QED
    BY <1>1, <1>3, <1>6, <2>1, <2>2 DEF StoreStatus, TypeOK, CacheTypes
<1>7. CASE LoadStatus(c) \/ StoreVolumePanics(c)
  BY <1>1, <1>3, <1>7 DEF LoadStatus, StoreVolumePanics, TypeOK, CacheTypes, cacheVars
<1>8. CASE StoreVolume(c)
  <2>1. ask[c].of \in Volumes
    BY <1>8 DEF StoreVolume, TypeInv, RequestsWellFormed, WellFormed, SettersWait, Waits
  <2> QED
    BY <1>1, <1>3, <1>8, <2>1 DEF StoreVolume, TypeOK, CacheTypes
<1>9. CASE Same /\ Undisturbed
  BY <1>1, <1>3, <1>9 DEF Undisturbed, TypeOK, CacheTypes, cacheVars
<1> QED
  BY <1>2, <1>5, <1>6, <1>7, <1>8, <1>9
     DEF Begins, GoesOn, StatusFails, ReceiverVolume, SetVolumeFails, QuitFails, StatusSeen, Stopped,
         StopFails, Load, Loaded

LEMMA TypeStep == TypeInv /\ [Next]_vars => TypeInv'
<1> SUFFICES ASSUME TypeInv, [Next]_vars PROVE TypeInv'
  OBVIOUS
<1>1. TypeOK /\ RequestsWellFormed /\ AnswersFit /\ SettersWait
  BY DEF TypeInv
<1>2. ASSUME NEW c \in Calls, Begins(c) \/ GoesOn(c) PROVE TypeInv'
  <2>1. TypeOK'
    BY <1>1, <1>2, CallSteps, CallsCache DEF TypeOK, CallTypes, CacheTypes
  <2> QED
    BY <1>2, <2>1, CallsTyped DEF TypeInv
<1>3. ASSUME NEW request \in wire, Serve(request) PROVE TypeInv'
  <2>1. /\ request \in Requests /\ WellFormed(request)
        /\ UNCHANGED <<op, ask, todo, saw, quiet, cacheVars, crashed, heartbeatVars>>
        /\ wire' = wire \ {request}
    BY <1>3, Served
  <2>2. request.by \in Calls
    BY <2>1 DEF Requests
  <2>3. apps' \subseteq Sessions /\ volume' \in Volumes
    BY <1>1, <1>3, <2>1, <2>2, Served DEF TypeOK, WellFormed, Sessions
  <2>4. TypeOK'
    BY <1>1, <2>1, <2>3 DEF TypeOK, HeartbeatTypeOK, heartbeatVars, Numbers, cacheVars
  <2>5. RequestsWellFormed' /\ SettersWait'
    BY <1>1, <2>1 DEF RequestsWellFormed, WellFormed, SettersWait, Waits
  <2>6. AnswersFit'
    <3>1. apps \subseteq Sessions /\ AnswerFunction'
      BY <1>1, <1>3, Served DEF TypeOK
    <3>2. ASSUME NEW c \in Calls, answer'[c] # None
          PROVE  /\ Waits(c, "mediaStatus")' => answer'[c] \in Volumes
                 /\ Waits(c, "status")' => answer'[c] \subseteq Sessions
      BY <1>1, <1>3, <2>1, <3>1, <3>2, Served DEF AnswersFit, Waits
    <3> QED
      BY <3>1, <3>2 DEF AnswersFit, AnswerFunction
  <2> QED
    BY <2>4, <2>5, <2>6 DEF TypeInv
<1>4. ASSUME NEW request \in wire, Refuse(request) PROVE TypeInv'
  <2>1. /\ request.kind \in {"setVolume", "stop"} /\ AnswerFunction'
        /\ UNCHANGED <<op, ask, todo, apps, volume, cacheVars, crashed, heartbeatVars>>
        /\ wire' = wire \ {request}
        /\ \A c \in Calls : answer'[c] = answer[c] \/ ask[c] = request
        /\ quiet' \in Calls \cup {None} /\ saw' \in [Calls -> SUBSET Sessions]
    BY <1>1, <1>4, Refused DEF TypeOK
  <2>2. TypeOK'
    BY <1>1, <2>1 DEF TypeOK, HeartbeatTypeOK, heartbeatVars, Numbers, cacheVars
  <2>3. RequestsWellFormed' /\ SettersWait'
    BY <1>1, <2>1 DEF RequestsWellFormed, WellFormed, SettersWait, Waits
  <2>4. AnswersFit'
    BY <1>1, <2>1 DEF AnswersFit, AnswerFunction, Waits
  <2> QED
    BY <2>2, <2>3, <2>4 DEF TypeInv
<1>5. ASSUME UNCHANGED <<op, ask, answer, todo, saw, wire>>, TypeOK' PROVE TypeInv'
  BY <1>1, <1>5 DEF TypeInv, RequestsWellFormed, WellFormed, AnswersFit, SettersWait, Waits
<1>6. ASSUME NEW n \in Numbers, HeartbeatRuns(n) PROVE TypeInv'
  <2>1. HeartbeatTypeOK' /\ crashed' \in BOOLEAN /\ UNCHANGED <<callVars, deviceVars, cacheVars, quiet>>
    BY <1>1, <1>6, HeartbeatStep DEF HeartbeatRuns, TickerTicks, HeartBeats, PingSent, TypeOK
  <2> QED
    BY <1>1, <1>5, <2>1 DEF TypeOK, callVars, deviceVars, cacheVars
<1>7. CASE TurnVolume
  BY <1>1, <1>5, <1>7 DEF TurnVolume, TypeOK, callVars, cacheVars, HeartbeatTypeOK, heartbeatVars, Numbers
<1>8. CASE MergeStatus
  BY <1>1, <1>5, <1>8 DEF MergeStatus, Overwritten, TypeOK, callVars, deviceVars, HeartbeatTypeOK,
       heartbeatVars, Numbers
<1>9. CASE UNCHANGED vars
  BY <1>1, <1>5, <1>9 DEF vars, TypeOK, callVars, deviceVars, cacheVars, HeartbeatTypeOK,
       heartbeatVars, Numbers
<1> QED
  BY <1>2, <1>3, <1>4, <1>6, <1>7, <1>8, <1>9 DEF Next

\* Every variable keeps its type, for any calls, volumes and starts.
THEOREM DeviceTyped == Spec => []TypeOK
<1>1. TypeInv => TypeOK
  BY DEF TypeInv
<1> QED
  BY <1>1, TypeInit, TypeStep, PTL DEF Spec

----------------------------------------------------------------------------
(* An undisturbed SetVolume is what stays cached *)

\* The steps of a SetVolume, and all the others.
SetsVolume(c) ==
    \/ BeginSetVolume(c) \/ LoadStatus(c) \/ StoreVolume(c)
    \/ StoreVolumePanics(c) \/ SetVolumeFails(c)

LEMMA OtherSteps ==
  ASSUME TypeInv, NEW c \in Calls, Begins(c) \/ GoesOn(c), ~SetsVolume(c)
  PROVE  /\ op[c] \notin {"SetVolume", "store", "done", "failed"} /\ op'[c] \notin {"SetVolume", "store"}
         /\ \/ UNCHANGED <<quiet, cacheVars>>
            \/ Overwritten({"store", "done"}) /\ UNCHANGED loaded
<1>1. CallTypes
  BY DEF TypeInv, TypeOK, CallTypes
<1>2. ASSUME NEW operation \in Operations \ {"SetVolume"}, Begin(c, operation), UNCHANGED quiet
      PROVE  /\ op[c] \notin {"SetVolume", "store", "done", "failed"} /\ op'[c] \notin {"SetVolume", "store"}
             /\ UNCHANGED <<quiet, cacheVars>>
  BY <1>1, <1>2 DEF Begin, CallTypes, Operations
<1>3. ASSUME BeginGetVolume(c) \/ BeginGetMediaStatus(c) \/ BeginQuit(c) \/ BeginPlayMedia(c)
      PROVE  \E operation \in Operations \ {"SetVolume"} : Begin(c, operation) /\ UNCHANGED quiet
  BY <1>3 DEF BeginGetVolume, BeginGetMediaStatus, BeginQuit, BeginPlayMedia, Operations
<1>4. CASE StartOrStop(c)
  BY <1>1, <1>4 DEF StartOrStop, StartsHeartbeat, StopsHeartbeat, CallTypes
<1>5. ASSUME ask[c] # None, ask[c].kind # "setVolume"
      PROVE  op[c] \in Operations \ {"SetVolume"} /\ op[c] \notin {"SetVolume", "store", "done", "failed"}
  BY <1>5 DEF TypeInv, RequestsWellFormed, SettersWait, Waits, Operations
<1>6. ASSUME GoesOn(c) PROVE ask[c] # None /\ ask[c].kind # "setVolume"
  BY <1>6 DEF GoesOn, SetsVolume, StoreStatus, StatusFails, ReceiverVolume, QuitFails, StatusSeen,
       Stopped, StopFails, Load, Loaded, Returns, Fails
<1>7. ASSUME GoesOn(c)
      PROVE  \/ UNCHANGED <<quiet, cacheVars>>
             \/ Overwritten({"store", "done"}) /\ UNCHANGED loaded
  <2>1. CASE StoreStatus(c)
    BY <2>1 DEF StoreStatus
  <2>2. CASE Undisturbed
    BY <2>2 DEF Undisturbed, cacheVars
  <2>3. ASSUME \/ StatusFails(c) \/ ReceiverVolume(c) \/ QuitFails(c) \/ StatusSeen(c)
               \/ Stopped(c) \/ StopFails(c) \/ Load(c) \/ Loaded(c)
        PROVE  Undisturbed
    BY <2>3 DEF StatusFails, ReceiverVolume, QuitFails, StatusSeen, Stopped, StopFails, Load, Loaded
  <2> QED
    BY <1>7, <2>1, <2>2, <2>3 DEF GoesOn, SetsVolume
<1>8. ASSUME GoesOn(c) PROVE op' = op \/ \E how \in {"done", "failed"} : op' = [op EXCEPT ![c] = how]
  BY <1>8 DEF GoesOn, SetsVolume, StoreStatus, StatusFails, ReceiverVolume, QuitFails, StatusSeen,
       Stopped, StopFails, Load, Loaded, Finish, StopNext
<1>9. CASE GoesOn(c)
  BY <1>1, <1>5, <1>6, <1>7, <1>8, <1>9 DEF CallTypes
<1> QED
  BY <1>2, <1>3, <1>4, <1>9 DEF Begins, SetsVolume

LEMMA VolumeStep == VolumeInv /\ [Next]_vars => VolumeInv'
<1> SUFFICES ASSUME VolumeInv, [Next]_vars, quiet' # None PROVE OnlyQuietSets'
  BY TypeStep DEF VolumeInv
<1>1. TypeInv /\ (quiet # None => OnlyQuietSets)
  BY DEF VolumeInv
<1>2. /\ op \in [Calls -> Operations \cup Steps] /\ quiet \in Calls \cup {None}
      /\ quiet' \in Calls
  BY <1>1, TypeStep DEF TypeInv, TypeOK
<1>3. ASSUME NEW c \in Calls, BeginSetVolume(c) PROVE OnlyQuietSets'
  <2>1. quiet' = c /\ ~OtherSets(c)
    BY <1>3 DEF BeginSetVolume
  <2>2. /\ op'[c] = "SetVolume" /\ wire' = wire \cup {ask'[c]} /\ answer'[c] = None
        /\ \A d \in Calls \ {c} : op'[d] = op[d]
    <3>1. op' = [op EXCEPT ![c] = "SetVolume"]
      BY <1>3 DEF BeginSetVolume, Begin
    <3>2. PICK v \in Volumes : Ask(c, "setVolume", v)
      BY <1>3 DEF BeginSetVolume
    <3>3. CallTypes /\ AnswerFunction
      BY <1>1 DEF TypeInv, TypeOK, CallTypes, AnswersFit, AnswerFunction
    <3> QED
      BY <1>2, <3>1, <3>2, <3>3, Asked DEF Kinds
  <2> QED
    BY <2>1, <2>2 DEF OtherSets, OnlyQuietSets
<1>4. ASSUME NEW c \in Calls, LoadStatus(c) PROVE OnlyQuietSets'
  <2>1. /\ op[c] = "SetVolume" /\ answer[c] # None
        /\ op' = [op EXCEPT ![c] = "store"] /\ loaded'[c] = currentStatus
        /\ UNCHANGED <<quiet, volume, wire, ask, currentStatus>>
    BY <1>1, <1>4 DEF LoadStatus, Returns, Same, TypeInv, TypeOK
  <2>2. OnlyQuietSets /\ quiet \in Calls
    BY <1>1, <1>2, <2>1
  <2>3. CASE c = quiet
    BY <1>2, <2>1, <2>2, <2>3 DEF OnlyQuietSets
  <2>4. CASE c # quiet
    <3>1. op[quiet] = "failed" /\ op'[quiet] = "failed"
      BY <1>2, <2>1, <2>2, <2>4 DEF OnlyQuietSets
    <3> QED
      BY <2>1, <3>1 DEF OnlyQuietSets
  <2> QED
    BY <2>3, <2>4
<1>5. ASSUME NEW c \in Calls, StoreVolume(c) PROVE OnlyQuietSets'
  <2>1. /\ op[c] = "store" /\ loaded[c] # None
        /\ op' = [op EXCEPT ![c] = "done"] /\ cached' = [cached EXCEPT ![loaded[c]] = ask[c].of]
        /\ UNCHANGED <<quiet, volume, wire, currentStatus>>
    BY <1>5 DEF StoreVolume, Finish, Same
  <2>2. OnlyQuietSets /\ quiet \in Calls
    BY <1>1, <1>2, <2>1
  <2>3. CASE c = quiet
    <3>1. /\ volume = ask[c].of /\ loaded[c] = currentStatus
          /\ \A request \in wire : request.kind # "setVolume"
          /\ \A d \in Calls \ {c} : op[d] \notin {"SetVolume", "store"}
      BY <2>1, <2>2, <2>3 DEF OnlyQuietSets
    <3>2. currentStatus \in Statuses /\ cached'[currentStatus] = volume
      BY <1>1, <2>1, <3>1 DEF TypeInv, TypeOK
    <3>3. op'[c] = "done" /\ \A d \in Calls \ {c} : op'[d] = op[d]
      BY <1>2, <2>1
    <3> QED
      BY <2>1, <2>3, <3>1, <3>2, <3>3 DEF OnlyQuietSets
  <2>4. CASE c # quiet
    <3>1. op[quiet] = "failed" /\ op'[quiet] = "failed"
      BY <1>2, <2>1, <2>2, <2>4 DEF OnlyQuietSets
    <3> QED
      BY <2>1, <3>1 DEF OnlyQuietSets
  <2> QED
    BY <2>3, <2>4
<1>6. ASSUME NEW c \in Calls, SetVolumeFails(c) PROVE OnlyQuietSets'
  <2>1. /\ op[c] = "SetVolume"
        /\ op' = [op EXCEPT ![c] = "failed"] /\ UNCHANGED <<quiet, volume, wire>>
    BY <1>6 DEF SetVolumeFails, Fails, Finish, Same, Undisturbed
  <2>2. OnlyQuietSets /\ quiet \in Calls
    BY <1>1, <1>2, <2>1
  <2>3. op'[quiet] = "failed"
    BY <1>2, <2>1, <2>2 DEF OnlyQuietSets
  <2> QED
    BY <2>1, <2>3 DEF OnlyQuietSets
<1>7. ASSUME UNCHANGED <<callVars, wire, volume, cacheVars, quiet>> PROVE OnlyQuietSets'
  BY <1>1, <1>7 DEF OnlyQuietSets, callVars, cacheVars
<1>8. ASSUME NEW c \in Calls, Begins(c) \/ GoesOn(c), ~SetsVolume(c) PROVE OnlyQuietSets'
  <2>1. /\ op[c] \notin {"SetVolume", "store", "done", "failed"} /\ op'[c] \notin {"SetVolume", "store"}
        /\ \/ UNCHANGED <<quiet, cacheVars>>
           \/ Overwritten({"store", "done"}) /\ UNCHANGED loaded
    BY <1>1, <1>8, OtherSteps DEF cacheVars
  <2>2. quiet' = quiet /\ quiet \in Calls /\ OnlyQuietSets
    BY <1>1, <1>2, <2>1 DEF Overwritten
  <2>3. c # quiet /\ OthersWait(c) /\ UNCHANGED volume
    BY <1>1, <1>8, <2>1, <2>2, CallSteps DEF OnlyQuietSets
  <2>4. \A request \in wire' : request \in wire \/ request.kind # "setVolume"
    BY <1>1, <1>8, <2>1, CallSteps DEF Asks, Ends, HasNoRequest, Keeps
  <2>5. op'[quiet] = op[quiet] /\ ask'[quiet] = ask[quiet] /\ answer'[quiet] = answer[quiet]
    BY <2>2, <2>3 DEF OthersWait
  <2>6. op[quiet] \in {"store", "done"} => UNCHANGED cacheVars
    BY <1>2, <2>1, <2>2 DEF Overwritten
  <2>7. \A d \in Calls : op'[d] \in {"SetVolume", "store"} => op[d] \in {"SetVolume", "store"}
    BY <2>1, <2>3 DEF OthersWait
  <2> QED
    BY <2>2, <2>3, <2>4, <2>5, <2>6, <2>7 DEF OnlyQuietSets, cacheVars
<1>9. ASSUME NEW request \in wire, Serve(request) PROVE OnlyQuietSets'
  <2>1. /\ UNCHANGED <<op, ask, currentStatus, cached, loaded, quiet>> /\ wire' = wire \ {request}
        /\ volume' = IF request.kind = "setVolume" THEN request.of ELSE volume
    BY <1>1, <1>9, Served DEF cacheVars
  <2>2. quiet \in Calls /\ OnlyQuietSets
    BY <1>1, <1>2, <2>1
  <2>3. answer'[quiet] = answer[quiet] \/ ask[quiet] = request
    BY <1>1, <1>9, <2>2, Served
  <2>4. op[quiet] = "SetVolume" => ask[quiet].kind = "setVolume"
    BY <1>1, <2>2 DEF TypeInv, SettersWait, Waits
  <2>5. CASE op[quiet] = "SetVolume" /\ request.kind = "setVolume"
    <3>1. request = ask[quiet] /\ volume' = ask[quiet].of
      BY <2>1, <2>2, <2>5 DEF OnlyQuietSets
    <3>2. \A r \in wire' : r.kind # "setVolume"
      BY <2>1, <2>2, <2>5, <3>1 DEF OnlyQuietSets
    <3> QED
      BY <2>1, <2>2, <2>5, <3>1, <3>2 DEF OnlyQuietSets
  <2>6. CASE op[quiet] = "SetVolume" /\ request.kind # "setVolume"
    BY <2>1, <2>2, <2>3, <2>4, <2>6 DEF OnlyQuietSets
  <2>7. CASE op[quiet] # "SetVolume"
    BY <2>1, <2>2, <2>7 DEF OnlyQuietSets
  <2> QED
    BY <2>5, <2>6, <2>7
<1>10. ASSUME NEW request \in wire, Refuse(request) PROVE OnlyQuietSets'
  <2>1. /\ request.kind = "stop" /\ UNCHANGED <<op, ask, volume, currentStatus, cached, loaded, quiet>>
        /\ wire' = wire \ {request} /\ \A d \in Calls : answer'[d] = answer[d] \/ ask[d] = request
    BY <1>1, <1>10, Refused DEF cacheVars
  <2>2. quiet \in Calls /\ OnlyQuietSets
    BY <1>1, <1>2, <2>1
  <2>3. op[quiet] = "SetVolume" => ask[quiet].kind = "setVolume"
    BY <1>1, <2>2 DEF TypeInv, SettersWait, Waits
  <2> QED
    BY <2>1, <2>2, <2>3 DEF OnlyQuietSets
<1>11. ASSUME MergeStatus PROVE OnlyQuietSets'
  <2>1. /\ quiet' = quiet /\ UNCHANGED <<op, ask, answer, wire, volume, currentStatus, loaded>>
        /\ OnlyQuietSets /\ shared # None
        /\ \E v \in Volumes : cached' = [cached EXCEPT ![shared] = v]
        /\ shared = currentStatus => op[quiet] # "done"
    BY <1>1, <1>2, <1>11 DEF MergeStatus, Overwritten, callVars, deviceVars
  <2>2. op[quiet] = "done" => cached'[currentStatus] = cached[currentStatus]
    BY <1>1, <2>1 DEF OnlyQuietSets, TypeInv, TypeOK
  <2> QED
    BY <2>1, <2>2 DEF OnlyQuietSets
<1>12. CASE UNCHANGED vars
  BY <1>7, <1>12 DEF vars, deviceVars
<1>13. ASSUME NEW n \in Numbers, HeartbeatRuns(n) PROVE OnlyQuietSets'
  BY <1>7, <1>13 DEF HeartbeatRuns, TickerTicks, HeartBeats, PingSent, deviceVars
<1>14. ASSUME NEW c \in Calls, StoreVolumePanics(c) PROVE OnlyQuietSets'
  BY <1>7, <1>14 DEF StoreVolumePanics, Same
<1> QED
  BY <1>3, <1>4, <1>5, <1>6, <1>8, <1>9, <1>10, <1>11, <1>12, <1>13, <1>14 DEF Next, SetsVolume, TurnVolume

\* SetVolume (Device.go:179): after one that the device carried out, that met no
\* other SetVolume, and past whose reading of the pointer no media status was
\* stored, nor merged past its write, what GetVolume answers from the cache is the
\* receiver's volume until somebody turns it, in whatever order the requests of
\* other calls are served.
THEOREM VolumeStaysSet == Spec => []SetVolumeLasts
<1>1. Init => VolumeInv
  BY TypeInit DEF Init, VolumeInv
<1>2. VolumeInv => SetVolumeLasts
  BY DEF VolumeInv, OnlyQuietSets, SetVolumeLasts
<1> QED
  BY <1>1, <1>2, VolumeStep, PTL DEF Spec

----------------------------------------------------------------------------
(* QuitApplication stops what it saw *)

\* The steps of QuitApplication's loop, and all the others.
Quits(c) == StatusSeen(c) \/ Stopped(c) \/ StopFails(c)

LEMMA OtherStopsNothing ==
  ASSUME TypeInv, NEW c \in Calls, Begins(c) \/ GoesOn(c), ~Quits(c)
  PROVE  /\ UNCHANGED <<todo, saw>>
         /\ ~Waits(c, "stop") /\ ~Waits(c, "stop")'
<1>1. CallTypes /\ AnswerFunction
  BY DEF TypeInv, TypeOK, CallTypes, AnswersFit, AnswerFunction
<1>2. ASSUME NEW kind \in Kinds \ {"stop"}, NEW x \in Volumes \cup {None}, Ask(c, kind, x)
      PROVE  ~Waits(c, "stop")'
  BY <1>1, <1>2, Asked DEF Waits
<1>3. ASSUME NEW how \in {"done", "failed"}, Finish(c, how) PROVE ~Waits(c, "stop")'
  BY <1>1, <1>3, Finished DEF Waits, Ends
<1>4. ASSUME op[c] = "none" PROVE ~Waits(c, "stop")
  BY <1>4 DEF TypeInv, RequestsWellFormed, Waits, Operations
<1>5. CASE StartOrStop(c)
  <2>1. op[c] \in {"none", "stopTicker", "clearTicker"} /\ UNCHANGED <<todo, saw, ask>>
    BY <1>5 DEF StartOrStop, StartsHeartbeat, StopsHeartbeat
  <2>2. ~Waits(c, "stop")
    BY <2>1 DEF TypeInv, RequestsWellFormed, Waits, Operations
  <2> QED
    BY <2>1, <2>2 DEF Waits
<1>6. CASE BeginGetVolume(c) \/ BeginGetMediaStatus(c) \/ BeginSetVolume(c) \/ BeginQuit(c) \/ BeginPlayMedia(c)
  <2>1. UNCHANGED <<todo, saw>> /\ op[c] = "none"
    BY <1>6 DEF BeginGetVolume, BeginGetMediaStatus, BeginSetVolume, BeginQuit, BeginPlayMedia, Begin
  <2>2. ~Waits(c, "stop")'
    BY <1>2, <1>6 DEF BeginGetVolume, BeginGetMediaStatus, BeginSetVolume, BeginQuit,
       BeginPlayMedia, Kinds
  <2> QED
    BY <1>4, <2>1, <2>2
<1>7. CASE GoesOn(c)
  <2>1. UNCHANGED <<todo, saw>> /\ ~Waits(c, "stop")
    <3>1. op[c] = "store" => ~Waits(c, "stop")
      BY DEF TypeInv, SettersWait, Waits
    <3>2. CASE LoadStatus(c) \/ StoreVolume(c) \/ StoreVolumePanics(c)
      BY <3>1, <3>2 DEF LoadStatus, StoreVolume, StoreVolumePanics, Returns, Waits, callVars
    <3>3. CASE \/ StoreStatus(c) \/ StatusFails(c) \/ ReceiverVolume(c) \/ SetVolumeFails(c)
               \/ QuitFails(c) \/ Load(c) \/ Loaded(c)
      BY <3>3 DEF StoreStatus, StatusFails, ReceiverVolume, SetVolumeFails, QuitFails, Load, Loaded,
         Returns, Fails, Waits
    <3> QED
      BY <1>7, <3>2, <3>3 DEF GoesOn, Quits
  <2>2. CASE LoadStatus(c) \/ StoreVolumePanics(c)
    BY <2>1, <2>2 DEF LoadStatus, StoreVolumePanics, callVars, Waits
  <2>3. CASE Load(c)
    BY <1>2, <2>1, <2>3 DEF Load, Kinds
  <2>4. CASE StatusFails(c)
    BY <1>2, <1>3, <2>1, <2>4 DEF StatusFails, Kinds
  <2>5. CASE \/ StoreStatus(c) \/ ReceiverVolume(c) \/ StoreVolume(c) \/ SetVolumeFails(c)
             \/ QuitFails(c) \/ Loaded(c)
    BY <1>3, <2>1, <2>5 DEF StoreStatus, ReceiverVolume, StoreVolume, SetVolumeFails, QuitFails, Loaded
  <2> QED
    BY <1>7, <2>1, <2>2, <2>3, <2>4, <2>5 DEF GoesOn, Quits
<1> QED
  BY <1>5, <1>6, <1>7 DEF Begins

\* Nothing but a QuitApplication sees more than was known, and a launch lets one
\* more application run.
LEMMA StepLaunched ==
  ASSUME TypeInv, [Next]_vars, NEW d \in Calls, Launched(d)
  PROVE  Launched(d)'
<1>1. ASSUME NEW c \in Calls, Begins(c) \/ GoesOn(c) PROVE Launched(d)'
  <2>1. OthersWait(c) /\ CallTypes'
    BY <1>1, CallSteps
  <2>2. CASE Asks(c)
    <3>1. op'[d] # "none"
      BY <2>1, <2>2 DEF Asks, OthersWait, Launched, Operations
    <3>2. \A request \in wire' : ~(request.kind = "launch" /\ request.by = d)
      BY <2>2 DEF Asks, Launched
    <3> QED
      BY <3>1, <3>2 DEF Launched
  <2>3. CASE Ends(c) \/ HasNoRequest(c) \/ Keeps(c)
    BY <2>1, <2>3 DEF Ends, HasNoRequest, Keeps, OthersWait, Launched
  <2>4. CASE UNCHANGED callVars /\ UNCHANGED wire
    BY <2>4 DEF callVars, Launched
  <2> QED
    BY <1>1, <2>2, <2>3, <2>4, CallSteps
<1>2. ASSUME NEW request \in wire, Serve(request) \/ Refuse(request) PROVE Launched(d)'
  BY <1>2, Served, Refused DEF Launched
<1>3. ASSUME UNCHANGED <<op, wire>> PROVE Launched(d)'
  BY <1>3 DEF Launched
<1>4. ASSUME NEW n \in Numbers, HeartbeatRuns(n) PROVE Launched(d)'
  BY <1>3, <1>4 DEF HeartbeatRuns, TickerTicks, HeartBeats, PingSent, callVars, deviceVars
<1>5. CASE TurnVolume \/ MergeStatus \/ UNCHANGED vars
  BY <1>3, <1>5 DEF TurnVolume, MergeStatus, vars, callVars, deviceVars
<1> QED
  BY <1>1, <1>2, <1>4, <1>5 DEF Next

LEMMA KnownIs ==
  ASSUME NEW s
  PROVE  s \in Known <=> s \in apps \/ \E c \in Calls : s \in saw[c] \/ s \in Told(c)
  BY Zenon DEF Known

LEMMA KnownIsNext ==
  ASSUME NEW s
  PROVE  s \in Known' <=> s \in apps' \/ \E c \in Calls : s \in saw'[c] \/ s \in Told(c)'
  BY Zenon DEF Known

LEMMA KnownStep == TypeInv /\ KnownAreLaunched /\ [Next]_vars => KnownAreLaunched'
<1> SUFFICES ASSUME TypeInv, KnownAreLaunched, [Next]_vars, NEW d \in Calls \cap Known'
             PROVE  Launched(d)'
  BY DEF KnownAreLaunched
<1>1. ASSUME d \in Known PROVE Launched(d)'
  BY <1>1, StepLaunched DEF KnownAreLaunched
<1>2. ASSUME NEW c \in Calls, Begins(c) \/ GoesOn(c) PROVE d \in Known
  <2>1. /\ OthersWait(c) /\ UNCHANGED apps
        /\ saw \in [Calls -> SUBSET Sessions] /\ todo \in [Calls -> SUBSET Sessions]
    BY <1>2, CallSteps DEF TypeInv, TypeOK
  <2>2. \A e \in Calls \ {c} : Told(e)' = Told(e) /\ saw'[e] = saw[e]
    BY <2>1 DEF OthersWait, Told, Waits
  <2>3. Told(c)' \subseteq Told(c)
    BY <1>2, CallSteps DEF Asks, Ends, HasNoRequest, Keeps, Told, Waits, callVars
  <2>4. saw'[c] \subseteq saw[c] \cup Told(c)
    <3>1. CASE StatusSeen(c)
      BY <2>1, <3>1 DEF StatusSeen, Returns, Told, Waits
    <3>2. CASE Stopped(c) \/ StopFails(c)
      BY <2>1, <3>2 DEF Stopped, StopFails
    <3>3. CASE ~Quits(c)
      BY <1>2, <3>3, OtherStopsNothing
    <3> QED
      BY <3>1, <3>2, <3>3 DEF Quits
  <2> QED
    BY <2>1, <2>2, <2>3, <2>4, KnownIs, KnownIsNext
<1>3. ASSUME NEW request \in wire, Serve(request) PROVE Launched(d)'
  <2>1. /\ request \in Requests /\ WellFormed(request) /\ UNCHANGED <<op, ask, saw>>
        /\ wire' = wire \ {request}
    BY <1>3, Served
  <2>2. \A c \in Calls : Told(c)' \subseteq Told(c) \cup apps
    BY <1>3, <2>1, Served DEF Told, Waits
  <2>3. CASE request.kind = "launch" /\ d = request.by
    <3>1. wire \subseteq Requests /\ \A r \in wire : WellFormed(r)
      BY DEF TypeInv, TypeOK, RequestsWellFormed
    <3>2. \A r \in wire : r.kind = "launch" /\ r.by = d => r = request
      BY <2>1, <2>3, <3>1 DEF Requests, WellFormed
    <3> QED
      BY <2>1, <2>3, <3>2 DEF Launched, WellFormed
  <2>4. CASE ~(request.kind = "launch" /\ d = request.by)
    <3>1. d \in apps' => d \in apps
      BY <1>3, <2>4, Served
    <3> QED
      BY <1>1, <2>1, <2>2, <3>1, KnownIs, KnownIsNext
  <2> QED
    BY <2>3, <2>4
<1>4. ASSUME NEW request \in wire, Refuse(request) PROVE d \in Known
  <2>1. /\ request.kind \in {"setVolume", "stop"} /\ UNCHANGED <<ask, apps>>
        /\ \A c \in Calls : answer'[c] = answer[c] \/ ask[c] = request
        /\ \A c \in Calls : saw'[c] \subseteq saw[c]
    BY <1>4, Refused
  <2>2. \A c \in Calls : Told(c)' \subseteq Told(c)
    BY <2>1 DEF Told, Waits
  <2> QED
    BY <2>1, <2>2, KnownIs, KnownIsNext
<1>5. ASSUME UNCHANGED <<apps, saw, ask, answer>> PROVE d \in Known
  BY <1>5, KnownIs, KnownIsNext DEF Told, Waits
<1>6. ASSUME NEW n \in Numbers, HeartbeatRuns(n) PROVE d \in Known
  BY <1>5, <1>6 DEF HeartbeatRuns, TickerTicks, HeartBeats, PingSent, callVars, deviceVars
<1>7. CASE TurnVolume \/ MergeStatus \/ UNCHANGED vars
  <2>1. d \in Known
    BY <1>5, <1>7 DEF TurnVolume, MergeStatus, vars, callVars, deviceVars
  <2> QED
    BY <1>1, <2>1
<1> QED
  BY <1>1, <1>2, <1>3, <1>4, <1>6, <1>7 DEF Next

\* The loop turns to a session it has not stopped, or ends.
LEMMA LoopGoesOn ==
  ASSUME TypeInv, NEW c \in Calls, NEW rest \in SUBSET Sessions, StopNext(c, rest), UNCHANGED apps,
         op[c] = "QuitApplication", saw'[c] \cap apps \subseteq rest
  PROVE  Stops(c)'
<1>1. CallTypes /\ AnswerFunction
  BY DEF TypeInv, TypeOK, CallTypes, AnswersFit, AnswerFunction
<1>2. todo'[c] = rest
  BY <1>1 DEF StopNext, CallTypes
<1>3. CASE rest = {} /\ Finish(c, "done")
  BY <1>1, <1>2, <1>3, Finished DEF Stops, Ends, Waits
<1>4. ASSUME NEW s \in rest, Ask(c, "stop", s), UNCHANGED op PROVE Stops(c)'
  <2>1. /\ ask'[c] \in Requests /\ ask'[c].kind = "stop" /\ ask'[c].of = s
        /\ answer'[c] = None
    BY <1>1, <1>4, Asked DEF Kinds
  <2>2. ask'[c] # None
    BY <2>1, DeviceAssumption
  <2> QED
    BY <1>2, <1>4, <2>1, <2>2 DEF Stops, Waits
<1> QED
  BY <1>3, <1>4 DEF StopNext

LEMMA QuitStep == QuitInv /\ [Next]_vars => QuitInv'
<1> SUFFICES ASSUME QuitInv, [Next]_vars, NEW c \in Calls PROVE Stops(c)'
  BY TypeStep, KnownStep DEF QuitInv
<1>1. TypeInv /\ KnownAreLaunched /\ Stops(c)
  BY DEF QuitInv
<1>2. CallTypes
  BY <1>1 DEF TypeInv, TypeOK, CallTypes
<1>3. ASSUME NEW d \in Calls \ {c}, Begins(d) \/ GoesOn(d) PROVE Stops(c)'
  BY <1>1, <1>3, CallSteps DEF OthersWait, Stops, Waits
<1>4. ASSUME Begins(c) \/ GoesOn(c), ~Quits(c) PROVE Stops(c)'
  <2>1. UNCHANGED <<todo, saw, apps>> /\ ~Waits(c, "stop") /\ ~Waits(c, "stop")'
    BY <1>1, <1>4, OtherStopsNothing, CallSteps
  <2> QED
    BY <1>1, <2>1 DEF Stops
<1>5. CASE StatusSeen(c)
  <2>1. /\ op[c] = "QuitApplication" /\ StopNext(c, answer[c]) /\ UNCHANGED apps
        /\ saw'[c] = answer[c]
    BY <1>2, <1>5 DEF StatusSeen, Same, CallTypes
  <2>2. answer[c] \in SUBSET Sessions
    BY <1>1, <1>5 DEF StatusSeen, Returns, Waits, TypeInv, AnswersFit
  <2> QED
    BY <1>1, <2>1, <2>2, LoopGoesOn
<1>6. CASE Stopped(c) \/ StopFails(c)
  <2>1. /\ Waits(c, "stop") /\ StopNext(c, todo[c] \ {ask[c].of}) /\ UNCHANGED apps
        /\ \/ saw' = saw /\ answer[c] # None
           \/ saw'[c] = saw[c] \ {ask[c].of}
    BY <1>2, <1>6 DEF Stopped, StopFails, Returns, Fails, Waits, Same, CallTypes
  <2>2. op[c] = "QuitApplication" /\ todo[c] \in SUBSET Sessions
    BY <1>1, <1>2, <2>1 DEF Stops, CallTypes
  <2>3. saw'[c] \cap apps \subseteq todo[c] \ {ask[c].of}
    BY <1>1, <2>1 DEF Stops
  <2> QED
    BY <1>1, <2>1, <2>2, <2>3, LoopGoesOn
<1>7. ASSUME NEW request \in wire, Serve(request) PROVE Stops(c)'
  <2>1. /\ request \in Requests /\ UNCHANGED <<op, ask, todo, saw>>
        /\ answer'[c] = answer[c] \/ ask[c] = request
    BY <1>1, <1>7, Served
  <2>2. ASSUME NEW s \in saw[c], s \in apps' PROVE s \in apps
    <3>1. CASE request.kind = "launch" /\ s = request.by
      <4>1. s \in Calls \cap Known
        BY <2>1, <3>1, KnownIs DEF Requests
      <4> QED
        BY <1>1, <3>1, <4>1 DEF KnownAreLaunched, Launched
    <3>2. CASE ~(request.kind = "launch" /\ s = request.by)
      BY <1>1, <1>7, <2>2, <3>2, Served
    <3> QED
      BY <3>1, <3>2
  <2>3. Waits(c, "stop") /\ answer'[c] # None => ask[c].of \notin saw[c] \cap apps'
    <3>1. CASE ask[c] = request /\ request.kind = "stop"
      BY <1>1, <1>7, <3>1, Served
    <3>2. CASE answer'[c] = answer[c]
      BY <1>1, <2>2, <3>2 DEF Stops
    <3> QED
      BY <2>1, <3>1, <3>2 DEF Waits
  <2> QED
    BY <1>1, <2>1, <2>2, <2>3 DEF Stops, Waits
<1>8. ASSUME NEW request \in wire, Refuse(request) PROVE Stops(c)'
  <2>1. /\ UNCHANGED <<op, ask, todo, apps>>
        /\ answer'[c] = answer[c] \/ ask[c] = request
        /\ saw'[c] \subseteq saw[c]
        /\ request.kind = "stop" => request.of \notin saw'[request.by]
    BY <1>1, <1>8, Refused
  <2>2. ask[c] # None => ask[c].by = c
    BY <1>1 DEF TypeInv, RequestsWellFormed
  <2>3. Waits(c, "stop") /\ answer'[c] # None => ask[c].of \notin saw'[c] \cap apps
    BY <1>1, <2>1, <2>2 DEF Stops, Waits
  <2> QED
    BY <1>1, <2>1, <2>3 DEF Stops, Waits
<1>9. ASSUME UNCHANGED <<callVars, apps>> PROVE Stops(c)'
  BY <1>1, <1>9 DEF Stops, Waits, callVars
<1>10. ASSUME NEW n \in Numbers, HeartbeatRuns(n) PROVE Stops(c)'
  BY <1>9, <1>10 DEF HeartbeatRuns, TickerTicks, HeartBeats, PingSent, deviceVars
<1>11. CASE TurnVolume \/ MergeStatus \/ UNCHANGED vars
  BY <1>9, <1>11 DEF TurnVolume, MergeStatus, vars, deviceVars
<1> QED
  BY <1>3, <1>4, <1>5, <1>6, <1>7, <1>8, <1>10, <1>11 DEF Next, Quits

\* QuitApplication: when it is done, nothing runs of what it saw running, but for
\* a session whose own StopApplication failed or was refused, however the requests of other
\* calls, launches among them, are served in between.
THEOREM QuitStopsAll == Spec => []QuitStopsWhatItSaw
<1>1. Init => QuitInv
  <2>1. ASSUME Init, NEW d \in Calls PROVE d \notin Known
    BY <2>1, KnownIs, DeviceAssumption DEF Init, Told, Waits
  <2> QED
    BY <2>1, TypeInit DEF Init, QuitInv, KnownAreLaunched, Stops, Waits
<1>2. QuitInv => QuitStopsWhatItSaw
  <2>1. ASSUME QuitInv, NEW c \in Calls, op[c] = "done" PROVE saw[c] \cap apps = {}
    BY <2>1 DEF QuitInv, Stops
  <2> QED
    BY <2>1 DEF QuitStopsWhatItSaw
<1> QED
  BY <1>1, <1>2, QuitStep, PTL DEF Spec

=============================================================================
