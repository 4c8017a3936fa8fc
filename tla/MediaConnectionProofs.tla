------------------------ MODULE MediaConnectionProofs -----------------------
(***************************************************************************)
(* Every goroutine on Incoming is accounted for, for any number of callers,*)
(* sessions, switches and failures.                                        *)
(***************************************************************************)
EXTENDS MediaConnection, FiniteSetTheorems, TLAPS

\* A caller outside getAppSession has no waiter; each orphan is a failure.
WaitersHaveCallers ==
    /\ \A c \in Callers :
          pc[c] \notin {"asked", "wait", "offer", "await"} => waiter[c] = "none"
    /\ orphans <= failures

\* The session a caller sets up for, and sends to, is one.
SessionInHand ==
    \A c \in Callers :
        pc[c] \in {"compare", "connect", "install", "load", "redirect", "publish", "send", "write"}
            => seen[c] # Nil

MInv == TypeOK /\ WaitersHaveCallers /\ SessionInHand /\ WaitersCovered

----------------------------------------------------------------------------
(* Counting callers *)

LEMMA CountType ==
  ASSUME NEW S, S \subseteq Callers
  PROVE  IsFiniteSet(S) /\ Cardinality(S) \in Nat
  BY MediaConnectionAssumption, FS_Subset, FS_CardinalityType

LEMMA CountAdd ==
  ASSUME NEW S, S \subseteq Callers, NEW c \in Callers, c \notin S
  PROVE  Cardinality(S \cup {c}) = Cardinality(S) + 1
  BY CountType, FS_AddElement

LEMMA CountRemove ==
  ASSUME NEW S, S \subseteq Callers, NEW c \in S
  PROVE  Cardinality(S \ {c}) = Cardinality(S) - 1
  BY CountType, FS_RemoveElement

LEMMA MInvInit == Init => MInv
<1> SUFFICES ASSUME Init PROVE MInv
  OBVIOUS
<1>1. TypeOK
  <2>1. Nil \in Statuses /\ {} \subseteq Sessions
    BY DEF Statuses
  <2>2. [c \in Callers |-> Nil] \in [Callers -> Statuses]
    BY <2>1
  <2>3. [c \in Callers |-> "idle"] \in
           [Callers -> {"idle", "compare"} \cup InGetAppSession \cup InRefresh \cup InRequest]
    OBVIOUS
  <2>4. /\ using \in [Callers -> Callers \cup {Nil}]
        /\ phase \in [Callers -> {"ensure", "refresh"}]
        /\ waiter \in [Callers -> {"none", "receive", "signal"}]
    BY DEF Init
  <2>5. switches \in 0 .. MaxSwitches /\ orphans \in 0 .. MaxFailures /\ failures \in 0 .. MaxFailures
    BY MediaConnectionAssumption DEF Init
  <2> QED
    BY <2>1, <2>2, <2>3, <2>4, <2>5 DEF Init, TypeOK
<1>4. WaitersHaveCallers /\ SessionInHand
  BY DEF Init, WaitersHaveCallers, SessionInHand
<1>2. Receiving = {} /\ ToOffer = {}
  BY DEF Init, Receiving, ToOffer
<1>3. WaitersCovered
  BY <1>2, FS_EmptySet DEF Init, WaitersCovered
<1> QED
  BY <1>1, <1>3, <1>4 DEF MInv

\* An offer takes one goroutine off Incoming, or there was none.
LEMMA OfferTakesOne ==
  ASSUME TypeOK, NEW s \in Statuses, OnStatus(s)
  PROVE  /\ Cardinality(Receiving') + orphans'
               <= IF Cardinality(Receiving) + orphans = 0 THEN 0
                  ELSE Cardinality(Receiving) + orphans - 1
         /\ waiter' \in [Callers -> {"none", "receive", "signal"}]
         /\ seen' \in [Callers -> Statuses]
         /\ orphans' \in 0 .. orphans
         /\ \A c \in Callers : waiter[c] = "none" => waiter'[c] = "none" /\ seen'[c] = seen[c]
<1> USE DEF TypeOK
<1>1. Receiving \subseteq Callers /\ Cardinality(Receiving) \in Nat
  BY CountType DEF Receiving
<1>2. ASSUME NEW d \in Receiving,
             waiter' = [waiter EXCEPT ![d] = "signal"],
             seen' = [seen EXCEPT ![d] = s],
             UNCHANGED orphans
      PROVE  /\ Cardinality(Receiving') = Cardinality(Receiving) - 1
             /\ waiter' \in [Callers -> {"none", "receive", "signal"}]
             /\ seen' \in [Callers -> Statuses]
             /\ \A c \in Callers : waiter[c] = "none" => waiter'[c] = "none" /\ seen'[c] = seen[c]
  <2>1. Receiving' = Receiving \ {d}
    BY <1>2 DEF Receiving
  <2>2. d \in Callers /\ waiter[d] = "receive"
    BY DEF Receiving
  <2> QED
    BY <1>1, <1>2, <2>1, <2>2, CountRemove
<1>3. CASE orphans > 0 /\ orphans' = orphans - 1 /\ UNCHANGED <<waiter, seen>>
  <2>1. Receiving' = Receiving
    BY <1>3 DEF Receiving
  <2> QED
    BY <1>1, <1>3, <2>1
<1>4. CASE OfferExpires
  <2>1. Receiving' = {} /\ Receiving = {}
    BY <1>4 DEF OfferExpires, Receiving
  <2> QED
    BY <1>4, <2>1, FS_EmptySet DEF OfferExpires
<1>5. CASE \E d \in Receiving :
             /\ waiter' = [waiter EXCEPT ![d] = "signal"]
             /\ seen' = [seen EXCEPT ![d] = s]
             /\ UNCHANGED orphans
  <2>1. PICK d \in Receiving :
          /\ waiter' = [waiter EXCEPT ![d] = "signal"]
          /\ seen' = [seen EXCEPT ![d] = s]
          /\ UNCHANGED orphans
    BY <1>5
  <2>2. /\ Cardinality(Receiving') = Cardinality(Receiving) - 1
        /\ waiter' \in [Callers -> {"none", "receive", "signal"}]
        /\ seen' \in [Callers -> Statuses]
        /\ \A c \in Callers : waiter[c] = "none" => waiter'[c] = "none" /\ seen'[c] = seen[c]
    BY <1>2, <2>1
  <2>3. Cardinality(Receiving) # 0
    BY <1>1, <2>1, CountType, FS_EmptySet
  <2> QED
    BY <1>1, <2>1, <2>2, <2>3
<1> QED
  BY <1>3, <1>4, <1>5 DEF OnStatus, Taken

LEMMA MInvStep == MInv /\ [Next]_vars => MInv'
<1> SUFFICES ASSUME MInv, [Next]_vars PROVE MInv'
  OBVIOUS
<1> USE MediaConnectionAssumption
    DEF MInv, TypeOK, WaitersHaveCallers, SessionInHand, Statuses, Goes, Returns, Local,
        InGetAppSession, InRefresh, InRequest,
        device, dispatcher, status, counts, connection
<1>1. /\ Receiving \subseteq Callers /\ Cardinality(Receiving) \in Nat
      /\ ToOffer \subseteq Callers /\ Cardinality(ToOffer) \in Nat
  BY CountType DEF Receiving, ToOffer
<1>2. ASSUME NEW s \in Statuses, Switch(s) PROVE MInv'
  BY <1>2 DEF Switch, WaitersCovered, Receiving, ToOffer
<1>3. ASSUME Broadcast PROVE MInv'
  BY <1>3 DEF Broadcast, WaitersCovered, Receiving, ToOffer
<1>4. ASSUME BroadcastOffered PROVE MInv'
  <2>1. ToOffer' = ToOffer
    BY <1>4 DEF BroadcastOffered, ToOffer
  <2>2. OnStatus(dstatus) /\ dstatus \in Statuses /\ failures' = failures
    BY <1>4 DEF BroadcastOffered
  <2>3. Cardinality(Receiving') + orphans'
            <= IF Cardinality(Receiving) + orphans = 0 THEN 0
               ELSE Cardinality(Receiving) + orphans - 1
    BY <2>2, OfferTakesOne
  <2>4. Cardinality(Receiving') \in Nat /\ orphans' \in Nat
    <3>1. Receiving' \subseteq Callers
      BY DEF Receiving
    <3>2. orphans' \in 0 .. orphans
      BY <2>2, OfferTakesOne
    <3>3. Cardinality(Receiving') \in Nat
      BY <3>1, CountType
    <3> QED
      BY <3>2, <3>3
  <2>5. WaitersCovered'
    BY <1>1, <2>1, <2>2, <2>3, <2>4 DEF WaitersCovered
  <2> QED
    BY <1>4, <2>5, OfferTakesOne DEF BroadcastOffered
\* A getAppSession starts: one more waiter, one more status to be offered.
<1>5. ASSUME NEW c \in Callers, NEW from \in {"idle", "clear"}, Ask(c, from),
             UNCHANGED failures
      PROVE  WaitersCovered'
  <2>1. Receiving' = Receiving \cup {c} /\ c \notin Receiving
    BY <1>5 DEF Ask, Receiving
  <2>2. ToOffer' = ToOffer \cup {c} /\ c \notin ToOffer
    BY <1>5 DEF Ask, ToOffer
  <2> QED
    BY <1>1, <1>5, <2>1, <2>2, CountAdd DEF Ask, WaitersCovered
<1>6. ASSUME NEW c \in Callers, Call(c) \/ ClearController(c) PROVE MInv'
  <2>1. WaitersCovered'
    BY <1>5, <1>6 DEF Call, ClearController
  <2> QED
    BY <1>6, <2>1 DEF Call, ClearController, Ask
<1>7. ASSUME NEW c \in Callers, StatusRequested(c) \/ StatusAnswered(c) PROVE MInv'
  <2>1. Receiving' = Receiving /\ ToOffer' = ToOffer
    BY <1>7 DEF StatusRequested, StatusAnswered, Receiving, ToOffer
  <2> QED
    BY <1>7, <2>1 DEF StatusRequested, StatusAnswered, WaitersCovered
\* A failure: one status less to come, one failure more.
<1>8. ASSUME NEW c \in Callers, StatusFails(c) PROVE MInv'
  <2>1. ToOffer' = ToOffer \ {c} /\ c \in ToOffer
    BY <1>8 DEF StatusFails, ToOffer
  <2>2. Receiving' = Receiving \ {c}
    BY <1>8 DEF StatusFails, Receiving
  <2>3. WaitersCovered'
    <3>1. CASE waiter[c] = "receive"
      <4>1. c \in Receiving
        BY <3>1 DEF Receiving
      <4> QED
        BY <1>1, <1>8, <2>1, <2>2, <3>1, <4>1, CountRemove DEF StatusFails, WaitersCovered
    <3>2. CASE waiter[c] # "receive"
      <4>1. Receiving' = Receiving
        BY <2>2, <3>2 DEF Receiving
      <4> QED
        BY <1>1, <1>8, <2>1, <3>2, <4>1, CountRemove DEF StatusFails, WaitersCovered
    <3> QED
      BY <3>1, <3>2
  <2> QED
    BY <1>8, <2>3 DEF StatusFails
\* An offer: one status less to come, one goroutine less on Incoming, or none.
<1>9. ASSUME NEW c \in Callers, StatusOffered(c) PROVE MInv'
  <2>1. ToOffer' = ToOffer \ {c} /\ c \in ToOffer
    BY <1>9 DEF StatusOffered, ToOffer
  <2>2. OnStatus(got[c]) /\ got[c] \in Statuses /\ failures' = failures
    BY <1>9 DEF StatusOffered
  <2>3. Cardinality(Receiving') + orphans'
            <= IF Cardinality(Receiving) + orphans = 0 THEN 0
               ELSE Cardinality(Receiving) + orphans - 1
    BY <2>2, OfferTakesOne
  <2>4. Cardinality(Receiving') \in Nat /\ orphans' \in Nat
    <3>1. Receiving' \subseteq Callers
      BY DEF Receiving
    <3>2. orphans' \in 0 .. orphans
      BY <2>2, OfferTakesOne
    <3>3. Cardinality(Receiving') \in Nat
      BY <3>1, CountType
    <3> QED
      BY <3>2, <3>3
  <2>5. Cardinality(ToOffer') = Cardinality(ToOffer) - 1 /\ Cardinality(ToOffer') \in Nat
    BY <1>1, <2>1, CountRemove, CountType
  <2>6. WaitersCovered'
    BY <1>1, <2>2, <2>3, <2>4, <2>5 DEF WaitersCovered
  <2> QED
    BY <1>9, <2>2, <2>6, OfferTakesOne DEF StatusOffered
<1>10. ASSUME NEW c \in Callers, Signal(c) PROVE MInv'
  <2>1. Receiving' = Receiving /\ ToOffer' = ToOffer
    BY <1>10 DEF Signal, Receiving, ToOffer
  <2> QED
    BY <1>10, <2>1 DEF Signal, WaitersCovered
\* The rest starts, offers and ends nothing.
<1>11. ASSUME NEW c \in Callers, UNCHANGED <<waiter, orphans, failures>>,
              pc[c] \notin {"asked", "wait", "offer", "await"},
              NEW to \in {"idle", "compare"} \cup InRefresh \cup InRequest,
              pc' = [pc EXCEPT ![c] = to]
       PROVE  WaitersCovered' /\ WaitersHaveCallers'
  <2>1. Receiving' = Receiving /\ ToOffer' = ToOffer
    BY <1>11 DEF Receiving, ToOffer
  <2> QED
    BY <1>11, <2>1 DEF WaitersCovered
<1>12. ASSUME NEW c \in Callers, NoSuchSession(c) \/ SetSessionID(c) \/ Compare(c)
       PROVE  MInv'
  <2>1. TypeOK'
    <3>1. CASE NoSuchSession(c)
      BY <3>1 DEF NoSuchSession
    <3>2. CASE SetSessionID(c)
      BY <3>2 DEF SetSessionID
    <3>3. CASE Compare(c)
      BY <3>3 DEF Compare
    <3> QED
      BY <1>12, <3>1, <3>2, <3>3
  <2>2. WaitersCovered' /\ WaitersHaveCallers'
    BY <1>11, <1>12 DEF NoSuchSession, SetSessionID, Compare
  <2>3. SessionInHand'
    BY <1>12 DEF NoSuchSession, SetSessionID, Compare
  <2> QED
    BY <2>1, <2>2, <2>3
<1>13. ASSUME NEW c \in Callers,
              CheckController(c) \/ CloseController(c) \/ SessionFoundAgain(c)
                \/ Connect(c) \/ Install(c)
       PROVE  MInv'
  <2>1. TypeOK'
    <3>1. CASE CheckController(c) \/ CloseController(c)
      BY <1>13, <3>1 DEF CheckController, CloseController
    <3>2. CASE SessionFoundAgain(c) \/ Install(c)
      BY <1>13, <3>2 DEF SessionFoundAgain, Install
    <3>3. CASE Connect(c)
      BY <3>3 DEF Connect
    <3> QED
      BY <1>13, <3>1, <3>2, <3>3
  <2>2. WaitersCovered' /\ WaitersHaveCallers'
    BY <1>11, <1>13 DEF CheckController, CloseController, SessionFoundAgain, Connect, Install
  <2>3. SessionInHand'
    BY <1>13 DEF CheckController, CloseController, SessionFoundAgain, Connect, Install
  <2> QED
    BY <2>1, <2>2, <2>3
<1>14. ASSUME NEW c \in Callers,
              LoadChannel(c) \/ SetupChannel(c) \/ Publish(c) \/ LoadAndSend(c) \/ Send(c)
       PROVE  MInv'
  <2>1. TypeOK'
    <3>1. CASE LoadChannel(c) \/ Publish(c) \/ LoadAndSend(c)
      BY <1>14, <3>1 DEF LoadChannel, Publish, LoadAndSend
    <3>2. CASE SetupChannel(c)
      BY <3>2 DEF SetupChannel
    <3>3. CASE Send(c)
      BY <3>3 DEF Send
    <3> QED
      BY <1>14, <3>1, <3>2, <3>3
  <2>2. WaitersCovered' /\ WaitersHaveCallers'
    BY <1>11, <1>14 DEF LoadChannel, SetupChannel, Publish, LoadAndSend, Send
  <2>3. SessionInHand'
    BY <1>14 DEF LoadChannel, SetupChannel, Publish, LoadAndSend, Send
  <2> QED
    BY <2>1, <2>2, <2>3
<1>15. ASSUME UNCHANGED vars PROVE MInv'
  BY <1>15 DEF vars, WaitersCovered, Receiving, ToOffer
<1> QED
  BY <1>2, <1>3, <1>4, <1>6, <1>7, <1>8, <1>9, <1>10, <1>12, <1>13, <1>14, <1>15
     DEF Next, Request, GetAppSession, RefreshConnection

\* Every variable keeps its type; in particular the goroutines left behind are
\* as bounded as the failures that left them.
THEOREM ConnectionTyped == Spec => []TypeOK
<1>1. MInv => TypeOK
  BY DEF MInv
<1> QED
  BY <1>1, MInvInit, MInvStep, PTL DEF Spec

\* Only a GetStatus that failed can leave a caller without a status.
THEOREM StatusesCoverWaiters == Spec => []WaitersCovered
<1>1. MInv => WaitersCovered
  BY DEF MInv
<1> QED
  BY <1>1, MInvInit, MInvStep, PTL DEF Spec

----------------------------------------------------------------------------
(* Where requests go *)

\* While the device has kept its session, every status on its way, found or
\* set up for is of that session.
OneSession ==
    switches = 0 =>
        /\ dstatus \in {Nil, session}
        /\ \A c \in Callers :
              /\ got[c] \in {Nil, session}
              /\ seen[c] \in {Nil, session}
              /\ destination[c] \in {Nil, session}

\* A channel that can be used was set up.
ChannelsSetUp ==
    /\ channel # Nil => destination[channel] # Nil
    /\ \A c \in Callers :
          /\ pc[c] = "send" => channel # Nil
          /\ pc[c] \in {"publish", "write"} => using[c] # Nil
          /\ using[c] # Nil => destination[using[c]] # Nil

SInv == ChannelsSetUp /\ OneSession

\* A status goes to a goroutine whose caller is still in getAppSession.
LEMMA TakenIsWaitedFor ==
  ASSUME TypeOK, WaitersHaveCallers, NEW s \in Statuses, OnStatus(s)
  PROVE  \A c \in Callers : seen'[c] = seen[c] \/ (seen'[c] = s /\ waiter[c] = "receive")
<1>1. CASE \E d \in Receiving :
             /\ waiter' = [waiter EXCEPT ![d] = "signal"]
             /\ seen' = [seen EXCEPT ![d] = s]
             /\ UNCHANGED orphans
  BY <1>1 DEF Receiving, TypeOK
<1>2. CASE UNCHANGED <<waiter, seen>>
  BY <1>2
<1> QED
  BY <1>1, <1>2 DEF OnStatus, Taken, OfferExpires

LEMMA SInvStep == MInv /\ SInv /\ [Next]_vars => SInv'
<1> SUFFICES ASSUME MInv, SInv, [Next]_vars PROVE SInv'
  OBVIOUS
<1> USE MediaConnectionAssumption
    DEF SInv, ChannelsSetUp, OneSession, Goes, Returns, Local,
        device, dispatcher, status, counts, connection
<1>0. TypeOK /\ WaitersHaveCallers /\ SessionInHand
  BY DEF MInv
<1>1. ASSUME NEW s \in Statuses, Switch(s) PROVE SInv'
  BY <1>0, <1>1 DEF Switch, TypeOK
<1>2. CASE Broadcast
  BY <1>0, <1>2 DEF Broadcast, TypeOK
<1>3. CASE BroadcastOffered
  <2>1. OnStatus(dstatus) /\ dstatus \in Statuses
    BY <1>0, <1>3 DEF BroadcastOffered, TypeOK
  <2> QED
    BY <1>0, <1>3, <2>1, TakenIsWaitedFor DEF BroadcastOffered, TypeOK
<1>4. ASSUME NEW c \in Callers, Call(c) \/ ClearController(c) PROVE SInv'
  BY <1>0, <1>4 DEF Call, ClearController, Ask, TypeOK
<1>5. ASSUME NEW c \in Callers, StatusRequested(c) \/ StatusAnswered(c) \/ Signal(c)
      PROVE  SInv'
  BY <1>0, <1>5 DEF StatusRequested, StatusAnswered, Signal, TypeOK
<1>6. ASSUME NEW c \in Callers, StatusFails(c) \/ NoSuchSession(c) \/ Send(c) PROVE SInv'
  BY <1>0, <1>6 DEF StatusFails, NoSuchSession, Send, TypeOK
<1>7. ASSUME NEW c \in Callers, StatusOffered(c) PROVE SInv'
  <2>1. OnStatus(got[c]) /\ got[c] \in Statuses
    BY <1>0, <1>7 DEF StatusOffered, TypeOK
  <2> QED
    BY <1>0, <1>7, <2>1, TakenIsWaitedFor DEF StatusOffered, TypeOK
<1>8. ASSUME NEW c \in Callers, SetSessionID(c) \/ Compare(c) PROVE SInv'
  BY <1>0, <1>8 DEF SetSessionID, Compare, ShouldResetConnection, TypeOK
<1>9. ASSUME NEW c \in Callers,
             CheckController(c) \/ CloseController(c) \/ SessionFoundAgain(c)
               \/ Connect(c) \/ Install(c)
      PROVE  SInv'
  BY <1>0, <1>9 DEF CheckController, CloseController, SessionFoundAgain, Connect, Install, TypeOK
<1>10. ASSUME NEW c \in Callers, LoadChannel(c) \/ Publish(c) \/ LoadAndSend(c) PROVE SInv'
  BY <1>0, <1>10 DEF LoadChannel, Publish, LoadAndSend, TypeOK
<1>11. ASSUME NEW c \in Callers, SetupChannel(c) PROVE SInv'
  BY <1>0, <1>11 DEF SetupChannel, SessionInHand, TypeOK
<1>12. CASE UNCHANGED vars
  BY <1>12 DEF vars
<1> QED
  BY <1>1, <1>2, <1>3, <1>4, <1>5, <1>6, <1>7, <1>8, <1>9, <1>10, <1>11, <1>12
     DEF Next, Request, GetAppSession, RefreshConnection

LEMMA SInvInit == Init => SInv
  BY DEF Init, SInv, ChannelsSetUp, OneSession

\* Whatever callers overwrite of each other, until the device changes its
\* session every request goes out on a channel to the session its call found.
THEOREM AstrayOnlyOnceSwitched == Spec => []AstrayOnlyAfterSwitch
<1>1. MInv /\ SInv => AstrayOnlyAfterSwitch
  BY MediaConnectionAssumption
     DEF MInv, TypeOK, SessionInHand, SInv, ChannelsSetUp, OneSession, AstrayOnlyAfterSwitch
<1> QED
  BY <1>1, SInvInit, MInvInit, MInvStep, SInvStep, PTL DEF Spec

----------------------------------------------------------------------------
(* Connected *)

\* While refreshes come one at a time and end, the one under way has its own
\* channel in hand, and between two of them the channel is connected.
OneRefresh ==
    ~upset =>
        /\ \A c, d \in Callers : Refreshing(c) /\ Refreshing(d) => c = d
        /\ (\A d \in Callers : ~Refreshing(d)) /\ channel # Nil
              => destination[channel] \in connected
        /\ \A c \in Callers :
              /\ pc[c] = "write" => using[c] = channel
              /\ pc[c] \in {"install", "load", "redirect", "publish"} => seen[c] \in connected
              /\ pc[c] = "redirect" => using[c] = channel
              /\ pc[c] = "publish" =>
                    destination[using[c]] = seen[c] /\ channel \in {Nil, using[c]}

\* A caller in refresh's getAppSession is in nothing else.
PhaseFits ==
    \A c \in Callers : phase[c] = "refresh" => pc[c] \in InGetAppSession \cup InRefresh

LEMMA CInvStep ==
  MInv /\ SInv /\ PhaseFits /\ OneRefresh /\ [Next]_vars => PhaseFits' /\ OneRefresh'
<1> SUFFICES ASSUME MInv, SInv, PhaseFits, OneRefresh, [Next]_vars PROVE PhaseFits' /\ OneRefresh'
  OBVIOUS
<1> USE MediaConnectionAssumption
    DEF PhaseFits, OneRefresh, Refreshing, InGetAppSession, InRefresh, Goes, Returns, Local,
        device, dispatcher, status, counts, connection
<1>0. TypeOK /\ WaitersHaveCallers /\ SessionInHand /\ ChannelsSetUp
  BY DEF MInv, SInv
<1>1. ASSUME NEW s \in Statuses, Switch(s) PROVE PhaseFits' /\ OneRefresh'
  BY <1>0, <1>1 DEF Switch, TypeOK
<1>2. CASE Broadcast
  BY <1>0, <1>2 DEF Broadcast, TypeOK
<1>3. CASE BroadcastOffered
  <2>1. OnStatus(dstatus) /\ dstatus \in Statuses
    BY <1>0, <1>3 DEF BroadcastOffered, TypeOK
  <2> QED
    BY <1>0, <1>3, <2>1, TakenIsWaitedFor DEF BroadcastOffered, WaitersHaveCallers
<1>4. ASSUME NEW c \in Callers, Call(c) \/ ClearController(c) PROVE PhaseFits' /\ OneRefresh'
  BY <1>0, <1>4 DEF Call, ClearController, Ask, TypeOK
<1>5. ASSUME NEW c \in Callers, StatusRequested(c) \/ StatusAnswered(c) \/ Signal(c)
      PROVE  PhaseFits' /\ OneRefresh'
  BY <1>0, <1>5 DEF StatusRequested, StatusAnswered, Signal, TypeOK
<1>6. ASSUME NEW c \in Callers, StatusFails(c) \/ NoSuchSession(c) \/ Send(c)
      PROVE  PhaseFits' /\ OneRefresh'
  <2>1. PhaseFits'
    BY <1>0, <1>6 DEF StatusFails, NoSuchSession, Send, TypeOK
  <2>2. CASE phase[c] = "refresh" /\ (StatusFails(c) \/ NoSuchSession(c))
    BY <2>1, <2>2 DEF StatusFails, NoSuchSession
  <2>3. CASE phase[c] # "refresh" \/ Send(c)
    <3>1. phase[c] # "refresh" /\ pc[c] \notin InRefresh
      BY <1>0, <1>6, <2>3 DEF StatusFails, NoSuchSession, Send, TypeOK
    <3>2. ~upset' => ~upset
      BY <1>6 DEF StatusFails, NoSuchSession, Send
    <3>3. \A d \in Callers : Refreshing(d)' <=> Refreshing(d)
      BY <1>0, <1>6, <3>1 DEF StatusFails, NoSuchSession, Send, TypeOK
    <3>4. \A d \in Callers :
             pc'[d] # "idle" => pc'[d] = pc[d] /\ seen'[d] = seen[d] /\ using'[d] = using[d]
      BY <1>0, <1>6 DEF StatusFails, NoSuchSession, Send, TypeOK
    <3>5. UNCHANGED <<channel, destination, connected>>
      BY <1>6 DEF StatusFails, NoSuchSession, Send
    <3> QED
      BY <2>1, <3>2, <3>3, <3>4, <3>5
  <2> QED
    BY <1>6, <2>2, <2>3
<1>7. ASSUME NEW c \in Callers, StatusOffered(c) PROVE PhaseFits' /\ OneRefresh'
  <2>1. OnStatus(got[c]) /\ got[c] \in Statuses
    BY <1>0, <1>7 DEF StatusOffered, TypeOK
  <2>2. \A d \in Callers :
           pc[d] \in {"install", "load", "redirect", "publish"} => seen'[d] = seen[d]
    BY <1>0, <2>1, TakenIsWaitedFor DEF WaitersHaveCallers
  <2>3. \A d \in Callers : Refreshing(d)' <=> Refreshing(d)
    BY <1>0, <1>7 DEF StatusOffered, TypeOK
  <2>4. \A d \in Callers : pc'[d] \in InRefresh \cup {"write"} => pc'[d] = pc[d]
    BY <1>0, <1>7 DEF StatusOffered, TypeOK
  <2>5. UNCHANGED <<upset, using, channel, destination, connected, phase>>
    BY <1>7 DEF StatusOffered
  <2>6. PhaseFits'
    BY <1>0, <1>7 DEF StatusOffered, TypeOK
  <2> QED
    BY <2>2, <2>3, <2>4, <2>5, <2>6
<1>8. ASSUME NEW c \in Callers, SetSessionID(c) \/ Compare(c) PROVE PhaseFits' /\ OneRefresh'
  <2>1. CASE SetSessionID(c)
    BY <1>0, <2>1 DEF SetSessionID, TypeOK
  <2>2. CASE Compare(c) /\ ShouldResetConnection(c)
    <3>1. PhaseFits' /\ UNCHANGED <<channel, destination, connected, seen, using, phase>>
      BY <1>0, <2>2 DEF Compare, TypeOK
    <3>2. ~upset' => ~upset /\ \A d \in Callers : ~Refreshing(d)
      BY <2>2 DEF Compare
    <3>3. \A d \in Callers : d # c => pc'[d] = pc[d]
      BY <1>0, <2>2 DEF Compare, TypeOK
    <3>4. pc'[c] = "clean"
      BY <1>0, <2>2 DEF Compare, TypeOK
    <3> QED
      BY <3>1, <3>2, <3>3, <3>4
  <2>3. CASE Compare(c) /\ ~ShouldResetConnection(c)
    BY <1>0, <2>3 DEF Compare, TypeOK
  <2> QED
    BY <1>8, <2>1, <2>2, <2>3
<1>9. ASSUME NEW c \in Callers,
             CheckController(c) \/ CloseController(c) \/ SessionFoundAgain(c)
               \/ Connect(c) \/ Install(c)
      PROVE  PhaseFits' /\ OneRefresh'
  BY <1>0, <1>9 DEF CheckController, CloseController, SessionFoundAgain, Connect, Install, TypeOK
<1>10. ASSUME NEW c \in Callers, LoadChannel(c) \/ LoadAndSend(c)
       PROVE  PhaseFits' /\ OneRefresh'
  BY <1>0, <1>10 DEF LoadChannel, LoadAndSend, TypeOK
<1>11. ASSUME NEW c \in Callers, SetupChannel(c) PROVE PhaseFits' /\ OneRefresh'
  BY <1>0, <1>11 DEF SetupChannel, TypeOK
<1>12. ASSUME NEW c \in Callers, Publish(c) PROVE PhaseFits' /\ OneRefresh'
  BY <1>0, <1>12 DEF Publish, ChannelsSetUp, TypeOK
<1>13. CASE UNCHANGED vars
  BY <1>13 DEF vars
<1> QED
  BY <1>1, <1>2, <1>3, <1>4, <1>5, <1>6, <1>7, <1>8, <1>9, <1>10, <1>11, <1>12, <1>13
     DEF Next, Request, GetAppSession, RefreshConnection

\* A request is sent to a transport that is connected, unless a refresh is
\* under way or two of them, or a failure, left the connection half set up.
THEOREM SentWhereConnected == Spec => []ConnectedUnlessRefreshing
<1>1. Init => PhaseFits /\ OneRefresh
  BY DEF Init, PhaseFits, OneRefresh, Refreshing, InRefresh
<1>2. SInv /\ OneRefresh => ConnectedUnlessRefreshing
  BY DEF SInv, ChannelsSetUp, OneRefresh, ConnectedUnlessRefreshing
<1> QED
  BY <1>1, <1>2, SInvInit, MInvInit, MInvStep, SInvStep, CInvStep, PTL DEF Spec
=============================================================================
