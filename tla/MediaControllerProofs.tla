------------------------ MODULE MediaControllerProofs ------------------------
(***************************************************************************)
(* For any number of commands and queries, media sessions and messages on  *)
(* their way: the device carries a command out at most twice, and a        *)
(* command that met no other call and took no other's status ends with a   *)
(* message for a session at least as new as the one played when it began.  *)
(***************************************************************************)
EXTENDS MediaController, TLAPS

\* A message can be carried out once: none before the first, one before the second.
ActedPerMessage ==
    \A c \in Callers :
        /\ pc[c] \in {"idle", "first"} => acted[c] = 0
        /\ pc[c] # "returned" => acted[c] <= 1

\* Two calls under way have disturbed each other.
AloneUnlessDisturbed ==
    \A c, d \in UnderWay : c # d => disturbed[c]

\* The goroutine of updateForNewSession runs between its start and its command's
\* resumption, and queries have none.
WaiterMatchesCall ==
    \A c \in Callers :
        /\ pc[c] \in {"first", "update", "wait", "send", "second"} => c \in Commands
        /\ waiter[c] # "none" => c \in Commands
        /\ pc[c] \in {"idle", "first", "update"} => waiter[c] = "none"
        /\ pc[c] \in {"send", "second", "returned"} => waiter[c] \in {"none", "done"}
        /\ pc[c] = "send" => waiter[c] = "done"

\* All messages on their way are of session s or a later one.
AllFrom(s) == \A i \in 1 .. Len(stream) : stream[i][2] >= s

\* Messages are in the order of their sessions, none from the future; one that
\* answers c was sent after c began.
StreamInOrder ==
    /\ \A i, j \in 1 .. Len(stream) : i < j => stream[i][2] <= stream[j][2]
    /\ \A i \in 1 .. Len(stream) : stream[i][2] <= session
    /\ \A c \in Callers : base[c] <= session
    /\ \A i \in 1 .. Len(stream) : \A c \in Callers :
          stream[i][1] = c =>
              stream[i][2] >= base[c] /\ pc[c] \notin {"idle", "first", "update", "ask"}

\* What c was answered is no older than c, nor is anything still to come.
AnswerIsCurrent ==
    \A c \in Callers :
        pc[c] \in {"store", "offer"} => got[c] >= base[c] /\ AllFrom(base[c])

\* Nor is what its goroutine took, if that was its own answer.
TakenIsCurrent ==
    \A c \in UnderWay :
        ~disturbed[c] /\ waiter[c] \in {"set", "signal", "done"} =>
            taken[c] >= base[c] /\ AllFrom(base[c])

\* From the goroutine's signal until the command reads it, MediaSessionID is no
\* older than the command, whatever the listener stores meanwhile.
StoredIsCurrent ==
    \A c \in Callers :
        ~disturbed[c] /\ (waiter[c] = "signal" \/ pc[c] = "send") =>
            mediaSessionID >= base[c]

IInv ==
    /\ TypeOK
    /\ ActedPerMessage
    /\ AloneUnlessDisturbed
    /\ WaiterMatchesCall
    /\ StreamInOrder
    /\ AnswerIsCurrent
    /\ TakenIsCurrent
    /\ StoredIsCurrent
    /\ CommandIsCurrent

----------------------------------------------------------------------------
(* Types *)

WaiterStates == {"none", "spawned", "receive", "set", "signal", "done"}

TypeInv == TypeOK /\ ActedPerMessage /\ WaiterMatchesCall

LEMMA TypeInit == Init => TypeInv
<1> USE MediaControllerAssumption
<1>1. ASSUME Init PROVE TypeOK
  <2>1. stream \in Seq((Callers \cup {Device}) \X Session) /\ Len(stream) = 0
    BY <1>1 DEF Init
  <2> QED
    <3>1. /\ session \in Session /\ dispatching \in Session /\ mediaSessionID \in Session
          /\ got \in [Callers -> Session] /\ taken \in [Callers -> Session]
          /\ sent \in [Callers -> Session] /\ base \in [Callers -> Session]
      BY <1>1 DEF Init, Session
    <3>2. Len(stream) <= MaxStream
      BY <2>1
    <3>3. acted \in [Callers -> 0 .. 2]
      <4>1. acted = [c \in Callers |-> 0] /\ 0 \in 0 .. 2
        BY <1>1 DEF Init
      <4> QED
        BY <4>1
    <3>4. /\ disturbed \in [Callers -> BOOLEAN] /\ unlucky \in [Callers -> BOOLEAN]
          /\ crashed \in BOOLEAN
      BY <1>1, Zenon DEF Init
    <3>5. /\ pc \in [Callers -> {"idle", "first", "update", "ask", "asked", "store", "offer",
                            "wait", "send", "second", "returned"}]
          /\ waiter \in [Callers -> {"none", "spawned", "receive", "set", "signal", "done"}]
      BY <1>1 DEF Init
    <3> QED
      BY <2>1, <3>1, <3>2, <3>3, <3>4, <3>5 DEF TypeOK
<1>2. Init => ActedPerMessage /\ WaiterMatchesCall
  BY DEF Init, ActedPerMessage, WaiterMatchesCall
<1> QED
  BY <1>1, <1>2 DEF TypeInv

\* What one more message on its way changes.
LEMMA Sent ==
  ASSUME TypeOK, NEW to \in Callers \cup {Device}, Sends(to), session' \in Session
  PROVE  /\ stream' \in Seq((Callers \cup {Device}) \X Session) /\ Len(stream') <= MaxStream
         /\ Len(stream') = Len(stream) + 1 /\ Len(stream) \in Nat
         /\ stream'[Len(stream')] = <<to, session'>>
         /\ \A i \in 1 .. Len(stream) : stream'[i] = stream[i]
<1> DEFINE Messages == (Callers \cup {Device}) \X Session
<1>1. stream \in Seq(Messages) /\ <<to, session'>> \in Messages
  BY DEF TypeOK
<1>2. stream' = Append(stream, <<to, session'>>) /\ Len(stream) < MaxStream
  BY DEF Sends
<1> HIDE DEF Messages
<1>3. /\ stream' \in Seq(Messages) /\ Len(stream') = Len(stream) + 1 /\ Len(stream) \in Nat
      /\ stream'[Len(stream')] = <<to, session'>>
      /\ \A i \in 1 .. Len(stream) : stream'[i] = stream[i]
  BY <1>1, <1>2
<1> QED
  BY <1>2, <1>3, MediaControllerAssumption DEF Messages

LEMMA Received ==
  ASSUME TypeOK, stream # << >>, stream' = Tail(stream)
  PROVE  /\ stream' \in Seq((Callers \cup {Device}) \X Session) /\ Len(stream') <= MaxStream
         /\ Len(stream') = Len(stream) - 1 /\ Len(stream) \in Nat \ {0}
         /\ Head(stream) = stream[1]
         /\ stream[1] \in (Callers \cup {Device}) \X Session
         /\ \A i \in 1 .. Len(stream') : stream'[i] = stream[i + 1]
<1> DEFINE Messages == (Callers \cup {Device}) \X Session
<1>1. stream \in Seq(Messages) /\ Len(stream) <= MaxStream
  BY DEF TypeOK
<1> HIDE DEF Messages
<1>2. /\ stream' \in Seq(Messages) /\ Len(stream') = Len(stream) - 1 /\ Len(stream) \in Nat \ {0}
      /\ Head(stream) = stream[1] /\ stream[1] \in Messages
      /\ \A i \in 1 .. Len(stream') : stream'[i] = stream[i + 1]
  BY <1>1
<1> QED
  BY <1>1, <1>2, MediaControllerAssumption DEF Messages

\* Who is disturbed stays so, and who takes another's status is.
LEMMA Offered ==
  ASSUME TypeOK, NEW status \in Session, NEW own \in Callers \cup {Device}, Offers(status, own)
  PROVE  /\ disturbed' \in [Callers -> BOOLEAN] /\ unlucky' \in [Callers -> BOOLEAN]
         /\ waiter' \in [Callers -> WaiterStates] /\ taken' \in [Callers -> Session]
         /\ \A c \in Callers : disturbed[c] => disturbed'[c]
         /\ \A c \in Callers :
               \/ waiter'[c] = waiter[c] /\ taken'[c] = taken[c]
               \/ /\ waiter[c] = "receive" /\ waiter'[c] = "set"
                  /\ taken'[c] = status
                  /\ c # own => disturbed'[c]
<1> USE DEF Offers, waiterVars
<1>1. unlucky' \in [Callers -> BOOLEAN]
  <2>1. ASSUME unlucky' = [c \in Callers |-> unlucky[c] \/ c = own]
        PROVE  unlucky' \in [Callers -> BOOLEAN]
    BY <2>1, Zenon
  <2>2. ASSUME NEW w, unlucky' = [c \in Callers |-> unlucky[c] \/ (c = own /\ w # own)]
        PROVE  unlucky' \in [Callers -> BOOLEAN]
    BY <2>2, Zenon
  <2> QED
    BY <2>1, <2>2, Zenon
<1>2. CASE UNCHANGED <<waiterVars, disturbed>>
  BY <1>1, <1>2 DEF TypeOK, WaiterStates
<1>3. ASSUME NEW w \in Receivers,
             waiter' = [waiter EXCEPT ![w] = "set"],
             taken' = [taken EXCEPT ![w] = status],
             disturbed' = [disturbed EXCEPT ![w] = @ \/ w # own]
      PROVE  /\ disturbed' \in [Callers -> BOOLEAN]
             /\ \A c \in Callers : disturbed[c] => disturbed'[c]
             /\ w # own => disturbed'[w]
  <2>1. w \in Callers /\ disturbed \in [Callers -> BOOLEAN]
    BY DEF Receivers, TypeOK
  <2> QED
    BY <1>3, <2>1, Zenon
<1>4. ASSUME NEW w \in Receivers,
             waiter' = [waiter EXCEPT ![w] = "set"],
             taken' = [taken EXCEPT ![w] = status]
      PROVE  /\ waiter' \in [Callers -> WaiterStates] /\ taken' \in [Callers -> Session]
             /\ \A c \in Callers \ {w} : waiter'[c] = waiter[c] /\ taken'[c] = taken[c]
             /\ waiter[w] = "receive" /\ waiter'[w] = "set" /\ taken'[w] = status
  BY <1>4 DEF Receivers, TypeOK, WaiterStates
<1>5. CASE UNCHANGED <<waiterVars, disturbed>>
  BY <1>1, <1>2, <1>5
<1>6. CASE ~UNCHANGED <<waiterVars, disturbed>>
  <2>1. PICK w \in Receivers :
          /\ waiter' = [waiter EXCEPT ![w] = "set"]
          /\ taken' = [taken EXCEPT ![w] = status]
          /\ disturbed' = [disturbed EXCEPT ![w] = @ \/ w # own]
    BY <1>6
  <2> QED
    BY <1>1, <1>3, <1>4, <2>1
<1> QED
  BY <1>5, <1>6

LEMMA Begun ==
  ASSUME TypeOK, NEW c \in Callers, Begins(c)
  PROVE  /\ disturbed' \in [Callers -> BOOLEAN]
         /\ \A d \in Callers : disturbed[d] => disturbed'[d]
         /\ \A d \in UnderWay : disturbed'[d] /\ disturbed'[c]
         /\ base' = [base EXCEPT ![c] = session]
<1>1. disturbed' = [d \in Callers |->
          disturbed[d] \/ (UnderWay # {} /\ d \in UnderWay \cup {c})]
  BY DEF Begins
<1>2. disturbed' \in [Callers -> BOOLEAN]
  BY <1>1, Zenon DEF TypeOK
<1>3. \A d \in Callers : disturbed[d] => disturbed'[d]
  BY <1>1, Zenon
<1>4. \A d \in UnderWay : d \in Callers /\ UnderWay # {}
  BY DEF UnderWay
<1>5. \A d \in UnderWay : disturbed'[d] /\ disturbed'[c]
  BY <1>1, <1>4, Zenon
<1> QED
  BY <1>2, <1>3, <1>5 DEF Begins

LEMMA TypeStep == TypeInv /\ [Next]_vars => TypeInv'
<1> SUFFICES ASSUME TypeInv, [Next]_vars PROVE TypeInv'
  OBVIOUS
<1> USE MediaControllerAssumption
<1> USE DEF TypeInv, ActedPerMessage, WaiterMatchesCall, Goes, deviceVars, callVars, waiterVars, history
<1>1. CASE NewMedia
  <2>1. session' \in Session
    BY <1>1 DEF NewMedia, TypeOK, Session
  <2>2. Sends(Device)
    BY <1>1 DEF NewMedia
  <2> QED
    BY <1>1, <2>1, <2>2, Sent DEF NewMedia, TypeOK
<1>2. CASE Dispatch
  <2>1. stream # << >> /\ stream' = Tail(stream)
    BY <1>2 DEF Dispatch
  <2>2. Head(stream)[2] \in Session
    BY <2>1, Received
  <2> QED
    BY <1>2, <2>1, <2>2, Received DEF Dispatch, Stores, TypeOK, Session
<1>3. CASE DispatchOffers
  <2>1. Offers(dispatching, Device) /\ dispatching \in Session
    BY <1>3 DEF DispatchOffers, TypeOK
  <2>3. TypeOK'
    BY <1>3, <2>1, Offered DEF DispatchOffers, TypeOK, WaiterStates, Session
  <2> QED
    BY <1>3, <2>1, <2>3, Offered DEF DispatchOffers
<1>4. ASSUME NEW c \in Callers, CallGetStatus(c) \/ CallCommand(c) PROVE TypeInv'
  BY <1>4, Begun DEF CallGetStatus, CallCommand, TypeOK, Callers
<1>5. ASSUME NEW c \in Callers, FirstMessage(c) \/ SecondMessage(c) PROVE TypeInv'
  <2>1. pc[c] \in {"first", "second"} /\ acted[c] <= 1 /\ (pc[c] = "first" => acted[c] = 0)
    BY <1>5 DEF FirstMessage, SecondMessage
  <2>2. /\ stream' \in Seq((Callers \cup {Device}) \X Session) /\ Len(stream') <= MaxStream
        /\ session' = session
    BY <1>5, Sent DEF FirstMessage, SecondMessage, Message, TypeOK
  <2>3. acted' = acted \/ acted' = [acted EXCEPT ![c] = @ + 1]
    BY <1>5 DEF FirstMessage, SecondMessage, Message
  <2>4. acted' \in [Callers -> 0 .. 2] /\ acted'[c] <= acted[c] + 1 /\ acted[c] \in 0 .. 2
        /\ \A d \in Callers \ {c} : acted'[d] = acted[d]
    BY <2>1, <2>3 DEF TypeOK
  <2> QED
    BY <1>5, <2>1, <2>2, <2>4 DEF FirstMessage, SecondMessage, TypeOK
<1>6. ASSUME NEW c \in Callers, UpdateForNewSession(c) PROVE TypeInv'
  BY <1>6 DEF UpdateForNewSession, TypeOK
<1>7. ASSUME NEW c \in Callers, GetStatus(c) PROVE TypeInv'
  BY <1>7, Sent DEF GetStatus, TypeOK
<1>8. ASSUME NEW c \in Callers, GetStatusFails(c) PROVE TypeInv'
  BY <1>8 DEF GetStatusFails, AfterStatus, TypeOK, Callers
<1>9. ASSUME NEW c \in Callers, StoreAnswer(c) PROVE TypeInv'
  <2>1. got[c] \in Session /\ Stores(got[c])
    BY <1>9 DEF StoreAnswer, TypeOK
  <2>2. mediaSessionID' \in Session /\ crashed' \in BOOLEAN
    BY <2>1 DEF Stores, TypeOK
  <2>3. TypeOK'
    BY <1>9, <2>2 DEF StoreAnswer, TypeOK
  <2> QED
    BY <1>9, <2>3 DEF StoreAnswer, TypeOK
<1>10. ASSUME NEW c \in Callers, OfferAnswer(c) PROVE TypeInv'
  <2>1. Offers(got[c], c) /\ got[c] \in Session
    BY <1>10 DEF OfferAnswer, TypeOK
  <2> QED
    <3>1. TypeOK'
      BY <1>10, <2>1, Offered DEF OfferAnswer, AfterStatus, TypeOK, WaiterStates
    <3>2. c \in Commands \/ AfterStatus(c) = "returned"
      BY DEF AfterStatus
    <3> QED
      BY <1>10, <2>1, <3>1, Offered DEF OfferAnswer, AfterStatus, TypeOK, Callers
<1>11. ASSUME NEW c \in Callers, Resume(c) \/ ReadSession(c) PROVE TypeInv'
  BY <1>11 DEF Resume, ReadSession, TypeOK
<1>12. ASSUME NEW c \in Callers, WaiterReceives(c) \/ WaiterSets(c) PROVE TypeInv'
  BY <1>12 DEF WaiterReceives, WaiterSets, TypeOK
<1>13. CASE UNCHANGED vars
  BY <1>13 DEF vars, TypeOK
<1> QED
  BY <1>1, <1>2, <1>3, <1>4, <1>5, <1>6, <1>7, <1>8, <1>9, <1>10, <1>11, <1>12, <1>13
     DEF Next, Proceed

\* Every variable keeps its type; in particular the device carries a command
\* out at most twice, once per message.
THEOREM MediaControllerTyped == Spec => []TypeOK
<1>1. TypeInv => TypeOK
  BY DEF TypeInv
<1> QED
  BY <1>1, TypeInit, TypeStep, PTL DEF Spec

----------------------------------------------------------------------------
(* The second message is for a current session *)

\* No step gives a call its innocence back, and only a beginning sets a base.
LEMMA StepHistory ==
  ASSUME TypeOK, [Next]_vars
  PROVE  /\ \A c \in Callers : disturbed[c] => disturbed'[c]
         /\ base' = base \/ \E c \in Callers : CallGetStatus(c) \/ CallCommand(c)
         /\ session' \in Session /\ session' >= session
<1> USE DEF Goes, deviceVars, callVars, waiterVars, history
<1>1. session \in Session /\ MaxSession \in Nat /\ \A c \in Callers : got[c] \in Session
  BY MediaControllerAssumption DEF TypeOK
<1>2. CASE NewMedia
  BY <1>1, <1>2 DEF NewMedia, Session
<1>3. CASE Dispatch
  BY <1>1, <1>3 DEF Dispatch, Session
<1>4. CASE DispatchOffers
  BY <1>1, <1>4, Offered DEF DispatchOffers, Session, TypeOK
<1>5. ASSUME NEW c \in Callers, CallGetStatus(c) \/ CallCommand(c)
      PROVE  /\ \A d \in Callers : disturbed[d] => disturbed'[d]
             /\ session' = session
  BY <1>5, Begun DEF CallGetStatus, CallCommand
<1>6. ASSUME NEW c \in Callers, Proceed(c)
      PROVE  /\ \A d \in Callers : disturbed[d] => disturbed'[d]
             /\ base' = base /\ session' = session
  <2>1. CASE OfferAnswer(c)
    BY <1>1, <2>1, Offered DEF OfferAnswer
  <2>2. CASE ~OfferAnswer(c)
    BY <1>6, <2>2 DEF Proceed, FirstMessage, UpdateForNewSession, GetStatus, GetStatusFails,
         StoreAnswer, Resume, ReadSession, SecondMessage, WaiterReceives, WaiterSets, Message
  <2> QED
    BY <2>1, <2>2
<1>7. CASE UNCHANGED vars
  BY <1>1, <1>7 DEF vars, Session
<1> QED
  BY <1>1, <1>2, <1>3, <1>4, <1>5, <1>6, <1>7 DEF Next, Session

LEMMA AloneStep == TypeOK /\ AloneUnlessDisturbed /\ [Next]_vars => AloneUnlessDisturbed'
<1> SUFFICES ASSUME TypeOK, AloneUnlessDisturbed, [Next]_vars PROVE AloneUnlessDisturbed'
  OBVIOUS
<1>1. \A c \in Callers : disturbed[c] => disturbed'[c]
  BY StepHistory
<1>2. ASSUME UnderWay' \subseteq UnderWay PROVE AloneUnlessDisturbed'
  BY <1>1, <1>2 DEF AloneUnlessDisturbed, UnderWay
<1>3. ASSUME NEW c \in Callers, CallGetStatus(c) \/ CallCommand(c) PROVE AloneUnlessDisturbed'
  <2>1. UnderWay' \subseteq UnderWay \cup {c}
    BY <1>3 DEF CallGetStatus, CallCommand, Goes, UnderWay, TypeOK
  <2>2. \A d \in UnderWay : disturbed'[d] /\ disturbed'[c]
    BY <1>3, Begun DEF CallGetStatus, CallCommand
  <2> QED
    BY <1>1, <2>1, <2>2 DEF AloneUnlessDisturbed
<1>4. CASE NewMedia \/ Dispatch \/ DispatchOffers \/ UNCHANGED vars
  BY <1>2, <1>4 DEF NewMedia, Dispatch, DispatchOffers, vars, callVars, UnderWay, TypeOK
<1>5. ASSUME NEW c \in Callers, Proceed(c) PROVE AloneUnlessDisturbed'
  BY <1>2, <1>5 DEF Proceed, FirstMessage, UpdateForNewSession, GetStatus, GetStatusFails,
       StoreAnswer, OfferAnswer, Resume, ReadSession, SecondMessage, WaiterReceives,
       WaiterSets, Goes, callVars, UnderWay, TypeOK
<1> QED
  BY <1>3, <1>4, <1>5 DEF Next

\* A call does not go back before its GetStatus.
Early == {"idle", "first", "update", "ask"}

LEMMA StepEarly ==
  ASSUME TypeOK, [Next]_vars
  PROVE  \A c \in Callers : pc'[c] \in Early => pc[c] \in Early
<1> USE DEF Goes, callVars, Early, TypeOK
<1>1. ASSUME NEW d \in Callers, CallGetStatus(d) \/ CallCommand(d) \/ Proceed(d)
      PROVE  \A c \in Callers : pc'[c] \in Early => pc[c] \in Early
  BY <1>1 DEF CallGetStatus, CallCommand, Proceed, FirstMessage, UpdateForNewSession, GetStatus,
       GetStatusFails, StoreAnswer, OfferAnswer, Resume, ReadSession, SecondMessage,
       WaiterReceives, WaiterSets, AfterStatus
<1>2. CASE NewMedia \/ Dispatch \/ DispatchOffers \/ UNCHANGED vars
  BY <1>2 DEF NewMedia, Dispatch, DispatchOffers, vars
<1> QED
  BY <1>1, <1>2 DEF Next

\* What a step does to the stream: nothing, a message more, or one less.
LEMMA StepStream ==
  ASSUME TypeOK, [Next]_vars
  PROVE  \/ UNCHANGED stream
         \/ Sends(Device) /\ UNCHANGED base
         \/ UNCHANGED base /\ \E c \in Callers : Sends(c) /\ pc'[c] \notin Early
         \/ UNCHANGED base /\ stream # << >> /\ stream' = Tail(stream)
<1> USE DEF Goes, deviceVars, callVars, TypeOK
<1>1. ASSUME NEW c \in Callers, GetStatus(c)
      PROVE  UNCHANGED base /\ pc'[c] \notin Early /\ (Sends(c) \/ UNCHANGED stream)
  BY <1>1 DEF GetStatus, Early
<1>2. ASSUME NEW c \in Callers, FirstMessage(c) \/ SecondMessage(c)
      PROVE  UNCHANGED base /\ (Sends(Device) \/ UNCHANGED stream)
  BY <1>2 DEF FirstMessage, SecondMessage, Message
<1>3. ASSUME NEW c \in Callers, CallGetStatus(c) \/ CallCommand(c) \/ Proceed(c),
             ~GetStatus(c), ~FirstMessage(c), ~SecondMessage(c)
      PROVE  UNCHANGED stream
  BY <1>3 DEF CallGetStatus, CallCommand, Proceed, UpdateForNewSession, GetStatusFails,
       StoreAnswer, OfferAnswer, Resume, ReadSession, WaiterReceives, WaiterSets
<1>4. CASE NewMedia \/ Dispatch \/ DispatchOffers \/ UNCHANGED vars
  BY <1>4 DEF NewMedia, Dispatch, DispatchOffers, vars
<1> QED
  BY <1>1, <1>2, <1>3, <1>4 DEF Next, Proceed

LEMMA StreamStep == TypeOK /\ StreamInOrder /\ [Next]_vars => StreamInOrder'
<1> SUFFICES ASSUME TypeOK, StreamInOrder, [Next]_vars PROVE StreamInOrder'
  OBVIOUS
<1> DEFINE InOrder == \A i, j \in 1 .. Len(stream) : i < j => stream[i][2] <= stream[j][2]
           FromNow == \A i \in 1 .. Len(stream) : stream[i][2] <= session
           BasesPast == \A c \in Callers : base[c] <= session
           Answering == \A i \in 1 .. Len(stream) : \A c \in Callers :
               stream[i][1] = c => stream[i][2] >= base[c] /\ pc[c] \notin Early
<1>1. InOrder /\ FromNow /\ BasesPast /\ Answering
  BY DEF StreamInOrder, Early
<1>2. /\ session' \in Session /\ session \in Session /\ session' >= session
      /\ \A c \in Callers : base[c] \in Session
      /\ \A s \in Session : s \in Int
      /\ Len(stream) \in Nat
      /\ \A i \in 1 .. Len(stream) : stream[i] \in (Callers \cup {Device}) \X Session
      /\ Device \notin Callers
  BY StepHistory, MediaControllerAssumption DEF TypeOK, Session
<1>3. \A c \in Callers : pc'[c] \in Early => pc[c] \in Early
  BY StepEarly
<1>4. \/ base' = base
      \/ \E c \in Callers : /\ base' = [base EXCEPT ![c] = session] /\ pc[c] = "idle"
                          /\ UNCHANGED stream
  <2>1. ASSUME NEW c \in Callers, CallGetStatus(c) \/ CallCommand(c)
        PROVE  /\ base' = [base EXCEPT ![c] = session] /\ pc[c] = "idle"
               /\ UNCHANGED stream
    BY <2>1 DEF CallGetStatus, CallCommand, Begins, Goes, deviceVars
  <2> QED
    BY <2>1, StepHistory
<1>5. BasesPast'
  <2>1. \A c \in Callers : base'[c] = base[c] \/ base'[c] = session
    BY <1>4 DEF TypeOK
  <2> QED
    BY <1>1, <1>2, <2>1
<1>6. CASE UNCHANGED stream
  <2>1. InOrder' /\ FromNow'
    BY <1>1, <1>2, <1>6
  <2>2. Answering'
    BY <1>1, <1>2, <1>3, <1>4, <1>6 DEF TypeOK, Early
  <2> QED
    BY <1>5, <2>1, <2>2 DEF StreamInOrder, Early
<1>7. ASSUME NEW to \in Callers \cup {Device}, Sends(to), UNCHANGED base,
             to = Device \/ pc'[to] \notin Early
      PROVE  StreamInOrder'
  <2>1. /\ Len(stream') = Len(stream) + 1
        /\ stream'[Len(stream')] = <<to, session'>>
        /\ \A i \in 1 .. Len(stream) : stream'[i] = stream[i]
    BY <1>2, <1>7, Sent
  <2>2. \A i \in 1 .. Len(stream) : stream[i][2] \in Int /\ stream[i][2] <= session'
    BY <1>1, <1>2
  <2>3. stream'[Len(stream')][2] = session'
    BY <2>1
  <2>4. FromNow'
    BY <1>2, <2>1, <2>2, <2>3
  <2>5. ASSUME NEW i \in 1 .. Len(stream'), NEW j \in 1 .. Len(stream'), i < j
        PROVE  stream'[i][2] <= stream'[j][2]
    <3>1. i \in 1 .. Len(stream) /\ stream'[i] = stream[i]
      BY <1>2, <2>1, <2>5
    <3>2. CASE j = Len(stream')
      BY <2>2, <2>3, <3>1, <3>2
    <3>3. CASE j \in 1 .. Len(stream)
      BY <1>1, <2>1, <2>5, <3>1, <3>3
    <3> QED
      BY <1>2, <2>1, <3>2, <3>3
  <2>6. ASSUME NEW i \in 1 .. Len(stream'), NEW c \in Callers, stream'[i][1] = c
        PROVE  stream'[i][2] >= base'[c] /\ pc'[c] \notin Early
    <3>1. CASE i = Len(stream')
      BY <1>2, <1>5, <1>7, <2>1, <2>6, <3>1
    <3>2. CASE i \in 1 .. Len(stream)
      BY <1>1, <1>3, <1>7, <2>1, <2>6, <3>2
    <3> QED
      BY <1>2, <2>1, <3>1, <3>2
  <2> QED
    BY <1>5, <2>4, <2>5, <2>6 DEF StreamInOrder, Early
<1>8. CASE UNCHANGED base /\ stream # << >> /\ stream' = Tail(stream)
  <2>1. /\ Len(stream') = Len(stream) - 1
        /\ \A i \in 1 .. Len(stream') : stream'[i] = stream[i + 1]
    BY <1>8, Received
  <2>2. \A i \in 1 .. Len(stream') : i + 1 \in 1 .. Len(stream)
    BY <1>2, <2>1
  <2>3. ASSUME NEW i \in 1 .. Len(stream')
        PROVE  /\ stream'[i][2] <= session'
               /\ \A c \in Callers : stream'[i][1] = c =>
                      stream'[i][2] >= base'[c] /\ pc'[c] \notin Early
    <3>1. stream'[i] = stream[i + 1] /\ stream[i + 1][2] \in Int /\ stream[i + 1][2] <= session
      BY <1>1, <1>2, <2>1, <2>2
    <3> QED
      BY <1>1, <1>2, <1>3, <1>8, <2>2, <3>1
  <2>4. ASSUME NEW i \in 1 .. Len(stream'), NEW j \in 1 .. Len(stream'), i < j
        PROVE  stream'[i][2] <= stream'[j][2]
    BY <1>1, <2>1, <2>2, <2>4
  <2> QED
    BY <1>5, <2>3, <2>4 DEF StreamInOrder, Early
<1> QED
  BY <1>6, <1>7, <1>8, StepStream

\* A bound from below on what is on its way stays one.
LEMMA StepAllFrom ==
  ASSUME TypeOK, [Next]_vars, NEW s \in Session, s <= session, AllFrom(s)
  PROVE  AllFrom(s)'
<1>1. /\ session' \in Session /\ session \in Session /\ session' >= session
      /\ \A x \in Session : x \in Int
      /\ Len(stream) \in Nat
      /\ \A i \in 1 .. Len(stream) : stream[i] \in (Callers \cup {Device}) \X Session
  BY StepHistory, MediaControllerAssumption DEF TypeOK, Session
<1>2. ASSUME NEW to \in Callers \cup {Device}, Sends(to) PROVE AllFrom(s)'
  <2>1. /\ Len(stream') = Len(stream) + 1
        /\ stream'[Len(stream')] = <<to, session'>>
        /\ \A i \in 1 .. Len(stream) : stream'[i] = stream[i]
    BY <1>1, <1>2, Sent
  <2>2. stream'[Len(stream')][2] >= s
    BY <1>1, <2>1
  <2>3. \A i \in 1 .. Len(stream) : stream'[i][2] >= s
    BY <2>1 DEF AllFrom
  <2> QED
    BY <1>1, <2>1, <2>2, <2>3 DEF AllFrom
<1>3. CASE stream # << >> /\ stream' = Tail(stream)
  <2>1. /\ Len(stream') = Len(stream) - 1
        /\ \A i \in 1 .. Len(stream') : stream'[i] = stream[i + 1]
    BY <1>3, Received
  <2>2. \A i \in 1 .. Len(stream') : i + 1 \in 1 .. Len(stream)
    BY <1>1, <2>1
  <2> QED
    BY <2>1, <2>2 DEF AllFrom
<1>4. CASE UNCHANGED stream
  BY <1>4 DEF AllFrom
<1> QED
  BY <1>2, <1>3, <1>4, StepStream

\* A call that has begun keeps its base.
LEMMA BaseKept ==
  ASSUME TypeOK, [Next]_vars, NEW c \in Callers, pc'[c] \notin {"ask", "first"} \/ pc[c] # "idle"
  PROVE  base'[c] = base[c]
<1>1. ASSUME NEW d \in Callers, CallGetStatus(d) \/ CallCommand(d) PROVE base'[c] = base[c]
  BY <1>1 DEF CallGetStatus, CallCommand, Begins, Goes, TypeOK
<1> QED
  BY <1>1, StepHistory

\* The dispatcher hands c its own answer.
Answers(c) ==
    /\ stream # << >> /\ stream' = Tail(stream)
    /\ Head(stream)[1] = c
    /\ got'[c] = Head(stream)[2]

LEMMA StepAnswer ==
  ASSUME TypeOK, [Next]_vars, NEW c \in Callers, pc'[c] \in {"store", "offer"}
  PROVE  (pc[c] \in {"store", "offer"} /\ got'[c] = got[c]) \/ Answers(c)
<1> USE DEF Goes, callVars, TypeOK
<1>1. CASE Dispatch
  BY <1>1 DEF Dispatch, Answers
<1>2. ASSUME NEW d \in Callers, CallGetStatus(d) \/ CallCommand(d) \/ Proceed(d)
      PROVE  pc[c] \in {"store", "offer"} /\ got'[c] = got[c]
  BY <1>2 DEF CallGetStatus, CallCommand, Proceed, FirstMessage, UpdateForNewSession, GetStatus,
       GetStatusFails, StoreAnswer, OfferAnswer, Resume, ReadSession, SecondMessage,
       WaiterReceives, WaiterSets, AfterStatus
<1>3. CASE NewMedia \/ DispatchOffers \/ UNCHANGED vars
  BY <1>3 DEF NewMedia, DispatchOffers, vars
<1> QED
  BY <1>1, <1>2, <1>3 DEF Next

LEMMA AnswerStep ==
  TypeOK /\ StreamInOrder /\ AnswerIsCurrent /\ [Next]_vars => AnswerIsCurrent'
<1> SUFFICES ASSUME TypeOK, StreamInOrder, AnswerIsCurrent, [Next]_vars,
                    NEW c \in Callers, pc'[c] \in {"store", "offer"}
             PROVE  got'[c] >= base'[c] /\ AllFrom(base[c])'
  BY DEF AnswerIsCurrent
<1>1. base'[c] = base[c] /\ base[c] \in Session /\ base[c] <= session
  BY BaseKept DEF TypeOK, StreamInOrder
<1>2. CASE pc[c] \in {"store", "offer"} /\ got'[c] = got[c]
  <2>1. got[c] >= base[c] /\ AllFrom(base[c])
    BY <1>2 DEF AnswerIsCurrent
  <2>2. AllFrom(base[c])'
    BY <1>1, <2>1, StepAllFrom DEF AllFrom
  <2> QED
    BY <1>1, <1>2, <2>1, <2>2
<1>3. CASE Answers(c)
  <2>1. /\ Len(stream) \in Nat \ {0} /\ stream[1][1] = c /\ got'[c] = stream[1][2]
        /\ \A i \in 1 .. Len(stream) : stream[i][2] \in Session
    BY <1>3, Received DEF Answers, TypeOK
  <2>2. stream[1][2] >= base[c] /\ \A i \in 1 .. Len(stream) : 1 < i => stream[1][2] <= stream[i][2]
    BY <2>1 DEF StreamInOrder
  <2>3. base[c] \in Int /\ \A s \in Session : s \in Int
    BY <1>1, MediaControllerAssumption DEF Session
  <2>4. AllFrom(base[c])
    BY <2>1, <2>2, <2>3 DEF AllFrom
  <2>5. AllFrom(base[c])'
    BY <1>1, <2>4, StepAllFrom DEF AllFrom
  <2> QED
    BY <1>1, <2>1, <2>2, <2>5
<1> QED
  BY <1>2, <1>3, StepAnswer

LEMMA StepTaken ==
  ASSUME TypeOK, [Next]_vars, NEW c \in Callers, waiter'[c] \in {"set", "signal", "done"}
  PROVE  \/ waiter[c] \in {"set", "signal", "done"} /\ taken'[c] = taken[c]
         \/ disturbed'[c]
         \/ OfferAnswer(c) /\ taken'[c] = got[c]
<1> USE DEF Goes, waiterVars
<1>1. CASE DispatchOffers
  <2>1. dispatching \in Session /\ Offers(dispatching, Device) /\ c # Device
    BY <1>1, MediaControllerAssumption DEF DispatchOffers, TypeOK
  <2> QED
    BY <2>1, Offered
<1>2. ASSUME NEW d \in Callers, OfferAnswer(d)
      PROVE  \/ waiter[c] \in {"set", "signal", "done"} /\ taken'[c] = taken[c]
             \/ disturbed'[c]
             \/ OfferAnswer(c) /\ taken'[c] = got[c]
  <2>1. got[d] \in Session /\ Offers(got[d], d)
    BY <1>2 DEF OfferAnswer, TypeOK
  <2> QED
    BY <1>2, <2>1, Offered
<1>3. ASSUME NEW d \in Callers, CallGetStatus(d) \/ CallCommand(d) \/ Proceed(d), ~OfferAnswer(d)
      PROVE  waiter[c] \in {"set", "signal", "done"} /\ taken'[c] = taken[c]
  BY <1>3 DEF CallGetStatus, CallCommand, Proceed, FirstMessage, UpdateForNewSession, GetStatus,
       GetStatusFails, StoreAnswer, Resume, ReadSession, SecondMessage, WaiterReceives, WaiterSets,
       TypeOK
<1>4. CASE NewMedia \/ Dispatch \/ UNCHANGED vars
  BY <1>4 DEF NewMedia, Dispatch, vars
<1> QED
  BY <1>1, <1>2, <1>3, <1>4 DEF Next

\* A call under way after a step that did not begin it was under way before.
LEMMA StepUnderWay ==
  ASSUME TypeOK, [Next]_vars, NEW c \in UnderWay', pc'[c] \notin {"ask", "first"} \/ pc[c] # "idle"
  PROVE  c \in UnderWay
<1> USE DEF Goes, callVars, UnderWay, TypeOK
<1>1. ASSUME NEW d \in Callers, CallGetStatus(d) \/ CallCommand(d) \/ Proceed(d)
      PROVE  c \in UnderWay
  BY <1>1 DEF CallGetStatus, CallCommand, Proceed, FirstMessage, UpdateForNewSession, GetStatus,
       GetStatusFails, StoreAnswer, OfferAnswer, Resume, ReadSession, SecondMessage,
       WaiterReceives, WaiterSets
<1>2. CASE NewMedia \/ Dispatch \/ DispatchOffers \/ UNCHANGED vars
  BY <1>2 DEF NewMedia, Dispatch, DispatchOffers, vars
<1> QED
  BY <1>1, <1>2 DEF Next

LEMMA TakenStep ==
  TypeInv /\ StreamInOrder /\ AnswerIsCurrent /\ TakenIsCurrent /\ [Next]_vars => TakenIsCurrent'
<1> SUFFICES ASSUME TypeInv, StreamInOrder, AnswerIsCurrent, TakenIsCurrent, [Next]_vars,
                    NEW c \in UnderWay', ~disturbed'[c], waiter'[c] \in {"set", "signal", "done"}
             PROVE  taken'[c] >= base'[c] /\ AllFrom(base[c])'
  BY DEF TakenIsCurrent
<1>1. TypeOK /\ c \in Callers /\ ~disturbed[c]
  BY StepHistory DEF TypeInv, UnderWay
<1>2. waiter[c] # "none"
  BY <1>1, StepTaken DEF OfferAnswer, Offers, TypeInv, waiterVars, TypeOK, Receivers
<1>3. pc[c] # "idle"
  BY <1>1, <1>2 DEF TypeInv, WaiterMatchesCall
<1>4. c \in UnderWay /\ base'[c] = base[c] /\ base[c] \in Session /\ base[c] <= session
  BY <1>1, <1>3, StepUnderWay, BaseKept DEF TypeOK, StreamInOrder
<1>5. CASE waiter[c] \in {"set", "signal", "done"} /\ taken'[c] = taken[c]
  <2>1. taken[c] >= base[c] /\ AllFrom(base[c])
    BY <1>1, <1>4, <1>5 DEF TakenIsCurrent
  <2>2. AllFrom(base[c])'
    BY <1>1, <1>4, <2>1, StepAllFrom DEF AllFrom
  <2> QED
    BY <1>4, <1>5, <2>1, <2>2
<1>6. CASE OfferAnswer(c) /\ taken'[c] = got[c]
  <2>1. got[c] >= base[c] /\ AllFrom(base[c])
    BY <1>1, <1>6 DEF OfferAnswer, Goes, AnswerIsCurrent
  <2>2. AllFrom(base[c])'
    BY <1>1, <1>4, <2>1, StepAllFrom DEF AllFrom
  <2> QED
    BY <1>4, <1>6, <2>1, <2>2
<1> QED
  BY <1>1, <1>5, <1>6, StepTaken

\* An undisturbed call whose goroutine has signalled meets no other's.
LEMMA StoredAlone ==
  ASSUME TypeInv, AloneUnlessDisturbed, NEW c \in Callers, ~disturbed[c],
         waiter[c] = "signal" \/ pc[c] = "send",
         NEW d \in Callers, pc[d] = "store" \/ waiter[d] = "set"
  PROVE  d = c
<1>1. c \in UnderWay /\ d \in UnderWay
  BY DEF TypeInv, TypeOK, WaiterMatchesCall, UnderWay
<1> QED
  BY <1>1 DEF AloneUnlessDisturbed

\* What a step stores is of a session on its way, or of c's own call.
LEMMA StoredStep ==
  /\ TypeInv /\ AloneUnlessDisturbed /\ AnswerIsCurrent /\ TakenIsCurrent /\ StoredIsCurrent
  /\ [Next]_vars
  => StoredIsCurrent'
<1> SUFFICES ASSUME TypeInv, AloneUnlessDisturbed, AnswerIsCurrent, TakenIsCurrent,
                    StoredIsCurrent, [Next]_vars,
                    NEW c \in Callers, ~disturbed'[c], waiter'[c] = "signal" \/ pc'[c] = "send"
             PROVE  mediaSessionID' >= base'[c]
  BY DEF StoredIsCurrent
<1> DEFINE Signalled == waiter[c] = "signal" \/ pc[c] = "send"
<1> USE DEF Goes, deviceVars, callVars, waiterVars, history
<1>1. TypeOK /\ ~disturbed[c]
  BY StepHistory DEF TypeInv
<1>2. ASSUME Signalled PROVE mediaSessionID >= base[c] /\ c \in UnderWay
  BY <1>1, <1>2 DEF StoredIsCurrent, TypeInv, TypeOK, WaiterMatchesCall, UnderWay
<1>3. Signalled => base'[c] = base[c]
  BY <1>1, <1>2, BaseKept DEF UnderWay
<1>4. ASSUME NEW d \in Callers, WaiterSets(d) PROVE mediaSessionID' >= base'[c]
  <2>1. CASE d = c
    <3>1. waiter[c] = "set" /\ pc' = pc /\ base' = base /\ mediaSessionID' = taken[c]
      BY <1>4, <2>1 DEF WaiterSets
    <3>2. c \in UnderWay
      BY <1>1, <3>1 DEF TypeInv, TypeOK, WaiterMatchesCall, UnderWay
    <3> QED
      BY <1>1, <3>1, <3>2 DEF TakenIsCurrent
  <2>2. CASE d # c
    <3>1. Signalled /\ waiter[d] = "set"
      BY <1>1, <1>4, <2>2 DEF WaiterSets, TypeOK
    <3> QED
      BY <1>1, <2>2, <3>1, StoredAlone
  <2> QED
    BY <2>1, <2>2
<1>5. ASSUME NEW d \in Callers, StoreAnswer(d) PROVE mediaSessionID' >= base'[c]
  <2>1. Signalled /\ pc[d] = "store" /\ base' = base
        /\ mediaSessionID' \in {mediaSessionID, got[d]}
    BY <1>1, <1>5 DEF StoreAnswer, Stores, TypeOK
  <2>2. d = c
    BY <1>1, <2>1, StoredAlone
  <2> QED
    BY <1>2, <2>1, <2>2 DEF AnswerIsCurrent
<1>6. CASE Dispatch
  <2>1. /\ Signalled /\ base' = base
        /\ stream # << >> /\ stream' = Tail(stream)
        /\ mediaSessionID' \in {mediaSessionID, Head(stream)[2]}
    BY <1>1, <1>6 DEF Dispatch, Stores, TypeOK
  <2>2. Head(stream) = stream[1] /\ 1 \in 1 .. Len(stream)
    BY <1>1, <2>1, Received
  <2>3. AllFrom(base[c])
    BY <1>1, <1>2, <2>1 DEF TakenIsCurrent, TypeInv, WaiterMatchesCall
  <2> QED
    BY <1>2, <2>1, <2>2, <2>3 DEF AllFrom
<1>7. ASSUME NEW d \in Callers, OfferAnswer(d) PROVE Signalled /\ UNCHANGED mediaSessionID
  <2>1. got[d] \in Session /\ Offers(got[d], d)
    BY <1>1, <1>7 DEF OfferAnswer, TypeOK
  <2> QED
    BY <1>1, <1>7, <2>1, Offered DEF OfferAnswer, AfterStatus, TypeOK
<1>8. CASE DispatchOffers
  <2>1. dispatching \in Session /\ Offers(dispatching, Device)
    BY <1>1, <1>8 DEF DispatchOffers, TypeOK
  <2>2. Signalled /\ UNCHANGED mediaSessionID
    BY <1>1, <1>8, <2>1, Offered DEF DispatchOffers, TypeOK
  <2> QED
    BY <1>2, <1>3, <2>2
<1>9. ASSUME NEW d \in Callers, CallGetStatus(d) \/ CallCommand(d) \/ Proceed(d),
             ~WaiterSets(d), ~StoreAnswer(d), ~OfferAnswer(d)
      PROVE  Signalled /\ UNCHANGED mediaSessionID
  BY <1>1, <1>9 DEF CallGetStatus, CallCommand, Proceed, FirstMessage, UpdateForNewSession,
       GetStatus, GetStatusFails, Resume, ReadSession, SecondMessage, WaiterReceives, AfterStatus,
       TypeOK
<1>10. CASE NewMedia \/ UNCHANGED vars
  <2>1. Signalled /\ UNCHANGED mediaSessionID
    BY <1>1, <1>10 DEF NewMedia, vars
  <2> QED
    BY <1>2, <1>3, <2>1
<1> QED
  BY <1>2, <1>3, <1>4, <1>5, <1>6, <1>7, <1>8, <1>9, <1>10 DEF Next, Proceed

LEMMA CommandStep ==
  TypeInv /\ StoredIsCurrent /\ CommandIsCurrent /\ [Next]_vars => CommandIsCurrent'
<1> SUFFICES ASSUME TypeInv, StoredIsCurrent, CommandIsCurrent, [Next]_vars,
                    NEW c \in Commands, pc'[c] \in {"second", "returned"}, ~disturbed'[c]
             PROVE  sent'[c] >= base'[c]
  BY DEF CommandIsCurrent
<1> USE DEF Goes, callVars
<1>1. TypeOK /\ c \in Callers /\ ~disturbed[c]
  BY StepHistory DEF TypeInv, Callers
<1>2. base'[c] = base[c]
  BY <1>1, BaseKept
<1>3. CASE ReadSession(c)
  <2>1. pc[c] = "send" /\ sent'[c] = mediaSessionID
    BY <1>1, <1>3 DEF ReadSession, TypeOK
  <2> QED
    BY <1>1, <1>2, <2>1 DEF StoredIsCurrent
<1>4. CASE pc[c] \in {"second", "returned"} /\ sent'[c] = sent[c]
  BY <1>1, <1>2, <1>4 DEF CommandIsCurrent
<1>5. ASSUME NEW d \in Callers, CallGetStatus(d) \/ CallCommand(d) \/ Proceed(d), ~ReadSession(c)
      PROVE  pc[c] \in {"second", "returned"} /\ sent'[c] = sent[c]
  BY <1>1, <1>5 DEF CallGetStatus, CallCommand, Proceed, FirstMessage, UpdateForNewSession,
       GetStatus, GetStatusFails, StoreAnswer, OfferAnswer, Resume, ReadSession, SecondMessage,
       WaiterReceives, WaiterSets, AfterStatus, TypeOK
<1>6. CASE NewMedia \/ Dispatch \/ DispatchOffers \/ UNCHANGED vars
  <2>1. pc[c] \in {"second", "returned"} /\ sent'[c] = sent[c]
    BY <1>1, <1>6 DEF NewMedia, Dispatch, DispatchOffers, vars, TypeOK
  <2> QED
    BY <1>4, <2>1
<1> QED
  BY <1>3, <1>4, <1>5, <1>6 DEF Next

LEMMA InvInit == Init => IInv
<1> SUFFICES ASSUME Init PROVE IInv
  OBVIOUS
<1>1. TypeInv
  BY TypeInit
<1>2. UnderWay = {}
  BY DEF Init, UnderWay
<1>3. stream = << >> /\ Len(stream) = 0 /\ session \in Session
      /\ \A c \in Callers : pc[c] = "idle" /\ waiter[c] = "none" /\ base[c] = 0
  BY DEF Init
<1>4. StreamInOrder
  BY <1>3, MediaControllerAssumption DEF StreamInOrder, Session
<1>5. AloneUnlessDisturbed /\ TakenIsCurrent
  BY <1>2 DEF AloneUnlessDisturbed, TakenIsCurrent
<1>6. AnswerIsCurrent /\ StoredIsCurrent /\ CommandIsCurrent
  BY <1>3 DEF AnswerIsCurrent, StoredIsCurrent, CommandIsCurrent, Callers
<1> QED
  BY <1>1, <1>4, <1>5, <1>6 DEF IInv, TypeInv

\* The inductive invariant: calls under way at once are disturbed, the stream is
\* in order, and every copy of a status that an undisturbed call can come to use
\* is no older than the call.
THEOREM MediaControllerInvariant == Spec => []IInv
<1>1. IInv /\ [Next]_vars => IInv'
  BY TypeStep, AloneStep, StreamStep, AnswerStep, TakenStep, StoredStep, CommandStep
     DEF IInv, TypeInv
<1> QED
  BY <1>1, InvInit, PTL DEF Spec

\* Play, Pause, Stop, Next and Previous: the second message of a command that
\* met no other call is for the session the device played when it began, or a
\* later one.
THEOREM SecondMessageIsCurrent == Spec => []CommandIsCurrent
<1>1. IInv => CommandIsCurrent
  BY DEF IInv
<1> QED
  BY <1>1, MediaControllerInvariant, PTL

==============================================================================
