---------------------------- MODULE ClientProofs ----------------------------
(***************************************************************************)
(* The two layers of a Client, for every set of callers and channels and   *)
(* every number of requests.  Channel: types hold whoever shares a payload;*)
(* the rest holds until two calls under way at once have written their     *)
(* numbers to one, which GetStatus of the MediaController can do.          *)
(* PacketStream: only overlapping writes break the framing of the outward  *)
(* stream, for any number of writers and whatever fails; inward, for any   *)
(* device stream made of frames, the dispatcher receives its messages whole*)
(* and in order.                                                           *)
(***************************************************************************)
EXTENDS Channel, PacketStream, TLAPS

----------------------------------------------------------------------------
(* Channel *)

\* A call under way holds the number it took, in its payload too, and its
\* request is the pending one.
CallsHoldNumbers ==
    \A c \in Callers : Pending(c) =>
        /\ Number(c) < counter[Chan(c)]
        /\ payloadID[payload[c]] = Number(c)
        /\ fate[Chan(c)][Number(c)] = "pending"

\* No two calls under way are the same request, or passed the same payload.
CallsDistinct ==
    \A c, d \in Callers :
        Pending(c) /\ Pending(d) /\ (call[c] = call[d] \/ payload[c] = payload[d]) => c = d

\* Numbers not yet given out are unused; a pending request has its caller.
FatesMatchCalls ==
    \A ch \in Channels, n \in Numbers :
        /\ n >= counter[ch] => fate[ch][n] = "unused"
        /\ fate[ch][n] = "pending" =>
             \E c \in Callers : Pending(c) /\ call[c] = [chan |-> ch, number |-> n]
        /\ fate[ch][n] # "crossed"

\* The table files a request under its own number.
TableHoldsCalls ==
    \A ch \in Channels, id \in Numbers :
        /\ inFlight[ch][id] \in {Nobody, id}
        /\ inFlight[ch][id] # Nobody =>
             \/ fate[ch][id] = "pending"
             \/ dpc = "delete" /\ msg.chan = ch /\ msg.id = id

\* The device knows a request by its number; it knows those, and only those,
\* whose call got past the write.
SentMatchesCalls ==
    /\ \A m \in sent :
         /\ m.id = m.number
         /\ fate[m.chan][m.number] \in {"pending", "answered", "timedOut"}
    /\ \A c \in Callers, m \in sent :
         pc[c] \in {"numbered", "registered", "failed"} =>
             ~(m.chan = Chan(c) /\ m.number = Number(c))
    /\ \A c \in Callers :
         pc[c] \in {"waiting", "expired"} =>
             [chan |-> Chan(c), id |-> Number(c), number |-> Number(c)] \in sent

\* The dispatcher works on an answer to a request the device received, and
\* offers it to a caller that has not got one.
DispatcherHoldsAnswer ==
    /\ dpc \in {"lookup", "offer", "delete"} => msg \in sent
    /\ dpc \in {"offer", "delete"} => listener = msg.number
    /\ dpc = "offer" => fate[msg.chan][msg.number] \in {"pending", "timedOut"}

InOrder ==
    /\ CallsHoldNumbers
    /\ CallsDistinct
    /\ FatesMatchCalls
    /\ TableHoldsCalls
    /\ SentMatchesCalls
    /\ DispatcherHoldsAnswer

IInv == TypeOK /\ (~shared => InOrder)

USE DEF Numbers, Nobody, Message

----------------------------------------------------------------------------
(* Types, whoever shares a payload *)

LEMMA AnyChannelIsChannel == AnyChannel \in Channels
  BY ChannelAssumption DEF AnyChannel

\* What a call passes, and when it is the only one to do so.
LEMMA PassesOne ==
  ASSUME TypeOK, NEW c \in Callers, NEW ch \in Channels, Passes(c, ch)
  PROVE  /\ payload' \in [Callers -> Payloads]
         /\ \A d \in Callers : d # c => payload'[d] = payload[d]
         /\ shared' \in BOOLEAN /\ (shared => shared')
         /\ ~shared' => \A d \in Callers : d # c /\ Pending(d) => payload[d] # payload'[c]
<1>1. PICK p \in Payloads : /\ payload' = [payload EXCEPT ![c] = p]
                            /\ shared' = (shared \/ Meets(c, p))
  BY DEF Passes, Payloads
<1> QED
  BY <1>1 DEF TypeOK, Meets

LEMMA InitTyped == Init => TypeOK
<1> SUFFICES ASSUME Init PROVE TypeOK
  OBVIOUS
<1>1. 0 \in Numbers /\ MaxRequests \in Nat
  BY ChannelAssumption
<1>2. /\ counter \in [Channels -> 0 .. MaxRequests]
      /\ payloadID \in [Payloads -> Numbers]
      /\ payload \in [Callers -> Payloads]
      /\ listener \in Numbers
  BY <1>1 DEF Init, Payloads
<1>3. /\ inFlight \in [Channels -> [Numbers -> Numbers \cup {Nobody}]]
      /\ fate \in [Channels -> [Numbers -> Fates]]
  BY DEF Init, Fates
<1>4. call \in [Callers -> [chan : Channels, number : Numbers]]
  BY <1>1, AnyChannelIsChannel DEF Init
<1>5. /\ pc \in [Callers -> Steps]
      /\ sent \subseteq Message
      /\ dpc \in DispatcherSteps
      /\ msg \in Message
      /\ shared \in BOOLEAN /\ crashed \in BOOLEAN
  BY <1>1, AnyChannelIsChannel DEF Init, Steps, DispatcherSteps
<1> QED
  BY <1>2, <1>3, <1>4, <1>5 DEF TypeOK

LEMMA StepTyped == TypeOK /\ [Next]_vars => TypeOK'
<1> SUFFICES ASSUME TypeOK, [Next]_vars PROVE TypeOK'
  OBVIOUS
<1> USE ChannelAssumption DEF TypeOK, Payloads, Steps, DispatcherSteps, Fates,
        dispatcherVars, numbering, callerVars, Goes, DispatcherGoes, Ends, File, Unfile, Chan, Number
<1> DEFINE KeepsTypes == TypeOK'
<1>1. ASSUME NEW c \in Callers, NEW ch \in Channels, TakeNumber(c, ch) PROVE KeepsTypes
  <2>1. counter[ch] \in Numbers /\ counter[ch] + 1 \in 0 .. MaxRequests
    BY <1>1 DEF TakeNumber
  <2>2. counter' \in [Channels -> 0 .. MaxRequests]
    BY <1>1, <2>1 DEF TakeNumber, GetAndIncrement
  <2> /\ payload' \in [Callers -> Payloads] /\ shared' \in BOOLEAN
    BY <1>1, PassesOne DEF TakeNumber
  <2>3. /\ payloadID' \in [Payloads -> Numbers]
        /\ pc' \in [Callers -> Steps]
        /\ call' \in [Callers -> [chan : Channels, number : Numbers]]
    BY <1>1, <2>1 DEF TakeNumber
  <2>4. fate' \in [Channels -> [Numbers -> Fates]]
    BY <1>1, <2>1 DEF TakeNumber
  <2> QED
    BY <1>1, <2>2, <2>3, <2>4 DEF TakeNumber
<1>2. ASSUME NEW c \in Callers PROVE WireID(c) \in Numbers
  BY <1>2 DEF WireID, Payload
<1>3. ASSUME NEW c \in Callers, Register(c) PROVE KeepsTypes
  BY <1>2, <1>3 DEF Register
<1>4. ASSUME NEW c \in Callers, Transmit(c) PROVE KeepsTypes
  BY <1>2, <1>4 DEF Transmit
<1>5. ASSUME NEW c \in Callers, SendFails(c) PROVE KeepsTypes
  BY <1>5 DEF SendFails
<1>6. ASSUME NEW c \in Callers, ReturnSendError(c) PROVE KeepsTypes
  BY <1>2, <1>6 DEF ReturnSendError
<1>7. ASSUME NEW c \in Callers, TimerFires(c) PROVE KeepsTypes
  BY <1>7 DEF TimerFires
<1>8. ASSUME NEW c \in Callers, ReturnTimeout(c) PROVE KeepsTypes
  BY <1>2, <1>8 DEF ReturnTimeout
<1>9. ASSUME NEW m \in sent, ReadAnswer(m) PROVE KeepsTypes
  BY <1>9 DEF ReadAnswer
<1>10. CASE ReadEvent \/ CallbacksReturn
  BY <1>10 DEF ReadEvent, CallbacksReturn
<1>11. CASE LookupFinds \/ LookupMisses
  BY <1>11 DEF LookupFinds, LookupMisses
<1>12. ASSUME NEW c \in Callers, HandOff(c) PROVE KeepsTypes
  BY <1>12 DEF HandOff
<1>13. CASE DeleteEntry
  BY <1>13 DEF DeleteEntry
<1>14. ASSUME NEW ch \in Channels, MapFault(ch) PROVE KeepsTypes
  BY <1>14 DEF MapFault
<1>15. CASE UNCHANGED vars
  BY <1>15 DEF vars
<1> QED
  BY <1>1, <1>3, <1>4, <1>5, <1>6, <1>7, <1>8, <1>9, <1>10, <1>11, <1>12, <1>13,
     <1>14, <1>15 DEF Next, CallerStep, DispatcherStep, Dispatch

\* Every variable keeps its type: numbers stay below the counter's bound and
\* the table holds numbers, whatever callers and dispatcher do.
THEOREM ChannelTyped == Spec => []TypeOK
  BY InitTyped, StepTyped, PTL DEF Spec

----------------------------------------------------------------------------
(* The inductive invariant *)

LEMMA InvInit == Init => IInv
<1> SUFFICES ASSUME Init PROVE IInv
  OBVIOUS
<1>1. TypeOK
  BY InitTyped
<1>2. CallsHoldNumbers /\ CallsDistinct /\ SentMatchesCalls /\ DispatcherHoldsAnswer
  BY DEF Init, CallsHoldNumbers, CallsDistinct, SentMatchesCalls, DispatcherHoldsAnswer, Pending
<1>3. FatesMatchCalls
  BY DEF Init, FatesMatchCalls
<1>4. TableHoldsCalls
  BY DEF Init, TableHoldsCalls
<1> QED
  BY <1>1, <1>2, <1>3, <1>4 DEF IInv, InOrder

\* The number a call takes was not used before.
LEMMA TakenIsUnused ==
  ASSUME TypeOK, FatesMatchCalls,
         NEW c \in Callers, NEW ch \in Channels, TakeNumber(c, ch)
  PROVE  fate[ch][counter[ch]] = "unused"
<1>1. counter[ch] \in Numbers /\ counter[ch] >= counter[ch]
  BY ChannelAssumption DEF TakeNumber, GetAndIncrement, TypeOK, Numbers
<1> QED
  BY <1>1 DEF FatesMatchCalls

\* A number that was not given out belongs to nobody yet.
LEMMA TakeNumberFates ==
  ASSUME TypeOK, FatesMatchCalls,
         NEW c \in Callers, NEW ch \in Channels, TakeNumber(c, ch)
  PROVE  FatesMatchCalls'
<1>1. /\ counter[ch] \in Numbers
      /\ pc[c] = "idle" /\ pc' = [pc EXCEPT ![c] = "numbered"]
      /\ call' = [call EXCEPT ![c] = [chan |-> ch, number |-> counter[ch]]]
      /\ fate' = [fate EXCEPT ![ch][counter[ch]] = "pending"]
      /\ counter' = [counter EXCEPT ![ch] = @ + 1]
  BY ChannelAssumption DEF TakeNumber, Goes, GetAndIncrement, Ends, TypeOK, Numbers
<1>2. /\ \A k \in Channels : counter[k] \in Nat
      /\ \A n \in Numbers : n \in Nat
      /\ fate \in [Channels -> [Numbers -> Fates]] /\ pc \in [Callers -> Steps]
      /\ call \in [Callers -> [chan : Channels, number : Numbers]]
      /\ counter \in [Channels -> 0 .. MaxRequests]
  BY ChannelAssumption DEF TypeOK, Numbers
<1> SUFFICES ASSUME NEW k \in Channels, NEW n \in Numbers
             PROVE  /\ n >= counter'[k] => fate'[k][n] = "unused"
                    /\ fate'[k][n] = "pending" =>
                         \E d \in Callers :
                            pc'[d] # "idle" /\ call'[d] = [chan |-> k, number |-> n]
                    /\ fate'[k][n] # "crossed"
  BY DEF FatesMatchCalls, Pending
<1>3. CASE k = ch /\ n = counter[ch]
  <2>1. fate'[ch][counter[ch]] = "pending"
    BY <1>1, <1>2
  <2>2. counter'[ch] = counter[ch] + 1 /\ counter[ch] \in Nat
    BY <1>1, <1>2
  <2>3. ~(n >= counter'[k])
    BY <1>3, <2>2
  <2>4. pc'[c] # "idle" /\ call'[c] = [chan |-> k, number |-> n]
    BY <1>1, <1>2, <1>3
  <2> QED
    BY <1>3, <2>1, <2>3, <2>4
<1>4. CASE ~(k = ch /\ n = counter[ch])
  <2>1. fate'[k][n] = fate[k][n] /\ counter'[k] >= counter[k]
    BY <1>1, <1>2, <1>4
  <2>2. n >= counter'[k] => n >= counter[k]
    BY <1>1, <1>2
  <2>3. ASSUME fate[k][n] = "pending"
        PROVE  \E d \in Callers : pc'[d] # "idle" /\ call'[d] = [chan |-> k, number |-> n]
    <3>1. PICK d \in Callers : pc[d] # "idle" /\ call[d] = [chan |-> k, number |-> n]
      BY <2>3 DEF FatesMatchCalls, Pending
    <3>2. d # c /\ pc'[d] = pc[d] /\ call'[d] = call[d]
      BY <1>1, <1>2, <3>1
    <3> QED
      BY <3>1, <3>2
  <2> QED
    BY <2>1, <2>2, <2>3 DEF FatesMatchCalls
<1> QED
  BY <1>3, <1>4

\* Once two calls shared a payload, they did.
LEMMA SharedStays == TypeOK /\ [Next]_vars => (shared => shared')
<1> SUFFICES ASSUME TypeOK, [Next]_vars PROVE shared => shared'
  OBVIOUS
<1>1. ASSUME NEW c \in Callers, NEW ch \in Channels, TakeNumber(c, ch) PROVE shared => shared'
  BY <1>1, PassesOne DEF TakeNumber
<1>2. CASE ~\E c \in Callers, ch \in Channels : TakeNumber(c, ch)
  BY <1>2 DEF Next, CallerStep, DispatcherStep, Dispatch, Register, Transmit, SendFails,
     ReturnSendError, TimerFires, ReturnTimeout, ReadAnswer, ReadEvent, CallbacksReturn,
     LookupFinds, LookupMisses, HandOff, DeleteEntry, MapFault, vars, callerVars, numbering
<1> QED
  BY <1>1, <1>2

LEMMA StepInv == IInv /\ [Next]_vars => IInv'
<1> SUFFICES ASSUME IInv, [Next]_vars, ~shared' PROVE TypeOK' /\ InOrder'
  BY StepTyped DEF IInv
<1>1. TypeOK /\ TypeOK' /\ ~shared
  BY StepTyped, SharedStays DEF IInv
<1> DEFINE Parts == InOrder
<1>2. Parts
  BY <1>1 DEF IInv
<1>3. \A c \in Callers : Pending(c) => WireID(c) = Number(c)
  BY <1>2 DEF WireID, Payload, InOrder, CallsHoldNumbers
<1>0. \A c \in Callers, ch \in Channels : TakeNumber(c, ch) => fate[ch][counter[ch]] = "unused"
  BY <1>1, <1>2, TakenIsUnused DEF InOrder
<1> USE ChannelAssumption DEF Goes, DispatcherGoes, Ends, File, Unfile, Chan, Number, Pending,
        dispatcherVars, numbering, callerVars, TypeOK, InOrder, CallsHoldNumbers, CallsDistinct,
        FatesMatchCalls, TableHoldsCalls, SentMatchesCalls, DispatcherHoldsAnswer
<1>4. ASSUME NEW c \in Callers, NEW ch \in Channels, TakeNumber(c, ch) PROVE Parts'
  <2> USE <1>1, <1>2, <1>3, <1>4 DEF TakeNumber, GetAndIncrement
  <2>0. /\ payload' \in [Callers -> Payloads]
        /\ \A d \in Callers : d # c => payload'[d] = payload[d]
        /\ \A d \in Callers : d # c /\ pc[d] # "idle" => payload[d] # payload'[c]
    BY PassesOne
  <2>1. /\ counter[ch] \in Numbers
        /\ call'[c] = [chan |-> ch, number |-> counter[ch]]
        /\ payloadID'[payload'[c]] = counter[ch]
        /\ fate'[ch][counter[ch]] = "pending"
        /\ counter'[ch] = counter[ch] + 1
    BY <2>0 DEF Payload
  <2>2. \A d \in Callers : d # c =>
          /\ call'[d] = call[d] /\ pc'[d] = pc[d] /\ payload'[d] = payload[d]
          /\ pc[d] # "idle" => /\ payload'[d] # payload'[c] /\ call'[d] # call'[c]
                               /\ payloadID'[payload[d]] = payloadID[payload[d]]
                               /\ fate'[Chan(d)][Number(d)] = "pending"
    <3> TAKE d \in Callers
    <3> SUFFICES ASSUME d # c
                 PROVE  /\ call'[d] = call[d] /\ pc'[d] = pc[d] /\ payload'[d] = payload[d]
                        /\ pc[d] # "idle" =>
                              /\ payload'[d] # payload'[c] /\ call'[d] # call'[c]
                              /\ payloadID'[payload[d]] = payloadID[payload[d]]
                              /\ fate'[Chan(d)][Number(d)] = "pending"
      OBVIOUS
    <3>1. call'[d] = call[d] /\ pc'[d] = pc[d] /\ payload'[d] = payload[d]
      BY <2>0
    <3>0. pc[d] # "idle" => /\ payload[d] # payload'[c]
                            /\ payloadID'[payload[d]] = payloadID[payload[d]]
      BY <2>0 DEF Payload
    <3>2. pc[d] # "idle" => Number(d) < counter[Chan(d)] /\ fate[Chan(d)][Number(d)] = "pending"
      OBVIOUS
    <3>3. pc[d] # "idle" => ~(Chan(d) = ch /\ Number(d) = counter[ch])
      BY <2>1, <3>2
    <3>4. pc[d] # "idle" => fate'[Chan(d)][Number(d)] = "pending"
      BY <2>1, <3>2, <3>3
    <3> QED
      BY <2>1, <3>0, <3>1, <3>3, <3>4
  <2>3. CallsHoldNumbers'
    <3>1. /\ pc'[c] # "idle" => /\ Number(c)' < counter'[ch] /\ Chan(c)' = ch
                               /\ payloadID'[payload'[c]] = Number(c)'
      BY <2>1
    <3>2. \A k \in Channels : counter[k] <= counter'[k]
      BY <2>1
    <3>3. ASSUME NEW d \in Callers, pc'[d] # "idle"
          PROVE  /\ Number(d)' < counter'[Chan(d)'] /\ payloadID'[payload'[d]] = Number(d)'
                 /\ fate'[Chan(d)'][Number(d)'] = "pending"
      <4>1. CASE d = c
        BY <2>1, <3>1, <3>3, <4>1
      <4>2. CASE d # c
        <5>1. /\ call'[d] = call[d] /\ payload'[d] = payload[d] /\ pc[d] # "idle"
              /\ payloadID'[payload[d]] = payloadID[payload[d]]
              /\ fate'[Chan(d)][Number(d)] = "pending"
          BY <2>2, <3>3, <4>2
        <5>2. Number(d) < counter[Chan(d)] /\ payloadID[payload[d]] = Number(d)
          BY <5>1
        <5> QED
          BY <3>2, <5>1, <5>2
      <4> QED
        BY <4>1, <4>2
    <3> QED
      BY ONLY <3>3 DEF CallsHoldNumbers, Pending, Chan, Number
  <2>4. CallsDistinct'
    <3>1. ASSUME NEW d \in Callers, NEW e \in Callers, d # e,
                 pc'[d] # "idle", pc'[e] # "idle"
          PROVE  call'[d] # call'[e] /\ payload'[d] # payload'[e]
      <4>1. CASE d = c
        BY <2>2, <3>1, <4>1
      <4>2. CASE e = c
        BY <2>2, <3>1, <4>2
      <4>3. CASE d # c /\ e # c
        BY <2>2, <3>1, <4>3
      <4> QED
        BY <4>1, <4>2, <4>3
    <3> QED
      BY ONLY <3>1 DEF CallsDistinct, Pending
  <2>5. FatesMatchCalls'
    BY TakeNumberFates
  <2>6. TableHoldsCalls'
    BY <2>1
  <2>7. SentMatchesCalls'
    <3>1. ASSUME NEW m \in sent PROVE ~(m.chan = ch /\ m.number = counter[ch])
      <4>1. fate[m.chan][m.number] # "unused"
        OBVIOUS
      <4>2. fate[ch][counter[ch]] = "unused"
        BY ONLY <1>0, <1>4
      <4> QED
        BY <4>1, <4>2
    <3>2. sent' = sent /\ \A m \in sent : fate'[m.chan][m.number] = fate[m.chan][m.number]
      <4>1. \A m \in sent : m.chan \in Channels /\ m.number \in Numbers
        BY DEF Message
      <4>2. \A k \in Channels, n \in Numbers :
               ~(k = ch /\ n = counter[ch]) => fate'[k][n] = fate[k][n]
        BY <2>1
      <4> QED
        BY <3>1, <4>1, <4>2
    <3>3. ASSUME NEW d \in Callers, NEW m \in sent,
                 pc'[d] \in {"numbered", "registered", "failed"}
          PROVE  ~(m.chan = call'[d].chan /\ m.number = call'[d].number)
      <4>1. CASE d = c
        BY <2>1, <3>1, <4>1
      <4>2. CASE d # c
        BY <2>2, <3>3, <4>2
      <4> QED
        BY <4>1, <4>2
    <3>4. ASSUME NEW d \in Callers, pc'[d] \in {"waiting", "expired"}
          PROVE  d # c
      BY <3>4
    <3> QED
      BY <2>2, <3>2, <3>3, <3>4
  <2>8. DispatcherHoldsAnswer'
    BY <2>1
  <2> QED
    BY <2>3, <2>4, <2>5, <2>6, <2>7, <2>8
<1>5. ASSUME NEW c \in Callers, Register(c) PROVE Parts'
  <2>1. /\ pc[c] = "numbered" /\ pc' = [pc EXCEPT ![c] = "registered"]
        /\ UNCHANGED <<numbering, call, fate>>
    BY <1>5 DEF Register
  <2>2. \A d \in Callers : pc'[d] # "idle" <=> pc[d] # "idle"
    BY <1>1, <2>1
  <2> USE <1>1, <1>2, <1>3, <1>5 DEF Register
  <2>3. CallsHoldNumbers'
    BY <2>1, <2>2
  <2>4. CallsDistinct'
    BY <2>1, <2>2
  <2>5. FatesMatchCalls'
    OBVIOUS
  <2>6. TableHoldsCalls'
    OBVIOUS
  <2>7. SentMatchesCalls' /\ DispatcherHoldsAnswer'
    OBVIOUS
  <2> QED
    BY <2>3, <2>4, <2>5, <2>6, <2>7
<1>6. ASSUME NEW c \in Callers, Transmit(c) PROVE Parts'
  BY <1>1, <1>2, <1>3, <1>6 DEF Transmit
<1>7. ASSUME NEW c \in Callers, SendFails(c) PROVE Parts'
  BY <1>1, <1>2, <1>3, <1>7 DEF SendFails
<1>8. ASSUME NEW c \in Callers, ReturnSendError(c) PROVE Parts'
  <2> USE <1>1, <1>2, <1>3, <1>8 DEF ReturnSendError
  <2>1. CallsHoldNumbers' /\ CallsDistinct'
    <3>1. /\ pc'[c] = "idle" /\ pc[c] # "idle"
          /\ UNCHANGED <<numbering, call>>
          /\ \A d \in Callers : d # c => pc'[d] = pc[d]
      OBVIOUS
    <3>2. \A d \in Callers : d # c /\ pc[d] # "idle" => call[d] # call[c]
      BY <3>1
    <3>3. \A d \in Callers : d # c /\ pc[d] # "idle" =>
             fate'[Chan(d)][Number(d)] = fate[Chan(d)][Number(d)]
      BY <3>2
    <3> QED
      BY <3>1, <3>3
  <2>2. FatesMatchCalls'
    OBVIOUS
  <2>3. TableHoldsCalls'
    OBVIOUS
  <2>4. SentMatchesCalls' /\ DispatcherHoldsAnswer'
    OBVIOUS
  <2> QED
    BY <2>1, <2>2, <2>3, <2>4
<1>9. ASSUME NEW c \in Callers, TimerFires(c) PROVE Parts'
  BY <1>1, <1>2, <1>3, <1>9 DEF TimerFires
<1>10. ASSUME NEW c \in Callers, ReturnTimeout(c) PROVE Parts'
  <2> USE <1>1, <1>2, <1>3, <1>10 DEF ReturnTimeout
  <2>1. CallsHoldNumbers' /\ CallsDistinct'
    <3>1. /\ pc'[c] = "idle" /\ pc[c] # "idle"
          /\ UNCHANGED <<numbering, call>>
          /\ \A d \in Callers : d # c => pc'[d] = pc[d]
      OBVIOUS
    <3>2. \A d \in Callers : d # c /\ pc[d] # "idle" => call[d] # call[c]
      BY <3>1
    <3>3. \A d \in Callers : d # c /\ pc[d] # "idle" =>
             fate'[Chan(d)][Number(d)] = fate[Chan(d)][Number(d)]
      BY <3>2
    <3> QED
      BY <3>1, <3>3
  <2>2. FatesMatchCalls'
    OBVIOUS
  <2>3. TableHoldsCalls'
    OBVIOUS
  <2>4. SentMatchesCalls' /\ DispatcherHoldsAnswer'
    OBVIOUS
  <2> QED
    BY <2>1, <2>2, <2>3, <2>4
<1>11. ASSUME NEW m \in sent, ReadAnswer(m) PROVE Parts'
  BY <1>1, <1>2, <1>3, <1>11 DEF ReadAnswer
<1>12. ASSUME ReadEvent PROVE Parts'
  BY <1>1, <1>2, <1>3, <1>12 DEF ReadEvent
<1>13. ASSUME CallbacksReturn PROVE Parts'
  BY <1>1, <1>2, <1>3, <1>13 DEF CallbacksReturn
<1>14. ASSUME LookupFinds PROVE Parts'
  BY <1>1, <1>2, <1>3, <1>14 DEF LookupFinds
<1>15. ASSUME LookupMisses PROVE Parts'
  BY <1>1, <1>2, <1>3, <1>15 DEF LookupMisses
<1>16. ASSUME NEW c \in Callers, HandOff(c) PROVE Parts'
  <2> USE <1>1, <1>2, <1>3, <1>16 DEF HandOff
  <2>1. CallsHoldNumbers' /\ CallsDistinct'
    <3>1. /\ pc'[c] = "idle" /\ pc[c] # "idle"
          /\ UNCHANGED <<numbering, call>>
          /\ \A d \in Callers : d # c => pc'[d] = pc[d]
      OBVIOUS
    <3>2. \A d \in Callers : d # c /\ pc[d] # "idle" => call[d] # call[c]
      BY <3>1
    <3>3. \A d \in Callers : d # c /\ pc[d] # "idle" =>
             fate'[Chan(d)][Number(d)] = fate[Chan(d)][Number(d)]
      BY <3>2
    <3> QED
      BY <3>1, <3>3
  <2>2. FatesMatchCalls'
    OBVIOUS
  <2>3. TableHoldsCalls'
    OBVIOUS
  <2>4. SentMatchesCalls' /\ DispatcherHoldsAnswer'
    OBVIOUS
  <2> QED
    BY <2>1, <2>2, <2>3, <2>4
<1>17. ASSUME DeleteEntry PROVE Parts'
  BY <1>1, <1>2, <1>3, <1>17 DEF DeleteEntry
<1>18. ASSUME NEW ch \in Channels, MapFault(ch) PROVE Parts'
  BY <1>1, <1>2, <1>3, <1>18 DEF MapFault
<1>19. ASSUME UNCHANGED vars PROVE Parts'
  BY <1>2, <1>19 DEF vars
<1>20. Parts'
  BY <1>4, <1>5, <1>6, <1>7, <1>8, <1>9, <1>10, <1>11, <1>12, <1>13, <1>14, <1>15, <1>16, <1>17, <1>18, <1>19 DEF Next, CallerStep, DispatcherStep, Dispatch
<1> QED
  BY <1>1, <1>20

THEOREM ChannelInvariant == Spec => []IInv
<1>1. Init => IInv
  BY InvInit
<1>2. IInv /\ [Next]_vars => IInv'
  BY StepInv
<1> QED
  BY <1>1, <1>2, PTL DEF Spec

----------------------------------------------------------------------------
(* What follows from it *)

\* No two requests of a channel reach the device with the same id.
THEOREM IDsUnique == Spec => []RequestIDsUnique
<1>1. IInv => RequestIDsUnique
  BY DEF IInv, InOrder, TypeOK, SentMatchesCalls, RequestIDsUnique
<1> QED
  BY <1>1, ChannelInvariant, PTL

\* A call returns only the answer to its own request.
THEOREM RepliesMatch == Spec => []ReplyMatchesRequest
<1>1. IInv => ReplyMatchesRequest
  BY DEF IInv, InOrder, FatesMatchCalls, ReplyMatchesRequest
<1> QED
  BY <1>1, ChannelInvariant, PTL

\* The table of requests in flight does not leak.
THEOREM TableDoesNotLeak == Spec => []InFlightIsPending
<1>1. IInv => InFlightIsPending
  <2> SUFFICES ASSUME IInv, ~shared, NEW ch \in Channels, NEW id \in Numbers,
                      inFlight[ch][id] # Nobody
               PROVE  \/ \E c \in Callers :
                           Pending(c) /\ call[c] = [chan |-> ch, number |-> inFlight[ch][id]]
                      \/ dpc = "delete" /\ msg.chan = ch /\ msg.id = id
    BY DEF InFlightIsPending
  <2>1. inFlight[ch][id] = id
    BY DEF IInv, InOrder, TableHoldsCalls
  <2> QED
    BY <2>1 DEF IInv, InOrder, TableHoldsCalls, FatesMatchCalls
<1> QED
  BY <1>1, ChannelInvariant, PTL

\* The dispatcher blocks only on a caller that waits, or on one whose timer
\* fired between the lookup and the hand-off.
THEOREM StallsOnlyOnTimeout == Spec => []StallMeansTimeout
<1>1. IInv => StallMeansTimeout
  <2> SUFFICES ASSUME IInv, ~shared, dpc = "offer", fate[msg.chan][listener] # "timedOut"
               PROVE  \E c \in Callers :
                        /\ pc[c] \in {"waiting", "expired"}
                        /\ call[c] = [chan |-> msg.chan, number |-> listener]
    BY DEF StallMeansTimeout
  <2>1. msg \in sent /\ listener = msg.number /\ fate[msg.chan][listener] = "pending"
    BY DEF IInv, InOrder, DispatcherHoldsAnswer
  <2>2. msg.chan \in Channels /\ listener \in Numbers
    BY DEF IInv, TypeOK
  <2>3. PICK c \in Callers : Pending(c) /\ call[c] = [chan |-> msg.chan, number |-> listener]
    BY <2>1, <2>2 DEF IInv, InOrder, FatesMatchCalls
  <2>4. pc[c] \in {"waiting", "expired"}
    <3>1. pc[c] \in Steps /\ pc[c] # "idle" /\ Chan(c) = msg.chan /\ Number(c) = msg.number
      BY <2>1, <2>3 DEF IInv, TypeOK, Pending, Chan, Number
    <3>2. pc[c] \notin {"numbered", "registered", "failed"}
      BY <2>1, <3>1 DEF IInv, InOrder, SentMatchesCalls
    <3> QED
      BY <3>1, <3>2 DEF Steps
  <2> QED
    BY <2>3, <2>4
<1> QED
  BY <1>1, ChannelInvariant, PTL

----------------------------------------------------------------------------
(* Channel implements RequestReply *)

LEMMA RefinesInit == Init => Abstract!Init
  BY DEF Init, Delivered, Abstract!Init, Abstract!Numbers

\* The requests the device received, in terms of their callers.
LEMMA DeliveredMeansSent ==
  ASSUME IInv, ~shared
  PROVE  /\ \A c \in Callers : pc[c] \in {"waiting", "expired"}
                              => <<Chan(c), Number(c)>> \in Delivered
         /\ \A c \in Callers : pc[c] \in {"registered", "failed"}
                              => <<Chan(c), Number(c)>> \notin Delivered
         /\ \A c \in Callers : Chan(c) \in Channels /\ Number(c) \in Numbers
<1> USE DEF IInv, InOrder, SentMatchesCalls, Delivered
<1>1. ASSUME NEW c \in Callers, pc[c] \in {"waiting", "expired"}
      PROVE  <<Chan(c), Number(c)>> \in Delivered
  BY <1>1
<1>2. ASSUME NEW c \in Callers, pc[c] \in {"registered", "failed"}
      PROVE  <<Chan(c), Number(c)>> \notin Delivered
  BY <1>2
<1>3. ASSUME NEW c \in Callers PROVE Chan(c) \in Channels /\ Number(c) \in Numbers
  BY DEF TypeOK, Chan, Number
<1> QED
  BY <1>1, <1>2, <1>3

\* Callers' steps ask, deliver, expire and fail; the hand-off answers; the
\* dispatcher's other steps, and the fault, change nothing a user can see.
LEMMA RefinesStep == IInv /\ [Next]_vars => [Abstract!Next \/ shared']_(Abstract!vars)
<1> SUFFICES ASSUME IInv, [Next]_vars, ~shared' PROVE [Abstract!Next]_(Abstract!vars)
  OBVIOUS
<1>0. ~shared
  BY SharedStays DEF IInv
<1> DEFINE Refined == Abstract!Next \/ UNCHANGED <<fate, Delivered>>
<1>1. ASSUME NEW c \in Callers, NEW ch \in Channels, TakeNumber(c, ch) PROVE Refined
  <2>1. counter[ch] \in Numbers /\ fate[ch][counter[ch]] = "unused"
    BY <1>0, <1>1, ChannelAssumption DEF IInv, InOrder, TypeOK, FatesMatchCalls, TakeNumber
  <2>2. Abstract!Ask(ch, counter[ch])
    BY <1>1, <2>1 DEF TakeNumber, Ends, Delivered, Abstract!Ask, Abstract!Becomes
  <2> QED
    BY <2>1, <2>2 DEF Abstract!Next, Abstract!Numbers
<1>2. ASSUME NEW c \in Callers, Transmit(c) PROVE Refined
  <2>1. Delivered' = Delivered \cup {<<Chan(c), Number(c)>>}
    <3> DEFINE m0 == [chan |-> Chan(c), id |-> WireID(c), number |-> Number(c)]
    <3>1. sent' = sent \cup {m0}
      BY <1>2 DEF Transmit
    <3>2. m0.chan = Chan(c) /\ m0.number = Number(c)
      OBVIOUS
    <3> HIDE DEF m0
    <3> QED
      BY <3>1, <3>2 DEF Delivered
  <2>2. fate[Chan(c)][Number(c)] = "pending"
    BY <1>0, <1>2 DEF Transmit, Goes, IInv, InOrder, CallsHoldNumbers, Pending
  <2>3. Abstract!Deliver(Chan(c), Number(c))
    BY <1>2, <2>1, <2>2, <1>0, DeliveredMeansSent DEF Transmit, Goes, Abstract!Deliver
  <2> QED
    BY <2>3, <1>0, DeliveredMeansSent DEF Abstract!Next, Abstract!Numbers
<1>3. ASSUME NEW c \in Callers, ReturnSendError(c) PROVE Refined
  <2>1. Abstract!Fail(Chan(c), Number(c))
    BY <1>3, <1>0, DeliveredMeansSent DEF ReturnSendError, Goes, Ends, IInv, InOrder, CallsHoldNumbers,
       Pending, Delivered, Abstract!Fail, Abstract!Becomes
  <2> QED
    BY <2>1, <1>0, DeliveredMeansSent DEF Abstract!Next, Abstract!Numbers
<1>4. ASSUME NEW c \in Callers, ReturnTimeout(c) PROVE Refined
  <2>1. Abstract!Expire(Chan(c), Number(c))
    BY <1>4, <1>0, DeliveredMeansSent DEF ReturnTimeout, Goes, Ends, IInv, InOrder, CallsHoldNumbers,
       Pending, Delivered, Abstract!Expire, Abstract!Becomes
  <2> QED
    BY <2>1, <1>0, DeliveredMeansSent DEF Abstract!Next, Abstract!Numbers
<1>5. ASSUME NEW c \in Callers, HandOff(c) PROVE Refined
  <2>1. Chan(c) = msg.chan /\ Number(c) = listener /\ msg.number = listener
    BY <1>0, <1>5 DEF HandOff, DispatcherGoes, IInv, InOrder, DispatcherHoldsAnswer, Chan, Number
  <2>2. Abstract!Answer(Chan(c), Number(c))
    BY <1>5, <2>1, <1>0, DeliveredMeansSent DEF HandOff, Goes, Ends, IInv, InOrder, CallsHoldNumbers,
       Pending, Delivered, Abstract!Answer, Abstract!Becomes
  <2> QED
    BY <2>2, <1>0, DeliveredMeansSent DEF Abstract!Next, Abstract!Numbers
<1>6. ASSUME \/ \E c \in Callers : Register(c) \/ SendFails(c) \/ TimerFires(c)
             \/ \E m \in sent : ReadAnswer(m)
             \/ ReadEvent \/ CallbacksReturn \/ LookupFinds \/ LookupMisses \/ DeleteEntry
             \/ \E ch \in Channels : MapFault(ch)
             \/ UNCHANGED vars
      PROVE  Refined
  BY <1>6 DEF Register, SendFails, TimerFires, ReadAnswer, ReadEvent, CallbacksReturn,
              LookupFinds, LookupMisses, DeleteEntry, MapFault, vars, numbering, callerVars,
              dispatcherVars, Delivered
<1>7. Refined
  <2> HIDE DEF Refined
  <2> QED
    BY <1>1, <1>2, <1>3, <1>4, <1>5, <1>6
       DEF Next, CallerStep, DispatcherStep, Dispatch
<1> QED
  BY <1>7 DEF Abstract!vars

\* Every behaviour of the channel is one its callers may rely on: each request
\* has one fate, an answer only after it was delivered, and its own.
THEOREM ChannelImplements == Spec => ImplementsRequestReply
<1>1. Init => Abstract!Init
  BY RefinesInit
<1>2. IInv /\ [Next]_vars => [Abstract!Next \/ shared']_(Abstract!vars)
  BY RefinesStep
<1> QED
  BY <1>1, <1>2, ChannelInvariant, PTL DEF Spec, ImplementsRequestReply

----------------------------------------------------------------------------
(* PacketStream *)

WriteTypes ==
    /\ wpc \in [Writers -> {"ready", "length", "body", "done", "error"}]
    /\ out \in Seq(Piece)
    /\ broken \in BOOLEAN
    /\ met \in [Writers -> SUBSET Writers]

\* Writers that are in write at the same time have met.
WritersMeet ==
    \A v, w \in Writers : Writing(v) /\ Writing(w) /\ v # w => v \in met[w]

\* A length that is last has its writer behind it, or the socket failed; a
\* writer that is to go on with its frame has its own length last, or has met
\* the writer of the last piece.
LastPiece ==
    /\ \A w \in Writers : wpc[w] = "body" => out # << >>
    /\ out # << >> =>
         LET last == out[Len(out)]
         IN  /\ last.part = "length" => wpc[last.of] = "body" \/ broken
             /\ \A w \in Writers : wpc[w] = "body" =>
                   last = [of |-> w, part |-> "length"] \/ w \in met[last.of]

WInv == WriteTypes /\ WritersMeet /\ LastPiece /\ FramedUnlessOverlapping

LEMMA WInvInit == PacketInit => WInv
<1> SUFFICES ASSUME PacketInit PROVE WInv
  OBVIOUS
<1>1. out = << >> /\ out \in Seq(Piece) /\ Len(out) = 0
  BY DEF PacketInit
<1>2. WriteTypes
  BY <1>1 DEF PacketInit, WriteTypes
<1>3. WritersMeet /\ LastPiece
  BY <1>1 DEF PacketInit, WritersMeet, LastPiece, Writing
<1>4. FramedUnlessOverlapping
  BY <1>1 DEF FramedUnlessOverlapping
<1> QED
  BY <1>2, <1>3, <1>4 DEF WInv

\* A step of the reader, the device or the network leaves the writers alone.
LEMMA ReadersLeaveWriters ==
  ASSUME Arrive \/ End \/ ReadPackets \/ UNCHANGED packetVars
  PROVE  UNCHANGED writeVars
  BY DEF Arrive, End, ReadPackets, ReadLength, ReadBody, ShortRead, ReadFails, Deliver,
         Take, packetVars

\* One more piece behind the last one.
LEMMA PutKeepsFrames ==
  ASSUME WriteTypes, FramedUnlessOverlapping, NEW w \in Writers, NEW part \in {"length", "body"},
         Puts(w, part), UNCHANGED met,
         out = << >> => part = "length",
         out # << >> => \/ Follows(out[Len(out)], [of |-> w, part |-> part])
                        \/ w \in met[out[Len(out)].of]
  PROVE  /\ FramedUnlessOverlapping'
         /\ out' \in Seq(Piece) /\ out' # << >>
         /\ out'[Len(out')] = [of |-> w, part |-> part]
<1>1. [of |-> w, part |-> part] \in Piece
  BY DEF Piece
<1>2. /\ out' \in Seq(Piece) /\ Len(out') = Len(out) + 1 /\ Len(out) \in Nat
      /\ out'[Len(out')] = [of |-> w, part |-> part]
      /\ \A i \in 1 .. Len(out) : out'[i] = out[i]
  BY <1>1 DEF WriteTypes, Puts
<1>3. out' # << >> /\ (out = << >> <=> Len(out) = 0)
  BY <1>2 DEF WriteTypes
<1>4. out'[1].part = "length"
  <2>1. CASE out = << >>
    BY <1>2, <1>3, <2>1
  <2>2. CASE out # << >>
    <3>1. 1 \in 1 .. Len(out)
      BY <1>2, <1>3, <2>2
    <3> QED
      BY <1>2, <2>2, <3>1 DEF FramedUnlessOverlapping
  <2> QED
    BY <2>1, <2>2
<1>5. ASSUME NEW i \in 1 .. Len(out') - 1
      PROVE  Follows(out'[i], out'[i + 1]) \/ out'[i + 1].of \in met'[out'[i].of]
  <2>1. i \in 1 .. Len(out) /\ out # << >>
    BY <1>2, <1>3
  <2>2. CASE i = Len(out)
    BY <1>2, <2>1, <2>2
  <2>3. CASE i < Len(out)
    <3>1. i \in 1 .. Len(out) - 1 /\ i + 1 \in 1 .. Len(out)
      BY <1>2, <2>1, <2>3
    <3>2. out'[i] = out[i] /\ out'[i + 1] = out[i + 1]
      BY <1>2, <3>1
    <3> QED
      BY <3>1, <3>2 DEF FramedUnlessOverlapping
  <2> QED
    BY <1>2, <2>1, <2>2, <2>3
<1> QED
  BY <1>2, <1>3, <1>4, <1>5 DEF FramedUnlessOverlapping

LEMMA WInvStep == WInv /\ [PacketNext]_packetVars => WInv'
<1> SUFFICES ASSUME WInv, [PacketNext]_packetVars PROVE WInv'
  OBVIOUS
<1> USE DEF WInv, WriterGoes
<1>0. ASSUME out # << >>
      PROVE  /\ out[Len(out)] \in Piece /\ out[Len(out)].of \in Writers
             /\ out[Len(out)].part \in {"length", "body"}
  <2>1. Len(out) \in 1 .. Len(out) /\ out \in Seq(Piece)
    BY <1>0 DEF WriteTypes
  <2>2. out[Len(out)] \in Piece
    BY <2>1
  <2> QED
    BY <2>2 DEF Piece
\* Writers meet when the second of them begins.
<1>1. ASSUME NEW w \in Writers, Begin(w) PROVE WInv'
  <2>1. WriteTypes'
    BY <1>1 DEF Begin, WriteTypes
  <2>2. \A v \in Writers : met[v] \subseteq met'[v]
    BY <1>1 DEF Begin, WriteTypes
  <2>3. WritersMeet'
    BY <1>1 DEF Begin, WriteTypes, WritersMeet, Writing
  <2>4. LastPiece'
    <3>1. \A v \in Writers : wpc'[v] = "body" <=> wpc[v] = "body"
      BY <1>1 DEF Begin, WriteTypes
    <3> QED
      BY <1>0, <1>1, <2>2, <3>1 DEF Begin, LastPiece
  <2>5. FramedUnlessOverlapping'
    <3>1. ASSUME NEW i \in 1 .. Len(out) - 1
          PROVE  out[i].of \in Writers
      <4>1. out \in Seq(Piece) /\ i \in 1 .. Len(out)
        BY DEF WriteTypes
      <4>2. out[i] \in Piece
        BY <4>1
      <4> QED
        BY <4>2 DEF Piece
    <3> QED
      BY <1>1, <2>2, <3>1 DEF Begin, FramedUnlessOverlapping
  <2> QED
    BY <2>1, <2>3, <2>4, <2>5
<1>2. ASSUME NEW w \in Writers, WriteLength(w) PROVE WInv'
  <2>1. out # << >> => \/ Follows(out[Len(out)], [of |-> w, part |-> "length"])
                       \/ w \in met[out[Len(out)].of]
    <3> SUFFICES ASSUME out # << >>, out[Len(out)].part # "body"
                 PROVE  w \in met[out[Len(out)].of]
      BY <1>0 DEF Follows
    <3>1. out[Len(out)].of \in Writers /\ out[Len(out)].part = "length"
      BY <1>0
    <3>2. wpc[out[Len(out)].of] = "body" /\ wpc[w] = "length"
      BY <1>2, <3>1 DEF WriteLength, LastPiece
    <3> QED
      BY <3>1, <3>2 DEF WritersMeet, Writing
  <2>2. /\ FramedUnlessOverlapping' /\ out' \in Seq(Piece) /\ out' # << >>
        /\ out'[Len(out')] = [of |-> w, part |-> "length"]
    BY <1>2, <2>1, PutKeepsFrames DEF WriteLength
  <2>3. WriteTypes' /\ WritersMeet'
    BY <1>2, <2>2 DEF WriteLength, WriteTypes, WritersMeet, Writing
  <2>4. \A v \in Writers : wpc'[v] = "body" => v = w \/ v \in met[w]
    BY <1>2 DEF WriteLength, WriteTypes, WritersMeet, Writing
  <2>5. wpc'[w] = "body"
    BY <1>2 DEF WriteLength, WriteTypes
  <2>6. LastPiece'
    BY <1>2, <2>2, <2>4, <2>5 DEF WriteLength, LastPiece
  <2> QED
    BY <2>2, <2>3, <2>6
<1>3. ASSUME NEW w \in Writers, WriteBody(w) PROVE WInv'
  <2>1. /\ out # << >>
        /\ \/ Follows(out[Len(out)], [of |-> w, part |-> "body"])
           \/ w \in met[out[Len(out)].of]
    <3>1. wpc[w] = "body"
      BY <1>3 DEF WriteBody
    <3>2. out # << >>
      BY <3>1 DEF LastPiece
    <3>3. \/ out[Len(out)] = [of |-> w, part |-> "length"]
          \/ w \in met[out[Len(out)].of]
      BY <3>1, <3>2 DEF LastPiece
    <3> QED
      BY <3>2, <3>3 DEF Follows
  <2>2. /\ FramedUnlessOverlapping' /\ out' \in Seq(Piece) /\ out' # << >>
        /\ out'[Len(out')] = [of |-> w, part |-> "body"]
    BY <1>3, <2>1, PutKeepsFrames DEF WriteBody
  <2>3. WriteTypes' /\ WritersMeet'
    BY <1>3, <2>2 DEF WriteBody, WriteTypes, WritersMeet, Writing
  <2>4. \A v \in Writers : wpc'[v] = "body" => v \in met[w]
    BY <1>3 DEF WriteBody, WriteTypes, WritersMeet, Writing
  <2>5. LastPiece'
    BY <1>3, <2>2, <2>4 DEF WriteBody, LastPiece
  <2> QED
    BY <2>2, <2>3, <2>5
<1>4. ASSUME NEW w \in Writers, WriteLengthFails(w) \/ WriteBodyFails(w) PROVE WInv'
  <2>1. WriteTypes' /\ WritersMeet'
    BY <1>4 DEF WriteLengthFails, WriteBodyFails, WriteTypes, WritersMeet, Writing
  <2>2. LastPiece'
    BY <1>0, <1>4 DEF WriteLengthFails, WriteBodyFails, WriteTypes, LastPiece
  <2>3. FramedUnlessOverlapping'
    BY <1>4 DEF WriteLengthFails, WriteBodyFails, FramedUnlessOverlapping
  <2> QED
    BY <2>1, <2>2, <2>3
<1>5. ASSUME Arrive \/ End \/ ReadPackets \/ UNCHANGED packetVars PROVE WInv'
  BY <1>5, ReadersLeaveWriters
     DEF writeVars, WriteTypes, WritersMeet, Writing, LastPiece, FramedUnlessOverlapping
<1> QED
  BY <1>1, <1>2, <1>3, <1>4, <1>5 DEF PacketNext, Write

\* The device reads whole frames but where two writers overlapped, and there
\* only the pieces of those two meet.
THEOREM FramingNeedsOverlap == PacketSpec => []FramedUnlessOverlapping
<1>1. WInv => FramedUnlessOverlapping
  BY DEF WInv
<1> QED
  BY <1>1, WInvInit, WInvStep, PTL DEF PacketSpec

----------------------------------------------------------------------------
(* PacketStream, inward *)

ReadTypes ==
    /\ arrived \in 0 .. Len(Stream)
    /\ pos \in Nat
    /\ length \in Nat
    /\ packet \in SUBSET Nat
    /\ delivered \in Seq(SUBSET Nat)

Received(k) == \E h \in 1 .. Len(delivered) : delivered[h] = Body(k)

\* The reader is at message k: those before it, and only those, were received,
\* and it stands where k's length, body or end is.
AtMessage(k) ==
    /\ \A j \in Whole : j < k <=> Received(j)
    /\ rpc = "length" => pos = Header[k] - 1
    /\ rpc = "body" => k \in Whole /\ pos = Header[k] /\ length = Size(k)
    /\ rpc = "deliver" => k \in Whole /\ pos = Header[k] + Size(k) /\ packet = Body(k)

RInv ==
    /\ ReadTypes
    /\ DeliveredInOrder
    /\ \E k \in 1 .. Len(Header) : AtMessage(k)

\* What the frames' layout says of one message, and of the end of the stream.
LEMMA FrameLayout ==
  /\ Len(Header) \in Nat \ {0} /\ Len(Stream) \in Nat
  /\ \A k \in 1 .. Len(Header) : Header[k] \in 1 .. Len(Stream) + 1
  /\ \A k \in Messages :
        /\ k \in 1 .. Len(Header) /\ k + 1 \in 1 .. Len(Header)
        /\ Header[k] \in 1 .. Len(Stream)
        /\ Size(k) \in Nat
        /\ Header[k + 1] = Header[k] + Size(k) + 1
<1>1. Len(Header) \in Nat \ {0} /\ Len(Stream) \in Nat
  BY PacketStreamAssumption
<1>2. \A k \in 1 .. Len(Header) : Header[k] \in 1 .. Len(Stream) + 1
  BY PacketStreamAssumption
<1>3. ASSUME NEW k \in Messages
      PROVE  /\ k \in 1 .. Len(Header) /\ k + 1 \in 1 .. Len(Header)
             /\ Header[k] \in 1 .. Len(Stream)
             /\ Size(k) \in Nat
             /\ Header[k + 1] = Header[k] + Size(k) + 1
  <2>1. k \in 1 .. Len(Header) /\ k + 1 \in 1 .. Len(Header) /\ k < Len(Header)
    BY <1>1 DEF Messages
  <2>2. Header[k] < Header[Len(Header)] /\ Header[Len(Header)] = Len(Stream) + 1
    BY <1>1, <2>1, PacketStreamAssumption
  <2>3. Header[k] \in 1 .. Len(Stream)
    BY <1>1, <1>2, <2>1, <2>2
  <2>4. Size(k) \in Nat
    BY <2>3, PacketStreamAssumption DEF Size
  <2> QED
    BY <2>1, <2>3, <2>4, PacketStreamAssumption
<1> QED
  BY <1>1, <1>2, <1>3

\* Two messages that are not empty are different bytes of the stream.
LEMMA BodiesDiffer ==
  ASSUME NEW j \in Whole, NEW k \in Whole, Body(j) = Body(k)
  PROVE  j = k
<1>1. j \in Messages /\ k \in Messages /\ Size(j) > 0 /\ Size(k) > 0
  BY DEF Whole
<1>2. /\ Header[j] \in Nat /\ Header[k] \in Nat /\ Size(j) \in Nat /\ Size(k) \in Nat
      /\ j \in 1 .. Len(Header) /\ k \in 1 .. Len(Header)
      /\ Len(Header) \in Nat
  BY <1>1, FrameLayout
<1>3. Header[j] + 1 \in Body(k) /\ Header[k] + 1 \in Body(j)
  BY <1>1, <1>2 DEF Body
<1>4. Header[j] = Header[k]
  BY <1>2, <1>3 DEF Body
<1>5. ~(j < k) /\ ~(k < j)
  BY <1>2, <1>4, PacketStreamAssumption
<1> QED
  BY <1>2, <1>5

LEMMA RInvInit == PacketInit => RInv
<1> SUFFICES ASSUME PacketInit PROVE RInv
  OBVIOUS
<1>1. delivered = << >> /\ Len(delivered) = 0 /\ delivered \in Seq(SUBSET Nat)
  BY DEF PacketInit
<1>2. ReadTypes
  BY <1>1, FrameLayout DEF PacketInit, ReadTypes
<1>3. DeliveredInOrder
  BY <1>1 DEF DeliveredInOrder
<1>4. 1 \in 1 .. Len(Header) /\ Header[1] = 1
  BY FrameLayout, PacketStreamAssumption
<1>5. \A j \in Whole : ~(j < 1) /\ ~Received(j)
  BY <1>1, FrameLayout DEF Whole, Messages, Received
<1>6. AtMessage(1)
  BY <1>4, <1>5 DEF AtMessage, PacketInit
<1> QED
  BY <1>2, <1>3, <1>4, <1>6 DEF RInv

\* A step that delivers nothing and reads nothing keeps the reader's place.
LEMMA PlaceKept ==
  ASSUME RInv, ReadTypes', UNCHANGED <<pos, length, packet, delivered>>,
         rpc' = rpc \/ rpc' = "stopped"
  PROVE  RInv'
<1>1. DeliveredInOrder'
  BY DEF RInv, DeliveredInOrder
<1>2. PICK k \in 1 .. Len(Header) : AtMessage(k)
  BY DEF RInv
<1>3. AtMessage(k)'
  BY <1>2 DEF AtMessage, Received
<1> QED
  BY <1>1, <1>2, <1>3 DEF RInv

\* The length read is that of the message the reader is at: an empty message is
\* passed, and the body of any other is what comes next.
LEMMA ReadLengthKeeps == RInv /\ ReadLength => RInv'
<1> SUFFICES ASSUME RInv, ReadLength PROVE RInv'
  OBVIOUS
<1>1. PICK k \in 1 .. Len(Header) : AtMessage(k)
  BY DEF RInv
<1>2. /\ pos = Header[k] - 1 /\ pos < arrived
      /\ pos' = pos + 1 /\ length' = Stream[pos + 1]
      /\ rpc' = IF length' > 0 THEN "body" ELSE "length"
      /\ UNCHANGED <<arrived, packet, delivered>>
  BY <1>1 DEF ReadLength, Available, AtMessage, RInv, ReadTypes
<1>3. k \in Messages
  <2>1. Header[k] # Len(Stream) + 1
    BY <1>2, FrameLayout DEF RInv, ReadTypes
  <2>2. k # Len(Header)
    BY <2>1, PacketStreamAssumption
  <2> QED
    BY <2>2, FrameLayout DEF Messages
<1>4. pos' = Header[k] /\ length' = Size(k) /\ Size(k) \in Nat /\ Header[k] \in Nat
  <2>1. Header[k] \in Nat /\ Size(k) \in Nat
    BY <1>3, FrameLayout
  <2>2. pos + 1 = Header[k]
    BY <1>2, <2>1
  <2> QED
    BY <1>2, <2>1, <2>2 DEF Size
<1>5. ReadTypes'
  BY <1>2, <1>4 DEF RInv, ReadTypes
<1>6. DeliveredInOrder'
  BY <1>2 DEF RInv, DeliveredInOrder
<1>7. \A j \in Whole : j < k <=> Received(j)'
  BY <1>1, <1>2 DEF AtMessage, Received
<1>8. CASE Size(k) > 0
  <2>1. k \in Whole /\ rpc' = "body"
    BY <1>2, <1>3, <1>4, <1>8 DEF Whole
  <2>2. AtMessage(k)'
    BY <1>4, <1>7, <2>1 DEF AtMessage
  <2> QED
    BY <1>5, <1>6, <2>2 DEF RInv
<1>9. CASE Size(k) = 0
  <2>1. k \notin Whole /\ rpc' = "length"
    BY <1>2, <1>4, <1>9 DEF Whole
  <2>2. k + 1 \in 1 .. Len(Header) /\ pos' = Header[k + 1] - 1
    BY <1>3, <1>4, <1>9, FrameLayout
  <2>3. \A j \in Whole : j < k + 1 <=> j < k
    BY <1>3, <2>1, FrameLayout DEF Whole, Messages
  <2>4. AtMessage(k + 1)'
    BY <1>7, <2>1, <2>2, <2>3 DEF AtMessage
  <2> QED
    BY <1>5, <1>6, <2>2, <2>4 DEF RInv
<1> QED
  BY <1>4, <1>8, <1>9

\* A full Read takes the body of the message the reader is at.
LEMMA ReadBodyKeeps == RInv /\ ReadBody => RInv'
<1> SUFFICES ASSUME RInv, ReadBody PROVE RInv'
  OBVIOUS
<1>1. PICK k \in 1 .. Len(Header) : AtMessage(k)
  BY DEF RInv
<1>2. /\ k \in Whole /\ pos = Header[k] /\ length = Size(k)
      /\ pos' = pos + length /\ packet' = (pos + 1) .. (pos + length)
      /\ rpc' = "deliver"
      /\ UNCHANGED <<arrived, length, delivered>>
  BY <1>1 DEF ReadBody, Take, AtMessage
<1>3. Header[k] \in Nat /\ Size(k) \in Nat
  BY <1>2, FrameLayout DEF Whole
<1>4. pos' = Header[k] + Size(k) /\ packet' = Body(k)
  BY <1>2 DEF Body
<1>5. ReadTypes'
  <2>1. Body(k) \subseteq Nat /\ Header[k] + Size(k) \in Nat
    BY <1>3 DEF Body
  <2> QED
    BY <1>2, <1>4, <2>1 DEF RInv, ReadTypes
<1>6. DeliveredInOrder'
  BY <1>2 DEF RInv, DeliveredInOrder
<1>7. AtMessage(k)'
  BY <1>1, <1>2, <1>4 DEF AtMessage, Received
<1> QED
  BY <1>5, <1>6, <1>7 DEF RInv

\* A short Read ends the reading, whatever it returned.
LEMMA ShortReadKeeps == RInv /\ ShortRead => RInv'
<1> SUFFICES ASSUME RInv, ShortRead PROVE RInv'
  OBVIOUS
<1>1. PICK n \in 1 .. length - 1 : Take(n)
  BY DEF ShortRead
<1>2. n \in Nat /\ (pos + 1) .. (pos + n) \subseteq Nat /\ pos + n \in Nat
  BY <1>1 DEF RInv, ReadTypes
<1>3. ReadTypes'
  BY <1>1, <1>2 DEF RInv, ReadTypes, ShortRead, Take
<1>4. DeliveredInOrder'
  BY DEF RInv, DeliveredInOrder, ShortRead
<1>5. PICK k \in 1 .. Len(Header) : AtMessage(k)
  BY DEF RInv
<1>6. AtMessage(k)'
  BY <1>5 DEF AtMessage, Received, ShortRead
<1> QED
  BY <1>3, <1>4, <1>5, <1>6 DEF RInv

\* The packet handed over is the message after those received before.
LEMMA DeliverKeeps == RInv /\ Deliver => RInv'
<1> SUFFICES ASSUME RInv, Deliver PROVE RInv'
  OBVIOUS
<1>1. PICK k \in 1 .. Len(Header) : AtMessage(k)
  BY DEF RInv
<1> DEFINE n == Len(delivered)
<1>2. /\ k \in Whole /\ pos = Header[k] + Size(k)
      /\ delivered' = Append(delivered, Body(k))
      /\ packet' = {} /\ rpc' = "length"
      /\ UNCHANGED <<arrived, pos, length>>
  BY <1>1 DEF Deliver, AtMessage
<1>3. /\ k \in Messages /\ k \in Nat
      /\ k + 1 \in 1 .. Len(Header) /\ pos = Header[k + 1] - 1
  BY <1>2, FrameLayout DEF Whole, Messages
<1>4. Body(k) \in SUBSET Nat
  BY <1>3, FrameLayout DEF Body
<1>5. ReadTypes'
  BY <1>2, <1>4 DEF RInv, ReadTypes
<1>6. /\ n \in Nat /\ Len(delivered') = n + 1
      /\ delivered'[n + 1] = Body(k)
      /\ \A i \in 1 .. n : delivered'[i] = delivered[i]
  BY <1>2, <1>4 DEF RInv, ReadTypes
<1> HIDE DEF n
<1>7. \A j \in Whole : j < k <=> \E h \in 1 .. n : delivered'[h] = Body(j)
  BY <1>1, <1>6 DEF AtMessage, Received, n
<1>8. ASSUME NEW i \in 1 .. Len(delivered')
      PROVE  \E m \in Whole :
               /\ delivered'[i] = Body(m)
               /\ \A j \in Whole : j < m <=> \E h \in 1 .. i - 1 : delivered'[h] = Body(j)
  <2>1. CASE i = n + 1
    <3>1. i - 1 = n
      BY <1>6, <2>1
    <3> QED
      BY <1>2, <1>6, <1>7, <2>1, <3>1
  <2>2. CASE i \in 1 .. n
    <3>1. PICK m \in Whole :
            /\ delivered[i] = Body(m)
            /\ \A j \in Whole : j < m <=> \E h \in 1 .. i - 1 : delivered[h] = Body(j)
      BY <2>2 DEF RInv, DeliveredInOrder, n
    <3>2. \A h \in 1 .. i - 1 : delivered'[h] = delivered[h]
      BY <1>6, <2>2
    <3> QED
      BY <1>6, <2>2, <3>1, <3>2
  <2> QED
    BY <1>6, <2>1, <2>2
<1>9. DeliveredInOrder'
  BY <1>8 DEF DeliveredInOrder, Whole, Messages, Body, Size
<1>10. \A j \in Whole : j < k + 1 <=> Received(j)'
  <2> SUFFICES ASSUME NEW j \in Whole
               PROVE  j < k + 1 <=> \E h \in 1 .. n + 1 : delivered'[h] = Body(j)
    BY <1>6 DEF Received
  <2>1. j < k + 1 <=> j < k \/ j = k
    BY <1>3, FrameLayout DEF Whole, Messages
  <2>2. Body(j) = Body(k) <=> j = k
    BY <1>2, BodiesDiffer
  <2>3. (\E h \in 1 .. n + 1 : delivered'[h] = Body(j))
          <=> (\E h \in 1 .. n : delivered'[h] = Body(j)) \/ delivered'[n + 1] = Body(j)
    BY <1>6
  <2> QED
    BY <1>6, <1>7, <2>1, <2>2, <2>3
<1>11. AtMessage(k + 1)'
  BY <1>2, <1>3, <1>10 DEF AtMessage
<1> QED
  BY <1>3, <1>5, <1>9, <1>11 DEF RInv

LEMMA RInvStep == RInv /\ [PacketNext]_packetVars => RInv'
<1> SUFFICES ASSUME RInv, [PacketNext]_packetVars PROVE RInv'
  OBVIOUS
<1>1. ASSUME NEW w \in Writers, Write(w) PROVE RInv'
  <2>1. UNCHANGED readVars
    BY <1>1 DEF Write, Begin, WriteLength, WriteLengthFails, WriteBody, WriteBodyFails
  <2> QED
    BY <2>1, PlaceKept DEF readVars, RInv, ReadTypes
<1>2. CASE Arrive \/ End
  <2>1. arrived' \in 0 .. Len(Stream)
    BY <1>2, FrameLayout DEF Arrive, End, RInv, ReadTypes
  <2>2. UNCHANGED <<rpc, pos, length, packet, delivered>>
    BY <1>2 DEF Arrive, End
  <2>3. ReadTypes'
    BY <2>1, <2>2 DEF RInv, ReadTypes
  <2> QED
    BY <2>2, <2>3, PlaceKept
<1>3. CASE ReadFails
  BY <1>3, PlaceKept DEF ReadFails, RInv, ReadTypes
<1>4. CASE ReadLength
  BY <1>4, ReadLengthKeeps
<1>5. CASE ReadBody
  BY <1>5, ReadBodyKeeps
<1>6. CASE ShortRead
  BY <1>6, ShortReadKeeps
<1>7. CASE Deliver
  BY <1>7, DeliverKeeps
<1>8. CASE UNCHANGED packetVars
  BY <1>8, PlaceKept DEF packetVars, readVars, RInv, ReadTypes
<1> QED
  BY <1>1, <1>2, <1>3, <1>4, <1>5, <1>6, <1>7, <1>8 DEF PacketNext, ReadPackets

\* However the bytes arrive, and wherever reading stops, what the dispatcher
\* received is an initial part of the device's messages, each whole.
THEOREM MessagesInOrder == PacketSpec => []DeliveredInOrder
<1>1. RInv => DeliveredInOrder
  BY DEF RInv
<1> QED
  BY <1>1, RInvInit, RInvStep, PTL DEF PacketSpec
=============================================================================
