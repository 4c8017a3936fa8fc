-------------------------- MODULE DiscoveryProofs --------------------------
(***************************************************************************)
(* For any services on the network and chans of any size: a device that is *)
(* found resembles what was looked for, one that is not has an excuse, and *)
(* a search leaves at most one entry half made.                            *)
(***************************************************************************)
EXTENDS Discovery, TLAPS

\* Between two entries, and from the heartbeat on, nothing is half made.
Tidy ==
    cpc \in {"router", "range", "scanner", "status", "send"} =>
        handles = {} /\ clients = beating

\* What NewDevice has done to the entry in hand, by where it is.
HandKnown ==
    /\ cpc \notin {"router", "range", "returned"} => hand \in Entries
    /\ cpc \in {"request", "check", "read", "device"} => hand \in clients
    /\ cpc \in {"status", "send"} => hand \in beating

DevicesBeat == \A e \in Entries : Holds(devices, e) => e \in beating

\* The loop over the entries ends by itself only when the query is over, and
\* FindDevice gives up only when the loop ended.
EndsAfterQuery ==
    /\ cpc = "returned" /\ hand = None => closed /\ entries = << >>
    /\ caller = "nil" => cpc = "returned"

\* While the caller looks, a service that resembles is on its way to it, or is
\* excused.
Underway ==
    caller = "ranging" =>
        \A e \in Entries : Resembles(e) =>
            \/ e \in unanswered \cup dropped
            \/ Holds(entries, e)
            \/ e = hand /\ cpc \notin {"router", "range"}
            \/ Holds(devices, e)

IInv ==
    /\ TypeOK
    /\ FoundOrExplained
    /\ OnlyHandIsLoose
    /\ Tidy
    /\ HandKnown
    /\ DevicesBeat
    /\ EndsAfterQuery
    /\ Underway

USE DiscoveryAssumption

----------------------------------------------------------------------------
(* Chans *)

\* What a send adds to a chan.
LEMMA SendHolds ==
  ASSUME NEW S, NEW chan \in Seq(S), NEW x \in S, NEW e
  PROVE  /\ Append(chan, x) \in Seq(S)
         /\ Holds(Append(chan, x), e) <=> Holds(chan, e) \/ e = x
<1> DEFINE new == Append(chan, x)
<1>1. /\ new \in Seq(S) /\ Len(new) = Len(chan) + 1 /\ Len(chan) \in Nat
      /\ \A i \in 1 .. Len(chan) : new[i] = chan[i]
      /\ new[Len(chan) + 1] = x
  OBVIOUS
<1>2. 1 .. Len(new) = (1 .. Len(chan)) \cup {Len(chan) + 1}
  BY <1>1
<1> QED
  BY <1>1, <1>2 DEF Holds

\* What a receive takes from a chan.
LEMMA ReceiveHolds ==
  ASSUME NEW S, NEW chan \in Seq(S), chan # << >>, NEW e
  PROVE  /\ Head(chan) \in S /\ Tail(chan) \in Seq(S) /\ Holds(chan, Head(chan))
         /\ Holds(chan, e) <=> Holds(Tail(chan), e) \/ e = Head(chan)
<1>1. /\ Tail(chan) \in Seq(S) /\ Len(Tail(chan)) = Len(chan) - 1
      /\ Len(chan) \in Nat /\ Len(chan) >= 1
      /\ \A i \in 1 .. Len(Tail(chan)) : Tail(chan)[i] = chan[i + 1]
      /\ Head(chan) = chan[1] /\ Head(chan) \in S
  OBVIOUS
<1>2. Holds(chan, Head(chan))
  BY <1>1 DEF Holds
<1>3. ASSUME Holds(chan, e), e # Head(chan) PROVE Holds(Tail(chan), e)
  <2>1. PICK i \in 1 .. Len(chan) : chan[i] = e
    BY <1>3 DEF Holds
  <2>2. i - 1 \in 1 .. Len(Tail(chan)) /\ Tail(chan)[i - 1] = chan[i]
    BY <1>1, <1>3, <2>1
  <2> QED
    BY <2>1, <2>2 DEF Holds
<1>4. ASSUME Holds(Tail(chan), e) PROVE Holds(chan, e)
  <2>1. PICK i \in 1 .. Len(Tail(chan)) : Tail(chan)[i] = e
    BY <1>4 DEF Holds
  <2>2. i + 1 \in 1 .. Len(chan) /\ chan[i + 1] = e
    BY <1>1, <2>1
  <2> QED
    BY <2>2 DEF Holds
<1> QED
  BY <1>1, <1>2, <1>3, <1>4

LEMMA EmptyHolds == \A e : ~Holds(<< >>, e)
  BY DEF Holds

----------------------------------------------------------------------------
(* The invariant is inductive *)

LEMMA InitIInv == Init => IInv
<1> SUFFICES ASSUME Init PROVE IInv
  OBVIOUS
<1>1. TypeOK
  <2>1. << >> \in Seq(Entries)
    OBVIOUS
  <2> QED
    BY <2>1 DEF Init, TypeOK, Steps
<1>2. OnlyHandIsLoose /\ Tidy /\ HandKnown /\ EndsAfterQuery /\ FoundOrExplained
  BY DEF Init, OnlyHandIsLoose, Tidy, HandKnown, EndsAfterQuery, FoundOrExplained
<1>3. DevicesBeat /\ Underway
  BY EmptyHolds DEF Init, DevicesBeat, Underway, Holds
<1> QED
  BY <1>1, <1>2, <1>3 DEF IInv

LEMMA AnswerIInv == ASSUME IInv, NEW e \in Entries, Answer(e) PROVE IInv'
<1> USE DEF IInv, Answer, query, device, caller_
<1>1. TypeOK'
  <2>1. CASE Len(entries) < Buffer
    BY <2>1, SendHolds DEF TypeOK
  <2>2. CASE ~(Len(entries) < Buffer)
    BY <2>2 DEF TypeOK
  <2> QED
    BY <2>1, <2>2
<1>2. OnlyHandIsLoose' /\ Tidy' /\ HandKnown' /\ DevicesBeat'
  BY DEF OnlyHandIsLoose, Tidy, HandKnown, DevicesBeat, Holds
<1>3. EndsAfterQuery'
  BY DEF EndsAfterQuery
<1>4. /\ \A x \in Entries : Holds(entries, x) => Holds(entries', x)
      /\ Holds(entries', e) \/ e \in dropped'
  <2>1. CASE Len(entries) < Buffer
    <3>1. entries' = Append(entries, e) /\ entries \in Seq(Entries)
      BY <2>1 DEF TypeOK
    <3> QED
      BY <3>1, SendHolds
  <2>2. CASE ~(Len(entries) < Buffer)
    BY <2>2
  <2> QED
    BY <2>1, <2>2
<1>6. Underway'
  BY <1>4 DEF Underway, Resembles, Holds
<1>7. FoundOrExplained'
  <2>1. UNCHANGED <<find, caller, result, beating, cpc, hand>>
    OBVIOUS
  <2>2. caller = "nil" => cpc = "returned" /\ hand # None
    BY DEF EndsAfterQuery
  <2>3. \A x \in Entries : x \in unanswered \cup dropped \/ Holds(entries, x) =>
                             x \in unanswered' \cup dropped' \/ Holds(entries', x)
    BY <1>4
  <2> QED
    BY <2>1, <2>2, <2>3 DEF FoundOrExplained, CutOff, Resembles
<1> QED
  BY <1>1, <1>2, <1>3, <1>6, <1>7

LEMMA QueryEndsIInv == ASSUME IInv, QueryEnds PROVE IInv'
  BY DEF IInv, QueryEnds, device, caller_, TypeOK, FoundOrExplained, OnlyHandIsLoose, Tidy,
     HandKnown, DevicesBeat, EndsAfterQuery, Underway, Resembles, Holds, CutOff

\* Steps of NewDevice and of the loop that leave the query, the chans and the
\* caller alone and end neither with a device nor between two entries.
LEMMA HandIInv ==
  ASSUME IInv,
         UNCHANGED <<find, query, hand, devices, caller_>>,
         cpc \notin {"router", "range", "returned"},
         cpc' \notin {"router", "range"},
         cpc' \in Steps, late' \in BOOLEAN, crashed' \in BOOLEAN,
         handles' \subseteq Entries, clients' \subseteq Entries, beating' \subseteq Entries,
         beating \subseteq beating',
         OnlyHandIsLoose', Tidy', HandKnown'
  PROVE  IInv'
<1> USE DEF query, caller_
<1>1. TypeOK'
  BY DEF IInv, TypeOK
<1>2. DevicesBeat'
  BY DEF IInv, DevicesBeat, Holds
<1>3. hand \in Entries /\ hand # None
  BY DEF IInv, HandKnown
<1>4. EndsAfterQuery'
  BY <1>3 DEF IInv, EndsAfterQuery
<1>5. Underway'
  BY <1>3 DEF IInv, Underway, Resembles, Holds
<1>6. FoundOrExplained'
  BY <1>3 DEF IInv, FoundOrExplained, CutOff, Resembles
<1> QED
  BY <1>1, <1>2, <1>4, <1>5, <1>6 DEF IInv

LEMMA NewDeviceIInv ==
  ASSUME IInv,
         \/ NewScanner
         \/ NewDevice
         \/ \E step \in {"dial", "request", "read"} : Fails(step)
  PROVE  IInv'
<1> USE DEF IInv, TypeOK, Goes, query, device, caller_, OnlyHandIsLoose, Tidy, HandKnown, Steps
<1>1. CASE NewScanner
  BY <1>1, HandIInv DEF NewScanner
<1>2. CASE NewClient
  BY <1>2, HandIInv DEF NewClient
<1>3. CASE SendRequest
  BY <1>3, HandIInv DEF SendRequest
<1>4. CASE CheckTime
  BY <1>4, HandIInv DEF CheckTime
<1>5. CASE ReadOther \/ ReadReply
  BY <1>5, HandIInv DEF ReadOther, ReadReply
<1>6. CASE MakeDevice
  BY <1>6, HandIInv DEF MakeDevice
<1>7. CASE MakeDevicePanics
  BY <1>7, HandIInv DEF MakeDevicePanics, Fatal
<1>8. CASE Status
  BY <1>8, HandIInv DEF Status
<1>9. CASE \E step \in {"dial", "request", "read"} : Fails(step)
  BY <1>9, HandIInv DEF Fails
<1> QED
  BY <1>1, <1>2, <1>3, <1>4, <1>5, <1>6, <1>7, <1>8, <1>9 DEF NewDevice, GetHwAddr

\* A crash changes nothing the invariant speaks of, nor does the clock.
LEMMA CrashIInv ==
  ASSUME IInv, Crash \/ ThreeSeconds \/ ReceivePanics
  PROVE  IInv'
<1>1. /\ UNCHANGED <<find, query, cpc, hand, device, devices, caller_>>
      /\ late' \in BOOLEAN /\ crashed' \in BOOLEAN
  BY DEF Crash, Fatal, ThreeSeconds, ReceivePanics, IInv, TypeOK
<1> QED
  BY <1>1 DEF IInv, query, device, caller_, TypeOK, FoundOrExplained, OnlyHandIsLoose, Tidy,
     HandKnown, DevicesBeat, EndsAfterQuery, Underway, Resembles, Holds, CutOff

LEMMA NewRouterIInv == ASSUME IInv, NewRouter PROVE IInv'
  BY DEF NewRouter, Goes, IInv, query, device, caller_, TypeOK, Steps, FoundOrExplained,
     OnlyHandIsLoose, Tidy, HandKnown, DevicesBeat, EndsAfterQuery, Underway,
     Resembles, Holds, CutOff

LEMMA TakeEntryIInv == ASSUME IInv, TakeEntry PROVE IInv'
<1> USE DEF IInv, TakeEntry, Goes, query, device, caller_
<1>1. /\ hand' \in Entries /\ entries' \in Seq(Entries)
      /\ \A e \in Entries : Holds(entries, e) => Holds(entries', e) \/ e = hand'
  BY ReceiveHolds DEF TypeOK
<1>2. cpc = "range" /\ cpc' \in {"scanner", "returned"} /\ hand' # None
  BY <1>1
<1>3. TypeOK'
  BY <1>1, <1>2 DEF TypeOK, Steps
<1>4. OnlyHandIsLoose' /\ Tidy' /\ HandKnown' /\ EndsAfterQuery'
  BY <1>1, <1>2 DEF OnlyHandIsLoose, Tidy, HandKnown, EndsAfterQuery
<1>5. DevicesBeat'
  BY DEF DevicesBeat, Holds
<1>6. Underway'
  BY <1>1, <1>2 DEF Underway, Resembles, Holds
<1>7. FoundOrExplained'
  BY <1>2 DEF FoundOrExplained, CutOff, Resembles
<1> QED
  BY <1>3, <1>4, <1>5, <1>6, <1>7

LEMMA EntriesEndIInv == ASSUME IInv, EntriesEnd PROVE IInv'
<1> USE DEF IInv, EntriesEnd, Goes, query, device, caller_
<1>1. TypeOK'
  BY DEF TypeOK, Steps
<1>2. OnlyHandIsLoose' /\ Tidy' /\ HandKnown' /\ EndsAfterQuery' /\ DevicesBeat'
  BY DEF OnlyHandIsLoose, Tidy, HandKnown, EndsAfterQuery, DevicesBeat, Holds
<1>3. Underway'
  BY DEF Underway, Resembles, Holds
<1>4. FoundOrExplained'
  BY DEF FoundOrExplained, CutOff, Resembles
<1> QED
  BY <1>1, <1>2, <1>3, <1>4

LEMMA SendDeviceIInv == ASSUME IInv, SendDevice PROVE IInv'
<1> USE DEF IInv, SendDevice, Goes, query, device, caller_
<1>1. cpc = "send" /\ cpc' = "range" /\ hand \in Entries /\ hand \in beating
  BY DEF HandKnown
<1>2. /\ devices' \in Seq(Entries)
      /\ \A e \in Entries : Holds(devices', e) <=> Holds(devices, e) \/ e = hand
  BY <1>1, SendHolds DEF TypeOK
<1>3. TypeOK'
  BY <1>1, <1>2 DEF TypeOK, Steps
<1>4. OnlyHandIsLoose' /\ Tidy' /\ HandKnown' /\ EndsAfterQuery'
  BY <1>1 DEF OnlyHandIsLoose, Tidy, HandKnown, EndsAfterQuery
<1>5. DevicesBeat'
  BY <1>1, <1>2 DEF DevicesBeat
<1>6. Underway'
  BY <1>1, <1>2 DEF Underway, Resembles, Holds
<1>7. FoundOrExplained'
  BY <1>1 DEF FoundOrExplained, CutOff, Resembles
<1> QED
  BY <1>3, <1>4, <1>5, <1>6, <1>7

LEMMA ReceiveIInv == ASSUME IInv, Receive PROVE IInv'
<1> USE DEF IInv, Receive, query, device, caller_
<1>1. /\ Head(devices) \in Entries /\ devices' \in Seq(Entries)
      /\ Head(devices) \in beating
      /\ \A e \in Entries : Holds(devices, e) <=> Holds(devices', e) \/ e = Head(devices)
  BY ReceiveHolds DEF TypeOK, DevicesBeat
<1>2. TypeOK'
  BY <1>1 DEF TypeOK
<1>3. OnlyHandIsLoose' /\ Tidy' /\ HandKnown' /\ EndsAfterQuery'
  BY DEF OnlyHandIsLoose, Tidy, HandKnown, EndsAfterQuery
<1>4. DevicesBeat'
  BY <1>1 DEF DevicesBeat
<1>5. Underway'
  BY <1>1 DEF Underway, Resembles, Holds
<1>6. FoundOrExplained'
  BY <1>1 DEF FoundOrExplained, CutOff, Resembles
<1> QED
  BY <1>2, <1>3, <1>4, <1>5, <1>6

LEMMA DevicesEndIInv == ASSUME IInv, DevicesEnd PROVE IInv'
<1> USE DEF IInv, DevicesEnd, query, device, caller_
<1>1. \A e \in Entries : Resembles(e) => e \in unanswered \cup dropped \/ CutOff(e)
  <2>1. \A e \in Entries : ~Holds(devices, e)
    BY EmptyHolds
  <2>2. hand = None => \A e \in Entries : ~Holds(entries, e) /\ e # hand
    BY EmptyHolds DEF EndsAfterQuery
  <2> QED
    BY <2>1, <2>2 DEF Underway, CutOff
<1>2. FoundOrExplained'
  BY <1>1 DEF FoundOrExplained, CutOff, Resembles, Holds
<1>3. TypeOK' /\ OnlyHandIsLoose' /\ Tidy' /\ HandKnown' /\ EndsAfterQuery'
  BY DEF TypeOK, OnlyHandIsLoose, Tidy, HandKnown, EndsAfterQuery
<1>4. DevicesBeat' /\ Underway'
  BY DEF DevicesBeat, Underway, Holds
<1> QED
  BY <1>2, <1>3, <1>4

LEMMA NextIInv == IInv /\ [Next]_vars => IInv'
<1> SUFFICES ASSUME IInv, [Next]_vars PROVE IInv'
  OBVIOUS
<1>1. ASSUME NEW e \in Entries, Answer(e) PROVE IInv'
  BY <1>1, AnswerIInv
<1>2. CASE CreateDeviceObjects
  BY <1>2, NewRouterIInv, TakeEntryIInv, EntriesEndIInv, NewDeviceIInv, SendDeviceIInv, CrashIInv
     DEF CreateDeviceObjects
<1>3. CASE FindDevice
  BY <1>3, ReceiveIInv, CrashIInv, DevicesEndIInv DEF FindDevice
<1>4. CASE QueryEnds \/ ThreeSeconds
  BY <1>4, QueryEndsIInv, CrashIInv
<1>5. CASE UNCHANGED vars
  BY <1>5 DEF vars, IInv, query, device, caller_, TypeOK, FoundOrExplained, OnlyHandIsLoose,
     Tidy, HandKnown, DevicesBeat, EndsAfterQuery, Underway, Resembles, Holds, CutOff
<1> QED
  BY <1>1, <1>2, <1>3, <1>4, <1>5 DEF Next

LEMMA Inductive == Spec => []IInv
  BY InitIInv, NextIInv, PTL DEF Spec

----------------------------------------------------------------------------

\* Types: entries, devices and steps stay what they are declared to be.
THEOREM TypeCorrect == Spec => []TypeOK
<1>1. IInv => TypeOK
  BY DEF IInv
<1> QED
  BY Inductive, <1>1, PTL

\* FindDevice (DeviceFinder.go:19): what it returns resembles, and a service that
\* it fails to return did not answer, was dropped by mdns, or ended the search, or
\* was still on the chan then, whatever answers and in whatever order.
THEOREM FindsOrExplains == Spec => []FoundOrExplained
<1>1. IInv => FoundOrExplained
  BY DEF IInv
<1> QED
  BY Inductive, <1>1, PTL

\* createDeviceObjects and NewDevice: every way out leaves at most the entry
\* in hand with an open handle or a connection without a heartbeat.
THEOREM LeavesOneLoose == Spec => []OnlyHandIsLoose
<1>1. IInv => OnlyHandIsLoose
  BY DEF IInv
<1> QED
  BY Inductive, <1>1, PTL
=============================================================================
