---------------------------- MODULE StreamProofs ----------------------------
(***************************************************************************)
(* The two kinds of stream.  For any number of broadcasters and connections*)
(* and a file of any size: one Broadcast of the pool runs at a time, what a*)
(* writer that kept up sends its client is one buffer as some broadcaster  *)
(* read it, and one broadcaster sends no part twice.  For any number of    *)
(* calls of Start, Restart and Stop of a transcoding stream: the mutex has *)
(* one Unlock per Lock, a stopped stream stays stopped, a running one has  *)
(* its index, and what survives a Stop was replaced by a Restart.          *)
(***************************************************************************)
EXTENDS AudioStream, Streamer, FiniteSetTheorems, TLAPS

----------------------------------------------------------------------------
(* AudioStream *)

\* A buffer never holds what the broadcaster has not read yet, so the leftover
\* in its second half is older than its first; past a read it is readable.
BuffersRead ==
    \A b \in Broadcasters :
        /\ buffer[b][1] <= offset[b] /\ buffer[b][2] <= offset[b]
        /\ bpc[b] \in {"lock", "serve"} => buffer[b] \in Readable

\* Only the holder of the mutex has copied anything it did not offer yet, and
\* it does not let go before it offered it.
CopiesUnderLock ==
    \A b \in Broadcasters :
        copied[b] \subseteq left[b] /\ (copied[b] # {} => bpc[b] = "serve")

\* From the copy to the offer, the connection of an idle writer holds just the
\* buffer that was copied.
CopiedIsHeld ==
    \A b \in Broadcasters, c \in Connections :
        c \in copied[b] /\ ~raced[c] =>
            ~InUse(c) /\ \E r \in Readable : held[c] = Just(r)

IInv ==
    /\ TypeOK
    /\ OneBroadcastAtATime
    /\ BuffersRead
    /\ CopiesUnderLock
    /\ CopiedIsHeld
    /\ WriterHoldsOneBuffer

USE AudioStreamAssumption

LEMMA InitIInv == Init => IInv
<1> SUFFICES ASSUME Init PROVE IInv
  OBVIOUS
<1>1. TypeOK
  <2>1. /\ written \in 0 .. FileSize /\ 0 \in Half
        /\ bpc \in [Broadcasters -> {"off", "tick", "lock", "serve", "spin"}]
        /\ offset \in [Broadcasters -> 0 .. written]
        /\ mu \in Broadcasters \cup {Nobody} /\ pool \subseteq Connections
    BY DEF Init, Half
  <2>2. /\ left \in [Broadcasters -> SUBSET Connections]
        /\ copied \in [Broadcasters -> SUBSET Connections]
    BY DEF Init
  <2>3. /\ cpc \in [Connections ->
                 {"none", "join", "receive", "write", "clear", "delete", "gone"}]
        /\ raced \in [Connections -> BOOLEAN]
    BY DEF Init
  <2>4. Silence \in Half \X Half /\ <<{0}, {0}>> \in (SUBSET Half) \X (SUBSET Half)
    BY <2>1 DEF Silence
  <2>5. /\ buffer \in [Broadcasters -> Half \X Half]
        /\ held \in [Connections -> (SUBSET Half) \X (SUBSET Half)]
    BY <2>4, Zenon DEF Init
  <2>6. heard \in [Connections -> Half]
    BY <2>1 DEF Init
  <2> QED
    BY <2>1, <2>2, <2>3, <2>5, <2>6 DEF TypeOK
<1>2. OneBroadcastAtATime /\ CopiesUnderLock
  BY DEF Init, OneBroadcastAtATime, CopiesUnderLock
<1>3. CopiedIsHeld /\ WriterHoldsOneBuffer
  BY DEF Init, CopiedIsHeld, WriterHoldsOneBuffer
<1>4. BuffersRead
  <2> SUFFICES ASSUME NEW b \in Broadcasters
               PROVE  /\ buffer[b][1] <= offset[b] /\ buffer[b][2] <= offset[b]
                      /\ bpc[b] \notin {"lock", "serve"}
    BY DEF BuffersRead
  <2>1. buffer[b] = <<0, 0>> /\ offset[b] = 0 /\ bpc[b] = "off"
    BY Zenon DEF Init, Silence
  <2> QED
    BY <2>1
<1> QED
  BY <1>1, <1>2, <1>3, <1>4 DEF IInv

\* Every step keeps the types.
LEMMA TypePreserved == TypeOK /\ [Next]_vars => TypeOK'
<1> SUFFICES ASSUME TypeOK, [Next]_vars PROVE TypeOK'
  OBVIOUS
<1>1. CASE Transcode
  BY <1>1 DEF TypeOK, Transcode, broadcasterVars, writerVars
<1>2. ASSUME NEW b \in Broadcasters, Connect(b) \/ ConnectFails(b) PROVE TypeOK'
  BY <1>2 DEF TypeOK, Connect, ConnectFails, Goes, writerVars
<1>3. ASSUME NEW b \in Broadcasters, Read(b) PROVE TypeOK'
  <2>1. offset' \in [Broadcasters -> 0 .. written']
    <3>1. offset[b] \in 0 .. written /\ written \in Nat /\ written' = written
      BY <1>3 DEF TypeOK, Read
    <3>2. offset[b] + 1 \in 0 .. written
      BY <1>3, <3>1 DEF Read
    <3>3. CASE offset[b] + 1 < written
      <4>1. offset' = [offset EXCEPT ![b] = offset[b] + 2] /\ offset[b] + 2 \in 0 .. written
        BY <1>3, <3>1, <3>3 DEF Read
      <4> QED
        BY <3>1, <4>1 DEF TypeOK
    <3>4. CASE ~(offset[b] + 1 < written)
      <4>1. offset' = [offset EXCEPT ![b] = offset[b] + 1]
        BY <1>3, <3>4 DEF Read
      <4> QED
        BY <3>1, <3>2, <4>1 DEF TypeOK
    <3> QED
      BY <3>3, <3>4
  <2>2. buffer' \in [Broadcasters -> Half \X Half]
    BY <1>3 DEF TypeOK, Read, Half
  <2> QED
    BY <1>3, <2>1, <2>2 DEF TypeOK, Read, Goes, writerVars
<1>4. ASSUME NEW b \in Broadcasters, EndOfFile(b) PROVE TypeOK'
  BY <1>4 DEF TypeOK, EndOfFile, Silence, Half, writerVars
<1>5. ASSUME NEW b \in Broadcasters, Lock(b) PROVE TypeOK'
  BY <1>5 DEF TypeOK, Lock, Goes, writerVars
<1>6. ASSUME NEW b \in Broadcasters, NEW c \in Connections, Copy(b, c) PROVE TypeOK'
  <2>1. held' \in [Connections -> (SUBSET Half) \X (SUBSET Half)]
    <3>1. buffer[b][1] \in Half /\ buffer[b][2] \in Half
      BY DEF TypeOK
    <3>2. held[c][1] \in SUBSET Half /\ held[c][2] \in SUBSET Half
      BY DEF TypeOK
    <3> QED
      BY <1>6, <3>1, <3>2 DEF TypeOK, Copy, Just
  <2>2. raced' \in [Connections -> BOOLEAN]
    BY <1>6 DEF TypeOK, Copy, InUse
  <2>3. copied' \in [Broadcasters -> SUBSET Connections]
    BY <1>6 DEF TypeOK, Copy
  <2> QED
    BY <1>6, <2>1, <2>2, <2>3 DEF TypeOK, Copy
<1>7. ASSUME NEW b \in Broadcasters, NEW c \in Connections, Send(b, c) \/ Skip(b, c) PROVE TypeOK'
  <2>1. /\ copied' \in [Broadcasters -> SUBSET Connections]
        /\ left' \in [Broadcasters -> SUBSET Connections]
    <3>1. /\ copied' = [copied EXCEPT ![b] = copied[b] \ {c}]
          /\ left' = [left EXCEPT ![b] = left[b] \ {c}]
      BY <1>7 DEF Send, Skip, Served
    <3>2. copied[b] \ {c} \in SUBSET Connections /\ left[b] \ {c} \in SUBSET Connections
      BY DEF TypeOK
    <3>3. copied \in [Broadcasters -> SUBSET Connections] /\ left \in [Broadcasters -> SUBSET Connections]
      BY DEF TypeOK
    <3> QED
      BY <3>1, <3>2, <3>3
  <2>2. cpc' \in [Connections -> {"none", "join", "receive", "write", "clear", "delete", "gone"}]
    BY <1>7 DEF TypeOK, Send, Skip, Becomes
  <2>3. UNCHANGED <<written, bpc, offset, buffer, mu, pool, held, raced, heard>>
    BY <1>7 DEF Send, Skip, Served
  <2> QED
    BY <2>1, <2>2, <2>3 DEF TypeOK
<1>8. ASSUME NEW b \in Broadcasters, Unlock(b) PROVE TypeOK'
  BY <1>8 DEF TypeOK, Unlock, Goes, writerVars
<1>9. ASSUME NEW c \in Connections, Request(c) \/ Join(c) \/ WriteFails(c) \/ Delete(c) PROVE TypeOK'
  BY <1>9 DEF TypeOK, Request, Join, WriteFails, Delete, Becomes, broadcasterVars
<1>10. ASSUME NEW c \in Connections, Write(c) PROVE TypeOK'
  <2>1. PICK x \in held[c][1], y \in held[c][2] :
           heard' = [heard EXCEPT ![c] = Further(heard[c], Further(x, y))]
    BY <1>10 DEF Write
  <2>2. x \in Half /\ y \in Half
    BY <2>1 DEF TypeOK
  <2>3. heard' \in [Connections -> Half]
    BY <2>1, <2>2 DEF TypeOK, Further
  <2> QED
    BY <1>10, <2>3 DEF TypeOK, Write, Becomes, broadcasterVars
<1>11. ASSUME NEW c \in Connections, Clear(c) PROVE TypeOK'
  <2>1. held' \in [Connections -> (SUBSET Half) \X (SUBSET Half)]
    <3>1. held[c][1] \in SUBSET Half /\ held[c][2] \in SUBSET Half
      BY DEF TypeOK
    <3>2. 0 \in Half
      BY DEF Half
    <3> QED
      BY <1>11, <3>1, <3>2 DEF TypeOK, Clear, Just, Silence
  <2> QED
    BY <1>11, <2>1 DEF TypeOK, Clear, Becomes, broadcasterVars
<1>12. CASE UNCHANGED vars
  BY <1>12 DEF TypeOK, vars, broadcasterVars, writerVars
<1> QED
  BY <1>1, <1>2, <1>3, <1>4, <1>5, <1>6, <1>7, <1>8, <1>9, <1>10, <1>11, <1>12
     DEF Next, Broadcast, StreamWriter

\* The invariant holds forever, one action at a time.
LEMMA StepIInv == IInv /\ [Next]_vars => IInv'
<1> SUFFICES ASSUME IInv, [Next]_vars PROVE IInv'
  OBVIOUS
<1> USE DEF IInv
<1>0. TypeOK'
  BY TypePreserved
<1>1. CASE Transcode
  <2>1. UNCHANGED <<broadcasterVars, writerVars>>
    BY <1>1 DEF Transcode
  <2> QED
    BY <1>0, <2>1 DEF broadcasterVars, writerVars, OneBroadcastAtATime, BuffersRead,
       CopiesUnderLock, CopiedIsHeld, WriterHoldsOneBuffer, InUse
<1>2. ASSUME NEW b \in Broadcasters, Connect(b) \/ ConnectFails(b) PROVE IInv'
  <2>1. /\ UNCHANGED <<written, offset, buffer, left, copied, mu, writerVars>>
        /\ bpc[b] = "off" /\ bpc'[b] \in {"tick", "spin"}
        /\ \A a \in Broadcasters : a # b => bpc'[a] = bpc[a]
    BY <1>2 DEF TypeOK, Connect, ConnectFails, Goes
  <2>2. OneBroadcastAtATime' /\ BuffersRead' /\ CopiesUnderLock'
    BY <2>1 DEF OneBroadcastAtATime, BuffersRead, CopiesUnderLock
  <2>3. CopiedIsHeld' /\ WriterHoldsOneBuffer'
    BY <2>1 DEF writerVars, CopiedIsHeld, WriterHoldsOneBuffer, InUse
  <2> QED
    BY <1>0, <2>2, <2>3
<1>3. ASSUME NEW b \in Broadcasters, Read(b) PROVE IInv'
  <2>1. UNCHANGED <<written, left, copied, mu, writerVars>> /\ Goes(b, "tick", "lock")
    BY <1>3 DEF Read
  <2>2. BuffersRead'
    <3>1. /\ offset[b] \in Nat /\ buffer[b][1] <= offset[b] /\ buffer[b][2] <= offset[b]
          /\ buffer[b][1] \in Half /\ buffer[b][2] \in Half
      BY DEF TypeOK, BuffersRead
    <3>2. /\ buffer'[b] \in Readable
          /\ buffer'[b][1] <= offset'[b] /\ buffer'[b][2] <= offset'[b]
      <4>1. written \in 0 .. FileSize /\ offset[b] < written
        BY <1>3 DEF TypeOK, Read
      <4>2. CASE offset[b] + 1 < written
        <5>1. buffer'[b] = <<offset[b] + 1, offset[b] + 2>> /\ offset'[b] = offset[b] + 2
          BY <1>3, <4>2 DEF TypeOK, Read
        <5> QED
          BY <3>1, <4>1, <4>2, <5>1 DEF Readable, Half
      <4>3. CASE ~(offset[b] + 1 < written)
        <5>1. buffer'[b] = <<offset[b] + 1, buffer[b][2]>> /\ offset'[b] = offset[b] + 1
          BY <1>3, <4>3 DEF TypeOK, Read
        <5> QED
          BY <3>1, <4>1, <5>1 DEF Readable, Half
      <4> QED
        BY <4>2, <4>3
    <3>3. ASSUME NEW a \in Broadcasters, a # b
          PROVE buffer'[a] = buffer[a] /\ offset'[a] = offset[a] /\ bpc'[a] = bpc[a]
      BY <1>3, <3>3 DEF TypeOK, Read, Goes
    <3> QED
      BY <3>2, <3>3 DEF BuffersRead
  <2> QED
    BY <1>0, <2>1, <2>2 DEF TypeOK, Goes, writerVars, OneBroadcastAtATime, CopiesUnderLock,
       CopiedIsHeld, WriterHoldsOneBuffer, InUse
<1>4. ASSUME NEW b \in Broadcasters, EndOfFile(b) PROVE IInv'
  <2>1. UNCHANGED <<bpc, offset, left, copied, mu, writerVars>>
    BY <1>4 DEF EndOfFile
  <2>2. BuffersRead'
    <3>1. offset[b] \in Nat /\ bpc[b] = "tick"
      BY <1>4 DEF TypeOK, EndOfFile
    <3> QED
      BY <1>4, <2>1, <3>1 DEF TypeOK, BuffersRead, EndOfFile, Silence
  <2> QED
    BY <1>0, <2>1, <2>2 DEF writerVars, OneBroadcastAtATime, CopiesUnderLock, CopiedIsHeld,
       WriterHoldsOneBuffer, InUse
<1>5. ASSUME NEW b \in Broadcasters, Lock(b) PROVE IInv'
  BY <1>0, <1>5 DEF TypeOK, Lock, Goes, writerVars, OneBroadcastAtATime, BuffersRead,
     CopiesUnderLock, CopiedIsHeld, WriterHoldsOneBuffer, InUse
<1>6. ASSUME NEW b \in Broadcasters, NEW c \in Connections, Copy(b, c) PROVE IInv'
  <2>1. /\ UNCHANGED <<offset, buffer, bpc, left, mu, cpc>>
        /\ bpc[b] = "serve" /\ c \in left[b]
        /\ copied' = [copied EXCEPT ![b] = copied[b] \cup {c}]
        /\ raced' = [raced EXCEPT ![c] = InUse(c)]
        /\ \A d \in Connections : d # c => held'[d] = held[d] /\ raced'[d] = raced[d]
    BY <1>6 DEF TypeOK, Copy
  <2>2. ~raced'[c] => ~InUse(c)' /\ \E r \in Readable : held'[c] = Just(r)
    <3> SUFFICES ASSUME ~raced'[c] PROVE ~InUse(c)' /\ \E r \in Readable : held'[c] = Just(r)
      OBVIOUS
    <3>1. ~InUse(c)
      BY <2>1 DEF TypeOK
    <3>2. held'[c] = Just(buffer[b])
      BY <1>6, <3>1 DEF TypeOK, Copy
    <3>3. buffer[b] \in Readable
      BY <2>1 DEF BuffersRead
    <3> QED
      BY <2>1, <3>1, <3>2, <3>3 DEF InUse
  <2>3. CopiedIsHeld'
    <3> SUFFICES ASSUME NEW a \in Broadcasters, NEW d \in Connections,
                        d \in copied'[a], ~raced'[d]
                 PROVE ~InUse(d)' /\ \E r \in Readable : held'[d] = Just(r)
      BY DEF CopiedIsHeld
    <3>1. CASE d = c
      BY <2>2, <3>1
    <3>2. CASE d # c
      <4>1. d \in copied[a]
        BY <2>1, <3>2 DEF TypeOK
      <4> QED
        BY <2>1, <3>2, <4>1 DEF CopiedIsHeld, InUse
    <3> QED
      BY <3>1, <3>2
  <2>4. WriterHoldsOneBuffer'
    BY <2>1, <2>2 DEF WriterHoldsOneBuffer
  <2> QED
    BY <1>0, <2>1, <2>3, <2>4 DEF TypeOK, OneBroadcastAtATime, BuffersRead, CopiesUnderLock
<1>7. ASSUME NEW b \in Broadcasters, NEW c \in Connections, Send(b, c) \/ Skip(b, c) PROVE IInv'
  <2>1. /\ UNCHANGED <<offset, buffer, bpc, mu, held, raced>>
        /\ bpc[b] = "serve" /\ c \in copied[b]
        /\ copied' = [copied EXCEPT ![b] = copied[b] \ {c}]
        /\ left' = [left EXCEPT ![b] = left[b] \ {c}]
    BY <1>7 DEF Send, Skip, Served
  <2>2. \A a \in Broadcasters : a # b => copied[a] = {}
    BY <2>1 DEF OneBroadcastAtATime, CopiesUnderLock
  <2>3. \A a \in Broadcasters : copied'[a] \subseteq copied[a] /\ c \notin copied'[a]
    BY <2>1, <2>2 DEF TypeOK
  <2>4. \A d \in Connections : d # c => cpc'[d] = cpc[d]
    BY <1>7 DEF TypeOK, Send, Skip, Becomes
  <2>5. CopiedIsHeld'
    BY <2>1, <2>3, <2>4 DEF CopiedIsHeld, InUse
  <2>6. WriterHoldsOneBuffer'
    <3>1. ~raced[c] => \E r \in Readable : held[c] = Just(r)
      BY <2>1 DEF CopiedIsHeld
    <3> QED
      BY <2>1, <2>4, <3>1 DEF WriterHoldsOneBuffer
  <2>7. CopiesUnderLock'
    BY <2>1, <2>3 DEF TypeOK, CopiesUnderLock
  <2> QED
    BY <1>0, <2>1, <2>5, <2>6, <2>7 DEF OneBroadcastAtATime, BuffersRead
<1>8. ASSUME NEW b \in Broadcasters, Unlock(b) PROVE IInv'
  <2>1. /\ UNCHANGED <<offset, buffer, left, copied, writerVars>>
        /\ bpc[b] = "serve" /\ bpc'[b] = "tick" /\ left[b] = {} /\ mu' = Nobody
        /\ \A a \in Broadcasters : a # b => bpc'[a] = bpc[a]
    BY <1>8 DEF TypeOK, Unlock, Goes
  <2>2. OneBroadcastAtATime' /\ BuffersRead' /\ CopiesUnderLock'
    BY <2>1 DEF OneBroadcastAtATime, BuffersRead, CopiesUnderLock
  <2>3. CopiedIsHeld' /\ WriterHoldsOneBuffer'
    BY <2>1 DEF writerVars, CopiedIsHeld, WriterHoldsOneBuffer, InUse
  <2> QED
    BY <1>0, <2>2, <2>3
<1>9. ASSUME NEW c \in Connections, Request(c) \/ Join(c) \/ WriteFails(c) \/ Delete(c) PROVE IInv'
  <2>1. /\ UNCHANGED <<broadcasterVars, held, raced>>
        /\ cpc'[c] \notin {"write", "clear"}
        /\ \A d \in Connections : d # c => cpc'[d] = cpc[d]
    BY <1>9 DEF TypeOK, Request, Join, WriteFails, Delete, Becomes
  <2> QED
    BY <1>0, <2>1 DEF broadcasterVars, OneBroadcastAtATime, BuffersRead, CopiesUnderLock,
       CopiedIsHeld, WriterHoldsOneBuffer, InUse
<1>10. ASSUME NEW c \in Connections, Write(c) PROVE IInv'
  <2>1. /\ UNCHANGED <<broadcasterVars, held, raced>>
        /\ cpc[c] = "write" /\ cpc'[c] = "clear"
        /\ \A d \in Connections : d # c => cpc'[d] = cpc[d]
    BY <1>10 DEF TypeOK, Write, Becomes
  <2> QED
    BY <1>0, <2>1 DEF broadcasterVars, OneBroadcastAtATime, BuffersRead, CopiesUnderLock,
       CopiedIsHeld, WriterHoldsOneBuffer, InUse
<1>11. ASSUME NEW c \in Connections, Clear(c) PROVE IInv'
  <2>1. /\ UNCHANGED <<broadcasterVars, raced>>
        /\ cpc[c] = "clear" /\ cpc'[c] = "receive"
        /\ \A d \in Connections : d # c => cpc'[d] = cpc[d] /\ held'[d] = held[d]
    BY <1>11 DEF TypeOK, Clear, Becomes
  <2>2. CopiedIsHeld'
    BY <2>1 DEF broadcasterVars, CopiedIsHeld, InUse
  <2>3. WriterHoldsOneBuffer'
    BY <2>1 DEF WriterHoldsOneBuffer
  <2> QED
    BY <1>0, <2>1, <2>2, <2>3 DEF broadcasterVars, OneBroadcastAtATime, BuffersRead, CopiesUnderLock
<1>12. CASE UNCHANGED vars
  BY <1>0, <1>12 DEF vars, broadcasterVars, writerVars, OneBroadcastAtATime, BuffersRead,
     CopiesUnderLock, CopiedIsHeld, WriterHoldsOneBuffer, InUse
<1> QED
  BY <1>1, <1>2, <1>3, <1>4, <1>5, <1>6, <1>7, <1>8, <1>9, <1>10, <1>11, <1>12
     DEF Next, Broadcast, StreamWriter

\* The inductive invariant of the pool: mutex, copies and writers agree.
THEOREM StreamInvariant == Spec => []IInv
<1> QED
  BY InitIInv, StepIInv, PTL DEF Spec

\* Every variable keeps its type: buffers hold halves of the file or silence.
THEOREM StreamTyped == Spec => []TypeOK
<1>1. IInv => TypeOK
  BY DEF IInv
<1> QED
  BY <1>1, StreamInvariant, PTL

\* ConnectionPool: one goroutine at a time is between Lock and Unlock.
THEOREM PoolIsLocked == Spec => []OneBroadcastAtATime
<1>1. IInv => OneBroadcastAtATime
  BY DEF IInv
<1> QED
  BY <1>1, StreamInvariant, PTL

\* HandleStream: a client whose writer keeps up is sent whole buffers.
THEOREM BuffersArriveWhole == Spec => []WriterHoldsOneBuffer
<1>1. IInv => WriterHoldsOneBuffer
  BY DEF IInv
<1> QED
  BY <1>1, StreamInvariant, PTL

\* What connection c of the only feeding broadcaster b was sent and what its
\* buffer holds was read before what b is about to copy to it; and what was
\* copied to it while it kept up was read after what its client heard last.
Holds(c) == held[c][1] \cup held[c][2]

Ahead(b, c) ==
    /\ heard[c] <= offset[b] /\ \A x \in Holds(c) : x <= offset[b]
    /\ bpc[b] = "lock" \/ (bpc[b] = "serve" /\ c \in left[b] \ copied[b]) =>
         heard[c] < buffer[b][1] /\ \A x \in Holds(c) : x < buffer[b][1]
    /\ (cpc[c] = "write" \/ c \in copied[b]) /\ ~raced[c] =>
         \A x \in held[c][1] : heard[c] < x

FeederAhead ==
    \A b \in Broadcasters : Feeding \subseteq {b} => \A c \in Connections : Ahead(b, c)

LEMMA InitAhead == Init => FeederAhead
<1> SUFFICES ASSUME Init, NEW b \in Broadcasters, NEW c \in Connections PROVE Ahead(b, c)
  BY DEF FeederAhead
<1> QED
  BY DEF Init, Ahead, Holds

\* A broadcaster that feeds the pool goes on feeding it.
LEMMA FeedersStay == TypeOK /\ [Next]_vars => Feeding \subseteq Feeding'
<1> SUFFICES ASSUME TypeOK, [Next]_vars, NEW a \in Broadcasters, bpc[a] \notin {"off", "spin"}
             PROVE  bpc'[a] \notin {"off", "spin"}
  BY DEF Feeding
<1>1. ASSUME NEW b \in Broadcasters, Connect(b) \/ ConnectFails(b)
      PROVE  bpc'[a] = bpc[a]
  BY <1>1 DEF TypeOK, Connect, ConnectFails, Goes
<1>2. ASSUME NEW b \in Broadcasters, Read(b) \/ Lock(b) \/ Unlock(b)
      PROVE  bpc'[a] \in {bpc[a], "lock", "serve", "tick"}
  BY <1>2 DEF TypeOK, Read, Lock, Unlock, Goes
<1>3. ASSUME NEW b \in Broadcasters, NEW c \in Connections,
             Copy(b, c) \/ Send(b, c) \/ Skip(b, c)
      PROVE  bpc' = bpc
  BY <1>3 DEF Copy, Send, Skip, Served
<1>4. ASSUME NEW c \in Connections, Request(c) \/ StreamWriter(c)
      PROVE  bpc' = bpc
  BY <1>4 DEF Request, StreamWriter, Join, Write, WriteFails, Clear, Delete, broadcasterVars
<1>5. ASSUME NEW b \in Broadcasters, EndOfFile(b) PROVE bpc' = bpc
  BY <1>5 DEF EndOfFile
<1>6. CASE Transcode \/ UNCHANGED vars
  BY <1>6 DEF Transcode, vars, broadcasterVars
<1> QED
  BY <1>1, <1>2, <1>3, <1>4, <1>5, <1>6 DEF Next, Broadcast

\* Every step of the only feeding broadcaster, of ffmpeg and of the writers.
LEMMA AheadKept ==
  ASSUME IInv, [Next]_vars, FeederAhead,
         NEW b \in Broadcasters, Feeding' \subseteq {b}, NEW c \in Connections
  PROVE  Ahead(b, c)'
<1> DEFINE next == buffer[b][1]
           last == heard[c]
<1>1. \A a \in Broadcasters : bpc[a] \notin {"off", "spin"} => a = b
  BY FeedersStay DEF IInv, Feeding
<1>2. Ahead(b, c)
  BY <1>1 DEF FeederAhead, Feeding
<1>3. /\ TypeOK
      /\ offset[b] \in Nat /\ next \in Nat /\ last \in Nat
      /\ \A x \in Holds(c) : x \in Nat
      /\ next <= offset[b] /\ buffer[b][2] \in Nat /\ buffer[b][2] <= offset[b]
      /\ bpc[b] \in {"lock", "serve"} => next > 0
  BY DEF IInv, TypeOK, Half, BuffersRead, Readable, Holds
<1>4. CASE Transcode \/ UNCHANGED vars
  BY <1>2, <1>4 DEF Transcode, vars, broadcasterVars, writerVars, Ahead, Holds
<1>5. ASSUME NEW a \in Broadcasters, Connect(a) \/ ConnectFails(a) PROVE Ahead(b, c)'
  <2>1. /\ UNCHANGED <<offset, buffer, left, copied, cpc, held, raced, heard>>
        /\ bpc'[b] \in {bpc[b], "tick", "spin"}
    BY <1>3, <1>5 DEF TypeOK, Connect, ConnectFails, Goes, writerVars
  <2> QED
    BY <1>2, <2>1 DEF Ahead, Holds
<1>6. ASSUME NEW a \in Broadcasters, Read(a) PROVE Ahead(b, c)'
  <2>1. a = b
    BY <1>1, <1>6 DEF Read, Goes
  <2>2. /\ UNCHANGED <<left, copied, cpc, held, raced, heard>>
        /\ buffer'[b][1] = offset[b] + 1
        /\ offset'[b] \in {offset[b] + 1, offset[b] + 2}
    BY <1>3, <1>6, <2>1 DEF TypeOK, Read, writerVars
  <2>3. last < buffer'[b][1] /\ \A x \in Holds(c) : x < buffer'[b][1]
    BY <1>2, <1>3, <2>2 DEF Ahead, Holds
  <2>4. last <= offset'[b] /\ \A x \in Holds(c) : x <= offset'[b]
    BY <1>2, <1>3, <2>2 DEF Ahead, Holds
  <2> QED
    BY <1>2, <2>2, <2>3, <2>4 DEF Ahead, Holds
<1>7. ASSUME NEW a \in Broadcasters, EndOfFile(a) PROVE Ahead(b, c)'
  <2>1. a = b /\ bpc[b] = "tick"
    BY <1>1, <1>7 DEF EndOfFile
  <2> QED
    BY <1>2, <1>7, <2>1 DEF EndOfFile, writerVars, Ahead, Holds
<1>8. ASSUME NEW a \in Broadcasters, Lock(a) PROVE Ahead(b, c)'
  <2>1. a = b /\ bpc[b] = "lock"
    BY <1>1, <1>8 DEF Lock, Goes
  <2> QED
    BY <1>2, <1>8, <2>1 DEF Lock, writerVars, Ahead, Holds
<1>9. ASSUME NEW a \in Broadcasters, NEW d \in Connections, Copy(a, d) PROVE Ahead(b, c)'
  <2>1. a = b /\ bpc[b] = "serve" /\ d \in left[b] \ copied[b]
    BY <1>1, <1>9 DEF Copy
  <2>2. /\ UNCHANGED <<bpc, offset, buffer, left, cpc, heard>>
        /\ copied'[b] = copied[b] \cup {d}
    BY <1>3, <1>9, <2>1 DEF TypeOK, Copy
  <2>3. CASE d # c
    <3>1. held'[c] = held[c] /\ raced'[c] = raced[c]
      BY <1>3, <1>9, <2>3 DEF TypeOK, Copy
    <3> QED
      BY <1>2, <2>2, <2>3, <3>1 DEF Ahead, Holds
  <2>4. CASE d = c
    <3>1. last < next /\ \A x \in Holds(c) : x < next
      BY <1>2, <2>1, <2>4 DEF Ahead, Holds
    <3>2. Holds(c)' \subseteq Holds(c) \cup {next, buffer[b][2]}
      BY <1>3, <1>9, <2>1, <2>4 DEF TypeOK, Copy, Just, Holds
    <3>3. ~raced'[c] => held'[c][1] = {next}
      BY <1>3, <1>9, <2>1, <2>4 DEF TypeOK, Copy, Just
    <3>4. \A x \in Holds(c)' : x <= offset[b]
      BY <1>2, <1>3, <3>2 DEF Ahead, Holds
    <3>5. ~raced'[c] => \A x \in held'[c][1] : last < x
      BY <3>1, <3>3
    <3>6. c \in copied'[b] /\ bpc'[b] = "serve" /\ heard'[c] = heard[c] /\ offset' = offset
      BY <2>1, <2>2, <2>4
    <3>7. last <= offset[b]
      BY <1>2 DEF Ahead, Holds
    <3> QED
      BY <3>4, <3>5, <3>6, <3>7 DEF Ahead, Holds
  <2> QED
    BY <2>3, <2>4
<1>10. ASSUME NEW a \in Broadcasters, NEW d \in Connections, Send(a, d) \/ Skip(a, d)
       PROVE  Ahead(b, c)'
  <2>1. a = b /\ bpc[b] = "serve" /\ d \in copied[b]
    BY <1>1, <1>10 DEF Send, Skip, Served
  <2>2. /\ UNCHANGED <<bpc, offset, buffer, held, raced, heard>>
        /\ left'[b] = left[b] \ {d} /\ copied'[b] = copied[b] \ {d}
    BY <1>3, <1>10, <2>1 DEF TypeOK, Send, Skip, Served
  <2>3. cpc'[c] = cpc[c] \/ c = d
    BY <1>3, <1>10 DEF TypeOK, Send, Skip, Becomes
  <2> QED
    BY <1>2, <2>1, <2>2, <2>3 DEF Ahead, Holds
<1>11. ASSUME NEW a \in Broadcasters, Unlock(a) PROVE Ahead(b, c)'
  <2>1. a = b
    BY <1>1, <1>11 DEF Unlock, Goes
  <2>2. /\ UNCHANGED <<offset, buffer, left, copied, cpc, held, raced, heard>>
        /\ bpc'[b] = "tick"
    BY <1>3, <1>11, <2>1 DEF TypeOK, Unlock, Goes, writerVars
  <2> QED
    BY <1>2, <2>2 DEF Ahead, Holds
<1>12. ASSUME NEW d \in Connections, Request(d) \/ Join(d) \/ WriteFails(d) \/ Delete(d)
       PROVE  Ahead(b, c)'
  <2>1. /\ UNCHANGED <<broadcasterVars, held, raced, heard>>
        /\ cpc'[c] = "write" => cpc[c] = "write"
    BY <1>3, <1>12 DEF TypeOK, Request, Join, WriteFails, Delete, Becomes
  <2> QED
    BY <1>2, <2>1 DEF broadcasterVars, Ahead, Holds
<1>13. ASSUME NEW d \in Connections, Write(d) PROVE Ahead(b, c)'
  <2>1. UNCHANGED <<broadcasterVars, held, raced>>
    BY <1>13 DEF Write
  <2>2. CASE d # c
    <3>1. cpc'[c] = cpc[c] /\ heard'[c] = heard[c]
      BY <1>3, <1>13, <2>2 DEF TypeOK, Write, Becomes
    <3> QED
      BY <1>2, <2>1, <3>1 DEF broadcasterVars, Ahead, Holds
  <2>3. CASE d = c
    <3>1. /\ cpc[c] = "write" /\ cpc'[c] = "clear"
          /\ heard'[c] = last \/ heard'[c] \in Holds(c)
      BY <1>3, <1>13, <2>3 DEF TypeOK, Write, Becomes, Further, Holds
    <3>2. ~(c \in copied[b] /\ ~raced[c])
      BY <3>1 DEF IInv, CopiedIsHeld, InUse
    <3> QED
      BY <1>2, <2>1, <3>1, <3>2 DEF broadcasterVars, Ahead, Holds
  <2> QED
    BY <2>2, <2>3
<1>14. ASSUME NEW d \in Connections, Clear(d) PROVE Ahead(b, c)'
  <2>1. UNCHANGED <<broadcasterVars, raced, heard>>
    BY <1>14 DEF Clear
  <2>2. CASE d # c
    <3>1. cpc'[c] = cpc[c] /\ held'[c] = held[c]
      BY <1>3, <1>14, <2>2 DEF TypeOK, Clear, Becomes
    <3> QED
      BY <1>2, <2>1, <3>1 DEF broadcasterVars, Ahead, Holds
  <2>3. CASE d = c
    <3>1. cpc[c] = "clear" /\ cpc'[c] = "receive"
      BY <1>3, <1>14, <2>3 DEF TypeOK, Clear, Becomes
    <3>2. Holds(c)' \subseteq Holds(c) \cup {0}
      BY <1>3, <1>14, <2>3 DEF TypeOK, Clear, Just, Silence, Holds
    <3>3. ~(c \in copied[b] /\ ~raced[c])
      BY <3>1 DEF IInv, CopiedIsHeld, InUse
    <3>4. \A x \in Holds(c)' : x \in Holds(c) \/ x = 0
      BY <3>2
    <3>5. \A x \in Holds(c)' : x <= offset[b]
      BY <1>2, <1>3, <3>4 DEF Ahead, Holds
    <3>6. bpc[b] = "lock" \/ (bpc[b] = "serve" /\ c \in left[b] \ copied[b]) =>
            last < next /\ \A x \in Holds(c)' : x < next
      BY <1>2, <1>3, <3>4 DEF Ahead, Holds
    <3> QED
      BY <1>2, <2>1, <3>1, <3>3, <3>5, <3>6 DEF broadcasterVars, Ahead, Holds
  <2> QED
    BY <2>2, <2>3
<1> QED
  BY <1>4, <1>5, <1>6, <1>7, <1>8, <1>9, <1>10, <1>11, <1>12, <1>13, <1>14
     DEF Next, Broadcast, StreamWriter

LEMMA StepAhead == IInv /\ FeederAhead /\ [Next]_vars => FeederAhead'
  BY AheadKept DEF FeederAhead

\* Broadcast, HandleStream: while one broadcaster feeds the pool, what a client
\* whose writer kept up is sent begins behind all it was ever sent.
THEOREM SentFurtherOn == Spec => []HeardMovesOn
<1>1. IInv /\ FeederAhead => HeardMovesOn
  <2> SUFFICES ASSUME IInv, FeederAhead, NEW c \in Connections, cpc[c] = "write", ~raced[c],
                      NEW b \in Broadcasters, Feeding = {b}
               PROVE  \E r \in Readable : held[c] = Just(r) /\ heard[c] < r[1]
    BY DEF HeardMovesOn
  <2>1. PICK r \in Readable : held[c] = Just(r)
    BY DEF IInv, WriterHoldsOneBuffer
  <2>2. \A x \in held[c][1] : heard[c] < x
    BY DEF FeederAhead, Ahead
  <2>3. held[c][1] = {r[1]}
    BY <2>1 DEF Just
  <2> QED
    BY <2>1, <2>2, <2>3
<1>2. Init => IInv /\ FeederAhead
  BY InitIInv, InitAhead
<1>3. IInv /\ FeederAhead /\ [Next]_vars => (IInv /\ FeederAhead)'
  BY StepIInv, StepAhead
<1> QED
  BY <1>1, <1>2, <1>3, PTL DEF Spec

----------------------------------------------------------------------------
(* Streamer *)

\* The calls that have spawned all they will.
Spawned == {k \in Starts : spc[k] \notin {"idle", "restart"}}

\* Each call spawns at most one command, and what comes after CMD is unspawned.
CommandsCounted ==
    /\ cmd <= Cardinality(Spawned) + 1
    /\ \A i \in Commands : i > cmd => ffmpeg[i] = "spawned"

\* A scanner that found the file and can still report it holds the mutex, which
\* keeps Stop from removing the file.
FoundIsThere == \A k \in Starts : scanner[k] = "found" /\ spc[k] = "starting" => index

\* After Stop no Start is under way, and the stream's own command exited, or
\* Stop ended the program.
StoppedCommandExited ==
    /\ ended => mux = Free
    /\ ended /\ ~crashed => ffmpeg[cmd] = "exited"

StreamerInv ==
    /\ StreamerTypeOK
    /\ CommandsCounted
    /\ MutexIsMatched
    /\ StoppedStaysStopped
    /\ RunningHasIndex
    /\ FoundIsThere
    /\ StoppedCommandExited

USE StreamerAssumption

LEMMA CommandsNat == Cardinality(Starts) \in Nat /\ 1 \in Commands
  BY FS_CardinalityType DEF Commands

LEMMA StreamerInvInit == StreamerInit => StreamerInv
<1> SUFFICES ASSUME StreamerInit PROVE StreamerInv
  OBVIOUS
<1>1. Spawned = {}
  BY DEF StreamerInit, Spawned
<1>2. CommandsCounted
  BY <1>1, FS_EmptySet, CommandsNat DEF StreamerInit, CommandsCounted, Commands
<1>3. StreamerTypeOK
  BY CommandsNat DEF StreamerInit, StreamerTypeOK
<1> QED
  BY <1>2, <1>3 DEF StreamerInv, StreamerInit, MutexIsMatched, StoppedStaysStopped, RunningHasIndex,
     FoundIsThere, StoppedCommandExited

\* A call that leaves Spawned alone or joins it: the count does not fall.
LEMMA CountGrows ==
  ASSUME StreamerTypeOK, NEW k \in Starts,
         \/ Spawned' = Spawned
         \/ k \notin Spawned /\ Spawned' = Spawned \cup {k}
  PROVE  /\ Cardinality(Spawned) \in Nat
         /\ Spawned' # Spawned => Cardinality(Spawned') = Cardinality(Spawned) + 1
         /\ Cardinality(Spawned') >= Cardinality(Spawned)
         /\ Cardinality(Spawned') <= Cardinality(Starts)
<1>1. Spawned \subseteq Starts /\ Spawned' \subseteq Starts
  BY DEF Spawned
<1>2. IsFiniteSet(Spawned) /\ Cardinality(Spawned) \in Nat
  BY <1>1, FS_Subset, FS_CardinalityType
<1>3. Cardinality(Spawned') <= Cardinality(Starts)
  BY <1>1, FS_Subset
<1>4. CASE Spawned' = Spawned
  BY <1>2, <1>3, <1>4
<1>5. CASE k \notin Spawned /\ Spawned' = Spawned \cup {k}
  <2>1. Cardinality(Spawned') = Cardinality(Spawned) + 1
    BY <1>2, <1>5, FS_AddElement
  <2> QED
    BY <1>2, <1>3, <2>1
<1> QED
  BY <1>4, <1>5

\* What once.Do does to the mutex, to Running and to the calls.
LEMMA OnceResolves ==
  ASSUME StreamerInv, NEW k \in Starts, NEW outcome \in BOOLEAN, Once(k, outcome),
         UNCHANGED <<index, ended>>, outcome /\ spc[k] = "starting" => index
  PROVE  /\ Spawned' = Spawned
         /\ spc' \in [Starts -> {"idle", "restart", "start", "starting", "resolved"}]
         /\ running' \in BOOLEAN /\ mux' \in Starts \cup {Free}
         /\ MutexIsMatched' /\ StoppedStaysStopped' /\ RunningHasIndex'
         /\ \A j \in Starts : spc'[j] = "starting" => spc[j] = "starting"
<1> USE DEF StreamerInv
<1>1. CASE spc[k] = "starting"
  <2>1. /\ spc' = [spc EXCEPT ![k] = "resolved"] /\ running' = outcome /\ mux' = Free
        /\ mux = k
    BY <1>1 DEF Once, MutexIsMatched
  <2>2. ~ended
    BY <2>1 DEF StoppedCommandExited
  <2> QED
    BY <1>1, <2>1, <2>2 DEF StreamerTypeOK, Spawned, MutexIsMatched, StoppedStaysStopped, RunningHasIndex
<1>2. CASE spc[k] # "starting"
  BY <1>2 DEF Once, StreamerTypeOK, Spawned, MutexIsMatched, StoppedStaysStopped, RunningHasIndex
<1> QED
  BY <1>1, <1>2

\* The invariant holds forever, one action at a time.
LEMMA StreamerInvStep == StreamerInv /\ [StreamerNext]_streamerVars => StreamerInv'
<1> SUFFICES ASSUME StreamerInv, [StreamerNext]_streamerVars PROVE StreamerInv'
  OBVIOUS
<1> USE DEF StreamerInv
<1>1. ASSUME NEW k \in Starts, CallStart(k) \/ CallRestart(k) PROVE StreamerInv'
  <2>1. /\ UNCHANGED <<keepFiles, mux, cmd, ffmpeg, files, running, goroutines, stopped, ended, crashed>>
        /\ spc[k] = "idle"
        /\ \/ spc' = [spc EXCEPT ![k] = "start"]
           \/ spc' = [spc EXCEPT ![k] = "restart"]
    BY <1>1 DEF CallStart, CallRestart, StartGoes
  <2>2. Spawned' = Spawned \/ (k \notin Spawned /\ Spawned' = Spawned \cup {k})
    BY <2>1 DEF StreamerTypeOK, Spawned
  <2>3. CommandsCounted'
    BY <2>1, <2>2, CountGrows DEF StreamerTypeOK, CommandsCounted, Commands
  <2>4. StreamerTypeOK'
    BY <2>1 DEF StreamerTypeOK, files, goroutines
  <2> QED
    BY <2>1, <2>3, <2>4 DEF StreamerTypeOK, files, goroutines, MutexIsMatched, StoppedStaysStopped,
       RunningHasIndex, FoundIsThere, StoppedCommandExited
<1>2. ASSUME NEW k \in Starts, Respawn(k) PROVE StreamerInv'
  <2>1. /\ UNCHANGED <<keepFiles, mux, ffmpeg, index, running, goroutines, stopped, crashed>>
        /\ spc[k] = "restart" /\ spc' = [spc EXCEPT ![k] = "start"]
        /\ cmd' = cmd + 1 /\ directory' = TRUE /\ ended' = FALSE
    BY <1>2 DEF Respawn, StartGoes
  <2>2. k \notin Spawned /\ Spawned' = Spawned \cup {k} /\ Spawned' # Spawned
    BY <2>1 DEF StreamerTypeOK, Spawned
  <2>3. cmd' <= Cardinality(Spawned') + 1 /\ cmd' \in Commands
    <3>1. /\ Cardinality(Spawned) \in Nat
          /\ Cardinality(Spawned') = Cardinality(Spawned) + 1
          /\ Cardinality(Spawned') <= Cardinality(Starts)
      BY <2>2, CountGrows
    <3>2. cmd \in 1 .. Cardinality(Starts) + 1 /\ cmd <= Cardinality(Spawned) + 1
      BY DEF StreamerTypeOK, CommandsCounted, Commands
    <3> QED
      BY <2>1, <3>1, <3>2, CommandsNat DEF Commands
  <2>4. CommandsCounted'
    BY <2>1, <2>3 DEF StreamerTypeOK, CommandsCounted, Commands
  <2>5. StreamerTypeOK'
    BY <2>1, <2>3 DEF StreamerTypeOK, goroutines
  <2> QED
    BY <2>1, <2>4, <2>5 DEF StreamerTypeOK, goroutines, MutexIsMatched, StoppedStaysStopped,
       RunningHasIndex, FoundIsThere, StoppedCommandExited
<1>3. ASSUME NEW k \in Starts, Start(k) PROVE StreamerInv'
  <2>1. /\ UNCHANGED <<keepFiles, cmd, ffmpeg, files, running, ran, stopped, crashed>>
        /\ spc[k] = "start" /\ spc' = [spc EXCEPT ![k] = "starting"]
        /\ mux = Free /\ mux' = k /\ ended' = FALSE
        /\ runner' = [runner EXCEPT ![k] = "ready"]
        /\ scanner' = [scanner EXCEPT ![k] = "scan"]
        /\ timer' = [timer EXCEPT ![k] = "set"]
    BY <1>3 DEF Start, StartGoes
  <2>2. Spawned' = Spawned
    BY <2>1 DEF StreamerTypeOK, Spawned
  <2>3. StreamerTypeOK'
    BY <2>1 DEF StreamerTypeOK, files
  <2> QED
    BY <2>1, <2>2, <2>3 DEF StreamerTypeOK, files, CommandsCounted, MutexIsMatched,
       StoppedStaysStopped, RunningHasIndex, FoundIsThere, StoppedCommandExited
<1>4. ASSUME NEW k \in Starts, Run(k) PROVE StreamerInv'
  <2>1. /\ UNCHANGED <<keepFiles, mux, cmd, files, running, spc, scanner, timer, stopped, ended, crashed>>
        /\ ~crashed
        /\ \/ ffmpeg[cmd] = "spawned" /\ ffmpeg' = [ffmpeg EXCEPT ![cmd] = "running"]
           \/ ffmpeg[cmd] = "spawned" /\ ffmpeg' = [ffmpeg EXCEPT ![cmd] = "failed"]
           \/ ffmpeg[cmd] # "spawned" /\ ffmpeg' = ffmpeg
    BY <1>4 DEF Run
  <2>2. StreamerTypeOK'
    BY <1>4, <2>1 DEF StreamerTypeOK, Run, files
  <2>3. CommandsCounted'
    <3>1. Spawned' = Spawned
      BY <2>1 DEF Spawned
    <3>2. ASSUME NEW i \in Commands, i > cmd PROVE ffmpeg'[i] = "spawned"
      <4>1. i # cmd
        BY <3>2, CommandsNat DEF StreamerTypeOK, Commands
      <4>2. ffmpeg[i] = "spawned"
        BY <3>2 DEF CommandsCounted
      <4> QED
        BY <2>1, <4>1, <4>2 DEF StreamerTypeOK
    <3> QED
      <4>1. cmd' = cmd /\ cmd <= Cardinality(Spawned) + 1
        BY <2>1 DEF CommandsCounted
      <4>2. Commands' = Commands
        BY DEF Commands
      <4> QED
        BY <3>1, <3>2, <4>1, <4>2 DEF CommandsCounted
  <2>4. StoppedCommandExited'
    BY <2>1 DEF StoppedCommandExited
  <2> QED
    BY <2>1, <2>2, <2>3, <2>4 DEF files, MutexIsMatched, StoppedStaysStopped, RunningHasIndex, FoundIsThere
<1>5. ASSUME NEW k \in Starts, RunReturns(k) PROVE StreamerInv'
  <2>1. /\ UNCHANGED <<keepFiles, mux, cmd, ffmpeg, files, running, spc, ran, scanner, timer, stopped, ended, crashed>>
        /\ runner' \in [Starts -> {"none", "ready", "wait", "error", "done"}]
    BY <1>5 DEF StreamerTypeOK, RunReturns
  <2> QED
    BY <2>1 DEF StreamerTypeOK, files, Spawned, CommandsCounted, MutexIsMatched, StoppedStaysStopped,
       RunningHasIndex, FoundIsThere, StoppedCommandExited
<1>6. ASSUME NEW k \in Starts, RunFailed(k) \/ TimeOut(k) PROVE StreamerInv'
  <2>1. /\ UNCHANGED <<keepFiles, cmd, ffmpeg, files, ran, scanner, stopped, ended, crashed>>
        /\ Once(k, FALSE)
        /\ runner' \in [Starts -> {"none", "ready", "wait", "error", "done"}]
        /\ timer' \in [Starts -> {"none", "set", "fired"}]
    BY <1>6 DEF StreamerTypeOK, RunFailed, TimeOut
  <2>2. /\ Spawned' = Spawned
        /\ spc' \in [Starts -> {"idle", "restart", "start", "starting", "resolved"}]
        /\ running' \in BOOLEAN /\ mux' \in Starts \cup {Free}
        /\ MutexIsMatched' /\ StoppedStaysStopped' /\ RunningHasIndex'
        /\ \A j \in Starts : spc'[j] = "starting" => spc[j] = "starting"
    BY <2>1, OnceResolves DEF files
  <2>3. mux' \in {mux, Free}
    BY <2>1 DEF Once
  <2> QED
    BY <2>1, <2>2, <2>3 DEF StreamerTypeOK, files, CommandsCounted, FoundIsThere, StoppedCommandExited
<1>7. ASSUME NEW k \in Starts, Stat(k) PROVE StreamerInv'
  <2>1. /\ UNCHANGED <<keepFiles, mux, cmd, ffmpeg, files, running, spc, runner, ran, timer, stopped, ended, crashed>>
        /\ index
        /\ scanner' = [scanner EXCEPT ![k] = "found"]
    BY <1>7 DEF Stat
  <2> QED
    BY <2>1 DEF StreamerTypeOK, files, Spawned, CommandsCounted, MutexIsMatched, StoppedStaysStopped,
       RunningHasIndex, FoundIsThere, StoppedCommandExited
<1>8. ASSUME NEW k \in Starts, Found(k) PROVE StreamerInv'
  <2>1. /\ UNCHANGED <<keepFiles, cmd, ffmpeg, files, runner, ran, timer, stopped, ended, crashed>>
        /\ Once(k, TRUE) /\ scanner[k] = "found"
        /\ scanner' = [scanner EXCEPT ![k] = "done"]
    BY <1>8 DEF Found
  <2>2. spc[k] = "starting" => index
    BY <2>1 DEF FoundIsThere
  <2>3. /\ Spawned' = Spawned
        /\ spc' \in [Starts -> {"idle", "restart", "start", "starting", "resolved"}]
        /\ running' \in BOOLEAN /\ mux' \in Starts \cup {Free}
        /\ MutexIsMatched' /\ StoppedStaysStopped' /\ RunningHasIndex'
        /\ \A j \in Starts : spc'[j] = "starting" => spc[j] = "starting"
    BY <2>1, <2>2, OnceResolves DEF files
  <2>4. mux' \in {mux, Free}
    BY <2>1 DEF Once
  <2> QED
    BY <2>1, <2>3, <2>4 DEF StreamerTypeOK, files, CommandsCounted, FoundIsThere, StoppedCommandExited
<1>9. ASSUME NEW x \in Stops, Stop(x) PROVE StreamerInv'
  <2>1. /\ UNCHANGED <<keepFiles, mux, cmd, spc, goroutines>>
        /\ mux = Free /\ ~running' /\ ended' = TRUE /\ stopped' = stopped \cup {x}
    BY <1>9 DEF Stop
  <2>2. \/ crashed' = TRUE /\ ffmpeg' = ffmpeg
        \/ crashed' = crashed /\ ffmpeg' = [ffmpeg EXCEPT ![cmd] = "exited"]
    BY <1>9 DEF Stop, Kill, KillPanics
  <2>3. directory' \in BOOLEAN /\ index' \in BOOLEAN /\ running' \in BOOLEAN /\ crashed' \in BOOLEAN
    <3>1. crashed' \in BOOLEAN
      BY <2>2 DEF StreamerTypeOK
    <3>2. directory' \in BOOLEAN /\ index' \in BOOLEAN
      BY <1>9 DEF StreamerTypeOK, Stop, RemoveFiles, files
    <3> QED
      BY <1>9, <3>1, <3>2 DEF Stop
  <2>4. StreamerTypeOK'
    BY <2>1, <2>2, <2>3 DEF StreamerTypeOK, goroutines
  <2>5. MutexIsMatched' /\ FoundIsThere'
    BY <2>1 DEF MutexIsMatched, FoundIsThere, goroutines
  <2>6. CommandsCounted'
    <3>1. Spawned' = Spawned
      BY <2>1 DEF Spawned
    <3>2. ASSUME NEW i \in Commands, i > cmd PROVE ffmpeg'[i] = "spawned"
      <4>1. i # cmd
        BY <3>2, CommandsNat DEF StreamerTypeOK, Commands
      <4>2. ffmpeg[i] = "spawned"
        BY <3>2 DEF CommandsCounted
      <4> QED
        BY <2>2, <4>1, <4>2 DEF StreamerTypeOK
    <3> QED
      <4>1. cmd' = cmd /\ cmd <= Cardinality(Spawned) + 1
        BY <2>1 DEF CommandsCounted
      <4>2. Commands' = Commands
        BY DEF Commands
      <4> QED
        BY <3>1, <3>2, <4>1, <4>2 DEF CommandsCounted
  <2>7. StoppedCommandExited'
    BY <2>1, <2>2 DEF StreamerTypeOK, StoppedCommandExited
  <2> QED
    BY <2>1, <2>4, <2>5, <2>6, <2>7 DEF StoppedStaysStopped, RunningHasIndex
<1>10. ASSUME NEW i \in Commands, WritesIndex(i) PROVE StreamerInv'
  BY <1>10 DEF WritesIndex, StreamerTypeOK, goroutines, Spawned, CommandsCounted, MutexIsMatched,
     StoppedStaysStopped, RunningHasIndex, FoundIsThere, StoppedCommandExited
<1>11. ASSUME NEW i \in Commands, Exits(i) PROVE StreamerInv'
  BY <1>11 DEF Exits, StreamerTypeOK, files, goroutines, Spawned, CommandsCounted, MutexIsMatched,
     StoppedStaysStopped, RunningHasIndex, FoundIsThere, StoppedCommandExited
<1>12. CASE UNCHANGED streamerVars
  BY <1>12 DEF streamerVars, StreamerTypeOK, files, goroutines, Spawned, CommandsCounted, MutexIsMatched,
     StoppedStaysStopped, RunningHasIndex, FoundIsThere, StoppedCommandExited
<1> QED
  BY <1>1, <1>2, <1>3, <1>4, <1>5, <1>6, <1>7, <1>8, <1>9, <1>10, <1>11, <1>12
     DEF StreamerNext, StartStep

\* The inductive invariant of a Stream.
THEOREM StreamerInvariant == StreamerSpec => []StreamerInv
<1> QED
  BY StreamerInvInit, StreamerInvStep, PTL DEF StreamerSpec

\* Every variable of a Stream keeps its type; no call spawns a second command.
THEOREM StreamerTyped == StreamerSpec => []StreamerTypeOK
<1>1. StreamerInv => StreamerTypeOK
  BY DEF StreamerInv
<1> QED
  BY <1>1, StreamerInvariant, PTL

\* Stream.Start: one Unlock for each Lock, from whichever goroutine is first.
THEOREM OneUnlockPerLock == StreamerSpec => []MutexIsMatched
<1>1. StreamerInv => MutexIsMatched
  BY DEF StreamerInv
<1> QED
  BY <1>1, StreamerInvariant, PTL

\* Stream.Stop: no goroutine of an earlier Start sets Running again.
THEOREM StopsForGood == StreamerSpec => []StoppedStaysStopped
<1>1. StreamerInv => StoppedStaysStopped
  BY DEF StreamerInv
<1> QED
  BY <1>1, StreamerInvariant, PTL

\* Stream.Running: only with an index.m3u8 to serve.
THEOREM RunsWithIndex == StreamerSpec => []RunningHasIndex
<1>1. StreamerInv => RunningHasIndex
  BY DEF StreamerInv
<1> QED
  BY <1>1, StreamerInvariant, PTL

\* Stream.Stop: only a Restart leaves a process that Stop does not kill.
THEOREM StopKillsItsOwn == StreamerSpec => []OnlyReplacedSurviveStop
<1>1. StreamerInv => OnlyReplacedSurviveStop
  <2> SUFFICES ASSUME StreamerInv, ended, ~crashed, NEW i \in Commands, ffmpeg[i] = "running"
               PROVE i < cmd
    BY DEF OnlyReplacedSurviveStop
  <2>1. i # cmd /\ ~(i > cmd)
    BY DEF StreamerInv, CommandsCounted, StoppedCommandExited
  <2> QED
    BY <2>1, CommandsNat DEF StreamerInv, StreamerTypeOK, Commands
<1> QED
  BY <1>1, StreamerInvariant, PTL
=============================================================================
