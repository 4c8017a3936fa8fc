---------------------------- MODULE PacketStream ----------------------------
(***************************************************************************)
(* primitives/PacketStream.go: messages framed on the device's socket as a *)
(* length followed by that many bytes.  Outward, any goroutine may be in   *)
(* write: the dispatcher answering a PING, the heartbeat's ticker, callers *)
(* of Request.  Inward, the one goroutine of readPackets takes the frames  *)
(* apart and hands them to the dispatcher over an unbuffered chan.         *)
(*                                                                         *)
(* The socket is external: one Write puts its bytes on the stream in one   *)
(* piece, and after an error every later Write fails (tls.Conn); one Read  *)
(* returns between one byte and as many as were asked for.                 *)
(***************************************************************************)
EXTENDS Integers, Sequences

CONSTANTS
    Writers,    \* goroutines that call write, once each
    Stream,     \* the device's stream, a unit per length field and per byte of
                \* a body, as the length that a reader would take it for
    Header      \* where in it the lengths are, in order, and where it ends

Messages == 1 .. Len(Header) - 1

Size(k) == Stream[Header[k]]

\* The body of message k, as positions of the stream.
Body(k) == Header[k] + 1 .. Header[k] + Size(k)

\* The messages that are not empty.
Whole == {k \in Messages : Size(k) > 0}

\* The stream is made of frames, one after another.
ASSUME PacketStreamAssumption ==
    /\ Stream \in Seq(Nat)
    /\ Header \in Seq(1 .. Len(Stream) + 1) /\ Header # << >>
    /\ Header[1] = 1 /\ Header[Len(Header)] = Len(Stream) + 1
    /\ \A k \in Messages : Header[k + 1] = Header[k] + Size(k) + 1
    /\ \A j, k \in 1 .. Len(Header) : j < k => Header[j] < Header[k]

VARIABLES
    wpc,        \* wpc[w]: where writer w is in write
    out,        \* the pieces on the stream to the device
    broken,     \* the socket failed for writing
    met,        \* history: met[w]: the writers that were in write along with w
    arrived,    \* how much of the device's stream is here to be read
    ended,      \* the device's side ended or failed
    rpc,        \* where readPackets is
    pos,        \* how much of the device's stream has been read
    length,     \* the length it read last
    packet,     \* the packet it holds, as a set of stream positions
    delivered   \* the packets the dispatcher received

writeVars == <<wpc, out, broken, met>>
readVars == <<arrived, ended, rpc, pos, length, packet, delivered>>
packetVars == <<writeVars, readVars>>

Piece == [of : Writers, part : {"length", "body"}]

PacketInit ==
    /\ wpc = [w \in Writers |-> "ready"]
    /\ out = << >>
    /\ broken = FALSE
    /\ met = [w \in Writers |-> {}]
    /\ arrived = 0
    /\ ended = FALSE
    /\ rpc = "length"
    /\ pos = 0
    /\ length = 0
    /\ packet = {}
    /\ delivered = << >>

----------------------------------------------------------------------------
(* write *)

Writing(w) == wpc[w] \in {"length", "body"}

WriterGoes(w, from, to) == wpc[w] = from /\ wpc' = [wpc EXCEPT ![w] = to]

Puts(w, part) == out' = Append(out, [of |-> w, part |-> part])

Begin(w) ==
    /\ WriterGoes(w, "ready", "length")
    /\ met' = [v \in Writers |->
                  IF v = w THEN met[w] \cup {u \in Writers : Writing(u)}
                  ELSE IF Writing(v) THEN met[v] \cup {w} ELSE met[v]]
    /\ UNCHANGED <<out, broken, readVars>>

WriteLength(w) ==
    /\ WriterGoes(w, "length", "body")
    /\ ~broken
    /\ Puts(w, "length")
    /\ UNCHANGED <<broken, met, readVars>>

WriteLengthFails(w) ==
    /\ WriterGoes(w, "length", "error")
    /\ broken' = TRUE
    /\ UNCHANGED <<out, met, readVars>>

WriteBody(w) ==
    /\ WriterGoes(w, "body", "done")
    /\ ~broken
    /\ Puts(w, "body")
    /\ UNCHANGED <<broken, met, readVars>>

WriteBodyFails(w) ==
    /\ WriterGoes(w, "body", "error")
    /\ broken' = TRUE
    /\ UNCHANGED <<out, met, readVars>>

----------------------------------------------------------------------------
(* readPackets *)

Available == arrived - pos

Arrive ==
    /\ ~ended
    /\ arrived < Len(Stream)
    /\ arrived' = arrived + 1
    /\ UNCHANGED <<writeVars, ended, rpc, pos, length, packet, delivered>>

\* The device closes, the network fails, or Client.Close closes the socket.
End ==
    /\ ~ended
    /\ ended' = TRUE
    /\ UNCHANGED <<writeVars, arrived, rpc, pos, length, packet, delivered>>

\* binary.Read waits for the whole length field.  A message of length 0 has no
\* body and is skipped.
ReadLength ==
    /\ rpc = "length"
    /\ Available > 0
    /\ pos' = pos + 1
    /\ length' = Stream[pos + 1]
    /\ rpc' = IF length' > 0 THEN "body" ELSE "length"
    /\ UNCHANGED <<writeVars, arrived, ended, packet, delivered>>

\* A single Read, which may return n bytes where length were asked for.
Take(n) ==
    /\ rpc = "body"
    /\ n <= Available
    /\ pos' = pos + n
    /\ packet' = (pos + 1) .. (pos + n)

ReadBody ==
    /\ Take(length)
    /\ rpc' = "deliver"
    /\ UNCHANGED <<writeVars, arrived, ended, length, delivered>>

\* Slip: no comparison of what Read returned with the length.
ShortReadAccepted ==
    /\ \E n \in 1 .. length - 1 : Take(n)
    /\ rpc' = "deliver"
    /\ UNCHANGED <<writeVars, arrived, ended, length, delivered>>

\* "Invalid packet size": the goroutine returns, for ever.
ShortRead ==
    /\ \E n \in 1 .. length - 1 : Take(n)
    /\ rpc' = "stopped"
    /\ UNCHANGED <<writeVars, arrived, ended, length, delivered>>

ReadFails ==
    /\ rpc \in {"length", "body"}
    /\ ended
    /\ rpc' = "stopped"
    /\ UNCHANGED <<writeVars, arrived, ended, pos, length, packet, delivered>>

\* Slip: a packet is dropped when the dispatcher is not in read.
DeliverOrDrop ==
    /\ rpc = "deliver"
    /\ delivered' \in {delivered, Append(delivered, packet)}
    /\ packet' = {}
    /\ rpc' = "length"
    /\ UNCHANGED <<writeVars, arrived, ended, pos, length>>

\* The send on packets meets the dispatcher's receive in read.
Deliver ==
    /\ rpc = "deliver"
    /\ delivered' = Append(delivered, packet)
    /\ packet' = {}
    /\ rpc' = "length"
    /\ UNCHANGED <<writeVars, arrived, ended, pos, length>>

----------------------------------------------------------------------------

\* Slip: the body is written in front of its length.
BodyFirst(w) ==
    \/ Begin(w)
    \/ WriteLengthFails(w)
    \/ WriteBodyFails(w)
    \/ /\ WriterGoes(w, "length", "body") /\ Puts(w, "body")
       /\ ~broken /\ UNCHANGED <<broken, met, readVars>>
    \/ /\ WriterGoes(w, "body", "done") /\ Puts(w, "length")
       /\ ~broken /\ UNCHANGED <<broken, met, readVars>>

Write(w) ==
    \/ Begin(w)
    \/ WriteLength(w)
    \/ WriteLengthFails(w)
    \/ WriteBody(w)
    \/ WriteBodyFails(w)

ReadPackets == ReadLength \/ ReadBody \/ ShortRead \/ ReadFails \/ Deliver

PacketNext ==
    \/ \E w \in Writers : Write(w)
    \/ Arrive
    \/ End
    \/ ReadPackets

PacketSpec == PacketInit /\ [][PacketNext]_packetVars

(***************************************************************************)
(* The reading goroutine is scheduled: what is there to be read is read.   *)
(* Nothing is assumed of Deliver, which waits for the dispatcher: that may *)
(* be held up for ever in a listener, a write or a hand-over (Channel).    *)
(***************************************************************************)
FairPacketSpec ==
    /\ PacketSpec
    /\ WF_packetVars(ReadLength)
    /\ WF_packetVars(ReadBody \/ ShortRead)
    /\ WF_packetVars(ReadFails)

----------------------------------------------------------------------------
(* Properties *)

\* q goes on with the frame that p began, or begins the next.
Follows(p, q) ==
    \/ p.part = "length" /\ q = [of |-> p.of, part |-> "body"]
    \/ p.part = "body" /\ q.part = "length"

\* "Sends events to the stream to be read" (PacketStream.go:60): what the
\* device reads is a sequence of frames, the last one perhaps unfinished.
\* Only two writers that were in write at the same time can put a piece of the
\* one where the device expects the other's: no third writer, no failed length
\* or body breaks the framing, nor does one overlap break it for the writes
\* that met nobody.
FramedUnlessOverlapping ==
    /\ out # << >> => out[1].part = "length"
    /\ \A i \in 1 .. Len(out) - 1 :
          Follows(out[i], out[i + 1]) \/ out[i + 1].of \in met[out[i].of]

\* What read returns are the device's messages, each whole, in order, none
\* skipped but the empty ones: before a message come those sent before it.
DeliveredInOrder ==
    \A i \in 1 .. Len(delivered) :
        \E k \in Whole :
            /\ delivered[i] = Body(k)
            /\ \A j \in Whole : j < k <=> \E h \in 1 .. i - 1 : delivered[h] = Body(j)

\* As long as the dispatcher comes back to read, every message that arrived is
\* delivered, unless the reader stopped.
ArrivedIsDelivered ==
    ([]<>(rpc # "deliver")) =>
        \A k \in Whole :
            (\A j \in Body(k) : j <= arrived) ~>
                ((\E i \in 1 .. Len(delivered) : delivered[i] = Body(k)) \/ rpc = "stopped")
=============================================================================
