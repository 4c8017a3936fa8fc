----------------------------- MODULE AudioStream -----------------------------
(***************************************************************************)
(* virtual/stream_server.go and the handlers of virtual/device_handlers.go *)
(* that use it: every call of /connect starts a goroutine that reads the   *)
(* transcoded file, one buffer per tick, and broadcasts the buffer to the  *)
(* connections in the pool; every call of /stream puts a connection in the *)
(* pool and writes what it receives to an HTTP client.                     *)
(*                                                                         *)
(* Broadcast copies into the connection's only buffer and passes that very *)
(* buffer on, so it may overwrite what the writer is still working on.  A  *)
(* buffer has two halves, the file one value per half; a half that two     *)
(* goroutines touched at once holds any of the values that met there.      *)
(***************************************************************************)
EXTENDS Integers

CONSTANTS
    Broadcasters,  \* goroutines in GetStreamFromReader, one per /connect
    Connections,   \* connections made by /stream
    Nobody,        \* the mutex of the pool is free
    FileSize       \* bound: how many half buffers ffmpeg writes

ASSUME AudioStreamAssumption ==
    /\ Nobody \notin Broadcasters
    /\ FileSize \in Nat

VARIABLES
    written,   \* how many half buffers ffmpeg wrote to the file
    bpc,       \* bpc[b]: where broadcaster b is
    offset,    \* offset[b]: how much of the file it read
    buffer,    \* buffer[b]: the buffer it reads into
    left,      \* left[b]: the connections its Broadcast has still to serve
    copied,    \* copied[b]: those of them it copied the buffer to
    mu,        \* the broadcaster that holds the pool's mutex
    pool,      \* ConnectionMap
    cpc,       \* cpc[c]: where the writer of connection c is
    held,      \* held[c]: what each half of its buffer may hold
    raced,     \* history: its buffer was copied to while the writer used it
    heard      \* history: heard[c]: the furthest half its client was sent

broadcasterVars == <<bpc, offset, buffer, left, copied, mu>>
writerVars == <<pool, cpc, held, raced, heard>>
vars == <<written, broadcasterVars, writerVars>>

Half == 0 .. FileSize      \* 0: a cleared half
Silence == <<0, 0>>

TypeOK ==
    /\ written \in 0 .. FileSize
    /\ bpc \in [Broadcasters -> {"off", "tick", "lock", "serve", "spin"}]
    /\ offset \in [Broadcasters -> 0 .. written]
    /\ buffer \in [Broadcasters -> Half \X Half]
    /\ left \in [Broadcasters -> SUBSET Connections]
    /\ copied \in [Broadcasters -> SUBSET Connections]
    /\ mu \in Broadcasters \cup {Nobody}
    /\ pool \subseteq Connections
    /\ cpc \in [Connections -> {"none", "join", "receive", "write", "clear", "delete", "gone"}]
    /\ held \in [Connections -> (SUBSET Half) \X (SUBSET Half)]
    /\ raced \in [Connections -> BOOLEAN]
    /\ heard \in [Connections -> Half]

Init ==
    /\ written = 0
    /\ bpc = [b \in Broadcasters |-> "off"]
    /\ offset = [b \in Broadcasters |-> 0]
    /\ buffer = [b \in Broadcasters |-> Silence]
    /\ left = [b \in Broadcasters |-> {}]
    /\ copied = [b \in Broadcasters |-> {}]
    /\ mu = Nobody
    /\ pool = {}
    /\ cpc = [c \in Connections |-> "none"]
    /\ held = [c \in Connections |-> <<{0}, {0}>>]
    /\ raced = [c \in Connections |-> FALSE]
    /\ heard = [c \in Connections |-> 0]

Goes(b, from, to) == bpc[b] = from /\ bpc' = [bpc EXCEPT ![b] = to]

Becomes(c, from, to) == cpc[c] = from /\ cpc' = [cpc EXCEPT ![c] = to]

\* ffmpeg appends to the file, at its own pace.
Transcode ==
    /\ written < FileSize
    /\ written' = written + 1
    /\ UNCHANGED <<broadcasterVars, writerVars>>

----------------------------------------------------------------------------
(* GetStreamFromReader, in a goroutine of its own *)

\* openFileAndStream
Connect(b) ==
    /\ Goes(b, "off", "tick")
    /\ UNCHANGED <<written, offset, buffer, left, copied, mu, writerVars>>

\* The file could not be opened, which is only logged: every Read fails, and
\* every failure leaves one more ticker behind, for ever.
ConnectFails(b) ==
    /\ Goes(b, "off", "spin")
    /\ UNCHANGED <<written, offset, buffer, left, copied, mu, writerVars>>

\* A tick finds a whole buffer, or one half: the other keeps what it held, as
\* the number of bytes read is dropped.
Read(b) ==
    /\ Goes(b, "tick", "lock")
    /\ offset[b] < written
    /\ IF offset[b] + 1 < written
       THEN /\ buffer' = [buffer EXCEPT ![b] = <<offset[b] + 1, offset[b] + 2>>]
            /\ offset' = [offset EXCEPT ![b] = @ + 2]
       ELSE /\ buffer' = [buffer EXCEPT ![b] = <<offset[b] + 1, @[2]>>]
            /\ offset' = [offset EXCEPT ![b] = @ + 1]
    /\ UNCHANGED <<written, left, copied, mu, writerVars>>

\* Slip: the next ticker starts the file again, as it does in GetStream.
EndOfFileRewinds(b) ==
    /\ bpc[b] = "tick"
    /\ offset[b] = written
    /\ offset' = [offset EXCEPT ![b] = 0]
    /\ buffer' = [buffer EXCEPT ![b] = Silence]
    /\ UNCHANGED <<written, bpc, left, copied, mu, writerVars>>

\* io.EOF ends the ticker's loop only: the next ticker goes on where the file
\* ended, with a cleared buffer.
EndOfFile(b) ==
    /\ bpc[b] = "tick"
    /\ offset[b] = written
    /\ buffer' = [buffer EXCEPT ![b] = Silence]
    /\ UNCHANGED <<written, bpc, offset, left, copied, mu, writerVars>>

----------------------------------------------------------------------------
(* ConnectionPool.Broadcast *)

Lock(b) ==
    /\ Goes(b, "lock", "serve")
    /\ mu = Nobody
    /\ mu' = b
    /\ left' = [left EXCEPT ![b] = pool]
    /\ UNCHANGED <<written, offset, buffer, copied, writerVars>>

Just(pair) == <<{pair[1]}, {pair[2]}>>

InUse(c) == cpc[c] \in {"write", "clear"}

Copy(b, c) ==
    /\ bpc[b] = "serve"
    /\ c \in left[b] \ copied[b]
    /\ copied' = [copied EXCEPT ![b] = @ \cup {c}]
    /\ held' = [held EXCEPT ![c] =
          IF InUse(c) THEN <<@[1] \cup {buffer[b][1]}, @[2] \cup {buffer[b][2]}>>
                      ELSE Just(buffer[b])]
    /\ raced' = [raced EXCEPT ![c] = InUse(c)]
    /\ UNCHANGED <<written, bpc, offset, buffer, left, mu, pool, cpc, heard>>

Served(b, c) ==
    /\ bpc[b] = "serve"
    /\ c \in copied[b]
    /\ copied' = [copied EXCEPT ![b] = @ \ {c}]
    /\ left' = [left EXCEPT ![b] = @ \ {c}]
    /\ UNCHANGED <<written, bpc, offset, buffer, mu, pool, held, raced, heard>>

\* Slip: the buffer is sent before it is filled.
SendBeforeCopy(b, c) ==
    /\ Becomes(c, "receive", "write")
    /\ bpc[b] = "serve"
    /\ c \in left[b] \ copied[b]
    /\ UNCHANGED <<written, broadcasterVars, pool, held, raced, heard>>

\* The select's send: the writer is at its receive.
Send(b, c) ==
    /\ Becomes(c, "receive", "write")
    /\ Served(b, c)

\* Slip: the select has no default case.
SkipMissing(b, c) == FALSE

\* The select's default: the writer is elsewhere, the buffer is not sent.
Skip(b, c) ==
    /\ cpc[c] # "receive"
    /\ Served(b, c)
    /\ UNCHANGED cpc

\* Slip: no deferred Unlock.
UnlockForgotten(b) ==
    /\ Goes(b, "serve", "tick")
    /\ left[b] = {}
    /\ UNCHANGED <<written, offset, buffer, left, copied, mu, writerVars>>

Unlock(b) ==
    /\ Goes(b, "serve", "tick")
    /\ left[b] = {}
    /\ mu' = Nobody
    /\ UNCHANGED <<written, offset, buffer, left, copied, writerVars>>

----------------------------------------------------------------------------
(* HandleStream and its stream writer *)

\* A request of a client: HasConnectionWithId compares pointers and never
\* finds the client's earlier connection.
Request(c) ==
    /\ Becomes(c, "none", "join")
    /\ UNCHANGED <<written, broadcasterVars, pool, held, raced, heard>>

\* AddConnection; the body writer starts once the handler returned.
Join(c) ==
    /\ Becomes(c, "join", "receive")
    /\ mu = Nobody
    /\ pool' = pool \cup {c}
    /\ UNCHANGED <<written, broadcasterVars, held, raced, heard>>

Further(m, n) == IF m < n THEN n ELSE m

Write(c) ==
    /\ Becomes(c, "write", "clear")
    /\ \E x \in held[c][1], y \in held[c][2] :
           heard' = [heard EXCEPT ![c] = Further(@, Further(x, y))]
    /\ UNCHANGED <<written, broadcasterVars, pool, held, raced>>

\* The client went away.
WriteFails(c) ==
    /\ Becomes(c, "write", "delete")
    /\ UNCHANGED <<written, broadcasterVars, pool, held, raced, heard>>

\* ClearBuffer: what a Broadcast copied meanwhile may be cleared or not.
Clear(c) ==
    /\ Becomes(c, "clear", "receive")
    /\ held' = [held EXCEPT ![c] =
          IF raced[c] THEN <<@[1] \cup {0}, @[2] \cup {0}>> ELSE Just(Silence)]
    /\ UNCHANGED <<written, broadcasterVars, pool, raced, heard>>

\* DeleteConnection
Delete(c) ==
    /\ Becomes(c, "delete", "gone")
    /\ mu = Nobody
    /\ pool' = pool \ {c}
    /\ UNCHANGED <<written, broadcasterVars, held, raced, heard>>

----------------------------------------------------------------------------

Broadcast(b) ==
    \/ Lock(b)
    \/ \E c \in Connections : Copy(b, c) \/ Send(b, c) \/ Skip(b, c)
    \/ Unlock(b)

StreamWriter(c) == Join(c) \/ Write(c) \/ WriteFails(c) \/ Clear(c) \/ Delete(c)

Next ==
    \/ Transcode
    \/ \E b \in Broadcasters :
          Connect(b) \/ ConnectFails(b) \/ Read(b) \/ EndOfFile(b) \/ Broadcast(b)
    \/ \E c \in Connections : Request(c) \/ StreamWriter(c)

Spec == Init /\ [][Next]_vars

(***************************************************************************)
(* Goroutines are scheduled and sync.Mutex is starvation free.  Nothing is *)
(* assumed of the clients: Write and WriteFails may block for ever on one  *)
(* that does not read.                                                     *)
(***************************************************************************)
FairSpec ==
    /\ Spec
    /\ \A b \in Broadcasters : SF_vars(Broadcast(b))
    /\ \A c \in Connections : SF_vars(Join(c)) /\ SF_vars(Delete(c))

----------------------------------------------------------------------------
(* Properties *)

\* What one buffer of a broadcaster can hold: two consecutive halves of the
\* file, or, after a short read, one half and the leftover of an earlier read.
Readable == {r \in Half \X Half : r[1] > 0 /\ (r[2] = r[1] + 1 \/ r[2] < r[1])}

\* A writer that kept up with the ticks sends its client one buffer as it was
\* read: nothing cleared, mixed from two broadcasts or left from the last one.
WriterHoldsOneBuffer ==
    \A c \in Connections :
        cpc[c] = "write" /\ ~raced[c] =>
            \E r \in Readable : held[c] = Just(r)

\* The pool's mutex is held exactly by the one Broadcast under way.
OneBroadcastAtATime ==
    \A b \in Broadcasters : bpc[b] = "serve" <=> mu = b

\* The broadcasters that can have sent anything.
Feeding == {b \in Broadcasters : bpc[b] \notin {"off", "spin"}}

\* With one broadcaster, a writer that kept up sends its client on in the file,
\* however slow the client is and whatever it missed or got garbled before: the
\* first half of the buffer lies behind everything the client was ever sent, and
\* the second follows it - or is older, the leftover that a short read drops the
\* length of (stream_server.go:189), and the only thing a client can hear again.
HeardMovesOn ==
    \A c \in Connections :
        cpc[c] = "write" /\ ~raced[c] /\ (\E b \in Broadcasters : Feeding = {b}) =>
            \E r \in Readable : held[c] = Just(r) /\ heard[c] < r[1]

\* A slow or stuck client holds up nobody: Broadcast returns, so the other
\* clients are served and the mutex is free for those who come and leave.
BroadcastReturns ==
    \A b \in Broadcasters : bpc[b] = "lock" ~> bpc[b] = "tick"

ClientsJoinAndLeave ==
    \A c \in Connections :
        /\ cpc[c] = "join" ~> c \in pool
        /\ cpc[c] = "delete" ~> c \notin pool
=============================================================================
