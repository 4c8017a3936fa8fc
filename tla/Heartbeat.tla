------------------------------ MODULE Heartbeat ------------------------------
(***************************************************************************)
(* controllers/HeartbeatController.go: Start makes a ticker and a          *)
(* goroutine that waits for its ticks and sends a PING at each.  The       *)
(* goroutine reads the field ticker again on every turn, so that a later   *)
(* Start or Stop changes what it waits for.  Its second goroutine only     *)
(* ends after fifteen seconds, and onPing only sends a PONG.               *)
(*                                                                         *)
(* External: a time.Ticker keeps one tick for its reader, and after Stop   *)
(* (go 1.22) the one it keeps can still be read.                           *)
(***************************************************************************)
EXTENDS Integers

CONSTANT MaxStarts      \* bound on the calls of Start

ASSUME HeartbeatAssumption == MaxStarts \in Nat \ {0}

VARIABLES
    started,    \* the calls of Start so far, each with a ticker and a goroutine
    ticker,     \* the ticker in the field, 0 for nil
    running,    \* the tickers that run
    kept,       \* the tickers that keep a tick
    beat,       \* beat[g]: what goroutine g is about to do
    on,         \* on[g]: the ticker it waits on
    crashed     \* a nil pointer ended the program

heartbeatVars == <<started, ticker, running, kept, beat, on>>

Numbers == 1 .. MaxStarts

HeartbeatTypeOK ==
    /\ started \in 0 .. MaxStarts
    /\ ticker \in 0 .. started
    /\ running \subseteq 1 .. started /\ kept \subseteq 1 .. started
    /\ beat \in [Numbers -> {"none", "load", "wait", "ping"}]
    /\ on \in [Numbers -> 0 .. started]

\* As the constructors of Device leave it: started once.
HeartbeatInit ==
    /\ started = 1
    /\ ticker = 1
    /\ running = {1}
    /\ kept = {}
    /\ beat = [g \in Numbers |-> IF g = 1 THEN "load" ELSE "none"]
    /\ on = [g \in Numbers |-> 0]

\* Slip: a goroutine that exists is taken to be enough.
StartTickerOnly ==
    /\ ~crashed /\ started < MaxStarts
    /\ started' = started + 1
    /\ ticker' = started'
    /\ running' = running \cup {started'}
    /\ UNCHANGED <<kept, beat, on, crashed>>

\* The ticker before it, if any, goes on with nobody to stop it.
StartHeartbeat ==
    /\ ~crashed /\ started < MaxStarts
    /\ started' = started + 1
    /\ ticker' = started'
    /\ running' = running \cup {started'}
    /\ beat' = [beat EXCEPT ![started'] = "load"]
    /\ UNCHANGED <<kept, on, crashed>>

\* Stop, line by line: it reads the field again each time, and what it stops
\* may be nil, or another ticker than the one it found.
StopTicker ==
    /\ ~crashed /\ ticker # 0
    /\ running' = running \ {ticker}
    /\ UNCHANGED <<started, ticker, kept, beat, on, crashed>>

StopPanics ==
    /\ ~crashed /\ ticker = 0
    /\ crashed' = TRUE
    /\ UNCHANGED heartbeatVars

ClearTicker ==
    /\ ~crashed /\ ticker' = 0
    /\ UNCHANGED <<started, running, kept, beat, on, crashed>>

Tick(i) ==
    /\ ~crashed /\ i \in running \ kept
    /\ kept' = kept \cup {i}
    /\ UNCHANGED <<started, ticker, running, beat, on, crashed>>

Goes(g, from, to) == ~crashed /\ beat[g] = from /\ beat' = [beat EXCEPT ![g] = to]

LoadTicker(g) ==
    /\ ticker # 0
    /\ Goes(g, "load", "wait")
    /\ on' = [on EXCEPT ![g] = ticker]
    /\ UNCHANGED <<started, ticker, running, kept, crashed>>

LoadPanics(g) ==
    /\ ~crashed /\ beat[g] = "load" /\ ticker = 0
    /\ crashed' = TRUE
    /\ UNCHANGED heartbeatVars

TakeTick(g) ==
    /\ on[g] \in kept
    /\ Goes(g, "wait", "ping")
    /\ kept' = kept \ {on[g]}
    /\ on' = [on EXCEPT ![g] = 0]
    /\ UNCHANGED <<started, ticker, running, crashed>>

\* Send returns; it writes to the device with no deadline.
SendPing(g) ==
    /\ Goes(g, "ping", "load")
    /\ UNCHANGED <<started, ticker, running, kept, on, crashed>>

\* Waiting for a tick and reading the field, what no device holds up.
Beats(g) == LoadTicker(g) \/ LoadPanics(g) \/ TakeTick(g)

----------------------------------------------------------------------------
(* Property *)

\* "consistently return ping events every specified interval period"
\* (HeartbeatController.go:48): while no Stop is the last word, whatever was
\* started and stopped before, PINGs are handed to the channel again and again
\* unless one of them is written for ever.  Whether they arrive is not said: an
\* error of Send is dropped, and the goroutine goes on.
PingsGoOn ==
    \/ []<>(ticker = 0 \/ crashed)
    \/ \E g \in Numbers : <>[](beat[g] = "ping")
    \/ []<><<\E g \in Numbers : TakeTick(g)>>_heartbeatVars
=============================================================================
