------------------------------ MODULE Streamer ------------------------------
(***************************************************************************)
(* virtual/streamer.go: a Stream owns one ffmpeg command and one mutex.    *)
(* Start takes the mutex and leaves it to three goroutines, of which the   *)
(* first to get through a sync.Once releases it: the one that runs ffmpeg  *)
(* (when that fails), the one that looks for index.m3u8, and a timer.      *)
(* Restart replaces the command and starts again; Stop kills ffmpeg and    *)
(* may remove the directory.                                               *)
(***************************************************************************)
EXTENDS Integers, FiniteSets

CONSTANTS
    Starts,   \* calls of Start or Restart
    Stops,    \* calls of Stop
    Free      \* the mutex is not held

ASSUME StreamerAssumption ==
    /\ IsFiniteSet(Starts)
    /\ Free \notin Starts

VARIABLES
    keepFiles,  \* KeepFiles, fixed when the stream is made
    mux,        \* the Start call whose goroutines have to release the mutex
    cmd,        \* CMD: the last command spawned; earlier ones were replaced
    ffmpeg,     \* ffmpeg[i]: the process of command i
    directory,  \* StorePath exists
    index,      \* index.m3u8 exists
    running,    \* Running
    spc,        \* spc[k]: where call k of Start or Restart is
    runner,     \* runner[k]: the goroutine that runs ffmpeg for call k
    ran,        \* ran[k]: the command it runs
    scanner,    \* scanner[k]: the goroutine that looks for index.m3u8
    timer,      \* timer[k]: the goroutine with the timeout
    stopped,    \* the Stop calls that ran
    ended,      \* history: Stop ran, and no Start or Restart since
    crashed     \* a nil pointer ended the program

files == <<directory, index>>
goroutines == <<runner, ran, scanner, timer>>
streamerVars == <<keepFiles, mux, cmd, ffmpeg, files, running, spc, goroutines, stopped, ended, crashed>>

Commands == 1 .. Cardinality(Starts) + 1

StreamerTypeOK ==
    /\ keepFiles \in BOOLEAN
    /\ mux \in Starts \cup {Free}
    /\ cmd \in Commands
    /\ ffmpeg \in [Commands -> {"spawned", "running", "exited", "failed"}]
    /\ directory \in BOOLEAN /\ index \in BOOLEAN /\ running \in BOOLEAN
    /\ spc \in [Starts -> {"idle", "restart", "start", "starting", "resolved"}]
    /\ runner \in [Starts -> {"none", "ready", "wait", "error", "done"}]
    /\ ran \in [Starts -> Commands]
    /\ scanner \in [Starts -> {"none", "scan", "found", "done"}]
    /\ timer \in [Starts -> {"none", "set", "fired"}]
    /\ stopped \subseteq Stops
    /\ ended \in BOOLEAN /\ crashed \in BOOLEAN

\* NewStream: the directory is made and the first command spawned, not started.
StreamerInit ==
    /\ keepFiles \in BOOLEAN
    /\ mux = Free
    /\ cmd = 1
    /\ ffmpeg = [i \in Commands |-> "spawned"]
    /\ directory = TRUE
    /\ index = FALSE
    /\ running = FALSE
    /\ spc = [k \in Starts |-> "idle"]
    /\ runner = [k \in Starts |-> "none"]
    /\ ran = [k \in Starts |-> 1]
    /\ scanner = [k \in Starts |-> "none"]
    /\ timer = [k \in Starts |-> "none"]
    /\ stopped = {}
    /\ ended = FALSE
    /\ crashed = FALSE

StartGoes(k, from, to) == ~crashed /\ spc[k] = from /\ spc' = [spc EXCEPT ![k] = to]

----------------------------------------------------------------------------
(* Start and Restart, called by the program *)

CallStart(k) ==
    /\ StartGoes(k, "idle", "start")
    /\ UNCHANGED <<keepFiles, mux, cmd, ffmpeg, files, running, goroutines, stopped, ended, crashed>>

CallRestart(k) ==
    /\ StartGoes(k, "idle", "restart")
    /\ UNCHANGED <<keepFiles, mux, cmd, ffmpeg, files, running, goroutines, stopped, ended, crashed>>

\* Under the mutex, which it releases before Start takes it again.  Only a
\* process that has a ProcessState, one that exited, is killed: none is.
Respawn(k) ==
    /\ StartGoes(k, "restart", "start")
    /\ mux = Free
    /\ cmd' = cmd + 1
    /\ directory' = TRUE
    /\ ended' = FALSE
    /\ UNCHANGED <<keepFiles, mux, ffmpeg, index, running, goroutines, stopped, crashed>>

Start(k) ==
    /\ StartGoes(k, "start", "starting")
    /\ mux = Free
    /\ mux' = k
    /\ runner' = [runner EXCEPT ![k] = "ready"]
    /\ scanner' = [scanner EXCEPT ![k] = "scan"]
    /\ timer' = [timer EXCEPT ![k] = "set"]
    /\ ended' = FALSE
    /\ UNCHANGED <<keepFiles, cmd, ffmpeg, files, running, ran, stopped, crashed>>

\* once.Do: the first of the three goroutines tells the outcome and releases
\* the mutex; the others do nothing.
Once(k, outcome) ==
    IF spc[k] = "starting"
    THEN /\ spc' = [spc EXCEPT ![k] = "resolved"]
         /\ running' = outcome
         /\ mux' = Free
    ELSE UNCHANGED <<spc, running, mux>>

----------------------------------------------------------------------------
(* The goroutine that runs ffmpeg *)

\* CMD.Run, on the command CMD holds by now; a command runs only once.
Run(k) ==
    /\ ~crashed
    /\ runner[k] = "ready"
    /\ ran' = [ran EXCEPT ![k] = cmd]
    /\ \/ /\ ffmpeg[cmd] = "spawned"
          /\ ffmpeg' = [ffmpeg EXCEPT ![cmd] = "running"]
          /\ runner' = [runner EXCEPT ![k] = "wait"]
       \/ /\ ffmpeg[cmd] = "spawned"
          /\ ffmpeg' = [ffmpeg EXCEPT ![cmd] = "failed"]
          /\ runner' = [runner EXCEPT ![k] = "error"]
       \/ /\ ffmpeg[cmd] # "spawned"
          /\ runner' = [runner EXCEPT ![k] = "error"]
          /\ UNCHANGED ffmpeg
    /\ UNCHANGED <<keepFiles, mux, cmd, files, running, spc, scanner, timer, stopped, ended, crashed>>

\* ffmpeg exited: with an error, or well, which resolves nothing.
RunReturns(k) ==
    /\ ~crashed
    /\ runner[k] = "wait"
    /\ ffmpeg[ran[k]] = "exited"
    /\ runner' \in {[runner EXCEPT ![k] = "error"], [runner EXCEPT ![k] = "done"]}
    /\ UNCHANGED <<keepFiles, mux, cmd, ffmpeg, files, running, spc, ran, scanner, timer, stopped, ended, crashed>>

RunFailed(k) ==
    /\ ~crashed
    /\ runner[k] = "error"
    /\ runner' = [runner EXCEPT ![k] = "done"]
    /\ Once(k, FALSE)
    /\ UNCHANGED <<keepFiles, cmd, ffmpeg, files, ran, scanner, timer, stopped, ended, crashed>>

----------------------------------------------------------------------------
(* The goroutine that looks for the file, and the timer *)

\* os.Stat every 25 ms, for as long as it takes.
Stat(k) ==
    /\ ~crashed
    /\ scanner[k] = "scan"
    /\ index
    /\ scanner' = [scanner EXCEPT ![k] = "found"]
    /\ UNCHANGED <<keepFiles, mux, cmd, ffmpeg, files, running, spc, runner, ran, timer, stopped, ended, crashed>>

\* Slip: the scanner reports without asking the sync.Once.
FoundWithoutOnce(k) ==
    /\ ~crashed
    /\ scanner[k] = "found"
    /\ scanner' = [scanner EXCEPT ![k] = "done"]
    /\ spc' = [spc EXCEPT ![k] = "resolved"]
    /\ running' = TRUE
    /\ mux' = Free
    /\ UNCHANGED <<keepFiles, cmd, ffmpeg, files, runner, ran, timer, stopped, ended, crashed>>

Found(k) ==
    /\ ~crashed
    /\ scanner[k] = "found"
    /\ scanner' = [scanner EXCEPT ![k] = "done"]
    /\ Once(k, TRUE)
    /\ UNCHANGED <<keepFiles, cmd, ffmpeg, files, runner, ran, timer, stopped, ended, crashed>>

\* Slip: no goroutine with the timeout.
NoTimeOut(k) == FALSE

TimeOut(k) ==
    /\ ~crashed
    /\ timer[k] = "set"
    /\ timer' = [timer EXCEPT ![k] = "fired"]
    /\ Once(k, FALSE)
    /\ UNCHANGED <<keepFiles, cmd, ffmpeg, files, runner, ran, scanner, stopped, ended, crashed>>

----------------------------------------------------------------------------
(* ffmpeg, external *)

WritesIndex(i) ==
    /\ ffmpeg[i] = "running"
    /\ directory
    /\ ~index
    /\ index' = TRUE
    /\ UNCHANGED <<keepFiles, mux, cmd, ffmpeg, directory, running, spc, goroutines, stopped, ended, crashed>>

Exits(i) ==
    /\ ffmpeg[i] = "running"
    /\ ffmpeg' = [ffmpeg EXCEPT ![i] = "exited"]
    /\ UNCHANGED <<keepFiles, mux, cmd, files, running, spc, goroutines, stopped, ended, crashed>>

----------------------------------------------------------------------------
(* Stop *)

RemoveFiles ==
    IF keepFiles
    THEN UNCHANGED files
    ELSE directory' = FALSE /\ index' = FALSE

\* CMD.Process is nil until the command started: Kill ends the program.
KillPanics ==
    /\ ffmpeg[cmd] \in {"spawned", "failed"}
    /\ crashed' = TRUE
    /\ UNCHANGED ffmpeg

\* Slip: the first command is killed, whatever a Restart put in its place.
KillFirst ==
    \/ KillPanics
    \/ /\ ffmpeg[cmd] \in {"running", "exited"}
       /\ ffmpeg' = [ffmpeg EXCEPT ![1] = IF @ = "running" THEN "exited" ELSE @]
       /\ UNCHANGED crashed

\* "process already finished" is no error.
Kill ==
    \/ KillPanics
    \/ /\ ffmpeg[cmd] \in {"running", "exited"}
       /\ ffmpeg' = [ffmpeg EXCEPT ![cmd] = "exited"]
       /\ UNCHANGED crashed

\* Slip: Running is left to the goroutine that runs ffmpeg.
StopKeepsRunning(x) ==
    /\ ~crashed
    /\ x \notin stopped
    /\ mux = Free
    /\ Kill
    /\ RemoveFiles
    /\ stopped' = stopped \cup {x}
    /\ ended' = TRUE
    /\ UNCHANGED <<keepFiles, mux, cmd, running, spc, goroutines>>

Stop(x) ==
    /\ ~crashed
    /\ x \notin stopped
    /\ mux = Free
    /\ running' = FALSE
    /\ Kill
    /\ RemoveFiles
    /\ stopped' = stopped \cup {x}
    /\ ended' = TRUE
    /\ UNCHANGED <<keepFiles, mux, cmd, spc, goroutines>>

----------------------------------------------------------------------------

StartStep(k) ==
    \/ Respawn(k)
    \/ Start(k)
    \/ Run(k)
    \/ RunReturns(k)
    \/ RunFailed(k)
    \/ Stat(k)
    \/ Found(k)
    \/ TimeOut(k)

StreamerNext ==
    \/ \E k \in Starts : CallStart(k) \/ CallRestart(k) \/ StartStep(k)
    \/ \E x \in Stops : Stop(x)
    \/ \E i \in Commands : WritesIndex(i) \/ Exits(i)

StreamerSpec == StreamerInit /\ [][StreamerNext]_streamerVars

\* Goroutines are scheduled, the timer fires and sync.Mutex is starvation free.
\* Nothing is assumed of ffmpeg.
FairStreamerSpec ==
    /\ StreamerSpec
    /\ \A k \in Starts :
          /\ SF_streamerVars(Respawn(k)) /\ SF_streamerVars(Start(k))
          /\ WF_streamerVars(RunFailed(k)) /\ WF_streamerVars(Found(k)) /\ WF_streamerVars(TimeOut(k))

----------------------------------------------------------------------------
(* Properties *)

\* Every Lock has one Unlock: the mutex is held for a Start call exactly until
\* one of its goroutines resolves it, so a late goroutine cannot release a
\* mutex that nobody holds (a fatal error) or that another call holds.
MutexIsMatched == \A k \in Starts : spc[k] = "starting" <=> mux = k

\* A stopped stream is not reported as running by a goroutine that an earlier
\* Start left behind.
StoppedStaysStopped == ended => ~running

\* A stream that says it runs has an index.m3u8 to serve.
RunningHasIndex == running => index

\* Of all processes only those of replaced commands survive a Stop.
OnlyReplacedSurviveStop ==
    ended /\ ~crashed => \A i \in Commands : ffmpeg[i] = "running" => i < cmd

\* Start and Restart are resolved, whatever ffmpeg does, so that those who wait
\* for the WaitGroup or the mutex go on.
StartIsResolved ==
    \A k \in Starts : spc[k] \in {"restart", "start"} ~> spc[k] = "resolved" \/ crashed
=============================================================================
