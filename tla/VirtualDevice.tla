---------------------------- MODULE VirtualDevice ----------------------------
(***************************************************************************)
(* virtual/device.go, device_processes.go and device_handlers.go: a cast   *)
(* device that appears as an AirPlay speaker.  Virtualize starts           *)
(* shairport-sync, whose output is piped into an ffmpeg that the first     *)
(* /connect starts; /disconnect stops ffmpeg, and Cancel tears all down.   *)
(* The web server runs the handlers concurrently; the fields have no lock. *)
(*                                                                         *)
(* A request creates at most one temporary file and one ffmpeg command,    *)
(* which are named after it.                                               *)
(***************************************************************************)
EXTENDS Sequences

CONSTANTS
    Requests,  \* HTTP requests
    Nil,       \* a nil pointer, an empty file name
    Routes,    \* the chains of handlers that the program mounted
    Targets    \* what requests are for: a device and a path

ASSUME VirtualDeviceAssumption == Nil \notin Requests

\* VirtualDevice.Handlers
Handlers == <<"default", "connect", "disconnect", "stream", "pause", "volume">>

VARIABLES
    sps,         \* the shairport-sync command
    rawContent,  \* its standard output was piped
    ffmpeg,      \* the ffmpeg command, by the request that made it
    proc,        \* proc[i]: what became of the command made by i
    piped,       \* piped[i]: its standard error was piped
    out,         \* out[i]: the file it writes
    fileName,    \* the last temporary file
    content,     \* the file last created or opened
    pc,          \* pc[r]: where request r is
    waited,      \* waited[r]: the command StopTranscoder waits for
    reader,      \* reader[r]: the file its goroutine broadcasts
    tpc,         \* where teardown is
    torn,        \* the command whose Cancel teardown deferred
    ctxDone,     \* the context of the device was cancelled
    raced,       \* history: two requests were in StartTranscoder at once
    crashed      \* a nil pointer ended the program

spsVars == <<sps, rawContent>>
ffmpegVars == <<ffmpeg, proc, piped, out>>
fileVars == <<fileName, content>>
requestVars == <<pc, waited, reader>>
teardownVars == <<tpc, torn, ctxDone>>
vars == <<spsVars, ffmpegVars, fileVars, requestVars, teardownVars, raced, crashed>>

Process == {"none", "made", "running", "exited", "failed"}
InStartTranscoder == {"file", "name", "command", "pipe", "start"}

TypeOK ==
    /\ sps \in Process
    /\ rawContent \in BOOLEAN
    /\ ffmpeg \in Requests \cup {Nil}
    /\ proc \in [Requests -> Process]
    /\ piped \in [Requests -> BOOLEAN]
    /\ out \in [Requests -> Requests \cup {Nil}]
    /\ fileName \in Requests \cup {Nil}
    /\ content \in Requests \cup {Nil}
    /\ pc \in [Requests -> {"none", "check", "open", "stop", "wait", "cancel", "answered"}
                           \cup InStartTranscoder]
    /\ waited \in [Requests -> Requests \cup {Nil}]
    /\ reader \in [Requests -> Requests \cup {Nil}]
    /\ tpc \in {"idle", "sps", "ffmpeg", "context", "done"}
    /\ torn \in Requests \cup {Nil}
    /\ ctxDone \in BOOLEAN /\ raced \in BOOLEAN /\ crashed \in BOOLEAN

\* NewVirtualDevice
Init ==
    /\ sps = "none" /\ rawContent = FALSE
    /\ ffmpeg = Nil
    /\ proc = [r \in Requests |-> "none"]
    /\ piped = [r \in Requests |-> FALSE]
    /\ out = [r \in Requests |-> Nil]
    /\ fileName = Nil /\ content = Nil
    /\ pc = [r \in Requests |-> "none"]
    /\ waited = [r \in Requests |-> Nil]
    /\ reader = [r \in Requests |-> Nil]
    /\ tpc = "idle" /\ torn = Nil
    /\ ctxDone = FALSE /\ raced = FALSE /\ crashed = FALSE

----------------------------------------------------------------------------
(* Processes *)

\* Cmd.Start: "already started", an error, or a new process.
Launched(state, result) ==
    \/ state = "made" /\ ~ctxDone /\ result = "running"
    \/ state = "made" /\ result = "failed"
    \/ state # "made" /\ result = state

\* Cmd.Cancel, as CommandContext sets it, is Process.Kill; there is no Process
\* until Start succeeded.
HasProcess(state) == state \in {"running", "exited"}

\* shairport-sync ends, of itself or with the context.
SpsExits ==
    /\ ~crashed
    /\ sps = "running"
    /\ sps' = "exited"
    /\ UNCHANGED <<rawContent, ffmpegVars, fileVars, requestVars, teardownVars, raced, crashed>>

FfmpegExits(i) ==
    /\ ~crashed
    /\ proc[i] = "running"
    /\ proc' = [proc EXCEPT ![i] = "exited"]
    /\ UNCHANGED <<spsVars, ffmpeg, piped, out, fileVars, requestVars, teardownVars, raced, crashed>>

ContextCancelled ==
    /\ ~crashed /\ ~ctxDone
    /\ ctxDone' = TRUE
    /\ UNCHANGED <<spsVars, ffmpegVars, fileVars, requestVars, tpc, torn, raced, crashed>>

----------------------------------------------------------------------------
(* Virtualize, called by the program *)

Virtualize ==
    /\ ~crashed
    /\ sps = "none"
    /\ sps' = "made"
    /\ UNCHANGED <<rawContent, ffmpegVars, fileVars, requestVars, teardownVars, raced, crashed>>

\* StdoutPipe and StderrPipe; when one fails, Cancel has no process to kill.
PipeSps ==
    /\ ~crashed
    /\ sps = "made" /\ ~rawContent
    /\ rawContent' = TRUE
    /\ crashed' \in BOOLEAN
    /\ UNCHANGED <<sps, ffmpegVars, fileVars, requestVars, teardownVars, raced>>

StartSps ==
    /\ ~crashed
    /\ sps = "made" /\ rawContent
    /\ Launched(sps, sps')
    /\ UNCHANGED <<rawContent, ffmpegVars, fileVars, requestVars, teardownVars, raced, crashed>>

----------------------------------------------------------------------------
(* Requests *)

\* A handler answers, or calls c.Next.  "disconnect" contains "connect".
Answers(handler, device, path) ==
    \/ handler = "default" /\ device = "own" /\ path = ""
    \/ handler = "connect" /\ device = "own" /\ path \in {"connect", "disconnect"}
    \/ handler = "disconnect" /\ (device = "own" => path = "disconnect")
    \/ handler = "stream" /\ (device = "own" \/ path = "stream")
    \/ handler = "pause" /\ device = "own" /\ path = "pause"
    \/ handler = "volume" /\ device = "own" /\ path = "volume"

\* The first handler of the route that answers; Nil: not found.
Dispatched(route, device, path) ==
    LET answering == SelectSeq(route, LAMBDA handler : Answers(handler, device, path))
    IN IF answering = <<>> THEN Nil ELSE Head(answering)

Arrive(r) ==
    /\ ~crashed
    /\ pc[r] = "none"
    /\ \E route \in Routes, target \in Targets :
          LET handler == Dispatched(route, target[1], target[2])
          IN pc' = [pc EXCEPT ![r] =
                 IF handler = "connect" THEN "check"
                 ELSE IF handler = "disconnect" /\ target[1] = "own" THEN "stop"
                 ELSE "answered"]
    /\ UNCHANGED <<spsVars, ffmpegVars, fileVars, waited, reader, teardownVars, raced, crashed>>

Goes(r, from, to) == ~crashed /\ pc[r] = from /\ pc' = [pc EXCEPT ![r] = to]

----------------------------------------------------------------------------
(* StartTranscoder and openFileAndStream, for /connect *)

Idle == {r \in Requests : pc[r] \notin InStartTranscoder}

\* Slip: only shairport-sync is looked at.
CheckSpsOnly(r) ==
    /\ Goes(r, "check", IF sps = "none" \/ ~rawContent THEN "open" ELSE "file")
    /\ raced' = (raced \/ (pc'[r] = "file" /\ Idle # Requests))
    /\ UNCHANGED <<spsVars, ffmpegVars, fileVars, waited, reader, teardownVars, crashed>>

\* Without shairport-sync the error returned is nil.
Check(r) ==
    /\ Goes(r, "check", IF ffmpeg # Nil \/ sps = "none" \/ ~rawContent THEN "open" ELSE "file")
    /\ raced' = (raced \/ (pc'[r] = "file" /\ Idle # Requests))
    /\ UNCHANGED <<spsVars, ffmpegVars, fileVars, waited, reader, teardownVars, crashed>>

\* os.CreateTemp; its error is looked at too late.
MakeFile(r) ==
    /\ Goes(r, "file", "name")
    /\ content' \in {r, Nil}
    /\ UNCHANGED <<spsVars, ffmpegVars, fileName, waited, reader, teardownVars, raced, crashed>>

\* Name of the file that v.content is by now, and its Close.
NameFile(r) ==
    /\ Goes(r, "name", "command")
    /\ IF content = Nil
       THEN crashed' = TRUE /\ UNCHANGED fileName
       ELSE fileName' = content /\ UNCHANGED crashed
    /\ UNCHANGED <<spsVars, ffmpegVars, content, waited, reader, teardownVars, raced>>

\* Slip: the arguments are made before the file has its name.
NameReadEarly(r) ==
    /\ Goes(r, "command", "pipe")
    /\ ffmpeg' = r
    /\ proc' = [proc EXCEPT ![r] = "made"]
    /\ UNCHANGED <<spsVars, piped, out, fileVars, waited, reader, teardownVars, raced, crashed>>

MakeCommand(r) ==
    /\ Goes(r, "command", "pipe")
    /\ ffmpeg' = r
    /\ proc' = [proc EXCEPT ![r] = "made"]
    /\ out' = [out EXCEPT ![r] = fileName]
    /\ UNCHANGED <<spsVars, piped, fileVars, waited, reader, teardownVars, raced, crashed>>

\* StderrPipe of the command that v.ffmpeg is by now.  "Stderr already set", or
\* no pipe to be had, makes StartTranscoder cancel that command, and a command
\* that was not started has no process to kill.
Pipe(r) ==
    /\ \/ /\ Goes(r, "pipe", "start")
          /\ ~piped[ffmpeg]
          /\ piped' = [piped EXCEPT ![ffmpeg] = TRUE]
          /\ UNCHANGED <<proc, crashed>>
       \/ /\ Goes(r, "pipe", "open")
          /\ IF HasProcess(proc[ffmpeg])
             THEN proc' = [proc EXCEPT ![ffmpeg] = "exited"] /\ UNCHANGED crashed
             ELSE crashed' = TRUE /\ UNCHANGED proc
          /\ UNCHANGED piped
    /\ UNCHANGED <<spsVars, ffmpeg, out, fileVars, waited, reader, teardownVars, raced>>

StartFfmpeg(r) ==
    /\ Goes(r, "start", "open")
    /\ \E result \in Process :
          /\ Launched(proc[ffmpeg], result)
          /\ proc' = [proc EXCEPT ![ffmpeg] = result]
    /\ UNCHANGED <<spsVars, ffmpeg, piped, out, fileVars, waited, reader, teardownVars, raced, crashed>>

\* The goroutine is started whether or not the file could be opened.
OpenFileAndStream(r) ==
    /\ Goes(r, "open", "answered")
    /\ content' \in {fileName, Nil}
    /\ reader' = [reader EXCEPT ![r] = content']
    /\ UNCHANGED <<spsVars, ffmpegVars, fileName, waited, teardownVars, raced, crashed>>

----------------------------------------------------------------------------
(* StopTranscoder, for /disconnect *)

CallWait(r) ==
    /\ Goes(r, "stop", "wait")
    /\ waited' = [waited EXCEPT ![r] = ffmpeg]
    /\ crashed' = (ffmpeg = Nil)
    /\ UNCHANGED <<spsVars, ffmpegVars, fileVars, reader, teardownVars, raced>>

WaitReturns(r) ==
    /\ Goes(r, "wait", "cancel")
    /\ proc[waited[r]] # "running"
    /\ UNCHANGED <<spsVars, ffmpegVars, fileVars, waited, reader, teardownVars, raced, crashed>>

CancelFfmpeg(r) ==
    /\ Goes(r, "cancel", "answered")
    /\ IF HasProcess(proc[ffmpeg])
       THEN proc' = [proc EXCEPT ![ffmpeg] = "exited"] /\ UNCHANGED crashed
       ELSE crashed' = TRUE /\ UNCHANGED proc
    /\ UNCHANGED <<spsVars, ffmpeg, piped, out, fileVars, waited, reader, teardownVars, raced>>

----------------------------------------------------------------------------
(* teardown, called once by the program through Cancel *)

TeardownGoes(from, to) ==
    /\ ~crashed
    /\ tpc = from /\ tpc' = to
    /\ UNCHANGED <<rawContent, ffmpeg, piped, out, fileVars, requestVars, ctxDone, raced>>

\* The deferred calls need the file and both commands.
Teardown ==
    /\ TeardownGoes("idle", "sps")
    /\ torn' = ffmpeg
    /\ crashed' = (content = Nil \/ ffmpeg = Nil \/ sps = "none")
    /\ UNCHANGED <<sps, proc>>

WaitForSps ==
    /\ TeardownGoes("sps", "ffmpeg")
    /\ sps # "running"
    /\ UNCHANGED <<sps, proc, torn, crashed>>

WaitForFfmpeg ==
    /\ TeardownGoes("ffmpeg", "context")
    /\ proc[ffmpeg] # "running"
    /\ UNCHANGED <<sps, proc, torn, crashed>>

\* Slip: only shairport-sync is cancelled.
WaitForContextNoFfmpeg ==
    /\ TeardownGoes("context", "done")
    /\ ctxDone
    /\ IF HasProcess(sps)
       THEN sps' = "exited" /\ UNCHANGED <<proc, crashed>>
       ELSE crashed' = TRUE /\ UNCHANGED <<sps, proc>>
    /\ UNCHANGED torn

WaitForContext ==
    /\ TeardownGoes("context", "done")
    /\ ctxDone
    /\ IF HasProcess(sps) /\ HasProcess(proc[torn])
       THEN /\ sps' = "exited"
            /\ proc' = [proc EXCEPT ![torn] = "exited"]
            /\ UNCHANGED crashed
       ELSE crashed' = TRUE /\ UNCHANGED <<sps, proc>>
    /\ UNCHANGED torn

----------------------------------------------------------------------------

Connect(r) ==
    \/ Check(r)
    \/ MakeFile(r)
    \/ NameFile(r)
    \/ MakeCommand(r)
    \/ Pipe(r)
    \/ StartFfmpeg(r)
    \/ OpenFileAndStream(r)

Disconnect(r) == CallWait(r) \/ WaitReturns(r) \/ CancelFfmpeg(r)

Next ==
    \/ Virtualize \/ PipeSps \/ StartSps
    \/ \E r \in Requests : Arrive(r) \/ Connect(r) \/ Disconnect(r)
    \/ Teardown \/ WaitForSps \/ WaitForFfmpeg \/ WaitForContext
    \/ SpsExits \/ ContextCancelled \/ \E i \in Requests : FfmpegExits(i)

Spec == Init /\ [][Next]_vars

----------------------------------------------------------------------------
(* Properties *)

\* No ffmpeg is lost: unless two requests were in StartTranscoder at once, the
\* only process on shairport-sync's output is the one the device knows of.
OnlyFfmpegRuns ==
    ~raced => \A i \in Requests : proc[i] = "running" => i = ffmpeg

\* What /connect broadcasts is the file that the device's ffmpeg writes, also
\* when the goroutine was started before ffmpeg.
ReaderReadsOutput ==
    ~raced /\ ffmpeg # Nil => \A r \in Requests : reader[r] \in {Nil, out[ffmpeg]}

\* A crash apart, teardown leaves no process behind, though it waits for them
\* one after the other while requests still start and stop ffmpeg.
TeardownEndsProcesses ==
    tpc = "done" /\ ~crashed /\ ~raced =>
        sps = "exited" /\ \A i \in Requests : proc[i] # "running"
=============================================================================
