# A verification project for go-castv2

go-castv2 is a Go library and program that finds Google Cast devices, talks the
CASTV2 protocol with them (TLS, length-prefixed protocol buffers, JSON payloads)
and makes each of them appear as an AirPlay speaker: `shairport-sync` receives
the audio, `ffmpeg` transcodes it into a file, and an HTTP handler streams the
file to the device.  Almost everything in it is concurrent: goroutines per
connection, per request, per waiter and per listener, one mutex here and there,
unbuffered channels everywhere else.

The modules in this directory model that concurrency.  Each TLA+ module is a
translation of the code named in its header; `PROJECT.json` gives, for every
definition, the lines it stands for.  Paths below are relative to the
repository's root.

## 1. Inventory

Each component, with the state it keeps, its operations, whom it talks to, what
is hard about it, and what makes it correct.

### Request/response engine - `primitives/Channel.go`, `Client.go`, `RequestHeaders.go`, `generic/Counter.go`
*State*: per channel a counter of request ids, the map `inFlight` from id to the
Go channel its caller waits on, the destination and the listeners; per client the
socket and the list of channels.
*Operations*: `Request`, `Send`, `OnMessage`; the client's dispatcher goroutine,
which reads every message and calls `receiveMessage` of every channel.
*Interactions*: callers and the dispatcher share `inFlight` with no lock, and meet
on an unbuffered channel; listeners run in the dispatcher and may block it.
*Hard*: a timer that fires while the dispatcher hands over the answer; a payload
shared by two calls; late, repeated and reordered answers; a send that fails.
*Correct if*: an answer goes to its own call only, ids are unique, the table does
not leak, a call whose message is written returns, the dispatcher goes back to the
stream.

### Packet framing - `primitives/PacketStream.go`
*State*: the socket, the channel of packets. *Operations*: `write` (length, then
body), the goroutine of `readPackets`, `read`.
*Hard*: several goroutines write with no lock; a Read may return less than asked.
*Correct if*: the outgoing bytes are frames, the incoming messages are delivered
whole and in order.

### Application connection - `controllers/MediaConnection.go`, `ReceiverController.go`
*State*: the session id, the channel and its destination, the connection
controller; the unbuffered `Incoming` of the receiver controller.
*Operations*: `Request`, which first asks the device which session runs
(`getAppSession`), then sets up or redirects the channel; `GetStatus`, `onStatus`.
*Hard*: a waiter goroutine per call on one shared channel; statuses offered by
callers and by the dispatcher; a change of session between two steps.
*Correct if*: every waiter gets a status, requests reach the session that runs, over a
connection that is set up.

### Media controller - `controllers/MediaController.go`
*State*: `MediaSessionID`, the current status, its own `Incoming`.
*Operations*: Play, Pause, Stop, Next, Previous (`sendCommand`), `GetStatus`,
`onStatus`, and Load, Seek, Skip, which are single requests.
*Hard*: a command is sent twice, the first time with a timeout of one nanosecond;
the offer of `onStatus` does not wait for the waiter; older statuses overwrite.
*Correct if*: a command returns, is for the session that plays, and acts once.

### YouTube controller and session - `controllers/YoutubeController.go`, `controllers/youtube/`
*State*: the session and its request counters, the screen id.
*Operations*: `PlayVideo`, `AddToQueue`, `PlayNext`, `ClearPlaylist`...; binding a
session over HTTP, `getScreenID` over the cast channel.
*Hard*: a waiter left behind by a timeout takes the next screen id; each action
binds again and resets both counters; a shadowed error.
*Correct if*: actions carry the ids the lounge service expects, a failure is reported.

### Heartbeat, connection controller, device - `controllers/HeartbeatController.go`, `ConnectionController.go`, `Device.go`
*State*: the ticker; the device's client, controllers and cached receiver status.
*Operations*: `Start`, `Stop`, PING and PONG; `NewDevice`, `PlayMedia`,
`QuitApplication`, `GetVolume`, `SetVolume`...
*Hard*: the ticker is read by the goroutine while Stop sets it to nil; a second
Start; what `NewDevice` leaves open on an error.
*Correct if*: PINGs go on unless the heartbeat was stopped, the cached volume is the
receiver's, `QuitApplication` stops what runs, `NewDevice` leaves nothing open.

### Discovery - `DeviceFinder.go`, `scanner/scanner.go`
*State*: channels of mdns entries and of devices. *Operations*: `FindDevices`,
`FindDevice`, the ARP scanner's `GetHwAddr`.
*Hard*: the first failure ends the search and leaves mdns with nobody to read its
entries; a read with no deadline; any one equal field makes a device resemble.
*Correct if*: a search ends, a device that answers is found or its loss has a reason,
and what is opened ends up in a device.

### Configuration file - `sps/parse/`, `checkForConfigFile` of `virtual/device_processes.go`
*State*: the file, and its sections and keys in memory. *Operations*: `ParseFile`,
`UpdateValueAt`, `WriteOut`.
*Hard*: where a section's name stands, a brace or a semicolon in a comment, where the
lines of one key end; what a cycle of reading and writing does the second time.
*Correct if*: no setting is lost, none is made that was not there or asked for, sections
keep their names and order.

### Audio stream pool - `virtual/stream_server.go`, `/connect` and `/stream` of `virtual/device_handlers.go`
*State*: the pool of connections under a mutex, one buffer per connection.
*Operations*: `AddConnection`, `DeleteConnection`, `Broadcast`,
`GetStreamFromReader`, the stream writer of `HandleStream`.
*Hard*: the broadcaster copies into the buffer the writer is still sending or
clearing; slow clients; several readers of one file; partial reads.
*Correct if*: a client that keeps up is sent whole buffers, further and further on in the
file, and a stuck client delays nobody.

### Processes and handlers of a virtual device - `virtual/device.go`, `device_processes.go`, `device_handlers.go`
*State*: the commands `sps` and `ffmpeg`, the pipe between them, the temporary file.
*Operations*: `Virtualize`, `StartTranscoder`, `StopTranscoder`, `teardown`, and
the chain of HTTP handlers.
*Hard*: handlers run concurrently on fields with no lock; processes that exit or do
not start; teardown at any time.
*Correct if*: no process is lost, `/connect` streams what ffmpeg writes, teardown ends
everything, each request is answered by its handler.

### HLS transcoding stream - `virtual/streamer.go`, `streamer_process.go`
*State*: the command, the mutex, `Running`, the directory with `index.m3u8`.
*Operations*: `Start` (three goroutines and a `sync.Once`), `Restart`, `Stop`.
*Hard*: which of three goroutines releases the mutex, and what the late ones do.
*Correct if*: one unlock per lock, a stopped stream stays stopped, Start resolves.

### The rest
`hls/queue.go` (a job queue nothing makes a worker for), `sps/launcher.go` (calls of
`exec.Command`), `hls/encoder.go`, `hls/streamer.go`, `hls/server.go` (experiments),
`controllers/media`, `controllers/dashcast`, `controllers/receiver` (data types and
builders), `api/` (generated), `main.go`, `other/`, `examples/` (programs).

### How the parts meet

    HTTP handlers -> Device -> MediaController -> mediaConnection -> Channel -> packetStream
-> socket                                   ^ onStatus        ^ Incoming         ^
receiveMessage   |                                   +------ listeners, run by the
dispatcher <---- read <---+     Virtualize: shairport-sync -> pipe -> ffmpeg -> file ->
GetStreamFromReader -> pool -> /stream

The modules are cut along these arrows, and each uses the contract of the one
below it: `MediaConnection` takes a request that was written to end with the device's
answer or an error, which is what `RequestReply` states and `Channel` is shown to
implement; `MediaController` and `YoutubeSession` take the same of a request on the
connection, and that it may also hang before it is written; `Channel` takes messages to
arrive whole and in order, which is `DeliveredInOrder` of `PacketStream`.

## 2. Modules

| module | code | abstract or concrete |
| --- | --- | --- |
| `RequestReply` | what `Channel.Request` promises its callers | abstract specification |
| `Channel` | `primitives/Channel.go`, the dispatcher of `Client.go`, `Counter.go` | implements `RequestReply` |
| `PacketStream` | `primitives/PacketStream.go` | |
| `MediaConnection` | `controllers/MediaConnection.go`, status part of `ReceiverController.go` | |
| `MediaController` | `controllers/MediaController.go` | |
| `AudioStream` | `virtual/stream_server.go`, two handlers | |
| `Streamer` | `virtual/streamer.go` | |
| `VirtualDevice` | `virtual/device.go`, `device_processes.go`, `device_handlers.go` | |
| `YoutubeSession` | `controllers/YoutubeController.go`, `controllers/youtube/` | |
| `Discovery` | `DeviceFinder.go`, `scanner/scanner.go`, `NewDevice` of `Device.go`, `device_info.go` | |
| `Heartbeat` | `controllers/HeartbeatController.go` | part of `Device` |
| `Device` | the commands of `Device.go` and `ReceiverController.go` | extends `Heartbeat` |
| `ConfigFile` | `sps/parse/`, `checkForConfigFile` | |

`X` is checked by TLC through `MCX`, and proved about in `XProofs`; `ClientProofs` is about
`Channel` and `PacketStream`, `StreamProofs` about `AudioStream` and `Streamer`, and
`VirtualDeviceProofs` about `ConfigFile` too.  A definition
whose comment starts with *Slip:* is not part of the model: it is a plausible
mistake in the definition below it, kept to see that a property notices it.

### How state and actions correspond to the code

**Channel.** A caller's `pc` is its place in `Request` (Channel.go:103-127):
`TakeNumber` (104-106), `Register` (108-110), `Transmit` or `SendFails` (112), the
`select` of 119-126 as `HandOff`, or `TimerFires` and `ReturnTimeout`.  The
dispatcher's `dpc` is its place in `receiveMessage` (44-68): `LookupFinds` or
`LookupMisses` (51), `HandOff` (55, a rendezvous with the caller), `DeleteEntry`
(57).  The request id is a field of the *payload*, read again at every step
(`WireID`), because the code keeps it there.  `payload` is the payload a call passes: its
own, or, in a `GetStatus` of a media channel, the package-level `getMediaStatus`
(MediaController.go:33); `shared` records that two calls under way at once had passed
that one.  `sent` is what the device received; it
answers any of it at any time, any number of times.  A data race on the map may end
the program (`MapFault`).  `fate` is a history variable, and with `Delivered` it is
the refinement mapping to `RequestReply`.

**PacketStream.** The stream to the device is a sequence of pieces, a length or a
body of some writer; the stream from the device is a sequence of units, a length
field or a byte.  `Stream` gives the number a reader would take a unit for, whichever it
is, and `Header` where the lengths really are: a reader that lost its place would take a
byte for a length.  `Take(n)` is one `Read` that returns n bytes; `ShortRead` is the
early return of lines 45-48.  Once a Write failed, every later one on that socket does
(`broken`), as with `tls.Conn`.  `met[w]` are the writers that were in `write` together
with w.

**MediaConnection.** `Call`, `StatusRequested`, `StatusAnswered` and `StatusOffered` are
`getAppSession` with `GetStatus`.  `Taken` is the rendezvous on `Incoming`, with any
waiter; a call whose `GetStatus` failed leaves its waiter behind (`orphans`).
`SetSessionID` (68) and `Compare` (99) are two steps, since another caller may write the
field in between.  So are those of `refreshConnection`: `CheckController`,
`CloseController` and `ClearController` (performCleanup, 115-120), `getAppSession` once
more (`phase`), `Connect` and `Install` (127-131), `LoadChannel`, and the nil check, the
new destination or the new channel behind it (133-146).  A channel is named after the
caller that made it, so that two callers may each make one.  `connected` are the
transports that the device has a CONNECT of and no CLOSE behind it.

**MediaController.** One action per step of `sendMessage` (216-226) and
`updateForNewSession` (229-244).  `onStatus` is split where it can be overtaken: it
stores the session (67) and then offers the status to whoever is at the receive
(69-72).  A status is the number of the media session the device played when it was
sent, so that newer means greater.

**AudioStream.** A buffer is two halves, and the file one value per half: enough to
tell a whole buffer from a mixed, partly cleared or partly filled one.  `held[c]` is
the *set* of values each half of the connection's buffer may hold: one value, or
several once two goroutines touched it at once.  `heard[c]` is the furthest half that
the client was sent.

**Streamer.** Each call of `Start` has its runner (116-128), scanner (130-149) and
timer (151-162); `Once` is the `sync.Once` that lets the first of them unlock.

**VirtualDevice.** A request's `pc` is its place in `StartTranscoder` or `StopTranscoder`;
each of their steps loads the shared fields anew.  Processes are `made`, `running`, `exited`
or `failed`; `Launched` and `HasProcess` are what `os/exec` does with a command in each
state, among them "already started" and the nil `Process` that `Cancel` dereferences.
`Dispatched` is the handler that answers: the first of a route's handlers that does not call
`c.Next()`.

**YoutubeSession.** A call's `pc` is its place on one path: `ensureSessionActive` of the
session with the lounge token (`ensure`, `token`), `bindAndSetVars` (`reset` to `assign`),
the two counters and the request (`number` to `post`); `phase` is what it wants the
session for, and says where an error or the end of binding leads (`Failed`, `Ready`).
`screen` to `start` is `ensureSessionActive` of the controller.  A binding is the number
of the answer that carried its ids, so that `posted` tells which binding a request used.
Every status carries a new screen id, since line 121 of the controller compares pointers.

**Discovery.**  The two chans are sequences of bounded length.  `cpc` is the place of the
goroutine of `createDeviceObjects`, and of `NewDevice` and `GetHwAddr` in it: `check` is the
look at the clock and `read` the read of a packet, which only a packet or an error ends.
`Answer` is the mDNS client, which drops an entry when its chan is full. `CutOff` are the
entry the loop took last and did not finish, once it returned, and those still on the chan.
`handles`, `clients` and `beating` are what was opened for an entry.  `Fails` leaves them as
they are, as the early returns do.

**Heartbeat.**  Each `Start` has its ticker and its goroutine, numbered alike.
`LoadTicker` is the read of the field (line 55), apart from `TakeTick`, the receive: in
between, Start and Stop may change the field.  `SendPing` is the end of the Send (56),
whatever came of it; it may never come.  Stop is `StopTicker` (or `StopPanics`, when
another Stop came between the check and the call) and `ClearTicker`.

**Device.**  A call is a list of requests, each sent by `Ask` and ended by an answer or by
a failure; a request that failed may still be served, and the device may refuse one in an
answer nobody looks at (`Refuse`).  A media status in memory is named after the call that
was answered it, so that `currentStatus` is the pointer it is: `LoadStatus` reads it
and `StoreVolume` writes into the struct it read (187), whatever `currentStatus` points
to by then.  `MergeStatus` is the store of `MediaController`, into the status it holds
(`shared`).  `quiet` is the last SetVolume while nothing else touched the volume or the
pointer it read, and `saw` the sessions of QuitApplication's list whose StopApplication
did not fail and was not refused.

**ConfigFile.**  A file is a sequence of chunks, the pieces between `};`, with the lines in
front of the brace, the number of braces and the lines behind.  `FoundName` is the search
for the section's name (section.go:107-125).  A section in memory keeps its keys as lines,
each followed by the lines of its description, as `CreateKvs` (key.go:100-126) hands them
out and `WriteTo` puts them back; what is in front of the first key is lost.
`UpdateValueAt` changes no section, as `KeyValues.Get` (parse.go:205-212) returns the
address of its loop variable; `asked` keeps the updates that were answered without an error.

## 3. Runs

| run | question | bounds | states |
| --- | --- | --- | --- |
| `channel` | are requests and answers matched, does each call return, is `RequestReply` implemented? | 2 callers, 2 channels, one of them of a media controller, 2 requests per channel | 497,000 |
| `packet_stream` | is only an overlapping write able to break the framing, is what arrives delivered whole? | 3 writers, messages of 2, 0 and 2 bytes | 204,000 |
| `media_connection` | does every waiter get a status, why may a call hang, which session does a request reach, is it connected? | 2 callers, 2 sessions, 1 change, 1 failure | 893,000 |
| `media_controller` | is a command for a current session, and why may it hang? | 1 command, 1 GetStatus, sessions 0-2, 2 messages under way | 122,000 |
| `audio_stream` | whole buffers, further and further on, no client delayed by another? | 2 broadcasters, 1 connection, 3 half buffers | 52,000 |
| `streamer` | one unlock per lock, stopped stays stopped, every start resolved? | 2 starts or restarts, 2 stops | 66,000 |
| `virtual_device` | is a process lost, is the right file broadcast, does teardown end all? | 2 requests; the route of all handlers, and one of a single handler | 60,000 |
| `youtube` | are ids there when used, are requests numbered from the start, does PlayVideo return? | 1 PlayVideo, 1 queue command, 2 statuses under way | 244,000 |
| `discovery` | is what FindDevice misses explained, is anything left open, does a search end? | 5 services of 3 kinds, chans of 2, 3 searches | 179,000 |
| `device` | does the cached volume hold, does QuitApplication stop what it saw, do PINGs go on? | 2 calls, 2 volumes, 2 starts | 244,000 |
| `config_file` | is a setting or a section lost or made up? | 5,256 files of up to 2 sections, of up to 2 lines, 3 updates, 2 cycles | 50,000 |

Why these bounds suffice: the hazards are races of two actors on one thing.  Two
callers with two requests each give a request that was answered or timed out before
another one reuses the table; two channels give messages that pass a channel by.
Three writers let a third come between the two pieces of a second.  A file of three
half buffers has a whole and a partial read, and an end from which a reader goes on.
Two starts and two stops give a goroutine of the first start that is late for the
second.  Two requests give two overlapping connects, or a connect and a disconnect.
`virtual_device` takes the two requests as interchangeable (`SYMMETRY`), which is
sound as no property of that run is temporal.  For `media_controller` the safety
property also holds with two commands (2.9 million states), and the liveness
property with two commands (one message under way, 1.9 million).  A
PlayVideo and a command meet on the dummy session, on a bound one and on a new one; two
calls of PlayVideo, where the goroutine of one takes the status the other waits for,
were checked apart (one status under way, 1.8 million states).  `virtual_device` also
holds with three requests (6.6 million states).

In `discovery`, two speakers share a port, so that one is found instead of the other;
chans of two make mDNS drop an entry while a device is asked.  In `device`, two calls are
two commands, or one beside a Start or Stop; with the Start of the constructor, two
starts give two goroutines on one ticker.  In `config_file`, the lines are all that the
parser tells apart - a key set, commented out, without a semicolon or with two, a comment,
prose with both delimiters - and so are the six ways a name may stand in front of a brace;
the second cycle reads what the first one wrote, with the line end behind it.

`CHECK_DEADLOCK FALSE` stands where the modelled part may rightly stop: all calls
made, the stream ended, the search over, the processes gone, the program ended by a nil
pointer.

### What the code does not do

One run looks for a counterexample to something the code's comments say, and finds one:
`media_twice` - `CommandActsOnce`.  A command the device can carry out at once
(MediaController.go:218) is carried out a second time (223); Next skips two items.

Other departures show in the passing runs, as a condition of a property or as a fact of
the model.

* A call times out after the dispatcher looked it up and before it hands the answer over
  (Channel.go:55): the dispatcher of the whole client blocks for ever.
  `StallMeansTimeout` says that this is the only way.
* `ensureConnectionActive` overwrites the session id (MediaConnection.go:68) before it is
  compared (99).  A caller by itself never notices a new session, and its channel keeps the
  transport of the first one.  Only when another caller, which found another session,
  writes the field in between does the comparison differ: the connection is refreshed and
  the channel gets another destination (143), under the requests of other callers too.
  `AstrayOnlyAfterSwitch` says that requests go astray only once the device changed its
  session.
* Two callers in `refreshConnection` may close what the other has just connected, make a
  channel each, and dereference a nil controller (117).  `ConnectedUnlessRefreshing` says
  that requests are sent to a closed connection in no other case than a refresh under way,
  two that overlapped, or one that failed half-way.
* /pause and /volume are taken by `HandleStream` (device_handlers.go:175, `&&` where `||` is
  meant), and /disconnect by `ConnectDeviceHandler`, as "disconnect" contains "connect" (77).
  `Dispatched` sends them there.
* An update of the configuration file succeeds and is lost (parse.go:208).  No property
  asks for what was updated.  `NothingInvented` does not rest on the loss, as it allows a
  setting that an update asked for; `SettingsSurvive` does for a setting that an update
  would replace.  Prose with `;` in front of `=`, or a section of nothing but a brace, ends
  the parser (`Panics`).
* Stop during a turn of the heartbeat, a search without a port, a media status with an
  empty list and a SetVolume with no cached status end the program; the models end with it.

The conditions in the passing properties name more weak spots; what a condition excuses is
not covered by the property, and `PROJECT.json` says so at the hazard.
`FramedUnlessOverlapping` needs its condition: two goroutines in `write`
(PacketStream.go:63) put length, length, body, body on the socket.  It allows out of place
only the piece of a writer that met the writer of the piece in front (`met`).
`RequestIDsUnique` and the other properties of the table hold until two calls under way at
once have passed one payload (`shared`): with two callers of `MediaController.GetStatus`,
which share the package-level `getMediaStatus`, TLC finds two requests with one id.  Other
calls beside one `GetStatus`, or one `GetStatus` after another, do no harm.
`ArrivedIsDelivered` assumes that the dispatcher comes back to read, which it does not once
it blocks in Channel.go:55, and excuses a reader that stopped; one short read (a message
larger than a TLS record) stops it for good.  `HangsOnlyAfterFailure` is weak on purpose:
one failed `GetStatus` leaves a waiter that takes the status of a later call, which then
waits for ever; and a caller whose `GetStatus` is being written for ever cannot offer the
status to the one whose status its waiter took.  `CommandReturns` and `PlayVideoReturns` are
about calls none of whose requests hangs, as a request hangs for ever in `getAppSession`
(MediaConnection.go:88) or in the socket.  `HeardMovesOn` lets a client hear the leftover
half again that a short read leaves in the buffer.  `FoundOrExplained` excuses the service
that ended the search and those behind it on the chan (`CutOff`). `SetVolumeLasts` excuses a
media status stored between SetVolume's reading of the pointer and its write
(Device.go:187), and a refusal, which SetVolume does not look for. `PingsGoOn` excuses a
goroutine whose PING is written for ever, and counts PINGs handed to the channel: the error
of Send is dropped (HeartbeatController.go:56). `OnlyReplacedSurviveStop` excuses processes
that a Restart replaced while they ran.  The properties of `VirtualDevice` excuse two
overlapping connects (`raced`), which start two ffmpegs on one input; those of
`MediaController` excuse a call disturbed by another and a command whose own status missed
its own goroutine.  `CommandIsCurrent` without its condition fails: a waiter served by an
older status writes it over the newer one.  `NumbersStartOver` excuses calls that shared a
session (`raced`): one binds and resets the counters between the other's binding and its
request.  `PlayVideoReturns` says nothing of success: PlayVideo returns nil though nothing
was queued (YoutubeController.go:66-67 drops the error), and no command is ever tried again,
as `runFast` is given functions that return nil.

## 4. Fairness

Properties that something eventually happens assume only what the Go runtime gives:
a goroutine that can go on does (weak fairness), `time.After` fires, and
`sync.Mutex`, which hands itself over to a waiter it starved, is not denied for ever
(strong fairness of the steps that lock).  Nothing is assumed of the device, of the
network, of HTTP clients, of `ffmpeg` and `shairport-sync`, nor of new calls.

* `Channel`: weak fairness of a caller past its write and of the dispatcher inside a
  message; none of `Transmit`, which may block in the socket, nor of listeners.
* `PacketStream`: weak fairness of the reads of the reading goroutine; none of the hand-over
  to the dispatcher, which may never come (`Deliver`).
* `MediaConnection`: a `GetStatus` past its write ends, by `WaitingRequestReturns`, and a
  caller goes on; none of the write, which has no deadline, nor of the dispatcher, which
  may be held up for ever.
* `MediaController`: weak fairness of each call outside the connection's `Request`; none of
  a request, nor of the dispatcher.
* `AudioStream`: strong fairness of `Broadcast`, `Join` and `Delete`, which lock; none of
  the writes to a client.
* `Streamer`: strong fairness of the steps that lock, weak of the goroutines.
* `YoutubeSession`: weak fairness of each call outside its requests; none of a request to
  the device or to the lounge, which has no timeout.
* `Discovery`: weak fairness of the query's timeout, of the clock, of the reader and of
  the steps that no device can hold up; none of a dial, a packet or a status.
* `Device`: weak fairness of each ticker, of the steps of the heartbeat's goroutines but the
  end of a Send, and of the two steps inside Stop; none of the other calls.
* `VirtualDevice` and `ConfigFile` have no liveness property and state no fairness.

## 5. Proofs

Checked by TLAPS for every value of the constants that satisfies the module's `ASSUME`.
The assumptions say that sets are disjoint or finite, that bounds are natural numbers,
that the device's stream is made of frames (`PacketStream`), and that files are made of
chunks and lines (`ConfigFile`).  Every safety and action property of the passing runs is
proved, and `ImplementsRequestReply` with them.

**Channel** (`ClientProofs`).  `ChannelTyped` needs no condition; the invariant behind the
other theorems holds until two calls shared a payload (`shared`), which nothing takes back.
No property is inductive.  The invariant ties five places
together: a call under way holds the number it took, in its payload too
(`CallsHoldNumbers`), and no two hold the same (`CallsDistinct`); numbers not given out
are unused, and a pending request has its caller (`FatesMatchCalls`); the table files a
request under its own number (`TableHoldsCalls`); the device knows exactly the
requests past their write (`SentMatchesCalls`); the dispatcher works on one of those
(`DispatcherHoldsAnswer`).  From it follow `IDsUnique`, `RepliesMatch`,
`TableDoesNotLeak`, `StallsOnlyOnTimeout`, and `ChannelImplements`: until a payload is
shared, every step is a step of `RequestReply` or leaves its variables alone.

**PacketStream** (`ClientProofs`).  `FramingNeedsOverlap`: two writers that are in `write`
together have met (`WritersMeet`), and of the last piece (`LastPiece`) either a length has
its writer behind it or the socket failed, and a writer about to send a body has its own
length there or has met the writer of what is.  `MessagesInOrder`, for any messages and
however the socket cuts them up: until a Read comes short the reader stands at some message
k (`AtMessage` in `RInv`), in front of its length or in its body, it has read that message's
length, and has delivered those before k that are not empty.  That two messages are never
taken for one another rests on their bodies being different pieces of the stream
(`BodiesDiffer`).

**MediaConnection** (`MediaConnectionProofs`).  `StatusesCoverWaiters` counts: each
rendezvous removes one waiter and one offer; each failure adds one waiter.  It needs
the callers to be finite, and that a goroutine on Incoming has its caller in
`GetStatus` or behind it (`WaitersHaveCallers`).  `AstrayOnlyOnceSwitched`: a channel that
can be used was given a destination (`ChannelsSetUp`), and until the device changes its
session, every status under way, every session found and every destination is of that
session (`OneSession`), however callers overwrite each other's fields.
`SentWhereConnected`: while refreshes come one at a time and end, the one under way has its
own channel in hand, and between two of them the channel there is connected
(`OneRefresh`).

**MediaController** (`MediaControllerProofs`).  `SecondMessageIsCurrent` follows one status
from the device to the second message of a command.  Messages are in the order of their
sessions, and an answer was sent after its call began (`StreamInOrder`); so whatever a
call was answered, and all that is still to come, is no older than the call
(`AnswerIsCurrent`), and so is what its goroutine took, if that was its own answer
(`TakenIsCurrent`).  From the goroutine's signal on, that is what `MediaSessionID` holds,
whatever the listener stores meanwhile (`StoredIsCurrent`).  Two calls under way are
disturbed (`AloneUnlessDisturbed`), and a goroutine is where its command says
(`WaiterMatchesCall`).  `MediaControllerTyped` says that a command acts at most twice,
which needs that each message acts once (`ActedPerMessage`).

**Device** (`DeviceProofs`).  `VolumeStaysSet`: while the last SetVolume is undisturbed, no
other request on its way sets the volume, so that once it is answered nothing can change the
receiver's, and the pointer it loaded is still `currentStatus` (`OnlyQuietSets`).
`QuitStopsAll`: what runs or was seen to run has been launched for the last time
(`KnownAreLaunched`), so that what QuitApplication has stopped stays stopped, and its list
holds all that it saw and that still runs (`Stops`); what a refusal left running it no
longer counts (`Refused`). `DeviceTyped` needs that an answer is of the kind that was asked
for (`AnswersFit`).

**AudioStream** (`StreamProofs`).  `StreamTyped`, `PoolIsLocked` and `BuffersArriveWhole`: what a
broadcaster holds is one buffer of the file (`BuffersRead`), copies are made under the
lock (`CopiesUnderLock`), and a connection to which the buffer was copied, and whose
writer is at its receive, holds it (`CopiedIsHeld`).  `SentFurtherOn`, an
invariant: while one broadcaster alone feeds the pool, what it is about to copy was read
after all that a client heard and all that its connection holds, and what a writer that
kept up holds lies behind what its client heard (`FeederAhead`); that the writer sends
nothing older needs the copy to be under the lock and whole, hence the invariant above.

**Streamer** (`StreamProofs`).  `OneUnlockPerLock`, `StopsForGood`, `RunsWithIndex`,
`StopKillsItsOwn` and `StreamerTyped`.  Commands are counted against the calls that
spawned one (`CommandsCounted`); a scanner that found the index of an unresolved start
finds it still there (`FoundIsThere`).

**VirtualDevice** (`VirtualDeviceProofs`).  `DeviceTyped`, `FfmpegIsKnown`,
`ReadersFollowFfmpeg` and `TeardownLeavesNothing`: without overlap one request at most is in
`StartTranscoder` (`OneStarter`), one command and one file are ever made (`OneCommand`,
`OneFile`), whatever fails in between, and teardown cancels that command (`TornIsFfmpeg`).

**ConfigFile** (`VirtualDeviceProofs`).  `ConfigTyped`, `SettingsAreKept`,
`NothingIsInvented` and `SectionsAreKept`, for files of any length, read and written any
number of times.  The properties compare the file with the first one; what carries them
through the cycles is a relation between a chunk and what became of it (`KeptAs`).  One
cycle establishes it (`CycleKeeps`, from what `CreateKvs` reads of a body, `KvsOfBody`,
and what `WriteSection` makes of that, `WrittenSection`), it goes from cycle to cycle
(`KeptGoesOn`), and the line end behind the last section only ever becomes sections that
name and set nothing (`IsEmpty`).  Names out of place are not kept even once, so that
`KeptAs` must say that a name that was in place still is.  `WrittenSectionsStay`, an action
property that is only proved: a section with a description, once written, is written again
line for line as it is (`Settled`), as `Parse` reads back the Section it was written from
(`ReadAsWritten`).  One without a description gets a line more, its name, in the second
cycle, as TLC shows.

**YoutubeSession** (`YoutubeSessionProofs`).  `SessionTyped`, `IdsAlwaysThere` and
`RequestsNumbered`.  A call past its binding follows an assignment of ids that nobody
takes away (`IdsHeld`).  Without sharing, one call at most works on a session
(`OneWorker`), the counters are what its place says (`CountersFollow`), and a binding it
holds is its own and unused (`BindingsFresh`).  That a session is made by a call of
PlayVideo alone needs that queue commands never look for a screen (`ActionsKeepOff`).

**Discovery** (`DiscoveryProofs`).  `TypeCorrect`, `FindsOrExplains` and `LeavesOneLoose`. A
service that resembles is excused, or in one of three places: the chan of entries, the hand
of the loop, the chan of devices (`Underway`).  So when the caller finds the last one closed
and empty, either the loop ended without an entry in hand (`EndsAfterQuery`) and only the
excuse is left, or it returned with one, and the service is that one or on the chan behind
it (`CutOff`); what a caller was sent and found not to resemble does not resemble.  What is
in the chan of devices has a heartbeat (`DevicesBeat`), and what the entry in hand has
opened follows from `cpc` (`Tidy`, `HandKnown`).

**Type invariants.**  Every module with a specification of its own has its type invariant
proved, and the runs check only that of `MediaController`, where it says that a command
does not act three times.  For `PacketStream` the type of what is delivered is part of
`DeliveredInOrder`.

**Only model-checked.**  The liveness properties, which are out of the prover's reach:
`WaitingRequestReturns`, `ArrivedIsDelivered`, `HangsOnlyAfterFailure`,
`BroadcastReturns`, `ClientsJoinAndLeave`, `StartIsResolved`, `CommandReturns`,
`PlayVideoReturns`, `SearchAnswers` and `PingsGoOn`.  So is the counterexample of
`media_twice`, which is a fact about one behaviour.

## 6. Not modelled

* The append to the list of channels and listeners while the dispatcher iterates
  over it; binary messages.  Channels and listeners exist from the start.
* In `Channel`, a destination that changes under requests in flight: it is a field of the
  message that is written, and the table and the ids do not depend on it.  Whose request
  goes to which destination is in `MediaConnection`.
* Cast commands made by HTTP handlers (`QuitApplication`, `GetVolume`): each is one call
  of `Device`, which takes several at once.
* `Connect` and `Close` of the connection controller and `onPing`: one message each.
* `Scan`, `appendDeviceInfo`, `GetStream`, `StreamWriter`, `StartStream`,
  `ConnectDeviceToVirtualStream`, `Terminate`, the function `HandleSection`: no caller.
* Bytes of packets, the characters of a configuration line, the text of an mDNS record.
* Message texts, MIME types, ffmpeg's arguments, logging.
* The components whose status in `PROJECT.json` is `not_modelled`; see the plan.

## 7. Plan

Done, in the order of importance: the engine every command goes through, its framing,
the connection and the controllers above it; then the audio path, and the processes
behind it; then discovery, the device with its heartbeat, and the configuration file.

Next:

1. `JobQueue`: `AddJobs`, `AddJob` and two workers; every job taken once, no job lost
   when the context is cancelled.
2. `SampleBuffer`: `UpdateSamplesField` of the encoder as a pure operator.

Theorems worth proving next: that the abstract `RequestReply` answers a request at most once
and with an answer to it, so that the results about `Channel` need not be read off its
table; and the same kind of contract for `MediaConnection`, with `HangsOnlyAfterFailure`
split into an invariant that is proved and a liveness step that is checked.
