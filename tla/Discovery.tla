------------------------------ MODULE Discovery ------------------------------
(***************************************************************************)
(* DeviceFinder.go, scanner/scanner.go and NewDevice: FindDevice starts    *)
(* two goroutines.  One runs the mDNS query and hands its entries over on  *)
(* a chan; the other makes a device of each, one after the other: a pcap   *)
(* handle, a TLS connection, an ARP request for the hardware address, the  *)
(* heartbeat, a first status.  FindDevice takes the devices from a second  *)
(* chan until one resembles what it looks for.                             *)
(*                                                                         *)
(* External: mdns.Query sends an entry once, drops it when the chan is     *)
(* full, and returns after its timeout; pcap, with BlockForever, returns   *)
(* from a read only with a packet or an error.                             *)
(***************************************************************************)
EXTENDS Integers, Sequences, FiniteSets

CONSTANTS
    Entries,    \* the services that may answer the query
    Info,       \* Info[e]: the model, port and friendly name of e
    Foreign,    \* entries of another service
    Malformed,  \* entries whose text FromServiceEntryInfo panics at
    Finds,      \* what callers look for
    Buffer,     \* deviceBufferSearchSize, also the 100 of FindDevice
    NoPort,     \* a DeviceInfo without a port
    None        \* no entry

ASSUME DiscoveryAssumption ==
    /\ None \notin Entries
    /\ Foreign \subseteq Entries /\ Malformed \subseteq Entries
    /\ Buffer \in Nat \ {0}

VARIABLES
    find,       \* what the caller looks for
    unanswered, \* services that have not answered the query
    dropped,    \* entries mdns dropped
    entries,    \* the chan of entries
    closed,     \* the query returned and closed it
    cpc,        \* where createDeviceObjects and NewDevice are
    hand,       \* the entry taken last
    late,       \* three seconds passed since GetHwAddr began
    handles,    \* entries whose pcap handle is open
    clients,    \* entries with a connection
    beating,    \* entries with a heartbeat
    devices,    \* the chan of devices
    caller,     \* where FindDevice is
    result,     \* the device it returned
    crashed     \* log.Fatal or a panic ended the program

query == <<unanswered, dropped, entries, closed>>
device == <<handles, clients, beating>>
caller_ == <<caller, result>>
vars == <<find, query, cpc, hand, late, device, devices, caller_, crashed>>

Steps == {"router", "range", "scanner", "dial", "request", "check", "read",
          "device", "status", "send", "returned"}

TypeOK ==
    /\ find \in Finds
    /\ unanswered \subseteq Entries /\ dropped \subseteq Entries
    /\ entries \in Seq(Entries) /\ devices \in Seq(Entries)
    /\ closed \in BOOLEAN /\ late \in BOOLEAN /\ crashed \in BOOLEAN
    /\ cpc \in Steps
    /\ hand \in Entries \cup {None} /\ result \in Entries \cup {None}
    /\ handles \subseteq Entries /\ clients \subseteq Entries /\ beating \subseteq Entries
    /\ caller \in {"ranging", "found", "nil"}

\* FindDevice made its chan and FindDevices the other, and the goroutines run.
Init ==
    /\ find \in Finds
    /\ unanswered = Entries
    /\ dropped = {}
    /\ entries = << >>
    /\ closed = FALSE
    /\ cpc = "router"
    /\ hand = None
    /\ late = FALSE
    /\ handles = {}
    /\ clients = {}
    /\ beating = {}
    /\ devices = << >>
    /\ caller = "ranging"
    /\ result = None
    /\ crashed = FALSE

----------------------------------------------------------------------------
(* lookupChromecastMDNSEntries *)

Answer(e) ==
    /\ ~crashed /\ ~closed
    /\ e \in unanswered
    /\ unanswered' = unanswered \ {e}
    /\ IF Len(entries) < Buffer
       THEN entries' = Append(entries, e) /\ UNCHANGED dropped
       ELSE dropped' = dropped \cup {e} /\ UNCHANGED entries
    /\ UNCHANGED <<find, closed, cpc, hand, late, device, devices, caller_, crashed>>

\* What the chan holds stays there to be taken.
QueryEnds ==
    /\ ~crashed /\ ~closed
    /\ closed' = TRUE
    /\ UNCHANGED <<find, unanswered, dropped, entries, cpc, hand, late, device, devices, caller_, crashed>>

----------------------------------------------------------------------------
(* createDeviceObjects *)

Goes(from, to) == ~crashed /\ cpc = from /\ cpc' = to

\* log.Fatal ends the program, and so does a panic.
Fatal(step) ==
    /\ ~crashed /\ cpc = step
    /\ crashed' = TRUE
    /\ UNCHANGED <<find, query, cpc, hand, late, device, devices, caller_>>

NewRouter ==
    /\ Goes("router", "range")
    /\ UNCHANGED <<find, query, hand, late, device, devices, caller_, crashed>>

\* An entry of another service ends the search.
TakeEntry ==
    /\ entries # << >>
    /\ Goes("range", IF Head(entries) \in Foreign THEN "returned" ELSE "scanner")
    /\ hand' = Head(entries)
    /\ entries' = Tail(entries)
    /\ UNCHANGED <<find, unanswered, dropped, closed, late, device, devices, caller_, crashed>>

\* Slip: the loop ends with the query, whatever the chan still holds.
EntriesCut ==
    /\ closed
    /\ Goes("range", "returned")
    /\ hand' = None
    /\ UNCHANGED <<find, query, late, device, devices, caller_, crashed>>

EntriesEnd ==
    /\ closed /\ entries = << >>
    /\ Goes("range", "returned")
    /\ hand' = None
    /\ UNCHANGED <<find, query, late, device, devices, caller_, crashed>>

NewScanner ==
    /\ Goes("scanner", "dial")
    /\ handles' = handles \cup {hand}
    /\ UNCHANGED <<find, query, hand, late, clients, beating, devices, caller_, crashed>>

\* NewDevice returned an error: the search is over, devices is closed, and
\* what the entry in hand has opened stays open.
Fails(step) ==
    /\ Goes(step, "returned")
    /\ UNCHANGED <<find, query, hand, late, device, devices, caller_, crashed>>

NewClient ==
    /\ Goes("dial", "request")
    /\ clients' = clients \cup {hand}
    /\ UNCHANGED <<find, query, hand, late, handles, beating, devices, caller_, crashed>>

\* GetHwAddr notes the time and sends one ARP request.
SendRequest ==
    /\ Goes("request", "check")
    /\ late' = FALSE
    /\ UNCHANGED <<find, query, hand, device, devices, caller_, crashed>>

ThreeSeconds ==
    /\ ~crashed /\ cpc \in {"check", "read"} /\ ~late
    /\ late' = TRUE
    /\ UNCHANGED <<find, query, cpc, hand, device, devices, caller_, crashed>>

\* Slip: the time is not looked at.
NeverLate ==
    /\ Goes("check", "read")
    /\ UNCHANGED <<find, query, hand, late, device, devices, caller_, crashed>>

\* "timeout getting ARP reply", else the next read.
CheckTime ==
    /\ Goes("check", IF late THEN "returned" ELSE "read")
    /\ UNCHANGED <<find, query, hand, late, device, devices, caller_, crashed>>

ReadOther ==
    /\ Goes("read", "check")
    /\ UNCHANGED <<find, query, hand, late, device, devices, caller_, crashed>>

ReadReply ==
    /\ Goes("read", "device")
    /\ UNCHANGED <<find, query, hand, late, device, devices, caller_, crashed>>

\* Slip: the handle is not closed.
MakeDeviceUnclosed ==
    /\ hand \notin Malformed
    /\ Goes("device", "status")
    /\ beating' = beating \cup {hand}
    /\ UNCHANGED <<find, query, hand, late, handles, clients, devices, caller_, crashed>>

\* s.Close, FromServiceEntryInfo, the heartbeat, CONNECT and the controllers.
MakeDevice ==
    /\ hand \notin Malformed
    /\ Goes("device", "status")
    /\ handles' = handles \ {hand}
    /\ beating' = beating \cup {hand}
    /\ UNCHANGED <<find, query, hand, late, clients, devices, caller_, crashed>>

\* uuid.MustParse, or an item of the text without a value.
MakeDevicePanics == hand \in Malformed /\ Fatal("device")

\* GetMediaStatus, whose error is dropped.
Status ==
    /\ Goes("status", "send")
    /\ UNCHANGED <<find, query, hand, late, device, devices, caller_, crashed>>

SendDevice ==
    /\ Len(devices) < Buffer
    /\ Goes("send", "range")
    /\ devices' = Append(devices, hand)
    /\ UNCHANGED <<find, query, hand, late, device, caller_, crashed>>

----------------------------------------------------------------------------
(* FindDevice *)

\* DeviceInfo.Resembles: any one of them will do.  The addresses are compared
\* as pointers and never equal.
Resembles(e) ==
    \/ Info[e].md = find.md
    \/ Info[e].port = find.port
    \/ Info[e].fn = find.fn

\* Port dereferences a nil pointer, unless the model was the same.
ComparisonPanics(e) == find.port = NoPort /\ Info[e].md # find.md

Receive ==
    /\ ~crashed /\ caller = "ranging"
    /\ devices # << >> /\ ~ComparisonPanics(Head(devices))
    /\ devices' = Tail(devices)
    /\ IF Resembles(Head(devices))
       THEN caller' = "found" /\ result' = Head(devices)
       ELSE UNCHANGED caller_
    /\ UNCHANGED <<find, query, cpc, hand, late, device, crashed>>

ReceivePanics ==
    /\ ~crashed /\ caller = "ranging"
    /\ devices # << >> /\ ComparisonPanics(Head(devices))
    /\ crashed' = TRUE
    /\ UNCHANGED <<find, query, cpc, hand, late, device, devices, caller_>>

DevicesEnd ==
    /\ ~crashed /\ caller = "ranging"
    /\ devices = << >> /\ cpc = "returned"
    /\ caller' = "nil"
    /\ UNCHANGED <<find, query, cpc, hand, late, device, devices, result, crashed>>

----------------------------------------------------------------------------

GetHwAddr == SendRequest \/ CheckTime \/ ReadOther \/ ReadReply

NewDevice == NewClient \/ GetHwAddr \/ MakeDevice \/ MakeDevicePanics \/ Status

\* log.Fatal without a router or a scanner; the first status may be an empty
\* list, which panics.
Crash == \E step \in {"router", "scanner", "status"} : Fatal(step)

CreateDeviceObjects ==
    \/ NewRouter
    \/ TakeEntry
    \/ EntriesEnd
    \/ NewScanner
    \/ NewDevice
    \/ SendDevice
    \/ \E step \in {"dial", "request", "read"} : Fails(step)
    \/ Crash

FindDevice == Receive \/ ReceivePanics \/ DevicesEnd

Next ==
    \/ \E e \in Entries : Answer(e)
    \/ QueryEnds
    \/ ThreeSeconds
    \/ CreateDeviceObjects
    \/ FindDevice

Spec == Init /\ [][Next]_vars

\* The goroutines are scheduled and the clock goes on; nothing makes a device
\* answer a dial or a status request, or a packet arrive.
Runs == NewRouter \/ TakeEntry \/ EntriesEnd \/ NewScanner \/ SendRequest
        \/ CheckTime \/ MakeDevice \/ MakeDevicePanics \/ SendDevice

FairSpec ==
    /\ Spec
    /\ WF_vars(QueryEnds)
    /\ WF_vars(ThreeSeconds)
    /\ WF_vars(Runs)
    /\ WF_vars(FindDevice)

----------------------------------------------------------------------------
(* Properties *)

Holds(chan, e) == \E i \in 1 .. Len(chan) : chan[i] = e

\* e was taken and never became a device, which cut the search short; or it
\* came after that one and stays on the chan.
CutOff(e) == cpc = "returned" /\ hand # None /\ (e = hand \/ Holds(entries, e))

\* "FindDevice finds a specific Device" (DeviceFinder.go:18): what it returns
\* resembles, and when it returns nothing, every service that resembles did
\* not answer in time, was dropped by mdns, or was cut off: no device that was
\* made is passed over, however the search ended.
FoundOrExplained ==
    /\ caller = "found" => result \in beating /\ Resembles(result)
    /\ caller = "nil" =>
           \A e \in Entries : Resembles(e) => e \in unanswered \cup dropped \/ CutOff(e)

\* Whatever fails, all that was opened is in a finished device, connected,
\* with its heartbeat and its handle closed, but for the one entry in hand.
OnlyHandIsLoose ==
    \A e \in Entries \ {hand} : e \notin handles /\ (e \in clients <=> e \in beating)

\* FindDevice returns, or the program ends, or createDeviceObjects is held
\* for ever by a device: by its TLS handshake, by a status that hangs, or by
\* the lack of a single packet after the ARP request, since the three seconds
\* are only looked at between two reads.
HeldByDevice == cpc \in {"dial", "read", "status"}

SearchAnswers == <>(caller # "ranging" \/ crashed) \/ <>[]HeldByDevice
=============================================================================
