------------------------- MODULE VirtualDeviceProofs -------------------------
(***************************************************************************)
(* Proofs about VirtualDevice, for any number of requests, any routes and  *)
(* any targets: as long as no two requests are in StartTranscoder at once, *)
(* at most one ffmpeg is ever made, /connect broadcasts what it writes,    *)
(* and teardown ends it.  And about ConfigFile, the file it starts its     *)
(* processes with, for any files and any updates: what reading and writing *)
(* a file again and again keeps of it.                                     *)
(***************************************************************************)
EXTENDS VirtualDevice, ConfigFile, TLAPS, SequenceTheorems, WellFoundedInduction

Types ==
    /\ sps \in Process
    /\ ffmpeg \in Requests \cup {Nil}
    /\ proc \in [Requests -> Process]
    /\ out \in [Requests -> Requests \cup {Nil}]
    /\ fileName \in Requests \cup {Nil} /\ content \in Requests \cup {Nil}
    /\ DOMAIN pc = Requests
    /\ DOMAIN reader = Requests

\* One request at most is in StartTranscoder, and what it has done so far.
OneStarter ==
    /\ \A r, s \in Requests : pc[r] \in InStartTranscoder /\ pc[s] \in InStartTranscoder => r = s
    /\ \A r \in Requests :
          /\ pc[r] \in {"file", "name"} => ffmpeg = Nil /\ fileName = Nil
          /\ pc[r] = "command" => ffmpeg = Nil
          /\ pc[r] \in {"pipe", "start"} => ffmpeg = r
    /\ ffmpeg = Nil /\ fileName # Nil => \E r \in Requests : pc[r] = "command"

\* Only the request that made ffmpeg made a command.
OneCommand == \A i \in Requests : i # ffmpeg => proc[i] = "none"

\* Everyone uses the one temporary file.
OneFile ==
    /\ ffmpeg # Nil => out[ffmpeg] = fileName
    /\ \A r \in Requests : reader[r] \in {Nil, fileName}

\* Teardown holds on to that ffmpeg.
TornIsFfmpeg ==
    ~crashed =>
        /\ tpc # "idle" => ffmpeg # Nil /\ torn = ffmpeg
        /\ tpc = "done" => sps = "exited" /\ proc[ffmpeg] = "exited"

IInv == ~raced => Types /\ OneStarter /\ OneCommand /\ OneFile /\ TornIsFfmpeg

USE VirtualDeviceAssumption

LEMMA InitIInv == Init => IInv
BY DEF Init, IInv, Types, OneStarter, OneCommand, OneFile, TornIsFfmpeg, Process, InStartTranscoder

Inv == Types /\ OneStarter /\ OneCommand /\ OneFile /\ TornIsFfmpeg

LEMMA RacedForGood == raced /\ [Next]_vars => raced'
BY DEF Next, vars, Virtualize, PipeSps, StartSps, Arrive, Connect, Disconnect, Check, MakeFile,
   NameFile, MakeCommand, Pipe, StartFfmpeg, OpenFileAndStream, CallWait, WaitReturns, CancelFfmpeg,
   Teardown, WaitForSps, WaitForFfmpeg, WaitForContext, TeardownGoes, SpsExits,
   ContextCancelled, FfmpegExits

LEMMA StepIInv == IInv /\ [Next]_vars => IInv'
<1> SUFFICES ASSUME Inv, [Next]_vars, ~raced, ~raced' PROVE Inv'
  BY RacedForGood DEF IInv, Inv
<1> USE DEF Inv, Types, OneStarter, OneCommand, OneFile, TornIsFfmpeg, InStartTranscoder,
        spsVars, ffmpegVars, fileVars, requestVars, teardownVars
<1>1. CASE UNCHANGED vars
  BY <1>1 DEF vars
<1>2. CASE Virtualize
  BY <1>2 DEF Virtualize, Process
<1>3. CASE PipeSps
  BY <1>3 DEF PipeSps
<1>4. CASE StartSps
  BY <1>4 DEF StartSps, Launched, Process
<1>5. ASSUME NEW r \in Requests, Arrive(r) PROVE Inv'
  BY <1>5 DEF Arrive
<1>6. ASSUME NEW r \in Requests, Check(r) PROVE Inv'
  BY <1>6 DEF Check, Goes, Idle
<1>7. ASSUME NEW r \in Requests, MakeFile(r) \/ NameFile(r) PROVE Inv'
  <2>1. CASE MakeFile(r)
    BY <2>1 DEF MakeFile, Goes
  <2>2. CASE NameFile(r)
    BY <2>2 DEF NameFile, Goes
  <2> QED BY <1>7, <2>1, <2>2
<1>8. ASSUME NEW r \in Requests, MakeCommand(r) PROVE Inv'
  BY <1>8 DEF MakeCommand, Goes, Process
<1>9. ASSUME NEW r \in Requests, Pipe(r) PROVE Inv'
  BY <1>9 DEF Pipe, Goes, Process
<1>10. ASSUME NEW r \in Requests, StartFfmpeg(r) PROVE Inv'
  BY <1>10 DEF StartFfmpeg, Goes, Launched
<1>11. ASSUME NEW r \in Requests, OpenFileAndStream(r) PROVE Inv'
  BY <1>11 DEF OpenFileAndStream, Goes
<1>12. ASSUME NEW r \in Requests, CallWait(r) PROVE Inv'
  BY <1>12 DEF CallWait, Goes
<1>13. ASSUME NEW r \in Requests, WaitReturns(r) PROVE Inv'
  BY <1>13 DEF WaitReturns, Goes
<1>14. ASSUME NEW r \in Requests, CancelFfmpeg(r) PROVE Inv'
  BY <1>14 DEF CancelFfmpeg, Goes, HasProcess, Process
<1>15. CASE Teardown
  BY <1>15 DEF Teardown, TeardownGoes
<1>16. CASE WaitForSps
  BY <1>16 DEF WaitForSps, TeardownGoes
<1>17. CASE WaitForFfmpeg
  BY <1>17 DEF WaitForFfmpeg, TeardownGoes
<1>18. CASE WaitForContext
  BY <1>18 DEF WaitForContext, TeardownGoes, HasProcess, Process
<1>19. CASE SpsExits
  BY <1>19 DEF SpsExits, Process
<1>20. CASE ContextCancelled
  BY <1>20 DEF ContextCancelled
<1>21. ASSUME NEW i \in Requests, FfmpegExits(i) PROVE Inv'
  BY <1>21 DEF FfmpegExits, Process
<1> QED
  BY <1>1, <1>2, <1>3, <1>4, <1>5, <1>6, <1>7, <1>8, <1>9, <1>10, <1>11, <1>12, <1>13,
     <1>14, <1>15, <1>16, <1>17, <1>18, <1>19, <1>20, <1>21 DEF Next, Connect, Disconnect

LEMMA TypePreserved == TypeOK /\ [Next]_vars => TypeOK'
<1> SUFFICES ASSUME TypeOK, [Next]_vars PROVE TypeOK'
  OBVIOUS
<1> USE DEF TypeOK, Process, InStartTranscoder, spsVars, ffmpegVars, fileVars, requestVars, teardownVars
<1>1. CASE UNCHANGED vars
  BY <1>1 DEF vars
<1>2. CASE Virtualize \/ PipeSps \/ StartSps \/ SpsExits \/ ContextCancelled
  BY <1>2 DEF Virtualize, PipeSps, StartSps, Launched, SpsExits, ContextCancelled
<1>3. ASSUME NEW r \in Requests, Arrive(r) PROVE TypeOK'
  BY <1>3 DEF Arrive
<1>4. ASSUME NEW r \in Requests, Check(r) PROVE TypeOK'
  BY <1>4 DEF Check, Goes
<1>5. ASSUME NEW r \in Requests, MakeFile(r) \/ NameFile(r) PROVE TypeOK'
  <2>1. CASE MakeFile(r)
    BY <2>1 DEF MakeFile, Goes
  <2>2. CASE NameFile(r)
    BY <2>2 DEF NameFile, Goes
  <2> QED BY <1>5, <2>1, <2>2
<1>6. ASSUME NEW r \in Requests, MakeCommand(r) PROVE TypeOK'
  BY <1>6 DEF MakeCommand, Goes
<1>7. ASSUME NEW r \in Requests, Pipe(r) PROVE TypeOK'
  <2>1. proc' \in [Requests -> Process] /\ piped' \in [Requests -> BOOLEAN] /\ crashed' \in BOOLEAN
    BY <1>7 DEF Pipe, Goes
  <2>2. pc' = [pc EXCEPT ![r] = "start"] \/ pc' = [pc EXCEPT ![r] = "open"]
    BY <1>7 DEF Pipe, Goes
  <2> QED
    BY <1>7, <2>1, <2>2 DEF Pipe
<1>8. ASSUME NEW r \in Requests, StartFfmpeg(r) PROVE TypeOK'
  <2>1. proc' \in [Requests -> Process]
    BY <1>8 DEF StartFfmpeg
  <2>2. pc' = [pc EXCEPT ![r] = "open"]
    BY <1>8 DEF StartFfmpeg, Goes
  <2> QED
    BY <1>8, <2>1, <2>2 DEF StartFfmpeg, Goes
<1>9. ASSUME NEW r \in Requests, OpenFileAndStream(r) PROVE TypeOK'
  BY <1>9 DEF OpenFileAndStream, Goes
<1>10. ASSUME NEW r \in Requests, Disconnect(r) PROVE TypeOK'
  <2>1. CASE CallWait(r)
    <3>1. waited' \in [Requests -> Requests \cup {Nil}] /\ crashed' \in BOOLEAN
      BY <2>1 DEF CallWait
    <3>2. pc' = [pc EXCEPT ![r] = "wait"]
      BY <2>1 DEF CallWait, Goes
    <3> QED
      BY <2>1, <3>1, <3>2 DEF CallWait
  <2>3. CASE WaitReturns(r)
    <3>1. pc' = [pc EXCEPT ![r] = "cancel"]
      BY <2>3 DEF WaitReturns, Goes
    <3> QED
      BY <2>3, <3>1 DEF WaitReturns
  <2>2. CASE CancelFfmpeg(r)
    <3>1. proc' \in [Requests -> Process] /\ crashed' \in BOOLEAN
      BY <2>2 DEF CancelFfmpeg, Goes
    <3>2. pc' = [pc EXCEPT ![r] = "answered"]
      BY <2>2 DEF CancelFfmpeg, Goes
    <3> QED
      BY <2>2, <3>1, <3>2 DEF CancelFfmpeg
  <2> QED
    BY <1>10, <2>1, <2>2, <2>3 DEF Disconnect
<1>11. CASE Teardown \/ WaitForSps \/ WaitForFfmpeg \/ WaitForContext
  BY <1>11 DEF Teardown, WaitForSps, WaitForFfmpeg, WaitForContext, TeardownGoes
<1>12. ASSUME NEW i \in Requests, FfmpegExits(i) PROVE TypeOK'
  BY <1>12 DEF FfmpegExits
<1> QED
  BY <1>1, <1>2, <1>3, <1>4, <1>5, <1>6, <1>7, <1>8, <1>9, <1>10, <1>11, <1>12
     DEF Next, Connect

\* Every variable keeps its type, also when two requests meet in
\* StartTranscoder and one of them works on the other's command.
THEOREM DeviceTyped == Spec => []TypeOK
<1>1. Init => TypeOK
  BY DEF Init, TypeOK, Process
<1> QED
  BY <1>1, TypePreserved, PTL DEF Spec

\* The inductive invariant holds in every state before two requests meet in
\* StartTranscoder (device_processes.go:115-161).
THEOREM DeviceInvariant == Spec => []IInv
<1>1. Init => IInv
  BY InitIInv
<1>2. IInv /\ [Next]_vars => IInv'
  BY StepIInv
<1> QED
  BY <1>1, <1>2, PTL DEF Spec

\* No ffmpeg is lost: a running one is the one in v.ffmpeg.
THEOREM FfmpegIsKnown == Spec => []OnlyFfmpegRuns
<1>1. IInv => OnlyFfmpegRuns
  BY DEF IInv, OneCommand, OnlyFfmpegRuns
<1> QED
  BY <1>1, DeviceInvariant, PTL

\* What a goroutine of /connect broadcasts is the file v.ffmpeg writes.
THEOREM ReadersFollowFfmpeg == Spec => []ReaderReadsOutput
<1>1. IInv => ReaderReadsOutput
  BY DEF IInv, OneFile, ReaderReadsOutput
<1> QED
  BY <1>1, DeviceInvariant, PTL

\* Once teardown returned, shairport-sync and ffmpeg have ended.
THEOREM TeardownLeavesNothing == Spec => []TeardownEndsProcesses
<1>1. IInv => TeardownEndsProcesses
  BY DEF IInv, TornIsFfmpeg, OneCommand, TeardownEndsProcesses
<1> QED
  BY <1>1, DeviceInvariant, PTL

----------------------------------------------------------------------------
(***************************************************************************)
(* The configuration file.  What a cycle of reading and writing makes of a *)
(* chunk is kept of the chunk it was made of, and that goes on.            *)
(***************************************************************************)

\* The chunk f is what became of the chunk o: its name if it was in place, the
\* settings with their semicolon, and no others.
KeptAs(o, f) ==
    /\ NameInPlace(o) => NameInPlace(f) /\ NameOf(f) = NameOf(o)
    /\ o.braces = 1 =>
          /\ f.braces = 1
          /\ \A j \in 1 .. Len(o.body) : ReadInFull(o.body[j]) =>
                \E k \in 1 .. Len(f.body) :
                    /\ ReadInFull(f.body[k])
                    /\ f.body[k].name = o.body[j].name
                    /\ f.body[k].value = o.body[j].value
    /\ \A j \in 1 .. Len(f.body) : IsSet(f.body[j]) =>
          \E k \in 1 .. Len(o.body) :
              /\ IsSet(o.body[k]) /\ o.body[k].name = f.body[j].name
              /\ f.body[j].value \in {o.body[k].value, ReadValue(o.body[k].value)}

\* A chunk that names nothing and sets nothing.
IsEmpty(chunk) ==
    /\ NameInPlace(chunk) /\ NameOf(chunk) = NoName
    /\ \A j \in 1 .. Len(chunk.body) : ~IsSet(chunk.body[j])

FileKept ==
    /\ Len(file) \in Len(origin) .. Len(origin) + cycles
    /\ \A i \in 1 .. Len(file) :
          IF i <= Len(origin) THEN KeptAs(origin[i], file[i]) ELSE IsEmpty(file[i])

\* In memory is what the file says, while it is read.
SectionsRead ==
    phase = "parsed" =>
        cycles < MaxCycles /\ ~ParseFails(file) /\ sections = ParseAll(file)

ConfigInv == ConfigTypeOK /\ SectionsRead /\ FileKept

LEMMA FunctionIsSeq ==
    ASSUME NEW T, NEW n \in Nat, NEW f \in [1 .. n -> T]
    PROVE  f \in Seq(T) /\ Len(f) = n /\ \A i \in 1 .. n : f[i] \in T
<1>1. f \in Seq(T)
  BY SeqDef
<1>2. DOMAIN f = 1 .. n /\ DOMAIN f = 1 .. Len(f) /\ Len(f) \in Nat
  BY <1>1, LenProperties
<1> QED BY <1>1, <1>2

HIDE VirtualDeviceAssumption
USE ConfigFileAssumption

LEMMA Least ==
    ASSUME NEW S \in SUBSET Nat, S # {}
    PROVE  \E i \in S : \A j \in S : i <= j
<1>1. IsWellFoundedOn(OpToRel(<, Nat), Nat)
  BY NatLessThanWellFounded
<1>2. PICK i \in S : \A j \in S : <<j, i>> \notin OpToRel(<, Nat)
  BY <1>1, WFMin
<1>3. \A j \in S : ~(j < i)
  BY <1>2 DEF OpToRel
<1> QED BY <1>3

\* What is in a line of each kind.
LEMMA LineParts ==
    ASSUME NEW line \in Line
    PROVE  /\ IsKey(line) => /\ line.name \in STRING
                             /\ line.value \in STRING
                             /\ line.off \in BOOLEAN
           /\ IsName(line) => line.name \in STRING
BY DEF Line, IsKey, IsName

LEMMA NoteIsLine == Note \in Line /\ ~IsKey(Note) /\ ~IsName(Note) /\ ~IsSet(Note)
BY DEF Note, Line, IsKey, IsName, IsSet

LEMMA NamedIsLine ==
    ASSUME NEW n \in STRING
    PROVE  Named(n) \in Line /\ IsName(Named(n)) /\ Named(n).name = n
BY DEF Named, Line, IsName

LEMMA ValueReadOnce ==
    ASSUME NEW v \in STRING
    PROVE  ReadValue(v) \in STRING /\ ReadValue(ReadValue(v)) = ReadValue(v)
BY DEF ReadValue

\* A key stays what it is when it is read and written.
LEMMA LineCycle ==
    ASSUME NEW line \in Line
    PROVE  /\ ReadLine(line) \in Line
           /\ IsKey(ReadLine(line)) <=> IsKey(line)
           /\ WriteKey(ReadLine(line)) = ReadLine(line)
           /\ IsKey(line) => /\ ReadLine(line).name = line.name
                             /\ ReadLine(line).value = ReadValue(line.value)
                             /\ ReadLine(line).off = line.off
           /\ ~IsKey(line) => ReadLine(line) = Note
<1>1. CASE IsKey(line)
  <2>1. line.name \in STRING /\ ReadValue(line.value) \in STRING /\ line.off \in BOOLEAN
    BY <1>1, LineParts, ValueReadOnce
  <2>2. ReadLine(line) = [kind |-> "key", name |-> line.name,
                          value |-> ReadValue(line.value), off |-> line.off]
    BY <1>1 DEF ReadLine, KeyLine
  <2> QED BY <1>1, <2>1, <2>2 DEF WriteKey, KeyLine, IsKey, Line
<1>2. CASE ~IsKey(line)
  BY <1>2, NoteIsLine DEF ReadLine, WriteKey
<1> QED BY <1>1, <1>2

\* CreateKvs leaves out what is in front of the first key.
LEMMA KvsOfBody ==
    ASSUME NEW body \in Seq(Line), KeyLines(body) # {}
    PROVE  /\ FirstKey(body) \in KeyLines(body)
           /\ \A j \in KeyLines(body) : FirstKey(body) <= j
           /\ FirstKey(body) \in 1 .. Len(body)
           /\ Len(CreateKvs(body)) = Len(body) - FirstKey(body) + 1
           /\ \A n \in 1 .. Len(CreateKvs(body)) :
                 CreateKvs(body)[n] = ReadLine(body[FirstKey(body) + n - 1])
<1>1. KeyLines(body) \in SUBSET Nat /\ KeyLines(body) \subseteq 1 .. Len(body)
  BY DEF KeyLines
<1>2. \E i \in KeyLines(body) : \A j \in KeyLines(body) : i <= j
  BY <1>1, Least
<1>3. /\ FirstKey(body) \in KeyLines(body)
      /\ \A j \in KeyLines(body) : FirstKey(body) <= j
  BY <1>2 DEF FirstKey
<1>4. FirstKey(body) \in 1 .. Len(body)
  BY <1>1, <1>3
<1> DEFINE n == Len(body) - FirstKey(body) + 1
           kvs == [i \in 1 .. n |-> ReadLine(body[FirstKey(body) + i - 1])]
<1>5. CreateKvs(body) = kvs
  BY DEF CreateKvs
<1>6. n \in Nat
  BY <1>4
<1> HIDE DEF n
<1>7. kvs \in [1 .. n -> {ReadLine(body[FirstKey(body) + i - 1]) : i \in 1 .. n}]
  OBVIOUS
<1>8. Len(kvs) = n
  BY <1>6, <1>7, FunctionIsSeq
<1> QED BY <1>3, <1>4, <1>5, <1>8 DEF n

LEMMA KvsAreLines ==
    ASSUME NEW body \in Seq(Line)
    PROVE  CreateKvs(body) \in Seq(Line)
<1>1. CASE KeyLines(body) = {}
  BY <1>1 DEF CreateKvs
<1>2. CASE KeyLines(body) # {}
  <2> DEFINE first == FirstKey(body)
             n == Len(body) - first + 1
  <2>1. first \in 1 .. Len(body)
    BY <1>2, KvsOfBody
  <2>2. n \in Nat /\ \A i \in 1 .. n : first + i - 1 \in 1 .. Len(body)
    BY <2>1
  <2>3. \A i \in 1 .. n : ReadLine(body[first + i - 1]) \in Line
    BY <2>2, ElementOfSeq, LineCycle
  <2>4. CreateKvs(body) \in [1 .. n -> Line]
    BY <1>2, <2>3 DEF CreateKvs
  <2> QED BY <2>2, <2>4, FunctionIsSeq
<1> QED BY <1>1, <1>2

LEMMA SectionIsTyped ==
    ASSUME NEW chunk \in Chunk, ~Panics(chunk)
    PROVE  /\ ParseSection(chunk) \in Section
           /\ chunk.braces # 1 => ParseSection(chunk).keys = << >>
           /\ chunk.braces = 1 => ParseSection(chunk).keys = CreateKvs(chunk.body)
           /\ ParseSection(chunk).name =
                 IF chunk.braces = 0 THEN NoName ELSE SectionName(chunk.head)
<1>1. chunk.head \in Seq(Line) /\ chunk.braces \in Nat /\ chunk.body \in Seq(Line)
  BY DEF Chunk
<1>2. CreateKvs(chunk.body) \in Seq(Line)
  BY <1>1, KvsAreLines
<1>3. CASE chunk.braces = 0
  <2>1. ParseSection(chunk) = [name |-> NoName, description |-> 0, keys |-> << >>]
    BY <1>3 DEF ParseSection
  <2>2. << >> \in Seq(Line)
    BY EmptySeq
  <2>3. ParseSection(chunk) \in Section
    BY <2>1, <2>2 DEF Section
  <2>4. ParseSection(chunk).keys = << >> /\ ParseSection(chunk).name = NoName
    BY <2>1
  <2> QED BY <1>3, <2>3, <2>4
<1>4. CASE chunk.braces > 0
  <2>1. chunk.head # << >>
    BY <1>4 DEF Panics
  <2>2. Len(chunk.head) \in Nat \ {0}
    BY <1>1, <2>1, EmptySeq
  <2>3. chunk.head[1] \in Line /\ LastOf(chunk.head) \in Line
    BY <1>1, <2>2, ElementOfSeq DEF LastOf
  <2>4. SectionName(chunk.head) \in STRING
    <3>1. CASE IsName(chunk.head[1])
      BY <2>3, <3>1, LineParts DEF SectionName
    <3>2. CASE ~IsName(chunk.head[1]) /\ IsName(LastOf(chunk.head))
      BY <2>3, <3>2, LineParts DEF SectionName
    <3>3. CASE ~IsName(chunk.head[1]) /\ ~IsName(LastOf(chunk.head))
      BY <3>3 DEF SectionName
    <3> QED BY <3>1, <3>2, <3>3
  <2>5. Description(chunk.head) \in Nat
    BY <2>2 DEF Description
  <2>6. CreateKeyValues(chunk) \in Seq(Line)
    BY <1>2, EmptySeq DEF CreateKeyValues
  <2>7. ParseSection(chunk) = [name |-> SectionName(chunk.head),
                               description |-> Description(chunk.head),
                               keys |-> CreateKeyValues(chunk)]
    <3>1. chunk.braces # 0
      BY <1>1, <1>4
    <3> QED BY <3>1, Zenon DEF ParseSection, FoundName
  <2>8. ParseSection(chunk) \in Section
    BY <2>4, <2>5, <2>6, <2>7 DEF Section
  <2>9. /\ chunk.braces # 1 => CreateKeyValues(chunk) = << >>
        /\ chunk.braces = 1 => CreateKeyValues(chunk) = CreateKvs(chunk.body)
    BY DEF CreateKeyValues
  <2>10. /\ ParseSection(chunk).name = SectionName(chunk.head)
         /\ ParseSection(chunk).keys = CreateKeyValues(chunk)
    BY <2>7
  <2> QED BY <1>1, <1>4, <2>8, <2>9, <2>10
<1> QED BY <1>1, <1>3, <1>4

\* What is written of a section: its description, its name, and its keys.
LEMMA WrittenSection ==
    ASSUME NEW s \in Section
    PROVE  /\ WriteSection(s) \in Chunk
           /\ WriteSection(s).braces = 1
           /\ NameOf(WriteSection(s)) = s.name
           /\ NameInPlace(WriteSection(s))
           /\ Len(WriteSection(s).body) = Len(s.keys)
           /\ \A i \in 1 .. Len(s.keys) : WriteSection(s).body[i] = WriteKey(s.keys[i])
<1> DEFINE d == s.description
           h == [i \in 1 .. d + 1 |-> IF i <= d THEN Note ELSE Named(s.name)]
           b == [i \in 1 .. Len(s.keys) |-> WriteKey(s.keys[i])]
<1>1. d \in Nat /\ s.name \in STRING /\ s.keys \in Seq(Line)
  BY DEF Section
<1>2. WriteSection(s) = [head |-> h, braces |-> 1, body |-> b]
  BY DEF WriteSection
<1>3. h \in Seq(Line) /\ Len(h) = d + 1
  <2>1. h \in [1 .. d + 1 -> Line]
    BY <1>1, NoteIsLine, NamedIsLine
  <2> QED BY <1>1, <2>1, FunctionIsSeq
<1>4. b \in Seq(Line) /\ Len(b) = Len(s.keys)
  <2>1. \A line \in Line : WriteKey(line) \in Line
    <3> TAKE line \in Line
    <3>1. CASE IsKey(line)
      BY <3>1, LineParts DEF WriteKey, KeyLine, Line
    <3>2. CASE ~IsKey(line)
      BY <3>2, NoteIsLine DEF WriteKey
    <3> QED BY <3>1, <3>2
  <2>2. b \in [1 .. Len(s.keys) -> Line] /\ Len(s.keys) \in Nat
    BY <1>1, <2>1, ElementOfSeq, LenProperties
  <2> QED BY <2>2, FunctionIsSeq
<1>5. \A i \in 1 .. d + 1 : IsName(h[i]) <=> i = d + 1
  <2> TAKE i \in 1 .. d + 1
  <2>1. CASE i <= d
    BY <1>1, <2>1, NoteIsLine
  <2>2. CASE ~(i <= d)
    <3>1. h[i] = Named(s.name) /\ i = d + 1
      BY <1>1, <2>2
    <3> QED BY <1>1, <3>1, NamedIsLine
  <2> QED BY <2>1, <2>2
<1>6. NameLines(h) = {d + 1}
  <2>1. NameLines(h) = {i \in 1 .. d + 1 : IsName(h[i])}
    BY <1>3 DEF NameLines
  <2>2. d + 1 \in 1 .. d + 1
    BY <1>1
  <2> QED BY <1>5, <2>1, <2>2, Zenon
<1>7. h[d + 1].name = s.name /\ h # << >>
  <2>1. h[d + 1] = Named(s.name)
    BY <1>1
  <2>2. Len(h) # 0
    BY <1>1, <1>3
  <2>3. h # << >>
    BY <2>2, EmptySeq
  <2> QED BY <1>1, <2>1, <2>3, NamedIsLine
<1> HIDE DEF d, h, b
<1>8. NameOf(WriteSection(s)) = s.name
  <2>1. \A i \in {d + 1} : (\A j \in {d + 1} : j <= i) => i = d + 1
    OBVIOUS
  <2>2. \E i \in {d + 1} : \A j \in {d + 1} : j <= i
    BY <1>1
  <2>3. (CHOOSE i \in {d + 1} : \A j \in {d + 1} : j <= i) = d + 1
    BY <2>1, <2>2
  <2>4. NameOf(WriteSection(s)) = h[CHOOSE i \in {d + 1} : \A j \in {d + 1} : j <= i].name
    <3>1. WriteSection(s).head = h
      BY <1>2
    <3> QED BY <1>6, <3>1, Zenon DEF NameOf
  <2> QED BY <1>7, <2>3, <2>4
<1>9. SectionName(h) = s.name
  <2>1. IsName(LastOf(h)) /\ LastOf(h).name = s.name
    BY <1>1, <1>3, <1>5, <1>7 DEF LastOf
  <2>2. IsName(h[1]) => h[1].name = s.name
    BY <1>1, <1>5, <1>7
  <2>3. CASE IsName(h[1])
    BY <2>2, <2>3 DEF SectionName
  <2>4. CASE ~IsName(h[1])
    BY <2>1, <2>4 DEF SectionName
  <2> QED BY <2>3, <2>4
<1>10. NameInPlace(WriteSection(s))
  BY <1>2, <1>7, <1>8, <1>9 DEF NameInPlace
<1>11. WriteSection(s) \in Chunk
  BY <1>2, <1>3, <1>4 DEF Chunk
<1> QED BY <1>2, <1>4, <1>8, <1>10, <1>11 DEF b

\* One cycle: what is read of a chunk and written again is kept of it.
LEMMA CycleKeeps ==
    ASSUME NEW chunk \in Chunk, ~Panics(chunk)
    PROVE  /\ WriteSection(ParseSection(chunk)) \in Chunk
           /\ KeptAs(chunk, WriteSection(ParseSection(chunk)))
<1> DEFINE s == ParseSection(chunk)
           c == WriteSection(s)
<1>1. chunk.head \in Seq(Line) /\ chunk.braces \in Nat /\ chunk.body \in Seq(Line)
  BY DEF Chunk
<1>2. /\ s \in Section
      /\ chunk.braces # 1 => s.keys = << >>
      /\ chunk.braces = 1 => s.keys = CreateKvs(chunk.body)
      /\ s.name = IF chunk.braces = 0 THEN NoName ELSE SectionName(chunk.head)
  BY SectionIsTyped
<1>3. /\ c \in Chunk /\ c.braces = 1 /\ NameOf(c) = s.name /\ NameInPlace(c)
      /\ Len(c.body) = Len(s.keys)
      /\ \A i \in 1 .. Len(s.keys) : c.body[i] = WriteKey(s.keys[i])
  BY <1>2, WrittenSection
<1>4. Panics(chunk) \/ chunk.braces = 0 \/ chunk.head # << >>
  BY <1>1 DEF Panics
<1>5. NameInPlace(chunk) => NameOf(chunk) = s.name
  BY <1>2, <1>4 DEF NameInPlace
<1> HIDE DEF s, c
<1>6. chunk.braces # 1 \/ KeyLines(chunk.body) = {} => Len(c.body) = 0
  BY <1>2, <1>3, EmptySeq DEF CreateKvs
<1>7. CASE chunk.braces # 1 \/ KeyLines(chunk.body) = {}
  <2>1. ~\E j \in 1 .. Len(c.body) : TRUE
    BY <1>6, <1>7
  <2>2. chunk.braces = 1 => \A j \in 1 .. Len(chunk.body) : ~ReadInFull(chunk.body[j])
    BY <1>7 DEF KeyLines, ReadInFull
  <2> QED BY <1>3, <1>5, <2>1, <2>2 DEF KeptAs, s, c
<1>8. CASE chunk.braces = 1 /\ KeyLines(chunk.body) # {}
  <2> DEFINE first == FirstKey(chunk.body)
  <2>1. /\ first \in 1 .. Len(chunk.body)
        /\ \A j \in KeyLines(chunk.body) : first <= j
        /\ Len(c.body) = Len(chunk.body) - first + 1
        /\ \A n \in 1 .. Len(c.body) :
              c.body[n] = WriteKey(ReadLine(chunk.body[first + n - 1]))
    BY <1>1, <1>2, <1>3, <1>8, KvsOfBody
  <2> HIDE DEF first
  <2>2. Len(chunk.body) \in Nat
    BY <1>1, LenProperties
  <2>3. \A n \in 1 .. Len(c.body) : first + n - 1 \in 1 .. Len(chunk.body)
    BY <2>1, <2>2
  <2>4. \A n \in 1 .. Len(c.body) :
           /\ chunk.body[first + n - 1] \in Line
           /\ c.body[n] = ReadLine(chunk.body[first + n - 1])
    BY <1>1, <2>1, <2>3, ElementOfSeq, LineCycle
  <2>5. ASSUME NEW j \in 1 .. Len(chunk.body), ReadInFull(chunk.body[j])
        PROVE  \E k \in 1 .. Len(c.body) :
                   /\ ReadInFull(c.body[k])
                   /\ c.body[k].name = chunk.body[j].name
                   /\ c.body[k].value = chunk.body[j].value
    <3>1. j \in KeyLines(chunk.body) /\ IsKey(chunk.body[j])
      BY <2>5 DEF KeyLines, ReadInFull
    <3> DEFINE k == j - first + 1
    <3>2. k \in 1 .. Len(c.body) /\ first + k - 1 = j
      BY <2>1, <2>2, <3>1
    <3> HIDE DEF k
    <3>3. c.body[k] = ReadLine(chunk.body[j]) /\ chunk.body[j] \in Line
      BY <2>4, <3>2
    <3>4. /\ IsKey(c.body[k])
          /\ c.body[k].name = chunk.body[j].name
          /\ c.body[k].value = ReadValue(chunk.body[j].value)
          /\ c.body[k].off = chunk.body[j].off
      BY <3>1, <3>3, LineCycle
    <3>5. ReadValue(chunk.body[j].value) = chunk.body[j].value
      BY <2>5 DEF ReadInFull, ReadValue
    <3>6. ReadInFull(c.body[k])
      BY <2>5, <3>4, <3>5 DEF ReadInFull
    <3> QED BY <3>2, <3>4, <3>5, <3>6
  <2>6. ASSUME NEW j \in 1 .. Len(c.body), IsSet(c.body[j])
        PROVE  \E k \in 1 .. Len(chunk.body) :
                   /\ IsSet(chunk.body[k]) /\ chunk.body[k].name = c.body[j].name
                   /\ c.body[j].value \in {chunk.body[k].value, ReadValue(chunk.body[k].value)}
    <3> DEFINE k == first + j - 1
    <3>1. k \in 1 .. Len(chunk.body) /\ chunk.body[k] \in Line
          /\ c.body[j] = ReadLine(chunk.body[k])
      BY <2>3, <2>4
    <3> HIDE DEF k
    <3>2. IsKey(chunk.body[k])
      BY <2>6, <3>1, LineCycle, NoteIsLine
    <3>3. /\ c.body[j].name = chunk.body[k].name
          /\ c.body[j].value = ReadValue(chunk.body[k].value)
          /\ c.body[j].off = chunk.body[k].off
          /\ IsKey(c.body[j])
      BY <3>1, <3>2, LineCycle
    <3>4. IsSet(chunk.body[k])
      BY <2>6, <3>2, <3>3 DEF IsSet, IsKey
    <3> QED BY <3>1, <3>3, <3>4
  <2> QED BY <1>3, <1>5, <2>5, <2>6 DEF KeptAs, s, c
<1> QED BY <1>3, <1>7, <1>8 DEF s, c

LEMMA KeptOfItself ==
    ASSUME NEW o \in Chunk
    PROVE  KeptAs(o, o)
BY DEF KeptAs

LEMMA KeptGoesOn ==
    ASSUME NEW o \in Chunk, NEW f \in Chunk, NEW g \in Chunk, KeptAs(o, f), KeptAs(f, g)
    PROVE  KeptAs(o, g)
<1>1. NameInPlace(o) => NameInPlace(g) /\ NameOf(g) = NameOf(o)
  BY DEF KeptAs
<1>2. ASSUME o.braces = 1
      PROVE  /\ g.braces = 1
             /\ \A j \in 1 .. Len(o.body) : ReadInFull(o.body[j]) =>
                   \E k \in 1 .. Len(g.body) :
                       /\ ReadInFull(g.body[k])
                       /\ g.body[k].name = o.body[j].name
                       /\ g.body[k].value = o.body[j].value
  <2>1. f.braces = 1 /\ g.braces = 1
    BY <1>2 DEF KeptAs
  <2>2. ASSUME NEW j \in 1 .. Len(o.body), ReadInFull(o.body[j])
        PROVE  \E k \in 1 .. Len(g.body) :
                   /\ ReadInFull(g.body[k])
                   /\ g.body[k].name = o.body[j].name
                   /\ g.body[k].value = o.body[j].value
    <3>1. PICK i \in 1 .. Len(f.body) :
              /\ ReadInFull(f.body[i])
              /\ f.body[i].name = o.body[j].name
              /\ f.body[i].value = o.body[j].value
      BY <1>2, <2>2 DEF KeptAs
    <3>2. PICK k \in 1 .. Len(g.body) :
              /\ ReadInFull(g.body[k])
              /\ g.body[k].name = f.body[i].name
              /\ g.body[k].value = f.body[i].value
      BY <2>1, <3>1 DEF KeptAs
    <3> QED BY <3>1, <3>2
  <2> QED BY <2>1, <2>2
<1>3. ASSUME NEW j \in 1 .. Len(g.body), IsSet(g.body[j])
      PROVE  \E k \in 1 .. Len(o.body) :
                 /\ IsSet(o.body[k]) /\ o.body[k].name = g.body[j].name
                 /\ g.body[j].value \in {o.body[k].value, ReadValue(o.body[k].value)}
  <2>1. PICK i \in 1 .. Len(f.body) :
            /\ IsSet(f.body[i]) /\ f.body[i].name = g.body[j].name
            /\ g.body[j].value \in {f.body[i].value, ReadValue(f.body[i].value)}
    BY <1>3 DEF KeptAs
  <2>2. PICK k \in 1 .. Len(o.body) :
            /\ IsSet(o.body[k]) /\ o.body[k].name = f.body[i].name
            /\ f.body[i].value \in {o.body[k].value, ReadValue(o.body[k].value)}
    BY <2>1 DEF KeptAs
  <2>3. ReadValue(ReadValue(o.body[k].value)) = ReadValue(o.body[k].value)
    BY DEF ReadValue
  <2> QED BY <2>1, <2>2, <2>3
<1> QED BY <1>1, <1>2, <1>3 DEF KeptAs

LEMMA EmptyGoesOn ==
    ASSUME NEW f \in Chunk, NEW g \in Chunk, IsEmpty(f), KeptAs(f, g)
    PROVE  IsEmpty(g)
BY DEF IsEmpty, KeptAs

LEMMA LineEndIsEmpty == LineEnd \in Chunk /\ IsEmpty(LineEnd)
<1>1. << >> \in Seq(Line) /\ Len(<< >>) = 0
  BY EmptySeq
<1>2. LineEnd \in Chunk
  BY <1>1 DEF LineEnd, Chunk
<1>3. NameOf(LineEnd) = NoName
  BY <1>1 DEF NameOf, NameLines, LineEnd
<1> QED BY <1>1, <1>2, <1>3 DEF IsEmpty, NameInPlace, LineEnd

LEMMA ConfigInitInv == ConfigInit => ConfigInv
<1> SUFFICES ASSUME ConfigInit PROVE ConfigInv
  OBVIOUS
<1>1. file = origin /\ file \in Seq(Chunk) /\ cycles = 0 /\ phase = "idle" /\ sections = << >>
  BY DEF ConfigInit
<1>2. ConfigTypeOK
  BY <1>1, EmptySeq DEF ConfigTypeOK, ConfigInit
<1>3. Len(file) \in Nat /\ \A i \in 1 .. Len(file) : file[i] \in Chunk
  BY <1>1, ElementOfSeq, LenProperties
<1>4. FileKept
  BY <1>1, <1>3, KeptOfItself DEF FileKept
<1> QED BY <1>1, <1>2, <1>4 DEF ConfigInv, SectionsRead

LEMMA ParsedSections ==
    ASSUME NEW f \in Seq(Chunk), ~ParseFails(f)
    PROVE  /\ ParseAll(f) \in Seq(Section)
           /\ Len(ParseAll(f)) = Len(f)
           /\ \A i \in 1 .. Len(f) :
                 /\ f[i] \in Chunk /\ ~Panics(f[i])
                 /\ ParseAll(f)[i] = ParseSection(f[i])
<1>1. Len(f) \in Nat /\ \A i \in 1 .. Len(f) : f[i] \in Chunk
  BY ElementOfSeq, LenProperties
<1>2. \A i \in 1 .. Len(f) : ~Panics(f[i])
  BY DEF ParseFails
<1>3. ParseAll(f) \in [1 .. Len(f) -> Section]
  BY <1>1, <1>2, SectionIsTyped DEF ParseAll
<1>4. \A i \in 1 .. Len(f) : ParseAll(f)[i] = ParseSection(f[i])
  BY DEF ParseAll
<1> QED BY <1>1, <1>2, <1>3, <1>4, FunctionIsSeq

LEMMA ParseFileKeeps == ConfigInv /\ ParseFile => ConfigInv'
<1> SUFFICES ASSUME ConfigInv, ParseFile PROVE ConfigInv'
  OBVIOUS
<1>1. ConfigTypeOK /\ FileKept /\ phase = "idle" /\ UNCHANGED <<origin, file, cycles, asked>>
  BY DEF ConfigInv, ParseFile
<1>2. FileKept'
  BY <1>1 DEF FileKept
<1>3. CASE ParseFails(file)
  BY <1>1, <1>2, <1>3 DEF ParseFile, ConfigInv, ConfigTypeOK, SectionsRead
<1>4. CASE ~ParseFails(file)
  <2>1. phase' = "parsed" /\ sections' = ParseAll(file)
    BY <1>4 DEF ParseFile
  <2>2. sections' \in Seq(Section)
    BY <1>1, <1>4, <2>1, ParsedSections DEF ConfigTypeOK
  <2>3. ConfigTypeOK'
    BY <1>1, <2>1, <2>2 DEF ConfigTypeOK
  <2>4. (cycles < MaxCycles /\ ~ParseFails(file) /\ sections = ParseAll(file))'
    BY <1>1, <1>4, <2>1 DEF ParseFile, ParseFails, ParseAll
  <2> QED BY <1>2, <2>3, <2>4 DEF ConfigInv, SectionsRead
<1> QED BY <1>3, <1>4

LEMMA CheckForConfigFileKeeps == ConfigInv /\ CheckForConfigFile => ConfigInv'
<1> SUFFICES ASSUME ConfigInv, CheckForConfigFile PROVE ConfigInv'
  OBVIOUS
<1>1. ConfigTypeOK /\ FileKept /\ UNCHANGED <<origin, file, cycles, sections, asked>>
  BY DEF ConfigInv, CheckForConfigFile
<1>2. phase' \in {"panicked", "fatal", "idle"}
  BY DEF CheckForConfigFile
<1> QED BY <1>1, <1>2 DEF ConfigInv, ConfigTypeOK, FileKept, SectionsRead

\* What WriteOut makes of the file.
LEMMA WrittenFile ==
    ASSUME ConfigInv, WriteOut
    PROVE  /\ file' \in Seq(Chunk)
           /\ Len(file') = Len(file) + 1 /\ Len(file) \in Nat
           /\ file'[Len(file) + 1] = LineEnd
           /\ \A i \in 1 .. Len(file) :
                 /\ file[i] \in Chunk /\ ~Panics(file[i])
                 /\ file'[i] = WriteSection(ParseSection(file[i]))
                 /\ KeptAs(file[i], file'[i])
<1>1. /\ file \in Seq(Chunk) /\ ~ParseFails(file) /\ sections = ParseAll(file)
      /\ file' = Append([i \in 1 .. Len(sections) |-> WriteSection(sections[i])], LineEnd)
  BY DEF ConfigInv, ConfigTypeOK, SectionsRead, WriteOut
<1> DEFINE written == [i \in 1 .. Len(sections) |-> WriteSection(sections[i])]
<1>2. Len(file) \in Nat
  BY <1>1, LenProperties
<1>3. /\ Len(sections) = Len(file)
      /\ \A i \in 1 .. Len(file) :
            /\ file[i] \in Chunk /\ ~Panics(file[i])
            /\ sections[i] = ParseSection(file[i])
            /\ WriteSection(sections[i]) \in Chunk
            /\ KeptAs(file[i], WriteSection(sections[i]))
  BY <1>1, ParsedSections, CycleKeeps
<1>4. /\ written \in [1 .. Len(file) -> Chunk]
      /\ \A i \in 1 .. Len(file) : written[i] = WriteSection(ParseSection(file[i]))
  BY <1>3
<1> HIDE DEF written
<1>5. written \in Seq(Chunk) /\ Len(written) = Len(file)
  BY <1>2, <1>4, FunctionIsSeq
<1>6. /\ file' \in Seq(Chunk)
      /\ Len(file') = Len(file) + 1
      /\ file'[Len(file) + 1] = LineEnd
      /\ \A i \in 1 .. Len(file) : file'[i] = written[i]
  BY <1>1, <1>2, <1>5, LineEndIsEmpty, AppendProperties DEF written
<1> QED BY <1>2, <1>3, <1>4, <1>6

LEMMA WriteOutKeeps == ConfigInv /\ WriteOut => ConfigInv'
<1> SUFFICES ASSUME ConfigInv, WriteOut PROVE ConfigInv'
  OBVIOUS
<1>1. /\ ConfigTypeOK /\ FileKept /\ MaxCycles \in Nat
      /\ phase = "parsed" /\ cycles < MaxCycles
  BY DEF ConfigInv, SectionsRead, WriteOut
<1>2. /\ phase' = "idle" /\ sections' = << >> /\ cycles' = cycles + 1 /\ origin' = origin
      /\ cycles \in Nat /\ asked' = asked
  BY <1>1 DEF WriteOut, ConfigTypeOK
<1>3. Len(file) \in Nat /\ Len(origin) \in Nat
  BY <1>1, LenProperties DEF ConfigTypeOK
<1>4. /\ file' \in Seq(Chunk)
      /\ Len(file') = Len(file) + 1
      /\ file'[Len(file) + 1] = LineEnd
      /\ \A i \in 1 .. Len(file) : file[i] \in Chunk /\ KeptAs(file[i], file'[i])
  BY WrittenFile
<1>5. ConfigTypeOK'
  BY <1>1, <1>2, <1>4, EmptySeq DEF ConfigTypeOK
<1>6. Len(file') \in Len(origin) .. Len(origin) + cycles'
  BY <1>1, <1>2, <1>3, <1>4 DEF FileKept
<1>7. ASSUME NEW i \in 1 .. Len(file')
      PROVE  IF i <= Len(origin) THEN KeptAs(origin[i], file'[i]) ELSE IsEmpty(file'[i])
  <2>1. CASE i <= Len(origin)
    <3>1. i \in 1 .. Len(file)
      BY <1>1, <1>3, <1>7, <2>1 DEF FileKept
    <3>2. KeptAs(origin[i], file[i]) /\ origin[i] \in Chunk
      BY <1>1, <1>3, <2>1, <3>1, ElementOfSeq DEF ConfigTypeOK, FileKept
    <3>3. file'[i] \in Chunk /\ file[i] \in Chunk /\ KeptAs(file[i], file'[i])
      BY <1>4, <3>1, ElementOfSeq
    <3>4. KeptAs(origin[i], file'[i])
      BY <3>2, <3>3, KeptGoesOn
    <3> QED BY <2>1, <3>4
  <2>2. CASE ~(i <= Len(origin)) /\ i \in 1 .. Len(file)
    <3>1. IsEmpty(file[i])
      BY <1>1, <2>2 DEF FileKept
    <3>2. file'[i] \in Chunk /\ file[i] \in Chunk /\ KeptAs(file[i], file'[i])
      BY <1>4, <2>2, ElementOfSeq
    <3> QED BY <2>2, <3>1, <3>2, EmptyGoesOn
  <2>3. CASE ~(i <= Len(origin)) /\ i \notin 1 .. Len(file)
    <3>1. i = Len(file) + 1
      BY <1>3, <1>4, <1>7, <2>3
    <3> QED BY <1>4, <2>3, <3>1, LineEndIsEmpty
  <2> QED BY <2>1, <2>2, <2>3
<1>8. FileKept'
  BY <1>2, <1>6, <1>7 DEF FileKept
<1> QED BY <1>2, <1>5, <1>8 DEF ConfigInv, SectionsRead

LEMMA ConfigStepInv == ConfigInv /\ [ConfigNext]_configVars => ConfigInv'
<1> SUFFICES ASSUME ConfigInv, [ConfigNext]_configVars PROVE ConfigInv'
  OBVIOUS
<1>1. CASE ParseFile
  BY <1>1, ParseFileKeeps
<1>2. CASE CheckForConfigFile
  BY <1>2, CheckForConfigFileKeeps
<1>3. CASE WriteOut
  BY <1>3, WriteOutKeeps
<1>4. CASE UNCHANGED <<origin, file, cycles, phase, sections>> /\ (asked \subseteq Updates)'
  BY <1>4 DEF ConfigInv, ConfigTypeOK, FileKept, SectionsRead, ParseFails, ParseAll
<1>5. CASE UNCHANGED configVars
  BY <1>4, <1>5 DEF ConfigInv, ConfigTypeOK, configVars
<1>6. ASSUME NEW update \in Updates, UpdateValueAt(update) PROVE ConfigInv'
  BY <1>4, <1>6 DEF UpdateValueAt, ConfigInv, ConfigTypeOK
<1> QED BY <1>1, <1>2, <1>3, <1>5, <1>6 DEF ConfigNext

LEMMA ConfigInvariant == ConfigSpec => []ConfigInv
BY ConfigInitInv, ConfigStepInv, PTL DEF ConfigSpec

\* A file in memory is made of Sections and one on the disk of chunks, whatever
\* was read and written (parse.go).
THEOREM ConfigTyped == ConfigSpec => []ConfigTypeOK
<1>1. ConfigInv => ConfigTypeOK
  BY DEF ConfigInv
<1> QED BY <1>1, ConfigInvariant, PTL

\* No cycle of reading and writing loses a setting that has its semicolon, in a
\* section with one brace and its name in place: CreateKvs leaves out no key and
\* merges none with the next, and WriteSection writes them as they were read.
THEOREM SettingsAreKept == ConfigSpec => []SettingsSurvive
<1>1. ConfigInv => SettingsSurvive
  <2> SUFFICES ASSUME ConfigInv,
                      NEW i \in 1 .. Len(origin),
                      origin[i].braces = 1, NameInPlace(origin[i]),
                      NEW j \in 1 .. Len(origin[i].body),
                      ReadInFull(origin[i].body[j])
               PROVE  /\ i <= Len(file)
                      /\ NameOf(file[i]) = NameOf(origin[i])
                      /\ Sets(file[i].body, origin[i].body[j].name, origin[i].body[j].value)
    BY DEF SettingsSurvive
  <2>1. Len(origin) \in Nat /\ Len(file) \in Nat /\ cycles \in Nat
    BY LenProperties DEF ConfigInv, ConfigTypeOK
  <2>2. i \in 1 .. Len(file)
    BY <2>1 DEF ConfigInv, FileKept
  <2>3. KeptAs(origin[i], file[i])
    BY <2>1, <2>2 DEF ConfigInv, FileKept
  <2>4. PICK k \in 1 .. Len(file[i].body) :
            /\ ReadInFull(file[i].body[k])
            /\ file[i].body[k].name = origin[i].body[j].name
            /\ file[i].body[k].value = origin[i].body[j].value
    BY <2>3 DEF KeptAs
  <2>5. IsSet(file[i].body[k])
    BY <2>4 DEF ReadInFull, IsSet
  <2>6. Sets(file[i].body, origin[i].body[j].name, origin[i].body[j].value)
    BY <2>4, <2>5 DEF Sets
  <2> QED BY <2>1, <2>2, <2>3, <2>6 DEF KeptAs
<1> QED BY <1>1, ConfigInvariant, PTL

\* No cycle makes a setting that was not in its section at first, unless an
\* update asked for it: a comment stays one, nothing comes from another section,
\* and what a semicolon cuts is all that changes in a value.
THEOREM NothingIsInvented == ConfigSpec => []NothingInvented
<1>1. ConfigInv => NothingInvented
  <2> SUFFICES ASSUME ConfigInv,
                      NEW i \in 1 .. Len(file),
                      NEW j \in 1 .. Len(file[i].body),
                      IsSet(file[i].body[j])
               PROVE  i <= Len(origin) /\ WasSet(origin[i], file[i].body[j])
    BY DEF NothingInvented
  <2>1. i <= Len(origin)
    BY DEF ConfigInv, FileKept, IsEmpty
  <2>2. KeptAs(origin[i], file[i])
    BY <2>1 DEF ConfigInv, FileKept
  <2> QED BY <2>1, <2>2 DEF KeptAs, WasSet
<1> QED BY <1>1, ConfigInvariant, PTL

\* Names in place stay where they are, and a cycle adds at most one section,
\* which has no name.
THEOREM SectionsAreKept == ConfigSpec => []SectionsKept
<1>1. ConfigInv => SectionsKept
  BY DEF ConfigInv, FileKept, KeptAs, IsEmpty, SectionsKept
<1> QED BY <1>1, ConfigInvariant, PTL

----------------------------------------------------------------------------
(* What was written once *)

\* A chunk as WriteSection writes it: a description, the name, and keys, each
\* with the lines that follow it.
Settled(chunk) ==
    /\ chunk.braces = 1
    /\ \E s \in Section :
          /\ s.description > 0
          /\ s.keys # << >> => IsKey(s.keys[1])
          /\ \A i \in 1 .. Len(s.keys) : ReadLine(s.keys[i]) = s.keys[i]
          /\ chunk = WriteSection(s)

FileSettled ==
    cycles > 0 =>
        \A i \in 1 .. Len(file) - 1 : Len(file[i].head) > 1 => Settled(file[i])

\* Once a section with a description was written, it is read and written line
\* for line as it is: its keys, the lines between them and its name stay where
\* they are (Section.WriteTo, KeyValue.WriteTo).
SettledStay ==
    [][cycles > 0 =>
          \A i \in 1 .. Len(file) - 1 :
              Len(file[i].head) > 1 => i <= Len(file') /\ file'[i] = file[i]]_file

LEMMA WrittenLines ==
    ASSUME NEW s \in Section
    PROVE  /\ Len(WriteSection(s).head) = s.description + 1
           /\ WriteSection(s).head[s.description + 1] = Named(s.name)
           /\ s.description > 0 => WriteSection(s).head[1] = Note
           /\ WriteSection(s).body \in Seq(Line)
           /\ Len(WriteSection(s).body) = Len(s.keys)
           /\ \A i \in 1 .. Len(s.keys) : WriteSection(s).body[i] = WriteKey(s.keys[i])
<1> DEFINE d == s.description
           h == [i \in 1 .. d + 1 |-> IF i <= d THEN Note ELSE Named(s.name)]
<1>1. d \in Nat /\ s.name \in STRING
  BY DEF Section
<1>2. WriteSection(s).head = h
  BY DEF WriteSection
<1>3. h \in [1 .. d + 1 -> Line]
  BY <1>1, NoteIsLine, NamedIsLine
<1>4. h[d + 1] = Named(s.name) /\ (d > 0 => h[1] = Note)
  BY <1>1
<1> HIDE DEF h
<1>5. Len(h) = d + 1
  BY <1>1, <1>3, FunctionIsSeq
<1>6. WriteSection(s).body \in Seq(Line)
  BY WrittenSection DEF Chunk
<1> QED BY <1>2, <1>4, <1>5, <1>6, WrittenSection

\* What CreateKvs makes of a body is not changed by reading it again.
LEMMA KvsAgain ==
    ASSUME NEW body \in Seq(Line)
    PROVE  /\ CreateKvs(body) # << >> => IsKey(CreateKvs(body)[1])
           /\ \A i \in 1 .. Len(CreateKvs(body)) :
                 ReadLine(CreateKvs(body)[i]) = CreateKvs(body)[i]
<1>1. CASE KeyLines(body) = {}
  BY <1>1, EmptySeq DEF CreateKvs
<1>2. CASE KeyLines(body) # {}
  <2> DEFINE first == FirstKey(body)
  <2>1. /\ first \in KeyLines(body) /\ first \in 1 .. Len(body)
        /\ Len(CreateKvs(body)) = Len(body) - first + 1
        /\ \A n \in 1 .. Len(CreateKvs(body)) :
              CreateKvs(body)[n] = ReadLine(body[first + n - 1])
    BY <1>2, KvsOfBody
  <2> HIDE DEF first
  <2>2. Len(body) \in Nat
    BY LenProperties
  <2>3. ASSUME NEW line \in Line PROVE ReadLine(ReadLine(line)) = ReadLine(line)
    <3>1. CASE IsKey(line)
      <4> DEFINE again == ReadLine(line)
      <4>1. /\ again \in Line /\ IsKey(again)
            /\ again.name = line.name
            /\ again.value = ReadValue(line.value)
            /\ again.off = line.off
        BY <3>1, LineCycle
      <4>2. ReadValue(again.value) = again.value
        BY <3>1, <4>1, LineParts, ValueReadOnce
      <4>3. again = KeyLine([name |-> line.name, value |-> again.value, off |-> line.off])
        BY <3>1, <4>1 DEF ReadLine
      <4>4. ReadLine(again) =
               KeyLine([name |-> again.name, value |-> ReadValue(again.value), off |-> again.off])
        BY <4>1, Zenon DEF ReadLine
      <4> HIDE DEF again
      <4>5. ReadLine(again) = again
        BY <4>1, <4>2, <4>3, <4>4
      <4> QED BY <4>5 DEF again
    <3>2. CASE ~IsKey(line)
      BY <3>2, LineCycle, NoteIsLine DEF ReadLine
    <3> QED BY <3>1, <3>2
  <2>4. ASSUME NEW n \in 1 .. Len(CreateKvs(body))
        PROVE  ReadLine(CreateKvs(body)[n]) = CreateKvs(body)[n]
    <3>1. first + n - 1 \in 1 .. Len(body)
      BY <2>1, <2>2
    <3>2. body[first + n - 1] \in Line
      BY <3>1, ElementOfSeq
    <3> QED BY <2>1, <2>3, <3>2
  <2>5. IsKey(CreateKvs(body)[1])
    <3>1. 1 \in 1 .. Len(CreateKvs(body)) /\ first + 1 - 1 = first
      BY <2>1, <2>2
    <3>2. CreateKvs(body)[1] = ReadLine(body[first])
      BY <2>1, <3>1
    <3>3. IsKey(body[first]) /\ body[first] \in Line
      BY <2>1, ElementOfSeq DEF KeyLines
    <3> QED BY <3>2, <3>3, LineCycle
  <2> QED BY <2>4, <2>5
<1> QED BY <1>1, <1>2

\* What Parse reads of a section that was written, is that section.
LEMMA ReadAsWritten ==
    ASSUME NEW s \in Section, s.description > 0,
           s.keys # << >> => IsKey(s.keys[1]),
           \A i \in 1 .. Len(s.keys) : ReadLine(s.keys[i]) = s.keys[i]
    PROVE  ParseSection(WriteSection(s)) = s
<1> DEFINE c == WriteSection(s)
<1>1. s.description \in Nat /\ s.name \in STRING /\ s.keys \in Seq(Line)
  BY DEF Section
<1>2. /\ c \in Chunk /\ c.braces = 1
      /\ Len(c.head) = s.description + 1
      /\ c.head[s.description + 1] = Named(s.name) /\ c.head[1] = Note
      /\ c.body \in Seq(Line) /\ Len(c.body) = Len(s.keys)
      /\ \A i \in 1 .. Len(s.keys) : c.body[i] = WriteKey(s.keys[i])
  BY WrittenSection, WrittenLines
<1> HIDE DEF c
<1>3. c.body = s.keys
  <2>1. ASSUME NEW i \in 1 .. Len(s.keys) PROVE c.body[i] = s.keys[i]
    <3>1. s.keys[i] \in Line
      BY <1>1, ElementOfSeq
    <3>2. WriteKey(ReadLine(s.keys[i])) = ReadLine(s.keys[i])
      BY <3>1, LineCycle
    <3> QED BY <1>2, <3>2
  <2> QED BY <1>1, <1>2, <2>1, SeqEqual
<1>4. CreateKvs(s.keys) = s.keys
  <2>1. CASE s.keys = << >>
    <3>1. KeyLines(s.keys) = {}
      BY <2>1, EmptySeq DEF KeyLines
    <3> QED BY <2>1, <3>1 DEF CreateKvs
  <2>2. CASE s.keys # << >>
    <3>1. Len(s.keys) \in Nat \ {0}
      BY <1>1, <2>2, EmptySeq
    <3>2. 1 \in KeyLines(s.keys)
      BY <2>2, <3>1 DEF KeyLines
    <3>3. FirstKey(s.keys) = 1
      BY <1>1, <3>1, <3>2, KvsOfBody
    <3>4. Len(CreateKvs(s.keys)) = Len(s.keys)
      BY <1>1, <3>1, <3>2, <3>3, KvsOfBody
    <3>5. ASSUME NEW i \in 1 .. Len(s.keys) PROVE CreateKvs(s.keys)[i] = s.keys[i]
      <4>1. CreateKvs(s.keys)[i] = ReadLine(s.keys[1 + i - 1])
        BY <1>1, <3>2, <3>3, <3>4, KvsOfBody
      <4>2. 1 + i - 1 = i
        BY <3>1
      <4> QED BY <4>1, <4>2
    <3>6. CreateKvs(s.keys) \in Seq(Line)
      BY <1>1, KvsAreLines
    <3> QED BY <1>1, <3>4, <3>5, <3>6, SeqEqual
  <2> QED BY <2>1, <2>2
<1>5. /\ ~IsName(c.head[1])
      /\ LastOf(c.head) = Named(s.name)
  BY <1>1, <1>2, NoteIsLine DEF LastOf
<1>6. IsName(LastOf(c.head)) /\ LastOf(c.head).name = s.name
  BY <1>1, <1>5, NamedIsLine
<1>7. FoundName(c.head) = s.name
  BY <1>5, <1>6 DEF FoundName, SectionName
<1>8. Description(c.head) = s.description
  BY <1>1, <1>2, <1>5, <1>6 DEF Description
<1>9. ParseSection(c) = [name |-> s.name, description |-> s.description, keys |-> s.keys]
  <2>1. CreateKeyValues(c) = s.keys
    BY <1>2, <1>3, <1>4 DEF CreateKeyValues
  <2>2. c.braces # 0
    BY <1>2
  <2> QED BY <1>7, <1>8, <2>1, <2>2, Zenon DEF ParseSection
<1> QED BY <1>9 DEF Section, c

LEMMA Settles ==
    ASSUME NEW chunk \in Chunk, ~Panics(chunk),
           Len(WriteSection(ParseSection(chunk)).head) > 1
    PROVE  Settled(WriteSection(ParseSection(chunk)))
<1> DEFINE s == ParseSection(chunk)
<1>1. /\ s \in Section
      /\ chunk.braces # 1 => s.keys = << >>
      /\ chunk.braces = 1 => s.keys = CreateKvs(chunk.body)
  BY SectionIsTyped
<1>2. chunk.body \in Seq(Line)
  BY DEF Chunk
<1> HIDE DEF s
<1>3. s.description > 0
  BY <1>1, WrittenLines DEF s, Section
<1>4. s.keys # << >> => IsKey(s.keys[1])
  BY <1>1, <1>2, KvsAgain
<1>5. \A i \in 1 .. Len(s.keys) : ReadLine(s.keys[i]) = s.keys[i]
  BY <1>1, <1>2, KvsAgain, EmptySeq
<1>6. WriteSection(s).braces = 1
  BY <1>1, WrittenSection
<1> QED BY <1>1, <1>3, <1>4, <1>5, <1>6 DEF Settled, s

LEMMA FileSettles == ConfigInv /\ FileSettled /\ [ConfigNext]_configVars => FileSettled'
<1> SUFFICES ASSUME ConfigInv, FileSettled, [ConfigNext]_configVars PROVE FileSettled'
  OBVIOUS
<1>1. CASE WriteOut
  <2> SUFFICES ASSUME NEW i \in 1 .. Len(file') - 1, Len(file'[i].head) > 1
               PROVE  Settled(file'[i])
    BY DEF FileSettled, Settled
  <2>1. i \in 1 .. Len(file)
    BY <1>1, WrittenFile
  <2>2. /\ file[i] \in Chunk /\ ~Panics(file[i])
        /\ file'[i] = WriteSection(ParseSection(file[i]))
    BY <1>1, <2>1, WrittenFile
  <2> QED BY <2>2, Settles
<1>2. CASE UNCHANGED <<file, cycles>>
  BY <1>2 DEF FileSettled, Settled
<1> QED
  BY <1>1, <1>2 DEF ConfigNext, ParseFile, UpdateValueAt, CheckForConfigFile, configVars

\* A section with a description is written the second time, and every other
\* time, as it was written the first: the file does not wear out.
THEOREM WrittenSectionsStay == ConfigSpec => SettledStay
<1>1. ConfigInit => FileSettled
  BY DEF ConfigInit, FileSettled
<1>2. ConfigSpec => []FileSettled
  BY <1>1, FileSettles, ConfigInvariant, PTL DEF ConfigSpec
<1>3. ConfigInv /\ FileSettled /\ [ConfigNext]_configVars =>
         [cycles > 0 =>
             \A i \in 1 .. Len(file) - 1 :
                 Len(file[i].head) > 1 => i <= Len(file') /\ file'[i] = file[i]]_file
  <2> SUFFICES ASSUME ConfigInv, FileSettled, [ConfigNext]_configVars, file' # file,
                      cycles > 0, NEW i \in 1 .. Len(file) - 1, Len(file[i].head) > 1
               PROVE  i <= Len(file') /\ file'[i] = file[i]
    OBVIOUS
  <2>1. WriteOut
    BY DEF ConfigNext, ParseFile, UpdateValueAt, CheckForConfigFile, configVars
  <2>2. /\ Len(file') = Len(file) + 1 /\ i \in 1 .. Len(file)
        /\ file'[i] = WriteSection(ParseSection(file[i]))
    BY <2>1, WrittenFile
  <2>3. PICK s \in Section :
            /\ s.description > 0
            /\ s.keys # << >> => IsKey(s.keys[1])
            /\ \A j \in 1 .. Len(s.keys) : ReadLine(s.keys[j]) = s.keys[j]
            /\ file[i] = WriteSection(s)
    BY DEF FileSettled, Settled
  <2>4. ParseSection(file[i]) = s
    BY <2>3, ReadAsWritten
  <2> QED BY <2>2, <2>3, <2>4
<1> QED BY <1>2, <1>3, ConfigInvariant, PTL DEF ConfigSpec, SettledStay
=============================================================================
