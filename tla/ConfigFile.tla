----------------------------- MODULE ConfigFile -----------------------------
(***************************************************************************)
(* sps/parse: the configuration file of shairport-sync taken apart into    *)
(* sections and keys, updated and written out again.                       *)
(*                                                                         *)
(* A file is the sequence of its chunks, the pieces between "};": the      *)
(* lines in front of the first brace, how many braces there are (one in a  *)
(* comment counts), and the lines behind.  Of a comment only its being     *)
(* there is kept.  The last chunk may be the line end after the last "};". *)
(*                                                                         *)
(* A section in memory keeps its keys as lines, each key followed by the   *)
(* lines of its description.                                               *)
(***************************************************************************)
EXTENDS Integers, Sequences

CONSTANTS
    Files,      \* the files there may be at first
    Kind,       \* Kind[v]: what determineType finds in a value
    NoName,     \* the empty name of a Section nothing was found for
    Cut,        \* what is left of a value that contains a semicolon
    Split,      \* values that contain one
    Updates,    \* the updates callers ask for: section, key, value
    Wanted,     \* those of checkForConfigFile
    MaxCycles   \* bound on the times the file is written

\* A line with "=" and ";" is a key, commented out or not; "prose" has them in
\* the other order, a "bare" setting has no semicolon, and a "blank" is white
\* space in front of a brace.
Line ==
    [kind : {"note", "blank", "prose"}]
    \cup [kind : {"name"}, name : STRING]
    \cup [kind : {"bare"}, name : STRING, value : STRING]
    \cup [kind : {"key"}, name : STRING, value : STRING, off : BOOLEAN]

Chunk == [head : Seq(Line), braces : Nat, body : Seq(Line)]

Section == [name : STRING, description : Nat, keys : Seq(Line)]

ASSUME ConfigFileAssumption ==
    /\ Files \subseteq Seq(Chunk)
    /\ NoName \in STRING
    /\ Cut \in STRING
    /\ MaxCycles \in Nat

VARIABLES
    origin,     \* history: the file as it was at first
    file,       \* the file
    cycles,     \* how often it was written
    phase,      \* what the program does with it
    sections,   \* the Sections in memory
    asked       \* history: the updates answered without an error

configVars == <<origin, file, cycles, phase, sections, asked>>

ConfigTypeOK ==
    /\ origin \in Seq(Chunk)
    /\ file \in Seq(Chunk)
    /\ cycles \in 0 .. MaxCycles
    /\ phase \in {"idle", "parsed", "panicked", "fatal"}
    /\ sections \in Seq(Section)
    /\ asked \subseteq Updates

Note == [kind |-> "note"]
Named(n) == [kind |-> "name", name |-> n]
KeyLine(k) == [kind |-> "key", name |-> k.name, value |-> k.value, off |-> k.off]
LineEnd == [head |-> << >>, braces |-> 0, body |-> << >>]

ConfigInit ==
    /\ origin \in Files
    /\ file = origin
    /\ cycles = 0
    /\ phase = "idle"
    /\ sections = << >>
    /\ asked = {}

----------------------------------------------------------------------------
(* Reading *)

IsName(line) == line.kind = "name"

LastOf(lines) == lines[Len(lines)]

\* The name is the first line in front of the brace, and then stays in the
\* description, or else the last one; other lines are description.
SectionName(head) ==
    IF IsName(head[1]) THEN head[1].name
    ELSE IF IsName(LastOf(head)) THEN LastOf(head).name ELSE NoName

\* Slip: the lines are not reversed to find a name behind comments.
FirstLineOnly(head) == IF IsName(head[1]) THEN head[1].name ELSE NoName

FoundName(head) == SectionName(head)

Description(head) ==
    IF ~IsName(head[1]) /\ IsName(LastOf(head)) THEN Len(head) - 1 ELSE Len(head)

ReadValue(v) == IF v \in Split THEN Cut ELSE v

IsKey(line) == line.kind = "key"

\* The lines of a body that are keys.
KeyLines(body) == {i \in 1 .. Len(body) : IsKey(body[i])}

FirstKey(body) == CHOOSE i \in KeyLines(body) : \A j \in KeyLines(body) : i <= j

\* A line that is no key describes the key before it.
ReadLine(line) ==
    IF IsKey(line)
    THEN KeyLine([name |-> line.name, value |-> ReadValue(line.value), off |-> line.off])
    ELSE Note

\* Slip: the last key has no next index and is left out.
AllButLast(body) ==
    LET last == CHOOSE i \in KeyLines(body) : \A j \in KeyLines(body) : j <= i
    IN IF KeyLines(body) = {} THEN << >>
       ELSE [n \in 1 .. last - FirstKey(body) |-> ReadLine(body[FirstKey(body) + n - 1])]

\* Each key with the lines from its own to the next key's; lines in front of
\* the first key are lost.
CreateKvs(body) ==
    IF KeyLines(body) = {} THEN << >>
    ELSE [n \in 1 .. Len(body) - FirstKey(body) + 1 |->
             ReadLine(body[FirstKey(body) + n - 1])]

\* More than one brace may be a subsection: no keys are read.
CreateKeyValues(chunk) == IF chunk.braces = 1 THEN CreateKvs(chunk.body) ELSE << >>

\* Without a brace there is no section.
ParseSection(chunk) ==
    IF chunk.braces = 0
    THEN [name |-> NoName, description |-> 0, keys |-> << >>]
    ELSE [name |-> FoundName(chunk.head),
          description |-> Description(chunk.head),
          keys |-> CreateKeyValues(chunk)]

\* beginSection[0] of no lines, and a key line whose value stayed nil.
Panics(chunk) ==
    \/ chunk.braces > 0 /\ chunk.head = << >>
    \/ chunk.braces = 1 /\ \E i \in 1 .. Len(chunk.body) : chunk.body[i].kind = "prose"

ParseFails(f) == \E i \in 1 .. Len(f) : Panics(f[i])

ParseAll(f) == [i \in 1 .. Len(f) |-> ParseSection(f[i])]

ParseFile ==
    /\ phase = "idle" /\ cycles < MaxCycles
    /\ IF ParseFails(file)
       THEN phase' = "panicked" /\ UNCHANGED sections
       ELSE phase' = "parsed" /\ sections' = ParseAll(file)
    /\ UNCHANGED <<origin, file, cycles, asked>>

----------------------------------------------------------------------------
(* Updating *)

\* The sections and keys of the names that an update gives.
Found(ss, update) ==
    {p \in (1 .. Len(ss)) \X UNION {1 .. Len(ss[i].keys) : i \in 1 .. Len(ss)} :
        /\ ss[p[1]].name = update.section
        /\ p[2] \in KeyLines(ss[p[1]].keys)
        /\ ss[p[1]].keys[p[2]].name = update.key}

\* The key Get finds in the first section of the name that has it.
FirstFound(ss, update) ==
    CHOOSE p \in Found(ss, update) :
        \A q \in Found(ss, update) : p[1] < q[1] \/ (p[1] = q[1] /\ p[2] <= q[2])

\* UpdateValueAt returns an error if there is no such key or SetValue finds a
\* value of another kind.
UpdateSucceeds(ss, update) ==
    /\ Found(ss, update) # {}
    /\ LET p == FirstFound(ss, update)
       IN Kind[ss[p[1]].keys[p[2]].value] = Kind[update.value]

\* Get returns the address of its loop variable: SetValue and SetUncommented
\* change a copy, and UpdateValueAt returns without an error.
UpdateValueAt(update) ==
    /\ phase = "parsed" /\ UpdateSucceeds(sections, update)
    /\ asked' = asked \cup {update}
    /\ UNCHANGED <<origin, file, cycles, phase, sections>>

\* log.Fatal at the first update that fails; what was read is not written.
CheckForConfigFile ==
    /\ phase = "idle"
    /\ phase' = CASE ParseFails(file) -> "panicked"
                  [] ~ParseFails(file)
                     /\ \E u \in Wanted : ~UpdateSucceeds(ParseAll(file), u) -> "fatal"
                  [] OTHER -> "idle"
    /\ UNCHANGED <<origin, file, cycles, sections, asked>>

----------------------------------------------------------------------------
(* Writing *)

\* Slip: a key that is commented out is written as one that is not.
WriteKeyOn(line) == IF IsKey(line) THEN KeyLine([line EXCEPT !.off = FALSE]) ELSE Note

WriteKey(line) == IF IsKey(line) THEN KeyLine(line) ELSE Note

WriteSection(section) ==
    [head |-> [i \in 1 .. section.description + 1 |->
                  IF i <= section.description THEN Note ELSE Named(section.name)],
     braces |-> 1,
     body |-> [i \in 1 .. Len(section.keys) |-> WriteKey(section.keys[i])]]

WriteOut ==
    /\ phase = "parsed"
    /\ file' = Append([i \in 1 .. Len(sections) |-> WriteSection(sections[i])], LineEnd)
    /\ cycles' = cycles + 1
    /\ phase' = "idle"
    /\ sections' = << >>
    /\ UNCHANGED <<origin, asked>>

ConfigNext ==
    \/ ParseFile
    \/ \E update \in Updates : UpdateValueAt(update)
    \/ CheckForConfigFile
    \/ WriteOut

ConfigSpec == ConfigInit /\ [][ConfigNext]_configVars

----------------------------------------------------------------------------
(* Properties *)

\* What shairport-sync reads: the name in front of the brace, wherever it is,
\* and every setting, for its parser needs no semicolon.
NameLines(head) == {i \in 1 .. Len(head) : IsName(head[i])}

NameOf(chunk) ==
    IF NameLines(chunk.head) = {} THEN NoName
    ELSE chunk.head[CHOOSE i \in NameLines(chunk.head) :
                        \A j \in NameLines(chunk.head) : j <= i].name

IsSet(line) == line.kind = "bare" \/ (IsKey(line) /\ ~line.off)

\* A set line of a body makes the setting n = v.
Sets(body, n, v) ==
    \E i \in 1 .. Len(body) : IsSet(body[i]) /\ body[i].name = n /\ body[i].value = v

\* The name is on the first or the last line in front of the brace, if there
\* is one.
NameInPlace(chunk) ==
    NameOf(chunk) = IF chunk.braces = 0 \/ chunk.head = << >> THEN NoName
                    ELSE SectionName(chunk.head)

\* A setting with its semicolon, and only that one.
ReadInFull(line) == IsKey(line) /\ ~line.off /\ line.value \notin Split

\* However often the file is read and written, a setting with its semicolon, in
\* a section with one brace and its name in place, is still made (section.go,
\* key.go): no key is left out, merged with the next one or commented out.
SettingsSurvive ==
    \A i \in 1 .. Len(origin) : origin[i].braces = 1 /\ NameInPlace(origin[i]) =>
        \A j \in 1 .. Len(origin[i].body) : ReadInFull(origin[i].body[j]) =>
            /\ i <= Len(file)
            /\ NameOf(file[i]) = NameOf(origin[i])
            /\ Sets(file[i].body, origin[i].body[j].name, origin[i].body[j].value)

\* What the chunk makes of the line was a setting of the chunk at first, up to
\* the cut at a semicolon.
WasSet(then, line) ==
    \E k \in 1 .. Len(then.body) :
        /\ IsSet(then.body[k]) /\ then.body[k].name = line.name
        /\ line.value \in {then.body[k].value, ReadValue(then.body[k].value)}

\* An update that was answered without an error asked for the line, there.
WasAsked(chunk, line) ==
    \E u \in asked :
        /\ u.section = NameOf(chunk) /\ u.key = line.name
        /\ line.value \in {u.value, ReadValue(u.value)}

\* A setting that a section makes was one of that section at first, or an update
\* of that section and key asked for it: no comment comes alive, no setting
\* comes from the next section, and an update that was refused leaves nothing
\* (parse.go, key.go).  It does not say that an update is carried out: as it
\* is, Get loses every one of them (parse.go:208).
NothingInvented ==
    \A i \in 1 .. Len(file) : \A j \in 1 .. Len(file[i].body) : IsSet(file[i].body[j]) =>
        \/ i <= Len(origin) /\ WasSet(origin[i], file[i].body[j])
        \/ WasAsked(file[i], file[i].body[j])

\* Names in place stay, in their order, and a cycle of reading and writing adds
\* at most one nameless section, made of the line end behind the last one
\* (parse.go, section.go).
SectionsKept ==
    /\ Len(file) \in Len(origin) .. Len(origin) + cycles
    /\ \A i \in 1 .. Len(file) :
          IF i <= Len(origin)
          THEN NameInPlace(origin[i]) => NameOf(file[i]) = NameOf(origin[i])
          ELSE NameOf(file[i]) = NoName
=============================================================================
