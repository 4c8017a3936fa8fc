---------------------------- MODULE MCConfigFile ----------------------------
(* Files of one section out of all that the parser treats differently, with or
   without a second section and a line end behind, read and written twice. *)
EXTENDS ConfigFile, SequencesExt

Key(n, v) == [name |-> n, value |-> v, off |-> FALSE]

MCKind == [string |-> "String", stdout |-> "String", uint |-> "Uint", newuint |-> "Uint",
           int |-> "Int", newint |-> "Int", list |-> "UnsafePointer", cut |-> "UnsafePointer"]

\* checkForConfigFile asks for the Go string stdout and the Go int 8009.
MCWanted == {[section |-> "general", key |-> "backend", value |-> "stdout"],
             [section |-> "general", key |-> "port", value |-> "newint"]}

MCUpdates == MCWanted \cup {[section |-> "metadata", key |-> "port", value |-> "newuint"]}

\* "list" is a quoted value with a semicolon inside.
Blank == [kind |-> "blank"]

Lines == {KeyLine(Key("backend", "string")), KeyLine(Key("port", "uint")),
          KeyLine(Key("port", "int")), KeyLine([Key("port", "uint") EXCEPT !.off = TRUE]),
          KeyLine(Key("backend", "list")), Note,
          [kind |-> "bare", name |-> "backend", value |-> "string"], [kind |-> "prose"]}

General == Named("general")

Heads == {<<General>>, <<Note, General>>, <<General, Note>>, <<Note, General, Blank>>, <<Note>>,
          << >>}

Chunks == [head : Heads, braces : {1, 2}, body : BoundedSeq(Lines, 2)]

Metadata(line) == [head |-> <<Note, Named("metadata")>>, braces |-> 1, body |-> <<line>>]

MCFiles ==
    {<<chunk>> \o more \o end :
        chunk \in Chunks,
        more \in {<< >>, <<Metadata(KeyLine(Key("port", "uint")))>>},
        end \in {<< >>, <<LineEnd>>, <<[LineEnd EXCEPT !.head = <<Note>>]>>}}
=============================================================================
