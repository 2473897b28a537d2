-------------------------------- MODULE Event --------------------------------
(***************************************************************************)
(* parseSSEFrame: the data fields of one event are compacted in place, so  *)
(* the loop reads lines from the same buffer it writes the payload to.     *)
(* A frame is a sequence of symbols: "data" and "event" are whole keys,    *)
(* every other symbol is one byte.                                         *)
(***************************************************************************)
EXTENDS Integers, SequencesExt

CONSTANT Frames   \* the frames to parse: sequences of symbols

EventAssumption == Frames \subseteq Seq(STRING)

VARIABLES
    original, \* the frame as it arrived
    frame,    \* the buffer, overwritten from the front
    start,    \* bytes already read
    written,  \* bytes of payload written
    fields,   \* data fields seen
    name,     \* value of the last event field
    result    \* Parsing, or what the function returned

vars == <<original, frame, start, written, fields, name, result>>

Parsing == [kind |-> "parsing"]
Malformed == [kind |-> "error"]
Empty == [kind |-> "empty"]
Event(n, d) == [kind |-> "event", name |-> n, data |-> d]

Init ==
    /\ original \in Frames
    /\ frame = original
    /\ start = 0 /\ written = 0 /\ fields = 0
    /\ name = <<>>
    /\ result = Parsing

LineBreak == "\n"
TrimRight(s) == SubSeq(s, 1, Max({0} \cup {i \in DOMAIN s : s[i] # LineBreak}))
TrimSpace(s) ==
    LET solid == {i \in DOMAIN s : s[i] # " "}
    IN  IF solid = {} THEN <<>>
        ELSE SubSeq(s, CHOOSE i \in solid : \A j \in solid : i <= j,
                       CHOOSE i \in solid : \A j \in solid : i >= j)
HasColon(line) == Contains(line, ":")
Key(line) == SubSeq(line, 1, SelectInSeq(line, LAMBDA c : c = ":") - 1)
Value(line) == TrimSpace(SubSeq(line, SelectInSeq(line, LAMBDA c : c = ":") + 1, Len(line)))

\* The end of the line that begins after position from, and the line.
LineEnd(s, from) ==
    LET i == SelectInSubSeq(s, from + 1, Len(s), LAMBDA c : c = LineBreak)
    IN  IF i = 0 THEN Len(s) ELSE i
Line(s, from) == TrimRight(SubSeq(s, from + 1, LineEnd(s, from)))

\* Mistake: append to the written part, which cuts off the unread lines.
OverwriteCuts(s, at, value) == SubSeq(s, 1, at) \o value

\* copy(frame[at:], value)
Overwrite(s, at, value) ==
    [i \in DOMAIN s |-> IF i \in at + 1..at + Len(value) THEN value[i - at] ELSE s[i]]

\* Mistake: every field is preceded by a separator, the first one too.
CompactedAlways(value) ==
    /\ frame' = Overwrite(frame, written, <<LineBreak>> \o value)
    /\ written' = written + 1 + Len(value)
    /\ fields' = fields + 1

Compacted(value) ==
    LET piece == IF fields > 0 THEN <<LineBreak>> \o value ELSE value IN
    /\ frame' = Overwrite(frame, written, piece)
    /\ written' = written + Len(piece)
    /\ fields' = fields + 1

ParseLine ==
    LET line == Line(frame, start) IN
    /\ result = Parsing
    /\ start < Len(frame)
    /\ start' = LineEnd(frame, start)
    /\ UNCHANGED original
    /\ \/ /\ line # <<>> /\ ~HasColon(line)
          /\ result' = Malformed
          /\ UNCHANGED <<frame, written, fields, name>>
       \/ /\ line # <<>> /\ HasColon(line) /\ Key(line) = <<"data">>
          /\ Compacted(Value(line))
          /\ UNCHANGED <<name, result>>
       \/ /\ line # <<>> /\ HasColon(line) /\ Key(line) = <<"event">>
          /\ name' = Value(line)
          /\ UNCHANGED <<frame, written, fields, result>>
       \/ /\ line = <<>> \/ (HasColon(line) /\ Key(line) \notin {<<"data">>, <<"event">>})
          /\ UNCHANGED <<frame, written, fields, name, result>>

Return ==
    /\ result = Parsing
    /\ start = Len(frame)
    /\ result' = IF name = <<>> /\ written = 0 THEN Empty
                 ELSE Event(name, SubSeq(frame, 1, written))
    /\ UNCHANGED <<original, frame, start, written, fields, name>>

Next == ParseLine \/ Return

Spec == Init /\ [][Next]_vars

-----------------------------------------------------------------------------
\* The reference: split the frame into lines, take the last name and join the values.

\* Where the lines begin, those that fail the frame, and those of a key.
Starts(s) == {i \in 0..Len(s) - 1 : i = 0 \/ s[i] = LineBreak}
Bad(line) == line # <<>> /\ ~HasColon(line)
FieldsOf(s, key) == {i \in Starts(s) : HasColon(Line(s, i)) /\ Key(Line(s, i)) = key}

\* What the line that begins after position i adds to the payload.
Piece(s, i) ==
    LET data == FieldsOf(s, <<"data">>) IN
    IF i \notin data THEN <<>>
    ELSE (IF \E j \in data : j < i THEN <<LineBreak>> ELSE <<>>) \o Value(Line(s, i))

Expected ==
    LET events == FieldsOf(original, <<"event">>)
        n == IF events = {} THEN <<>> ELSE Value(Line(original, Max(events)))
        d == FlattenSeq([i \in DOMAIN original |-> Piece(original, i - 1)])
    IN  IF \E i \in Starts(original) : Bad(Line(original, i)) THEN Malformed
        ELSE IF n = <<>> /\ d = <<>> THEN Empty
        ELSE Event(n, d)

\* Every frame parses to the last event name and the data values joined by
\* line breaks, although the loop writes into the buffer it still reads
\* (sse.go:246-285).
ParsedAsSplit == result # Parsing => result = Expected

\* The payload is written strictly before the first unread byte, and the unread
\* bytes are still the ones that arrived (sse.go:244-245: "Destination always
\* precedes unread fields").
UnreadUntouched ==
    /\ written <= start
    /\ SubSeq(frame, start + 1, Len(frame)) = SubSeq(original, start + 1, Len(original))

\* Parsing in place is as good as splitting, although it writes into what it reads.
ParsedInPlace == ParsedAsSplit /\ UnreadUntouched
=============================================================================
