---------------------------- MODULE MCTransports ----------------------------
(***************************************************************************)
(* The transports at both ends of a process share no state: a behaviour is *)
(* one of the streams of SSE frames, of one frame that is parsed, or of    *)
(* one client's stdio.                                                     *)
(***************************************************************************)
EXTENDS Frames, SequencesExt

CONSTANTS
    EventFrames,  \* the frames of Event
    Inputs,       \* of Stdio
    ValueBytes,   \* Limits.MessageBytes of the stdio transport
    MaxChunk      \* of Stdio

VARIABLES
    transport,   \* "sse", "event" or "stdio"; never changes
    original, frame, start, written, fields, name, result,
    input, at, read, offset, pc, sdk, batch, next, offered, delivered, stopped

eventVars == <<original, frame, start, written, fields, name, result>>
stdioVars == <<input, at, read, offset, pc, sdk, batch, next, offered, delivered, stopped>>

-----------------------------------------------------------------------------
\* Every frame of up to three of the lines below, the last one ended or not.

MCLines ==
    { <<>>, <<"data", ":", "x">>, <<"data", ":", " ", "x", " ">>, <<"data", ":">>,
      <<"data", ":", "x", ":", "y">>, <<"data", "x">>, <<"x", "data", ":", "x">>,
      <<"event", ":", "x">>, <<"event", ":">>, <<"x", ":", "data">>, <<":", "x">> }

MCEventFrames ==
    LET ended == {Append(l, "\n") : l \in MCLines}
        upto2 == {<<>>} \cup ended \cup {a \o b : a, b \in ended}
    IN  {f \o l : f \in upto2, l \in ended \cup MCLines}

-----------------------------------------------------------------------------
\* Clients that send up to three of the values below, numbered as they come.

Shape(size, kind, kinds) == [size |-> size, kind |-> kind, kinds |-> kinds]

MCShapes ==
    { Shape(1, "scalar", <<"call">>), Shape(3, "scalar", <<"note">>),
      Shape(4, "scalar", <<"call">>), Shape(2, "single", <<"answer">>), Shape(1, "single", <<"note">>),
      Shape(1, "refused", <<>>),
      Shape(3, "batch", <<"call", "note", "call">>),
      Shape(2, "batch", <<"note", "answer">>), Shape(2, "batch", <<"note", "note">>),
      Shape(2, "batch", <<"call", "bad">>) }

Numbered(shapes) ==
    [k \in DOMAIN shapes |->
        [size |-> shapes[k].size, kind |-> shapes[k].kind,
         msgs |-> [i \in DOMAIN shapes[k].kinds |->
                      [kind |-> shapes[k].kinds[i], n |-> 10 * k + i]]]]

MCInputs == {Numbered(s) : s \in UNION {[1..n -> MCShapes] : n \in 0..3}}

-----------------------------------------------------------------------------
E == INSTANCE Event WITH Frames <- EventFrames
S == INSTANCE Stdio WITH MaxBytes <- ValueBytes, closed <- stopped

ASSUME TransportsAssumption == E!EventAssumption /\ S!StdioAssumption

MCInit ==
    /\ transport \in {"sse", "event", "stdio"}
    /\ Init /\ E!Init /\ S!Init
    /\ transport # "event" => original = <<>>
    /\ transport # "stdio" => input = <<>>

MCNext ==
    /\ UNCHANGED transport
    /\ \/ transport = "sse" /\ Next /\ UNCHANGED <<eventVars, stdioVars>>
       \/ transport = "event" /\ E!Next /\ UNCHANGED <<vars, stdioVars>>
       \/ transport = "stdio" /\ S!Next /\ UNCHANGED <<vars, eventVars>>

\* A transport that is not used has nothing its fairness could make it do.
MCSpec ==
    MCInit /\ [][MCNext]_<<transport, vars, eventVars, stdioVars>> /\ Fairness /\ S!Fairness

-----------------------------------------------------------------------------
\* Of Event: parsing in place gives what splitting would, and never touches what
\* is unread (sse.go:244-285).
ParsedInPlace == E!ParsedInPlace

\* Of Stdio: messages arrive in the order they were sent, and the decoder holds one
\* value's budget at most (stdio.go:133-200).
ReadsInOrder == S!ReadsInOrder

\* Closing a transport ends its reader and gives back what it held (ConnectSSE,
\* sseConn.Close, stdioConn.Close).
ClosedReadersEnd == ClosedStreamsDrain /\ S!CloseEndsReader
=============================================================================
