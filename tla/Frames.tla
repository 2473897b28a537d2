------------------------------- MODULE Frames -------------------------------
(***************************************************************************)
(* The upstream SSE transport: every stream assembles one frame at a time  *)
(* in a buffer that grows, hands it over unbuffered, and charges the       *)
(* capacity of every live buffer to one budget shared by all streams.      *)
(* Byte counts are scaled down: SmallestBuffer stands for 128 bytes.       *)
(***************************************************************************)
EXTENDS Integers, FiniteSets, FiniteSetsExt

CONSTANTS
    Streams,        \* connections that share the budget
    MaxBytes,       \* Limits.MessageBytes, the largest frame
    Limit,          \* Limits.FrameBytes, the capacity of the budget
    SmallestBuffer, \* the first allocation
    MaxPart         \* bound: bytes one ReadSlice returns

ASSUME SizesAssumption ==
    /\ IsFiniteSet(Streams)
    /\ MaxBytes \in Nat \ {0} /\ Limit \in Nat /\ MaxPart \in Nat \ {0}
    /\ SmallestBuffer \in Nat \ {0}

VARIABLES
    used,     \* Budget.used
    reader,   \* per stream: the goroutine that assembles frames
    holding,  \* per stream: capacity of the frame Read is parsing, or Nothing
    closed    \* streams whose Close has run: done closed, body closed

vars == <<used, reader, holding, closed>>

Nothing == -1
Ends == {"line", "full", "eof", "fail"}   \* how ReadSlice came back

\* What ReadSlice may return: a line or a full buffer is never empty, and a
\* line of bare line endings is one or two bytes.
Parts == {p \in [n : 0..MaxPart, blank : BOOLEAN, end : Ends] :
             /\ p.n = 0 => p.blank /\ p.end \in {"eof", "fail"}
             /\ p.blank /\ p.n > 0 => p.end = "line" /\ p.n <= 2}
NoPart == [n |-> 0, blank |-> TRUE, end |-> "line"]

\* stage: ConnectSSE still waits for the endpoint event, or the goroutine it
\* starts is reading.  next: capacity of a replacement buffer being filled.
Fresh(stage, pc) ==
    [stage |-> stage, pc |-> pc, len |-> 0, cap |-> 0, next |-> 0,
     lineEmpty |-> TRUE, part |-> NoPart, failed |-> FALSE]

Init ==
    /\ used = 0
    /\ reader = [s \in Streams |-> Fresh("handshake", "idle")]
    /\ holding = [s \in Streams |-> Nothing]
    /\ closed = {}

-----------------------------------------------------------------------------
\* Budget.

Acquirable(n) == n <= Limit - used
release(n) == used' = used - n

-----------------------------------------------------------------------------
\* readFrame.

MaxOf(a, b) == IF a > b THEN a ELSE b
MinOf(a, b) == IF a < b THEN a ELSE b

\* Mistake: doubling is not held to the largest frame.
GrownUncapped(cap, needed) == MaxOf(needed, MaxOf(SmallestBuffer, 2 * cap))

GrownSize(cap, needed) ==
    MinOf(MaxBytes, MaxOf(needed, MaxOf(SmallestBuffer, 2 * cap)))

\* A finished frame or an error goes to whoever called readFrame.
Returned(r, failed) ==
    [r EXCEPT !.pc = IF r.stage = "handshake" THEN "judge" ELSE "offer",
              !.failed = failed, !.part = NoPart]

Failed(r) == Returned([r EXCEPT !.len = 0, !.cap = 0, !.lineEmpty = TRUE], TRUE)

Dial(s) ==
    /\ reader[s].pc = "idle"
    /\ reader' = [reader EXCEPT ![s].pc = "read"]
    /\ UNCHANGED <<used, holding, closed>>

\* One ReadSlice.  The replacement buffer is charged before it is allocated.
Receive(s) ==
    LET r == reader[s] IN
    /\ r.pc = "read"
    /\ \E part \in Parts :
        LET needed == r.len + part.n
            size == GrownSize(r.cap, needed)
        IN
        \/ /\ \/ part.n > MaxBytes - r.len                     \* too large
              \/ needed > r.cap /\ ~Acquirable(size)           \* exhausted
           /\ release(r.cap)
           /\ reader' = [reader EXCEPT ![s] = Failed(r)]
        \/ /\ part.n <= MaxBytes - r.len
           /\ needed > r.cap
           /\ Acquirable(size)
           /\ used' = used + size
           /\ reader' = [reader EXCEPT ![s] =
                            [r EXCEPT !.pc = "swap", !.next = size, !.part = part]]
        \/ /\ part.n <= MaxBytes - r.len
           /\ needed <= r.cap
           /\ reader' = [reader EXCEPT ![s] = [r EXCEPT !.pc = "settle", !.part = part]]
           /\ UNCHANGED used
    /\ UNCHANGED <<holding, closed>>

\* The frame moves into the replacement, and only then is the old one given back.
Swap(s) ==
    LET r == reader[s] IN
    /\ r.pc = "swap"
    /\ release(r.cap)
    /\ reader' = [reader EXCEPT ![s] =
                    [r EXCEPT !.pc = "settle", !.cap = r.next, !.next = 0]]
    /\ UNCHANGED <<holding, closed>>

\* Append the part and decide: the blank line ends the frame, the end of the
\* stream ends a frame that has begun, and any other error drops it.
Settle(s) ==
    LET r == reader[s]
        lineEmpty == r.lineEmpty /\ r.part.blank
        grown == [r EXCEPT !.len = r.len + r.part.n, !.lineEmpty = lineEmpty]
    IN
    /\ r.pc = "settle"
    /\ \/ /\ \/ r.part.end = "line" /\ lineEmpty
             \/ r.part.end = "eof" /\ grown.len > 0
          /\ reader' = [reader EXCEPT ![s] = Returned(grown, FALSE)]
          /\ UNCHANGED used
       \/ /\ r.part.end = "full" \/ (r.part.end = "line" /\ ~lineEmpty)
          /\ reader' = [reader EXCEPT ![s] =
                          [grown EXCEPT !.pc = "read", !.part = NoPart,
                                        !.lineEmpty = lineEmpty \/ r.part.end = "line"]]
          /\ UNCHANGED used
       \/ /\ r.part.end = "fail" \/ (r.part.end = "eof" /\ grown.len = 0)
          /\ release(r.cap)
          /\ reader' = [reader EXCEPT ![s] = Failed(r)]
    /\ UNCHANGED <<holding, closed>>

-----------------------------------------------------------------------------
\* ConnectSSE and the goroutine it starts.

\* The first event: an empty one is skipped, the endpoint opens the stream, and
\* anything else, like a failed read, closes the connection.
Judge(s) ==
    LET r == reader[s] IN
    /\ r.pc = "judge"
    /\ release(r.cap)
    /\ \/ /\ ~r.failed
          /\ \E stage \in {"handshake", "stream"} :
                reader' = [reader EXCEPT ![s] = Fresh(stage, "read")]
          /\ UNCHANGED closed
       \/ /\ reader' = [reader EXCEPT ![s] = Fresh("handshake", "gone")]
          /\ closed' = closed \cup {s}
    /\ UNCHANGED holding

\* Mistake: the reader offers its frame without watching for Close.
WithdrawNever(s) == FALSE /\ UNCHANGED vars

\* Close frees a reader nobody will take a frame from.
Withdraw(s) ==
    LET r == reader[s] IN
    /\ r.pc = "offer"
    /\ s \in closed
    /\ release(r.cap)
    /\ reader' = [reader EXCEPT ![s] = Fresh("stream", "gone")]
    /\ UNCHANGED <<holding, closed>>

-----------------------------------------------------------------------------
\* Read and Close.

\* Read takes the frame or the error the goroutine offers.
Take(s) ==
    LET r == reader[s] IN
    /\ r.pc = "offer"
    /\ holding[s] = Nothing
    /\ reader' = [reader EXCEPT ![s] = Fresh("stream", IF r.failed THEN "gone" ELSE "read")]
    /\ IF r.failed
       THEN closed' = closed \cup {s} /\ UNCHANGED holding
       ELSE holding' = [holding EXCEPT ![s] = r.cap] /\ UNCHANGED closed
    /\ UNCHANGED used

\* Mistake: a frame that does not decode keeps its charge.
DecodeLeaksBad(s) ==
    /\ holding[s] # Nothing
    /\ holding' = [holding EXCEPT ![s] = Nothing]
    /\ \/ release(holding[s]) /\ UNCHANGED closed
       \/ closed' = closed \cup {s} /\ UNCHANGED used
    /\ UNCHANGED reader

\* The frame is parsed and decoded, given back, and closes the stream if bad.
Decode(s) ==
    /\ holding[s] # Nothing
    /\ release(holding[s])
    /\ holding' = [holding EXCEPT ![s] = Nothing]
    /\ closed' \in {closed, closed \cup {s}}
    /\ UNCHANGED reader

\* The lane ends a connected stream at any moment.  (A context that ends while
\* ConnectSSE still waits is a failed read.)
Close(s) ==
    /\ reader[s].stage = "stream"
    /\ s \notin closed
    /\ closed' = closed \cup {s}
    /\ UNCHANGED <<used, reader, holding>>

ReaderStep(s) ==
    Receive(s) \/ Swap(s) \/ Settle(s) \/ Judge(s) \/ Withdraw(s)

Next == \E s \in Streams :
    Dial(s) \/ ReaderStep(s) \/ Take(s) \/ Decode(s) \/ Close(s)

\* A closed body answers every read, so a closed stream's goroutine keeps
\* running; before that the server may stay silent.  Parsing always ends.  A
\* select whose done case is ready again and again takes it at last.
Fairness == \A s \in Streams :
    /\ WF_vars(s \in closed /\ ReaderStep(s))
    /\ SF_vars(Withdraw(s))
    /\ WF_vars(Decode(s))

Spec == Init /\ [][Next]_vars /\ Fairness

-----------------------------------------------------------------------------
\* Properties.

Phases == {"idle", "read", "swap", "settle", "judge", "offer", "gone"}

\* Every variable keeps its type, and a buffer never outgrows one frame or
\* holds more than its capacity (sse.go:197-218).
TypeOK ==
    /\ used \in 0..Limit
    /\ holding \in [Streams -> {Nothing} \cup 0..MaxBytes]
    /\ closed \subseteq Streams
    /\ \A s \in Streams :
        LET r == reader[s] IN
        /\ r.pc \in Phases /\ r.stage \in {"handshake", "stream"}
        /\ r.cap \in 0..MaxBytes /\ r.next \in 0..MaxBytes /\ r.len \in 0..r.cap
        /\ r.part \in Parts \cup {NoPart}

Charged(s) == reader[s].cap + reader[s].next + MaxOf(0, holding[s])

\* The shared budget is exactly the capacity of the buffers that are live,
\* both buffers while one grows included: nothing leaks and nothing is given
\* back twice, whichever of the eight ways a frame ends (sse.go:290-322).
BudgetExact == used = MapThenSumSet(Charged, Streams)

\* Buffers stay in their frame's bound and the budget is what they hold.
BudgetKept == TypeOK /\ BudgetExact

\* A closed stream gives everything back and its goroutine ends, even when
\* nobody reads any more (sse.go:37-39: "Connection Close unblocks both
\* network and handoff").
ClosedStreamsDrain == \A s \in Streams :
    s \in closed ~> (reader[s].pc = "gone" /\ Charged(s) = 0)
=============================================================================
