-------------------------------- MODULE Stdio --------------------------------
(***************************************************************************)
(* The stdio transport (internal/transport/stdio.go): one goroutine reads  *)
(* JSON values under a byte budget per value, sends the unusual ones and   *)
(* the id-bearing messages of a batch through the SDK's connection, and    *)
(* hands every message to Read, unbuffered.  The SDK is external: it       *)
(* returns the messages it is fed in the order it was fed them.            *)
(***************************************************************************)
EXTENDS Integers, FiniteSetsExt, SequencesExt

CONSTANTS
    Inputs,     \* what clients send: sequences of values
    MaxBytes,   \* Limits.MessageBytes
    MaxChunk    \* bound: bytes one Read of the input returns

\* A value is [size, kind, msgs]: "scalar" decodes directly, "single" goes
\* through the SDK, "refused" is an SDK error, "batch" is a JSON array that is not
\* empty.  A message is [kind, n]; "note" bears no id and "bad" does not decode.
Messages == [kind : {"call", "answer", "note", "bad"}, n : Nat]
Values ==
    {v \in [size : Nat, kind : {"scalar", "single", "refused", "batch"}, msgs : Seq(Messages)] :
        /\ v.kind \in {"scalar", "single"} => Len(v.msgs) = 1 /\ v.msgs[1].kind # "bad"
        /\ v.kind = "batch" => v.msgs # <<>>}

\* What MCTransports assumes of the constants.
StdioAssumption ==
    /\ MaxBytes \in Nat \ {0} /\ MaxChunk \in Nat \ {0}
    /\ Inputs \subseteq Seq(Values)

VARIABLES
    input,      \* the values of this client
    at,         \* the value being read
    read,       \* messageReader.read: bytes taken from the input
    offset,     \* messageReader.offset: where the value being read begins
    pc,         \* the goroutine: "fill", "batch", "sdk", "offer", "gone"
    sdk,        \* messages inside the SDK's connection
    batch,      \* messages of the batch still to deliver
    next,       \* the SDK's answer readBatch has in hand, a sequence of one
    offered,    \* what deliver offers
    delivered,  \* history: what Read returned
    closed

readerVars == <<at, read, offset, sdk, batch, next>>
vars == <<input, at, read, offset, pc, sdk, batch, next, offered, delivered, closed>>

Error == [kind |-> "error", n |-> 0]
TrackedBySDK(m) == m.kind \in {"call", "answer"}

Init ==
    /\ input \in Inputs
    /\ at = 1 /\ read = 0 /\ offset = 0
    /\ pc = "fill"
    /\ sdk = <<>> /\ batch = <<>> /\ next = <<>>
    /\ offered = Error
    /\ delivered = <<>>
    /\ closed = FALSE

\* The sum of f over S.
SumOver(f, S) == MapThenSumSet(LAMBDA x : f[x], S)

Sizes == [k \in DOMAIN input |-> input[k].size]
Total == SumOver(Sizes, DOMAIN input)
Complete == at <= Len(input) /\ read >= offset + input[at].size

Offer(m) == pc' = "offer" /\ offered' = m

-----------------------------------------------------------------------------
\* messageReader.Read.

\* Mistake: every read of the input has the whole budget.
RemainingEach == MaxBytes

Remaining == MaxBytes - (read - offset)

\* The decoder asks for more: the budget of this value, the end of the input, a
\* closed input, or some bytes, which may belong to the values after this one.
Fill ==
    /\ pc = "fill"
    /\ ~Complete
    /\ \/ /\ Remaining <= 0 \/ read = Total \/ closed
          /\ Offer(Error)
          /\ UNCHANGED read
       \/ /\ Remaining > 0
          /\ \E n \in 1..MaxChunk :
                n <= Remaining /\ read + n <= Total /\ read' = read + n
          /\ UNCHANGED <<pc, offered>>
    /\ UNCHANGED <<input, at, offset, sdk, batch, next, delivered, closed>>

-----------------------------------------------------------------------------
\* read and readBatch.

\* The messages of a batch that the SDK tracks, in their order.
Tracked(msgs) ==
    LET ids == {i \in DOMAIN msgs : TrackedBySDK(msgs[i])}
        place == CHOOSE p \in [1..Cardinality(ids) -> ids] :
                    \A i, j \in DOMAIN p : i < j => p[i] < p[j]
    IN  [k \in DOMAIN place |-> msgs[place[k]]]

\* A batch goes to the SDK without its notifications, all of it at once.
Decode ==
    LET v == input[at]
        tracked == Tracked(v.msgs)
    IN
    /\ pc = "fill" /\ Complete
    /\ at' = at + 1
    /\ offset' = offset + v.size
    /\ \/ /\ v.kind = "scalar"
          /\ Offer(v.msgs[1])
          /\ UNCHANGED <<sdk, batch>>
       \/ /\ v.kind = "refused" \/ (v.kind = "batch" /\ \E m \in ToSet(v.msgs) : m.kind = "bad")
          /\ Offer(Error)
          /\ UNCHANGED <<sdk, batch>>
       \/ /\ v.kind \in {"single", "batch"}
          /\ \A m \in ToSet(v.msgs) : m.kind # "bad"
          /\ sdk' = sdk \o (IF v.kind = "single" THEN v.msgs ELSE tracked)
          /\ batch' = IF v.kind = "batch" THEN v.msgs ELSE <<>>
          /\ pc' = IF v.kind = "single" \/ tracked # <<>> THEN "sdk" ELSE "batch"
          /\ UNCHANGED offered
    /\ UNCHANGED <<input, read, next, delivered, closed>>

\* sdk.Read, for readSDK or for readBatch: the next message, or an error once
\* Close has run.
ReadSDK ==
    /\ pc = "sdk"
    /\ \/ /\ sdk # <<>> /\ batch = <<>>
          /\ Offer(Head(sdk))
          /\ sdk' = Tail(sdk)
          /\ UNCHANGED next
       \/ /\ sdk # <<>> /\ batch # <<>>
          /\ next' = <<Head(sdk)>>
          /\ sdk' = Tail(sdk)
          /\ pc' = "batch"
          /\ UNCHANGED offered
       \/ /\ closed
          /\ Offer(Error)
          /\ UNCHANGED <<sdk, next>>
    /\ UNCHANGED <<input, at, read, offset, batch, delivered, closed>>

\* Mistake: notifications overtake the messages the SDK holds.
NextOfBatchNotesFirst ==
    /\ pc = "batch" /\ batch # <<>>
    /\ LET notes == SelectSeq(batch, LAMBDA m : m.kind = "note") IN
       IF notes # <<>>
       THEN Offer(Head(notes)) /\ batch' = Remove(batch, Head(notes)) /\ UNCHANGED next
       ELSE IF next = <<>>
       THEN pc' = "sdk" /\ UNCHANGED <<offered, batch, next>>
       ELSE Offer(Head(next)) /\ next' = <<>> /\ batch' = Tail(batch)
    /\ UNCHANGED <<input, at, read, offset, sdk, delivered, closed>>

\* The loop over the batch: a notification is delivered as decoded here, any
\* other message as the SDK decoded it.
NextOfBatch ==
    /\ pc = "batch" /\ batch # <<>>
    /\ \/ /\ Head(batch).kind = "note"
          /\ Offer(Head(batch))
          /\ batch' = Tail(batch)
          /\ UNCHANGED next
       \/ /\ Head(batch).kind # "note" /\ next # <<>>
          /\ Offer(Head(next))
          /\ next' = <<>>
          /\ batch' = Tail(batch)
       \/ /\ Head(batch).kind # "note" /\ next = <<>>
          /\ pc' = "sdk"
          /\ UNCHANGED <<offered, batch, next>>
    /\ UNCHANGED <<input, at, read, offset, sdk, delivered, closed>>

\* Mistake: the goroutine offers its message to Read alone.
DeliverDeaf == FALSE /\ UNCHANGED vars

\* deliver gives up once Close has run, and the goroutine ends.
Abandon ==
    /\ pc = "offer" /\ closed
    /\ pc' = "gone"
    /\ UNCHANGED <<input, readerVars, offered, delivered, closed>>

\* Read takes what deliver offers; an error is the last thing offered.
Read ==
    /\ pc = "offer"
    /\ delivered' = Append(delivered, offered)
    /\ pc' = IF offered = Error THEN "gone" ELSE IF batch = <<>> THEN "fill" ELSE "batch"
    /\ UNCHANGED <<input, readerVars, offered, closed>>

Close ==
    /\ ~closed
    /\ closed' = TRUE
    /\ UNCHANGED <<input, readerVars, pc, offered, delivered>>

Next == Fill \/ Decode \/ ReadSDK \/ NextOfBatch \/ Abandon \/ Read \/ Close

\* Close unblocks the input and the SDK, so the goroutine keeps running; a
\* select whose closed case stays ready takes it at last.
Fairness ==
    /\ WF_vars(closed /\ (Fill \/ Decode \/ ReadSDK \/ NextOfBatch))
    /\ SF_vars(Abandon)

Spec == Init /\ [][Next]_vars /\ Fairness

-----------------------------------------------------------------------------
\* Properties.

\* The reference: the messages of the values before the first one that is too
\* large, refused, or a batch with a message that does not decode.
Broken(v) ==
    \/ v.size > MaxBytes
    \/ v.kind = "refused"
    \/ \E m \in ToSet(v.msgs) : m.kind = "bad"
Sound == {k \in DOMAIN input : \A j \in 1..k : ~Broken(input[j])}
Expected ==
    FlattenSeq([k \in 1..Cardinality(Sound) |-> input[k].msgs])

\* Messages reach the session in the order the client sent them, those inside
\* a batch included, although only some of a batch pass through the SDK and the
\* rest do not (stdio.go:133-179); a client that was not closed gets all of
\* them through before the error that ends the connection.
Heard ==
    IF delivered # <<>> /\ Last(delivered) = Error THEN Front(delivered) ELSE delivered
InOrder ==
    /\ IsPrefix(Heard, Expected)
    /\ pc = "gone" /\ ~closed => delivered = Append(Expected, Error)

\* The decoder never holds more than one value's budget, however much of the
\* following values a read brought along (stdio.go:181-200).
BufferBounded == read - offset <= MaxBytes

\* The reader keeps the order of what it reads and the budget it reads it with.
ReadsInOrder == InOrder /\ BufferBounded

\* Closing the transport ends the reading goroutine, whatever it was waiting
\* for and although nobody reads from it any more (stdio.go:70-89).
CloseEndsReader == closed ~> pc = "gone"
=============================================================================
