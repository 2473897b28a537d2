-------------------------- MODULE TransportsProofs --------------------------
(***************************************************************************)
(* Safety of the transports, for any streams, frames and clients and any   *)
(* sizes: the budget of the SSE streams is what their live buffers hold,   *)
(* stdio delivers in order, and a frame parses in place as if it were      *)
(* split.                                                                  *)
(* A sum over the streams is counted: its units are the pairs of a stream  *)
(* and a number up to the stream's term.                                   *)
(***************************************************************************)
EXTENDS MCTransports, DataLemmas

-----------------------------------------------------------------------------
(* The budget. *)

\* A reader, and what it holds: no more than its buffers take, a replacement only while it
\* is filled, and nothing once it has failed.
Readers == [stage : {"handshake", "stream"}, pc : Phases, len : Nat, cap : 0 .. MaxBytes,
            next : 0 .. MaxBytes, lineEmpty : BOOLEAN, part : Parts \cup {NoPart}, failed : BOOLEAN]

Bounded(r) ==
  /\ r.len <= r.cap
  /\ r.failed => r.cap = 0 /\ r.pc \in {"judge", "offer"}
  /\ r.pc # "swap" => r.next = 0
  /\ r.pc = "swap" => r.len + r.part.n <= r.next
  /\ r.pc = "settle" => r.len + r.part.n <= r.cap

Holdings == {Nothing} \cup 0 .. MaxBytes

\* What each stream is charged with.
charges == [s \in Streams |-> Charged(s)]

Balanced ==
  /\ reader \in [Streams -> Readers] /\ holding \in [Streams -> Holdings] /\ closed \in SUBSET Streams
  /\ \A s \in Streams : Bounded(reader[s])
  /\ used = SumOf(charges, Streams) /\ used <= Limit

\* The charge of a reader r and a frame of h bytes.
Charge(r, h) == r.cap + r.next + MaxOf(0, h)

\* A charge is a bounded count.
LEMMA ChargeType ==
  ASSUME NEW r \in Readers, NEW h \in Holdings
  PROVE  Charge(r, h) \in 0 .. (3 * MaxBytes)
<1>1. MaxBytes \in Nat  BY SizesAssumption
<1>2. r.cap \in 0 .. MaxBytes /\ r.next \in 0 .. MaxBytes  BY DEF Readers
<1>3. MaxOf(0, h) \in 0 .. MaxBytes  BY <1>1 DEF Holdings, Nothing, MaxOf
<1> QED BY <1>1, <1>2, <1>3 DEF Charge

\* What is charged in a balanced state.
LEMMA ChargesType ==
  ASSUME Balanced
  PROVE  /\ charges \in [Streams -> 0 .. (3 * MaxBytes)] /\ 3 * MaxBytes \in Nat
         /\ \A s \in Streams : Charged(s) = Charge(reader[s], holding[s])
         /\ used \in Nat /\ IsFiniteSet(Streams)
<1>1. \A s \in Streams : Charged(s) = Charge(reader[s], holding[s])  BY DEF Charged, Charge
<1>2. \A s \in Streams : Charged(s) \in 0 .. (3 * MaxBytes)  BY <1>1, ChargeType DEF Balanced
<1>3. charges \in [Streams -> 0 .. (3 * MaxBytes)]  BY <1>2 DEF charges
<1>4. 3 * MaxBytes \in Nat /\ IsFiniteSet(Streams)  BY SizesAssumption
<1>5. used \in Nat
  <2>1. \A s \in Streams : charges[s] \in Nat  BY <1>2, <1>4 DEF charges
  <2> QED BY <1>4, <2>1, UnitsFinite DEF Balanced
<1> QED BY <1>1, <1>3, <1>4, <1>5

\* A step of one stream keeps the balance if it moves the budget as it moves the charge.
LEMMA OneStream ==
  ASSUME Balanced, NEW s \in Streams, NEW r \in Readers, Bounded(r), NEW h \in Holdings,
         reader' = [reader EXCEPT ![s] = r], holding' = [holding EXCEPT ![s] = h],
         closed' \in SUBSET Streams, used' <= Limit,
         used' = used - Charge(reader[s], holding[s]) + Charge(r, h)
  PROVE  Balanced'
<1>1. /\ reader' \in [Streams -> Readers] /\ holding' \in [Streams -> Holdings]
      /\ reader'[s] = r /\ holding'[s] = h
      /\ \A t \in Streams : t # s => reader'[t] = reader[t] /\ holding'[t] = holding[t]
  BY DEF Balanced
<1>2. \A t \in Streams : Bounded(reader[t])'  BY <1>1 DEF Balanced, Bounded
<1>3. /\ charges \in [Streams -> 0 .. (3 * MaxBytes)] /\ 3 * MaxBytes \in Nat
      /\ used \in Nat /\ IsFiniteSet(Streams)
  BY ChargesType
<1>4. \A t \in Streams : Charged(t)' = Charge(reader'[t], holding'[t])  BY DEF Charged, Charge
<1>5. charges' \in [Streams -> 0 .. (3 * MaxBytes)]
  <2>1. \A t \in Streams : Charged(t)' \in 0 .. (3 * MaxBytes)  BY <1>1, <1>4, ChargeType
  <2> QED BY <2>1 DEF charges
<1>6. /\ charges[s] = Charge(reader[s], holding[s]) /\ charges'[s] = Charge(r, h)
      /\ \A t \in Streams : t # s => charges'[t] = charges[t]
  BY <1>1, <1>4 DEF charges, Charged, Charge
<1>7. SumOf(charges', Streams) =
        SumOf(charges, Streams) - charges[s] + charges'[s]
  <2>1. \A t \in Streams : charges[t] \in Nat /\ charges'[t] \in Nat  BY <1>3, <1>5
  <2> QED BY <1>3, <1>6, <2>1, OneChanges
<1>8. used' = SumOf(charges', Streams)  BY <1>6, <1>7 DEF Balanced
<1> QED BY <1>1, <1>2, <1>8 DEF Balanced, Bounded

\* A grown buffer takes what is needed and no more than a frame.
LEMMA Grown ==
  ASSUME NEW cap \in Nat, NEW needed \in 0 .. MaxBytes
  PROVE  GrownSize(cap, needed) \in needed .. MaxBytes
  BY SizesAssumption DEF GrownSize, MinOf, MaxOf

\* The initial states.
LEMMA BalancedInit == ASSUME Init PROVE Balanced
<1>1. reader \in [Streams -> Readers] /\ \A s \in Streams : Bounded(reader[s])
  <2>1. MaxBytes \in Nat /\ 0 \in 0 .. MaxBytes  BY SizesAssumption
  <2>2. Fresh("handshake", "idle") \in Readers /\ Bounded(Fresh("handshake", "idle"))
    BY <2>1 DEF Fresh, Readers, Bounded, Phases
  <2> QED BY <2>2 DEF Init
<1>2. \A s \in Streams : charges[s] = 0  BY DEF Init, charges, Charged, Fresh, MaxOf, Nothing
<1>3. Units(charges, Streams) = {}  BY <1>2 DEF Units
<1>4. SumOf(charges, Streams) = 0  BY <1>3, FS_EmptySet DEF SumOf
<1> QED BY <1>1, <1>4, SizesAssumption DEF Init, Balanced, Holdings

\* A frame that is handed over.
LEMMA Handed ==
  ASSUME NEW r \in Readers, r.len <= r.cap, r.next = 0, NEW failed \in BOOLEAN, failed => r.cap = 0
  PROVE  /\ Returned(r, failed) \in Readers /\ Bounded(Returned(r, failed))
         /\ \A h : Charge(Returned(r, failed), h) = Charge(r, h)
<1> DEFINE q == Returned(r, failed)
<1>1. /\ q.pc \in {"judge", "offer"} /\ q.failed = failed /\ q.part = NoPart
      /\ q.len = r.len /\ q.cap = r.cap /\ q.next = r.next
  BY DEF Returned, Readers
<1>2. q \in Readers  BY DEF Returned, Readers, Phases
<1> HIDE DEF q
<1>3. Bounded(q)  BY <1>1 DEF Bounded
<1>4. \A h : Charge(q, h) = Charge(r, h)  BY <1>1 DEF Charge
<1> QED BY <1>2, <1>3, <1>4 DEF q

\* A reader that gives up.
LEMMA GivenUp ==
  ASSUME NEW r \in Readers, Bounded(r), r.pc # "swap"
  PROVE  /\ Failed(r) \in Readers /\ Bounded(Failed(r))
         /\ \A h \in Holdings : Charge(Failed(r), h) = Charge(r, h) - r.cap
<1> DEFINE q == [r EXCEPT !.len = 0, !.cap = 0, !.lineEmpty = TRUE]
<1>1. MaxBytes \in Nat /\ 0 \in 0 .. MaxBytes  BY SizesAssumption
<1>2. /\ q.len = 0 /\ q.cap = 0 /\ q.next = r.next /\ q.pc = r.pc /\ q.part = r.part
      /\ q.failed = r.failed
  BY DEF Readers
<1>3. q \in Readers  BY <1>1 DEF Readers
<1>4. Failed(r) = Returned(q, TRUE)  BY DEF Failed
<1> HIDE DEF q
<1>5. r.next = 0  BY DEF Bounded
<1>6. q.len <= q.cap /\ q.next = 0  BY <1>2, <1>5
<1>7. \A h \in Holdings : Charge(q, h) = Charge(r, h) - r.cap
  <2>1. \A h \in Holdings : MaxOf(0, h) \in Int  BY <1>1 DEF Holdings, Nothing, MaxOf
  <2>2. r.cap \in Int /\ r.next \in Int  BY <1>1 DEF Readers
  <2> QED BY <1>2, <2>1, <2>2 DEF Charge
<1> QED BY <1>2, <1>3, <1>4, <1>6, <1>7, Handed

\* A fresh reader: nothing held.
LEMMA FreshOnes ==
  ASSUME NEW stage \in {"handshake", "stream"}, NEW then \in Phases, then \notin {"swap"}
  PROVE  Fresh(stage, then) \in Readers /\ Bounded(Fresh(stage, then)) /\ \A h : Charge(Fresh(stage, then), h) = 0 + 0 + MaxOf(0, h)
<1>1. MaxBytes \in Nat /\ 0 \in 0 .. MaxBytes  BY SizesAssumption
<1>2. Fresh(stage, then) \in Readers  BY <1>1 DEF Fresh, Readers
<1>3. Bounded(Fresh(stage, then))  BY DEF Fresh, Bounded, NoPart
<1>4. Fresh(stage, then).cap = 0 /\ Fresh(stage, then).next = 0  BY DEF Fresh
<1>5. \A h : Charge(Fresh(stage, then), h) = 0 + 0 + MaxOf(0, h)  BY <1>4 DEF Charge
<1> QED BY <1>2, <1>3, <1>5

\* The arithmetic facts of a charge.
LEMMA ChargeParts ==
  ASSUME Balanced, NEW s \in Streams
  PROVE  /\ reader[s] \in Readers /\ Bounded(reader[s]) /\ holding[s] \in Holdings
         /\ reader[s].cap \in 0 .. MaxBytes /\ reader[s].next \in 0 .. MaxBytes
         /\ MaxOf(0, holding[s]) \in 0 .. MaxBytes /\ MaxBytes \in Nat /\ MaxPart \in Nat
         /\ used \in Nat /\ used <= Limit /\ Limit \in Nat
         /\ reader[s].len \in Nat /\ reader[s].part.n \in 0 .. MaxPart
<1>1. reader[s] \in Readers /\ Bounded(reader[s]) /\ holding[s] \in Holdings  BY DEF Balanced
<1>2. MaxBytes \in Nat /\ MaxPart \in Nat /\ Limit \in Nat  BY SizesAssumption
<1>3. MaxOf(0, holding[s]) \in 0 .. MaxBytes  BY <1>1, <1>2 DEF Holdings, Nothing, MaxOf
<1>4. used \in Nat /\ used <= Limit  BY ChargesType DEF Balanced
<1>5. reader[s].part \in Parts \cup {NoPart}  BY <1>1 DEF Readers
<1>6. reader[s].part.n \in 0 .. MaxPart  BY <1>2, <1>5 DEF Parts, NoPart
<1> QED BY <1>1, <1>2, <1>3, <1>4, <1>6 DEF Readers

\* One step of a stream whose frame in Read stays.
LEMMA ReaderMoves ==
  ASSUME Balanced, NEW s \in Streams, NEW r \in Readers, Bounded(r),
         reader' = [reader EXCEPT ![s] = r], UNCHANGED holding, closed' \in SUBSET Streams,
         used' <= Limit, used' = used - (reader[s].cap + reader[s].next) + (r.cap + r.next)
  PROVE  Balanced'
<1>1. holding' = [holding EXCEPT ![s] = holding[s]]  BY DEF Balanced
<1>2. r.cap \in Nat /\ r.next \in Nat  BY DEF Readers
<1>3. used' = used - Charge(reader[s], holding[s]) + Charge(r, holding[s])
  BY <1>2, ChargeParts DEF Charge
<1> QED BY <1>1, <1>3, ChargeParts, OneStream

\* Dialing.
LEMMA BalancedDial == ASSUME Balanced, NEW s \in Streams, Dial(s) PROVE Balanced'
<1> DEFINE r == [reader[s] EXCEPT !.pc = "read"]
<1>1. reader' = [reader EXCEPT ![s] = r] /\ reader[s].pc = "idle"  BY DEF Dial, Balanced
<1>2. r \in Readers /\ r.cap = reader[s].cap /\ r.next = reader[s].next /\ r.len = reader[s].len
      /\ r.pc = "read" /\ r.failed = reader[s].failed
  BY ChargeParts DEF Readers, Phases
<1>3. Bounded(r)  BY <1>1, <1>2, ChargeParts DEF Bounded
<1> HIDE DEF r
<1>4. used' <= Limit /\ used' = used - (reader[s].cap + reader[s].next) + (r.cap + r.next)
  BY <1>2, ChargeParts DEF Dial
<1>5. UNCHANGED holding /\ closed' \in SUBSET Streams  BY DEF Dial, Balanced
<1> QED BY <1>1, <1>2, <1>3, <1>4, <1>5, ReaderMoves

\* A part arrives: the frame is dropped, its buffer is to grow, or it fits.
LEMMA BalancedReceive == ASSUME Balanced, NEW s \in Streams, Receive(s) PROVE Balanced'
<1> DEFINE r == reader[s]
<1>1. r.pc = "read" /\ r.next = 0 /\ ~ r.failed /\ r.len <= r.cap /\ UNCHANGED holding
      /\ closed' \in SUBSET Streams
  BY ChargeParts DEF Receive, Bounded, Balanced, Readers
<1>2. PICK part \in Parts : 
        LET needed == r.len + part.n
            size == GrownSize(r.cap, needed)
        IN
        \/ /\ release(r.cap)
           /\ reader' = [reader EXCEPT ![s] = Failed(r)]
        \/ /\ part.n <= MaxBytes - r.len
           /\ needed > r.cap
           /\ Acquirable(size)
           /\ used' = used + size
           /\ reader' = [reader EXCEPT ![s] =
                            [r EXCEPT !.pc = "swap", !.next = size, !.part = part]]
        \/ /\ part.n <= MaxBytes - r.len
           /\ needed <= r.cap
           /\ reader' = [reader EXCEPT ![s] = [r EXCEPT !.pc = "settle", !.part = part]]
           /\ UNCHANGED used
  BY DEF Receive
<1> DEFINE needed == r.len + part.n
<1> DEFINE size == GrownSize(r.cap, needed)
<1>3. part.n \in 0 .. MaxPart /\ needed \in Nat  BY ChargeParts DEF Parts
<1>4. CASE release(r.cap) /\ reader' = [reader EXCEPT ![s] = Failed(r)]
  <2>1. Failed(r) \in Readers /\ Bounded(Failed(r))  BY <1>1, ChargeParts, GivenUp
  <2>2. Failed(r).cap = 0 /\ Failed(r).next = r.next
    BY ChargeParts DEF Failed, Returned, Readers
  <2>3. used' <= Limit /\ used' = used - (r.cap + r.next) + (0 + r.next)
    BY <1>4, ChargeParts DEF release
  <2> QED BY <1>1, <1>4, <2>1, <2>2, <2>3, ReaderMoves
<1>5. CASE /\ part.n <= MaxBytes - r.len
           /\ needed > r.cap
           /\ Acquirable(size)
           /\ used' = used + size
           /\ reader' = [reader EXCEPT ![s] = [r EXCEPT !.pc = "swap", !.next = size, !.part = part]]
  <2>1. needed \in 0 .. MaxBytes  BY <1>3, <1>5, ChargeParts
  <2>2. size \in needed .. MaxBytes
    <3>1. r.cap \in Nat  BY ChargeParts
    <3> QED BY <2>1, <3>1, Grown
  <2> DEFINE q == [r EXCEPT !.pc = "swap", !.next = size, !.part = part]
  <2>3. size \in 0 .. MaxBytes /\ needed <= size
    <3> HIDE DEF size, needed
    <3> QED BY <2>1, <2>2
  <2> HIDE DEF size
  <2>4. q \in Readers  BY <2>3, ChargeParts DEF Readers, Phases
  <2>5. q.cap = r.cap /\ q.next = size /\ q.len = r.len /\ q.part = part /\ q.pc = "swap" /\ ~ q.failed
    BY <1>1, ChargeParts DEF Readers
  <2>6. reader' = [reader EXCEPT ![s] = q]  BY <1>5
  <2> HIDE DEF q
  <2>7. Bounded(q)  BY <1>1, <2>3, <2>5 DEF Bounded
  <2>8. used' <= Limit /\ used' = used - (r.cap + r.next) + (q.cap + q.next)
    BY <1>1, <1>5, <2>3, <2>5, ChargeParts DEF Acquirable
  <2> QED BY <1>1, <2>4, <2>6, <2>7, <2>8, ReaderMoves
<1>6. CASE /\ part.n <= MaxBytes - r.len
           /\ needed <= r.cap
           /\ reader' = [reader EXCEPT ![s] = [r EXCEPT !.pc = "settle", !.part = part]]
           /\ UNCHANGED used
  <2> DEFINE q == [r EXCEPT !.pc = "settle", !.part = part]
  <2>1. q \in Readers  BY ChargeParts DEF Readers, Phases
  <2>2. q.cap = r.cap /\ q.next = r.next /\ q.len = r.len /\ q.part = part /\ q.pc = "settle" /\ ~ q.failed
    BY <1>1, ChargeParts DEF Readers
  <2>3. reader' = [reader EXCEPT ![s] = q]  BY <1>6
  <2> HIDE DEF q
  <2>4. Bounded(q)  BY <1>1, <1>6, <2>2 DEF Bounded
  <2>5. used' <= Limit /\ used' = used - (r.cap + r.next) + (q.cap + q.next)
    BY <1>6, <2>2, ChargeParts
  <2> QED BY <1>1, <2>1, <2>3, <2>4, <2>5, ReaderMoves
<1> QED BY <1>2, <1>4, <1>5, <1>6

\* The replacement takes the place of the buffer.
LEMMA BalancedSwap == ASSUME Balanced, NEW s \in Streams, Swap(s) PROVE Balanced'
<1> DEFINE r == reader[s]
<1> DEFINE q == [r EXCEPT !.pc = "settle", !.cap = r.next, !.next = 0]
<1>1. r.pc = "swap" /\ reader' = [reader EXCEPT ![s] = q] /\ UNCHANGED holding
      /\ closed' \in SUBSET Streams /\ used' = used - r.cap
  BY DEF Swap, release, Balanced
<1>2. 0 \in 0 .. MaxBytes  BY ChargeParts
<1>3. q \in Readers  BY <1>2, ChargeParts DEF Readers, Phases
<1>4. q.cap = r.next /\ q.next = 0 /\ q.len = r.len /\ q.part = r.part /\ q.pc = "settle"
      /\ q.failed = r.failed
  BY ChargeParts DEF Readers
<1> HIDE DEF q
<1>5. r.len + r.part.n <= r.next /\ ~ r.failed  BY <1>1, ChargeParts DEF Bounded
<1>6. r.len \in Nat /\ r.part.n \in Nat /\ r.cap \in Nat /\ r.next \in Nat  BY ChargeParts
<1>7. Bounded(q)  BY <1>4, <1>5, <1>6 DEF Bounded
<1>8. used' <= Limit /\ used' = used - (r.cap + r.next) + (q.cap + q.next)
  BY <1>1, <1>4, ChargeParts
<1> QED BY <1>1, <1>3, <1>7, <1>8, ReaderMoves

\* The part settles: the frame ends, goes on, or is dropped.
LEMMA BalancedSettle == ASSUME Balanced, NEW s \in Streams, Settle(s) PROVE Balanced'
<1> DEFINE r == reader[s]
<1> DEFINE lineEmpty == r.lineEmpty /\ r.part.blank
<1> DEFINE grown == [r EXCEPT !.len = r.len + r.part.n, !.lineEmpty = lineEmpty]
<1> DEFINE on == [grown EXCEPT !.pc = "read", !.part = NoPart,
                               !.lineEmpty = lineEmpty \/ r.part.end = "line"]
<1>1. r.pc = "settle" /\ UNCHANGED holding /\ closed' \in SUBSET Streams  BY DEF Settle, Balanced
<1>2. \/ reader' = [reader EXCEPT ![s] = Returned(grown, FALSE)] /\ UNCHANGED used
      \/ reader' = [reader EXCEPT ![s] = on] /\ UNCHANGED used
      \/ release(r.cap) /\ reader' = [reader EXCEPT ![s] = Failed(r)]
  BY DEF Settle
<1>3. r.len \in Nat /\ r.part.n \in Nat /\ r.cap \in Nat /\ r.next = 0 /\ ~ r.failed
      /\ r.len + r.part.n <= r.cap /\ r \in Readers
  BY <1>1, ChargeParts DEF Bounded
<1>5. lineEmpty \in BOOLEAN /\ (lineEmpty \/ r.part.end = "line") \in BOOLEAN  OBVIOUS
<1> HIDE DEF lineEmpty
<1>6. grown \in Readers
  <2>1. [r EXCEPT !.len = r.len + r.part.n] \in Readers  BY <1>3 DEF Readers
  <2> QED BY <1>3, <1>5, <2>1 DEF Readers
<1>7. on \in Readers
  <2> DEFINE e == lineEmpty \/ r.part.end = "line"
  <2>1. e \in BOOLEAN  BY <1>5
  <2>2. on = [grown EXCEPT !.pc = "read", !.part = NoPart, !.lineEmpty = e]  OBVIOUS
  <2> HIDE DEF grown, on, e
  <2>3. [grown EXCEPT !.pc = "read", !.part = NoPart, !.lineEmpty = e] \in Readers
    BY <1>6, <2>1 DEF Readers, Phases
  <2> QED BY <2>2, <2>3
<1>8. /\ grown.len = r.len + r.part.n /\ grown.cap = r.cap /\ grown.next = r.next
      /\ on.len = r.len + r.part.n /\ on.cap = r.cap /\ on.next = r.next
      /\ on.pc = "read" /\ on.failed = r.failed
  BY <1>3 DEF Readers
<1> HIDE DEF grown
<1>9. CASE reader' = [reader EXCEPT ![s] = Returned(grown, FALSE)] /\ UNCHANGED used
  <2> DEFINE q == Returned(grown, FALSE)
  <2>1. q \in Readers /\ Bounded(q)  BY <1>3, <1>6, <1>8, Handed
  <2>2. q.cap = r.cap /\ q.next = r.next  BY <1>6, <1>8 DEF Returned, Readers
  <2> HIDE DEF q
  <2>3. used' <= Limit /\ used' = used - (r.cap + r.next) + (q.cap + q.next)
    BY <1>9, <2>2, ChargeParts
  <2>4. reader' = [reader EXCEPT ![s] = q]  BY <1>9 DEF q
  <2> QED BY <1>1, <2>1, <2>3, <2>4, ReaderMoves
<1>10. CASE reader' = [reader EXCEPT ![s] = on] /\ UNCHANGED used
  <2> HIDE DEF on
  <2>1. Bounded(on)  BY <1>3, <1>8 DEF Bounded
  <2>2. used' <= Limit /\ used' = used - (r.cap + r.next) + (on.cap + on.next)
    BY <1>8, <1>10, ChargeParts
  <2> QED BY <1>1, <1>7, <1>10, <2>1, <2>2, ReaderMoves
<1>11. CASE release(r.cap) /\ reader' = [reader EXCEPT ![s] = Failed(r)]
  <2>1. Failed(r) \in Readers /\ Bounded(Failed(r))  BY <1>1, ChargeParts, GivenUp
  <2>2. Failed(r).cap = 0 /\ Failed(r).next = r.next
    BY ChargeParts DEF Failed, Returned, Readers
  <2>3. used' <= Limit /\ used' = used - (r.cap + r.next) + (0 + r.next)
    BY <1>11, ChargeParts DEF release
  <2> QED BY <1>1, <1>11, <2>1, <2>2, <2>3, ReaderMoves
<1> QED BY <1>2, <1>9, <1>10, <1>11

\* A reader starts afresh: the first event is judged, or nobody takes the frame.
LEMMA BalancedFresh ==
  ASSUME Balanced, NEW s \in Streams, NEW stage \in {"handshake", "stream"}, NEW then \in Phases,
         then # "swap", reader[s].pc # "swap", release(reader[s].cap), UNCHANGED holding,
         reader' = [reader EXCEPT ![s] = Fresh(stage, then)], closed' \in SUBSET Streams
  PROVE  Balanced'
<1> DEFINE r == Fresh(stage, then)
<1>1. r \in Readers /\ Bounded(r) /\ r.cap = 0 /\ r.next = 0
  BY FreshOnes DEF Fresh
<1> HIDE DEF r
<1>2. used' <= Limit /\ used' = used - (reader[s].cap + reader[s].next) + (r.cap + r.next)
  BY <1>1, ChargeParts DEF release, Bounded
<1>3. reader' = [reader EXCEPT ![s] = r]  BY DEF r
<1> QED BY <1>1, <1>2, <1>3, ReaderMoves

\* The first event is judged.
LEMMA BalancedJudge == ASSUME Balanced, NEW s \in Streams, Judge(s) PROVE Balanced'
<1>1. reader[s].pc = "judge" /\ release(reader[s].cap) /\ UNCHANGED holding  BY DEF Judge
<1>2. closed' \in SUBSET Streams  BY DEF Judge, Balanced
<1>3. \E stage \in {"handshake", "stream"}, then \in Phases :
        then # "swap" /\ reader' = [reader EXCEPT ![s] = Fresh(stage, then)]
  <2>1. {"read", "gone"} \subseteq Phases  BY DEF Phases
  <2>2. CASE \E stage \in {"handshake", "stream"} :
               reader' = [reader EXCEPT ![s] = Fresh(stage, "read")]
    BY <2>1, <2>2
  <2>3. CASE reader' = [reader EXCEPT ![s] = Fresh("handshake", "gone")]
    BY <2>1, <2>3
  <2> QED BY <2>2, <2>3 DEF Judge
<1> QED BY <1>1, <1>2, <1>3, BalancedFresh

\* A closed stream's frame is not taken.
LEMMA BalancedWithdraw == ASSUME Balanced, NEW s \in Streams, Withdraw(s) PROVE Balanced'
<1>1. "gone" \in Phases  BY DEF Phases
<1>2. /\ reader[s].pc = "offer" /\ release(reader[s].cap) /\ UNCHANGED holding
      /\ reader' = [reader EXCEPT ![s] = Fresh("stream", "gone")] /\ closed' \in SUBSET Streams
  BY DEF Withdraw, Balanced
<1> QED BY <1>1, <1>2, BalancedFresh

\* Read takes the frame, its charge with it, or the error, which has none.
LEMMA BalancedTake == ASSUME Balanced, NEW s \in Streams, Take(s) PROVE Balanced'
<1> DEFINE r == reader[s]
<1> DEFINE q == Fresh("stream", IF r.failed THEN "gone" ELSE "read")
<1>1. r.pc = "offer" /\ holding[s] = Nothing /\ UNCHANGED used /\ r.next = 0
      /\ reader' = [reader EXCEPT ![s] = q] /\ r \in Readers /\ (r.failed => r.cap = 0)
  BY ChargeParts DEF Take, Bounded
<1>2. closed' \in SUBSET Streams  BY DEF Take, Balanced
<1>3. q \in Readers /\ Bounded(q) /\ q.cap = 0 /\ q.next = 0
  <2>1. {"gone", "read"} \subseteq Phases /\ r.failed \in BOOLEAN  BY <1>1 DEF Phases, Readers
  <2> QED BY <2>1, FreshOnes DEF Fresh
<1> DEFINE h == IF r.failed THEN Nothing ELSE r.cap
<1>4. holding' = [holding EXCEPT ![s] = h] /\ h \in Holdings
  BY <1>1, ChargeParts DEF Take, Holdings, Balanced
<1>5. MaxOf(0, h) = r.cap /\ MaxOf(0, holding[s]) = 0
  BY <1>1, ChargeParts DEF MaxOf, Nothing
<1> HIDE DEF q, h
<1>6. used' <= Limit /\ used' = used - Charge(reader[s], holding[s]) + Charge(q, h)
  BY <1>1, <1>3, <1>5, ChargeParts DEF Charge
<1> QED BY <1>1, <1>2, <1>3, <1>4, <1>6, OneStream

\* A decoded frame is given back.
LEMMA BalancedDecode == ASSUME Balanced, NEW s \in Streams, Decode(s) PROVE Balanced'
<1>1. /\ holding[s] # Nothing /\ used' = used - holding[s]
      /\ holding' = [holding EXCEPT ![s] = Nothing] /\ closed' \in SUBSET Streams
      /\ reader' = [reader EXCEPT ![s] = reader[s]]
  BY DEF Decode, release, Balanced
<1>2. holding[s] \in 0 .. MaxBytes /\ Nothing \in Holdings  BY <1>1, ChargeParts DEF Holdings
<1>3. MaxOf(0, holding[s]) = holding[s] /\ MaxOf(0, Nothing) = 0
  BY <1>2, ChargeParts DEF MaxOf, Nothing
<1>4. used' <= Limit
      /\ used' = used - Charge(reader[s], holding[s]) + Charge(reader[s], Nothing)
  BY <1>1, <1>2, <1>3, ChargeParts DEF Charge
<1> QED BY <1>1, <1>2, <1>4, ChargeParts, OneStream

\* Closing, and standing still.
LEMMA BalancedRest ==
  ASSUME Balanced, UNCHANGED <<used, reader, holding>>, closed' \in SUBSET Streams
  PROVE  Balanced'
<1>1. charges' = charges  BY DEF charges, Charged
<1> QED BY <1>1 DEF Balanced, Bounded

\* Every step keeps the balance.
LEMMA BalancedNext == ASSUME Balanced, [Next]_vars PROVE Balanced'
<1>1. CASE UNCHANGED vars  BY <1>1, BalancedRest DEF vars, Balanced
<1>2. ASSUME NEW s \in Streams, Dial(s) \/ ReaderStep(s) \/ Take(s) \/ Decode(s) \/ Close(s)
      PROVE  Balanced'
  <2>1. CASE Close(s)  BY <2>1, BalancedRest DEF Close, Balanced
  <2> QED BY <1>2, <2>1, BalancedDial, BalancedReceive, BalancedSwap, BalancedSettle, BalancedJudge,
             BalancedWithdraw, BalancedTake, BalancedDecode
          DEF ReaderStep
<1> QED BY <1>1, <1>2 DEF Next

-----------------------------------------------------------------------------
(* The sum the model takes. *)

\* What the streams are charged with sums up to the units of their charges.
LEMMA SumCounts ==
  ASSUME Balanced
  PROVE  MapThenSumSet(Charged, Streams) = SumOf(charges, Streams)
<1> DEFINE Step(f) ==
      f = [T \in SUBSET Streams |->
             IF T = {} THEN 0
             ELSE Charged(CHOOSE x \in T : TRUE) + f[T \ {CHOOSE x \in T : TRUE}]]
<1>1. \A f : Step(f) <=> SumStep(charges, Streams, f)
  <2>1. \A T \in SUBSET Streams : T # {} =>
          charges[CHOOSE x \in T : TRUE] = Charged(CHOOSE x \in T : TRUE)
    BY DEF charges
  <2> QED BY <2>1 DEF SumStep
<1>2. IsFiniteSet(Streams) /\ \A s \in Streams : charges[s] \in Nat
  <2>1. charges \in [Streams -> 0 .. (3 * MaxBytes)] /\ 3 * MaxBytes \in Nat  BY ChargesType
  <2>2. \A s \in Streams : charges[s] \in 0 .. (3 * MaxBytes)  BY <2>1
  <2> QED BY <2>1, <2>2, ChargesType
<1>3. \E f : Step(f)
  <2>1. SumStep(charges, Streams, [T \in SUBSET Streams |-> SumOf(charges, T)])
    BY <1>2, SumExists
  <2> DEFINE c == [T \in SUBSET Streams |-> SumOf(charges, T)]
  <2>2. SumStep(charges, Streams, c)  BY <2>1
  <2> HIDE DEF c, Step
  <2>3. Step(c)  BY <1>1, <2>2
  <2> QED BY <2>3
<1>4. Step(CHOOSE f : Step(f))
  <2> HIDE DEF Step
  <2> QED BY <1>3
<1>5. (CHOOSE f : Step(f))[Streams] = SumOf(charges, Streams)
  <2> HIDE DEF Step
  <2> QED BY <1>1, <1>2, <1>4, SumUnique
<1>6. MapThenSumSet(Charged, Streams) = (CHOOSE f : Step(f))[Streams]
  BY DEF MapThenSumSet, MapThenFoldSet
<1> QED BY <1>5, <1>6

\* In a balanced state the types hold and the budget is what the buffers hold.
LEMMA BalancedKept == ASSUME Balanced PROVE BudgetKept
<1>1. BudgetExact  BY SumCounts DEF BudgetExact, Balanced
<1>2. used \in 0 .. Limit
  <2>1. used \in Nat /\ used <= Limit /\ Limit \in Nat  BY ChargesType, SizesAssumption DEF Balanced
  <2> QED BY <2>1
<1>3. ASSUME NEW s \in Streams
      PROVE  LET r == reader[s] IN
             /\ r.pc \in Phases /\ r.stage \in {"handshake", "stream"}
             /\ r.cap \in 0..MaxBytes /\ r.next \in 0..MaxBytes /\ r.len \in 0..r.cap
             /\ r.part \in Parts \cup {NoPart}
  <2>1. reader[s] \in Readers /\ Bounded(reader[s]) /\ reader[s].cap \in Nat  BY ChargeParts
  <2>2. reader[s].len \in 0 .. reader[s].cap  BY <2>1 DEF Readers, Bounded
  <2> QED BY <2>1, <2>2 DEF Readers
<1>4. TypeOK  BY <1>2, <1>3 DEF TypeOK, Balanced, Holdings
<1> QED BY <1>1, <1>4 DEF BudgetKept

\* However the streams take turns, and however each frame ends, the buffers stay within one
\* frame's bound and the shared budget is the capacity of the buffers that are live.
THEOREM BudgetBalances == Spec => []BudgetKept
<1>1. Init => Balanced  BY BalancedInit
<1>2. Balanced /\ [Next]_vars => Balanced'  BY BalancedNext
<1>3. Balanced => BudgetKept  BY BalancedKept
<1> QED BY <1>1, <1>2, <1>3, PTL DEF Spec

-----------------------------------------------------------------------------
(* The stdio transport. *)

\* The messages of the first k values.
Sent(values, k) == S!FlattenSeq([i \in 1 .. k |-> values[i].msgs])

\* What is true of every value that clients send.
LEMMA ValueShape ==
  ASSUME NEW v \in S!Values
  PROVE  /\ v.size \in Nat /\ v.msgs \in Seq(S!Messages)
         /\ v.kind \in {"scalar", "single", "refused", "batch"}
         /\ v.kind \in {"scalar", "single"} => Len(v.msgs) = 1 /\ v.msgs[1].kind # "bad"
         /\ v.kind = "batch" => v.msgs # <<>>
<1> DEFINE M == Seq(S!Messages)
<1>1. v \in [size : Nat, kind : {"scalar", "single", "refused", "batch"}, msgs : M]  BY DEF S!Values
<1>2. /\ v.kind \in {"scalar", "single"} => Len(v.msgs) = 1 /\ v.msgs[1].kind # "bad"
      /\ v.kind = "batch" => v.msgs # <<>>
  BY DEF S!Values
<1> HIDE DEF M
<1>3. v.size \in Nat /\ v.msgs \in M /\ v.kind \in {"scalar", "single", "refused", "batch"}  BY <1>1
<1> QED BY <1>2, <1>3 DEF M

\* One more value adds its messages.
LEMMA SentGrows ==
  ASSUME input \in Seq(S!Values)
  PROVE  /\ Sent(input, 0) = <<>>
         /\ \A k \in 0 .. Len(input) : Sent(input, k) \in Seq(S!Messages)
         /\ \A k \in 0 .. Len(input) - 1 : Sent(input, k + 1) = Sent(input, k) \o input[k + 1].msgs
<1> DEFINE n == Len(input)
<1> DEFINE M == S!Messages
<1> DEFINE s == [i \in 1 .. n |-> input[i].msgs]
<1>1. n \in Nat /\ Links(s, n, M)
  <2>1. n \in Nat /\ \A i \in 1 .. n : input[i] \in S!Values  OBVIOUS
  <2>2. \A i \in 1 .. n : s[i] \in Seq(M)  BY <2>1, ValueShape
  <2> QED BY <2>1, <2>2 DEF Links
<1>2. ASSUME NEW k \in 0 .. n PROVE Sent(input, k) = FlatFirst(s, k)
  <2>1. [i \in 1 .. k |-> input[i].msgs] = [i \in 1 .. k |-> s[i]]  OBVIOUS
  <2> DEFINE t == [i \in 1 .. k |-> s[i]]
  <2>2. S!FlattenSeq(t) = Flat(t)
    <3> HIDE DEF t
    <3> QED BY DEF Flat, Chained, S!FlattenSeq
  <2> HIDE DEF s
  <2> QED BY <2>1, <2>2 DEF Sent, FlatFirst
<1>3. \A k \in 0 .. n - 1 : s[k + 1] = input[k + 1].msgs
  <2>1. \A k \in 0 .. n - 1 : k + 1 \in 1 .. n  BY <1>1
  <2> QED BY <2>1
<1> HIDE DEF s, n, M
<1>4. /\ FlatFirst(s, 0) = <<>>
      /\ \A k \in 0 .. n : FlatFirst(s, k) \in Seq(M)
      /\ \A k \in 0 .. n - 1 : FlatFirst(s, k + 1) = FlatFirst(s, k) \o s[k + 1]
  BY <1>1, FlatGrows
<1>5. 0 \in 0 .. n /\ \A k \in 0 .. n - 1 : k \in 0 .. n /\ k + 1 \in 0 .. n  BY <1>1
<1> QED BY <1>2, <1>3, <1>4, <1>5 DEF n, M

\* The first k values have no broken one among them, and d is what they hold.
Kept(values, d, k) == (\A j \in 1 .. k : ~S!Broken(values[j])) /\ d = Sent(values, k)

\* Every message before the first broken value is expected, and no other.
LEMMA Expectation ==
  ASSUME input \in Seq(S!Values), NEW k \in 0 .. Len(input), \A j \in 1 .. k : ~S!Broken(input[j])
  PROVE  /\ S!Expected \in Seq(S!Messages) /\ Begins(Sent(input, k), S!Expected)
         /\ k = Len(input) \/ S!Broken(input[k + 1]) => S!Expected = Sent(input, k)
<1> DEFINE n == Len(input)
<1> DEFINE bad == {i \in 1 .. n : S!Broken(input[i])}
<1>1. n \in Nat /\ k \in 0 .. n  OBVIOUS
<1>2. PICK m \in 0 .. n : /\ \A j \in 1 .. m : ~S!Broken(input[j])
                          /\ m = n \/ S!Broken(input[m + 1])
  <2>1. CASE bad = {}
    <3>1. \A j \in 1 .. n : ~S!Broken(input[j])  BY <2>1
    <3> QED BY <1>1, <3>1
  <2>2. CASE bad # {}
    <3>1. bad \in SUBSET Nat  OBVIOUS
    <3>2. PICK b \in bad : \A i \in bad : b <= i
      <4> HIDE DEF bad
      <4> QED BY <2>2, <3>1, Least
    <3>3. b \in 1 .. n /\ S!Broken(input[b])  OBVIOUS
    <3>4. \A j \in 1 .. b - 1 : ~S!Broken(input[j])
      <4> SUFFICES ASSUME NEW j \in 1 .. b - 1, S!Broken(input[j]) PROVE FALSE  OBVIOUS
      <4>1. j \in bad /\ ~(b <= j)  BY <3>3
      <4> HIDE DEF bad
      <4> QED BY <3>2, <4>1
    <3>5. b - 1 \in 0 .. n /\ (b - 1) + 1 = b  BY <3>3
    <3> QED BY <3>3, <3>4, <3>5
  <2> QED BY <2>1, <2>2
<1>3. S!Sound = 1 .. m
  <2>1. DOMAIN input = 1 .. n  OBVIOUS
  <2>2. ASSUME NEW i \in 1 .. m PROVE i \in S!Sound
    <3>1. i \in 1 .. n /\ \A j \in 1 .. i : j \in 1 .. m  OBVIOUS
    <3> QED BY <1>2, <2>1, <3>1 DEF S!Sound
  <2>3. ASSUME NEW i \in S!Sound PROVE i \in 1 .. m
    <3>1. i \in 1 .. n /\ \A j \in 1 .. i : ~S!Broken(input[j])  BY <2>1 DEF S!Sound
    <3>2. ~(i > m)
      <4> SUFFICES ASSUME i > m PROVE FALSE  OBVIOUS
      <4>1. m + 1 \in 1 .. i /\ m # n  BY <3>1
      <4> QED BY <1>2, <3>1, <4>1
    <3> QED BY <3>1, <3>2
  <2> QED BY <2>2, <2>3
<1>4. Cardinality(1 .. m) = m
  <2>1. m \in Nat /\ m \in Int /\ 1 \in Int  OBVIOUS
  <2> QED BY <2>1, FS_Interval
<1>5. S!Expected = Sent(input, m)  BY <1>3, <1>4 DEF S!Expected, Sent, S!Cardinality, Cardinality
<1>6. k <= m
  <2> SUFFICES ASSUME k > m PROVE FALSE  OBVIOUS
  <2>1. m + 1 \in 1 .. k /\ m # n  OBVIOUS
  <2> QED BY <1>2, <2>1
<1>7. Begins(Sent(input, k), Sent(input, m))
  <2> DEFINE F == {i \in 0 .. m - k : Begins(Sent(input, k), Sent(input, k + i))}
  <2>1. 0 \in F
    <3>1. Sent(input, k) \in Seq(S!Messages)  BY SentGrows
    <3>2. 0 \in 0 .. m - k /\ k + 0 = k  BY <1>6
    <3>3. Begins(Sent(input, k), Sent(input, k))  BY <3>1 DEF Begins
    <3> QED BY <3>2, <3>3
  <2>2. ASSUME NEW i \in 0 .. (m - k) - 1, i \in F PROVE i + 1 \in F
    <3> DEFINE j == k + i
    <3>1. /\ j \in 0 .. n - 1 /\ j \in 0 .. n /\ j + 1 \in 1 .. n
          /\ k + (i + 1) = j + 1 /\ i + 1 \in 0 .. m - k /\ Begins(Sent(input, k), Sent(input, j))
      BY <1>6, <2>2
    <3> HIDE DEF j
    <3> DEFINE K == Sent(input, k)
    <3> DEFINE A == Sent(input, j)
    <3> DEFINE B == Sent(input, j + 1)
    <3> DEFINE v == input[j + 1]
    <3>2. v \in S!Values /\ B = A \o v.msgs
      <4>1. v \in S!Values  BY <3>1
      <4> QED BY <3>1, <4>1, SentGrows
    <3>3. K \in Seq(S!Messages) /\ A \in Seq(S!Messages)  BY <3>1, SentGrows
    <3>4. Begins(K, A)  BY <3>1
    <3> HIDE DEF K, A, B, v
    <3>5. v.msgs \in Seq(S!Messages)  BY <3>2, ValueShape
    <3>6. B \in Seq(S!Messages)  BY <3>2, <3>3, <3>5
    <3>7. Begins(A, B)  BY <3>2, <3>3, <3>5, BeginsOn
    <3>8. Begins(K, B)  BY <3>3, <3>4, <3>6, <3>7, BeginsOn
    <3> QED BY <3>1, <3>8 DEF K, B
  <2>3. \A i \in 0 .. m - k : i \in F
    <3>1. m - k \in Nat  BY <1>6
    <3> HIDE DEF F
    <3> QED BY <2>1, <2>2, <3>1, UpTo
  <2>4. m - k \in 0 .. m - k /\ k + (m - k) = m  BY <1>6
  <2>5. m - k \in F
    <3> HIDE DEF F
    <3> QED BY <2>3, <2>4
  <2> QED BY <2>4, <2>5
<1>8. k = n \/ S!Broken(input[k + 1]) => k = m
  <2> SUFFICES ASSUME k # m, k = n \/ S!Broken(input[k + 1]) PROVE FALSE  OBVIOUS
  <2>1. k < m /\ k # n /\ k + 1 \in 1 .. m  BY <1>6
  <2> QED BY <1>2, <2>1
<1>9. Sent(input, m) \in Seq(S!Messages)  BY SentGrows
<1> QED BY <1>5, <1>7, <1>8, <1>9

\* r has the messages of s that the SDK tracks, in their order: h[k] is the place in s of
\* the k-th.
Locates(h, r, s) ==
  /\ h \in [1 .. Len(r) -> 1 .. Len(s)]
  /\ \A i, j \in 1 .. Len(r) : i < j => h[i] < h[j]
  /\ \A k \in 1 .. Len(r) : r[k] = s[h[k]] /\ S!TrackedBySDK(s[h[k]])
  /\ \A i \in 1 .. Len(s) : S!TrackedBySDK(s[i]) => \E k \in 1 .. Len(r) : h[k] = i

Lists(r, s) == \E h : Locates(h, r, s)

\* What goes to the SDK lists the batch.
LEMMA TrackedListed ==
  ASSUME NEW s \in Seq(S!Messages)
  PROVE  S!Tracked(s) \in Seq(S!Messages) /\ Lists(S!Tracked(s), s)
<1> DEFINE n == Len(s)
<1> DEFINE ids == {i \in DOMAIN s : S!TrackedBySDK(s[i])}
<1> DEFINE c == Cardinality(ids)
<1> DEFINE R == {x \in ids \X ids : x[1] <= x[2]}
<1> DEFINE e == [k \in 1 .. c |-> CHOOSE p \in ids : Cardinality(Before(ids, R, p)) = k]
<1> DEFINE Rising(p) == \A i, j \in DOMAIN p : i < j => p[i] < p[j]
<1> DEFINE place == CHOOSE p \in [1 .. c -> ids] : Rising(p)
<1>1. n \in Nat /\ DOMAIN s = 1 .. n /\ ids \in SUBSET (1 .. n) /\ \A i \in ids : i \in Nat  OBVIOUS
<1>2. IsFiniteSet(ids) /\ c \in Nat
  <2>1. IsFiniteSet(1 .. n)  BY <1>1, FS_Interval
  <2> HIDE DEF ids
  <2> QED BY <1>1, <2>1, FS_Subset, FS_CardinalityType
<1>3. \A p, q \in ids : <<p, q>> \in R <=> p <= q  OBVIOUS
<1>4. S!Tracked(s) = [k \in DOMAIN place |-> s[place[k]]]
  BY DEF S!Tracked, S!Cardinality, Cardinality
<1>5. \A i \in 1 .. n : i \in ids <=> S!TrackedBySDK(s[i])  BY <1>1
<1> HIDE DEF ids, R
<1>6. e \in [1 .. c -> ids] /\ Rising(e)
  <2>1. Ordering(ids, R)  BY <1>1, <1>3 DEF Ordering
  <2>2. Ranked(ids, R, e)
    <3> SUFFICES ASSUME NEW k \in 1 .. c, \E p \in ids : Cardinality(Before(ids, R, p)) = k
                 PROVE  e[k] \in ids /\ Cardinality(Before(ids, R, e[k])) = k
      BY DEF Ranked
    <3> QED OBVIOUS
  <2>3. DOMAIN e = 1 .. c /\ e = [k \in 1 .. c |-> e[k]]  OBVIOUS
  <2> HIDE DEF e
  <2>4. InLine(ids, R, e)  BY <1>2, <2>1, <2>2, LinedUp
  <2>5. \A k \in 1 .. c : e[k] \in ids  BY <2>4 DEF InLine
  <2>6. \A i, j \in 1 .. c : i < j => e[i] < e[j]
    <3> SUFFICES ASSUME NEW i \in 1 .. c, NEW j \in 1 .. c, i < j PROVE e[i] < e[j]  OBVIOUS
    <3>1. e[i] # e[j] /\ <<e[i], e[j]>> \in R  BY <2>4 DEF InLine
    <3>2. e[i] <= e[j] /\ e[i] \in Nat /\ e[j] \in Nat  BY <1>1, <1>3, <2>5, <3>1
    <3> QED BY <3>1, <3>2
  <2> QED BY <2>3, <2>5, <2>6
<1>7. place \in [1 .. c -> ids] /\ Rising(place)
  <2> HIDE DEF e
  <2> QED BY <1>6
<1> HIDE DEF e, place
<1>8. \A p \in ids : \E k \in 1 .. c : place[k] = p
  <2>1. \A i, j \in 1 .. c : place[i] = place[j] => i = j
    <3> SUFFICES ASSUME NEW i \in 1 .. c, NEW j \in 1 .. c, i # j PROVE place[i] # place[j]  OBVIOUS
    <3>1. place[i] \in Nat /\ place[j] \in Nat  BY <1>1, <1>7
    <3>2. i < j \/ j < i  BY <1>2
    <3> QED BY <1>7, <3>1, <3>2
  <2>2. place \in Injection(1 .. c, ids)
    <3> HIDE DEF c
    <3> QED BY <1>7, <2>1 DEF Injection, IsInjective
  <2>3. IsFiniteSet(1 .. c) /\ Cardinality(1 .. c) = c
    <3>1. c \in Int /\ 1 \in Int  BY <1>2
    <3> HIDE DEF c
    <3> QED BY <1>2, <3>1, FS_Interval
  <2>4. place \in Surjection(1 .. c, ids)  BY <1>2, <2>2, <2>3, FS_Injection
  <2> HIDE DEF c
  <2> QED BY <2>4 DEF Surjection
<1> DEFINE r == S!Tracked(s)
<1>9. r \in Seq(S!Messages) /\ Len(r) = c /\ \A k \in 1 .. c : r[k] = s[place[k]]
  <2> HIDE DEF c
  <2>1. r = [k \in 1 .. c |-> s[place[k]]]  BY <1>4, <1>7
  <2>2. \A k \in 1 .. c : place[k] \in 1 .. n  BY <1>1, <1>7
  <2>3. \A k \in 1 .. c : s[place[k]] \in S!Messages  BY <2>2
  <2> QED BY <1>2, <2>1, <2>3
<1>10. Locates(place, r, s)
  <2> HIDE DEF r, c
  <2>1. place \in [1 .. c -> 1 .. n]  BY <1>1, <1>7
  <2>2. \A i, j \in 1 .. c : i < j => place[i] < place[j]  BY <1>7
  <2>3. \A k \in 1 .. c : r[k] = s[place[k]] /\ S!TrackedBySDK(s[place[k]])
    BY <1>5, <1>7, <1>9, <2>1
  <2>4. \A i \in 1 .. n : S!TrackedBySDK(s[i]) => \E k \in 1 .. c : place[k] = i  BY <1>5, <1>8
  <2> QED BY <1>9, <2>1, <2>2, <2>3, <2>4 DEF Locates
<1> QED BY <1>9, <1>10 DEF Lists

\* A message that the SDK does not track goes by.
LEMMA NoteGoesBy ==
  ASSUME NEW r \in Seq(S!Messages), NEW s \in Seq(S!Messages), Lists(r, s), s # <<>>,
         ~S!TrackedBySDK(Head(s))
  PROVE  Lists(r, Tail(s))
<1> DEFINE n == Len(s)
<1> DEFINE c == Len(r)
<1> DEFINE t == Tail(s)
<1>1. n \in Nat \ {0} /\ Len(t) = n - 1 /\ Head(s) = s[1] /\ \A i \in 1 .. n - 1 : t[i] = s[i + 1]
  BY HeadMoves
<1>2. PICK h : Locates(h, r, s)  BY DEF Lists
<1> DEFINE g == [k \in 1 .. c |-> h[k] - 1]
<1> HIDE DEF t
<1>3. c \in Nat /\ \A k \in 1 .. c : h[k] \in 1 .. n /\ h[k] # 1 /\ r[k] = s[h[k]] /\ S!TrackedBySDK(s[h[k]])
  BY <1>1, <1>2 DEF Locates
<1>4. \A k \in 1 .. c : g[k] \in 1 .. n - 1 /\ g[k] + 1 = h[k] /\ r[k] = t[g[k]] /\ S!TrackedBySDK(t[g[k]])
  <2> SUFFICES ASSUME NEW k \in 1 .. c
               PROVE  g[k] \in 1 .. n - 1 /\ g[k] + 1 = h[k] /\ r[k] = t[g[k]] /\ S!TrackedBySDK(t[g[k]])
    OBVIOUS
  <2>1. g[k] \in 1 .. n - 1 /\ g[k] + 1 = h[k]  BY <1>1, <1>3
  <2>2. t[g[k]] = s[g[k] + 1]  BY <1>1, <2>1
  <2> QED BY <1>3, <2>1, <2>2
<1>5. \A i, j \in 1 .. c : i < j => g[i] < g[j]
  <2> SUFFICES ASSUME NEW i \in 1 .. c, NEW j \in 1 .. c, i < j PROVE g[i] < g[j]  OBVIOUS
  <2>1. h[i] < h[j] /\ h[i] \in Nat /\ h[j] \in Nat  BY <1>1, <1>2, <1>3 DEF Locates
  <2> QED BY <2>1
<1>6. \A i \in 1 .. n - 1 : S!TrackedBySDK(t[i]) => \E k \in 1 .. c : g[k] = i
  <2> SUFFICES ASSUME NEW i \in 1 .. n - 1, S!TrackedBySDK(t[i]) PROVE \E k \in 1 .. c : g[k] = i  OBVIOUS
  <2>1. i + 1 \in 1 .. n /\ t[i] = s[i + 1]  BY <1>1
  <2>2. PICK k \in 1 .. c : h[k] = i + 1  BY <1>2, <2>1 DEF Locates
  <2>3. g[k] = i  BY <2>2
  <2> QED BY <2>3
<1>7. g \in [1 .. c -> 1 .. n - 1]  BY <1>4
<1> HIDE DEF g
<1>8. Locates(g, r, t)  BY <1>1, <1>4, <1>5, <1>6, <1>7 DEF Locates
<1> QED BY <1>8 DEF Lists, t

\* A message that it tracks is the first that it has.
LEMMA TrackedIsFirst ==
  ASSUME NEW r \in Seq(S!Messages), NEW s \in Seq(S!Messages), Lists(r, s), s # <<>>,
         S!TrackedBySDK(Head(s))
  PROVE  r # <<>> /\ Head(r) = Head(s) /\ Lists(Tail(r), Tail(s))
<1> DEFINE n == Len(s)
<1> DEFINE c == Len(r)
<1> DEFINE t == Tail(s)
<1> DEFINE q == Tail(r)
<1>1. n \in Nat \ {0} /\ Len(t) = n - 1 /\ Head(s) = s[1] /\ \A i \in 1 .. n - 1 : t[i] = s[i + 1]
  BY HeadMoves
<1>2. PICK h : Locates(h, r, s)  BY DEF Lists
<1>3. c \in Nat /\ \A k \in 1 .. c : h[k] \in 1 .. n /\ r[k] = s[h[k]] /\ S!TrackedBySDK(s[h[k]])
  BY <1>1, <1>2 DEF Locates
<1>4. 1 \in 1 .. c /\ h[1] = 1
  <2>1. 1 \in 1 .. n /\ S!TrackedBySDK(s[1])  BY <1>1
  <2>2. PICK k \in 1 .. c : h[k] = 1  BY <1>2, <2>1 DEF Locates
  <2>3. 1 \in 1 .. c  BY <1>3, <2>2
  <2>4. k = 1
    <3> SUFFICES ASSUME k # 1 PROVE FALSE  OBVIOUS
    <3>1. 1 < k  BY <1>3, <2>2
    <3>2. h[1] < h[k] /\ h[1] \in Nat /\ h[1] # 0  BY <1>1, <1>2, <1>3, <2>3, <3>1 DEF Locates
    <3> QED BY <2>2, <3>2
  <2> QED BY <2>2, <2>3, <2>4
<1>5. r # <<>>  BY <1>4
<1>6. c \in Nat \ {0} /\ Len(q) = c - 1 /\ Head(r) = r[1] /\ \A i \in 1 .. c - 1 : q[i] = r[i + 1]
  BY <1>5, HeadMoves
<1>7. Head(r) = Head(s)  BY <1>1, <1>3, <1>4, <1>6
<1> DEFINE g == [k \in 1 .. c - 1 |-> h[k + 1] - 1]
<1> HIDE DEF t, q
<1>8. ASSUME NEW k \in 1 .. c - 1
      PROVE  /\ k + 1 \in 1 .. c /\ g[k] \in 1 .. n - 1 /\ g[k] + 1 = h[k + 1]
             /\ q[k] = t[g[k]] /\ S!TrackedBySDK(t[g[k]])
  <2>1. k + 1 \in 1 .. c /\ 1 < k + 1  BY <1>6
  <2>2. h[1] < h[k + 1] /\ h[k + 1] \in 1 .. n  BY <1>2, <1>3, <1>4, <2>1 DEF Locates
  <2>3. g[k] = h[k + 1] - 1  OBVIOUS
  <2>4. g[k] \in 1 .. n - 1 /\ g[k] + 1 = h[k + 1]  BY <1>1, <1>4, <2>2, <2>3
  <2>5. t[g[k]] = s[g[k] + 1] /\ q[k] = r[k + 1]  BY <1>1, <1>6, <2>4
  <2> QED BY <1>3, <2>1, <2>4, <2>5
<1>9. \A i, j \in 1 .. c - 1 : i < j => g[i] < g[j]
  <2> SUFFICES ASSUME NEW i \in 1 .. c - 1, NEW j \in 1 .. c - 1, i < j PROVE g[i] < g[j]  OBVIOUS
  <2>1. i + 1 \in 1 .. c /\ j + 1 \in 1 .. c /\ i + 1 < j + 1  BY <1>6
  <2>2. h[i + 1] < h[j + 1] /\ h[i + 1] \in Nat /\ h[j + 1] \in Nat  BY <1>1, <1>2, <1>3, <2>1 DEF Locates
  <2> QED BY <2>2
<1>10. \A i \in 1 .. n - 1 : S!TrackedBySDK(t[i]) => \E k \in 1 .. c - 1 : g[k] = i
  <2> SUFFICES ASSUME NEW i \in 1 .. n - 1, S!TrackedBySDK(t[i]) PROVE \E k \in 1 .. c - 1 : g[k] = i  OBVIOUS
  <2>1. i + 1 \in 1 .. n /\ i + 1 # 1 /\ t[i] = s[i + 1]  BY <1>1
  <2>2. PICK k \in 1 .. c : h[k] = i + 1  BY <1>2, <2>1 DEF Locates
  <2>3. k # 1  BY <1>4, <2>1, <2>2
  <2>4. k - 1 \in 1 .. c - 1 /\ (k - 1) + 1 = k  BY <1>6, <2>3
  <2>5. g[k - 1] = i  BY <2>2, <2>4
  <2> QED BY <2>4, <2>5
<1>11. g \in [1 .. c - 1 -> 1 .. n - 1]
  <2>1. \A k \in 1 .. c - 1 : g[k] \in 1 .. n - 1  BY <1>8
  <2>2. g = [k \in 1 .. c - 1 |-> g[k]]  OBVIOUS
  <2> HIDE DEF g
  <2> QED BY <2>1, <2>2
<1> HIDE DEF g
<1>12. Locates(g, q, t)  BY <1>1, <1>6, <1>8, <1>9, <1>10, <1>11 DEF Locates
<1> QED BY <1>5, <1>7, <1>12 DEF Lists, t, q

\* Nothing is tracked of nothing.
LEMMA NothingListed ==
  ASSUME NEW r \in Seq(S!Messages), Lists(r, <<>>)
  PROVE  r = <<>>
<1>1. PICK h : Locates(h, r, <<>>)  BY DEF Lists
<1>2. 1 .. Len(r) = {}
  <2> SUFFICES ASSUME NEW k \in 1 .. Len(r) PROVE FALSE  OBVIOUS
  <2>1. h[k] \in 1 .. 0  BY <1>1 DEF Locates
  <2> QED BY <2>1
<1>3. Len(r) = 0
  <2> SUFFICES ASSUME Len(r) # 0 PROVE FALSE  OBVIOUS
  <2>1. Len(r) \in Nat /\ Len(r) # 0  OBVIOUS
  <2>2. 1 \in 1 .. Len(r)  BY <2>1
  <2> QED BY <1>2, <2>2
<1> QED BY <1>3

\* Nor is anything of nothing missing.
LEMMA NothingLists == Lists(<<>>, <<>>)
<1>1. Locates(<<>>, <<>>, <<>>)
  <2>1. 1 .. 0 = {} /\ Len(<<>>) = 0  OBVIOUS
  <2>2. <<>> \in [1 .. 0 -> 1 .. 0]  BY <2>1
  <2> QED BY <2>1, <2>2 DEF Locates
<1> QED BY <1>1 DEF Lists

\* The first values and what follows take part of all the bytes.
LEMMA BytesAdd ==
  ASSUME input \in Seq(S!Values)
  PROVE  /\ SumOf(S!Sizes, 1 .. 0) = 0 /\ S!Total \in Nat
         /\ \A k \in 1 .. Len(input) + 1 : SumOf(S!Sizes, 1 .. k - 1) \in Nat
         /\ \A k \in 1 .. Len(input) :
               /\ SumOf(S!Sizes, 1 .. k) = SumOf(S!Sizes, 1 .. k - 1) + input[k].size
               /\ SumOf(S!Sizes, 1 .. k) <= S!Total
<1> DEFINE D == DOMAIN input
<1> DEFINE z == S!Sizes
<1> DEFINE n == Len(input)
<1>1. n \in Nat /\ D = 1 .. n /\ \A k \in D : z[k] = input[k].size /\ z[k] \in Nat
  <2>1. \A k \in D : input[k] \in S!Values  OBVIOUS
  <2> QED BY <2>1, ValueShape DEF S!Sizes
<1>2. IsFiniteSet(D)  BY <1>1, FS_Interval
<1>3. S!Total = SumOf(z, D)
  <2>1. S!Total = S!SumOver(z, D)  BY DEF S!Total
  <2> HIDE DEF z, D
  <2>2. S!SumOver(z, D) = MapThenSumSet(LAMBDA k : z[k], D)
    BY DEF S!SumOver, S!MapThenSumSet, S!MapThenFoldSet, MapThenSumSet, MapThenFoldSet
  <2> QED BY <1>1, <1>2, <2>1, <2>2, SumTaken
<1>4. SumOf(z, 1 .. 0) = 0
  <2>1. 1 .. 0 = {}  OBVIOUS
  <2> QED BY <2>1, SumOfNone
<1> HIDE DEF z, D
<1>5. \A T \in SUBSET D : SumOf(z, T) \in Nat /\ SumOf(z, T) <= SumOf(z, D)
  <2> SUFFICES ASSUME NEW T \in SUBSET D PROVE SumOf(z, T) \in Nat /\ SumOf(z, T) <= SumOf(z, D)  OBVIOUS
  <2>1. /\ SumOf(z, D) = SumOf(z, T) + SumOf(z, D \ T) /\ SumOf(z, T) \in Nat /\ SumOf(z, D \ T) \in Nat
    BY <1>1, <1>2, SumSplit, ZenonT(40)
  <2> QED BY <2>1
<1>6. ASSUME NEW k \in 1 .. n
      PROVE  SumOf(z, 1 .. k) = SumOf(z, 1 .. k - 1) + input[k].size
  <2> DEFINE T == 1 .. k - 1
  <2>1. T \in SUBSET D /\ k \in D /\ k \notin T /\ 1 .. k = T \cup {k}  BY <1>1
  <2> HIDE DEF T
  <2>2. SumOf(z, T \cup {k}) = SumOf(z, T) + z[k]  BY <1>1, <1>2, <2>1, SumAdd
  <2> QED BY <1>1, <2>1, <2>2 DEF T
<1>7. \A k \in 1 .. n : 1 .. k \in SUBSET D  BY <1>1
<1>8. \A k \in 1 .. n + 1 : 1 .. k - 1 \in SUBSET D  BY <1>1
<1>9. D \in SUBSET D  OBVIOUS
<1>10. S!Total \in Nat /\ \A k \in 1 .. n : SumOf(z, 1 .. k) <= S!Total  BY <1>3, <1>5, <1>7, <1>9
<1>11. \A k \in 1 .. n + 1 : SumOf(z, 1 .. k - 1) \in Nat  BY <1>5, <1>8
<1> QED BY <1>4, <1>6, <1>10, <1>11 DEF z

\* Where the reader is: the values it has passed, and the bytes it has taken.
Reading ==
  /\ input \in Seq(S!Values) /\ at \in 1 .. Len(input) + 1 /\ stopped \in BOOLEAN
  /\ read \in Nat /\ read <= S!Total
  /\ offset = SumOf(S!Sizes, 1 .. at - 1) /\ offset \in Nat /\ read - offset <= ValueBytes

\* The messages that are under way: those of the batch, and the tracked ones among them.
UnderWay ==
  /\ pc \in {"fill", "sdk", "batch", "offer", "gone"}
  /\ sdk \in Seq(S!Messages) /\ batch \in Seq(S!Messages) /\ next \in Seq(S!Messages)
  /\ Len(next) <= 1 /\ \A i \in 1 .. Len(batch) : batch[i].kind # "bad"

\* What was delivered and what is under way are the messages of the values passed.
InStep ==
  /\ pc # "gone" => delivered \in Seq(S!Messages)
  /\ pc = "fill" => Kept(input, delivered, at - 1) /\ sdk = <<>> /\ batch = <<>> /\ next = <<>>
  /\ pc = "sdk" /\ batch = <<>> =>
       Kept(input, delivered \o sdk, at - 1) /\ Len(sdk) = 1 /\ next = <<>>
  /\ pc = "sdk" /\ batch # <<>> =>
       Kept(input, delivered \o batch, at - 1) /\ Lists(sdk, batch) /\ next = <<>>
  /\ pc = "batch" =>
       Kept(input, delivered \o batch, at - 1) /\ Lists(next \o sdk, batch) /\ batch # <<>>
  /\ pc = "offer" /\ offered # S!Error =>
       /\ Kept(input, Append(delivered, offered) \o batch, at - 1) /\ Lists(next \o sdk, batch)
       /\ offered \in S!Messages

\* An error ends what was delivered, and unless the transport was closed all was
\* delivered that could be.
Ended ==
  /\ pc = "offer" /\ offered = S!Error =>
       Begins(delivered, S!Expected) /\ (stopped \/ delivered = S!Expected)
  /\ pc = "gone" =>
       \E d \in Seq(S!Messages) :
         /\ Begins(d, S!Expected)
         /\ \/ delivered = d /\ stopped
            \/ delivered = Append(d, S!Error) /\ (stopped \/ d = S!Expected)

Ordered == Reading /\ UnderWay /\ InStep /\ Ended

\* The transport begins in step.
LEMMA OrderedInit == ASSUME S!StdioAssumption, S!Init PROVE Ordered
<1> USE DEF S!Init
<1>1. input \in Seq(S!Values)  BY DEF S!StdioAssumption
<1>2. Len(input) \in Nat /\ at \in 1 .. Len(input) + 1 /\ at - 1 = 0  BY <1>1
<1>3. Reading
  <2>1. S!Total \in Nat /\ SumOf(S!Sizes, 1 .. at - 1) = 0  BY <1>1, <1>2, BytesAdd
  <2>2. ValueBytes \in Nat  BY DEF S!StdioAssumption
  <2>3. read = 0 /\ offset = 0 /\ stopped = FALSE  OBVIOUS
  <2> DEFINE b == ValueBytes
  <2> DEFINE t == S!Total
  <2> HIDE DEF b, t
  <2>4. b \in Nat /\ t \in Nat  BY <2>1, <2>2 DEF b, t
  <2>5. read \in Nat /\ offset \in Nat /\ read - offset <= b /\ read <= t  BY <2>3, <2>4
  <2>6. stopped \in BOOLEAN  BY <2>3
  <2> QED BY <1>1, <1>2, <2>1, <2>3, <2>5, <2>6 DEF Reading, b, t
<1>4. UnderWay  BY DEF UnderWay
<1>5. Sent(input, 0) = <<>>  BY <1>1, SentGrows
<1>6. 1 .. 0 = {}  OBVIOUS
<1>7. InStep  BY <1>2, <1>5, <1>6 DEF InStep, Kept
<1>8. Ended  BY DEF Ended
<1> QED BY <1>3, <1>4, <1>7, <1>8 DEF Ordered

\* What depends on the values only is the same as long as they are.
LEMMA SameValues ==
  ASSUME input' = input
  PROVE  S!Expected' = S!Expected /\ S!Total' = S!Total /\ S!Sizes' = S!Sizes
<1>1. S!Sizes' = S!Sizes  BY DEF S!Sizes
<1>2. S!Total' = S!Total  BY <1>1 DEF S!Total
<1>3. S!Sound' = S!Sound  BY DEF S!Sound
<1>4. S!Expected' = S!Expected  BY <1>3 DEF S!Expected
<1> QED BY <1>1, <1>2, <1>4

\* What precedes something that is kept is a beginning of what is expected, and all of it
\* where it ends at the first broken value.
LEMMA KeptBegins ==
  ASSUME input \in Seq(S!Values), NEW k \in 0 .. Len(input),
         NEW d \in Seq(S!Messages), NEW x \in Seq(S!Messages), Kept(input, d \o x, k)
  PROVE  /\ S!Expected \in Seq(S!Messages) /\ Begins(d, S!Expected)
         /\ x = <<>> /\ (k = Len(input) \/ S!Broken(input[k + 1])) => d = S!Expected
<1>1. /\ S!Expected \in Seq(S!Messages) /\ Begins(Sent(input, k), S!Expected)
      /\ k = Len(input) \/ S!Broken(input[k + 1]) => S!Expected = Sent(input, k)
  BY Expectation DEF Kept
<1>2. d \o x = Sent(input, k)  BY DEF Kept
<1>3. Begins(d, S!Expected)
  <2> DEFINE t == d \o x
  <2> DEFINE u == S!Expected
  <2>1. t \in Seq(S!Messages) /\ Begins(d, t)  BY BeginsOn
  <2>2. Begins(t, u) /\ u \in Seq(S!Messages)  BY <1>1, <1>2
  <2> HIDE DEF t, u
  <2>3. Begins(d, u)  BY <2>1, <2>2, BeginsOn
  <2> QED BY <2>3 DEF u
<1>4. x = <<>> => d \o x = d  OBVIOUS
<1> QED BY <1>1, <1>2, <1>3, <1>4

\* The messages the session has been given so far are a beginning of what is expected.
LEMMA DeliveredBegins ==
  ASSUME Ordered, pc # "gone"
  PROVE  delivered \in Seq(S!Messages) /\ S!Expected \in Seq(S!Messages) /\ Begins(delivered, S!Expected)
<1> USE DEF Ordered
<1>1. input \in Seq(S!Values) /\ at - 1 \in 0 .. Len(input)
  <2>1. input \in Seq(S!Values) /\ at \in 1 .. Len(input) + 1  BY DEF Reading
  <2>2. Len(input) \in Nat  BY <2>1
  <2> QED BY <2>1, <2>2
<1>2. delivered \in Seq(S!Messages) /\ sdk \in Seq(S!Messages) /\ batch \in Seq(S!Messages)
  BY DEF InStep, UnderWay
<1>3. S!Expected \in Seq(S!Messages)
  <2>1. Begins(Sent(input, 0), S!Expected) /\ S!Expected \in Seq(S!Messages)
    <3>1. 0 \in 0 .. Len(input) /\ 1 .. 0 = {}  BY <1>1
    <3> QED BY <1>1, <3>1, Expectation
  <2> QED BY <2>1
<1>4. CASE pc = "offer" /\ offered = S!Error  BY <1>2, <1>3, <1>4 DEF Ended
<1>5. CASE pc = "offer" /\ offered # S!Error
  <2>1. Kept(input, Append(delivered, offered) \o batch, at - 1) /\ offered \in S!Messages
    BY <1>5 DEF InStep
  <2> DEFINE d == delivered
  <2> DEFINE x == <<offered>> \o batch
  <2>2. x \in Seq(S!Messages) /\ <<offered>> \in Seq(S!Messages)  BY <1>2, <2>1
  <2>3. Append(delivered, offered) \o batch = d \o x
    <3>1. Head(x) = offered /\ Tail(x) = batch /\ x # <<>>  BY <1>2, <2>1
    <3>2. Append(d, Head(x)) \o Tail(x) = d \o x
      <4> HIDE DEF x
      <4> QED BY <1>2, <2>2, <3>1, HeadMoves
    <3> QED BY <3>1, <3>2
  <2>4. Kept(input, d \o x, at - 1)  BY <2>1, <2>3
  <2> HIDE DEF x
  <2> QED BY <1>1, <1>2, <1>3, <2>2, <2>4, KeptBegins
<1>6. CASE pc = "fill"
  <2>1. delivered \o <<>> = delivered /\ <<>> \in Seq(S!Messages)  BY <1>2
  <2>2. Kept(input, delivered \o <<>>, at - 1)  BY <1>6, <2>1 DEF InStep
  <2> QED BY <1>1, <1>2, <1>3, <2>1, <2>2, KeptBegins
<1>7. CASE pc = "sdk" /\ batch = <<>>
  <2>1. Kept(input, delivered \o sdk, at - 1)  BY <1>7 DEF InStep
  <2> QED BY <1>1, <1>2, <1>3, <2>1, KeptBegins
<1>8. CASE pc = "batch" \/ (pc = "sdk" /\ batch # <<>>)
  <2>1. Kept(input, delivered \o batch, at - 1)  BY <1>8 DEF InStep
  <2> QED BY <1>1, <1>2, <1>3, <2>1, KeptBegins
<1> QED BY <1>4, <1>5, <1>6, <1>7, <1>8 DEF UnderWay

\* The decoder that asks for more fails at the first broken value only, or when closed.
LEMMA FillKeeps == ASSUME S!StdioAssumption, Ordered, S!Fill PROVE Ordered'
<1> USE DEF S!Fill, Ordered
<1>1. UNCHANGED <<input, at, offset, sdk, batch, next, delivered, stopped>> /\ pc = "fill"  OBVIOUS
<1>2. S!Expected' = S!Expected /\ S!Total' = S!Total /\ S!Sizes' = S!Sizes  BY <1>1, SameValues
<1>3. /\ Len(input) \in Nat /\ input \in Seq(S!Values) /\ at \in 1 .. Len(input) + 1
      /\ read \in Nat /\ offset \in Nat /\ ValueBytes \in Nat /\ MaxChunk \in Nat
  BY DEF Reading, S!StdioAssumption
<1>4. Kept(input, delivered, at - 1) /\ sdk = <<>> /\ batch = <<>> /\ next = <<>>  BY <1>1 DEF InStep
<1>5. delivered \in Seq(S!Messages) /\ Begins(delivered, S!Expected)  BY <1>1, DeliveredBegins
<1>6. CASE S!Offer(S!Error)
  <2>1. read' = read /\ pc' = "offer" /\ offered' = S!Error
    BY <1>6, <1>3 DEF S!Offer, S!Remaining
  <2>2. S!Remaining <= 0 \/ read = S!Total \/ stopped
    <3>1. pc' # pc  BY <1>1, <2>1
    <3> QED BY <3>1
  <2>3. stopped \/ delivered = S!Expected
    <3> SUFFICES ASSUME ~stopped PROVE delivered = S!Expected  OBVIOUS
    <3>1. at - 1 = Len(input) \/ S!Broken(input[(at - 1) + 1])
      <4> SUFFICES ASSUME at \in 1 .. Len(input) PROVE S!Broken(input[at]) /\ (at - 1) + 1 = at  BY <1>3
      <4>1. input[at] \in S!Values  BY <1>3
      <4>2. input[at].size \in Nat  BY <4>1, ValueShape
      <4>3. read < offset + input[at].size  BY <1>3, <4>2 DEF S!Complete
      <4>4. offset + input[at].size <= S!Total /\ S!Total \in Nat  BY <1>3, BytesAdd DEF Reading
      <4>5. read # S!Total  BY <1>3, <4>2, <4>3, <4>4
      <4>6. ValueBytes - (read - offset) <= 0  BY <2>2, <4>5 DEF S!Remaining
      <4>7. input[at].size > ValueBytes  BY <1>3, <4>2, <4>3, <4>6
      <4> QED BY <1>3, <4>7 DEF S!Broken
    <3>2. delivered \o <<>> = delivered /\ <<>> \in Seq(S!Messages) /\ at - 1 \in 0 .. Len(input)  BY <1>3, <1>5
    <3>3. Kept(input, delivered \o <<>>, at - 1)  BY <1>4, <3>2
    <3> QED BY <1>3, <1>5, <3>1, <3>2, <3>3, KeptBegins
  <2>4. Reading'  BY <1>1, <1>2, <2>1 DEF Reading
  <2>5. UnderWay'  BY <1>1, <2>1 DEF UnderWay
  <2>6. InStep'  BY <1>1, <1>5, <2>1 DEF InStep
  <2>7. Ended'  BY <1>1, <1>2, <1>5, <2>1, <2>3 DEF Ended
  <2> QED BY <2>4, <2>5, <2>6, <2>7
<1>7. CASE pc' = "fill"
  <2>1. PICK n \in 1 .. MaxChunk : n <= S!Remaining /\ read + n <= S!Total /\ read' = read + n
    BY <1>7 DEF S!Offer
  <2>2. read' \in Nat /\ read' <= S!Total /\ read' - offset <= ValueBytes
    BY <1>3, <2>1 DEF S!Remaining
  <2>3. Reading'  BY <1>1, <1>2, <2>2 DEF Reading
  <2>4. UnderWay'  BY <1>1, <1>7 DEF UnderWay
  <2>5. InStep'  BY <1>1, <1>4, <1>5, <1>7 DEF InStep
  <2>6. Ended'  BY <1>7 DEF Ended
  <2> QED BY <2>3, <2>4, <2>5, <2>6
<1> QED BY <1>6, <1>7

\* A message of the client is no error of the transport.
LEMMA MessageNoError == ASSUME NEW m \in S!Messages PROVE m # S!Error
BY DEF S!Messages, S!Error

\* A value that is complete is passed: its messages are under way, or it ends the reading.
LEMMA DecodeKeeps == ASSUME S!StdioAssumption, Ordered, S!Decode PROVE Ordered'
<1> USE DEF S!Decode, Ordered
<1> DEFINE v == input[at]
<1>1. /\ UNCHANGED <<input, read, next, delivered, stopped>> /\ pc = "fill"
      /\ at' = at + 1 /\ offset' = offset + v.size
  OBVIOUS
<1>2. S!Expected' = S!Expected /\ S!Total' = S!Total /\ S!Sizes' = S!Sizes  BY <1>1, SameValues
<1>3. /\ Len(input) \in Nat /\ input \in Seq(S!Values) /\ at \in 1 .. Len(input) /\ at - 1 \in 0 .. Len(input)
      /\ read \in Nat /\ offset \in Nat /\ ValueBytes \in Nat
  <2>1. ValueBytes \in Nat  BY DEF S!StdioAssumption
  <2>2. input \in Seq(S!Values) /\ at \in 1 .. Len(input) + 1 /\ read \in Nat /\ offset \in Nat  BY DEF Reading
  <2>3. at <= Len(input)  BY DEF S!Complete
  <2> QED BY <2>1, <2>2, <2>3
<1>4. v \in S!Values  BY <1>3
<1>5. /\ v.size \in Nat /\ v.msgs \in Seq(S!Messages) /\ v.kind \in {"scalar", "single", "refused", "batch"}
      /\ v.kind \in {"scalar", "single"} => Len(v.msgs) = 1 /\ v.msgs[1].kind # "bad"
      /\ v.kind = "batch" => v.msgs # <<>>
  <2> HIDE DEF v
  <2> QED BY <1>4, ValueShape
<1>6. v.size <= ValueBytes
  <2>1. read >= offset + v.size /\ read - offset <= ValueBytes  BY DEF S!Complete, Reading
  <2> QED BY <1>3, <1>5, <2>1
<1>7. Kept(input, delivered, at - 1) /\ sdk = <<>> /\ batch = <<>> /\ next = <<>>  BY <1>1 DEF InStep
<1>8. delivered \in Seq(S!Messages) /\ Begins(delivered, S!Expected)  BY <1>1, DeliveredBegins
<1>9. Reading'
  <2>1. at + 1 \in 1 .. Len(input) + 1 /\ (at + 1) - 1 = at  BY <1>3
  <2>2. SumOf(S!Sizes, 1 .. at) = SumOf(S!Sizes, 1 .. at - 1) + v.size  BY <1>3, BytesAdd
  <2> DEFINE z == v.size
  <2>3. z \in Nat /\ offset = SumOf(S!Sizes, 1 .. at - 1) /\ read - offset <= ValueBytes
        /\ SumOf(S!Sizes, 1 .. at) = SumOf(S!Sizes, 1 .. at - 1) + z
    BY <1>5, <2>2 DEF Reading
  <2> HIDE DEF z
  <2>4. /\ offset + z = SumOf(S!Sizes, 1 .. at) /\ offset + z \in Nat
        /\ read - (offset + z) <= ValueBytes
    BY <1>3, <2>3
  <2>5. at' - 1 = at /\ offset' = offset + z  BY <1>1, <2>1 DEF z
  <2>6. stopped \in BOOLEAN /\ read <= S!Total  BY DEF Reading
  <2> QED BY <1>1, <1>2, <1>3, <2>1, <2>4, <2>5, <2>6 DEF Reading
<1>10. at' - 1 = at  BY <1>1, <1>3
<1> HIDE DEF v
<1>11. S!Broken(v) <=> v.kind = "refused" \/ \E i \in DOMAIN v.msgs : v.msgs[i].kind = "bad"
  BY <1>3, <1>5, <1>6 DEF S!Broken, S!ToSet
<1>12. ~S!Broken(v) => Kept(input, delivered \o v.msgs, at)
  <2> SUFFICES ASSUME ~S!Broken(v) PROVE Kept(input, delivered \o v.msgs, at)  OBVIOUS
  <2>1. at - 1 \in 0 .. Len(input) - 1 /\ (at - 1) + 1 = at  BY <1>3
  <2>2. Sent(input, (at - 1) + 1) = Sent(input, at - 1) \o input[(at - 1) + 1].msgs  BY <1>3, <2>1, SentGrows
  <2>3. Sent(input, at) = delivered \o v.msgs  BY <1>7, <2>1, <2>2 DEF Kept, v
  <2>4. \A j \in 1 .. at : j = at \/ j \in 1 .. at - 1  BY <1>3
  <2> QED BY <1>7, <2>3, <2>4 DEF Kept, v
<1>13. CASE v.kind = "scalar" /\ S!Offer(v.msgs[1]) /\ UNCHANGED <<sdk, batch>>
  <2> DEFINE m == v.msgs[1]
  <2>1. /\ m \in S!Messages /\ v.msgs = <<m>>
        /\ delivered \o v.msgs = Append(delivered, m) \o <<>>
    BY <1>5, <1>8, <1>13, Alone
  <2>2. ~S!Broken(v)
    <3>1. v.msgs[1].kind # "bad" /\ DOMAIN v.msgs = {1}  BY <1>5, <1>13
    <3> QED BY <3>1, <1>11, <1>13
  <2>3. pc' = "offer" /\ offered' = m  BY <1>13 DEF S!Offer
  <2> HIDE DEF m
  <2>4. m # S!Error  BY <2>1, MessageNoError
  <2>5. UnderWay'  BY <1>1, <1>13, <2>3 DEF UnderWay
  <2>6. InStep'
    <3>1. next \o sdk = <<>>  BY <1>7
    <3> QED BY <1>1, <1>7, <1>8, <1>10, <1>12, <1>13, <2>1, <2>2, <2>3, <3>1, NothingLists DEF InStep
  <2>7. Ended'  BY <2>3, <2>4 DEF Ended
  <2> QED BY <1>9, <2>5, <2>6, <2>7
<1>14. CASE /\ v.kind = "refused" \/ (v.kind = "batch" /\ \E m \in S!ToSet(v.msgs) : m.kind = "bad")
            /\ S!Offer(S!Error) /\ UNCHANGED <<sdk, batch>>
  <2>1. S!Broken(v)  BY <1>11, <1>14 DEF S!ToSet
  <2>2. pc' = "offer" /\ offered' = S!Error  BY <1>14 DEF S!Offer
  <2>3. delivered = S!Expected
    <3>1. delivered \o <<>> = delivered /\ <<>> \in Seq(S!Messages) /\ (at - 1) + 1 = at  BY <1>3, <1>8
    <3>2. Kept(input, delivered \o <<>>, at - 1)  BY <1>7, <3>1
    <3>3. S!Broken(input[(at - 1) + 1])  BY <2>1, <3>1 DEF v
    <3> QED BY <1>3, <1>8, <3>1, <3>2, <3>3, KeptBegins
  <2>4. UnderWay'  BY <1>1, <1>14, <2>2 DEF UnderWay
  <2>5. InStep'  BY <1>1, <1>8, <2>2 DEF InStep
  <2>6. Ended'  BY <1>1, <1>2, <1>8, <2>2, <2>3 DEF Ended
  <2> QED BY <1>9, <2>4, <2>5, <2>6
<1>15. CASE /\ v.kind \in {"single", "batch"} /\ \A m \in S!ToSet(v.msgs) : m.kind # "bad"
            /\ sdk' = sdk \o (IF v.kind = "single" THEN v.msgs ELSE S!Tracked(v.msgs))
            /\ batch' = IF v.kind = "batch" THEN v.msgs ELSE <<>>
            /\ pc' = IF v.kind = "single" \/ S!Tracked(v.msgs) # <<>> THEN "sdk" ELSE "batch"
  <2>1. \A i \in DOMAIN v.msgs : v.msgs[i].kind # "bad"  BY <1>15 DEF S!ToSet
  <2>2. Kept(input, delivered \o v.msgs, at)  BY <1>11, <1>12, <1>15, <2>1
  <2>3. S!Tracked(v.msgs) \in Seq(S!Messages) /\ Lists(S!Tracked(v.msgs), v.msgs)  BY <1>5, TrackedListed
  <2>4. sdk' = IF v.kind = "single" THEN v.msgs ELSE S!Tracked(v.msgs)  BY <1>5, <1>7, <1>15, <2>3
  <2>5. UnderWay'
    <3>1. \A i \in 1 .. Len(batch') : batch'[i].kind # "bad"  BY <1>5, <1>15, <2>1
    <3> QED BY <1>1, <1>5, <1>7, <1>15, <2>3, <2>4, <3>1 DEF UnderWay
  <2>6. <<>> \o sdk' = sdk'  BY <1>5, <2>3, <2>4
  <2>7. InStep'
    <3>1. CASE v.kind = "single"
      BY <3>1, <1>1, <1>5, <1>7, <1>8, <1>10, <1>15, <2>2, <2>4 DEF InStep
    <3>2. CASE v.kind = "batch"
      BY <3>2, <1>1, <1>5, <1>7, <1>8, <1>10, <1>15, <2>2, <2>3, <2>4, <2>6 DEF InStep
    <3> QED BY <3>1, <3>2, <1>15
  <2>8. Ended'  BY <1>15 DEF Ended
  <2> QED BY <1>9, <2>5, <2>7, <2>8
<1> QED BY <1>13, <1>14, <1>15 DEF v

\* What the SDK returns is offered, or kept for its place in the batch.
LEMMA ReadSDKKeeps == ASSUME Ordered, S!ReadSDK PROVE Ordered'
<1> USE DEF S!ReadSDK, Ordered
<1>1. UNCHANGED <<input, at, read, offset, batch, delivered, stopped>> /\ pc = "sdk"  OBVIOUS
<1>2. S!Expected' = S!Expected /\ S!Total' = S!Total /\ S!Sizes' = S!Sizes  BY <1>1, SameValues
<1>3. delivered \in Seq(S!Messages) /\ Begins(delivered, S!Expected)  BY <1>1, DeliveredBegins
<1>4. Reading'  BY <1>1, <1>2 DEF Reading
<1>5. /\ sdk \in Seq(S!Messages) /\ batch \in Seq(S!Messages) /\ next = <<>>
      /\ \A i \in 1 .. Len(batch) : batch[i].kind # "bad"
  BY <1>1 DEF UnderWay, InStep
<1>6. CASE sdk # <<>> /\ batch = <<>> /\ S!Offer(Head(sdk)) /\ sdk' = Tail(sdk) /\ UNCHANGED next
  <2> DEFINE m == Head(sdk)
  <2>1. Kept(input, delivered \o sdk, at - 1) /\ Len(sdk) = 1  BY <1>1, <1>6 DEF InStep
  <2>2. /\ m \in S!Messages /\ sdk = <<m>> /\ Tail(sdk) = <<>>
        /\ delivered \o sdk = Append(delivered, m) \o <<>>
    BY <1>3, <1>5, <2>1, Alone
  <2>3. pc' = "offer" /\ offered' = m  BY <1>6 DEF S!Offer
  <2> HIDE DEF m
  <2>4. m # S!Error  BY <2>2, MessageNoError
  <2>6. UnderWay'  BY <1>1, <1>5, <1>6, <2>2, <2>3 DEF UnderWay
  <2>7. next' \o sdk' = <<>>  BY <1>5, <1>6, <2>2
  <2>8. InStep'  BY <1>1, <1>3, <1>6, <2>1, <2>2, <2>3, <2>7, NothingLists DEF InStep
  <2>9. Ended'  BY <2>3, <2>4 DEF Ended
  <2> QED BY <1>4, <2>6, <2>8, <2>9
<1>7. CASE sdk # <<>> /\ batch # <<>> /\ next' = <<Head(sdk)>> /\ sdk' = Tail(sdk) /\ pc' = "batch"
  <2>1. Kept(input, delivered \o batch, at - 1) /\ Lists(sdk, batch)  BY <1>1, <1>7 DEF InStep
  <2>2. Head(sdk) \in S!Messages /\ Tail(sdk) \in Seq(S!Messages) /\ <<Head(sdk)>> \o Tail(sdk) = sdk
    BY <1>5, <1>7
  <2>3. UnderWay'  BY <1>1, <1>5, <1>7, <2>2 DEF UnderWay
  <2>4. InStep'  BY <1>1, <1>3, <1>7, <2>1, <2>2 DEF InStep
  <2>5. Ended'  BY <1>7 DEF Ended
  <2> QED BY <1>4, <2>3, <2>4, <2>5
<1>8. CASE stopped /\ S!Offer(S!Error) /\ UNCHANGED <<sdk, next>>
  <2>1. pc' = "offer" /\ offered' = S!Error  BY <1>8 DEF S!Offer
  <2>2. UnderWay'  BY <1>1, <1>8, <2>1 DEF UnderWay
  <2>3. InStep'  BY <1>1, <1>3, <2>1 DEF InStep
  <2>4. Ended'  BY <1>1, <1>2, <1>3, <1>8, <2>1 DEF Ended
  <2> QED BY <1>4, <2>2, <2>3, <2>4
<1> QED BY <1>6, <1>7, <1>8

\* The next message of a batch is offered: a notification as it was decoded, any other as
\* the SDK decoded it, which is the same.
LEMMA NextOfBatchKeeps == ASSUME Ordered, S!NextOfBatch PROVE Ordered'
<1>1. UNCHANGED <<input, at, read, offset, sdk, delivered, stopped>> /\ pc = "batch" /\ batch # <<>>
  BY DEF S!NextOfBatch
<1>2. S!Expected' = S!Expected /\ S!Total' = S!Total /\ S!Sizes' = S!Sizes  BY <1>1, SameValues
<1>3. delivered \in Seq(S!Messages)  BY <1>1, DeliveredBegins
<1>4. Reading'  BY <1>1, <1>2 DEF Ordered, Reading
<1>5. /\ sdk \in Seq(S!Messages) /\ batch \in Seq(S!Messages) /\ next \in Seq(S!Messages) /\ Len(next) <= 1
      /\ \A i \in 1 .. Len(batch) : batch[i].kind # "bad"
      /\ Kept(input, delivered \o batch, at - 1) /\ Lists(next \o sdk, batch)
  BY <1>1 DEF Ordered, UnderWay, InStep
<1> DEFINE m == Head(batch)
<1> DEFINE rest == Tail(batch)
<1>6. /\ m \in S!Messages /\ rest \in Seq(S!Messages) /\ Append(delivered, m) \o rest = delivered \o batch
      /\ m = batch[1] /\ Len(batch) \in Nat \ {0} /\ Len(rest) = Len(batch) - 1
      /\ \A i \in 1 .. Len(batch) - 1 : rest[i] = batch[i + 1]
  BY <1>1, <1>3, <1>5, HeadMoves, SMTT(30)
<1>7. \A i \in 1 .. Len(rest) : rest[i].kind # "bad"
  <2> SUFFICES ASSUME NEW i \in 1 .. Len(rest) PROVE rest[i].kind # "bad"  OBVIOUS
  <2>1. i + 1 \in 1 .. Len(batch) /\ rest[i] = batch[i + 1]  BY <1>6
  <2> QED BY <1>5, <2>1
<1>8. S!TrackedBySDK(m) <=> m.kind # "note"
  <2>1. m.kind # "bad"
    <3>1. 1 \in 1 .. Len(batch)  BY <1>6
    <3> QED BY <1>5, <1>6, <3>1
  <2>2. m.kind \in {"call", "answer", "note", "bad"}  BY <1>6 DEF S!Messages
  <2> QED BY <2>1, <2>2 DEF S!TrackedBySDK
<1>9. m # S!Error  BY <1>6, MessageNoError
<1>10. next \o sdk \in Seq(S!Messages)  BY <1>5
<1>11. ASSUME S!Offer(m), batch' = rest, next' \in Seq(S!Messages), Len(next') <= 1, Lists(next' \o sdk, rest)
       PROVE  Ordered'
  <2>1. pc' = "offer" /\ offered' = m  BY <1>11 DEF S!Offer
  <2> HIDE DEF m, rest
  <2>2. UnderWay'  BY <1>1, <1>5, <1>6, <1>7, <1>11, <2>1 DEF UnderWay
  <2>3. InStep'  BY <1>1, <1>3, <1>5, <1>6, <1>11, <2>1 DEF InStep
  <2>4. Ended'  BY <1>9, <2>1 DEF Ended
  <2> QED BY <1>4, <2>2, <2>3, <2>4 DEF Ordered
<1>12. CASE m.kind = "note" /\ S!Offer(m) /\ batch' = rest /\ UNCHANGED next
  <2>1. Lists(next \o sdk, rest)  BY <1>1, <1>5, <1>8, <1>10, <1>12, NoteGoesBy
  <2> QED BY <1>5, <1>11, <1>12, <2>1
<1>13. CASE m.kind # "note" /\ next # <<>> /\ S!Offer(Head(next)) /\ next' = <<>> /\ batch' = rest
  <2> DEFINE r == next \o sdk
  <2>1. Len(next) = 1
    <3> DEFINE c == Len(next)
    <3>1. c \in Nat \ {0} /\ c <= 1  BY <1>5, <1>13, HeadMoves
    <3> HIDE DEF c
    <3>2. c = 1  BY <3>1
    <3> QED BY <3>2 DEF c
  <2> DEFINE x == Head(next)
  <2>2. next = <<x>> /\ x \in S!Messages  BY <1>3, <1>5, <2>1, Alone
  <2> HIDE DEF x
  <2>3. Head(r) = x /\ Tail(r) = sdk  BY <1>5, <2>2, HeadAdded
  <2>4. Head(r) = m /\ Lists(Tail(r), rest)
    <3> HIDE DEF r
    <3>1. r \in Seq(S!Messages) /\ Lists(r, batch)  BY <1>5, <1>10 DEF r
    <3> QED BY <1>1, <1>5, <1>8, <1>13, <3>1, TrackedIsFirst
  <2>5. next' \o sdk = sdk /\ next' \in Seq(S!Messages) /\ Len(next') <= 1  BY <1>5, <1>13
  <2> HIDE DEF r
  <2>6. x = m /\ Lists(next' \o sdk, rest)  BY <2>3, <2>4, <2>5
  <2>7. S!Offer(m)  BY <1>13, <2>6 DEF x
  <2> QED BY <1>11, <1>13, <2>5, <2>6, <2>7
<1>14. CASE next = <<>> /\ pc' = "sdk" /\ UNCHANGED <<offered, batch, next>>
  <2>1. <<>> \o sdk = sdk  BY <1>5
  <2>2. UnderWay'  BY <1>1, <1>5, <1>14 DEF UnderWay
  <2>3. InStep'  BY <1>1, <1>3, <1>5, <1>14, <2>1 DEF InStep
  <2>4. Ended'  BY <1>14 DEF Ended
  <2> QED BY <1>4, <2>2, <2>3, <2>4 DEF Ordered
<1> QED BY <1>12, <1>13, <1>14 DEF S!NextOfBatch

\* The goroutine that gives up leaves what was delivered as it is.
LEMMA AbandonKeeps == ASSUME Ordered, S!Abandon PROVE Ordered'
<1> USE DEF S!Abandon, S!readerVars, Ordered
<1>1. UNCHANGED <<input, at, read, offset, sdk, batch, next, offered, delivered, stopped>>
      /\ pc = "offer" /\ pc' = "gone" /\ stopped
  OBVIOUS
<1>2. S!Expected' = S!Expected /\ S!Total' = S!Total /\ S!Sizes' = S!Sizes  BY <1>1, SameValues
<1>3. delivered \in Seq(S!Messages) /\ Begins(delivered, S!Expected)  BY <1>1, DeliveredBegins
<1>4. Reading'  BY <1>1, <1>2 DEF Reading
<1>5. UnderWay'  BY <1>1 DEF UnderWay
<1>6. InStep'  BY <1>1 DEF InStep
<1>7. Ended'  BY <1>1, <1>2, <1>3 DEF Ended
<1> QED BY <1>4, <1>5, <1>6, <1>7

\* What Read takes moves from what is under way to what was delivered.
LEMMA ReadKeeps == ASSUME Ordered, S!Read PROVE Ordered'
<1> USE DEF S!Read, S!readerVars, Ordered
<1>1. UNCHANGED <<input, at, read, offset, sdk, batch, next, offered, stopped>>
      /\ pc = "offer" /\ delivered' = Append(delivered, offered)
  OBVIOUS
<1>2. S!Expected' = S!Expected /\ S!Total' = S!Total /\ S!Sizes' = S!Sizes  BY <1>1, SameValues
<1>3. delivered \in Seq(S!Messages) /\ Begins(delivered, S!Expected)  BY <1>1, DeliveredBegins
<1>4. Reading'  BY <1>1, <1>2 DEF Reading
<1>5. UnderWay'  BY <1>1 DEF UnderWay
<1>6. CASE offered = S!Error
  <2>1. pc' = "gone" /\ (stopped \/ delivered = S!Expected)  BY <1>1, <1>6 DEF Ended
  <2>2. InStep'  BY <2>1 DEF InStep
  <2>3. Ended'  BY <1>1, <1>2, <1>3, <1>6, <2>1 DEF Ended
  <2> QED BY <1>4, <1>5, <2>2, <2>3
<1>7. CASE offered # S!Error
  <2>1. Kept(input, delivered' \o batch, at - 1) /\ Lists(next \o sdk, batch) /\ offered \in S!Messages
    BY <1>1, <1>7 DEF InStep
  <2>2. delivered' \in Seq(S!Messages)  BY <1>1, <1>3, <2>1
  <2>3. pc' = IF batch = <<>> THEN "fill" ELSE "batch"  BY <1>7
  <2>4. sdk \in Seq(S!Messages) /\ next \in Seq(S!Messages) /\ next \o sdk \in Seq(S!Messages)  BY DEF UnderWay
  <2>5. batch = <<>> => sdk = <<>> /\ next = <<>>
    <3> SUFFICES ASSUME batch = <<>> PROVE sdk = <<>> /\ next = <<>>  OBVIOUS
    <3>1. next \o sdk = <<>>  BY <2>1, <2>4, NothingListed
    <3>2. Len(next \o sdk) = Len(next) + Len(sdk) /\ Len(next) \in Nat /\ Len(sdk) \in Nat  BY <2>4
    <3>3. Len(next) = 0 /\ Len(sdk) = 0  BY <3>1, <3>2
    <3> QED BY <2>4, <3>3
  <2>6. delivered' \o <<>> = delivered'  BY <2>2
  <2>7. InStep'  BY <1>1, <2>1, <2>2, <2>3, <2>5, <2>6 DEF InStep
  <2>8. Ended'  BY <2>3 DEF Ended
  <2> QED BY <1>4, <1>5, <2>7, <2>8
<1> QED BY <1>6, <1>7

\* Every step keeps the invariant.
LEMMA OrderedStep ==
  ASSUME S!StdioAssumption, Ordered, S!Next \/ UNCHANGED stdioVars
  PROVE  Ordered'
<1>1. CASE UNCHANGED stdioVars \/ S!Close
  <2>1. /\ UNCHANGED <<input, at, read, offset, pc, sdk, batch, next, offered, delivered>>
        /\ stopped' \in BOOLEAN /\ (stopped => stopped')
    BY <1>1 DEF stdioVars, S!Close, S!readerVars, Ordered, Reading
  <2>2. S!Expected' = S!Expected /\ S!Total' = S!Total /\ S!Sizes' = S!Sizes  BY <2>1, SameValues
  <2>3. Reading'  BY <2>1, <2>2 DEF Ordered, Reading
  <2>4. UnderWay'  BY <2>1 DEF Ordered, UnderWay
  <2>5. InStep'  BY <2>1 DEF Ordered, InStep
  <2>6. Ended'  BY <2>1, <2>2 DEF Ordered, Ended
  <2> QED BY <2>3, <2>4, <2>5, <2>6 DEF Ordered
<1>2. CASE S!Fill \/ S!Decode  BY <1>2, FillKeeps, DecodeKeeps
<1>3. CASE S!ReadSDK \/ S!NextOfBatch  BY <1>3, ReadSDKKeeps, NextOfBatchKeeps
<1>4. CASE S!Abandon \/ S!Read  BY <1>4, AbandonKeeps, ReadKeeps
<1> QED BY <1>1, <1>2, <1>3, <1>4 DEF S!Next

\* Messages reach the session in the order the client sent them, whichever of them pass
\* through the SDK, and all of them up to the first value that is broken, unless the
\* transport is closed before; the decoder holds no more than one value may have
\* (read, readBatch, messageReader.Read).
THEOREM ReadInOrder == MCSpec => []ReadsInOrder
<1>1. MCInit => Ordered  BY TransportsAssumption, OrderedInit DEF MCInit
<1>2. Ordered /\ [MCNext]_<<transport, vars, eventVars, stdioVars>> => Ordered'
  BY TransportsAssumption, OrderedStep DEF MCNext
<1>3. ASSUME Ordered PROVE ReadsInOrder
  <2> USE <1>3 DEF Ordered
  <2>1. S!BufferBounded  BY DEF S!BufferBounded, Reading
  <2>2. \A d \in Seq(S!Messages) : Begins(d, S!Expected) => S!IsPrefix(d, S!Expected)
    <3> SUFFICES ASSUME NEW d \in Seq(S!Messages), Begins(d, S!Expected) PROVE S!IsPrefix(d, S!Expected)
      OBVIOUS
    <3>1. S!Expected \in Seq(S!Messages)
      <4>1. 0 \in 0 .. Len(input) /\ 1 .. 0 = {} /\ input \in Seq(S!Values)  BY DEF Reading
      <4> QED BY <4>1, Expectation
    <3> DEFINE e == S!Expected
    <3> HIDE DEF e
    <3>2. e \in Seq(S!Messages) /\ Begins(d, e)  BY <3>1 DEF e
    <3>3. Len(d) <= Len(e) /\ Len(d) \in Nat /\ \A i \in 1 .. Len(d) : d[i] = e[i]  BY <3>2 DEF Begins
    <3>4. SubSeq(d, 1, Len(d)) = SubSeq(e, 1, Len(d))  BY <3>2, <3>3
    <3>5. S!IsPrefix(d, e)  BY <3>3, <3>4 DEF S!IsPrefix
    <3> QED BY <3>5 DEF e
  <2>3. ASSUME NEW d \in Seq(S!Messages)
        PROVE  /\ delivered = d => S!Heard = d
               /\ delivered = Append(d, S!Error) => S!Heard = d
    <3>1. delivered = d => S!Heard = d
      <4> SUFFICES ASSUME delivered = d, d # <<>>, d[Len(d)] = S!Error PROVE FALSE
        BY DEF S!Heard, S!Last
      <4>1. Len(d) \in 1 .. Len(d)  OBVIOUS
      <4>2. d[Len(d)] \in S!Messages  BY <4>1
      <4> QED BY <4>2, MessageNoError
    <3>2. delivered = Append(d, S!Error) => S!Heard = d
      <4> SUFFICES ASSUME delivered = Append(d, S!Error) PROVE S!Heard = d  OBVIOUS
      <4> DEFINE x == S!Error
      <4> HIDE DEF x
      <4>1. delivered = Append(d, x)  BY DEF x
      <4>2. delivered # <<>> /\ Len(delivered) = Len(d) + 1 /\ delivered[Len(delivered)] = x  BY <4>1
      <4>3. SubSeq(delivered, 1, Len(delivered) - 1) = d  BY <4>1, <4>2
      <4> QED BY <4>2, <4>3 DEF S!Heard, S!Last, S!Front, x
    <3> QED BY <3>1, <3>2
  <2>4. S!InOrder
    <3>1. CASE pc # "gone"
      <4>1. delivered \in Seq(S!Messages) /\ Begins(delivered, S!Expected)  BY <3>1, DeliveredBegins
      <4> QED BY <2>2, <2>3, <3>1, <4>1 DEF S!InOrder
    <3>2. CASE pc = "gone"
      <4>1. PICK d \in Seq(S!Messages) :
              /\ Begins(d, S!Expected)
              /\ \/ delivered = d /\ stopped
                 \/ delivered = Append(d, S!Error) /\ (stopped \/ d = S!Expected)
        BY <3>2 DEF Ended
      <4>2. S!Heard = d  BY <2>3, <4>1
      <4> QED BY <2>2, <3>2, <4>1, <4>2 DEF S!InOrder
    <3> QED BY <3>1, <3>2
  <2> QED BY <2>1, <2>4 DEF ReadsInOrder, S!ReadsInOrder
<1> QED BY <1>1, <1>2, <1>3, PTL DEF MCSpec

-----------------------------------------------------------------------------
(* The parser. *)

\* What frames are made of; the break is among them.
Bytes == STRING \cup {E!LineBreak}

\* The line that begins after k ends after k, and at the first break if there is one.
LEMMA LineEnds ==
  ASSUME NEW s \in Seq(Bytes), NEW k \in 0 .. Len(s) - 1
  PROVE  /\ E!LineEnd(s, k) \in k + 1 .. Len(s)
         /\ \A i \in k + 1 .. E!LineEnd(s, k) - 1 : s[i] # E!LineBreak
         /\ E!LineEnd(s, k) = Len(s) \/ s[E!LineEnd(s, k)] = E!LineBreak
<1> DEFINE I == {i \in k + 1 .. Len(s) : s[i] = E!LineBreak}
<1>1. E!LineEnd(s, k) = IF I = {} \/ Min(I) = 0 THEN Len(s) ELSE Min(I)
  BY DEF E!LineEnd, E!SelectInSubSeq, E!Min, Min
<1>2. CASE I = {}
  <2>1. E!LineEnd(s, k) = Len(s)  BY <1>1, <1>2
  <2> QED BY <2>1, <1>2
<1>3. CASE I # {}
  <2>1. I \in SUBSET Nat  OBVIOUS
  <2>2. Min(I) \in I /\ \A i \in I : Min(I) <= i
    <3> HIDE DEF I
    <3> QED BY <1>3, <2>1, Smallest
  <2> DEFINE e == Min(I)
  <2> HIDE DEF e
  <2>3. e \in k + 1 .. Len(s) /\ s[e] = E!LineBreak /\ \A i \in I : e <= i  BY <2>2 DEF e
  <2>4. E!LineEnd(s, k) = e  BY <1>1, <1>3, <2>3 DEF e
  <2>5. \A i \in k + 1 .. e - 1 : i \notin I /\ i \in k + 1 .. Len(s)  BY <2>3
  <2>6. \A i \in k + 1 .. e - 1 : s[i] # E!LineBreak  BY <2>5
  <2> QED BY <2>3, <2>4, <2>6
<1> QED BY <1>2, <1>3

\* Trimming keeps a beginning.
LEMMA Trimmed ==
  ASSUME NEW s \in Seq(Bytes)
  PROVE  E!TrimRight(s) \in Seq(Bytes) /\ Len(E!TrimRight(s)) <= Len(s)
<1> DEFINE K == {0} \cup {i \in DOMAIN s : s[i] # E!LineBreak}
<1>1. K \in SUBSET Nat /\ K # {} /\ Len(s) \in Nat /\ \A i \in K : i <= Len(s)  OBVIOUS
<1>2. Max(K) \in K
  <2> HIDE DEF K
  <2> QED BY <1>1, Greatest
<1>3. E!TrimRight(s) = SubSeq(s, 1, Max(K))  BY DEF E!TrimRight, E!Max, Max
<1> DEFINE m == Max(K)
<1> HIDE DEF m
<1>4. m \in 0 .. Len(s)  BY <1>1, <1>2 DEF m
<1>5. SubSeq(s, 1, m) \in Seq(Bytes) /\ Len(SubSeq(s, 1, m)) = m  BY <1>4
<1> QED BY <1>3, <1>4, <1>5 DEF m

\* A line is no longer than what it is cut from.
LEMMA LineFits ==
  ASSUME NEW s \in Seq(Bytes), NEW k \in 0 .. Len(s) - 1
  PROVE  E!Line(s, k) \in Seq(Bytes) /\ Len(E!Line(s, k)) <= E!LineEnd(s, k) - k
<1> DEFINE e == E!LineEnd(s, k)
<1>1. e \in k + 1 .. Len(s)  BY LineEnds
<1> HIDE DEF e
<1> DEFINE t == SubSeq(s, k + 1, e)
<1>2. t \in Seq(Bytes) /\ Len(t) = e - k  BY <1>1
<1> HIDE DEF t
<1>3. E!TrimRight(t) \in Seq(Bytes) /\ Len(E!TrimRight(t)) <= e - k  BY <1>2, Trimmed
<1> QED BY <1>3 DEF E!Line, t, e

\* Where two frames are the same they have the same lines.
LEMMA SameLine ==
  ASSUME NEW s \in Seq(Bytes), NEW t \in Seq(Bytes), Len(s) = Len(t), NEW k \in 0 .. Len(s) - 1,
         \A i \in k + 1 .. Len(s) : s[i] = t[i]
  PROVE  E!LineEnd(s, k) = E!LineEnd(t, k) /\ E!Line(s, k) = E!Line(t, k)
<1>1. {i \in k + 1 .. Len(s) : s[i] = E!LineBreak} = {i \in k + 1 .. Len(t) : t[i] = E!LineBreak}
  OBVIOUS
<1>2. E!LineEnd(s, k) = E!LineEnd(t, k)
  <2> DEFINE I == {i \in k + 1 .. Len(s) : s[i] = E!LineBreak}
  <2> DEFINE J == {i \in k + 1 .. Len(t) : t[i] = E!LineBreak}
  <2>1. E!LineEnd(s, k) = IF I = {} \/ E!Min(I) = 0 THEN Len(s) ELSE E!Min(I)
    BY DEF E!LineEnd, E!SelectInSubSeq
  <2>2. E!LineEnd(t, k) = IF J = {} \/ E!Min(J) = 0 THEN Len(t) ELSE E!Min(J)
    BY DEF E!LineEnd, E!SelectInSubSeq
  <2>3. I = J  BY <1>1
  <2> HIDE DEF I, J
  <2> QED BY <2>1, <2>2, <2>3
<1> DEFINE e == E!LineEnd(s, k)
<1>3. e \in k + 1 .. Len(s)  BY LineEnds
<1> HIDE DEF e
<1>4. SubSeq(s, k + 1, e) = SubSeq(t, k + 1, e)
  <2> DEFINE a == SubSeq(s, k + 1, e)
  <2> DEFINE b == SubSeq(t, k + 1, e)
  <2>1. a \in Seq(Bytes) /\ b \in Seq(Bytes) /\ Len(a) = e - k /\ Len(b) = e - k  BY <1>3
  <2>2. \A i \in 1 .. e - k : a[i] = s[k + i] /\ b[i] = t[k + i]  BY <1>3
  <2>3. \A i \in 1 .. e - k : k + i \in k + 1 .. Len(s)  BY <1>3
  <2> HIDE DEF a, b
  <2>4. \A i \in 1 .. e - k : a[i] = b[i]  BY <2>2, <2>3
  <2>5. a = b  BY <2>1, <2>4, SameSequence
  <2> QED BY <2>5 DEF a, b
<1> QED BY <1>2, <1>4 DEF E!Line, e

\* No line begins inside another, and where one ends the next begins.
LEMMA NextStart ==
  ASSUME NEW s \in Seq(Bytes), NEW k \in 0 .. Len(s) - 1
  PROVE  /\ \A i \in E!Starts(s) : i < E!LineEnd(s, k) => i <= k
         /\ E!LineEnd(s, k) = Len(s) \/ E!LineEnd(s, k) \in E!Starts(s)
<1> DEFINE e == E!LineEnd(s, k)
<1>1. /\ e \in k + 1 .. Len(s)
      /\ e = Len(s) \/ s[e] = E!LineBreak
      /\ \A i \in k + 1 .. e - 1 : s[i] # E!LineBreak
  BY LineEnds
<1> HIDE DEF e
<1>2. ASSUME NEW i \in E!Starts(s), i < e PROVE i <= k
  <2>1. i \in 0 .. Len(s) - 1 /\ (i = 0 \/ s[i] = E!LineBreak)  BY DEF E!Starts
  <2>2. i \notin k + 1 .. e - 1
    <3> SUFFICES ASSUME i \in k + 1 .. e - 1 PROVE FALSE  OBVIOUS
    <3>1. i # 0 /\ s[i] # E!LineBreak  BY <1>1
    <3> QED BY <2>1, <3>1
  <2>3. Len(s) \in Nat /\ i \in Int /\ k \in Int /\ e \in Int /\ 0 <= i  BY <1>1, <2>1
  <2> HIDE DEF e
  <2> QED BY <1>2, <2>2, <2>3
<1>3. e = Len(s) \/ e \in E!Starts(s)  BY <1>1 DEF E!Starts
<1> QED BY <1>2, <1>3 DEF e

\* The value of a line is shorter than the line by its key and its colon.
LEMMA ValueFits ==
  ASSUME NEW line \in Seq(Bytes), E!HasColon(line)
  PROVE  /\ E!Value(line) \in Seq(Bytes)
         /\ E!Key(line) = <<"data">> => Len(E!Value(line)) <= Len(line) - 2
<1> DEFINE I == {i \in 1 .. Len(line) : line[i] = ":"}
<1> DEFINE c == E!SelectInSeq(line, LAMBDA x : x = ":")
<1>1. I # {} /\ I \in SUBSET Nat  BY DEF E!HasColon, E!Contains
<1>2. Min(I) \in I
  <2> HIDE DEF I
  <2> QED BY <1>1, Smallest
<1>3. c = Min(I)  BY <1>1 DEF E!SelectInSeq, E!Min, Min
<1>4. c \in 1 .. Len(line)  BY <1>2, <1>3
<1>5. E!Key(line) = SubSeq(line, 1, c - 1)  BY DEF E!Key
<1>6. E!Value(line) = E!TrimSpace(SubSeq(line, c + 1, Len(line)))  BY DEF E!Value
<1> HIDE DEF c
<1> DEFINE rest == SubSeq(line, c + 1, Len(line))
<1>7. rest \in Seq(Bytes) /\ Len(rest) = Len(line) - c  BY <1>4
<1>8. E!Key(line) = <<"data">> => c = 2
  <2> DEFINE d == <<"data">>
  <2>1. Len(SubSeq(line, 1, c - 1)) = c - 1  BY <1>4
  <2>2. Len(d) = 1  OBVIOUS
  <2> HIDE DEF d
  <2>3. E!Key(line) = d => c - 1 = 1  BY <1>5, <2>1, <2>2
  <2> QED BY <1>4, <2>3 DEF d
<1> HIDE DEF rest
<1> DEFINE solid == {i \in DOMAIN rest : rest[i] # " "}
<1>9. E!TrimSpace(rest) \in Seq(Bytes) /\ Len(E!TrimSpace(rest)) <= Len(rest)
  <2>1. CASE solid = {}
    <3>1. E!TrimSpace(rest) = <<>>  BY <2>1 DEF E!TrimSpace
    <3>2. <<>> \in Seq(Bytes) /\ Len(<<>>) = 0 /\ Len(rest) \in Nat  BY <1>7
    <3> QED BY <3>1, <3>2
  <2>2. CASE solid # {}
    <3> DEFINE a == CHOOSE i \in solid : \A j \in solid : i <= j
    <3> DEFINE b == CHOOSE i \in solid : \A j \in solid : i >= j
    <3>1. E!TrimSpace(rest) = SubSeq(rest, a, b)  BY <2>2 DEF E!TrimSpace
    <3>2. /\ solid \in SUBSET (1 .. Len(rest)) /\ solid \in SUBSET Nat /\ Len(rest) \in Nat
          /\ \A x \in solid : x <= Len(rest)
      <4>1. Len(rest) \in Nat /\ DOMAIN rest = 1 .. Len(rest)  BY <1>7
      <4>2. solid \in SUBSET (1 .. Len(rest))  BY <4>1
      <4> HIDE DEF solid
      <4>3. \A x \in 1 .. Len(rest) : x \in Nat /\ x <= Len(rest)  BY <4>1
      <4>4. \A x \in solid : x \in Nat /\ x <= Len(rest)  BY <4>2, <4>3
      <4> QED BY <4>1, <4>2, <4>4
    <3>3. \E i \in solid : \A j \in solid : i <= j
      <4> HIDE DEF solid
      <4> QED BY <2>2, <3>2, Least
    <3>4. \E i \in solid : \A j \in solid : i >= j
      <4>1. Max(solid) \in solid /\ \A x \in solid : x <= Max(solid)
        <5> HIDE DEF solid
        <5> QED BY <2>2, <3>2, Greatest
      <4>2. \A x \in solid : Max(solid) >= x  BY <4>1, <3>2
      <4> HIDE DEF solid
      <4> QED BY <4>1, <4>2
    <3>5. a \in solid /\ b \in solid
      <4> HIDE DEF solid
      <4> QED BY <3>3, <3>4
    <3> HIDE DEF a, b
    <3>6. a \in 1 .. Len(rest) /\ b \in 1 .. Len(rest)  BY <3>2, <3>5
    <3>7. SubSeq(rest, a, b) \in Seq(Bytes) /\ Len(SubSeq(rest, a, b)) <= Len(rest)  BY <1>7, <3>6
    <3> QED BY <3>1, <3>7
  <2> QED BY <2>1, <2>2
<1>10. Len(E!TrimSpace(rest)) \in Nat  BY <1>9
<1> QED BY <1>4, <1>6, <1>7, <1>8, <1>9, <1>10 DEF rest

\* What a line adds to the payload is shorter than the line and its end.
LEMMA PieceFits ==
  ASSUME NEW s \in Seq(Bytes), NEW k \in 0 .. Len(s) - 1
  PROVE  /\ E!Piece(s, k) \in Seq(Bytes)
         /\ Len(E!Piece(s, k)) <= E!LineEnd(s, k) - k
<1> DEFINE line == E!Line(s, k)
<1> DEFINE data == E!FieldsOf(s, <<"data">>)
<1> DEFINE sep == IF \E j \in data : j < k THEN <<E!LineBreak>> ELSE <<>>
<1>1. line \in Seq(Bytes) /\ Len(line) <= E!LineEnd(s, k) - k  BY LineFits
<1>2. E!LineEnd(s, k) \in k + 1 .. Len(s)  BY LineEnds
<1>3. E!Piece(s, k) = IF k \notin data THEN <<>> ELSE sep \o E!Value(line)  BY DEF E!Piece
<1>4. k \in data => E!HasColon(line) /\ E!Key(line) = <<"data">>  BY DEF E!FieldsOf
<1>5. sep \in Seq(Bytes) /\ Len(sep) <= 1
  <2>1. E!LineBreak \in Bytes  BY DEF Bytes
  <2> QED BY <2>1
<1> HIDE DEF line, data, sep
<1>6. CASE k \notin data
  <2>1. E!Piece(s, k) = <<>> /\ Len(<<>>) = 0 /\ <<>> \in Seq(Bytes)  BY <1>3, <1>6
  <2> QED BY <1>2, <2>1
<1>7. CASE k \in data
  <2> DEFINE v == E!Value(line)
  <2>1. v \in Seq(Bytes) /\ Len(v) <= Len(line) - 2  BY <1>1, <1>4, <1>7, ValueFits
  <2> HIDE DEF v
  <2>2. sep \o v \in Seq(Bytes) /\ Len(sep \o v) = Len(sep) + Len(v)  BY <1>5, <2>1
  <2>3. E!Piece(s, k) = sep \o v  BY <1>3, <1>7 DEF v
  <2> QED BY <1>1, <1>2, <1>5, <2>1, <2>2, <2>3
<1> QED BY <1>6, <1>7

\* What the lines that begin before k add to the payload.
Payload(s, k) == E!FlattenSeq([i \in 1 .. k |-> E!Piece(s, i - 1)])

\* One more position adds its piece.
LEMMA PayloadGrows ==
  ASSUME NEW s \in Seq(Bytes)
  PROVE  /\ Payload(s, 0) = <<>>
         /\ \A k \in 0 .. Len(s) : Payload(s, k) \in Seq(Bytes)
         /\ \A k \in 0 .. Len(s) - 1 : Payload(s, k + 1) = Payload(s, k) \o E!Piece(s, k)
<1> DEFINE n == Len(s)
<1> DEFINE p == [i \in 1 .. n |-> E!Piece(s, i - 1)]
<1>1. n \in Nat /\ Links(p, n, Bytes)
  <2>1. n \in Nat /\ \A i \in 1 .. n : i - 1 \in 0 .. Len(s) - 1  OBVIOUS
  <2>2. \A i \in 1 .. n : p[i] \in Seq(Bytes)  BY <2>1, PieceFits
  <2> QED BY <2>1, <2>2 DEF Links
<1>2. ASSUME NEW k \in 0 .. n PROVE Payload(s, k) = FlatFirst(p, k)
  <2>1. [i \in 1 .. k |-> E!Piece(s, i - 1)] = [i \in 1 .. k |-> p[i]]  OBVIOUS
  <2> DEFINE t == [i \in 1 .. k |-> p[i]]
  <2>2. E!FlattenSeq(t) = Flat(t)
    <3> HIDE DEF t
    <3> QED BY DEF Flat, Chained, E!FlattenSeq
  <2> HIDE DEF p
  <2> QED BY <2>1, <2>2 DEF Payload, FlatFirst
<1>3. \A k \in 0 .. n - 1 : p[k + 1] = E!Piece(s, k)
  <2>1. \A k \in 0 .. n - 1 : k + 1 \in 1 .. n /\ (k + 1) - 1 = k  BY <1>1
  <2> QED BY <2>1
<1> HIDE DEF p, n
<1>4. /\ FlatFirst(p, 0) = <<>>
      /\ \A k \in 0 .. n : FlatFirst(p, k) \in Seq(Bytes)
      /\ \A k \in 0 .. n - 1 : FlatFirst(p, k + 1) = FlatFirst(p, k) \o p[k + 1]
  BY <1>1, FlatGrows
<1>5. 0 \in 0 .. n /\ \A k \in 0 .. n - 1 : k \in 0 .. n /\ k + 1 \in 0 .. n  BY <1>1
<1> QED BY <1>2, <1>3, <1>4, <1>5 DEF n

\* Read to its end, a line has added its piece and nothing else has.
LEMMA PayloadOfLine ==
  ASSUME NEW s \in Seq(Bytes), NEW k \in 0 .. Len(s) - 1
  PROVE  Payload(s, E!LineEnd(s, k)) = Payload(s, k) \o E!Piece(s, k)
<1> DEFINE e == E!LineEnd(s, k)
<1> DEFINE all == Payload(s, k) \o E!Piece(s, k)
<1>1. e \in k + 1 .. Len(s) /\ \A i \in E!Starts(s) : i < e => i <= k  BY LineEnds, NextStart
<1> HIDE DEF e
<1>2. Payload(s, k + 1) = all /\ all \in Seq(Bytes)
  <2>1. k \in 0 .. Len(s)  OBVIOUS
  <2> QED BY <2>1, PayloadGrows, PieceFits
<1> HIDE DEF all
<1> DEFINE F == {i \in 0 .. e - (k + 1) : Payload(s, k + 1 + i) = all}
<1>3. 0 \in F
  <2>1. 0 \in 0 .. e - (k + 1) /\ k + 1 + 0 = k + 1  BY <1>1
  <2> QED BY <1>2, <2>1
<1>4. ASSUME NEW i \in 0 .. (e - (k + 1)) - 1, i \in F PROVE i + 1 \in F
  <2> DEFINE j == k + 1 + i
  <2>1. /\ j \in 0 .. Len(s) - 1 /\ k + 1 + (i + 1) = j + 1 /\ i + 1 \in 0 .. e - (k + 1)
        /\ j < e /\ ~(j <= k) /\ Payload(s, j) = all
    BY <1>1, <1>4
  <2> HIDE DEF j
  <2>2. j \notin E!Starts(s)  BY <1>1, <2>1
  <2>3. E!Piece(s, j) = <<>>  BY <2>2 DEF E!Piece, E!FieldsOf
  <2>4. Payload(s, j + 1) = all \o <<>>  BY <2>1, <2>3, PayloadGrows
  <2>5. all \o <<>> = all  BY <1>2
  <2> QED BY <2>1, <2>4, <2>5
<1>5. \A i \in 0 .. e - (k + 1) : i \in F
  <2>1. e - (k + 1) \in Nat  BY <1>1
  <2> HIDE DEF F
  <2> QED BY <1>3, <1>4, <2>1, UpTo
<1>6. e - (k + 1) \in 0 .. e - (k + 1) /\ k + 1 + (e - (k + 1)) = e  BY <1>1
<1>7. Payload(s, e) = all  BY <1>5, <1>6
<1> QED BY <1>7 DEF e, all

\* What is copied into a frame ends up behind what is left of it.
LEMMA Overwritten ==
  ASSUME NEW s \in Seq(Bytes), NEW v \in Seq(Bytes), NEW w \in Nat, w + Len(v) <= Len(s)
  PROVE  /\ E!Overwrite(s, w, v) \in Seq(Bytes) /\ Len(E!Overwrite(s, w, v)) = Len(s)
         /\ SubSeq(E!Overwrite(s, w, v), 1, w + Len(v)) = SubSeq(s, 1, w) \o v
         /\ \A i \in w + Len(v) + 1 .. Len(s) : E!Overwrite(s, w, v)[i] = s[i]
<1> DEFINE n == Len(s)
<1> DEFINE m == Len(v)
<1> DEFINE o == E!Overwrite(s, w, v)
<1>1. n \in Nat /\ m \in Nat /\ DOMAIN s = 1 .. n /\ s = [i \in 1 .. n |-> s[i]]  OBVIOUS
<1>2. o = [i \in 1 .. n |-> IF i \in w + 1 .. w + m THEN v[i - w] ELSE s[i]]
  BY <1>1 DEF E!Overwrite
<1>3. \A i \in 1 .. n : s[i] \in Bytes  OBVIOUS
<1>4. \A i \in w + 1 .. w + m : i - w \in 1 .. m  BY <1>1
<1>5. \A i \in 1 .. m : v[i] \in Bytes  OBVIOUS
<1> HIDE DEF o, n
<1>6. o \in [1 .. n -> Bytes]  BY <1>2, <1>3, <1>4, <1>5
<1>7. o \in Seq(Bytes) /\ Len(o) = n
  <2>1. n \in Nat  BY <1>1
  <2>2. o \in Seq(Bytes)  BY <1>6, <2>1
  <2>3. DOMAIN o = 1 .. n  BY <1>6
  <2> QED BY <2>1, <2>2, <2>3
<1>8. ASSUME NEW i \in w + m + 1 .. n PROVE o[i] = s[i]
  <2>1. i \in 1 .. n /\ i \notin w + 1 .. w + m  BY <1>1
  <2> QED BY <1>2, <2>1
<1>9. SubSeq(o, 1, w + m) = SubSeq(s, 1, w) \o v
  <2> DEFINE a == SubSeq(o, 1, w + m)
  <2> DEFINE h == SubSeq(s, 1, w)
  <2> DEFINE b == h \o v
  <2>1. w + m <= n  BY DEF n
  <2>2. a \in Seq(Bytes) /\ Len(a) = w + m /\ \A i \in 1 .. w + m : a[i] = o[i]  BY <1>1, <1>7, <2>1
  <2>3. h \in Seq(Bytes) /\ Len(h) = w /\ \A i \in 1 .. w : h[i] = s[i]
    BY <1>1, <2>1 DEF n
  <2> HIDE DEF h
  <2>4. b \in Seq(Bytes) /\ Len(b) = w + m  BY <2>3
  <2>5. ASSUME NEW i \in 1 .. w + m PROVE a[i] = b[i]
    <3>1. i \in 1 .. n /\ a[i] = o[i]  BY <1>1, <2>1, <2>2
    <3>2. CASE i <= w
      <4>1. i \in 1 .. w /\ i \notin w + 1 .. w + m  BY <3>2
      <4>2. b[i] = h[i] /\ h[i] = s[i]  BY <2>3, <4>1
      <4>3. o[i] = s[i]  BY <1>2, <3>1, <4>1
      <4> QED BY <3>1, <4>2, <4>3
    <3>3. CASE i > w
      <4>1. i \in w + 1 .. w + m /\ i - w \in 1 .. m  BY <1>1, <3>3
      <4>2. b[i] = v[i - w]  BY <2>3, <4>1
      <4>3. o[i] = v[i - w]  BY <1>2, <3>1, <4>1
      <4> QED BY <3>1, <4>2, <4>3
    <3>4. i \in Int  OBVIOUS
    <3> HIDE DEF a, b
    <3> QED BY <3>2, <3>3, <3>4
  <2> HIDE DEF a, b
  <2>6. a = b  BY <2>2, <2>4, <2>5, SameSequence
  <2> QED BY <2>6 DEF a, b, h
<1> QED BY <1>7, <1>8, <1>9 DEF o, n

\* The fields of a key that begin before k, and the last name among them.
FieldsBefore(s, key, k) == {i \in E!FieldsOf(s, key) : i < k}

NameBefore(s, k) ==
  LET events == FieldsBefore(s, <<"event">>, k)
  IN  IF events = {} THEN <<>> ELSE E!Value(E!Line(s, Max(events)))

\* A line that is read adds itself to the fields of its key.
LEMMA FieldsGrow ==
  ASSUME NEW s \in Seq(Bytes), NEW k \in E!Starts(s), NEW key
  PROVE  /\ FieldsBefore(s, key, E!LineEnd(s, k)) =
              IF k \in E!FieldsOf(s, key) THEN FieldsBefore(s, key, k) \cup {k}
              ELSE FieldsBefore(s, key, k)
         /\ FieldsBefore(s, key, k) \in SUBSET (0 .. k - 1)
<1> DEFINE e == E!LineEnd(s, k)
<1>1. k \in 0 .. Len(s) - 1 /\ Len(s) \in Nat  BY DEF E!Starts
<1>2. e \in k + 1 .. Len(s) /\ \A i \in E!Starts(s) : i < e => i <= k  BY <1>1, LineEnds, NextStart
<1> HIDE DEF e
<1>3. E!FieldsOf(s, key) \in SUBSET E!Starts(s) /\ \A i \in E!Starts(s) : i \in Int /\ 0 <= i
  BY <1>1 DEF E!FieldsOf, E!Starts
<1>4. \A i \in E!FieldsOf(s, key) : i < e <=> i < k \/ i = k
  <2> SUFFICES ASSUME NEW i \in E!FieldsOf(s, key) PROVE i < e <=> i < k \/ i = k  OBVIOUS
  <2>1. i \in Int /\ (i < e => i <= k)  BY <1>2, <1>3
  <2> QED BY <1>1, <1>2, <2>1
<1>5. FieldsBefore(s, key, k) \in SUBSET (0 .. k - 1)
  <2> SUFFICES ASSUME NEW i \in E!FieldsOf(s, key), i < k PROVE i \in 0 .. k - 1  BY DEF FieldsBefore
  <2>1. i \in Int /\ 0 <= i  BY <1>3
  <2> QED BY <1>1, <2>1
<1>6. FieldsBefore(s, key, e) =
        IF k \in E!FieldsOf(s, key) THEN FieldsBefore(s, key, k) \cup {k} ELSE FieldsBefore(s, key, k)
  BY <1>4 DEF FieldsBefore
<1> QED BY <1>5, <1>6 DEF e

\* An event line that is read is the last name, and another line leaves it.
LEMMA NameGrows ==
  ASSUME NEW s \in Seq(Bytes), NEW k \in E!Starts(s)
  PROVE  NameBefore(s, E!LineEnd(s, k)) =
           IF k \in E!FieldsOf(s, <<"event">>) THEN E!Value(E!Line(s, k)) ELSE NameBefore(s, k)
<1> DEFINE event == <<"event">>
<1> DEFINE A == FieldsBefore(s, event, k)
<1> DEFINE B == FieldsBefore(s, event, E!LineEnd(s, k))
<1>1. B = (IF k \in E!FieldsOf(s, event) THEN A \cup {k} ELSE A) /\ A \in SUBSET (0 .. k - 1)
  BY FieldsGrow
<1>2. NameBefore(s, E!LineEnd(s, k)) = IF B = {} THEN <<>> ELSE E!Value(E!Line(s, Max(B)))
  BY DEF NameBefore
<1>3. NameBefore(s, k) = IF A = {} THEN <<>> ELSE E!Value(E!Line(s, Max(A)))  BY DEF NameBefore
<1>4. k \in Nat  BY DEF E!Starts
<1> HIDE DEF A, B, event
<1>5. CASE k \in E!FieldsOf(s, event)
  <2>1. B = A \cup {k} /\ B \in SUBSET Nat /\ B # {} /\ \A x \in B : x <= k  BY <1>1, <1>4, <1>5
  <2>2. Max(B) \in B /\ \A x \in B : x <= Max(B)  BY <1>4, <2>1, Greatest
  <2> DEFINE m == Max(B)
  <2> HIDE DEF m
  <2>3. m \in B /\ m \in Nat /\ k <= m /\ m <= k
    <3>1. m \in B /\ \A x \in B : x <= m  BY <2>2 DEF m
    <3>2. k \in B  BY <2>1
    <3> QED BY <2>1, <3>1, <3>2
  <2>4. m = k  BY <1>4, <2>3
  <2> QED BY <1>2, <1>5, <2>1, <2>4 DEF event, m
<1>6. CASE k \notin E!FieldsOf(s, event)  BY <1>1, <1>2, <1>3, <1>6 DEF event
<1> QED BY <1>5, <1>6

\* What is written stays behind what is read, and what is unread is as it arrived.
Apart ==
  /\ original \in Seq(Bytes) /\ frame \in Seq(Bytes) /\ Len(frame) = Len(original)
  /\ start \in 0 .. Len(original) /\ written \in 0 .. start /\ fields \in Nat
  /\ \A i \in start + 1 .. Len(original) : frame[i] = original[i]

\* The lines read so far have given what they give when the frame is split.
SoFar ==
  /\ start = Len(original) \/ start \in E!Starts(original)
  /\ \A i \in E!Starts(original) : i < start => ~E!Bad(E!Line(original, i))
  /\ fields > 0 <=> FieldsBefore(original, <<"data">>, start) # {}
  /\ SubSeq(frame, 1, written) = Payload(original, start)
  /\ name = NameBefore(original, start)

Compacting == Apart /\ (IF result = E!Parsing THEN SoFar ELSE result = E!Expected)

\* Before the first line nothing is read.
LEMMA CompactingInit == ASSUME E!EventAssumption, E!Init PROVE Compacting
<1> USE DEF E!Init
<1>1. original \in Seq(Bytes)
  <2>1. original \in Seq(STRING)  BY DEF E!EventAssumption
  <2>2. \A q \in Seq(STRING) : q \in Seq(Bytes)  BY DEF Bytes
  <2> QED BY <2>1, <2>2
<1>2. Apart  BY <1>1 DEF Apart
<1>3. \A i \in E!Starts(original) : ~(i < 0)  BY <1>1 DEF E!Starts
<1>4. \A key : FieldsBefore(original, key, 0) = {}  BY <1>3 DEF FieldsBefore, E!FieldsOf
<1>5. NameBefore(original, 0) = <<>>  BY <1>4 DEF NameBefore
<1>6. SubSeq(frame, 1, 0) = <<>>  BY <1>1
<1>7. Payload(original, 0) = <<>>  BY <1>1, PayloadGrows
<1>8. Len(original) = 0 \/ 0 \in E!Starts(original)
  <2>1. Len(original) \in Nat  BY <1>1
  <2> QED BY <2>1 DEF E!Starts
<1>9. SoFar
  <2>1. fields > 0 <=> FieldsBefore(original, <<"data">>, start) # {}  BY <1>4
  <2>2. SubSeq(frame, 1, written) = Payload(original, start)  BY <1>6, <1>7
  <2>3. name = NameBefore(original, start)  BY <1>5
  <2> QED BY <1>3, <1>8, <2>1, <2>2, <2>3 DEF SoFar
<1> QED BY <1>2, <1>9 DEF Compacting

\* The line that is read next is one of the frame that arrived.
LEMMA NextLine ==
  ASSUME Compacting, result = E!Parsing, start < Len(frame)
  PROVE  /\ start \in E!Starts(original) /\ start \in 0 .. Len(original) - 1
         /\ E!LineEnd(frame, start) = E!LineEnd(original, start)
         /\ E!Line(frame, start) = E!Line(original, start)
         /\ E!LineEnd(original, start) \in start + 1 .. Len(original)
<1>1. Apart /\ SoFar  BY DEF Compacting
<1>2. start \in E!Starts(original) /\ start \in 0 .. Len(original) - 1  BY <1>1 DEF Apart, SoFar
<1>3. /\ original \in Seq(Bytes) /\ frame \in Seq(Bytes) /\ Len(frame) = Len(original)
      /\ start \in 0 .. Len(frame) - 1 /\ \A i \in start + 1 .. Len(frame) : frame[i] = original[i]
  BY <1>1, <1>2 DEF Apart
<1>4. E!LineEnd(frame, start) = E!LineEnd(original, start) /\ E!Line(frame, start) = E!Line(original, start)
  BY <1>3, SameLine
<1>5. E!LineEnd(original, start) \in start + 1 .. Len(original)  BY <1>2, <1>3, LineEnds
<1> QED BY <1>2, <1>4, <1>5

\* What reading a line that is not broken leaves to be shown of it: what it did to the
\* buffer.
LEMMA LineRead ==
  ASSUME Compacting, result = E!Parsing, start < Len(frame), UNCHANGED original,
         start' = E!LineEnd(frame, start), ~E!Bad(E!Line(original, start)), result' = result,
         frame' \in Seq(Bytes), Len(frame') = Len(frame), written' \in Nat, fields' \in Nat,
         written' <= written + Len(E!Piece(original, start)),
         \A i \in start' + 1 .. Len(frame) : frame'[i] = frame[i],
         fields' > 0 <=> fields > 0 \/ start \in E!FieldsOf(original, <<"data">>),
         SubSeq(frame', 1, written') = SubSeq(frame, 1, written) \o E!Piece(original, start),
         name' = IF start \in E!FieldsOf(original, <<"event">>) THEN E!Value(E!Line(original, start))
                 ELSE name
  PROVE  Compacting'
<1> DEFINE e == E!LineEnd(original, start)
<1> DEFINE p == E!Piece(original, start)
<1> DEFINE n == Len(original)
<1>1. Apart /\ SoFar  BY DEF Compacting
<1>2. /\ start \in E!Starts(original) /\ start \in 0 .. n - 1 /\ start' = e
      /\ e \in start + 1 .. n /\ n \in Nat /\ original \in Seq(Bytes)
  BY <1>1, NextLine DEF Apart
<1>3. p \in Seq(Bytes) /\ Len(p) <= e - start  BY <1>2, PieceFits
<1>4. Apart'
  <2>1. Len(p) \in Nat /\ written \in 0 .. start  BY <1>1, <1>3 DEF Apart
  <2>2. written' \in 0 .. start'
    <3> HIDE DEF p, e, n
    <3>1. written' <= written + Len(p)  BY DEF p
    <3> QED BY <1>2, <1>3, <2>1, <3>1
  <2>3. start' \in 0 .. n /\ n' = n  BY <1>2
  <2>4. \A i \in start' + 1 .. n : frame'[i] = original[i]
    <3>1. Len(frame) = n /\ \A i \in start + 1 .. n : frame[i] = original[i]  BY <1>1 DEF Apart
    <3>2. \A i \in start' + 1 .. n : i \in start + 1 .. n  BY <1>2
    <3> QED BY <3>1, <3>2
  <2> QED BY <1>1, <2>2, <2>3, <2>4 DEF Apart
<1>5. start' = n \/ start' \in E!Starts(original)  BY <1>2, NextStart
<1>6. \A i \in E!Starts(original) : i < start' => ~E!Bad(E!Line(original, i))
  <2> SUFFICES ASSUME NEW i \in E!Starts(original), i < e PROVE ~E!Bad(E!Line(original, i))  BY <1>2
  <2>1. i <= start /\ i \in Int  BY <1>2, NextStart DEF E!Starts
  <2>2. i < start \/ i = start  BY <1>2, <2>1
  <2> QED BY <1>1, <2>2 DEF SoFar
<1>7. fields' > 0 <=> FieldsBefore(original, <<"data">>, start') # {}
  <2> DEFINE data == <<"data">>
  <2> DEFINE A == FieldsBefore(original, data, start)
  <2> DEFINE B == FieldsBefore(original, data, e)
  <2>1. B = IF start \in E!FieldsOf(original, data) THEN A \cup {start} ELSE A  BY <1>2, FieldsGrow
  <2>2. fields > 0 <=> A # {}  BY <1>1 DEF SoFar
  <2>3. fields' > 0 <=> fields > 0 \/ start \in E!FieldsOf(original, data)  OBVIOUS
  <2> HIDE DEF A, B, data
  <2>4. fields' > 0 <=> B # {}  BY <2>1, <2>2, <2>3
  <2> QED BY <1>2, <2>4 DEF B, data
<1>8. SubSeq(frame', 1, written') = Payload(original, start')
  <2>1. Payload(original, e) = Payload(original, start) \o p  BY <1>2, PayloadOfLine
  <2> QED BY <1>1, <1>2, <2>1 DEF SoFar
<1>9. name' = NameBefore(original, start')
  <2>1. NameBefore(original, e) =
          IF start \in E!FieldsOf(original, <<"event">>) THEN E!Value(E!Line(original, start))
          ELSE NameBefore(original, start)
    BY <1>2, NameGrows
  <2> QED BY <1>1, <1>2, <2>1 DEF SoFar
<1>10. SoFar'  BY <1>5, <1>6, <1>7, <1>8, <1>9 DEF SoFar
<1>11. result' = E!Parsing /\ E!Parsing' = E!Parsing  BY DEF E!Parsing
<1> QED BY <1>4, <1>10, <1>11 DEF Compacting

\* A line is broken, adds to the payload, is a name, or is passed over.
LEMMA ParseLineKeeps == ASSUME Compacting, E!ParseLine PROVE Compacting'
<1> DEFINE line == E!Line(original, start)
<1> DEFINE data == <<"data">>
<1> DEFINE event == <<"event">>
<1> DEFINE p == E!Piece(original, start)
<1>1. result = E!Parsing /\ start < Len(frame) /\ start' = E!LineEnd(frame, start) /\ UNCHANGED original
  BY DEF E!ParseLine
<1>2. /\ start \in E!Starts(original) /\ start \in 0 .. Len(original) - 1
      /\ start' = E!LineEnd(original, start)
      /\ E!Line(frame, start) = line
      /\ start' \in start + 1 .. Len(original)
  BY <1>1, NextLine
<1>3. Apart /\ SoFar  BY <1>1 DEF Compacting
<1>4. /\ frame \in Seq(Bytes) /\ original \in Seq(Bytes) /\ Len(frame) = Len(original)
      /\ written \in Nat /\ fields \in Nat /\ written <= start
  BY <1>3 DEF Apart
<1>5. \/ E!Bad(line) /\ result' = E!Malformed /\ UNCHANGED <<frame, written, fields, name>>
      \/ /\ line # <<>> /\ E!HasColon(line) /\ E!Key(line) = data
         /\ E!Compacted(E!Value(line)) /\ UNCHANGED <<name, result>>
      \/ /\ line # <<>> /\ E!HasColon(line) /\ E!Key(line) = event
         /\ name' = E!Value(line) /\ UNCHANGED <<frame, written, fields, result>>
      \/ /\ line = <<>> \/ (E!HasColon(line) /\ E!Key(line) \notin {data, event})
         /\ UNCHANGED <<frame, written, fields, name, result>>
  <2> HIDE DEF line
  <2> QED BY <1>2 DEF E!ParseLine, E!Bad
<1>6. /\ start \in E!FieldsOf(original, data) <=> E!HasColon(line) /\ E!Key(line) = data
      /\ start \in E!FieldsOf(original, event) <=> E!HasColon(line) /\ E!Key(line) = event
  BY <1>2 DEF E!FieldsOf
<1>7. line = <<>> => ~E!HasColon(line)
  <2> HIDE DEF line
  <2>1. Len(<<>>) = 0  OBVIOUS
  <2> QED BY <2>1 DEF E!HasColon, E!Contains
<1>8. data # event  OBVIOUS
<1>9. p = IF start \notin E!FieldsOf(original, data) THEN <<>>
          ELSE (IF FieldsBefore(original, data, start) # {} THEN <<E!LineBreak>> ELSE <<>>) \o E!Value(line)
  BY DEF E!Piece, FieldsBefore
<1>10. CASE E!Bad(line) /\ result' = E!Malformed /\ UNCHANGED <<frame, written, fields, name>>
  <2>1. Apart'
    <3>1. \A i \in start' + 1 .. Len(original) : i \in start + 1 .. Len(original)  BY <1>2
    <3>2. start' \in 0 .. Len(original) /\ written \in 0 .. start'  BY <1>2, <1>4
    <3> QED BY <1>1, <1>3, <1>10, <3>1, <3>2 DEF Apart
  <2>2. E!Expected = E!Malformed  BY <1>2, <1>10 DEF E!Expected
  <2>3. E!Expected' = E!Expected  BY <1>1 DEF E!Expected
  <2>4. E!Malformed # E!Parsing /\ E!Parsing' = E!Parsing  BY DEF E!Malformed, E!Parsing
  <2>5. result' # E!Parsing' /\ result' = E!Expected'  BY <1>10, <2>2, <2>3, <2>4
  <2> QED BY <2>1, <2>5 DEF Compacting
<1>11. CASE /\ E!HasColon(line) /\ E!Key(line) = data
            /\ E!Compacted(E!Value(line)) /\ UNCHANGED <<name, result>>
  <2> DEFINE value == E!Value(line)
  <2> DEFINE o == E!Overwrite(frame, written, p)
  <2>1. fields > 0 <=> FieldsBefore(original, data, start) # {}  BY <1>3 DEF SoFar
  <2>2. p = IF fields > 0 THEN <<E!LineBreak>> \o value ELSE <<>> \o value  BY <1>6, <1>9, <1>11, <2>1
  <2>3. value \in Seq(Bytes)
    <3>1. line \in Seq(Bytes)  BY <1>2, <1>4, LineFits
    <3> HIDE DEF line
    <3> QED BY <1>11, <3>1, ValueFits
  <2>4. <<>> \o value = value
    <3> HIDE DEF value
    <3> QED BY <2>3
  <2>5. p = IF fields > 0 THEN <<E!LineBreak>> \o value ELSE value  BY <2>2, <2>4
  <2>6. frame' = o /\ written' = written + Len(p) /\ fields' = fields + 1
    BY <1>11, <2>5 DEF E!Compacted
  <2>7. p \in Seq(Bytes) /\ Len(p) \in Nat /\ Len(p) <= start' - start
    <3>1. p \in Seq(Bytes) /\ Len(p) <= start' - start  BY <1>2, <1>4, PieceFits
    <3> HIDE DEF p
    <3> QED BY <3>1
  <2>8. written + Len(p) <= start' /\ written + Len(p) <= Len(frame) /\ Len(frame) \in Nat /\ start' \in Nat
    <3> HIDE DEF p
    <3> QED BY <1>2, <1>4, <2>7
  <2>9. /\ o \in Seq(Bytes) /\ Len(o) = Len(frame)
        /\ SubSeq(o, 1, written + Len(p)) = SubSeq(frame, 1, written) \o p
        /\ \A i \in written + Len(p) + 1 .. Len(frame) : o[i] = frame[i]
    <3> HIDE DEF p
    <3> QED BY <1>4, <2>7, <2>8, Overwritten
  <2>10. \A i \in start' + 1 .. Len(frame) : o[i] = frame[i]
    <3> HIDE DEF p, o
    <3> SUFFICES ASSUME NEW i \in start' + 1 .. Len(frame) PROVE o[i] = frame[i]  OBVIOUS
    <3> DEFINE m == written + Len(p)
    <3>1. m \in Nat /\ m <= start'  BY <1>4, <2>7, <2>8
    <3> HIDE DEF m
    <3> DEFINE e == start'
    <3> DEFINE n == Len(frame)
    <3>2. e \in Nat /\ n \in Nat /\ m <= e /\ i \in e + 1 .. n  BY <2>8, <3>1
    <3> HIDE DEF e, n
    <3>3. i \in m + 1 .. n  BY <3>1, <3>2
    <3> QED BY <2>9, <3>3 DEF m, n
  <2>11. ~E!Bad(line)  BY <1>11 DEF E!Bad
  <2>12. start \in E!FieldsOf(original, data) /\ start \notin E!FieldsOf(original, event)
    BY <1>6, <1>8, <1>11
  <2>13. /\ frame' \in Seq(Bytes) /\ Len(frame') = Len(frame) /\ written' \in Nat /\ fields' \in Nat
         /\ written' <= written + Len(p) /\ fields' > 0 /\ result' = result /\ name' = name
         /\ SubSeq(frame', 1, written') = SubSeq(frame, 1, written) \o p
         /\ \A i \in start' + 1 .. Len(frame) : frame'[i] = frame[i]
    <3> HIDE DEF p, o
    <3> QED BY <1>4, <1>11, <2>6, <2>7, <2>9, <2>10
  <2> QED BY <1>1, <2>11, <2>12, <2>13, LineRead
<1>12. ASSUME start \notin E!FieldsOf(original, data), ~E!Bad(line),
              UNCHANGED <<frame, written, fields, result>>,
              name' = IF start \in E!FieldsOf(original, event) THEN E!Value(line) ELSE name
       PROVE  Compacting'
  <2>1. p = <<>> /\ Len(p) = 0  BY <1>9, <1>12
  <2>2. SubSeq(frame, 1, written) \o p = SubSeq(frame, 1, written)
    <3> DEFINE h == SubSeq(frame, 1, written)
    <3>1. h \in Seq(Bytes)
      <4>1. Len(frame) \in Nat /\ written <= Len(frame)  BY <1>2, <1>4
      <4> QED BY <1>4, <4>1
    <3> HIDE DEF h, p
    <3>2. h \o p = h  BY <2>1, <3>1
    <3> QED BY <3>2 DEF h
  <2>3. /\ frame' \in Seq(Bytes) /\ Len(frame') = Len(frame) /\ written' \in Nat /\ fields' \in Nat
        /\ written' <= written + Len(p) /\ result' = result
        /\ fields' > 0 <=> fields > 0 \/ start \in E!FieldsOf(original, data)
        /\ SubSeq(frame', 1, written') = SubSeq(frame, 1, written) \o p
        /\ \A i \in start' + 1 .. Len(frame) : frame'[i] = frame[i]
    <3> HIDE DEF p
    <3> QED BY <1>4, <1>12, <2>1, <2>2
  <2> QED BY <1>1, <1>12, <2>3, LineRead
<1>13. CASE /\ E!HasColon(line) /\ E!Key(line) = event
            /\ name' = E!Value(line) /\ UNCHANGED <<frame, written, fields, result>>
  <2>1. start \notin E!FieldsOf(original, data) /\ start \in E!FieldsOf(original, event)
    BY <1>6, <1>8, <1>13
  <2>2. ~E!Bad(line)  BY <1>13 DEF E!Bad
  <2> QED BY <1>12, <1>13, <2>1, <2>2
<1>14. CASE /\ line = <<>> \/ (E!HasColon(line) /\ E!Key(line) \notin {data, event})
            /\ UNCHANGED <<frame, written, fields, name, result>>
  <2>1. start \notin E!FieldsOf(original, data) /\ start \notin E!FieldsOf(original, event)
    BY <1>6, <1>7, <1>14
  <2>2. ~E!Bad(line)  BY <1>14 DEF E!Bad
  <2> QED BY <1>12, <1>14, <2>1, <2>2
<1> HIDE DEF line, data, event
<1> QED BY <1>5, <1>10, <1>11, <1>13, <1>14

\* When no line is left, what was gathered is what splitting gives.
LEMMA ReturnKeeps == ASSUME Compacting, E!Return PROVE Compacting'
<1> DEFINE n == Len(original)
<1> DEFINE events == E!FieldsOf(original, <<"event">>)
<1> DEFINE payload == E!FlattenSeq([i \in DOMAIN original |-> E!Piece(original, i - 1)])
<1> DEFINE last == IF events = {} THEN <<>> ELSE E!Value(E!Line(original, E!Max(events)))
<1>1. /\ result = E!Parsing /\ start = Len(frame)
      /\ UNCHANGED <<original, frame, start, written, fields, name>>
      /\ result' = IF name = <<>> /\ written = 0 THEN E!Empty ELSE E!Event(name, SubSeq(frame, 1, written))
  BY DEF E!Return
<1>2. Apart /\ SoFar  BY <1>1 DEF Compacting
<1>3. /\ original \in Seq(Bytes) /\ frame \in Seq(Bytes) /\ n \in Nat /\ start = n
      /\ Len(frame) = n /\ written \in 0 .. n
  BY <1>1, <1>2 DEF Apart
<1>4. \A i \in E!Starts(original) : i < n  BY <1>3 DEF E!Starts
<1>5. ~\E i \in E!Starts(original) : E!Bad(E!Line(original, i))  BY <1>2, <1>3, <1>4 DEF SoFar
<1>6. payload = SubSeq(frame, 1, written)
  <2>1. DOMAIN original = 1 .. n  BY <1>3
  <2> QED BY <1>2, <1>3, <2>1 DEF SoFar, Payload
<1>7. last = name
  <2>1. FieldsBefore(original, <<"event">>, n) = events  BY <1>4 DEF FieldsBefore, E!FieldsOf
  <2>2. NameBefore(original, n) = IF events = {} THEN <<>> ELSE E!Value(E!Line(original, Max(events)))
    BY <2>1 DEF NameBefore
  <2> HIDE DEF events
  <2>3. E!Max(events) = Max(events)  BY DEF E!Max, Max
  <2> QED BY <1>2, <1>3, <2>2, <2>3 DEF SoFar
<1>8. written = 0 <=> payload = <<>>
  <2> DEFINE h == SubSeq(frame, 1, written)
  <2>1. Len(h) = written /\ h \in Seq(Bytes)  BY <1>3
  <2> HIDE DEF h, payload
  <2>2. written = 0 <=> h = <<>>  BY <2>1
  <2> QED BY <1>6, <2>2 DEF h
<1>9. E!Expected = IF last = <<>> /\ payload = <<>> THEN E!Empty ELSE E!Event(last, payload)
  BY <1>5 DEF E!Expected
<1>10. result' = E!Expected
  <2> HIDE DEF last, payload
  <2> QED BY <1>1, <1>6, <1>7, <1>8, <1>9
<1>11. E!Expected # E!Parsing
  <2> HIDE DEF last, payload
  <2> QED BY <1>9 DEF E!Empty, E!Event, E!Parsing
<1>12. E!Expected' = E!Expected /\ E!Parsing' = E!Parsing  BY <1>1 DEF E!Expected, E!Parsing
<1>13. Apart'  BY <1>1, <1>2 DEF Apart
<1> QED BY <1>10, <1>11, <1>12, <1>13 DEF Compacting

\* Every step keeps the invariant.
LEMMA CompactingStep == ASSUME Compacting, E!Next \/ UNCHANGED eventVars PROVE Compacting'
<1>1. CASE UNCHANGED eventVars
  <2>1. E!Expected' = E!Expected /\ E!Parsing' = E!Parsing  BY <1>1 DEF eventVars, E!Expected, E!Parsing
  <2>2. Apart'  BY <1>1 DEF Compacting, Apart, eventVars
  <2>3. SoFar => SoFar'  BY <1>1 DEF SoFar, eventVars
  <2> QED BY <1>1, <2>1, <2>2, <2>3 DEF Compacting, eventVars
<1> QED BY <1>1, ParseLineKeeps, ReturnKeeps DEF E!Next

\* Every frame parses to its last event name and its data values joined by line breaks, or
\* fails if one of its lines has no colon, although the values are written into the buffer
\* the lines are still read from; what is written stays behind what is read, and the unread
\* bytes are the ones that arrived (parseSSEFrame).
THEOREM ParsesInPlace == MCSpec => []ParsedInPlace
<1>1. MCInit => Compacting  BY TransportsAssumption, CompactingInit DEF MCInit
<1>2. Compacting /\ [MCNext]_<<transport, vars, eventVars, stdioVars>> => Compacting'
  BY CompactingStep DEF MCNext
<1>3. ASSUME Compacting PROVE ParsedInPlace
  <2>1. Apart /\ E!ParsedAsSplit  BY <1>3 DEF Compacting, E!ParsedAsSplit
  <2> DEFINE n == Len(original)
  <2> DEFINE a == SubSeq(frame, start + 1, n)
  <2> DEFINE b == SubSeq(original, start + 1, n)
  <2>2. /\ frame \in Seq(Bytes) /\ original \in Seq(Bytes) /\ n \in Nat /\ Len(frame) = n
        /\ start \in 0 .. n /\ written \in 0 .. start
        /\ \A i \in start + 1 .. n : frame[i] = original[i]
    BY <2>1 DEF Apart
  <2>3. /\ a \in Seq(Bytes) /\ Len(a) = n - start /\ b \in Seq(Bytes) /\ Len(b) = n - start
        /\ \A i \in 1 .. n - start : a[i] = frame[start + i] /\ b[i] = original[start + i]
    BY <2>2
  <2>4. \A i \in 1 .. n - start : start + i \in start + 1 .. n  BY <2>2
  <2> HIDE DEF a, b
  <2>5. a = b  BY <2>2, <2>3, <2>4, SameSequence
  <2>6. E!UnreadUntouched  BY <2>2, <2>5 DEF E!UnreadUntouched, a, b
  <2> QED BY <2>1, <2>6 DEF ParsedInPlace, E!ParsedInPlace
<1> QED BY <1>1, <1>2, <1>3, PTL DEF MCSpec
=============================================================================
