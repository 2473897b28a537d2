-------------------------------- MODULE Lane --------------------------------
(***************************************************************************)
(* The lanes of a session (lane.go): one goroutine per worktree that       *)
(* dials, hands over and retries its worktree's calls one at a time, and   *)
(* one control worker per lane that forwards advisory cancellations.  The  *)
(* two share the lane's write gate.                                        *)
(*                                                                         *)
(* A lane's program counter:                                               *)
(*   idle    - waiting on lane.reqs;                                       *)
(*   attempt - at the head of send's two-attempt loop;                     *)
(*   gate    - holds a connection, waiting in lockWrites;                  *)
(*   stale   - operation begun, Write finds the connection closed;         *)
(*   write   - operation begun, the POST is on its way;                    *)
(*   written - gopls has the message, Write has not returned.              *)
(*                                                                         *)
(* Steps the code takes without any other goroutine being able to tell the *)
(* order are one step here.  gopls itself is external: upstream holds what *)
(* it has been asked and responses what it has answered and nobody read.   *)
(***************************************************************************)
EXTENDS Tracker

CONSTANT LaneQueue  \* laneQueue, the capacity of each reqs and controls

ASSUME LaneAssumption == LaneQueue \in Nat \ {0}

VARIABLES
  initialize,   \* router.initialize is stored
  lanes,        \* worktrees with an open lane
  reqs,         \* lane.reqs
  lane,         \* where each lane's goroutine is
  laneConn,     \* lane.conn
  controls,     \* lane.controls
  control,      \* the cancellation a control worker holds the gate for
  connState,    \* "released": boundedConn.Close has begun, the stream is not closed
  reader,       \* readFromUpstream of each connection
  upstream,
  responses,
  inits,        \* history: initialize messages each connection was sent
  hit           \* history: upstream work an advisory cancellation reached

laneVars == <<initialize, lanes, reqs, lane, laneConn, controls, control, connState,
              reader, upstream, responses, inits, hit>>

LanePC == {"idle", "attempt", "gate", "stale", "write", "written"}
Attempts == 2

LaneState == [pc : LanePC, tok : Tokens \cup {NoToken}, try : 1 .. Attempts + 1,
              conn : Conns \cup {NoConn}]
Idle == [pc |-> "idle", tok |-> NoToken, try |-> 1, conn |-> NoConn]
Attempting(t, n) == [pc |-> "attempt", tok |-> t, try |-> n, conn |-> NoConn]

Control == [tok : Tokens, conn : Conns]
NoControl == [tok |-> NoToken, conn |-> NoConn]

LaneTypeOK ==
  /\ initialize \in BOOLEAN
  /\ lanes \subseteq Worktrees
  /\ reqs \in [Worktrees -> Seq(Tokens)]
  /\ lane \in [Worktrees -> LaneState]
  /\ laneConn \in [Worktrees -> Conns \cup {NoConn}]
  /\ controls \in [Worktrees -> Seq(Control)]
  /\ control \in [Worktrees -> Control \cup {NoControl}]
  /\ connState \in [Conns -> {"unused", "open", "released", "closed"}]
  /\ reader \in [Conns -> {"none", "running", "failing", "done"}]
  /\ upstream \in [Conns -> SUBSET Tokens]
  /\ responses \in [Conns -> SUBSET Tokens]
  /\ inits \in [Conns -> Nat]
  /\ hit \subseteq Tokens

\* A lane is opened empty (newLane); a worktree without one has its Idle state.
LaneInit ==
  /\ reqs = [w \in Worktrees |-> <<>>]
  /\ lane = [w \in Worktrees |-> Idle]
  /\ laneConn = [w \in Worktrees |-> NoConn]
  /\ controls = [w \in Worktrees |-> <<>>]
  /\ control = [w \in Worktrees |-> NoControl]
  /\ connState = [c \in Conns |-> "unused"]
  /\ reader = [c \in Conns |-> "none"]
  /\ upstream = [c \in Conns |-> {}]
  /\ responses = [c \in Conns |-> {}]
  /\ inits = [c \in Conns |-> 0]
  /\ hit = {}

-----------------------------------------------------------------------------
\* ~req.ID.IsValid().
IsNotification(t) == idOf[t] = NoId

Writing(w) == lane[w].pc \in {"stale", "write", "written"}

\* lane.writes is free: neither a delivery nor an advisory is between placing
\* its message and the return of its Write.
GateFree(w) == ~Writing(w) /\ control[w] = NoControl

\* Connections are numbered in the order they are dialled.
NextConn(c) == connState[c] = "unused" /\ \A d \in Conns : d < c => connState[d] # "unused"

\* queueCancellation: the finished call i goes to the control worker of its lane
\* with the connection that took it; a full queue drops it.
QueueCancellation(i) ==
  LET o == awaiting[i] IN
  controls' = [w \in Worktrees |->
    IF o.conn # NoConn /\ o.wt = w /\ Len(controls[w]) < LaneQueue
    THEN Append(controls[w], [tok |-> o.tok, conn |-> o.conn]) ELSE controls[w]]

-----------------------------------------------------------------------------
(* The delivery goroutine: run and send. *)

\* run after the session has ended: the entry is cancelled, not delivered.
LaneSkips(w) ==
  /\ lane[w].pc = "idle" /\ reqs[w] # <<>>
  /\ session # "live"
  /\ reqs' = [reqs EXCEPT ![w] = Tail(@)]
  /\ UNCHANGED <<trackerVars, initialize, lanes, lane, laneConn, controls, control,
                 connState, reader, upstream, responses, inits, hit>>

\* run, and send as far as placeDelivery: a call that is no longer owed to the
\* generation it was queued for goes no further.
LaneTakes(w) ==
  LET t == Head(reqs[w])
      placed == IsNotification(t) \/ Owned(t) # {}
  IN
  /\ lane[w].pc = "idle" /\ reqs[w] # <<>>
  /\ session = "live"
  /\ reqs' = [reqs EXCEPT ![w] = Tail(@)]
  /\ lane' = IF placed THEN [lane EXCEPT ![w] = Attempting(t, 1)] ELSE lane
  /\ Unplace(t)
  /\ UNCHANGED <<session, minted, idOf, kindOf, operations, perWorktree,
                 operationsPerWorktree, timer, ctxDone, answers, results>>
  /\ UNCHANGED <<initialize, lanes, laneConn, controls, control, connState, reader,
                 upstream, responses, inits, hit>>

\* The loop is over, by its budget or by its second attempt: failDelivery.
LaneGivesUp(w) ==
  LET l == lane[w] IN
  /\ l.pc = "attempt"
  /\ CtxErr(l.tok) \/ l.try > Attempts
  /\ FailDelivery(l.tok)
  /\ lane' = [lane EXCEPT ![w] = Idle]
  /\ UNCHANGED session
  /\ UNCHANGED <<initialize, lanes, reqs, laneConn, controls, control, connState, reader,
                 upstream, responses, inits, hit>>

\* Mistake: nothing counts the attempts.
TryingForever(w) == lane[w].pc = "attempt" /\ ~CtxErr(lane[w].tok)

Trying(w) ==
  LET l == lane[w] IN l.pc = "attempt" /\ ~CtxErr(l.tok) /\ l.try <= Attempts

\* A notification never opens a connection.
LaneDropsNotification(w) ==
  /\ Trying(w)
  /\ laneConn[w] = NoConn /\ IsNotification(lane[w].tok)
  /\ lane' = [lane EXCEPT ![w] = Idle]
  /\ UNCHANGED <<trackerVars, initialize, lanes, reqs, laneConn, controls, control,
                 connState, reader, upstream, responses, inits, hit>>

\* Mistake: a second initialize is sent down the connection the lane has.
LaneReusesForInitialize(w) ==
  /\ Trying(w)
  /\ laneConn[w] # NoConn
  /\ lane' = [lane EXCEPT ![w].pc = "gate", ![w].conn = laneConn[w]]
  /\ UNCHANGED <<trackerVars, initialize, lanes, reqs, laneConn, controls, control,
                 connState, reader, upstream, responses, inits, hit>>

\* upstream with a cached connection, which has had its initialize.
LaneReuses(w) ==
  /\ Trying(w)
  /\ laneConn[w] # NoConn
  /\ lane' = IF kindOf[lane[w].tok] = "initialize"
             THEN [lane EXCEPT ![w].try = @ + 1]
             ELSE [lane EXCEPT ![w].pc = "gate", ![w].conn = laneConn[w]]
  /\ UNCHANGED <<trackerVars, initialize, lanes, reqs, laneConn, controls, control,
                 connState, reader, upstream, responses, inits, hit>>

\* upstream without one: dialBounded and, unless this message is the client's
\* own initialize, the private handshake, which replays the stored one.
LaneDials(w, c) ==
  LET initial == kindOf[lane[w].tok] = "initialize" IN
  /\ Trying(w)
  /\ laneConn[w] = NoConn /\ ~IsNotification(lane[w].tok)
  /\ NextConn(c)
  /\ initial \/ initialize
  /\ connState' = [connState EXCEPT ![c] = "open"]
  /\ inits' = [inits EXCEPT ![c] = IF initial THEN 0 ELSE 1]
  /\ lane' = [lane EXCEPT ![w].pc = "gate", ![w].conn = c]
  /\ UNCHANGED <<trackerVars, initialize, lanes, reqs, laneConn, controls, control,
                 reader, upstream, responses, hit>>

\* The dial or the handshake fails, and what was dialled is closed.
LaneDialFails(w) ==
  /\ Trying(w)
  /\ laneConn[w] = NoConn /\ ~IsNotification(lane[w].tok)
  /\ lane' = [lane EXCEPT ![w].try = @ + 1]
  /\ UNCHANGED <<trackerVars, initialize, lanes, reqs, laneConn, controls, control,
                 connState, reader, upstream, responses, inits, hit>>

\* lockWrites and beginOperation.  A Write that starts on a closed connection
\* cannot succeed; one that started before the close may.
LaneBegins(w) ==
  LET l == lane[w] IN
  /\ l.pc = "gate" /\ GateFree(w) /\ ~CtxErr(l.tok)
  /\ IF IsNotification(l.tok)
     THEN UNCHANGED <<operations, operationsPerWorktree, awaiting>>
     ELSE Reservable(l.tok, l.conn, w) /\ BeginOperation(l.tok, l.conn, w)
  /\ lane' = [lane EXCEPT ![w].pc = IF connState[l.conn] = "closed" THEN "stale" ELSE "write"]
  /\ UNCHANGED <<session, minted, idOf, kindOf, perWorktree, timer, ctxDone, answers, results>>
  /\ UNCHANGED <<initialize, lanes, reqs, laneConn, controls, control, connState, reader,
                 upstream, responses, inits, hit>>

\* giveUp closes the connection unless the lane has adopted it.
ClosedUnlessAdopted(w) ==
  LET c == lane[w].conn IN
  IF c = laneConn[w] THEN connState ELSE [connState EXCEPT ![c] = "closed"]

\* lockWrites or beginOperation refuses: giveUp.
LaneRefused(w) ==
  LET l == lane[w] IN
  /\ l.pc = "gate"
  /\ \/ CtxErr(l.tok)
     \/ GateFree(w) /\ ~IsNotification(l.tok) /\ ~Reservable(l.tok, l.conn, w)
  /\ connState' = ClosedUnlessAdopted(w)
  /\ FailDelivery(l.tok)
  /\ lane' = [lane EXCEPT ![w] = Idle]
  /\ UNCHANGED session
  /\ UNCHANGED <<initialize, lanes, reqs, laneConn, controls, control, reader,
                 upstream, responses, inits, hit>>

\* External: the POST reaches gopls.
UpstreamReceives(w) ==
  LET l == lane[w] IN
  /\ l.pc = "write"
  /\ lane' = [lane EXCEPT ![w].pc = "written"]
  /\ upstream' = IF IsNotification(l.tok) THEN upstream
                 ELSE [upstream EXCEPT ![l.conn] = @ \cup {l.tok}]
  /\ inits' = IF kindOf[l.tok] = "initialize" THEN [inits EXCEPT ![l.conn] = @ + 1] ELSE inits
  /\ UNCHANGED <<trackerVars, initialize, lanes, reqs, laneConn, controls, control,
                 connState, reader, responses, hit>>

\* Mistake: the credit of a message that was never sent is not given back.
LaneTooLargeCharged(w) ==
  /\ lane[w].pc = "write"
  /\ connState' = ClosedUnlessAdopted(w)
  /\ FailDelivery(lane[w].tok)
  /\ lane' = [lane EXCEPT ![w] = Idle]
  /\ UNCHANGED <<session, initialize, lanes, reqs, laneConn, controls, control, reader,
                 upstream, responses, inits, hit>>

\* ErrMessageTooLarge: the transport refused before the POST, so the credit is
\* given back before giveUp.
LaneTooLarge(w) ==
  LET l == lane[w]
      i == idOf[l.tok]
  IN
  /\ l.pc = "write"
  /\ IF IsNotification(l.tok)
     THEN UNCHANGED <<awaiting, operations, perWorktree, operationsPerWorktree, timer,
                      ctxDone, answers, results>>
     ELSE /\ EndOperation(l.conn, i)
          /\ Remove(Owned(l.tok))
          /\ operations' = Abandoned(Owned(l.tok), Ended(l.conn, i))
          /\ Answer(Owned(l.tok))
          /\ About(l.tok, Owned(l.tok))
  /\ connState' = ClosedUnlessAdopted(w)
  /\ lane' = [lane EXCEPT ![w] = Idle]
  /\ UNCHANGED <<session, minted, idOf, kindOf>>
  /\ UNCHANGED <<initialize, lanes, reqs, laneConn, controls, control, reader,
                 upstream, responses, inits, hit>>

\* Mistake: the connection is adopted and nobody reads it.
LaneDeliveredUnread(w) ==
  LET l == lane[w] IN
  /\ l.pc = "written"
  /\ laneConn' = [laneConn EXCEPT ![w] = l.conn]
  /\ StartExecution(l.tok)
  /\ lane' = [lane EXCEPT ![w] = Idle]
  /\ UNCHANGED <<session, minted, idOf, kindOf, awaiting, operations, perWorktree,
                 operationsPerWorktree, ctxDone, answers, results>>
  /\ UNCHANGED <<initialize, lanes, reqs, controls, control, connState, reader,
                 upstream, responses, inits, hit>>

\* Write succeeds: cache adopts the connection and starts its reader, and the
\* execution deadline starts.
LaneDelivered(w) ==
  LET l == lane[w] IN
  /\ l.pc = "written"
  /\ laneConn' = [laneConn EXCEPT ![w] = l.conn]
  /\ reader' = IF laneConn[w] = l.conn THEN reader ELSE [reader EXCEPT ![l.conn] = "running"]
  /\ StartExecution(l.tok)
  /\ lane' = [lane EXCEPT ![w] = Idle]
  /\ UNCHANGED <<session, minted, idOf, kindOf, awaiting, operations, perWorktree,
                 operationsPerWorktree, ctxDone, answers, results>>
  /\ UNCHANGED <<initialize, lanes, reqs, controls, control, connState,
                 upstream, responses, inits, hit>>

\* Write fails, whether or not gopls has the message: retry, then the connection
\* is dropped, and only a call this lane still owns is tried again.
LaneWriteFails(w) ==
  LET l == lane[w]
      claimed == IsNotification(l.tok) \/ Retryable(l.tok, l.conn)
  IN
  /\ Writing(w)
  /\ IF claimed /\ ~IsNotification(l.tok) THEN Retry(l.tok, l.conn)
     ELSE UNCHANGED <<awaiting, operations>>
  /\ laneConn' = [laneConn EXCEPT ![w] = NoConn]
  /\ connState' = [connState EXCEPT ![l.conn] = "closed"]
  /\ lane' = [lane EXCEPT ![w] = IF claimed THEN Attempting(l.tok, l.try + 1) ELSE Idle]
  /\ UNCHANGED <<session, minted, idOf, kindOf, perWorktree, operationsPerWorktree, timer,
                 ctxDone, answers, results>>
  /\ UNCHANGED <<initialize, lanes, reqs, controls, control, reader, upstream, responses,
                 inits, hit>>

-----------------------------------------------------------------------------
(* The control worker: sendCancellation. *)

\* control.placed is closed: the write the cancellation is about has returned.
Placed(w, k) == ~(Writing(w) /\ lane[w].tok = k.tok /\ lane[w].conn = k.conn)

\* Mistake: the advisory is sent whatever its id stands for by now.
ControlChecksNothing(w) ==
  LET k == Head(controls[w]) IN
  /\ controls[w] # <<>> /\ session = "live"
  /\ Placed(w, k) /\ GateFree(w)
  /\ controls' = [controls EXCEPT ![w] = Tail(@)]
  /\ control' = [control EXCEPT ![w] = k]
  /\ UNCHANGED <<trackerVars, initialize, lanes, reqs, lane, laneConn, connState, reader,
                 upstream, responses, inits, hit>>

\* Under the gate, an advisory whose id now belongs to a later operation of the
\* same connection is dropped.
ControlChecks(w) ==
  LET k == Head(controls[w])
      op == operations[k.conn][idOf[k.tok]]
  IN
  /\ controls[w] # <<>> /\ session = "live"
  /\ Placed(w, k) /\ GateFree(w)
  /\ controls' = [controls EXCEPT ![w] = Tail(@)]
  /\ control' = IF op.tok # NoToken /\ op.tok # k.tok THEN control
                ELSE [control EXCEPT ![w] = k]
  /\ UNCHANGED <<trackerVars, initialize, lanes, reqs, lane, laneConn, connState, reader,
                 upstream, responses, inits, hit>>

\* The advisory's deadline passes, or the lane's context ends, while it waits.
ControlExpires(w) ==
  /\ controls[w] # <<>>
  /\ controls' = [controls EXCEPT ![w] = Tail(@)]
  /\ UNCHANGED <<trackerVars, initialize, lanes, reqs, lane, laneConn, control, connState,
                 reader, upstream, responses, inits, hit>>

\* The advisory is written, and gopls applies it to whatever it has under that
\* id, or the write fails; the error is ignored either way.
ControlWrites(w) ==
  LET k == control[w]
      named == {t \in upstream[k.conn] : idOf[t] = idOf[k.tok]}
  IN
  /\ k # NoControl
  /\ \/ hit' = hit \cup named /\ connState[k.conn] # "closed"
     \/ hit' = hit
  /\ control' = [control EXCEPT ![w] = NoControl]
  /\ UNCHANGED <<trackerVars, initialize, lanes, reqs, lane, laneConn, controls, connState,
                 reader, upstream, responses, inits>>

\* External: gopls answers a request it has, in any order.  What it says once
\* nobody reads the connection any more is lost.
UpstreamAnswers(c) ==
  \E t \in upstream[c] :
    /\ reader[c] \in {"none", "running"}
    /\ upstream' = [upstream EXCEPT ![c] = @ \ {t}]
    /\ responses' = [responses EXCEPT ![c] = @ \cup {t}]
    /\ UNCHANGED <<trackerVars, initialize, lanes, reqs, lane, laneConn, controls, control,
                   connState, reader, inits, hit>>
=============================================================================
