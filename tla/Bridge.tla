------------------------------- MODULE Bridge -------------------------------
(***************************************************************************)
(* One session of the stdio bridge (bridge.go, routing.go), composed of    *)
(* the tracker and the lanes:                                              *)
(*                                                                         *)
(*   ingress  - readIngress: admits messages, handles cancellations;       *)
(*   router   - readFromClient: commits routes one at a time, in order;    *)
(*   lanes    - module Lane;                                               *)
(*   readers  - readFromUpstream, one per adopted connection, each with a  *)
(*              worker (answerRootsAsks) that may give the connection up;  *)
(*   timers   - the execution deadlines of startExecution;                 *)
(*   serve    - the order of the shutdown.                                 *)
(*                                                                         *)
(* forward is unbounded here; that it fails the session when the output    *)
(* queue is full is one of the causes of SessionFails.                     *)
(***************************************************************************)
EXTENDS Lane

CONSTANTS
  Home,         \* the worktree the bridge was started in
  MaxLanes,     \* limits.Lanes
  Fresh,        \* start before the client's initialize, or just after it failed
  Shutdown,     \* the session may end
  Sends,        \* bound: the kinds of message the client sends
  MaxRootsFailures  \* bound: roots/list replies that fail

ASSUME BridgeAssumption ==
  /\ Home \in Worktrees
  /\ MaxLanes \in Nat \ {0}
  /\ Fresh \in BOOLEAN /\ Shutdown \in BOOLEAN
  /\ Sends \subseteq Kinds /\ MaxRootsFailures \in Nat

VARIABLES
  ingress,      \* readIngress is still reading
  incoming,     \* the routing queue
  routing,      \* the call the router holds, and the worktree it was bound to
  roots         \* answerRootsAsks of each connection

bridgeVars == <<ingress, incoming, routing, roots>>
vars == <<trackerVars, laneVars, bridgeVars>>

NotRouting == [tok |-> NoToken, wt |-> NoWorktree]

BridgeTypeOK ==
  /\ ingress \in BOOLEAN
  /\ incoming \in Seq(Tokens)
  /\ routing \in [tok : Tokens \cup {NoToken}, wt : Worktrees \cup {NoWorktree}]
  /\ roots \in [Conns -> {"idle", "releasing", "failing", "done"}]

Init ==
  /\ TrackerInit
  /\ LaneInit
  /\ initialize = ~Fresh
  /\ lanes = IF Fresh THEN {} ELSE {Home}
  /\ ingress = TRUE
  /\ incoming = <<>>
  /\ routing = NotRouting
  /\ roots = [c \in Conns |-> "idle"]

-----------------------------------------------------------------------------
(* Ingress. *)

\* readIngress stores every initialize and lets nothing past before one.
Initialized(k) == k = "initialize" \/ initialize

\* admitted and prepare.  The router cannot see the call before it is queued, so
\* the admission and the queueing are one step.
Admit(i, k) ==
  /\ ingress /\ Initialized(k) /\ Admissible(i)
  /\ Len(incoming) < LaneQueue
  /\ initialize' = TRUE
  /\ Mint(i, k) /\ Track(i)
  /\ incoming' = Append(incoming, minted + 1)
  /\ UNCHANGED <<session, operations, perWorktree, operationsPerWorktree, timer, ctxDone,
                 answers, results>>
  /\ UNCHANGED <<lanes, reqs, lane, laneConn, controls, control, connState, reader,
                 upstream, responses, inits, hit>>
  /\ UNCHANGED <<ingress, routing, roots>>

\* The routing queue is full: failIngress answers the call it has just admitted.
AdmitOverflows(i, k) ==
  /\ ingress /\ session = "live" /\ Initialized(k) /\ Admissible(i)
  /\ Len(incoming) >= LaneQueue
  /\ initialize' = TRUE
  /\ Mint(i, k)
  /\ ctxDone' = ctxDone \cup {minted + 1}
  /\ answers' = [answers EXCEPT ![minted + 1] = @ + 1]
  /\ UNCHANGED <<session, awaiting, operations, perWorktree, operationsPerWorktree, timer,
                 results>>
  /\ UNCHANGED <<lanes, reqs, lane, laneConn, controls, control, connState, reader,
                 upstream, responses, inits, hit>>
  /\ UNCHANGED <<ingress, incoming, routing, roots>>

\* The session ended between the read and the queueing: the call stays tracked
\* and the reader stops.
AdmitTooLate(i, k) ==
  /\ ingress /\ session # "live" /\ Initialized(k) /\ Admissible(i)
  /\ initialize' = TRUE
  /\ Mint(i, k) /\ Track(i)
  /\ ctxDone' = ctxDone \cup {minted + 1}
  /\ ingress' = FALSE
  /\ UNCHANGED <<session, operations, perWorktree, operationsPerWorktree, timer, answers,
                 results>>
  /\ UNCHANGED <<lanes, reqs, lane, laneConn, controls, control, connState, reader,
                 upstream, responses, inits, hit>>
  /\ UNCHANGED <<incoming, routing, roots>>

\* A notification is delivered like a call and tracked nowhere.
AdmitNotification ==
  /\ ingress /\ initialize /\ "notification" \in Sends
  /\ Len(incoming) < LaneQueue
  /\ Mint(NoId, "notification")
  /\ incoming' = Append(incoming, minted + 1)
  /\ UNCHANGED <<session, awaiting, operations, perWorktree, operationsPerWorktree, timer,
                 ctxDone, answers, results>>
  /\ UNCHANGED <<laneVars, ingress, routing, roots>>

\* cancelCall: the client cancels whatever it is owed under id i.
Cancel(i) ==
  /\ ingress /\ initialize /\ i \in Outstanding
  /\ Finish({i})
  /\ QueueCancellation(i)
  /\ UNCHANGED session
  /\ UNCHANGED <<initialize, lanes, reqs, lane, laneConn, control, connState, reader,
                 upstream, responses, inits, hit>>
  /\ UNCHANGED bridgeVars

-----------------------------------------------------------------------------
(* The routing goroutine. *)

RouteTakes ==
  /\ routing = NotRouting /\ incoming # <<>>
  /\ routing' = [NotRouting EXCEPT !.tok = Head(incoming)]
  /\ incoming' = Tail(incoming)
  /\ UNCHANGED <<trackerVars, laneVars, ingress, roots>>

Resolving == routing.tok # NoToken /\ routing.wt = NoWorktree

\* targetContext: only a tools/call is routed by its paths, and so only it can
\* name two worktrees or use up the routing budget.
Targets(t) == IF kindOf[t] = "call" THEN Worktrees ELSE {Home}

\* failIngress for the call the router holds, its delivery cancelled too.
FailRouting ==
  /\ FailDelivery(routing.tok)
  /\ routing' = NotRouting
  /\ UNCHANGED session

\* Resolution or its budget fails, or the delivery is already cancelled.
RouteFails ==
  /\ Resolving
  /\ CtxErr(routing.tok) \/ kindOf[routing.tok] = "call"
  /\ FailRouting
  /\ UNCHANGED <<laneVars, ingress, incoming, roots>>

\* bindWorktree's limits.
LaneAvailable(w) == w \in lanes \/ Cardinality(lanes) < MaxLanes

MayBind(t, w) ==
  /\ ~CtxErr(t)
  /\ LaneAvailable(w)
  /\ IsNotification(t) \/ Bindable(t, w)

RouteBinds(w) ==
  LET t == routing.tok IN
  /\ Resolving /\ w \in Targets(t) /\ MayBind(t, w)
  /\ IF IsNotification(t) THEN UNCHANGED <<awaiting, perWorktree>> ELSE Bind(t, w)
  /\ routing' = [routing EXCEPT !.wt = w]
  /\ UNCHANGED <<session, minted, idOf, kindOf, operations, operationsPerWorktree, timer,
                 ctxDone, answers, results>>
  /\ UNCHANGED <<laneVars, ingress, incoming, roots>>

RouteRefused(w) ==
  /\ Resolving /\ w \in Targets(routing.tok) /\ ~MayBind(routing.tok, w)
  /\ FailRouting
  /\ UNCHANGED <<laneVars, ingress, incoming, roots>>

\* laneFor, and the handover to the lane's queue.
RouteHandsOver ==
  LET w == routing.wt IN
  /\ routing.wt # NoWorktree
  /\ Len(reqs[w]) < LaneQueue
  /\ lanes' = lanes \cup {w}
  /\ reqs' = [reqs EXCEPT ![w] = Append(@, routing.tok)]
  /\ routing' = NotRouting
  /\ UNCHANGED <<trackerVars, initialize, lane, laneConn, controls, control, connState,
                 reader, upstream, responses, inits, hit, ingress, incoming, roots>>

\* The lane's queue is full: by now another call may own the id.
RouteOverflows ==
  /\ routing.wt # NoWorktree /\ session = "live"
  /\ Len(reqs[routing.wt]) >= LaneQueue
  /\ FailRouting
  /\ UNCHANGED <<laneVars, ingress, incoming, roots>>

\* The session has ended: the call is cancelled where it stands.
RouteStops ==
  /\ routing.wt # NoWorktree /\ session # "live"
  /\ lanes' = lanes \cup {routing.wt}
  /\ routing' = NotRouting
  /\ UNCHANGED <<trackerVars, initialize, reqs, lane, laneConn, controls, control, connState,
                 reader, upstream, responses, inits, hit, ingress, incoming, roots>>

\* The budget a delivery has carried since ingress runs out.  Its context is
\* looked at while it is being routed and by the lane before it writes, so that
\* is where an expiry shows, whenever it happened.
Expirable(t) ==
  \/ Resolving /\ routing.tok = t
  \/ \E w \in Worktrees : lane[w].tok = t /\ lane[w].pc \in {"attempt", "gate"}

DeliveryExpires(t) ==
  /\ Expirable(t) /\ t \notin ctxDone
  /\ ctxDone' = ctxDone \cup {t}
  /\ UNCHANGED <<session, minted, idOf, kindOf, awaiting, operations, perWorktree,
                 operationsPerWorktree, timer, answers, results>>
  /\ UNCHANGED <<laneVars, bridgeVars>>

-----------------------------------------------------------------------------
(* Readers of adopted connections. *)

ReaderResponds(c) ==
  \E t \in responses[c] :
    /\ reader[c] = "running"
    /\ FinishResponse(c, t)
    /\ responses' = [responses EXCEPT ![c] = @ \ {t}]
    /\ UNCHANGED session
    /\ UNCHANGED <<initialize, lanes, reqs, lane, laneConn, controls, control, connState,
                   reader, upstream, inits, hit>>
    /\ UNCHANGED bridgeVars

\* Read fails.  A broken stream, an undecodable frame or a refused request of
\* the server's closes the connection before the error is seen; a context ended
\* by boundedConn.release or by the session does not.
ReaderErrs(c) ==
  /\ reader[c] = "running"
  /\ reader' = [reader EXCEPT ![c] = "failing"]
  /\ \/ connState' = [connState EXCEPT ![c] = "closed"]
     \/ connState' = connState /\ (connState[c] = "released" \/ session # "live")
  /\ UNCHANGED <<trackerVars, initialize, lanes, reqs, lane, laneConn, controls, control,
                 upstream, responses, inits, hit>>
  /\ UNCHANGED bridgeVars

\* Mistake: the reader replies for its calls without claiming them.
ReaderFailsUnclaimed(c) ==
  /\ reader[c] = "failing"
  /\ reader' = [reader EXCEPT ![c] = "done"]
  /\ Answer(OwedBy(c))
  /\ UNCHANGED <<session, minted, idOf, kindOf, awaiting, operations, perWorktree,
                 operationsPerWorktree, timer, ctxDone, results>>
  /\ UNCHANGED <<initialize, lanes, reqs, lane, laneConn, controls, control, connState,
                 upstream, responses, inits, hit>>
  /\ UNCHANGED bridgeVars

\* failInFlight, the last thing a reader does.
ReaderFailsCalls(c) ==
  /\ reader[c] = "failing"
  /\ reader' = [reader EXCEPT ![c] = "done"]
  /\ Finish(OwedBy(c))
  /\ UNCHANGED session
  /\ UNCHANGED <<initialize, lanes, reqs, lane, laneConn, controls, control, connState,
                 upstream, responses, inits, hit>>
  /\ UNCHANGED bridgeVars

\* The session ended while the reader was handing over a roots/list.
ReaderLeaves(c) ==
  /\ reader[c] = "running" /\ session # "live"
  /\ reader' = [reader EXCEPT ![c] = "done"]
  /\ UNCHANGED <<trackerVars, initialize, lanes, reqs, lane, laneConn, controls, control,
                 connState, upstream, responses, inits, hit>>
  /\ UNCHANGED bridgeVars

\* answerRootsAsks cannot reply: boundedConn.Close first releases the context
\* the reader reads under, then closes the stream, and then the worker fails the
\* connection's calls itself.
RootsReleases(c) ==
  /\ reader[c] # "none" /\ roots[c] = "idle"
  /\ Cardinality({d \in Conns : roots[d] # "idle"}) < MaxRootsFailures
  /\ roots' = [roots EXCEPT ![c] = "releasing"]
  /\ connState' = [connState EXCEPT ![c] = IF @ = "open" THEN "released" ELSE @]
  /\ UNCHANGED <<trackerVars, initialize, lanes, reqs, lane, laneConn, controls, control,
                 reader, upstream, responses, inits, hit>>
  /\ UNCHANGED <<ingress, incoming, routing>>

RootsCloses(c) ==
  /\ roots[c] = "releasing"
  /\ roots' = [roots EXCEPT ![c] = "failing"]
  /\ connState' = [connState EXCEPT ![c] = "closed"]
  /\ UNCHANGED <<trackerVars, initialize, lanes, reqs, lane, laneConn, controls, control,
                 reader, upstream, responses, inits, hit>>
  /\ UNCHANGED <<ingress, incoming, routing>>

\* Mistake: the worker leaves the calls to the reader.
RootsLeavesCalls(c) ==
  /\ roots[c] = "failing"
  /\ roots' = [roots EXCEPT ![c] = "done"]
  /\ UNCHANGED <<trackerVars, laneVars, ingress, incoming, routing>>

RootsFailsCalls(c) ==
  /\ roots[c] = "failing"
  /\ roots' = [roots EXCEPT ![c] = "done"]
  /\ Finish(OwedBy(c))
  /\ UNCHANGED session
  /\ UNCHANGED laneVars
  /\ UNCHANGED <<ingress, incoming, routing>>

-----------------------------------------------------------------------------
(* Execution deadlines. *)

TimerFires(t) ==
  /\ timer[t] = "armed"
  /\ timer' = [timer EXCEPT ![t] = "running"]
  /\ UNCHANGED <<session, minted, idOf, kindOf, awaiting, operations, perWorktree,
                 operationsPerWorktree, ctxDone, answers, results>>
  /\ UNCHANGED <<laneVars, bridgeVars>>

\* The callback claims its own generation or nothing.
TimerExpires(t) ==
  LET S == Owned(t) IN
  /\ timer[t] = "running"
  /\ timer' = [timer EXCEPT ![t] = "stopped"]
  /\ Forget(S)
  /\ operations' = Abandoned(S, operations)
  /\ Answer(S)
  /\ About(t, S)
  /\ IF S = {} THEN UNCHANGED controls ELSE \E i \in S : QueueCancellation(i)
  /\ UNCHANGED <<session, minted, idOf, kindOf, operationsPerWorktree>>
  /\ UNCHANGED <<initialize, lanes, reqs, lane, laneConn, control, connState, reader,
                 upstream, responses, inits, hit>>
  /\ UNCHANGED bridgeVars

-----------------------------------------------------------------------------
(* serve: the shutdown. *)

\* reportError from anywhere, then the session's context is cancelled.
SessionFails ==
  /\ Shutdown /\ session = "live"
  /\ session' = "ending"
  /\ UNCHANGED <<minted, idOf, kindOf, awaiting, operations, perWorktree,
                 operationsPerWorktree, timer, ctxDone, answers, results>>
  /\ UNCHANGED <<laneVars, bridgeVars>>

\* Closing stdio ends the ingress reader.
IngressStops ==
  /\ ingress /\ session # "live"
  /\ ingress' = FALSE
  /\ UNCHANGED <<trackerVars, laneVars, incoming, routing, roots>>

\* Mistake: the tracker is cleared without waiting for the reader.
SessionClosesEarly ==
  /\ session = "ending" /\ incoming = <<>> /\ routing = NotRouting
  /\ \A w \in Worktrees : lane[w] = Idle /\ reqs[w] = <<>>
  /\ session' = "closed"
  /\ ClearRequests
  /\ UNCHANGED <<laneVars, bridgeVars>>

\* readerDone, closeLanes and awaitLanes have returned: the lanes have closed
\* their connections, and clearRequests discards the rest.
SessionCloses ==
  /\ session = "ending" /\ ~ingress /\ incoming = <<>> /\ routing = NotRouting
  /\ \A w \in Worktrees : lane[w] = Idle /\ reqs[w] = <<>>
  /\ session' = "closed"
  /\ ClearRequests
  /\ connState' = [c \in Conns |-> IF \E w \in Worktrees : laneConn[w] = c THEN "closed"
                                   ELSE connState[c]]
  /\ UNCHANGED <<initialize, lanes, reqs, lane, laneConn, controls, control, reader,
                 upstream, responses, inits, hit>>
  /\ UNCHANGED bridgeVars

-----------------------------------------------------------------------------
Ingress ==
  \/ \E i \in Ids, k \in Sends \ {"notification"} :
       Admit(i, k) \/ AdmitOverflows(i, k) \/ AdmitTooLate(i, k)
  \/ AdmitNotification
  \/ \E i \in Ids : Cancel(i)
  \/ IngressStops

Router ==
  \/ RouteTakes \/ RouteFails \/ RouteHandsOver \/ RouteOverflows \/ RouteStops
  \/ \E w \in Worktrees : RouteBinds(w) \/ RouteRefused(w)

Delivery(w) ==
  /\ \/ LaneSkips(w) \/ LaneTakes(w) \/ LaneGivesUp(w) \/ LaneDropsNotification(w)
     \/ LaneReuses(w) \/ LaneDialFails(w) \/ LaneBegins(w) \/ LaneRefused(w)
     \/ UpstreamReceives(w) \/ LaneTooLarge(w) \/ LaneDelivered(w) \/ LaneWriteFails(w)
     \/ \E c \in Conns : LaneDials(w, c)
  /\ UNCHANGED bridgeVars

Controls(w) ==
  /\ ControlChecks(w) \/ ControlExpires(w) \/ ControlWrites(w)
  /\ UNCHANGED bridgeVars

Reader(c) == ReaderResponds(c) \/ ReaderErrs(c) \/ ReaderFailsCalls(c) \/ ReaderLeaves(c)

RootsWorker(c) == RootsReleases(c) \/ RootsCloses(c) \/ RootsFailsCalls(c)

Gopls(c) == UpstreamAnswers(c) /\ UNCHANGED bridgeVars

Timers(t) == TimerFires(t) \/ TimerExpires(t) \/ DeliveryExpires(t)

Next ==
  \/ Ingress
  \/ Router
  \/ \E w \in Worktrees : Delivery(w) \/ Controls(w)
  \/ \E c \in Conns : Reader(c) \/ RootsWorker(c) \/ Gopls(c)
  \/ \E t \in Tokens : Timers(t)
  \/ SessionFails
  \/ SessionCloses

Spec == Init /\ [][Next]_vars
=============================================================================
