----------------------------- MODULE BridgeProps -----------------------------
(***************************************************************************)
(* What a session of the bridge promises its client, the gopls servers it  *)
(* shares and its own accounting.                                          *)
(***************************************************************************)
EXTENDS Bridge

\* Every variable of the session stays in its type.
TypeOK == TrackerTypeOK /\ LaneTypeOK /\ BridgeTypeOK

Admitted(t) == t <= minted /\ ~IsNotification(t)

\* Until the session is closed, an admitted call is either still owed and
\* unanswered or has been answered exactly once: removeLocked is the only way
\* out of the tracker and each caller that takes it replies (requests.go).
OwedOrAnsweredOnce ==
  session # "closed" =>
    \A t \in Tokens : Admitted(t) => answers[t] = IF Owned(t) = {} THEN 1 ELSE 0

\* A result, a failed delivery or an execution deadline answers the very
\* generation it is about, though gopls returns the wire id alone and the client
\* may by then be owed another call under it.
ResultsMatch == \A r \in results : r[1] = r[2]

\* What gopls has and has not been read the answer of is charged to its
\* connection, under its own generation, until the session is closed: neither a
\* cancellation nor a failed write frees a credit the server is still using.
UpstreamWorkCharged ==
  session # "closed" =>
    \A c \in Conns : \A t \in upstream[c] \cup responses[c] :
      operations[c][idOf[t]].tok = t

\* A credit is held by work gopls has, by a write in progress or by a connection
\* that was closed on uncertain work: nothing else on a healthy connection keeps
\* one, so that a session cannot run out of credits without losing connections.
ChargesExplained ==
  \A c \in Conns, i \in Ids :
    LET t == operations[c][i].tok IN
    t # NoToken =>
      \/ t \in upstream[c] \cup responses[c]
      \/ \E w \in Worktrees : Writing(w) /\ lane[w].conn = c /\ lane[w].tok = t
      \/ connState[c] = "closed"

\* The credits of a session are the work gopls has and the work it may have: no more is
\* charged than that, and no less (beginOperation, endOperationLocked).
ChargedIffWorking == UpstreamWorkCharged /\ ChargesExplained

\* An operation counts as abandoned exactly when the call it was begun for is no
\* longer owed by that connection, and a call owed by a connection has its
\* operation there.
AbandonedIffDisowned ==
  \A c \in Conns, i \in Ids :
    /\ operations[c][i].tok # NoToken =>
         (operations[c][i].abandoned <=>
            ~(awaiting[i].tok = operations[c][i].tok /\ awaiting[i].conn = c))
    /\ awaiting[i].conn = c => operations[c][i].tok = awaiting[i].tok

\* The two tallies are the sizes of the sets they count, and no limit is passed.
TalliesExact ==
  /\ \A w \in Worktrees :
       /\ perWorktree[w] = Cardinality({i \in Outstanding : awaiting[i].wt = w})
       /\ operationsPerWorktree[w] =
            Cardinality({k \in Unresolved : operations[k[1]][k[2]].wt = w})
       /\ perWorktree[w] <= PerLane /\ operationsPerWorktree[w] <= PerLane
  /\ Cardinality(Outstanding) <= Session /\ Cardinality(Unresolved) <= Session
  /\ Cardinality(lanes) <= MaxLanes

\* A call owed by a connection always has someone left who will answer it: the
\* delivery still writing it, a reader that has not failed its calls yet, or the
\* roots worker that is about to.
NobodyStranded ==
  session = "live" =>
    \A i \in Outstanding : awaiting[i].conn # NoConn =>
      LET c == awaiting[i].conn IN
      \/ \E w \in Worktrees : Writing(w) /\ lane[w].conn = c /\ lane[w].tok = awaiting[i].tok
      \/ reader[c] \in {"running", "failing"}
      \/ roots[c] \in {"releasing", "failing"}

\* An advisory cancellation reaches the work of a call the client has given up,
\* never that of a later call that took over the id on the same connection.
NoBystanderCancelled == \A t \in hit : Owned(t) = {}

\* A connection is sent at most one initialize, and nothing else before it.
InitializedOnce ==
  \A c \in Conns :
    /\ inits[c] <= 1
    /\ upstream[c] \cup responses[c] # {} => inits[c] = 1

\* A closed session owes nothing and charges nothing, for good: no timer, reader
\* or control worker that outlives clearRequests brings a record back.
ClosedIsEmpty == session = "closed" => Outstanding = {} /\ Unresolved = {}

-----------------------------------------------------------------------------
(* Liveness.  Each goroutine keeps running: a send is bounded by its budget *)
(* (DeliveryExpires, and LaneWriteFails for a POST that hangs), a failing   *)
(* reader and a failing roots worker finish, a closed connection's reader   *)
(* notices.  The client, the end of the session and the expiry of a budget  *)
(* are never forced.                                                        *)

GoroutinesRun ==
  /\ WF_vars(Router)
  /\ \A w \in Worktrees : WF_vars(Delivery(w)) /\ WF_vars(Controls(w))
  /\ \A c \in Conns :
       /\ WF_vars(ReaderResponds(c))
       /\ WF_vars(connState[c] # "open" /\ ReaderErrs(c))
       /\ WF_vars(ReaderFailsCalls(c))
       /\ WF_vars(RootsCloses(c))
       /\ WF_vars(RootsFailsCalls(c))

\* Without an execution limit, the shipped default, gopls is trusted to answer what
\* it has; with one the timers run, and gopls may stay silent for ever.
GoplsAnswers == \A c \in Conns : WF_vars(Gopls(c))
TimersRun == \A t \in Tokens : WF_vars(TimerFires(t)) /\ WF_vars(TimerExpires(t))

FairSpec == Spec /\ GoroutinesRun /\ (GoplsAnswers \/ TimersRun)

\* Every call the client is owed is settled in the end, through queues that
\* overflow, dials and writes that fail, connections that die and cancellations.
EveryCallSettles == \A t \in Tokens : Owned(t) # {} ~> Owned(t) = {}
=============================================================================
