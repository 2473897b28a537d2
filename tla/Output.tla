------------------------------- MODULE Output -------------------------------
(***************************************************************************)
(* How a stdio session reads, answers and ends (bridge.go): the ingress    *)
(* reader, the router, the producers of replies and the one writer share a *)
(* bounded output queue and a bounded queue of failures, and serve waits   *)
(* for the first failure.  What happens to a request between routing and   *)
(* its reply is the subject of module Bridge and one step here.            *)
(***************************************************************************)
EXTENDS Integers, Sequences, FiniteSets

CONSTANTS
    Requests,   \* the client's requests
    OutQueue,   \* capacity of router.out (64)
    ErrQueue,   \* capacity of router.errs (4)
    LaneQueue,  \* capacity of the routing queue
    Interrupts, \* the parent context may be cancelled (^C, SIGTERM)
    Metrics     \* Limits.Metrics

\* What MCFronts assumes of the constants.
OutputAssumption ==
    /\ OutQueue \in Nat \ {0} /\ ErrQueue \in Nat \ {0} /\ LaneQueue \in Nat \ {0}
    /\ Interrupts \in BOOLEAN /\ Metrics \in BOOLEAN
    /\ Requests \cap {"reading", "idle", "gone"} = {}

VARIABLES
    place,     \* where each request is
    ingress,   \* readIngress: "reading", a request it has admitted, or "gone"
    incoming,  \* the routing queue
    router,    \* readFromClient: "idle" or "gone"
    out,       \* replies queued for the client
    writer,    \* writeToClient: "idle", the reply in stdio.Write, or "gone"
    errs,      \* failures reported and not yet received
    cancelled, \* the session context is done
    serve,     \* how far serve has come
    lanes,     \* "open", "closed", "ended"
    reporter,  \* reportUsage: "waiting", "printing", "final", "done"
    finalUsage \* the final snapshot has been published

vars == <<place, ingress, incoming, router, out, writer, errs, cancelled, serve,
          lanes, reporter, finalUsage>>

Places == {"unsent", "admitted", "queued", "working", "out", "writing", "written",
           "lost", "dropped"}

Init ==
    /\ place = [r \in Requests |-> "unsent"]
    /\ ingress = "reading" /\ incoming = <<>> /\ router = "idle"
    /\ out = <<>> /\ writer = "idle"
    /\ errs = 0 /\ cancelled = FALSE
    /\ serve = "waiting" /\ lanes = "open"
    /\ reporter = IF Metrics THEN "waiting" ELSE "done"
    /\ finalUsage = FALSE

sideVars == <<cancelled, serve, lanes, reporter, finalUsage>>

-----------------------------------------------------------------------------
\* reportError and forward.

reportError == errs' = IF errs < ErrQueue THEN errs + 1 ELSE errs

\* Mistake: a full queue drops the reply and the session carries on.
forwardDropsQuietly(r) ==
    /\ out' = IF Len(out) < OutQueue THEN Append(out, r) ELSE out
    /\ place' = [place EXCEPT ![r] = IF Len(out) < OutQueue THEN "out" ELSE "lost"]
    /\ UNCHANGED errs

\* A reply of r: queued, discarded once the session has ended, and a failure of
\* the session when the queue is full.
forward(r) ==
    \/ /\ Len(out) < OutQueue
       /\ out' = Append(out, r)
       /\ place' = [place EXCEPT ![r] = "out"]
       /\ UNCHANGED errs
    \/ /\ cancelled
       /\ place' = [place EXCEPT ![r] = "dropped"]
       /\ UNCHANGED <<out, errs>>
    \/ /\ Len(out) >= OutQueue /\ ~cancelled
       /\ place' = [place EXCEPT ![r] = "lost"]
       /\ reportError
       /\ UNCHANGED out

-----------------------------------------------------------------------------
\* readIngress and readFromClient.

\* stdio.Read returned a request, as one that has begun still may when the
\* context is done.  The tracker admits it, or it is refused here: it came before
\* initialize, or a limit is reached.
ReadRequest(r) ==
    /\ ingress = "reading"
    /\ place[r] = "unsent"
    /\ \/ /\ ingress' = r
          /\ place' = [place EXCEPT ![r] = "admitted"]
          /\ UNCHANGED <<out, errs>>
       \/ /\ forward(r)
          /\ UNCHANGED ingress
    /\ UNCHANGED <<incoming, router, writer, sideVars>>

\* stdio.Read failed: the client went away, or the context is done.
ReadFails ==
    /\ ingress = "reading"
    /\ ingress' = "gone"
    /\ reportError
    /\ UNCHANGED <<place, incoming, router, out, writer, sideVars>>

\* The request goes to the router; failIngress answers it when the queue is
\* full; and a context that is done ends the reader.
Enqueue(r) ==
    /\ ingress = r
    /\ \/ /\ Len(incoming) < LaneQueue
          /\ incoming' = Append(incoming, r)
          /\ place' = [place EXCEPT ![r] = "queued"]
          /\ ingress' = "reading"
          /\ UNCHANGED <<out, errs>>
       \/ /\ cancelled
          /\ ingress' = "gone"
          /\ UNCHANGED <<incoming, place, out, errs>>
       \/ /\ Len(incoming) >= LaneQueue /\ ~cancelled
          /\ forward(r)
          /\ ingress' = "reading"
          /\ UNCHANGED incoming
    /\ UNCHANGED <<router, writer, sideVars>>

\* routePrepared: a lane takes the request, or failIngress answers it.
Route ==
    /\ router = "idle" /\ incoming # <<>>
    /\ incoming' = Tail(incoming)
    /\ \/ /\ place' = [place EXCEPT ![Head(incoming)] = "working"]
          /\ UNCHANGED <<out, errs>>
       \/ forward(Head(incoming))
    /\ UNCHANGED <<ingress, router, writer, sideVars>>

\* The ingress reader closes the routing queue as it ends.
RouterEnds ==
    /\ router = "idle" /\ incoming = <<>> /\ ingress = "gone"
    /\ router' = "gone"
    /\ UNCHANGED <<place, ingress, incoming, out, writer, errs, sideVars>>

\* A lane, an upstream reader, a deadline or a cancellation claims the call.
Reply(r) ==
    /\ place[r] = "working"
    /\ forward(r)
    /\ UNCHANGED <<ingress, incoming, router, writer, sideVars>>

-----------------------------------------------------------------------------
\* writeToClient.

WriterTakes ==
    /\ writer = "idle" /\ out # <<>>
    /\ writer' = Head(out)
    /\ out' = Tail(out)
    /\ place' = [place EXCEPT ![Head(out)] = "writing"]
    /\ UNCHANGED <<ingress, incoming, router, errs, sideVars>>

\* The pipe takes the reply.  A client that stops reading lets this never happen.
WriterWrites ==
    /\ writer \in Requests
    /\ writer' = "idle"
    /\ place' = [place EXCEPT ![writer] = "written"]
    /\ UNCHANGED <<ingress, incoming, router, out, errs, sideVars>>

WriterFails ==
    /\ writer \in Requests
    /\ writer' = "gone"
    /\ reportError
    /\ UNCHANGED <<place, ingress, incoming, router, out, sideVars>>

WriterEnds ==
    /\ writer = "idle" /\ cancelled
    /\ writer' = "gone"
    /\ UNCHANGED <<place, ingress, incoming, router, out, errs, sideVars>>

-----------------------------------------------------------------------------
\* serve.

Interrupt ==
    /\ Interrupts /\ ~cancelled
    /\ cancelled' = TRUE
    /\ UNCHANGED <<place, ingress, incoming, router, out, writer, errs, serve, lanes,
                   reporter, finalUsage>>

\* The first failure cancels the session and closes the transport.
Fail ==
    /\ serve = "waiting" /\ errs > 0
    /\ errs' = errs - 1
    /\ cancelled' = TRUE
    /\ serve' = "closing"
    /\ UNCHANGED <<place, ingress, incoming, router, out, writer, lanes, reporter, finalUsage>>

\* closeLanes only once the router, the lanes' sender, has ended.
CloseLanes ==
    /\ serve = "closing" /\ router = "gone"
    /\ serve' = "awaiting"
    /\ lanes' = "closed"
    /\ UNCHANGED <<place, ingress, incoming, router, out, writer, errs, cancelled,
                   reporter, finalUsage>>

LanesEnd ==
    /\ lanes = "closed"
    /\ lanes' = "ended"
    /\ UNCHANGED <<place, ingress, incoming, router, out, writer, errs, cancelled,
                   serve, reporter, finalUsage>>

\* clearRequests: what is still owed is forgotten, and finishUsage publishes.
ClearRequests ==
    /\ serve = "awaiting" /\ lanes = "ended"
    /\ place' = [r \in Requests |->
                    IF place[r] \in {"admitted", "queued", "working"} THEN "dropped" ELSE place[r]]
    /\ finalUsage' = Metrics
    /\ serve' = IF Metrics THEN "flushing" ELSE "returned"
    /\ UNCHANGED <<ingress, incoming, router, out, writer, errs, cancelled, lanes, reporter>>

\* Mistake: serve waits for the last metrics to be written.
ReturnAfterFlush ==
    /\ serve = "flushing" /\ reporter = "done"
    /\ serve' = "returned"
    /\ UNCHANGED <<place, ingress, incoming, router, out, writer, errs, cancelled,
                   lanes, reporter, finalUsage>>

\* finishUsage returns when the metrics are written, or after 100 ms.
Return ==
    /\ serve = "flushing"
    /\ serve' = "returned"
    /\ UNCHANGED <<place, ingress, incoming, router, out, writer, errs, cancelled,
                   lanes, reporter, finalUsage>>

\* reportUsage: a tick or the final snapshot, printed to a stderr that may block.
Report ==
    /\ \/ reporter = "waiting" /\ reporter' = "printing"
       \/ reporter = "printing" /\ reporter' = "waiting"
       \/ reporter = "waiting" /\ cancelled /\ finalUsage /\ reporter' = "final"
       \/ reporter = "final" /\ reporter' = "done"
    /\ UNCHANGED <<place, ingress, incoming, router, out, writer, errs, cancelled,
                   serve, lanes, finalUsage>>

Ingress == ReadFails \/ (\E r \in Requests : ReadRequest(r) \/ Enqueue(r))
Serve == Fail \/ CloseLanes \/ ClearRequests \/ Return

Next ==
    \/ Ingress \/ Route \/ RouterEnds \/ Serve \/ LanesEnd \/ Interrupt \/ Report
    \/ WriterTakes \/ WriterWrites \/ WriterFails \/ WriterEnds
    \/ \E r \in Requests : Reply(r)

\* Go runs every goroutine that can run, and Read returns once the context is
\* done.  Neither the client's pipe nor stderr has to take anything, and no
\* upstream has to answer.
Fairness ==
    /\ WF_vars(\E r \in Requests : Enqueue(r))
    /\ WF_vars(cancelled /\ ReadFails)
    /\ WF_vars(Route) /\ WF_vars(RouterEnds) /\ WF_vars(LanesEnd) /\ WF_vars(Serve)

Spec == Init /\ [][Next]_vars /\ Fairness

-----------------------------------------------------------------------------
\* Properties.

TypeOK ==
    /\ place \in [Requests -> Places]
    /\ ingress \in Requests \cup {"reading", "gone"}
    /\ Len(incoming) <= LaneQueue /\ Len(out) <= OutQueue /\ errs \in 0..ErrQueue
    /\ writer \in Requests \cup {"idle", "gone"}

\* While the session can still be used - no failure is waiting for serve - no
\* reply has been lost and nothing is stuck behind a writer that has ended:
\* every request read is being worked on, queued for the client, or written
\* (bridge.go:303-306: "Never silently discard a terminal response while
\* leaving the session usable").
UsableLosesNothing ==
    serve = "waiting" /\ errs = 0 /\ ~cancelled =>
        /\ writer # "gone" /\ ingress # "gone"
        /\ \A r \in Requests : place[r] \notin {"lost", "dropped"}

\* The queues keep their bounds, and a full one loses no reply unnoticed.
RepliesKept == TypeOK /\ UsableLosesNothing

\* Once anybody has reported a failure the session returns, although the writer
\* may be stuck in a full pipe, stderr may take nothing, no upstream may answer
\* and the error queue may be full (bridge.go:146-150, 316-323).
FailureEndsSession == errs > 0 ~> serve = "returned"

\* "The stdio client going away or the session context being cancelled stops
\* the bridge" (SPEC.md F6).
CancellationEndsSession == cancelled ~> serve = "returned"
=============================================================================
