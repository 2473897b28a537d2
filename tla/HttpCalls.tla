------------------------------ MODULE HttpCalls ------------------------------
(***************************************************************************)
(* The HTTP backend (http.go): every POST is a caller of its own that      *)
(* registers for its reply, is admitted to the one router all callers      *)
(* share, and leaves on its reply, on its client's disconnect or on the    *)
(* end of the backend.  A router goroutine, one coordinator for paths that *)
(* must be resolved and one output goroutine serve them.  A lane and its   *)
(* upstream are module Bridge's and here the set the calls wait in.        *)
(***************************************************************************)
EXTENDS Integers, Sequences, FiniteSets

CONSTANTS
    Calls,      \* HTTP requests, each with an id of its own
    Nobody,     \* the coordinator holds no call
    Sessions,   \* bound: the values of Limits.Session
    Bodies,     \* Limits.HTTPBytes / Limits.MessageBytes
    Leavers,    \* bound: the clients that may disconnect
    LaneQueue,  \* capacity of the routing and the resolution queue
    OutQueue    \* capacity of router.out

ASSUME HttpAssumption ==
    /\ IsFiniteSet(Calls) /\ Nobody \notin Calls /\ Leavers \subseteq Calls
    /\ Sessions \subseteq Nat \ {0} /\ Bodies \in Nat
    /\ LaneQueue \in Nat \ {0} /\ OutQueue \in Nat \ {0}

VARIABLES
    Session,    \* Limits.Session; never changes
    pc,         \* how far each caller is
    denied,     \* history: callers refused at a limit, and at which
    exchanges,  \* HTTP exchanges that hold a slot
    gone,       \* clients that disconnected
    pending,    \* callers registered for a reply
    box,        \* callers whose reply channel is full
    tracked,    \* router.awaitingUpstream
    queue,      \* calls waiting for the router
    cold,       \* calls waiting for the coordinator
    held,       \* the call the coordinator resolves or offers
    offering,   \* the coordinator offers it to the router
    lane,       \* calls a lane has taken
    out,        \* replies waiting for the output goroutine
    failure,    \* router.errs is not empty
    output,     \* the output goroutine runs
    cancelled,  \* the backend's context is done
    router,     \* "routing", "closed", "awaited" or "done"
    dropped     \* history: replies that met a full reply channel

callerVars == <<pc, denied, exchanges, gone, pending, box>>
routeVars == <<queue, cold, held, offering, lane, router>>
vars == <<Session, callerVars, routeVars, tracked, out, failure, output, cancelled, dropped>>

Slots == IF Bodies < Session THEN Bodies ELSE Session

Init ==
    /\ Session \in Sessions
    /\ pc = [c \in Calls |-> "idle"] /\ denied = {}
    /\ exchanges = {} /\ gone = {} /\ pending = {} /\ box = {} /\ tracked = {}
    /\ queue = <<>> /\ cold = <<>> /\ held = Nobody /\ offering = FALSE /\ lane = {}
    /\ out = <<>> /\ failure = FALSE /\ output = TRUE
    /\ cancelled = FALSE /\ router = "routing" /\ dropped = {}

-----------------------------------------------------------------------------
\* The tracker and the output queue.

\* router.forward
Forward(c) ==
    \/ Len(out) < OutQueue /\ out' = Append(out, c) /\ UNCHANGED failure
    \/ cancelled /\ UNCHANGED <<out, failure>>
    \/ Len(out) >= OutQueue /\ ~cancelled /\ failure' = TRUE /\ UNCHANGED out

\* Mistake: the reply goes out whoever has claimed the call.
AnswerUnclaimed(c) == tracked' = tracked \ {c} /\ Forward(c)

\* failIngress, cancelCall and an upstream's result: whoever claims the call
\* answers it, and nobody else does.
Answer(c) ==
    \/ c \in tracked /\ tracked' = tracked \ {c} /\ Forward(c)
    \/ c \notin tracked /\ UNCHANGED <<tracked, out, failure>>

-----------------------------------------------------------------------------
\* newHTTPHandler: a slot for every exchange, and the SDK between it and call.

Accept(c) ==
    /\ pc[c] = "idle"
    /\ \/ /\ Cardinality(exchanges) < Slots
          /\ exchanges' = exchanges \cup {c}
          /\ pc' = [pc EXCEPT ![c] = "arrived"]
       \/ /\ Cardinality(exchanges) >= Slots
          /\ pc' = [pc EXCEPT ![c] = "returned"]
          /\ UNCHANGED exchanges
    /\ UNCHANGED <<denied, gone, pending, box, tracked, routeVars, out, failure, output,
                   cancelled, dropped>>

\* (Once its call has returned a disconnect changes nothing.)
Disconnect(c) ==
    /\ c \in Leavers /\ c \in exchanges \ gone /\ pc[c] # "returned"
    /\ gone' = gone \cup {c}
    /\ UNCHANGED <<pc, denied, exchanges, pending, box, tracked, routeVars, out,
                   failure, output, cancelled, dropped>>

\* Mistake: the slot is given back while the call still runs.
EndExchangeEarly(c) ==
    /\ c \in exchanges
    /\ exchanges' = exchanges \ {c}
    /\ UNCHANGED <<pc, denied, gone, pending, box, tracked, routeVars, out, failure,
                   output, cancelled, dropped>>

\* The exchange of an older protocol version ends without waiting for its call.
EndExchange(c) ==
    /\ c \in exchanges
    /\ pc[c] = "returned" \/ c \in gone
    /\ exchanges' = exchanges \ {c}
    /\ UNCHANGED <<pc, denied, gone, pending, box, tracked, routeVars, out, failure,
                   output, cancelled, dropped>>

-----------------------------------------------------------------------------
\* call.  A request's context ends with its client or with the backend.

ContextDone(c) == c \in gone \/ cancelled

\* Mistake: one registration more than the limit.
RegisterPastLimit(c) ==
    /\ pc[c] = "arrived"
    /\ pc' = [pc EXCEPT ![c] = "registered"]
    /\ ~ContextDone(c) /\ Cardinality(pending) <= Session
    /\ pending' = pending \cup {c}
    /\ UNCHANGED <<denied, exchanges, gone, box, tracked, routeVars, out, failure,
                   output, cancelled, dropped>>

Register(c) ==
    /\ pc[c] = "arrived"
    /\ \/ /\ ContextDone(c)
          /\ pc' = [pc EXCEPT ![c] = "returned"]
          /\ UNCHANGED <<pending, denied>>
       \/ /\ ~ContextDone(c) /\ Cardinality(pending) >= Session
          /\ pc' = [pc EXCEPT ![c] = "returned"]
          /\ denied' = denied \cup {<<c, "http_outstanding">>}
          /\ UNCHANGED pending
       \/ /\ ~ContextDone(c) /\ Cardinality(pending) < Session
          /\ pc' = [pc EXCEPT ![c] = "registered"]
          /\ pending' = pending \cup {c}
          /\ UNCHANGED denied
    /\ UNCHANGED <<exchanges, gone, box, tracked, routeVars, out, failure, output,
                   cancelled, dropped>>

\* prepare: the router's own limit refuses what the tracker cannot hold.
Prepare(c) ==
    /\ pc[c] = "registered"
    /\ \/ /\ Cardinality(tracked) < Session
          /\ tracked' = tracked \cup {c}
          /\ pc' = [pc EXCEPT ![c] = "prepared"]
          /\ UNCHANGED <<out, failure, denied>>
       \/ /\ Cardinality(tracked) >= Session
          /\ Forward(c)
          /\ pc' = [pc EXCEPT ![c] = "waiting"]
          /\ denied' = denied \cup {<<c, "session_outstanding">>}
          /\ UNCHANGED tracked
    /\ UNCHANGED <<exchanges, gone, pending, box, routeVars, output, cancelled, dropped>>

Enqueue(c) ==
    /\ pc[c] = "prepared"
    /\ pc' = [pc EXCEPT ![c] = "waiting"]
    /\ \/ /\ Len(queue) < LaneQueue
          /\ queue' = Append(queue, c)
          /\ UNCHANGED <<tracked, out, failure>>
       \/ /\ Len(queue) >= LaneQueue
          /\ Answer(c)
          /\ UNCHANGED queue
    /\ UNCHANGED <<denied, exchanges, gone, pending, box, cold, held, offering, lane,
                   router, output, cancelled, dropped>>

Leave(c) ==
    /\ pc[c] = "waiting"
    /\ pc' = [pc EXCEPT ![c] = "leaving"]
    /\ UNCHANGED <<denied, exchanges, gone, pending, box, routeVars, output, cancelled, dropped>>

TakeReply(c) == c \in box /\ Leave(c) /\ UNCHANGED <<tracked, out, failure>>

\* The client is gone: the call is cancelled like a client's own cancellation.
GiveUp(c) == ContextDone(c) /\ Leave(c) /\ Answer(c)

BackendEnded(c) == cancelled /\ Leave(c) /\ UNCHANGED <<tracked, out, failure>>

\* Mistake: the call leaves the tracker to the backend's final sweep.
FinishLeft(c) ==
    /\ pc[c] = "leaving"
    /\ pc' = [pc EXCEPT ![c] = "unlisting"]
    /\ UNCHANGED <<denied, exchanges, gone, pending, box, tracked, routeVars, out,
                   failure, output, cancelled, dropped>>

\* The deferred clean-up, first the tracker ...
Finish(c) ==
    /\ pc[c] = "leaving"
    /\ tracked' = tracked \ {c}
    /\ pc' = [pc EXCEPT ![c] = "unlisting"]
    /\ UNCHANGED <<denied, exchanges, gone, pending, box, routeVars, out, failure,
                   output, cancelled, dropped>>

\* ... then the registration.
Unlist(c) ==
    /\ pc[c] = "unlisting"
    /\ pending' = pending \ {c}
    /\ pc' = [pc EXCEPT ![c] = "returned"]
    /\ UNCHANGED <<denied, exchanges, gone, box, tracked, routeVars, out, failure,
                   output, cancelled, dropped>>

-----------------------------------------------------------------------------
\* The router and the coordinator.

\* routeResolved: a lane takes the call, or it is answered here - its context
\* expired, a lookup failed, a limit is reached.
RouteResolved(c) ==
    \/ c \in tracked /\ lane' = lane \cup {c} /\ UNCHANGED <<tracked, out, failure>>
    \/ Answer(c) /\ UNCHANGED lane

\* A call needs no lookup, or the coordinator takes it, or its queue is full.
RouterTakes ==
    /\ router = "routing" /\ queue # <<>>
    /\ queue' = Tail(queue)
    /\ \/ RouteResolved(Head(queue)) /\ UNCHANGED cold
       \/ /\ Len(cold) < LaneQueue
          /\ cold' = Append(cold, Head(queue))
          /\ UNCHANGED <<lane, tracked, out, failure>>
       \/ Len(cold) >= LaneQueue /\ Answer(Head(queue)) /\ UNCHANGED <<cold, lane>>
    /\ UNCHANGED <<callerVars, held, offering, router, output, cancelled, dropped>>

ColdTakes ==
    /\ held = Nobody /\ cold # <<>>
    /\ held' = Head(cold)
    /\ cold' = Tail(cold)
    /\ UNCHANGED <<callerVars, queue, offering, lane, router, tracked, out, failure,
                   output, cancelled, dropped>>

\* Mistake: the coordinator offers although it holds no call.
ColdResolvesNothing ==
    /\ ~offering
    /\ offering' = TRUE
    /\ UNCHANGED <<callerVars, queue, cold, held, lane, router, tracked, out, failure,
                   output, cancelled, dropped>>

\* The lookup ends: found, failed, or out of its budget.
ColdResolves ==
    /\ held # Nobody /\ ~offering
    /\ offering' = TRUE
    /\ UNCHANGED <<callerVars, queue, cold, held, lane, router, tracked, out, failure,
                   output, cancelled, dropped>>

RouterReady ==
    /\ router = "routing" /\ offering
    /\ RouteResolved(held)
    /\ held' = Nobody /\ offering' = FALSE
    /\ UNCHANGED <<callerVars, queue, cold, router, output, cancelled, dropped>>

\* An upstream, a lane or a deadline answers a call its lane has taken.
Reply(c) ==
    /\ c \in lane
    /\ lane' = lane \ {c}
    /\ Answer(c)
    /\ UNCHANGED <<callerVars, queue, cold, held, offering, router, output, cancelled, dropped>>

\* Mistake: the lanes are awaited until they have answered everything.
RouterEndsAnswered ==
    /\ cancelled
    /\ \/ router = "routing" /\ router' = "closed" /\ UNCHANGED <<lane, tracked>>
       \/ router = "closed" /\ lane = {} /\ router' = "awaited" /\ UNCHANGED <<lane, tracked>>
       \/ router = "awaited" /\ router' = "done" /\ tracked' = {} /\ UNCHANGED lane
    /\ UNCHANGED <<callerVars, queue, cold, held, offering, out, failure, output,
                   cancelled, dropped>>

\* closeLanes, awaitLanes, clearRequests, close(done), in this order.
RouterEnds ==
    /\ cancelled
    /\ \/ router = "routing" /\ router' = "closed" /\ UNCHANGED <<lane, tracked>>
       \/ router = "closed" /\ router' = "awaited" /\ lane' = {} /\ UNCHANGED tracked
       \/ router = "awaited" /\ router' = "done" /\ tracked' = {} /\ UNCHANGED lane
    /\ UNCHANGED <<callerVars, queue, cold, held, offering, out, failure, output,
                   cancelled, dropped>>

-----------------------------------------------------------------------------
\* The output goroutine.

\* A reply is for whoever is registered under its id, and waits in a channel of
\* one; nobody waits for that caller.
OutputTakes ==
    /\ output /\ out # <<>>
    /\ out' = Tail(out)
    /\ LET c == Head(out) IN
        /\ box' = IF c \in pending THEN box \cup {c} ELSE box
        /\ dropped' = IF c \in pending /\ c \in box THEN dropped \cup {c} ELSE dropped
    /\ UNCHANGED <<pc, denied, exchanges, gone, pending, tracked, routeVars, failure,
                   output, cancelled>>

\* Mistake: a failure is logged and the backend carries on.
OutputFailsQuietly ==
    /\ output /\ failure
    /\ failure' = FALSE
    /\ UNCHANGED <<callerVars, tracked, routeVars, out, output, cancelled, dropped>>

\* A failure ends the whole backend.
OutputFails ==
    /\ output /\ failure
    /\ failure' = FALSE /\ output' = FALSE /\ cancelled' = TRUE
    /\ UNCHANGED <<callerVars, tracked, routeVars, out, dropped>>

OutputEnds ==
    /\ output /\ cancelled
    /\ output' = FALSE
    /\ UNCHANGED <<callerVars, tracked, routeVars, out, failure, cancelled, dropped>>

\* httpBackend.close, or the end of the process's context.
Close ==
    /\ ~cancelled
    /\ cancelled' = TRUE
    /\ UNCHANGED <<callerVars, tracked, routeVars, out, failure, output, dropped>>

Caller(c) ==
    \/ Register(c) \/ Prepare(c) \/ Enqueue(c) \/ TakeReply(c) \/ GiveUp(c)
    \/ BackendEnded(c) \/ Finish(c) \/ Unlist(c)
Router == RouterTakes \/ RouterReady \/ RouterEnds
Output == OutputTakes \/ OutputFails \/ OutputEnds

Next ==
    /\ UNCHANGED Session
    /\ \/ Router \/ ColdTakes \/ ColdResolves \/ Output \/ Close
       \/ \E c \in Calls : Accept(c) \/ Disconnect(c) \/ EndExchange(c) \/ Caller(c) \/ Reply(c)

\* Go runs every goroutine that can run, a select whose failure case is ready again
\* and again takes it at last, and a lookup has a budget.  No upstream
\* has to answer and no client has to stay or to leave.
Runs(A) == A /\ UNCHANGED Session
Fairness ==
    /\ WF_vars(Runs(Router)) /\ WF_vars(Runs(ColdTakes \/ ColdResolves))
    /\ WF_vars(Runs(RouterEnds))
    /\ WF_vars(Runs(Output)) /\ SF_vars(Runs(OutputFails))
    /\ \A c \in Calls : WF_vars(Runs(Caller(c)))

Spec == Init /\ [][Next]_vars /\ Fairness

-----------------------------------------------------------------------------
\* Properties.

TypeOK ==
    /\ pc \in [Calls -> {"idle", "arrived", "registered", "prepared", "waiting",
                         "leaving", "unlisting", "returned"}]
    /\ denied \subseteq Calls \X {"http_outstanding", "session_outstanding"}
    /\ exchanges \cup gone \cup pending \cup box \cup tracked \cup lane \subseteq Calls
    /\ Len(queue) <= LaneQueue /\ Len(cold) <= LaneQueue /\ Len(out) <= OutQueue
    /\ held \in Calls \cup {Nobody} /\ offering => held # Nobody

\* A call is in the tracker only while its caller is registered, so nothing of
\* it is left once the caller has returned - also when it was admitted after
\* the final sweep of a backend that was shutting down (http.go:169-175).
TrackedIsRegistered == tracked \subseteq pending

\* The router's session limit never refuses a caller that passed the backend's
\* own: the two limits are the same number and the tracker is the smaller set
\* (http.go:160-168).
NeverRefusedTwice == \A c \in Calls : <<c, "session_outstanding">> \notin denied

\* A caller is turned away at the outstanding limit only when disconnected
\* clients still hold registrations: every other registration holds one of at
\* most Session slots (http.go:160-166, 279-292).
LimitOnlyAfterDisconnect ==
    /\ pending \ gone \subseteq exchanges
    /\ gone = {} => \A c \in Calls : <<c, "http_outstanding">> \notin denied

\* A reply never meets a reply channel that is full: a call is answered at most
\* once, by whoever claimed it (http.go:125-133).
NoReplyDropped == dropped = {}

\* A caller whose call has been claimed returns: its reply reaches it, or the
\* reply was lost to a full queue and the backend ends (http.go:119-134).
ClaimedCallReturns == \A c \in Calls :
    pc[c] = "waiting" /\ c \notin tracked ~> pc[c] = "returned"

\* A backend that is closed finishes its sweep and releases every caller
\* (TestHTTPBackendShutdownReleasesCalls).
ShutdownReleasesCalls ==
    cancelled ~> router = "done" /\ \A c \in Calls : pc[c] \in {"idle", "returned"}

\* Registration, tracker and reply channel agree:
\* nothing is tracked, answered or held for a caller that is not there.
CallersTracked == TypeOK /\ TrackedIsRegistered /\ NoReplyDropped

\* The three limits on one call agree, whichever of their holders has left
\* (http.go:160-168, 279-292).
LimitsAgree == NeverRefusedTwice /\ LimitOnlyAfterDisconnect

\* No caller is left behind, by its reply or by the end of the backend.
CallersReturn == ClaimedCallReturns /\ ShutdownReleasesCalls
=============================================================================
