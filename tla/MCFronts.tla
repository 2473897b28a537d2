------------------------------ MODULE MCFronts ------------------------------
(***************************************************************************)
(* A process has one front: it serves HTTP, or the one client of its stdio.*)
(* The two share nothing but their limits, so this module runs the one or  *)
(* the other.  There are more requests than the queues have room for.      *)
(***************************************************************************)
EXTENDS HttpCalls

CONSTANTS Requests, ErrQueue, Interrupts, Metrics

VARIABLES
    front,    \* "http" or "stdio"; never changes
    sRouter, sOut, sCancelled, place, ingress, incoming, writer, errs, serve, lanes,
    reporter, finalUsage

stdioVars == <<sRouter, sOut, sCancelled, place, ingress, incoming, writer, errs, serve,
               lanes, reporter, finalUsage>>

S == INSTANCE Output WITH router <- sRouter, out <- sOut, cancelled <- sCancelled

ASSUME FrontsAssumption == S!OutputAssumption

MCInit == Init /\ S!Init /\ front \in {"http", "stdio"}
MCNext ==
    /\ UNCHANGED front
    /\ \/ front = "http" /\ Next /\ UNCHANGED stdioVars
       \/ front = "stdio" /\ S!Next /\ UNCHANGED vars

\* Until a front is used nothing of it can run, so its fairness asks nothing of
\* the process that has the other one.
MCSpec == MCInit /\ [][MCNext]_<<front, vars, stdioVars>> /\ Fairness /\ S!Fairness

-----------------------------------------------------------------------------
\* Of Output: a usable session has lost no reply (bridge.go:303-306).
RepliesKept == S!RepliesKept

\* Of Output: a session that failed returns (bridge.go:146-150, 316-323).
FailureEndsSession == S!FailureEndsSession
=============================================================================
