------------------------------ MODULE Tracker ------------------------------
(***************************************************************************)
(* The request tracker of one session (requests.go).  Every request the    *)
(* client sends is admitted under its wire id and given a generation       *)
(* token, the address of a fresh callState in the code and a number here.  *)
(* The tracker keeps two tables and two tallies under one mutex, so each   *)
(* operator below that primes them is one critical section of router.mu:   *)
(*                                                                         *)
(*   awaiting    - router.awaitingUpstream, what the client is still owed; *)
(*   operations  - what an upstream may still be working on, which         *)
(*                 outlives the client's interest in it.                   *)
(*                                                                         *)
(* answers and results are history variables: how often a call was         *)
(* answered, and, for an answer that is about one generation (its result,  *)
(* its failed delivery, its deadline), which generation received it.       *)
(*                                                                         *)
(* An operator whose comment starts with "Mistake:" is no part of the      *)
(* model: it is a plausible bug in the definition that follows it, which   *)
(* the properties are tried against (see README.md).                       *)
(***************************************************************************)
EXTENDS Integers, Sequences, FiniteSets

CONSTANTS
  Ids,          \* wire ids the client uses, and uses again
  Worktrees,    \* worktrees a call can be routed to
  NoId,         \* the invalid id of a notification
  NoWorktree,   \* owed.worktree before routing has bound it
  Session,      \* limits.Session
  PerLane,      \* limits.PerLane
  Execution,    \* limits.Execution > 0
  MaxCalls,     \* bound: messages the client sends
  MaxConns      \* bound: connections the lanes dial

ASSUME TrackerAssumption ==
  /\ IsFiniteSet(Ids) /\ NoId \notin Ids
  /\ IsFiniteSet(Worktrees) /\ NoWorktree \notin Worktrees
  /\ Session \in Nat \ {0} /\ PerLane \in Nat \ {0}
  /\ Execution \in BOOLEAN
  /\ MaxCalls \in Nat \ {0} /\ MaxConns \in Nat \ {0}

VARIABLES
  session,      \* "live"; "ending" once the context is cancelled; "closed"
  minted,       \* generation tokens handed out so far
  idOf,         \* the wire id of each generation, NoId for a notification
  kindOf,       \* the kind of message of each generation
  awaiting,
  operations,
  perWorktree,
  operationsPerWorktree,
  timer,        \* callState.timer of each generation
  ctxDone,      \* generations whose delivery context is cancelled or expired
  answers,
  results

trackerVars == <<session, minted, idOf, kindOf, awaiting, operations, perWorktree,
                 operationsPerWorktree, timer, ctxDone, answers, results>>

Tokens == 1 .. MaxCalls
Conns  == 1 .. MaxConns
NoToken == 0
NoConn  == 0

Kinds == {"initialize", "call", "notification"}

\* owed, without the cancel function (ctxDone says whether it was called) and
\* the placed channel (Lane!Placed says whether it is closed).
Owed == [tok : Tokens \cup {NoToken}, wt : Worktrees \cup {NoWorktree},
         conn : Conns \cup {NoConn}]
Vacant == [tok |-> NoToken, wt |-> NoWorktree, conn |-> NoConn]

Operation == [tok : Tokens \cup {NoToken}, wt : Worktrees \cup {NoWorktree},
              abandoned : BOOLEAN]
NoOperation == [tok |-> NoToken, wt |-> NoWorktree, abandoned |-> FALSE]

TrackerTypeOK ==
  /\ session \in {"live", "ending", "closed"}
  /\ minted \in 0 .. MaxCalls
  /\ idOf \in [Tokens -> Ids \cup {NoId}]
  /\ kindOf \in [Tokens -> Kinds \cup {"none"}]
  /\ awaiting \in [Ids -> Owed]
  /\ operations \in [Conns -> [Ids -> Operation]]
  /\ perWorktree \in [Worktrees -> Nat]
  /\ operationsPerWorktree \in [Worktrees -> Nat]
  /\ timer \in [Tokens -> {"unset", "armed", "running", "stopped"}]
  /\ ctxDone \subseteq Tokens
  /\ answers \in [Tokens -> Nat]
  /\ results \subseteq Tokens \X Tokens

TrackerInit ==
  /\ session = "live"
  /\ minted = 0
  /\ idOf = [t \in Tokens |-> NoId]
  /\ kindOf = [t \in Tokens |-> "none"]
  /\ awaiting = [i \in Ids |-> Vacant]
  /\ operations = [c \in Conns |-> [i \in Ids |-> NoOperation]]
  /\ perWorktree = [w \in Worktrees |-> 0]
  /\ operationsPerWorktree = [w \in Worktrees |-> 0]
  /\ timer = [t \in Tokens |-> "unset"]
  /\ ctxDone = {}
  /\ answers = [t \in Tokens |-> 0]
  /\ results = {}

-----------------------------------------------------------------------------
(* Looking records up. *)

Outstanding == {i \in Ids : awaiting[i].tok # NoToken}

\* Mistake: the record is looked up by wire id alone.
OwnedAnyGeneration(t) == {i \in Outstanding : i = idOf[t]}

\* ownerLocked with a state: the ids still owed to generation t, one or none.
\* A notification is tracked nowhere, so it owns none.
Owned(t) == {i \in Outstanding : awaiting[i].tok = t}

\* What failInFlight collects: the ids a connection owes.
OwedBy(c) == {i \in Outstanding : awaiting[i].conn = c}

\* The keys of router.operations.
Unresolved == {k \in Conns \X Ids : operations[k[1]][k[2]].tok # NoToken}

\* ctx.Err() # nil for the delivery of t: every delivery context descends from
\* the session's.
CtxErr(t) == t \in ctxDone \/ session # "live"

\* release: give k counts back, an entry that reaches zero being dropped.
Release(n, k) == IF n > k THEN n - k ELSE 0

-----------------------------------------------------------------------------
(* Critical sections. *)

\* Mistake: a duplicate id takes the original's place.
AdmissibleTwice(i) == Cardinality(Outstanding) < Session

\* admit: a duplicate id, or a full session, is refused and changes nothing.
Admissible(i) ==
  /\ awaiting[i].tok = NoToken
  /\ Cardinality(Outstanding) < Session

\* The message of kind k under id i becomes generation minted + 1.
Mint(i, k) ==
  /\ minted < MaxCalls
  /\ minted' = minted + 1
  /\ idOf' = [idOf EXCEPT ![minted + 1] = i]
  /\ kindOf' = [kindOf EXCEPT ![minted + 1] = k]

Track(i) == awaiting' = [awaiting EXCEPT ![i] = [Vacant EXCEPT !.tok = minted + 1]]

\* Mistake: giving a call up frees the credit of its operation.
AbandonedFreed(S, ops) ==
  [c \in Conns |-> [i \in Ids |->
     IF i \in S /\ awaiting[i].conn = c THEN NoOperation ELSE ops[c][i]]]

\* removeLocked for every id of S, ops being the operations it starts from: the
\* operation is abandoned and keeps its credit, a delivery no upstream has taken
\* is cancelled, the timer is stopped (a callback already running is not), and
\* the worktree's count is given back.
Abandoned(S, ops) ==
  [c \in Conns |-> [i \in Ids |->
     IF i \in S /\ awaiting[i].conn = c /\ ops[c][i].tok # NoToken
     THEN [ops[c][i] EXCEPT !.abandoned = TRUE] ELSE ops[c][i]]]

Forget(S) ==
  /\ ctxDone' = ctxDone \cup {awaiting[i].tok : i \in {j \in S : awaiting[j].conn = NoConn}}
  /\ awaiting' = [i \in Ids |-> IF i \in S THEN Vacant ELSE awaiting[i]]
  /\ perWorktree' = [w \in Worktrees |->
       Release(perWorktree[w], Cardinality({i \in S : awaiting[i].wt = w}))]

StopTimers(S) ==
  timer' = [t \in Tokens |->
    IF timer[t] = "armed" /\ (\E i \in S : awaiting[i].tok = t) THEN "stopped" ELSE timer[t]]

Remove(S) == Forget(S) /\ StopTimers(S)

\* forward: one reply to the client for every id of S.
Answer(S) ==
  answers' = [t \in Tokens |-> IF \E i \in S : awaiting[i].tok = t
                               THEN answers[t] + 1 ELSE answers[t]]

\* The answer the ids of S are about to get is about generation t.
About(t, S) == results' = results \cup {<<awaiting[i].tok, t>> : i \in S}

\* failInFlight and the client's own finish(id, nil, nil): claim the ids of S,
\* whoever holds them, and answer each.
Finish(S) ==
  /\ Remove(S)
  /\ operations' = Abandoned(S, operations)
  /\ Answer(S)
  /\ UNCHANGED <<minted, idOf, kindOf, operationsPerWorktree, results>>

\* failDelivery, finish(id, nil, state): claim the id only if generation t still
\* owns it, and answer it.
FailDelivery(t) ==
  /\ Remove(Owned(t))
  /\ operations' = Abandoned(Owned(t), operations)
  /\ Answer(Owned(t))
  /\ About(t, Owned(t))
  /\ UNCHANGED <<minted, idOf, kindOf, operationsPerWorktree>>

\* endOperationLocked.
Ended(c, i) == [operations EXCEPT ![c][i] = NoOperation]

\* Mistake: the operation goes and its count stays.
EndOperationUncounted(c, i) == UNCHANGED operationsPerWorktree

EndOperation(c, i) ==
  operationsPerWorktree' = IF operations[c][i].tok = NoToken THEN operationsPerWorktree
    ELSE [operationsPerWorktree EXCEPT ![operations[c][i].wt] = Release(@, 1)]

\* finish(id, conn, nil): the result of generation t, read from connection c,
\* carries the wire id alone.  It resolves the operation whoever it was, and
\* answers the id only if this connection owes it.
FinishResponse(c, t) ==
  LET i == idOf[t]
      S == {i} \cap OwedBy(c)
  IN /\ EndOperation(c, i)
     /\ Remove(S)
     /\ operations' = Abandoned(S, Ended(c, i))
     /\ Answer(S)
     /\ About(t, S)
     /\ UNCHANGED <<minted, idOf, kindOf>>

\* bindWorktree's half of the accounting: t is charged to w.
Bindable(t, w) == Owned(t) # {} /\ perWorktree[w] < PerLane

Bind(t, w) ==
  /\ awaiting' = [i \in Ids |-> IF i \in Owned(t) THEN [awaiting[i] EXCEPT !.wt = w]
                                ELSE awaiting[i]]
  /\ perWorktree' = [perWorktree EXCEPT ![w] = @ + 1]

\* placeDelivery and retry: the delivery of t is nobody's, so a cancellation
\* stops it instead of being forwarded.
Unplace(t) ==
  awaiting' = [i \in Ids |-> IF i \in Owned(t) THEN [awaiting[i] EXCEPT !.conn = NoConn]
                             ELSE awaiting[i]]

\* beginOperation: the checks, and the reservation they lead to.
Reservable(t, c, w) ==
  /\ Owned(t) # {}
  /\ operations[c][idOf[t]].tok = NoToken
  /\ Cardinality(Unresolved) < Session
  /\ operationsPerWorktree[w] < PerLane

BeginOperation(t, c, w) ==
  /\ operations' = [operations EXCEPT ![c][idOf[t]] =
                      [tok |-> t, wt |-> w, abandoned |-> FALSE]]
  /\ operationsPerWorktree' = [operationsPerWorktree EXCEPT ![w] = @ + 1]
  /\ awaiting' = [i \in Ids |-> IF i \in Owned(t) THEN [awaiting[i] EXCEPT !.conn = c]
                                ELSE awaiting[i]]

\* retry: a failed write takes its call back from c unless c's reader was first.
Retryable(t, c) == \E i \in Owned(t) : awaiting[i].conn = c

\* Mistake: the failed attempt is not marked abandoned.
RetryUnmarked(t, c) == Unplace(t) /\ UNCHANGED operations

Retry(t, c) ==
  /\ Unplace(t)
  /\ operations' = IF operations[c][idOf[t]].tok = NoToken THEN operations
                   ELSE [operations EXCEPT ![c][idOf[t]].abandoned = TRUE]

\* Mistake: no deadline is started.
StartExecutionNever(t) == UNCHANGED timer

\* startExecution, run once the write of t has succeeded.
StartExecution(t) ==
  timer' = IF Execution /\ Owned(t) # {} THEN [timer EXCEPT ![t] = "armed"] ELSE timer

\* clearRequests: what is left when the session ends is discarded unanswered,
\* and no operation of the session is charged any more.
ClearRequests ==
  /\ Remove(Outstanding)
  /\ operations' = [c \in Conns |-> [i \in Ids |-> NoOperation]]
  /\ operationsPerWorktree' = [w \in Worktrees |-> 0]
  /\ UNCHANGED <<minted, idOf, kindOf, answers, results>>
=============================================================================
