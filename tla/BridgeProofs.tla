---------------------------- MODULE BridgeProofs ----------------------------
(***************************************************************************)
(* Theorems about the session of module Bridge, for every value of its     *)
(* constants: first the types, then what the client is owed.  Every step   *)
(* of a session does one of three things to the client's ledger: it admits *)
(* a message, it settles a set of calls it claims and replies to, or it    *)
(* discards what is left because the session closes.  From that follow     *)
(* that a call is owed or answered exactly once, and that the session      *)
(* implements CallContract.  Last comes where a message is between its     *)
(* admission and its delivery.                                             *)
(***************************************************************************)
EXTENDS BridgeProps, BridgeRefinement, FiniteSetTheorems, TLAPS

USE DEF NoToken, NoConn, Attempts

-----------------------------------------------------------------------------
(* What the tracker's critical sections do to the types. *)

\* Giving counts back leaves a count.
LEMMA ReleaseType ==
  ASSUME NEW n \in Nat, NEW k \in Nat
  PROVE  Release(n, k) \in Nat
  BY DEF Release

\* A set of ids is finite, so what release is asked to give back is a count.
LEMMA CountType ==
  ASSUME NEW S \in SUBSET Ids
  PROVE  IsFiniteSet(S) /\ Cardinality(S) \in Nat
  BY TrackerAssumption, FS_Subset, FS_CardinalityType

\* removeLocked keeps the types of everything it touches.
LEMMA ForgetType ==
  ASSUME TrackerTypeOK, NEW S \in SUBSET Outstanding, Forget(S)
  PROVE  /\ ctxDone' \subseteq Tokens
         /\ awaiting' \in [Ids -> Owed]
         /\ perWorktree' \in [Worktrees -> Nat]
<1>1. \A i \in S : i \in Ids /\ awaiting[i] \in Owed /\ awaiting[i].tok \in Tokens
  BY DEF TrackerTypeOK, Outstanding, Owed, Tokens
<1>2. ctxDone' \subseteq Tokens
  BY <1>1 DEF Forget, TrackerTypeOK
<1>3. awaiting' \in [Ids -> Owed]
  BY DEF Forget, TrackerTypeOK, Owed, Vacant
<1>4. perWorktree' \in [Worktrees -> Nat]
  <2>1. \A w \in Worktrees :
          Release(perWorktree[w], Cardinality({i \in S : awaiting[i].wt = w})) \in Nat
    BY <1>1, CountType, ReleaseType DEF TrackerTypeOK
  <2> QED
    BY <2>1 DEF Forget
<1> QED
  BY <1>2, <1>3, <1>4

\* removeLocked, timers included.
LEMMA RemoveType ==
  ASSUME TrackerTypeOK, NEW S \in SUBSET Outstanding, Remove(S)
  PROVE  /\ ctxDone' \subseteq Tokens
         /\ timer' \in [Tokens -> {"unset", "armed", "running", "stopped"}]
         /\ awaiting' \in [Ids -> Owed]
         /\ perWorktree' \in [Worktrees -> Nat]
<1>1. timer' \in [Tokens -> {"unset", "armed", "running", "stopped"}]
  BY DEF Remove, StopTimers, TrackerTypeOK
<1> QED
  BY <1>1, ForgetType DEF Remove

\* Marking an operation abandoned leaves an operation.
LEMMA OperationMark ==
  ASSUME NEW o \in Operation
  PROVE  [o EXCEPT !.abandoned = TRUE] \in Operation
  BY DEF Operation

\* Abandoning operations keeps them operations.
LEMMA AbandonedType ==
  ASSUME NEW S, NEW ops \in [Conns -> [Ids -> Operation]]
  PROVE  Abandoned(S, ops) \in [Conns -> [Ids -> Operation]]
<1> DEFINE after(c, i) == IF i \in S /\ awaiting[i].conn = c /\ ops[c][i].tok # NoToken
                          THEN [ops[c][i] EXCEPT !.abandoned = TRUE] ELSE ops[c][i]
<1>1. ASSUME NEW c \in Conns, NEW i \in Ids
      PROVE  after(c, i) \in Operation
  <2>1. ops[c][i] \in Operation
    BY <1>1
  <2>2. [ops[c][i] EXCEPT !.abandoned = TRUE] \in Operation
    BY <2>1, OperationMark
  <2> QED
    BY <2>1, <2>2
<1>2. Abandoned(S, ops) = [c \in Conns |-> [i \in Ids |-> after(c, i)]]
  BY DEF Abandoned
<1> HIDE DEF after
<1> QED
  BY <1>1, <1>2

\* forward counts replies.
LEMMA AnswerType ==
  ASSUME TrackerTypeOK, NEW S, Answer(S)
  PROVE  answers' \in [Tokens -> Nat]
  BY DEF Answer, TrackerTypeOK

\* Claiming and answering a set of ids preserves the tracker's types.
LEMMA FinishType ==
  ASSUME TrackerTypeOK, NEW S \in SUBSET Outstanding, Finish(S), UNCHANGED session
  PROVE  TrackerTypeOK'
<1>1. Remove(S) /\ operations' = Abandoned(S, operations) /\ Answer(S)
  BY DEF Finish
<1> QED
  BY <1>1, RemoveType, AbandonedType, AnswerType DEF Finish, TrackerTypeOK

\* What a generation owns is outstanding.
LEMMA OwnedOutstanding ==
  ASSUME NEW t
  PROVE  Owned(t) \in SUBSET Outstanding
  BY DEF Owned

\* The history of answers pairs tokens.
LEMMA AboutType ==
  ASSUME TrackerTypeOK, NEW S \in SUBSET Outstanding, NEW t \in Tokens, About(t, S)
  PROVE  results' \subseteq Tokens \X Tokens
<1>1. \A i \in S : awaiting[i].tok \in Tokens
  BY DEF TrackerTypeOK, Outstanding, Owed, Tokens
<1> QED
  BY <1>1 DEF About, TrackerTypeOK

\* failDelivery keeps the types.
LEMMA FailDeliveryType ==
  ASSUME TrackerTypeOK, NEW t \in Tokens, FailDelivery(t), UNCHANGED session
  PROVE  TrackerTypeOK'
<1>1. /\ Remove(Owned(t)) /\ operations' = Abandoned(Owned(t), operations)
      /\ Answer(Owned(t)) /\ About(t, Owned(t))
  BY DEF FailDelivery
<1>2. Owned(t) \in SUBSET Outstanding
  BY OwnedOutstanding
<1>3. /\ ctxDone' \subseteq Tokens
      /\ timer' \in [Tokens -> {"unset", "armed", "running", "stopped"}]
      /\ awaiting' \in [Ids -> Owed]
      /\ perWorktree' \in [Worktrees -> Nat]
  BY <1>1, <1>2, RemoveType
<1>4. operations' \in [Conns -> [Ids -> Operation]]
  BY <1>1, AbandonedType DEF TrackerTypeOK
<1>5. answers' \in [Tokens -> Nat] /\ results' \subseteq Tokens \X Tokens
  BY <1>1, <1>2, AnswerType, AboutType
<1> QED
  BY <1>3, <1>4, <1>5 DEF FailDelivery, TrackerTypeOK

\* The token minted next is one.
LEMMA MintType ==
  ASSUME TrackerTypeOK, minted < MaxCalls
  PROVE  minted + 1 \in Tokens
  BY TrackerAssumption DEF TrackerTypeOK, Tokens

\* A forwarded cancellation names the generation and the connection it is about.
LEMMA QueueCancellationType ==
  ASSUME TrackerTypeOK, LaneTypeOK, NEW i \in Outstanding, QueueCancellation(i)
  PROVE  controls' \in [Worktrees -> Seq(Control)]
<1> DEFINE k == [tok |-> awaiting[i].tok, conn |-> awaiting[i].conn]
<1>1. \A w \in Worktrees : controls[w] \in Seq(Control)
  BY DEF LaneTypeOK
<1>2. CASE awaiting[i].conn = NoConn
  BY <1>1, <1>2 DEF QueueCancellation
<1>3. CASE awaiting[i].conn # NoConn
  <2>1. k \in Control
    BY <1>3 DEF TrackerTypeOK, Outstanding, Owed, Control
  <2>2. \A w \in Worktrees : Append(controls[w], k) \in Seq(Control)
    BY <1>1, <2>1
  <2> QED
    BY <1>1, <2>2 DEF QueueCancellation
<1> QED
  BY <1>2, <1>3

\* Changing one field of some records of the tracker keeps them records.
LEMMA OwedUpdate ==
  ASSUME NEW r \in Owed
  PROVE  /\ \A w \in Worktrees : [r EXCEPT !.wt = w] \in Owed
         /\ \A c \in Conns \cup {NoConn} : [r EXCEPT !.conn = c] \in Owed
  BY DEF Owed

\* So does bindWorktree,
LEMMA BindType ==
  ASSUME TrackerTypeOK, NEW t, NEW w \in Worktrees, Bind(t, w)
  PROVE  awaiting' \in [Ids -> Owed] /\ perWorktree' \in [Worktrees -> Nat]
<1>1. \A i \in Ids : awaiting[i] \in Owed /\ [awaiting[i] EXCEPT !.wt = w] \in Owed
  BY OwedUpdate DEF TrackerTypeOK
<1> QED
  BY <1>1 DEF Bind, TrackerTypeOK

\* and placeDelivery,
LEMMA UnplaceType ==
  ASSUME TrackerTypeOK, NEW t, Unplace(t)
  PROVE  awaiting' \in [Ids -> Owed]
<1>1. \A i \in Ids : awaiting[i] \in Owed /\ [awaiting[i] EXCEPT !.conn = NoConn] \in Owed
  BY OwedUpdate DEF TrackerTypeOK
<1> QED
  BY <1>1 DEF Unplace

\* and retry,
LEMMA RetryType ==
  ASSUME TrackerTypeOK, NEW t, NEW c \in Conns, Retry(t, c)
  PROVE  /\ awaiting' \in [Ids -> Owed]
         /\ operations' \in [Conns -> [Ids -> Operation]]
<1>1. awaiting' \in [Ids -> Owed]
  BY UnplaceType DEF Retry
<1>2. \A i \in Ids : [operations[c][i] EXCEPT !.abandoned = TRUE] \in Operation
  BY OperationMark DEF TrackerTypeOK
<1>3. operations' \in [Conns -> [Ids -> Operation]]
  BY <1>2 DEF Retry, TrackerTypeOK
<1> QED
  BY <1>1, <1>3

\* and beginOperation,
LEMMA BeginOperationType ==
  ASSUME TrackerTypeOK, NEW t \in Tokens, NEW c \in Conns, NEW w \in Worktrees,
         BeginOperation(t, c, w)
  PROVE  /\ awaiting' \in [Ids -> Owed]
         /\ operations' \in [Conns -> [Ids -> Operation]]
         /\ operationsPerWorktree' \in [Worktrees -> Nat]
<1>1. \A i \in Ids : awaiting[i] \in Owed /\ [awaiting[i] EXCEPT !.conn = c] \in Owed
  BY OwedUpdate DEF TrackerTypeOK
<1>2. awaiting' \in [Ids -> Owed]
  BY <1>1 DEF BeginOperation
<1>3. [tok |-> t, wt |-> w, abandoned |-> FALSE] \in Operation
  BY DEF Operation
<1>4. operations' \in [Conns -> [Ids -> Operation]]
  BY <1>3 DEF BeginOperation, TrackerTypeOK
<1> QED
  BY <1>2, <1>4 DEF BeginOperation, TrackerTypeOK

\* and endOperationLocked.
LEMMA EndOperationType ==
  ASSUME TrackerTypeOK, NEW c \in Conns, NEW i \in Ids, EndOperation(c, i)
  PROVE  /\ Ended(c, i) \in [Conns -> [Ids -> Operation]]
         /\ operationsPerWorktree' \in [Worktrees -> Nat]
<1>1. NoOperation \in Operation
  BY DEF NoOperation, Operation
<1>2. Ended(c, i) \in [Conns -> [Ids -> Operation]]
  BY <1>1 DEF Ended, TrackerTypeOK
<1>3. \A w \in Worktrees : Release(operationsPerWorktree[w], 1) \in Nat
  BY ReleaseType DEF TrackerTypeOK
<1> QED
  BY <1>2, <1>3 DEF EndOperation, TrackerTypeOK

-----------------------------------------------------------------------------
(* The type invariant.  It needs to know where a lane can be: a lane that  *)
(* is not idle holds a message, and one that holds a connection has an     *)
(* attempt to spend.  The result of a call is looked up by its id, so that *)
(* what gopls has must have one.                                           *)

LaneShape ==
  \A w \in Worktrees :
    /\ lane[w].pc # "idle" => lane[w].tok \in Tokens
    /\ lane[w].pc \notin {"idle", "attempt"} => lane[w].try <= Attempts /\ lane[w].conn \in Conns

RoutingShape == routing.wt # NoWorktree => routing.tok \in Tokens

Shape == TypeOK /\ LaneShape /\ RoutingShape

\* Only a minted token has a wire id, and gopls is asked only under one.
IdShape ==
  /\ \A t \in Tokens : idOf[t] # NoId => t <= minted
  /\ \A c \in Conns : \A t \in upstream[c] \cup responses[c] : idOf[t] # NoId

\* A session starts in shape.
LEMMA InitShape == Init => Shape /\ IdShape
<1> SUFFICES ASSUME Init PROVE Shape /\ IdShape
  OBVIOUS
<1>1. TrackerTypeOK
  BY TrackerAssumption DEF Init, TrackerInit, TrackerTypeOK, Owed, Vacant, Operation, NoOperation
<1>2. LaneTypeOK
  BY BridgeAssumption DEF Init, LaneInit, LaneTypeOK, LaneState, LanePC, Idle, Control, NoControl
<1>3. BridgeTypeOK /\ RoutingShape
  BY DEF Init, BridgeTypeOK, NotRouting, RoutingShape
<1>4. LaneShape /\ IdShape
  BY DEF Init, TrackerInit, LaneInit, LaneShape, IdShape, Idle
<1> QED
  BY <1>1, <1>2, <1>3, <1>4 DEF Shape, TypeOK

\* Ingress keeps the shape: what it mints is a token.
LEMMA IngressShape ==
  ASSUME Shape, Ingress
  PROVE  Shape'
<1> USE DEF Shape, TypeOK
<1>1. ASSUME NEW i \in Ids, NEW k \in Sends \ {"notification"}, Admit(i, k)
      PROVE  Shape'
  <2>1. minted + 1 \in Tokens /\ k \in Kinds
    BY <1>1, BridgeAssumption, MintType DEF Admit, Mint
  <2>2. TrackerTypeOK'
    BY <1>1, <2>1 DEF Admit, Mint, Track, TrackerTypeOK, Owed, Vacant, Tokens
  <2>3. incoming' \in Seq(Tokens)
    BY <1>1, <2>1 DEF Admit, BridgeTypeOK
  <2> QED
    BY <1>1, <2>2, <2>3 DEF Admit, LaneTypeOK, BridgeTypeOK, LaneShape, RoutingShape, Tokens
<1>2. ASSUME NEW i \in Ids, NEW k \in Sends \ {"notification"}, AdmitOverflows(i, k)
      PROVE  Shape'
  <2>1. minted + 1 \in Tokens /\ k \in Kinds
    BY <1>2, BridgeAssumption, MintType DEF AdmitOverflows, Mint
  <2>2. TrackerTypeOK'
    <3>1. answers' \in [Tokens -> Nat]
      BY <1>2, <2>1 DEF AdmitOverflows, TrackerTypeOK
    <3>2. minted' \in 0 .. MaxCalls
      BY <1>2, <2>1, TrackerAssumption DEF AdmitOverflows, Mint, TrackerTypeOK, Tokens
    <3> QED
      BY <1>2, <2>1, <3>1, <3>2 DEF AdmitOverflows, Mint, TrackerTypeOK
  <2> QED
    BY <1>2, <2>2 DEF AdmitOverflows, LaneTypeOK, BridgeTypeOK, LaneShape, RoutingShape
<1>3. ASSUME NEW i \in Ids, NEW k \in Sends \ {"notification"}, AdmitTooLate(i, k)
      PROVE  Shape'
  <2>1. minted + 1 \in Tokens /\ k \in Kinds
    BY <1>3, BridgeAssumption, MintType DEF AdmitTooLate, Mint
  <2>2. TrackerTypeOK'
    BY <1>3, <2>1 DEF AdmitTooLate, Mint, Track, TrackerTypeOK, Owed, Vacant, Tokens
  <2> QED
    BY <1>3, <2>2 DEF AdmitTooLate, LaneTypeOK, BridgeTypeOK, LaneShape, RoutingShape
<1>4. ASSUME AdmitNotification
      PROVE  Shape'
  <2>1. minted + 1 \in Tokens /\ "notification" \in Kinds
    BY <1>4, MintType DEF AdmitNotification, Mint, Kinds
  <2>2. TrackerTypeOK'
    BY <1>4, <2>1 DEF AdmitNotification, Mint, TrackerTypeOK, Tokens
  <2>3. incoming' \in Seq(Tokens)
    BY <1>4, <2>1 DEF AdmitNotification, BridgeTypeOK
  <2> QED
    BY <1>4, <2>2, <2>3 DEF AdmitNotification, laneVars, LaneTypeOK, BridgeTypeOK, LaneShape,
                            RoutingShape
<1>5. ASSUME NEW i \in Ids, Cancel(i)
      PROVE  Shape'
  <2>1. TrackerTypeOK'
    BY <1>5, FinishType DEF Cancel
  <2>2. controls' \in [Worktrees -> Seq(Control)]
    BY <1>5, QueueCancellationType DEF Cancel
  <2> QED
    BY <1>5, <2>1, <2>2 DEF Cancel, bridgeVars, LaneTypeOK, BridgeTypeOK, LaneShape, RoutingShape
<1>6. ASSUME IngressStops
      PROVE  Shape'
  BY <1>6 DEF IngressStops, trackerVars, laneVars, TrackerTypeOK, LaneTypeOK, BridgeTypeOK,
              LaneShape, RoutingShape
<1> QED
  BY <1>1, <1>2, <1>3, <1>4, <1>5, <1>6 DEF Ingress

\* Failing the call the router holds keeps the shape.
LEMMA FailRoutingShape ==
  ASSUME Shape, routing.tok # NoToken, FailRouting, UNCHANGED <<laneVars, ingress, incoming, roots>>
  PROVE  Shape'
<1>1. routing.tok \in Tokens
  BY DEF Shape, TypeOK, BridgeTypeOK
<1>2. TrackerTypeOK'
  BY <1>1, FailDeliveryType DEF Shape, TypeOK, FailRouting
<1> QED
  BY <1>2 DEF Shape, TypeOK, FailRouting, laneVars, LaneTypeOK, BridgeTypeOK, LaneShape,
              RoutingShape, NotRouting

\* The router keeps the shape.
LEMMA RouterShape ==
  ASSUME Shape, Router
  PROVE  Shape'
<1> USE DEF Shape, TypeOK
<1>1. ASSUME RouteTakes
      PROVE  Shape'
  <2>1. Head(incoming) \in Tokens /\ Tail(incoming) \in Seq(Tokens)
    BY <1>1 DEF RouteTakes, BridgeTypeOK
  <2> QED
    BY <1>1, <2>1 DEF RouteTakes, NotRouting, trackerVars, laneVars, TrackerTypeOK, LaneTypeOK,
                      BridgeTypeOK, LaneShape, RoutingShape
<1>2. ASSUME RouteFails
      PROVE  Shape'
  BY <1>2, FailRoutingShape DEF RouteFails, Resolving
<1>3. ASSUME RouteHandsOver
      PROVE  Shape'
  <2>1. routing.tok \in Tokens /\ routing.wt \in Worktrees
    BY <1>3 DEF RouteHandsOver, BridgeTypeOK, RoutingShape
  <2>2. Append(reqs[routing.wt], routing.tok) \in Seq(Tokens)
    BY <2>1 DEF LaneTypeOK
  <2>3. reqs' \in [Worktrees -> Seq(Tokens)]
    BY <1>3, <2>1, <2>2 DEF RouteHandsOver, LaneTypeOK
  <2> QED
    BY <1>3, <2>1, <2>3 DEF RouteHandsOver, NotRouting, trackerVars, TrackerTypeOK, LaneTypeOK,
                      BridgeTypeOK, LaneShape, RoutingShape
<1>4. ASSUME RouteOverflows
      PROVE  Shape'
  <2>1. routing.tok # NoToken
    BY <1>4 DEF RouteOverflows, RoutingShape, Tokens
  <2> QED
    BY <1>4, <2>1, FailRoutingShape DEF RouteOverflows
<1>5. ASSUME RouteStops
      PROVE  Shape'
  BY <1>5 DEF RouteStops, NotRouting, trackerVars, TrackerTypeOK, LaneTypeOK,
              BridgeTypeOK, LaneShape, RoutingShape
<1>6. ASSUME NEW w \in Worktrees, RouteBinds(w)
      PROVE  Shape'
  <2>1. routing.tok \in Tokens
    BY <1>6 DEF RouteBinds, Resolving, BridgeTypeOK
  <2>2. awaiting' \in [Ids -> Owed] /\ perWorktree' \in [Worktrees -> Nat]
    BY <1>6, BindType DEF RouteBinds, TrackerTypeOK
  <2> QED
    BY <1>6, <2>1, <2>2 DEF RouteBinds, laneVars, TrackerTypeOK, LaneTypeOK, BridgeTypeOK,
                            LaneShape, RoutingShape
<1>7. ASSUME NEW w \in Worktrees, RouteRefused(w)
      PROVE  Shape'
  BY <1>7, FailRoutingShape DEF RouteRefused, Resolving
<1> QED
  BY <1>1, <1>2, <1>3, <1>4, <1>5, <1>6, <1>7 DEF Router

\* The control workers keep the shape.
LEMMA ControlsShape ==
  ASSUME Shape, NEW w \in Worktrees, Controls(w)
  PROVE  Shape'
<1> USE DEF Shape, TypeOK
<1>1. ASSUME controls[w] # <<>>
      PROVE  Head(controls[w]) \in Control /\ Tail(controls[w]) \in Seq(Control)
  BY <1>1 DEF LaneTypeOK
<1>2. CASE ControlChecks(w)
  BY <1>1, <1>2 DEF ControlChecks, Controls, bridgeVars, trackerVars, TrackerTypeOK, LaneTypeOK,
                    BridgeTypeOK, LaneShape, RoutingShape
<1>3. CASE ControlExpires(w)
  BY <1>1, <1>3 DEF ControlExpires, Controls, bridgeVars, trackerVars, TrackerTypeOK, LaneTypeOK,
                    BridgeTypeOK, LaneShape, RoutingShape
<1>4. CASE ControlWrites(w)
  <2>1. upstream[control[w].conn] \subseteq Tokens \/ hit' = hit
    BY <1>4 DEF ControlWrites, LaneTypeOK, Control, NoControl
  <2> QED
    BY <1>4, <2>1 DEF ControlWrites, Controls, bridgeVars, trackerVars, TrackerTypeOK, LaneTypeOK,
                    BridgeTypeOK, LaneShape, RoutingShape, Control, NoControl
<1> QED
  BY <1>2, <1>3, <1>4 DEF Controls

\* The delivery goroutines keep the shape: a third attempt is never started.
LEMMA DeliveryShape ==
  ASSUME Shape, NEW w \in Worktrees, Delivery(w)
  PROVE  Shape'
<1> USE DEF Shape, TypeOK
<1>1. UNCHANGED bridgeVars
  BY DEF Delivery
<1>2. BridgeTypeOK' /\ RoutingShape'
  BY <1>1 DEF bridgeVars, BridgeTypeOK, RoutingShape
<1>3. lane[w] \in LaneState
  BY DEF LaneTypeOK
<1>4. Idle \in LaneState
  BY DEF Idle, LaneState, LanePC
<1>5. ASSUME reqs[w] # <<>>
      PROVE  Head(reqs[w]) \in Tokens /\ Tail(reqs[w]) \in Seq(Tokens)
  BY <1>5 DEF LaneTypeOK
<1>6. ASSUME LaneSkips(w)
      PROVE  Shape'
  BY <1>2, <1>5, <1>6 DEF LaneSkips, trackerVars, TrackerTypeOK, LaneTypeOK, LaneShape
<1>7. ASSUME LaneTakes(w)
      PROVE  Shape'
  <2>1. TrackerTypeOK'
    BY <1>7, UnplaceType DEF LaneTakes, TrackerTypeOK
  <2>2. ASSUME NEW t \in Tokens
        PROVE  Attempting(t, 1) \in LaneState
    BY DEF Attempting, LaneState, LanePC
  <2>3. reqs' \in [Worktrees -> Seq(Tokens)]
    BY <1>5, <1>7 DEF LaneTakes, LaneTypeOK
  <2>4. lane' \in [Worktrees -> LaneState]
    BY <1>5, <1>7, <2>2 DEF LaneTakes, LaneTypeOK
  <2>5. LaneShape'
    BY <1>5, <1>7 DEF LaneTakes, LaneShape, LaneTypeOK, Attempting
  <2> QED
    BY <1>2, <1>7, <2>1, <2>3, <2>4, <2>5 DEF LaneTakes, LaneTypeOK
<1>8. ASSUME LaneGivesUp(w)
      PROVE  Shape'
  <2>1. lane[w].tok \in Tokens
    BY <1>8 DEF LaneGivesUp, LaneShape
  <2>2. TrackerTypeOK'
    BY <1>8, <2>1, FailDeliveryType DEF LaneGivesUp
  <2> QED
    BY <1>2, <1>4, <1>8, <2>2 DEF LaneGivesUp, LaneTypeOK, LaneShape, Idle
<1>9. ASSUME LaneDropsNotification(w)
      PROVE  Shape'
  BY <1>2, <1>4, <1>9 DEF LaneDropsNotification, trackerVars, TrackerTypeOK, LaneTypeOK,
                          LaneShape, Idle
<1>10. ASSUME Trying(w)
       PROVE  /\ lane[w].pc = "attempt" /\ lane[w].tok \in Tokens
              /\ lane[w].try + 1 \in 1 .. Attempts + 1 /\ lane[w].try <= Attempts
  BY <1>3, <1>10 DEF Trying, LaneShape, LaneState
<1>11. ASSUME NEW c \in Conns, Trying(w)
       PROVE  /\ [lane[w] EXCEPT !.pc = "gate", !.conn = c] \in LaneState
              /\ [lane[w] EXCEPT !.try = @ + 1] \in LaneState
  BY <1>3, <1>10, <1>11 DEF LaneState, LanePC
<1>12. ASSUME LaneReuses(w)
       PROVE  Shape'
  <2>1. laneConn[w] \in Conns /\ Trying(w)
    BY <1>12 DEF LaneReuses, LaneTypeOK
  <2>2. lane' \in [Worktrees -> LaneState]
    BY <1>11, <1>12, <2>1 DEF LaneReuses, LaneTypeOK
  <2>3. LaneShape'
    BY <1>10, <1>12, <2>1 DEF LaneReuses, LaneShape, LaneTypeOK
  <2> QED
    BY <1>2, <1>12, <2>2, <2>3 DEF LaneReuses, trackerVars, TrackerTypeOK, LaneTypeOK
<1>13. ASSUME NEW c \in Conns, LaneDials(w, c)
       PROVE  Shape'
  <2>1. Trying(w)
    BY <1>13 DEF LaneDials
  <2>2. lane' \in [Worktrees -> LaneState]
    BY <1>11, <1>13, <2>1 DEF LaneDials, LaneTypeOK
  <2>3. LaneShape'
    BY <1>10, <1>13, <2>1 DEF LaneDials, LaneShape, LaneTypeOK
  <2> QED
    BY <1>2, <1>13, <2>2, <2>3 DEF LaneDials, trackerVars, TrackerTypeOK, LaneTypeOK
<1>14. ASSUME LaneDialFails(w)
       PROVE  Shape'
  <2>1. Trying(w)
    BY <1>14 DEF LaneDialFails
  <2>2. [lane[w] EXCEPT !.try = @ + 1] \in LaneState
    BY <1>3, <1>10, <2>1 DEF LaneState
  <2>3. lane' \in [Worktrees -> LaneState]
    BY <1>14, <2>2 DEF LaneDialFails, LaneTypeOK
  <2>4. LaneShape'
    BY <1>10, <1>14, <2>1 DEF LaneDialFails, LaneShape, LaneTypeOK
  <2> QED
    BY <1>2, <1>14, <2>3, <2>4 DEF LaneDialFails, trackerVars, TrackerTypeOK, LaneTypeOK
<1>15. ASSUME lane[w].pc \notin {"idle", "attempt"}
       PROVE  lane[w].tok \in Tokens /\ lane[w].conn \in Conns /\ lane[w].try <= Attempts
  BY <1>15 DEF LaneShape
<1>16. ASSUME LaneBegins(w)
       PROVE  Shape'
  <2>1. lane[w].tok \in Tokens /\ lane[w].conn \in Conns /\ lane[w].try <= Attempts
    BY <1>15, <1>16 DEF LaneBegins
  <2>2. TrackerTypeOK'
    BY <1>16, <2>1, BeginOperationType DEF LaneBegins, TrackerTypeOK
  <2>3. \A p \in LanePC : [lane[w] EXCEPT !.pc = p] \in LaneState
    BY <1>3 DEF LaneState
  <2>4. lane' \in [Worktrees -> LaneState]
    BY <1>16, <2>3 DEF LaneBegins, LaneTypeOK, LanePC
  <2>5. LaneShape'
    BY <1>16, <2>1 DEF LaneBegins, LaneShape, LaneTypeOK
  <2> QED
    BY <1>2, <1>16, <2>2, <2>4, <2>5 DEF LaneBegins, LaneTypeOK
<1>17. ClosedUnlessAdopted(w) \in [Conns -> {"unused", "open", "released", "closed"}]
  BY DEF ClosedUnlessAdopted, LaneTypeOK
<1>18. ASSUME LaneRefused(w)
       PROVE  Shape'
  <2>1. TrackerTypeOK'
    BY <1>15, <1>18, FailDeliveryType DEF LaneRefused
  <2> QED
    BY <1>2, <1>4, <1>17, <1>18, <2>1 DEF LaneRefused, LaneTypeOK, LaneShape, Idle
<1>19. ASSUME UpstreamReceives(w)
       PROVE  Shape'
  <2>1. lane[w].tok \in Tokens /\ lane[w].conn \in Conns /\ lane[w].try <= Attempts
    BY <1>15, <1>19 DEF UpstreamReceives
  <2>2. [lane[w] EXCEPT !.pc = "written"] \in LaneState
    BY <1>3 DEF LaneState, LanePC
  <2>3. lane' \in [Worktrees -> LaneState]
    BY <1>19, <2>2 DEF UpstreamReceives, LaneTypeOK
  <2>4. LaneShape'
    BY <1>19, <2>1 DEF UpstreamReceives, LaneShape, LaneTypeOK
  <2>5. upstream' \in [Conns -> SUBSET Tokens] /\ inits' \in [Conns -> Nat]
    BY <1>19, <2>1 DEF UpstreamReceives, LaneTypeOK
  <2> QED
    BY <1>2, <1>19, <2>3, <2>4, <2>5 DEF UpstreamReceives, trackerVars, TrackerTypeOK, LaneTypeOK
<1>20. ASSUME LaneTooLarge(w)
       PROVE  Shape'
  <2>1. lane[w].tok \in Tokens /\ lane[w].conn \in Conns
    BY <1>15, <1>20 DEF LaneTooLarge
  <2>2. TrackerTypeOK'
    <3>1. CASE IsNotification(lane[w].tok)
      BY <1>20, <3>1 DEF LaneTooLarge, TrackerTypeOK
    <3>2. CASE ~IsNotification(lane[w].tok)
      <4> DEFINE t == lane[w].tok
                 c == lane[w].conn
      <4>1. idOf[t] \in Ids
        BY <2>1, <3>2 DEF TrackerTypeOK, IsNotification
      <4>2. /\ EndOperation(c, idOf[t]) /\ Remove(Owned(t)) /\ Answer(Owned(t))
            /\ About(t, Owned(t)) /\ operations' = Abandoned(Owned(t), Ended(c, idOf[t]))
        BY <1>20, <3>2 DEF LaneTooLarge
      <4>3. /\ Ended(c, idOf[t]) \in [Conns -> [Ids -> Operation]]
            /\ operationsPerWorktree' \in [Worktrees -> Nat]
        BY <2>1, <4>1, <4>2, EndOperationType
      <4>4. operations' \in [Conns -> [Ids -> Operation]]
        BY <4>2, <4>3, AbandonedType
      <4>5. Owned(t) \in SUBSET Outstanding
        BY OwnedOutstanding
      <4>6. /\ ctxDone' \subseteq Tokens
            /\ timer' \in [Tokens -> {"unset", "armed", "running", "stopped"}]
            /\ awaiting' \in [Ids -> Owed]
            /\ perWorktree' \in [Worktrees -> Nat]
        BY <4>2, <4>5, RemoveType
      <4>7. answers' \in [Tokens -> Nat] /\ results' \subseteq Tokens \X Tokens
        BY <2>1, <4>2, <4>5, AnswerType, AboutType
      <4> HIDE DEF t, c
      <4> QED
        BY <1>20, <4>3, <4>4, <4>6, <4>7 DEF LaneTooLarge, TrackerTypeOK
    <3> QED
      BY <3>1, <3>2
  <2> QED
    BY <1>2, <1>4, <1>17, <1>20, <2>2 DEF LaneTooLarge, LaneTypeOK, LaneShape, Idle
<1>21. ASSUME LaneDelivered(w)
       PROVE  Shape'
  <2>1. lane[w].tok \in Tokens /\ lane[w].conn \in Conns
    BY <1>15, <1>21 DEF LaneDelivered
  <2>2. TrackerTypeOK'
    BY <1>21, <2>1 DEF LaneDelivered, StartExecution, TrackerTypeOK
  <2> QED
    BY <1>2, <1>4, <1>21, <2>1, <2>2 DEF LaneDelivered, LaneTypeOK, LaneShape, Idle
<1>22. ASSUME LaneWriteFails(w)
       PROVE  Shape'
  <2>1. lane[w].tok \in Tokens /\ lane[w].conn \in Conns /\ lane[w].try <= Attempts
    BY <1>15, <1>22 DEF LaneWriteFails, Writing
  <2>2. TrackerTypeOK'
    BY <1>22, <2>1, RetryType DEF LaneWriteFails, TrackerTypeOK
  <2>3. Attempting(lane[w].tok, lane[w].try + 1) \in LaneState
    BY <1>3, <2>1 DEF Attempting, LaneState, LanePC
  <2>4. lane' \in [Worktrees -> LaneState]
    BY <1>4, <1>22, <2>3 DEF LaneWriteFails, LaneTypeOK
  <2>5. LaneShape'
    BY <1>22, <2>1 DEF LaneWriteFails, LaneShape, LaneTypeOK, Idle, Attempting
  <2> QED
    BY <1>2, <1>22, <2>2, <2>4, <2>5 DEF LaneWriteFails, LaneTypeOK
<1> QED
  BY <1>6, <1>7, <1>8, <1>9, <1>12, <1>13, <1>14, <1>16, <1>18, <1>19, <1>20, <1>21, <1>22
     DEF Delivery

\* finish for a result keeps the types, the result being one of a tracked id.
LEMMA FinishResponseType ==
  ASSUME TrackerTypeOK, NEW c \in Conns, NEW t \in Tokens, idOf[t] \in Ids,
         FinishResponse(c, t), UNCHANGED session
  PROVE  TrackerTypeOK'
<1> DEFINE i == idOf[t]
           S == {i} \cap OwedBy(c)
<1>1. /\ EndOperation(c, i) /\ Remove(S) /\ Answer(S) /\ About(t, S)
      /\ operations' = Abandoned(S, Ended(c, i))
  BY DEF FinishResponse
<1>2. S \in SUBSET Outstanding
  BY DEF OwedBy
<1>3. /\ Ended(c, i) \in [Conns -> [Ids -> Operation]]
      /\ operationsPerWorktree' \in [Worktrees -> Nat]
  BY <1>1, EndOperationType
<1>4. operations' \in [Conns -> [Ids -> Operation]]
  BY <1>1, <1>3, AbandonedType
<1>5. /\ ctxDone' \subseteq Tokens
      /\ timer' \in [Tokens -> {"unset", "armed", "running", "stopped"}]
      /\ awaiting' \in [Ids -> Owed]
      /\ perWorktree' \in [Worktrees -> Nat]
  BY <1>1, <1>2, RemoveType
<1>6. answers' \in [Tokens -> Nat] /\ results' \subseteq Tokens \X Tokens
  BY <1>1, <1>2, AnswerType, AboutType
<1> HIDE DEF i, S
<1> QED
  BY <1>3, <1>4, <1>5, <1>6 DEF FinishResponse, TrackerTypeOK

\* The readers keep the shape.
LEMMA ReaderShape ==
  ASSUME Shape, IdShape, NEW c \in Conns, Reader(c)
  PROVE  Shape'
<1> USE DEF Shape, TypeOK
<1>1. OwedBy(c) \in SUBSET Outstanding
  BY DEF OwedBy
<1>2. CASE ReaderResponds(c)
  <2>1. PICK t \in responses[c] :
          FinishResponse(c, t) /\ responses' = [responses EXCEPT ![c] = @ \ {t}]
    BY <1>2 DEF ReaderResponds
  <2>2. t \in Tokens /\ idOf[t] \in Ids
    BY <2>1 DEF IdShape, LaneTypeOK, TrackerTypeOK
  <2>3. TrackerTypeOK'
    BY <1>2, <2>1, <2>2, FinishResponseType DEF ReaderResponds
  <2> QED
    BY <1>2, <2>1, <2>3 DEF ReaderResponds, bridgeVars, LaneTypeOK, BridgeTypeOK, LaneShape,
                            RoutingShape
<1>3. CASE ReaderErrs(c)
  BY <1>3 DEF ReaderErrs, trackerVars, bridgeVars, TrackerTypeOK, LaneTypeOK, BridgeTypeOK,
              LaneShape, RoutingShape
<1>4. CASE ReaderFailsCalls(c)
  <2>1. TrackerTypeOK'
    BY <1>1, <1>4, FinishType DEF ReaderFailsCalls
  <2> QED
    BY <1>4, <2>1 DEF ReaderFailsCalls, bridgeVars, LaneTypeOK, BridgeTypeOK, LaneShape,
                      RoutingShape
<1>5. CASE ReaderLeaves(c)
  BY <1>5 DEF ReaderLeaves, trackerVars, bridgeVars, TrackerTypeOK, LaneTypeOK, BridgeTypeOK,
              LaneShape, RoutingShape
<1> QED
  BY <1>2, <1>3, <1>4, <1>5 DEF Reader

\* The roots workers keep the shape.
LEMMA RootsShape ==
  ASSUME Shape, NEW c \in Conns, RootsWorker(c)
  PROVE  Shape'
<1> USE DEF Shape, TypeOK
<1>1. OwedBy(c) \in SUBSET Outstanding
  BY DEF OwedBy
<1>2. CASE RootsReleases(c)
  BY <1>2 DEF RootsReleases, trackerVars, TrackerTypeOK, LaneTypeOK, BridgeTypeOK,
              LaneShape, RoutingShape
<1>3. CASE RootsCloses(c)
  BY <1>3 DEF RootsCloses, trackerVars, TrackerTypeOK, LaneTypeOK, BridgeTypeOK,
              LaneShape, RoutingShape
<1>4. CASE RootsFailsCalls(c)
  <2>1. TrackerTypeOK'
    BY <1>1, <1>4, FinishType DEF RootsFailsCalls
  <2> QED
    BY <1>4, <2>1 DEF RootsFailsCalls, laneVars, LaneTypeOK, BridgeTypeOK, LaneShape,
                      RoutingShape
<1> QED
  BY <1>2, <1>3, <1>4 DEF RootsWorker

\* An answer of gopls keeps the shape.
LEMMA GoplsShape ==
  ASSUME Shape, NEW c \in Conns, Gopls(c)
  PROVE  Shape'
  BY DEF Gopls, UpstreamAnswers, Shape, TypeOK, trackerVars, bridgeVars, TrackerTypeOK,
         LaneTypeOK, BridgeTypeOK, LaneShape, RoutingShape

\* The timers keep the shape.
LEMMA TimersShape ==
  ASSUME Shape, NEW t \in Tokens, Timers(t)
  PROVE  Shape'
<1> USE DEF Shape, TypeOK
<1>1. CASE TimerFires(t)
  BY <1>1 DEF TimerFires, laneVars, bridgeVars, TrackerTypeOK, LaneTypeOK, BridgeTypeOK,
              LaneShape, RoutingShape
<1>2. CASE DeliveryExpires(t)
  BY <1>2 DEF DeliveryExpires, laneVars, bridgeVars, TrackerTypeOK, LaneTypeOK, BridgeTypeOK,
              LaneShape, RoutingShape
<1>3. CASE TimerExpires(t)
  <2>1. Owned(t) \in SUBSET Outstanding
    BY OwnedOutstanding
  <2>2. /\ ctxDone' \subseteq Tokens
        /\ awaiting' \in [Ids -> Owed]
        /\ perWorktree' \in [Worktrees -> Nat]
    BY <1>3, <2>1, ForgetType DEF TimerExpires
  <2>3. operations' \in [Conns -> [Ids -> Operation]]
    BY <1>3, AbandonedType DEF TimerExpires, TrackerTypeOK
  <2>4. answers' \in [Tokens -> Nat] /\ results' \subseteq Tokens \X Tokens
    BY <1>3, <2>1, AnswerType, AboutType DEF TimerExpires
  <2>5. controls' \in [Worktrees -> Seq(Control)]
    <3>1. CASE Owned(t) = {}
      BY <1>3, <3>1 DEF TimerExpires, LaneTypeOK
    <3>2. CASE Owned(t) # {}
      <4>1. PICK i \in Owned(t) : QueueCancellation(i)
        BY <1>3, <3>2 DEF TimerExpires
      <4> QED
        BY <2>1, <4>1, QueueCancellationType
    <3> QED
      BY <3>1, <3>2
  <2>6. TrackerTypeOK'
    BY <1>3, <2>2, <2>3, <2>4 DEF TimerExpires, TrackerTypeOK
  <2> QED
    BY <1>3, <2>5, <2>6 DEF TimerExpires, bridgeVars, LaneTypeOK, BridgeTypeOK, LaneShape,
                            RoutingShape
<1> QED
  BY <1>1, <1>2, <1>3 DEF Timers

\* The shutdown keeps the shape.
LEMMA SessionShape ==
  ASSUME Shape, SessionFails \/ SessionCloses
  PROVE  Shape'
<1> USE DEF Shape, TypeOK
<1>1. CASE SessionFails
  BY <1>1 DEF SessionFails, laneVars, bridgeVars, TrackerTypeOK, LaneTypeOK, BridgeTypeOK,
              LaneShape, RoutingShape
<1>2. CASE SessionCloses
  <2>1. /\ ctxDone' \subseteq Tokens
        /\ timer' \in [Tokens -> {"unset", "armed", "running", "stopped"}]
        /\ awaiting' \in [Ids -> Owed]
        /\ perWorktree' \in [Worktrees -> Nat]
    BY <1>2, RemoveType DEF SessionCloses, ClearRequests
  <2>2. /\ operations' \in [Conns -> [Ids -> Operation]]
        /\ operationsPerWorktree' \in [Worktrees -> Nat]
    BY <1>2 DEF SessionCloses, ClearRequests, NoOperation, Operation
  <2>3. TrackerTypeOK'
    BY <1>2, <2>1, <2>2 DEF SessionCloses, ClearRequests, TrackerTypeOK
  <2> QED
    BY <1>2, <2>3 DEF SessionCloses, bridgeVars, LaneTypeOK, BridgeTypeOK, LaneShape,
                      RoutingShape
<1> QED
  BY <1>1, <1>2

\* Every step keeps the shape.
LEMMA NextShape ==
  ASSUME Shape, IdShape, [Next]_vars
  PROVE  Shape'
<1>1. CASE UNCHANGED vars
  BY <1>1 DEF vars, trackerVars, laneVars, bridgeVars, Shape, TypeOK, TrackerTypeOK, LaneTypeOK,
              BridgeTypeOK, LaneShape, RoutingShape
<1> QED
  BY <1>1, IngressShape, RouterShape, DeliveryShape, ControlsShape, ReaderShape, RootsShape,
     GoplsShape, TimersShape, SessionShape DEF Next

\* A step that mints nothing and asks gopls nothing new keeps the ids.
LEMMA SameIds ==
  ASSUME IdShape, UNCHANGED <<minted, idOf>>,
         \A c \in Conns : upstream'[c] \cup responses'[c] \subseteq upstream[c] \cup responses[c]
  PROVE  IdShape'
  BY DEF IdShape

\* A message that is minted takes a token nothing refers to yet.
LEMMA MintedIds ==
  ASSUME Shape, IdShape, NEW i \in Ids \cup {NoId}, NEW k, Mint(i, k),
         UNCHANGED <<upstream, responses>>
  PROVE  IdShape'
<1>1. minted \in Nat /\ minted + 1 \in Tokens
  BY MintType DEF Shape, TypeOK, TrackerTypeOK, Mint
<1>2. idOf \in [Tokens -> Ids \cup {NoId}] /\ upstream \in [Conns -> SUBSET Tokens]
      /\ responses \in [Conns -> SUBSET Tokens]
  BY DEF Shape, TypeOK, TrackerTypeOK, LaneTypeOK
<1>3. \A t \in Tokens : idOf[t] # NoId => idOf'[t] = idOf[t]
  BY <1>1, <1>2 DEF Mint, IdShape, Tokens
<1>4. \A t \in Tokens : idOf'[t] # NoId => t <= minted'
  BY <1>1, <1>2 DEF Mint, IdShape, Tokens
<1> QED
  BY <1>2, <1>3, <1>4 DEF IdShape

\* The client's messages.
LEMMA IngressIds ==
  ASSUME Shape, IdShape, Ingress
  PROVE  IdShape'
<1>1. ASSUME NEW i \in Ids, NEW k \in Sends \ {"notification"},
             Admit(i, k) \/ AdmitOverflows(i, k) \/ AdmitTooLate(i, k)
      PROVE  IdShape'
  BY <1>1, MintedIds DEF Admit, AdmitOverflows, AdmitTooLate
<1>2. ASSUME AdmitNotification
      PROVE  IdShape'
  BY <1>2, MintedIds DEF AdmitNotification, laneVars
<1>3. ASSUME (\E i \in Ids : Cancel(i)) \/ IngressStops
      PROVE  IdShape'
  BY <1>3, SameIds DEF Cancel, Finish, IngressStops, trackerVars, laneVars
<1> QED
  BY <1>1, <1>2, <1>3 DEF Ingress

\* The lanes: only UpstreamReceives gives gopls a message, and not a notification.
LEMMA DeliveryIds ==
  ASSUME Shape, IdShape, NEW w \in Worktrees, Delivery(w)
  PROVE  IdShape'
<1>1. CASE UpstreamReceives(w)
  <2>1. lane[w].conn \in Conns /\ lane[w].tok \in Tokens
    BY <1>1 DEF Shape, LaneShape, UpstreamReceives
  <2>2. upstream \in [Conns -> SUBSET Tokens]
    BY DEF Shape, TypeOK, LaneTypeOK
  <2>3. UNCHANGED <<minted, idOf, responses>>
    BY <1>1 DEF UpstreamReceives, trackerVars
  <2>4. \A c \in Conns : upstream'[c] \subseteq upstream[c] \cup {t \in Tokens : idOf[t] # NoId}
    BY <1>1, <2>1, <2>2 DEF UpstreamReceives, IsNotification
  <2> QED
    BY <2>3, <2>4 DEF IdShape
<1>2. CASE ~UpstreamReceives(w)
  <2>1. UNCHANGED <<minted, idOf, upstream, responses>>
    BY <1>2 DEF Delivery, LaneSkips, LaneTakes, LaneGivesUp, LaneDropsNotification, LaneReuses,
                LaneDialFails, LaneBegins, LaneRefused, LaneTooLarge, LaneDelivered,
                LaneWriteFails, LaneDials, FailDelivery, trackerVars
  <2> QED
    BY <2>1, SameIds
<1> QED
  BY <1>1, <1>2

\* Nobody else mints, and an answer moves from upstream to responses and away.
LEMMA NextIds ==
  ASSUME Shape, IdShape, [Next]_vars
  PROVE  IdShape'
<1>1. CASE UNCHANGED vars
  BY <1>1, SameIds DEF vars, trackerVars, laneVars
<1>2. CASE Router
  BY <1>2, SameIds DEF Router, RouteTakes, RouteFails, RouteHandsOver, RouteOverflows, RouteStops,
                       RouteBinds, RouteRefused, FailRouting, FailDelivery, trackerVars, laneVars
<1>3. ASSUME NEW w \in Worktrees, Controls(w)
      PROVE  IdShape'
  BY <1>3, SameIds DEF Controls, ControlChecks, ControlExpires, ControlWrites, trackerVars
<1>4. ASSUME NEW c \in Conns, Reader(c)
      PROVE  IdShape'
  <2>1. responses \in [Conns -> SUBSET Tokens]
    BY DEF Shape, TypeOK, LaneTypeOK
  <2> QED
    BY <1>4, <2>1, SameIds DEF Reader, ReaderResponds, ReaderErrs, ReaderFailsCalls, ReaderLeaves,
                               FinishResponse, Finish, trackerVars
<1>5. ASSUME NEW c \in Conns, RootsWorker(c)
      PROVE  IdShape'
  BY <1>5, SameIds DEF RootsWorker, RootsReleases, RootsCloses, RootsFailsCalls, Finish,
                       trackerVars, laneVars
<1>6. ASSUME NEW c \in Conns, Gopls(c)
      PROVE  IdShape'
  <2>1. upstream \in [Conns -> SUBSET Tokens] /\ responses \in [Conns -> SUBSET Tokens]
    BY DEF Shape, TypeOK, LaneTypeOK
  <2> QED
    BY <1>6, <2>1, SameIds DEF Gopls, UpstreamAnswers, trackerVars
<1>7. ASSUME NEW t \in Tokens, Timers(t)
      PROVE  IdShape'
  BY <1>7, SameIds DEF Timers, TimerFires, TimerExpires, DeliveryExpires, laneVars
<1>8. CASE SessionFails \/ SessionCloses
  BY <1>8, SameIds DEF SessionFails, SessionCloses, ClearRequests, laneVars
<1> QED
  BY <1>1, <1>2, <1>3, <1>4, <1>5, <1>6, <1>7, <1>8, IngressIds, DeliveryIds DEF Next

\* Every variable of a session stays in its type, for any number of ids,
\* worktrees, calls and connections and whatever the limits are.
THEOREM TypeCorrect == Spec => []TypeOK
<1>1. Init => Shape /\ IdShape
  BY InitShape
<1>2. (Shape /\ IdShape) /\ [Next]_vars => (Shape /\ IdShape)'
  BY NextShape, NextIds
<1>3. Shape => TypeOK
  BY DEF Shape
<1> QED
  BY <1>1, <1>2, <1>3, PTL DEF Spec

-----------------------------------------------------------------------------
(* What the client is owed. *)

\* The calls of S leave the tracker, and each gets its one reply.
Settles(S) ==
  /\ UNCHANGED <<minted, idOf>>
  /\ \A i \in Ids : awaiting'[i].tok = IF i \in S THEN NoToken ELSE awaiting[i].tok
  /\ Answer(S)
  /\ session = "closed" <=> session' = "closed"

\* A call is taken under a free id, and owed, or refused there and then.
Opens(i) ==
  /\ session # "closed" /\ session' # "closed"
  /\ Admissible(i) /\ minted < MaxCalls
  /\ minted' = minted + 1
  /\ idOf' = [idOf EXCEPT ![minted + 1] = i]
  /\ \/ Track(i) /\ UNCHANGED answers
     \/ UNCHANGED awaiting /\ answers' = [answers EXCEPT ![minted + 1] = @ + 1]

\* A notification takes a token and leaves the ledger alone.
Passes ==
  /\ session # "closed" /\ session' # "closed"
  /\ minted < MaxCalls /\ minted' = minted + 1
  /\ idOf' = [idOf EXCEPT ![minted + 1] = NoId]
  /\ UNCHANGED <<awaiting, answers>>

\* What is left is discarded.
Closes ==
  /\ session # "closed" /\ session' = "closed" /\ ~ingress'
  /\ UNCHANGED <<minted, idOf, answers>>
  /\ \A i \in Ids : awaiting'[i].tok = NoToken

\* A closed session has stopped reading and owes nothing.
ClosedDone == session = "closed" => ~ingress /\ Outstanding = {}

-----------------------------------------------------------------------------
\* A step that touches neither the owners of the ids nor the replies settles
\* nobody.
LEMMA SettlesNobody ==
  ASSUME TypeOK, UNCHANGED <<minted, idOf, answers>>,
         \A i \in Ids : awaiting'[i].tok = awaiting[i].tok,
         session = "closed" <=> session' = "closed"
  PROVE  Settles({})
<1>1. answers = [t \in Tokens |-> answers[t]]
  BY DEF TypeOK, TrackerTypeOK
<1> QED
  BY <1>1 DEF Settles, Answer

\* Forget vacates exactly the ids it is given.
LEMMA ForgetVacates ==
  ASSUME NEW S, Forget(S)
  PROVE  \A i \in Ids : awaiting'[i].tok = IF i \in S THEN NoToken ELSE awaiting[i].tok
  BY DEF Forget, Vacant

\* finish and failDelivery settle what they claim.
LEMMA FinishSettles ==
  ASSUME NEW S, Finish(S), UNCHANGED session
  PROVE  Settles(S)
  BY ForgetVacates DEF Finish, Remove, Settles

\* failDelivery settles the generation it is about, or nobody.
LEMMA FailDeliverySettles ==
  ASSUME NEW t, FailDelivery(t), UNCHANGED session
  PROVE  Settles(Owned(t))
<1>1. Forget(Owned(t)) /\ Answer(Owned(t)) /\ UNCHANGED <<minted, idOf>>
  BY DEF FailDelivery, Remove
<1> QED
  BY <1>1, ForgetVacates DEF Settles

\* Ingress admits and cancels.
LEMMA IngressKinds ==
  ASSUME TypeOK, ClosedDone, Ingress
  PROVE  (\E i \in Ids : Opens(i)) \/ Passes \/ (\E S \in SUBSET Outstanding : Settles(S))
<1>1. ASSUME NEW i \in Ids, NEW k \in Sends \ {"notification"},
             Admit(i, k) \/ AdmitOverflows(i, k) \/ AdmitTooLate(i, k)
      PROVE  Opens(i)
  BY <1>1 DEF Admit, AdmitOverflows, AdmitTooLate, Mint, Opens, ClosedDone
<1>2. ASSUME AdmitNotification
      PROVE  Passes
  BY <1>2 DEF AdmitNotification, Mint, Passes, ClosedDone
<1>3. ASSUME NEW i \in Ids, Cancel(i)
      PROVE  {i} \in SUBSET Outstanding /\ Settles({i})
  BY <1>3, FinishSettles DEF Cancel
<1>4. ASSUME IngressStops
      PROVE  Settles({})
  BY <1>4, SettlesNobody DEF IngressStops, trackerVars
<1> QED
  BY <1>1, <1>2, <1>3, <1>4 DEF Ingress

\* The router settles the call it holds, or nobody.
LEMMA RouterKinds ==
  ASSUME TypeOK, Router
  PROVE  \E S \in SUBSET Outstanding : Settles(S)
<1>1. CASE FailRouting
  BY <1>1, FailDeliverySettles, OwnedOutstanding DEF FailRouting
<1>2. CASE RouteTakes \/ RouteHandsOver \/ RouteStops
  BY <1>2, SettlesNobody DEF RouteTakes, RouteHandsOver, RouteStops, trackerVars
<1>3. ASSUME NEW w \in Worktrees, RouteBinds(w)
      PROVE  Settles({})
  <2>1. awaiting \in [Ids -> Owed]
    BY DEF TypeOK, TrackerTypeOK
  <2>2. \A i \in Ids : awaiting'[i].tok = awaiting[i].tok
    BY <1>3, <2>1 DEF RouteBinds, Bind, Owed
  <2> QED
    BY <1>3, <2>2, SettlesNobody DEF RouteBinds
<1> QED
  BY <1>1, <1>2, <1>3 DEF Router, RouteFails, RouteOverflows, RouteRefused

\* So does a lane with the call it delivers.
LEMMA DeliveryKinds ==
  ASSUME TypeOK, NEW w \in Worktrees, Delivery(w)
  PROVE  \E S \in SUBSET Outstanding : Settles(S)
<1>1. awaiting \in [Ids -> Owed]
  BY DEF TypeOK, TrackerTypeOK
<1>2. CASE LaneSkips(w) \/ LaneDropsNotification(w) \/ LaneReuses(w) \/ LaneDialFails(w)
           \/ UpstreamReceives(w) \/ LaneDelivered(w) \/ \E c \in Conns : LaneDials(w, c)
  BY <1>2, SettlesNobody DEF LaneSkips, LaneDropsNotification, LaneReuses, LaneDialFails,
     UpstreamReceives, LaneDelivered, LaneDials, trackerVars
<1>3. CASE LaneGivesUp(w) \/ LaneRefused(w)
  BY <1>3, FailDeliverySettles, OwnedOutstanding DEF LaneGivesUp, LaneRefused
<1>4. CASE LaneTooLarge(w)
  <2>1. CASE IsNotification(lane[w].tok)
    BY <1>4, <2>1, SettlesNobody DEF LaneTooLarge
  <2>2. CASE ~IsNotification(lane[w].tok)
    BY <1>4, <2>2, ForgetVacates, OwnedOutstanding DEF LaneTooLarge, Remove, Settles
  <2> QED
    BY <2>1, <2>2
<1>5. CASE LaneTakes(w)
  BY <1>1, <1>5, SettlesNobody DEF LaneTakes, Unplace, Owed
<1>6. CASE LaneBegins(w)
  BY <1>1, <1>6, SettlesNobody DEF LaneBegins, BeginOperation, Owed
<1>7. CASE LaneWriteFails(w)
  BY <1>1, <1>7, SettlesNobody DEF LaneWriteFails, Retry, Unplace, Owed
<1> QED
  BY <1>2, <1>3, <1>4, <1>5, <1>6, <1>7 DEF Delivery

\* A reader and its roots worker settle what their connection owes.
LEMMA ReaderKinds ==
  ASSUME TypeOK, NEW c \in Conns, Reader(c) \/ RootsWorker(c)
  PROVE  \E S \in SUBSET Outstanding : Settles(S)
<1>1. OwedBy(c) \in SUBSET Outstanding
  BY DEF OwedBy
<1>2. CASE ReaderResponds(c)
  <2>1. PICK t \in responses[c] : FinishResponse(c, t) /\ UNCHANGED session
    BY <1>2 DEF ReaderResponds
  <2>2. Forget({idOf[t]} \cap OwedBy(c)) /\ Answer({idOf[t]} \cap OwedBy(c))
        /\ UNCHANGED <<minted, idOf>>
    BY <2>1 DEF FinishResponse, Remove
  <2> QED
    BY <1>1, <2>1, <2>2, ForgetVacates DEF Settles
<1>3. CASE ReaderFailsCalls(c) \/ RootsFailsCalls(c)
  BY <1>1, <1>3, FinishSettles DEF ReaderFailsCalls, RootsFailsCalls
<1>4. CASE ReaderErrs(c) \/ ReaderLeaves(c) \/ RootsReleases(c) \/ RootsCloses(c)
  BY <1>4, SettlesNobody DEF ReaderErrs, ReaderLeaves, RootsReleases, RootsCloses, trackerVars
<1> QED
  BY <1>2, <1>3, <1>4 DEF Reader, RootsWorker

\* A deadline settles its own generation.
LEMMA TimersKinds ==
  ASSUME TypeOK, NEW t \in Tokens, Timers(t)
  PROVE  \E S \in SUBSET Outstanding : Settles(S)
<1>1. CASE TimerExpires(t)
  <2>1. Forget(Owned(t)) /\ Answer(Owned(t)) /\ UNCHANGED <<minted, idOf, session>>
    BY <1>1 DEF TimerExpires
  <2> QED
    BY <2>1, ForgetVacates, OwnedOutstanding DEF Settles
<1>2. CASE TimerFires(t) \/ DeliveryExpires(t)
  BY <1>2, SettlesNobody DEF TimerFires, DeliveryExpires
<1> QED
  BY <1>1, <1>2 DEF Timers

\* What a step may do to the ledger.
LEMMA StepKinds ==
  ASSUME TypeOK, ClosedDone, [Next]_vars
  PROVE  \/ \E i \in Ids : Opens(i)
         \/ Passes
         \/ \E S \in SUBSET Outstanding : Settles(S)
         \/ Closes
<1>1. CASE UNCHANGED vars
  BY <1>1, SettlesNobody DEF vars, trackerVars
<1>2. ASSUME NEW w \in Worktrees, Controls(w)
      PROVE  Settles({})
  BY <1>2, SettlesNobody DEF Controls, ControlChecks, ControlExpires, ControlWrites, trackerVars
<1>3. ASSUME NEW c \in Conns, Gopls(c)
      PROVE  Settles({})
  BY <1>3, SettlesNobody DEF Gopls, UpstreamAnswers, trackerVars
<1>4. CASE SessionFails
  BY <1>4, SettlesNobody DEF SessionFails
<1>5. CASE SessionCloses
  <2>1. \A i \in Ids : awaiting'[i].tok = NoToken
    BY <1>5, ForgetVacates DEF SessionCloses, ClearRequests, Remove, Outstanding
  <2> QED
    BY <1>5, <2>1 DEF SessionCloses, ClearRequests, Closes, bridgeVars
<1> QED
  BY <1>1, <1>2, <1>3, <1>4, <1>5, IngressKinds, RouterKinds, DeliveryKinds, ReaderKinds,
     TimersKinds DEF Next

-----------------------------------------------------------------------------
(* The ledger.  OwedOrAnsweredOnce is not inductive: the reply of a claim  *)
(* is its owner's only reply because a token is owed under one id, its     *)
(* own, and a fresh token has had none.                                    *)

Ledger ==
  /\ \A t \in Tokens : t > minted => idOf[t] = NoId /\ answers[t] = 0
  /\ \A i \in Outstanding : awaiting[i].tok <= minted /\ idOf[awaiting[i].tok] = i
  /\ OwedOrAnsweredOnce

Books == Ledger /\ ClosedDone

\* Settling keeps the ledger: each claimed token had no reply and gets one.
LEMMA SettlesBooks ==
  ASSUME TypeOK, Ledger, NEW S \in SUBSET Outstanding, Settles(S)
  PROVE  Ledger'
<1>1. /\ awaiting \in [Ids -> Owed] /\ answers \in [Tokens -> Nat]
      /\ idOf \in [Tokens -> Ids \cup {NoId}] /\ minted \in Nat
  BY DEF TypeOK, TrackerTypeOK
<1>2. \A i \in Outstanding : awaiting[i].tok \in Tokens
  BY <1>1 DEF Outstanding, Owed
<1>3. Outstanding' = Outstanding \ S
  BY DEF Settles, Outstanding
<1>4. \A t \in Tokens : t > minted => idOf'[t] = NoId /\ answers'[t] = 0
  BY <1>1, <1>2 DEF Ledger, Settles, Answer, Tokens
<1>5. \A i \in Outstanding' : awaiting'[i].tok <= minted' /\ idOf'[awaiting'[i].tok] = i
  BY <1>3 DEF Ledger, Settles, Outstanding
<1>6. ASSUME session' # "closed", NEW t \in Tokens, Admitted(t)'
      PROVE  answers'[t] = IF Owned(t)' = {} THEN 1 ELSE 0
  <2>1. answers[t] = IF Owned(t) = {} THEN 1 ELSE 0
    BY <1>6 DEF Ledger, OwedOrAnsweredOnce, Settles, Admitted, IsNotification
  <2>2. Owned(t)' = Owned(t) \ S
    BY <1>3 DEF Owned, Settles, Outstanding
  <2>3. ASSUME NEW i \in S, awaiting[i].tok = t
        PROVE  Owned(t) = {i}
    BY <2>3 DEF Owned, Ledger
  <2>4. CASE \E i \in S : awaiting[i].tok = t
    <3>1. Owned(t) # {} /\ Owned(t)' = {}
      BY <2>2, <2>3, <2>4
    <3>2. answers'[t] = answers[t] + 1
      BY <2>4 DEF Settles, Answer
    <3> QED
      BY <2>1, <3>1, <3>2
  <2>5. CASE ~ \E i \in S : awaiting[i].tok = t
    BY <2>1, <2>2, <2>5 DEF Settles, Answer, Owned
  <2> QED
    BY <2>4, <2>5
<1>7. OwedOrAnsweredOnce'
  BY <1>6 DEF OwedOrAnsweredOnce
<1> QED
  BY <1>4, <1>5, <1>7 DEF Ledger, Settles

\* So does admitting a call: its token is new, and owed or answered.
LEMMA OpensBooks ==
  ASSUME TypeOK, Ledger, NEW i \in Ids, Opens(i)
  PROVE  Ledger'
<1>1. /\ awaiting \in [Ids -> Owed] /\ answers \in [Tokens -> Nat]
      /\ idOf \in [Tokens -> Ids \cup {NoId}] /\ minted \in Nat /\ minted + 1 \in Tokens
  BY MintType DEF TypeOK, TrackerTypeOK, Opens
<1>a. PICK n \in Tokens : n = minted + 1
  BY <1>1
<1>2. /\ idOf[n] = NoId /\ answers[n] = 0 /\ n > minted
  BY <1>1, <1>a DEF Ledger
<1>3. /\ idOf'[n] = i /\ \A t \in Tokens : t # n => idOf'[t] = idOf[t]
  BY <1>1, <1>a DEF Opens
<1>4. \A t \in Tokens : t # n => answers'[t] = answers[t]
  BY <1>1, <1>a DEF Opens
<1>5. minted' = n /\ i # NoId /\ \A t \in Tokens : t <= minted' <=> (t <= minted \/ t = n)
  BY <1>1, <1>a, TrackerAssumption DEF Opens, Tokens
<1>6. \A t \in Tokens : t > minted' => idOf'[t] = NoId /\ answers'[t] = 0
  BY <1>1, <1>a, <1>3, <1>4, <1>5 DEF Ledger, Tokens
<1>7. \A j \in Outstanding : awaiting[j].tok \in Tokens /\ awaiting[j].tok # n
  BY <1>1, <1>a, <1>2 DEF Ledger, Outstanding, Owed, Tokens
<1>8. CASE Track(i) /\ UNCHANGED answers
  <2>1. /\ awaiting'[i].tok = n
        /\ \A j \in Ids : j # i => awaiting'[j] = awaiting[j]
    BY <1>1, <1>a, <1>8 DEF Track, Vacant
  <2>2. Outstanding' = Outstanding \cup {i} /\ i \notin Outstanding
    BY <1>1, <1>a, <2>1 DEF Outstanding, Opens, Admissible, Tokens, NoToken
  <2>3. \A j \in Outstanding' : awaiting'[j].tok <= minted' /\ idOf'[awaiting'[j].tok] = j
    <3>1. ASSUME NEW j \in Outstanding
          PROVE  awaiting'[j].tok <= minted' /\ idOf'[awaiting'[j].tok] = j
      <4>1. j \in Ids /\ j # i
        BY <2>2 DEF Outstanding
      <4>2. awaiting'[j].tok = awaiting[j].tok
        BY <2>1, <4>1
      <4> QED
        BY <1>3, <1>5, <1>7, <4>2 DEF Ledger
    <3> QED
      BY <1>1, <1>a, <1>3, <1>5, <2>1, <2>2, <3>1
  <2>4. Owned(n)' = {i} /\ \A t \in Tokens : t # n => Owned(t)' = Owned(t)
    <3>1. \A j \in Outstanding' : awaiting'[j].tok = IF j = i THEN n ELSE awaiting[j].tok
      BY <2>1 DEF Outstanding
    <3> QED
      BY <1>7, <2>2, <3>1 DEF Owned
  <2>5. OwedOrAnsweredOnce'
    BY <1>2, <1>3, <1>5, <1>8, <2>4 DEF Ledger, OwedOrAnsweredOnce, Admitted, IsNotification, Opens
  <2> QED
    BY <1>6, <2>3, <2>5 DEF Ledger
<1>9. CASE UNCHANGED awaiting /\ answers' = [answers EXCEPT ![n] = @ + 1]
  <2>1. Outstanding' = Outstanding /\ \A t : Owned(t)' = Owned(t)
    BY <1>9 DEF Outstanding, Owned
  <2>2. Owned(n) = {}
    BY <1>7 DEF Owned
  <2>3. \A j \in Outstanding' : awaiting'[j].tok <= minted' /\ idOf'[awaiting'[j].tok] = j
    BY <1>3, <1>5, <1>7, <1>9, <2>1 DEF Ledger
  <2>4. answers'[n] = 1
    BY <1>1, <1>a, <1>2, <1>9
  <2>5. OwedOrAnsweredOnce'
    BY <1>3, <1>4, <1>5, <2>1, <2>2, <2>4
       DEF Ledger, OwedOrAnsweredOnce, Admitted, IsNotification, Opens
  <2> QED
    BY <1>6, <2>3, <2>5 DEF Ledger
<1> QED
  BY <1>8, <1>9, <1>a DEF Opens

\* And a notification, whose token never owns an id.
LEMMA PassesBooks ==
  ASSUME TypeOK, Ledger, Passes
  PROVE  Ledger'
<1>1. /\ awaiting \in [Ids -> Owed] /\ answers \in [Tokens -> Nat]
      /\ idOf \in [Tokens -> Ids \cup {NoId}] /\ minted \in Nat /\ minted + 1 \in Tokens
  BY MintType DEF TypeOK, TrackerTypeOK, Passes
<1>2. idOf[minted + 1] = NoId
  BY <1>1 DEF Ledger
<1>3. idOf' = idOf
  BY <1>1, <1>2 DEF Passes
<1>4. \A t \in Tokens : idOf[t] # NoId => (t <= minted' <=> t <= minted)
  BY <1>1, <1>2 DEF Passes, Tokens
<1>5. Outstanding' = Outstanding /\ \A t : Owned(t)' = Owned(t)
  BY DEF Passes, Outstanding, Owned
<1>6. \A i \in Outstanding : awaiting[i].tok \in Tokens
  BY <1>1 DEF Outstanding, Owed
<1>7. \A i \in Outstanding' : awaiting'[i].tok <= minted' /\ idOf'[awaiting'[i].tok] = i
  BY <1>1, <1>3, <1>5, <1>6 DEF Passes, Ledger, Tokens
<1>8. \A t \in Tokens : t > minted' => idOf'[t] = NoId /\ answers'[t] = 0
  BY <1>1, <1>3 DEF Passes, Ledger, Tokens
<1>9. OwedOrAnsweredOnce'
  BY <1>3, <1>4, <1>5 DEF Ledger, OwedOrAnsweredOnce, Admitted, IsNotification, Passes
<1> QED
  BY <1>7, <1>8, <1>9 DEF Ledger

\* Closing discards without replying, which OwedOrAnsweredOnce allows.
LEMMA ClosesBooks ==
  ASSUME TypeOK, Ledger, Closes
  PROVE  Ledger' /\ Outstanding' = {}
  BY DEF Closes, Ledger, OwedOrAnsweredOnce, Outstanding

\* Nothing brings the reader of a closed session back.
LEMMA IngressStaysDown ==
  ASSUME [Next]_vars, ~ingress
  PROVE  ~ingress'
<1>1. CASE UNCHANGED vars
  BY <1>1 DEF vars, bridgeVars
<1>2. CASE Ingress \/ Router
  BY <1>2 DEF Ingress, Admit, AdmitOverflows, AdmitTooLate, AdmitNotification, Cancel, IngressStops,
              Router, RouteTakes, RouteFails, RouteHandsOver, RouteOverflows, RouteStops,
              RouteBinds, RouteRefused
<1>3. CASE \E w \in Worktrees : Delivery(w) \/ Controls(w)
  BY <1>3 DEF Delivery, Controls, bridgeVars
<1>4. CASE \E c \in Conns : Reader(c) \/ RootsWorker(c) \/ Gopls(c)
  BY <1>4 DEF Reader, ReaderResponds, ReaderErrs, ReaderFailsCalls, ReaderLeaves, RootsWorker,
              RootsReleases, RootsCloses, RootsFailsCalls, Gopls, bridgeVars
<1>5. CASE (\E t \in Tokens : Timers(t)) \/ SessionFails \/ SessionCloses
  BY <1>5 DEF Timers, TimerFires, TimerExpires, DeliveryExpires, SessionFails, SessionCloses,
              bridgeVars
<1> QED
  BY <1>1, <1>2, <1>3, <1>4, <1>5 DEF Next

\* Every step keeps the books.
LEMMA NextBooks ==
  ASSUME TypeOK, Books, [Next]_vars
  PROVE  Books'
<1>1. Ledger'
  BY StepKinds, SettlesBooks, OpensBooks, PassesBooks, ClosesBooks DEF Books
<1>2. ClosedDone'
  <2>1. CASE session' # "closed"
    BY <2>1 DEF ClosedDone
  <2>2. CASE session = "closed"
    <3>1. ~ingress' /\ Outstanding = {}
      BY <2>2, IngressStaysDown DEF Books, ClosedDone
    <3>2. Settles({})
      BY <2>2, <3>1, StepKinds DEF Books, Opens, Passes, Closes
    <3> QED
      BY <3>1, <3>2 DEF ClosedDone, Settles, Outstanding
  <2>3. CASE session # "closed" /\ session' = "closed"
    <3>1. Closes
      BY <2>3, StepKinds DEF Books, Opens, Passes, Settles
    <3> QED
      BY <3>1, ClosesBooks DEF Books, ClosedDone, Closes
  <2> QED
    BY <2>1, <2>2, <2>3
<1> QED
  BY <1>1, <1>2 DEF Books

\* The books are in order when the session starts.
LEMMA InitBooks == Init => Books
<1> SUFFICES ASSUME Init PROVE Books
  OBVIOUS
<1>1. Outstanding = {}
  BY DEF Init, TrackerInit, Outstanding, Vacant
<1>2. \A t \in Tokens : idOf[t] = NoId /\ answers[t] = 0
  BY DEF Init, TrackerInit
<1>3. OwedOrAnsweredOnce
  BY <1>2 DEF OwedOrAnsweredOnce, Admitted, IsNotification
<1> QED
  BY <1>1, <1>2, <1>3 DEF Books, Ledger, ClosedDone, Init, TrackerInit

\* The shape and the books together are inductive.
LEMMA BooksInvariant == Spec => [](TypeOK /\ Books)
<1>1. Init => TypeOK /\ Books
  BY InitShape, InitBooks DEF Shape
<1>2. TypeOK /\ TypeOK' /\ Books /\ [Next]_vars => Books'
  BY NextBooks
<1> QED
  BY <1>1, <1>2, TypeCorrect, PTL DEF Spec

\* No call is lost and none is answered twice, whatever the client, the lanes,
\* the readers, the roots workers and the timers do, and however many there are.
THEOREM AnsweredOnce == Spec => []OwedOrAnsweredOnce
<1>1. Books => OwedOrAnsweredOnce
  BY DEF Books, Ledger
<1> QED
  BY <1>1, BooksInvariant, PTL

-----------------------------------------------------------------------------
(* The contract. *)

owedTokens == {awaiting[i].tok : i \in Outstanding}

\* No more tokens are owed than ids are outstanding.
LEMMA OwedCount ==
  ASSUME TypeOK
  PROVE  /\ IsFiniteSet(Outstanding) /\ IsFiniteSet(owedTokens)
         /\ Cardinality(owedTokens) <= Cardinality(Outstanding)
<1>1. IsFiniteSet(Outstanding)
  BY TrackerAssumption, FS_Subset DEF Outstanding
<1> DEFINE f == [i \in Outstanding |-> awaiting[i].tok]
<1>2. f \in Surjection(Outstanding, owedTokens)
  BY DEF Surjection, owedTokens
<1> QED
  BY <1>1, <1>2, FS_Surjection

\* Settling calls is a reply of the contract, or nothing at all.
LEMMA SettlesContract ==
  ASSUME TypeOK, Books, NEW S \in SUBSET Outstanding, Settles(S)
  PROVE  Contract!Next \/ UNCHANGED <<session # "closed", idOf, owedTokens, answers>>
<1> DEFINE T == {awaiting[i].tok : i \in S}
<1>1. \A i, j \in Outstanding : awaiting[i].tok = awaiting[j].tok => i = j
  BY DEF Books, Ledger
<1>2. Outstanding' = Outstanding \ S /\ \A i \in Outstanding' : awaiting'[i].tok = awaiting[i].tok
  BY DEF Settles, Outstanding
<1>3. owedTokens' = owedTokens \ T
  BY <1>1, <1>2 DEF owedTokens
<1>4. answers' = [t \in Tokens |-> IF t \in T THEN answers[t] + 1 ELSE answers[t]]
  BY DEF Settles, Answer
<1>5. T \subseteq owedTokens
  BY DEF owedTokens
<1>6. UNCHANGED <<session # "closed", idOf>>
  BY DEF Settles
<1>7. CASE T = {}
  <2>1. answers = [t \in Tokens |-> answers[t]]
    BY DEF TypeOK, TrackerTypeOK
  <2> QED
    BY <1>3, <1>4, <1>6, <1>7, <2>1
<1>8. CASE T # {}
  <2>1. PICK U \in SUBSET owedTokens : U = T
    BY <1>5
  <2>2. Contract!Answer(U)
    BY <1>3, <1>4, <1>6, <1>8, <2>1 DEF Contract!Answer, owedTokens
  <2> QED
    BY <2>2 DEF Contract!Next, owedTokens
<1> QED
  BY <1>7, <1>8

\* Taking a call is an acceptance of the contract.
LEMMA OpensContract ==
  ASSUME TypeOK, Books, NEW i \in Ids, Opens(i)
  PROVE  Contract!Next
<1>1. /\ awaiting \in [Ids -> Owed] /\ answers \in [Tokens -> Nat]
      /\ idOf \in [Tokens -> Ids \cup {NoId}] /\ minted \in Nat /\ minted + 1 \in Tokens
  BY MintType DEF TypeOK, TrackerTypeOK, Opens
<1>2. PICK n \in Tokens : n = minted + 1
  BY <1>1
<1>3. idOf[n] = NoId
  BY <1>1, <1>2 DEF Books, Ledger
<1>4. Cardinality(owedTokens) < Session
  <2>1. Cardinality(Outstanding) < Session /\ Cardinality(owedTokens) <= Cardinality(Outstanding)
    BY OwedCount DEF Opens, Admissible
  <2>2. Cardinality(Outstanding) \in Nat /\ Cardinality(owedTokens) \in Nat /\ Session \in Nat
    BY OwedCount, FS_CardinalityType, TrackerAssumption
  <2> QED
    BY <2>1, <2>2
<1>5. \A u \in owedTokens : idOf[u] # i
  BY DEF owedTokens, Books, Ledger, Opens, Admissible, Outstanding
<1>6. Contract!Accept(n, i)
  <2>1. UNCHANGED (session # "closed")
    BY DEF Opens
  <2>2. (session # "closed") /\ idOf' = [idOf EXCEPT ![n] = i]
    BY <1>2 DEF Opens
  <2>3. Contract!Cardinality(owedTokens) = Cardinality(owedTokens)
    BY DEF Contract!Cardinality, Cardinality
  <2> QED
    BY <1>3, <1>4, <1>5, <2>1, <2>2, <2>3 DEF Contract!Accept, owedTokens
<1>7. CASE Track(i) /\ UNCHANGED answers
  <2>1. /\ awaiting'[i].tok = n
        /\ \A j \in Ids : j # i => awaiting'[j] = awaiting[j]
    BY <1>1, <1>2, <1>7 DEF Track, Vacant
  <2>2. Outstanding' = Outstanding \cup {i} /\ i \notin Outstanding
    BY <1>1, <1>2, <2>1 DEF Outstanding, Opens, Admissible, Tokens, NoToken
  <2>3. owedTokens' = owedTokens \cup {n}
    <3>1. \A j \in Outstanding : awaiting'[j].tok = awaiting[j].tok
      BY <2>1, <2>2 DEF Outstanding
    <3> QED
      BY <2>1, <2>2, <3>1 DEF owedTokens
  <2>4. Contract!Begin(n, i)
    BY <1>6, <1>7, <2>3 DEF Contract!Begin, owedTokens
  <2> QED
    BY <2>4 DEF Contract!Next
<1>8. CASE UNCHANGED awaiting /\ answers' = [answers EXCEPT ![minted + 1] = @ + 1]
  <2>1. owedTokens' = owedTokens
    BY <1>8 DEF owedTokens, Outstanding
  <2>2. Contract!Refuse(n, i)
    BY <1>2, <1>6, <1>8, <2>1 DEF Contract!Refuse, owedTokens
  <2> QED
    BY <2>2 DEF Contract!Next
<1> QED
  BY <1>7, <1>8 DEF Opens

\* Every step of the session is a step of the contract or invisible in it.
LEMMA ContractStep ==
  ASSUME TypeOK, Books, [Next]_vars
  PROVE  Contract!Next \/ UNCHANGED <<session # "closed", idOf, owedTokens, answers>>
<1>1. CASE Passes
  <2>1. idOf[minted + 1] = NoId /\ minted + 1 \in Tokens /\ idOf \in [Tokens -> Ids \cup {NoId}]
    <3>1. minted \in Nat /\ minted + 1 \in Tokens /\ idOf \in [Tokens -> Ids \cup {NoId}]
      BY <1>1, MintType DEF TypeOK, TrackerTypeOK, Passes
    <3> QED
      BY <3>1 DEF Books, Ledger
  <2>2. idOf' = idOf
    BY <1>1, <2>1 DEF Passes
  <2> QED
    BY <1>1, <2>2 DEF Passes, owedTokens, Outstanding
<1>2. CASE Closes
  <2>1. owedTokens' = {}
    BY <1>2 DEF Closes, owedTokens, Outstanding
  <2> QED
    BY <1>2, <2>1 DEF Closes, Contract!Next, Contract!Close, owedTokens
<1> QED
  BY <1>1, <1>2, StepKinds, SettlesContract, OpensContract DEF Books

\* The session implements the contract it has with its client.
THEOREM ContractImplemented == Spec => ContractKept
<1>1. Init => Contract!Init
  <2> SUFFICES ASSUME Init PROVE Contract!Init
    OBVIOUS
  <2>1. Outstanding = {}
    BY DEF Init, TrackerInit, Outstanding, Vacant
  <2> QED
    BY <2>1 DEF Init, TrackerInit, Contract!Init
<1>2. TypeOK /\ Books /\ [Next]_vars
        => [Contract!Next]_<<session # "closed", idOf, owedTokens, answers>>
  BY ContractStep
<1> QED
  BY <1>1, <1>2, BooksInvariant, PTL DEF Spec, ContractKept, Contract!Spec, owedTokens

-----------------------------------------------------------------------------
\* Where a message is between its admission and its delivery, and whose a connection is.

Elements(s) == {s[j] : j \in DOMAIN s}
Distinct(s) == \A j, k \in DOMAIN s : s[j] = s[k] => j = k

\* The head of a queue leaves it.
LEMMA TailElements ==
  ASSUME NEW T, NEW s \in Seq(T), s # <<>>
  PROVE  /\ Head(s) \in T /\ Tail(s) \in Seq(T)
         /\ Head(s) \in Elements(s)
         /\ Elements(Tail(s)) \subseteq Elements(s)
         /\ Distinct(s) => Distinct(Tail(s)) /\ Head(s) \notin Elements(Tail(s))
<1>1. /\ Len(s) \in Nat /\ Len(s) # 0 /\ DOMAIN s = 1 .. Len(s)
      /\ DOMAIN Tail(s) = 1 .. Len(s) - 1 /\ Head(s) = s[1]
      /\ \A j \in 1 .. Len(s) - 1 : Tail(s)[j] = s[j + 1]
  OBVIOUS
<1> QED
  BY <1>1 DEF Elements, Distinct

\* What is appended to a queue is in it.
LEMMA AppendElements ==
  ASSUME NEW T, NEW s \in Seq(T), NEW x \in T
  PROVE  /\ Append(s, x) \in Seq(T)
         /\ Elements(Append(s, x)) = Elements(s) \cup {x}
         /\ Distinct(s) /\ x \notin Elements(s) => Distinct(Append(s, x))
<1>1. /\ Len(s) \in Nat /\ DOMAIN s = 1 .. Len(s) /\ DOMAIN Append(s, x) = 1 .. Len(s) + 1
      /\ \A j \in 1 .. Len(s) : Append(s, x)[j] = s[j]
      /\ Append(s, x)[Len(s) + 1] = x
  OBVIOUS
<1>2. Elements(Append(s, x)) = Elements(s) \cup {x}
  BY <1>1 DEF Elements
<1> QED
  BY <1>1, <1>2 DEF Elements, Distinct

-----------------------------------------------------------------------------
(* Where a message is.  Ingress queues it, the router holds it, a lane has *)
(* it queued and then delivers it: it is in one of these places at most,   *)
(* and in a queue at most once.                                            *)

Routed(t) == t \in Elements(incoming) \/ t = routing.tok
Held(w, t) == lane[w].pc # "idle" /\ lane[w].tok = t
InLane(w, t) == t \in Elements(reqs[w]) \/ Held(w, t)

Alone ==
  /\ Distinct(incoming) /\ \A w \in Worktrees : Distinct(reqs[w])
  /\ routing.tok \notin Elements(incoming)
  /\ \A w \in Worktrees, t \in Tokens :
       /\ Held(w, t) => t \notin Elements(reqs[w])
       /\ Routed(t) => ~InLane(w, t)
       /\ InLane(w, t) => t <= minted
  /\ \A v, w \in Worktrees, t \in Tokens : InLane(v, t) /\ InLane(w, t) => v = w
  /\ \A t \in Tokens : Routed(t) => t <= minted

\* Messages that only leave places stay alone.
LEMMA FewerAlone ==
  ASSUME TypeOK, Alone, minted' \in Int, minted <= minted',
         UNCHANGED incoming, routing'.tok \in {routing.tok, NoToken},
         \A w \in Worktrees : Distinct(reqs[w]) => Distinct(reqs'[w]),
         \A w \in Worktrees : Elements(reqs'[w]) \subseteq Elements(reqs[w]),
         \A w \in Worktrees, t \in Tokens : Held(w, t)' => Held(w, t)
  PROVE  Alone'
<1>1. minted \in Int /\ Tokens \subseteq Int /\ NoToken \notin Tokens
  BY TrackerAssumption DEF TypeOK, TrackerTypeOK, Tokens
<1>2. Elements(incoming) \subseteq Tokens
  BY DEF TypeOK, BridgeTypeOK, Elements
<1>3. \A t \in Tokens : Routed(t)' => Routed(t)
  BY <1>1 DEF Routed
<1>4. \A w \in Worktrees, t \in Tokens : InLane(w, t)' => InLane(w, t)
  BY DEF InLane
<1>5. \A t \in Tokens : t <= minted => t <= minted'
  BY <1>1
<1>6. routing'.tok \notin Elements(incoming')
  BY <1>1, <1>2 DEF Alone
<1>7. \A w \in Worktrees : Distinct(reqs'[w])
  BY DEF Alone
<1>8. \A w \in Worktrees, t \in Tokens : Held(w, t)' => t \notin Elements(reqs'[w])
  BY DEF Alone
<1>9. \A w \in Worktrees, t \in Tokens : (Routed(t)' => ~InLane(w, t)') /\ (InLane(w, t)' => t <= minted')
  BY <1>3, <1>4, <1>5 DEF Alone
<1>10. \A v, w \in Worktrees, t \in Tokens : InLane(v, t)' /\ InLane(w, t)' => v = w
  BY <1>4 DEF Alone
<1>11. \A t \in Tokens : Routed(t)' => t <= minted'
  BY <1>3, <1>5 DEF Alone
<1> QED
  BY <1>6, <1>7, <1>8, <1>9, <1>10, <1>11 DEF Alone

\* A new message is nowhere yet, and goes to the end of the routing queue or is
\* refused.
LEMMA IngressAlone ==
  ASSUME TypeOK, Alone, Ingress
  PROVE  Alone'
<1>1. /\ minted \in Int /\ Tokens \subseteq Int /\ incoming \in Seq(Tokens)
      /\ \A w \in Worktrees : reqs[w] \in Seq(Tokens)
  BY TrackerAssumption DEF TypeOK, TrackerTypeOK, LaneTypeOK, BridgeTypeOK, Tokens
<1>2. ASSUME minted < MaxCalls, minted' = minted + 1, incoming' = Append(incoming, minted + 1),
             UNCHANGED <<routing, reqs, lane>>
      PROVE  Alone'
  <2>1. PICK n \in Tokens : n = minted + 1
    BY <1>2, MintType DEF TypeOK
  <2>2. n \notin Elements(incoming) /\ n # routing.tok /\ \A w \in Worktrees : ~InLane(w, n)
    BY <1>1, <2>1 DEF Alone, Routed
  <2>3. Distinct(incoming') /\ Elements(incoming') = Elements(incoming) \cup {n}
    BY <1>1, <1>2, <2>1, <2>2, AppendElements DEF Alone
  <2>4. \A w \in Worktrees, t \in Tokens : (Held(w, t)' <=> Held(w, t)) /\ (InLane(w, t)' <=> InLane(w, t))
    BY <1>2 DEF Held, InLane
  <2>5. \A t \in Tokens : Routed(t)' <=> Routed(t) \/ t = n
    BY <1>2, <2>3 DEF Routed
  <2>6. routing'.tok \notin Elements(incoming')
    BY <1>2, <2>2, <2>3 DEF Alone
  <2>7. \A t \in Tokens : (t <= minted => t <= minted') /\ n <= minted'
    BY <1>1, <1>2, <2>1
  <2>8. \A w \in Worktrees, t \in Tokens : Routed(t)' => ~InLane(w, t)'
    BY <2>2, <2>4, <2>5 DEF Alone
  <2>9. \A w \in Worktrees, t \in Tokens :
          /\ Held(w, t)' => t \notin Elements(reqs'[w])
          /\ InLane(w, t)' => t <= minted'
    BY <1>2, <2>4, <2>7 DEF Alone
  <2>10. \A v, w \in Worktrees, t \in Tokens : InLane(v, t)' /\ InLane(w, t)' => v = w
    BY <2>4 DEF Alone
  <2>11. \A t \in Tokens : Routed(t)' => t <= minted'
    BY <2>5, <2>7 DEF Alone
  <2>12. \A w \in Worktrees : Distinct(reqs'[w])
    BY <1>2 DEF Alone
  <2> QED
    BY <2>3, <2>6, <2>8, <2>9, <2>10, <2>11, <2>12 DEF Alone
<1>3. ASSUME minted' \in {minted, minted + 1}, UNCHANGED <<incoming, routing, reqs, lane>>
      PROVE  Alone'
  <2>1. \A w \in Worktrees, t \in Tokens : Held(w, t)' => Held(w, t)
    BY <1>3 DEF Held
  <2> QED
    BY <1>1, <1>3, <2>1, FewerAlone
<1>4. ASSUME NEW i \in Ids, NEW k \in Sends \ {"notification"}, Admit(i, k)
      PROVE  Alone'
  BY <1>2, <1>4 DEF Admit, Mint
<1>5. ASSUME NEW i \in Ids, NEW k \in Sends \ {"notification"},
             AdmitOverflows(i, k) \/ AdmitTooLate(i, k)
      PROVE  Alone'
  BY <1>3, <1>5 DEF AdmitOverflows, AdmitTooLate, Mint
<1>6. CASE AdmitNotification
  BY <1>2, <1>6 DEF AdmitNotification, Mint, laneVars
<1>7. ASSUME NEW i \in Ids, Cancel(i)
      PROVE  Alone'
  BY <1>3, <1>7 DEF Cancel, Finish, bridgeVars
<1>8. CASE IngressStops
  BY <1>3, <1>8 DEF IngressStops, trackerVars, laneVars
<1> QED
  BY <1>4, <1>5, <1>6, <1>7, <1>8 DEF Ingress

\* The router takes from the queue and hands over to a lane.
LEMMA RouterAlone ==
  ASSUME Shape, Alone, Router
  PROVE  Alone'
<1>1. /\ minted \in Int /\ Tokens \subseteq Int /\ incoming \in Seq(Tokens)
      /\ NoToken \notin Tokens /\ routing.tok \in Tokens \cup {NoToken}
      /\ \A w \in Worktrees : reqs[w] \in Seq(Tokens)
  BY TrackerAssumption DEF Shape, TypeOK, TrackerTypeOK, LaneTypeOK, BridgeTypeOK, Tokens
<1>2. ASSUME UNCHANGED <<minted, incoming, reqs, lane>>, routing'.tok \in {routing.tok, NoToken}
      PROVE  Alone'
  <2>1. \A w \in Worktrees, t \in Tokens : Held(w, t)' => Held(w, t)
    BY <1>2 DEF Held
  <2> QED
    BY <1>1, <1>2, <2>1, FewerAlone DEF Shape
<1>3. CASE RouteTakes
  <2>1. PICK n \in Tokens : n = Head(incoming)
    BY <1>1, <1>3, TailElements DEF RouteTakes
  <2>2. /\ n \in Elements(incoming) /\ Distinct(incoming') /\ n \notin Elements(incoming')
        /\ Elements(incoming') \subseteq Elements(incoming)
    BY <1>1, <1>3, <2>1, TailElements DEF RouteTakes, Alone
  <2>3. routing'.tok = n /\ UNCHANGED <<minted, reqs, lane>>
    BY <1>3, <2>1 DEF RouteTakes, NotRouting, trackerVars, laneVars
  <2>4. \A t \in Tokens : Routed(t)' => Routed(t)
    BY <2>2, <2>3 DEF Routed
  <2>5. \A w \in Worktrees, t \in Tokens : (Held(w, t)' <=> Held(w, t)) /\ (InLane(w, t)' <=> InLane(w, t))
    BY <2>3 DEF Held, InLane
  <2> QED
    BY <2>2, <2>3, <2>4, <2>5 DEF Alone
<1>4. CASE RouteHandsOver
  <2>1. PICK n \in Tokens, w \in Worktrees : n = routing.tok /\ w = routing.wt
    BY <1>4 DEF RouteHandsOver, Shape, RoutingShape, TypeOK, BridgeTypeOK
  <2>2. /\ reqs' = [reqs EXCEPT ![w] = Append(@, n)] /\ routing'.tok = NoToken
        /\ UNCHANGED <<minted, incoming, lane>>
    BY <1>4, <2>1 DEF RouteHandsOver, NotRouting, trackerVars
  <2>3. Routed(n) /\ n \notin Elements(reqs[w]) /\ \A v \in Worktrees : ~InLane(v, n)
    BY <2>1 DEF Alone, Routed, InLane
  <2>4. reqs'[w] = Append(reqs[w], n) /\ \A v \in Worktrees \ {w} : reqs'[v] = reqs[v]
    BY <2>2 DEF Shape, TypeOK, LaneTypeOK
  <2>5. Elements(reqs'[w]) = Elements(reqs[w]) \cup {n} /\ \A v \in Worktrees : Distinct(reqs'[v])
    <3>1. reqs[w] \in Seq(Tokens) /\ Distinct(reqs[w])
      BY <1>1 DEF Alone
    <3>2. Elements(reqs'[w]) = Elements(reqs[w]) \cup {n} /\ Distinct(reqs'[w])
      BY <2>3, <2>4, <3>1, AppendElements
    <3> QED
      BY <2>4, <3>2 DEF Alone
  <2>6. \A v \in Worktrees, t \in Tokens :
          /\ Held(v, t)' <=> Held(v, t)
          /\ InLane(v, t)' <=> InLane(v, t) \/ (v = w /\ t = n)
    BY <2>2, <2>4, <2>5 DEF Held, InLane
  <2>7. \A t \in Tokens : Routed(t)' => Routed(t) /\ t # n
    BY <1>1, <2>1, <2>2 DEF Routed, Alone
  <2>8. routing'.tok \notin Elements(incoming')
    BY <1>1, <2>2 DEF Elements
  <2>9. \A v \in Worktrees, t \in Tokens :
          /\ Held(v, t)' => t \notin Elements(reqs'[v])
          /\ Routed(t)' => ~InLane(v, t)'
          /\ InLane(v, t)' => t <= minted'
    <3>1. \A v \in Worktrees, t \in Tokens : Held(v, t)' => t \notin Elements(reqs'[v])
      BY <2>3, <2>4, <2>5, <2>6 DEF Alone, InLane
    <3>2. \A v \in Worktrees, t \in Tokens :
            (Routed(t)' => ~InLane(v, t)') /\ (InLane(v, t)' => t <= minted')
      BY <2>2, <2>3, <2>6, <2>7 DEF Alone
    <3> QED
      BY <3>1, <3>2
  <2>10. \A u, v \in Worktrees, t \in Tokens : InLane(u, t)' /\ InLane(v, t)' => u = v
    BY <2>3, <2>6 DEF Alone
  <2>11. \A t \in Tokens : Routed(t)' => t <= minted'
    BY <2>2, <2>7 DEF Alone
  <2> QED
    BY <2>2, <2>5, <2>8, <2>9, <2>10, <2>11 DEF Alone
<1>5. CASE RouteFails \/ RouteOverflows \/ RouteStops \/ \E w \in Worktrees : RouteRefused(w)
  BY <1>2, <1>5 DEF RouteFails, RouteOverflows, RouteStops, RouteRefused, FailRouting, FailDelivery,
                    NotRouting, laneVars, trackerVars
<1>6. ASSUME NEW w \in Worktrees, RouteBinds(w)
      PROVE  Alone'
  BY <1>2, <1>6 DEF RouteBinds, laneVars, Shape, TypeOK, BridgeTypeOK
<1> QED
  BY <1>3, <1>4, <1>5, <1>6 DEF Router

\* A lane takes from its queue, and keeps its message until it is done with it.
LEMMA DeliveryAlone ==
  ASSUME Shape, Alone, NEW w \in Worktrees, Delivery(w)
  PROVE  Alone'
<1>1. /\ minted \in Int /\ Tokens \subseteq Int /\ UNCHANGED <<incoming, routing>>
      /\ \A v \in Worktrees : reqs[v] \in Seq(Tokens)
      /\ lane \in [Worktrees -> LaneState]
  BY TrackerAssumption DEF Shape, TypeOK, TrackerTypeOK, LaneTypeOK, Tokens, Delivery, bridgeVars
<1>2. ASSUME UNCHANGED <<minted, reqs>>,
             \A v \in Worktrees, t \in Tokens : Held(v, t)' => Held(v, t)
      PROVE  Alone'
  BY <1>1, <1>2, FewerAlone DEF Shape
<1>3. CASE LaneSkips(w)
  <2>1. reqs[w] \in Seq(Tokens) /\ reqs[w] # <<>>
    BY <1>1, <1>3 DEF LaneSkips
  <2>2. /\ reqs'[w] = Tail(reqs[w]) /\ UNCHANGED <<minted, lane>>
        /\ \A v \in Worktrees \ {w} : reqs'[v] = reqs[v]
    BY <1>3 DEF LaneSkips, trackerVars, Shape, TypeOK, LaneTypeOK
  <2>3. Elements(reqs'[w]) \subseteq Elements(reqs[w]) /\ (Distinct(reqs[w]) => Distinct(reqs'[w]))
    BY <2>1, <2>2, TailElements
  <2>4. \A v \in Worktrees, t \in Tokens : Held(v, t)' => Held(v, t)
    BY <2>2 DEF Held
  <2> QED
    BY <1>1, <2>2, <2>3, <2>4, FewerAlone DEF Shape
<1>4. CASE LaneTakes(w)
  <2>1. reqs[w] \in Seq(Tokens) /\ reqs[w] # <<>> /\ Distinct(reqs[w])
    BY <1>1, <1>4 DEF LaneTakes, Alone
  <2>2. PICK n \in Tokens : n = Head(reqs[w])
    BY <2>1, TailElements
  <2>3. /\ reqs'[w] = Tail(reqs[w]) /\ UNCHANGED minted
        /\ \A v \in Worktrees \ {w} : reqs'[v] = reqs[v] /\ lane'[v] = lane[v]
        /\ lane[w].pc = "idle"
        /\ lane'[w] \in {lane[w], Attempting(n, 1)}
    BY <1>1, <1>4, <2>2 DEF LaneTakes, Shape, TypeOK, LaneTypeOK
  <2>4. /\ n \in Elements(reqs[w]) /\ Distinct(reqs'[w]) /\ n \notin Elements(reqs'[w])
        /\ Elements(reqs'[w]) \subseteq Elements(reqs[w])
    BY <2>1, <2>2, <2>3, TailElements
  <2>5. \A v \in Worktrees, t \in Tokens : Held(v, t)' => Held(v, t) \/ (v = w /\ t = n)
    BY <2>3 DEF Held, Attempting
  <2>6. \A v \in Worktrees, t \in Tokens : InLane(v, t)' => InLane(v, t)
    BY <2>3, <2>4, <2>5 DEF InLane
  <2>7. \A t \in Tokens : Routed(t)' <=> Routed(t)
    BY <1>1 DEF Routed
  <2>8. \A v \in Worktrees, t \in Tokens : Held(v, t)' => t \notin Elements(reqs'[v])
    <3>1. ASSUME NEW v \in Worktrees, NEW t \in Tokens, Held(v, t)'
          PROVE  t \notin Elements(reqs'[v])
      <4>1. CASE v = w /\ t = n
        BY <2>4, <4>1
      <4>2. CASE Held(v, t)
        BY <2>3, <2>4, <4>2 DEF Alone
      <4> QED
        BY <2>5, <3>1, <4>1, <4>2
    <3> QED
      BY <3>1
  <2>9. \A v \in Worktrees : Distinct(reqs'[v])
    BY <2>3, <2>4 DEF Alone
  <2> QED
    BY <1>1, <2>3, <2>6, <2>7, <2>8, <2>9 DEF Alone
<1>5. CASE LaneGivesUp(w) \/ LaneDropsNotification(w) \/ LaneRefused(w) \/ LaneTooLarge(w)
           \/ LaneDelivered(w)
  <2>1. lane' = [lane EXCEPT ![w] = Idle] /\ UNCHANGED <<minted, reqs>>
    BY <1>5 DEF LaneGivesUp, LaneDropsNotification, LaneRefused, LaneTooLarge, LaneDelivered,
                FailDelivery, trackerVars
  <2>2. \A v \in Worktrees, t \in Tokens : Held(v, t)' => Held(v, t)
    BY <1>1, <2>1 DEF Held, Idle
  <2> QED
    BY <1>2, <2>1, <2>2
<1>6. CASE LaneReuses(w) \/ LaneDialFails(w) \/ LaneBegins(w) \/ UpstreamReceives(w)
           \/ LaneWriteFails(w) \/ \E c \in Conns : LaneDials(w, c)
  <2>1. lane[w].pc # "idle" /\ UNCHANGED <<minted, reqs>>
    BY <1>6 DEF LaneReuses, LaneDialFails, LaneBegins, UpstreamReceives, LaneWriteFails, LaneDials,
                Trying, Writing, trackerVars
  <2>2. /\ \A v \in Worktrees \ {w} : lane'[v] = lane[v]
        /\ lane'[w].pc # "idle" => lane'[w].tok = lane[w].tok
    BY <1>1, <1>6 DEF LaneReuses, LaneDialFails, LaneBegins, UpstreamReceives, LaneWriteFails,
                LaneDials, Attempting, Idle, LaneState
  <2>3. \A v \in Worktrees, t \in Tokens : Held(v, t)' => Held(v, t)
    BY <2>1, <2>2 DEF Held
  <2> QED
    BY <1>2, <2>1, <2>3
<1> QED
  BY <1>3, <1>4, <1>5, <1>6 DEF Delivery

\* Nobody else moves a message.
LEMMA NextAlone ==
  ASSUME Shape, Alone, [Next]_vars
  PROVE  Alone'
<1>1. ASSUME UNCHANGED <<minted, incoming, routing, reqs, lane>>
      PROVE  Alone'
  <2>1. \A w \in Worktrees, t \in Tokens : Held(w, t)' => Held(w, t)
    BY <1>1 DEF Held
  <2>2. minted \in Int
    BY DEF Shape, TypeOK, TrackerTypeOK
  <2> QED
    BY <1>1, <2>1, <2>2, FewerAlone DEF Shape
<1>2. CASE UNCHANGED vars
  BY <1>1, <1>2 DEF vars, trackerVars, laneVars, bridgeVars
<1>3. ASSUME NEW w \in Worktrees, Controls(w)
      PROVE  Alone'
  BY <1>1, <1>3 DEF Controls, ControlChecks, ControlExpires, ControlWrites, trackerVars, bridgeVars
<1>4. ASSUME NEW c \in Conns, Reader(c) \/ RootsWorker(c) \/ Gopls(c)
      PROVE  Alone'
  BY <1>1, <1>4 DEF Reader, ReaderResponds, ReaderErrs, ReaderFailsCalls, ReaderLeaves, RootsWorker,
     RootsReleases, RootsCloses, RootsFailsCalls, Gopls, UpstreamAnswers, Finish, FinishResponse,
     trackerVars, laneVars, bridgeVars
<1>5. ASSUME NEW t \in Tokens, Timers(t)
      PROVE  Alone'
  BY <1>1, <1>5 DEF Timers, TimerFires, TimerExpires, DeliveryExpires, laneVars, bridgeVars
<1>6. CASE SessionFails \/ SessionCloses
  BY <1>1, <1>6 DEF SessionFails, SessionCloses, ClearRequests, laneVars, bridgeVars
<1> QED
  BY <1>2, <1>3, <1>4, <1>5, <1>6, IngressAlone, RouterAlone, DeliveryAlone DEF Next, Shape

-----------------------------------------------------------------------------
(* Whose a connection is.  A lane uses the one it has adopted and the one  *)
(* it delivers over, no two lanes use the same, and one that has been      *)
(* given up is never dialled again.                                        *)

Uses(w, c) == c = laneConn[w] \/ c = lane[w].conn

LaneConns ==
  \A w \in Worktrees :
    /\ lane[w].pc \in {"idle", "attempt"} => lane[w].conn = NoConn
    /\ lane[w].pc \notin {"idle", "attempt"} => laneConn[w] \in {NoConn, lane[w].conn}

Owner ==
  /\ LaneConns
  /\ \A v, w \in Worktrees, c \in Conns : Uses(v, c) /\ Uses(w, c) => v = w
  /\ \A w \in Worktrees, c \in Conns : connState[c] = "unused" => ~Uses(w, c)

\* A connection stays with the lane that uses it, if it is not given up.
LEMMA FewerOwner ==
  ASSUME Owner, LaneConns',
         \A w \in Worktrees, c \in Conns : Uses(w, c)' => Uses(w, c),
         \A c \in Conns : connState'[c] = "unused" => connState[c] = "unused"
  PROVE  Owner'
  BY DEF Owner

\* Only the lane's own goroutine dials, adopts and gives up.
LEMMA DeliveryOwner ==
  ASSUME Shape, Owner, NEW w \in Worktrees, Delivery(w)
  PROVE  Owner'
<1>1. /\ lane \in [Worktrees -> LaneState] /\ laneConn \in [Worktrees -> Conns \cup {NoConn}]
      /\ connState \in [Conns -> {"unused", "open", "released", "closed"}]
      /\ NoConn \notin Conns /\ LaneConns
  BY DEF Shape, TypeOK, LaneTypeOK, Conns, Owner
<1>2. ASSUME NEW c \in Conns, LaneDials(w, c)
      PROVE  Owner'
  <2>1. /\ lane' = [lane EXCEPT ![w].pc = "gate", ![w].conn = c] /\ UNCHANGED laneConn
        /\ laneConn[w] = NoConn /\ lane[w].pc = "attempt"
        /\ connState[c] = "unused" /\ connState' = [connState EXCEPT ![c] = "open"]
    BY <1>2 DEF LaneDials, NextConn, Trying
  <2>2. /\ lane'[w].pc = "gate" /\ lane'[w].conn = c /\ \A v \in Worktrees \ {w} : lane'[v] = lane[v]
    BY <1>1, <2>1 DEF LaneState
  <2>3. LaneConns'
    BY <1>1, <2>1, <2>2 DEF LaneConns
  <2>4. \A v \in Worktrees, d \in Conns : Uses(v, d)' => Uses(v, d) \/ (v = w /\ d = c)
    BY <1>1, <2>1, <2>2 DEF Uses
  <2>5. \A v \in Worktrees : ~Uses(v, c)
    BY <2>1 DEF Owner
  <2>6. \A d \in Conns : connState'[d] = "unused" => connState[d] = "unused" /\ d # c
    BY <1>1, <2>1
  <2> QED
    BY <2>3, <2>4, <2>5, <2>6 DEF Owner
<1>3. CASE LaneDelivered(w)
  <2>1. /\ lane' = [lane EXCEPT ![w] = Idle] /\ laneConn' = [laneConn EXCEPT ![w] = lane[w].conn]
        /\ UNCHANGED connState
    BY <1>3 DEF LaneDelivered
  <2>2. LaneConns'
    BY <1>1, <2>1 DEF LaneConns, Idle
  <2>3. \A v \in Worktrees, d \in Conns : Uses(v, d)' => Uses(v, d)
    BY <1>1, <2>1 DEF Uses, Idle
  <2> QED
    BY <2>1, <2>2, <2>3, FewerOwner
<1>4. CASE LaneWriteFails(w)
  <2>1. /\ lane' = [lane EXCEPT ![w] = IF IsNotification(lane[w].tok) \/ Retryable(lane[w].tok, lane[w].conn)
                                       THEN Attempting(lane[w].tok, lane[w].try + 1) ELSE Idle]
        /\ laneConn' = [laneConn EXCEPT ![w] = NoConn]
        /\ connState' = [connState EXCEPT ![lane[w].conn] = "closed"]
    BY <1>4 DEF LaneWriteFails
  <2>2. LaneConns'
    BY <1>1, <2>1 DEF LaneConns, Idle, Attempting
  <2>3. \A v \in Worktrees, d \in Conns : Uses(v, d)' => Uses(v, d)
    BY <1>1, <2>1 DEF Uses, Idle, Attempting
  <2>4. \A d \in Conns : connState'[d] = "unused" => connState[d] = "unused"
    BY <1>1, <2>1
  <2> QED
    BY <2>2, <2>3, <2>4, FewerOwner
<1>5. CASE LaneGivesUp(w) \/ LaneDropsNotification(w) \/ LaneRefused(w) \/ LaneTooLarge(w)
  <2>1. /\ lane' = [lane EXCEPT ![w] = Idle] /\ UNCHANGED laneConn
        /\ connState' \in {connState, ClosedUnlessAdopted(w)}
    BY <1>5 DEF LaneGivesUp, LaneDropsNotification, LaneRefused, LaneTooLarge
  <2>2. LaneConns'
    BY <1>1, <2>1 DEF LaneConns, Idle
  <2>3. \A v \in Worktrees, d \in Conns : Uses(v, d)' => Uses(v, d)
    BY <1>1, <2>1 DEF Uses, Idle
  <2>4. \A d \in Conns : connState'[d] = "unused" => connState[d] = "unused"
    BY <1>1, <2>1 DEF ClosedUnlessAdopted
  <2> QED
    BY <2>2, <2>3, <2>4, FewerOwner
<1>6. CASE LaneReuses(w)
  <2>1. /\ UNCHANGED <<laneConn, connState>> /\ lane[w].pc = "attempt" /\ laneConn[w] # NoConn
        /\ lane' = IF kindOf[lane[w].tok] = "initialize" THEN [lane EXCEPT ![w].try = @ + 1]
                   ELSE [lane EXCEPT ![w].pc = "gate", ![w].conn = laneConn[w]]
    BY <1>6 DEF LaneReuses, Trying
  <2>2. /\ \A v \in Worktrees \ {w} : lane'[v] = lane[v]
        /\ \/ lane'[w].pc = "attempt" /\ lane'[w].conn = lane[w].conn
           \/ lane'[w].pc = "gate" /\ lane'[w].conn = laneConn[w]
    BY <1>1, <2>1 DEF LaneState
  <2>3. LaneConns'
    BY <1>1, <2>1, <2>2 DEF LaneConns
  <2>4. \A v \in Worktrees, d \in Conns : Uses(v, d)' => Uses(v, d)
    BY <1>1, <2>1, <2>2 DEF Uses
  <2> QED
    BY <2>1, <2>3, <2>4, FewerOwner
<1>7. CASE LaneSkips(w) \/ LaneTakes(w) \/ LaneDialFails(w) \/ LaneBegins(w) \/ UpstreamReceives(w)
  <2>1. UNCHANGED <<laneConn, connState>>
    BY <1>7 DEF LaneSkips, LaneTakes, LaneDialFails, LaneBegins, UpstreamReceives
  <2>2. \A v \in Worktrees :
          /\ lane'[v].conn = lane[v].conn
          /\ lane'[v].pc \in {"idle", "attempt"} <=> lane[v].pc \in {"idle", "attempt"}
    BY <1>1, <1>7 DEF LaneSkips, LaneTakes, LaneDialFails, LaneBegins, UpstreamReceives, Attempting,
                      LaneState, Trying, LaneConns
  <2>3. LaneConns' /\ \A v \in Worktrees, d \in Conns : Uses(v, d)' => Uses(v, d)
    BY <1>1, <2>1, <2>2 DEF LaneConns, Uses
  <2> QED
    BY <2>1, <2>3, FewerOwner
<1> QED
  BY <1>2, <1>3, <1>4, <1>5, <1>6, <1>7 DEF Delivery

\* What the other goroutines do to a connection leaves it with its lane.
LEMMA NextOwner ==
  ASSUME Shape, Owner, [Next]_vars
  PROVE  Owner'
<1>1. connState \in [Conns -> {"unused", "open", "released", "closed"}]
  BY DEF Shape, TypeOK, LaneTypeOK
<1>2. ASSUME UNCHANGED <<lane, laneConn>>,
             \A c \in Conns : connState'[c] = "unused" => connState[c] = "unused"
      PROVE  Owner'
  <2>1. LaneConns'
    BY <1>2 DEF Owner, LaneConns
  <2>2. \A w \in Worktrees, c \in Conns : Uses(w, c)' => Uses(w, c)
    BY <1>2 DEF Uses
  <2> QED
    BY <1>2, <2>1, <2>2, FewerOwner
<1>3. CASE UNCHANGED vars
  BY <1>2, <1>3 DEF vars, laneVars
<1>4. CASE Ingress
  BY <1>2, <1>4 DEF Ingress, Admit, AdmitOverflows, AdmitTooLate, AdmitNotification, Cancel,
                    IngressStops, laneVars
<1>5. CASE Router
  BY <1>2, <1>5 DEF Router, RouteTakes, RouteFails, RouteHandsOver, RouteOverflows, RouteStops,
                    RouteBinds, RouteRefused, laneVars
<1>6. ASSUME NEW w \in Worktrees, Controls(w)
      PROVE  Owner'
  BY <1>2, <1>6 DEF Controls, ControlChecks, ControlExpires, ControlWrites
<1>7. ASSUME NEW c \in Conns, Reader(c) \/ RootsWorker(c) \/ Gopls(c)
      PROVE  Owner'
  <2>1. UNCHANGED <<lane, laneConn>>
    BY <1>7 DEF Reader, ReaderResponds, ReaderErrs, ReaderFailsCalls, ReaderLeaves, RootsWorker,
      RootsReleases, RootsCloses, RootsFailsCalls, Gopls, UpstreamAnswers, laneVars
  <2>2. \/ UNCHANGED connState
        \/ connState' = [connState EXCEPT ![c] = "closed"]
        \/ connState' = [connState EXCEPT ![c] = IF @ = "open" THEN "released" ELSE @]
    BY <1>7 DEF Reader, ReaderResponds, ReaderErrs, ReaderFailsCalls, ReaderLeaves, RootsWorker,
      RootsReleases, RootsCloses, RootsFailsCalls, Gopls, UpstreamAnswers, laneVars
  <2>3. \A d \in Conns : connState'[d] = "unused" => connState[d] = "unused"
    BY <1>1, <2>2
  <2> QED
    BY <1>2, <2>1, <2>3
<1>8. ASSUME NEW t \in Tokens, Timers(t)
      PROVE  Owner'
  BY <1>2, <1>8 DEF Timers, TimerFires, TimerExpires, DeliveryExpires, laneVars
<1>9. CASE SessionFails \/ SessionCloses
  BY <1>2, <1>9 DEF SessionFails, SessionCloses, laneVars
<1> QED
  BY <1>3, <1>4, <1>5, <1>6, <1>7, <1>8, <1>9, DeliveryOwner DEF Next

-----------------------------------------------------------------------------
(* A message moves in one direction.  One that no lane has taken up has    *)
(* always been waiting, from before it was sent.                           *)

Waits(t) == t > minted \/ Routed(t) \/ \E w \in Worktrees : t \in Elements(reqs[w])

\* No message is moved: some may have left where they were.
Stays ==
  /\ UNCHANGED incoming /\ routing' \in {routing, NotRouting}
  /\ minted' \in Int /\ minted <= minted'
  /\ \A w \in Worktrees :
       /\ Elements(reqs'[w]) \subseteq Elements(reqs[w])
       /\ \A t \in Tokens : InLane(w, t)' => InLane(w, t)

\* The steps that move one.
Moves ==
  \/ \E i \in Ids, k \in Sends \ {"notification"} : Admit(i, k)
  \/ AdmitNotification
  \/ RouteTakes
  \/ \E w \in Worktrees : RouteBinds(w)
  \/ RouteHandsOver

\* The delivery goroutine moves the head of its queue to itself.
LEMMA DeliveryStays ==
  ASSUME Shape, NEW w \in Worktrees, Delivery(w)
  PROVE  Stays
<1>1. /\ minted \in Int /\ UNCHANGED <<incoming, routing>>
      /\ \A v \in Worktrees : reqs[v] \in Seq(Tokens)
      /\ lane \in [Worktrees -> LaneState]
  BY DEF Shape, TypeOK, TrackerTypeOK, LaneTypeOK, Delivery, bridgeVars
<1>2. minted' = minted
  BY DEF Delivery, LaneSkips, LaneTakes, LaneGivesUp, LaneDropsNotification, LaneReuses,
     LaneDialFails, LaneBegins, LaneRefused, UpstreamReceives, LaneTooLarge, LaneDelivered,
     LaneWriteFails, LaneDials, FailDelivery, trackerVars
<1>3. CASE LaneSkips(w) \/ LaneTakes(w)
  <2>1. /\ reqs[w] \in Seq(Tokens) /\ reqs[w] # <<>>
        /\ reqs' = [reqs EXCEPT ![w] = Tail(@)]
        /\ lane' \in {lane, [lane EXCEPT ![w] = Attempting(Head(reqs[w]), 1)]}
    BY <1>1, <1>3 DEF LaneSkips, LaneTakes
  <2>2. Elements(Tail(reqs[w])) \subseteq Elements(reqs[w]) /\ Head(reqs[w]) \in Elements(reqs[w])
    BY <2>1, TailElements
  <2>3. \A v \in Worktrees : Elements(reqs'[v]) \subseteq Elements(reqs[v])
    BY <2>1, <2>2 DEF Shape, TypeOK, LaneTypeOK
  <2>4. \A v \in Worktrees, t \in Tokens :
          Held(v, t)' => Held(v, t) \/ (v = w /\ t = Head(reqs[w]))
    BY <1>1, <2>1 DEF Held, Attempting
  <2>5. \A v \in Worktrees, t \in Tokens : InLane(v, t)' => InLane(v, t)
    BY <2>2, <2>3, <2>4 DEF InLane
  <2>6. UNCHANGED incoming /\ routing' \in {routing, NotRouting} /\ minted' \in Int /\ minted <= minted'
    BY <1>1, <1>2
  <2> QED
    BY <2>3, <2>5, <2>6 DEF Stays, InLane
<1>4. CASE LaneGivesUp(w) \/ LaneDropsNotification(w) \/ LaneRefused(w) \/ LaneTooLarge(w)
           \/ LaneDelivered(w)
  <2>1. lane' = [lane EXCEPT ![w] = Idle] /\ UNCHANGED reqs
    BY <1>4 DEF LaneGivesUp, LaneDropsNotification, LaneRefused, LaneTooLarge, LaneDelivered
  <2>2. \A v \in Worktrees, t \in Tokens : Held(v, t)' => Held(v, t)
    BY <1>1, <2>1 DEF Held, Idle
  <2> QED
    BY <1>1, <1>2, <2>1, <2>2 DEF Stays, InLane
<1>5. CASE LaneReuses(w) \/ LaneDialFails(w) \/ LaneBegins(w) \/ UpstreamReceives(w)
           \/ LaneWriteFails(w) \/ \E c \in Conns : LaneDials(w, c)
  <2>1. lane[w].pc # "idle" /\ UNCHANGED reqs
    BY <1>5 DEF LaneReuses, LaneDialFails, LaneBegins, UpstreamReceives, LaneWriteFails, LaneDials,
                Trying, Writing, trackerVars
  <2>2. /\ \A v \in Worktrees \ {w} : lane'[v] = lane[v]
        /\ lane'[w].pc # "idle" => lane'[w].tok = lane[w].tok
    BY <1>1, <1>5 DEF LaneReuses, LaneDialFails, LaneBegins, UpstreamReceives, LaneWriteFails,
                LaneDials, Attempting, Idle, LaneState
  <2>3. \A v \in Worktrees, t \in Tokens : Held(v, t)' => Held(v, t)
    BY <2>1, <2>2 DEF Held
  <2> QED
    BY <1>1, <1>2, <2>1, <2>3 DEF Stays, InLane
<1> QED
  BY <1>3, <1>4, <1>5 DEF Delivery

\* Every step moves a message or none.
LEMMA StepMoves ==
  ASSUME Shape, [Next]_vars
  PROVE  Stays \/ Moves
<1>1. minted \in Int
  BY DEF Shape, TypeOK, TrackerTypeOK
<1>2. ASSUME minted' \in {minted, minted + 1}, UNCHANGED <<incoming, reqs, lane>>,
             routing' \in {routing, NotRouting}
      PROVE  Stays
  BY <1>1, <1>2 DEF Stays, InLane, Held
<1>3. CASE UNCHANGED vars
  BY <1>2, <1>3 DEF vars, trackerVars, laneVars, bridgeVars
<1>4. CASE Ingress
  BY <1>2, <1>4 DEF Ingress, Moves, AdmitOverflows, AdmitTooLate, Cancel, IngressStops, Mint,
                    Finish, trackerVars, laneVars, bridgeVars
<1>5. CASE Router
  BY <1>2, <1>5 DEF Router, Moves, RouteFails, RouteOverflows, RouteStops, RouteRefused,
                    FailRouting, FailDelivery, trackerVars, laneVars
<1>6. ASSUME NEW w \in Worktrees, Controls(w)
      PROVE  Stays
  BY <1>2, <1>6 DEF Controls, ControlChecks, ControlExpires, ControlWrites, trackerVars, bridgeVars
<1>7. ASSUME NEW c \in Conns, Reader(c) \/ RootsWorker(c) \/ Gopls(c)
      PROVE  Stays
  BY <1>2, <1>7 DEF Reader, ReaderResponds, ReaderErrs, ReaderFailsCalls, ReaderLeaves, RootsWorker,
     RootsReleases, RootsCloses, RootsFailsCalls, Gopls, UpstreamAnswers, Finish, FinishResponse,
     trackerVars, laneVars, bridgeVars
<1>8. ASSUME NEW t \in Tokens, Timers(t)
      PROVE  Stays
  BY <1>2, <1>8 DEF Timers, TimerFires, TimerExpires, DeliveryExpires, laneVars, bridgeVars
<1>9. CASE SessionFails \/ SessionCloses
  BY <1>2, <1>9 DEF SessionFails, SessionCloses, ClearRequests, laneVars, bridgeVars
<1> QED
  BY <1>3, <1>4, <1>5, <1>6, <1>7, <1>8, <1>9, DeliveryStays DEF Next

\* A message waits from the start or not at all.
LEMMA StepWaits ==
  ASSUME Shape, [Next]_vars, NEW t \in Tokens, Waits(t)'
  PROVE  Waits(t)
<1>1. /\ minted \in Int /\ t \in Int /\ incoming \in Seq(Tokens) /\ t # NoToken
      /\ \A w \in Worktrees : reqs[w] \in Seq(Tokens)
  BY TrackerAssumption DEF Shape, TypeOK, TrackerTypeOK, LaneTypeOK, BridgeTypeOK, Tokens
<1>2. CASE Stays
  BY <1>1, <1>2 DEF Stays, Waits, Routed, NotRouting
<1>3. ASSUME minted < MaxCalls, minted' = minted + 1, incoming' = Append(incoming, minted + 1),
             UNCHANGED <<routing, reqs>>
      PROVE  Waits(t)
  <2>1. minted + 1 \in Tokens
    BY <1>3, MintType DEF Shape, TypeOK
  <2>2. Elements(incoming') = Elements(incoming) \cup {minted + 1}
    BY <1>1, <1>3, <2>1, AppendElements
  <2> QED
    BY <1>1, <1>3, <2>2 DEF Waits, Routed
<1>4. CASE \E i \in Ids, k \in Sends \ {"notification"} : Admit(i, k)
  BY <1>3, <1>4 DEF Admit, Mint
<1>5. CASE AdmitNotification
  BY <1>3, <1>5 DEF AdmitNotification, Mint, laneVars
<1>6. CASE RouteTakes
  BY <1>1, <1>6, TailElements DEF RouteTakes, NotRouting, Waits, Routed, trackerVars, laneVars
<1>7. ASSUME NEW w \in Worktrees, RouteBinds(w)
      PROVE  Waits(t)
  BY <1>7 DEF RouteBinds, Waits, Routed, laneVars, Shape, TypeOK, BridgeTypeOK
<1>8. CASE RouteHandsOver
  <2>1. PICK w \in Worktrees : w = routing.wt /\ routing.tok \in Tokens
    BY <1>8 DEF RouteHandsOver, Shape, RoutingShape, TypeOK, BridgeTypeOK
  <2>2. Elements(Append(reqs[w], routing.tok)) = Elements(reqs[w]) \cup {routing.tok}
    BY <1>1, <2>1, AppendElements
  <2>3. \A v \in Worktrees : Elements(reqs'[v]) \subseteq Elements(reqs[v]) \cup {routing.tok}
    BY <1>8, <2>1, <2>2 DEF RouteHandsOver, Shape, TypeOK, LaneTypeOK
  <2> QED
    BY <1>1, <1>8, <2>3 DEF RouteHandsOver, NotRouting, Waits, Routed, trackerVars
<1> QED
  BY <1>2, <1>4, <1>5, <1>6, <1>7, <1>8, StepMoves DEF Moves

-----------------------------------------------------------------------------
(* All of this together is inductive. *)

Basis == Shape /\ IdShape /\ Books /\ Alone /\ Owner

\* A session starts with nothing queued and nothing dialled.
LEMMA InitBasis == Init => Basis
<1> SUFFICES ASSUME Init PROVE Basis
  OBVIOUS
<1>1. Shape /\ IdShape /\ Books
  BY InitShape, InitBooks
<1>2. /\ incoming = <<>> /\ routing.tok = NoToken /\ NoToken \notin Tokens /\ NoConn \notin Conns
      /\ \A w \in Worktrees : reqs[w] = <<>> /\ lane[w] = Idle /\ laneConn[w] = NoConn
  BY DEF Init, LaneInit, NotRouting, Tokens, Conns
<1>3. Elements(<<>>) = {} /\ Distinct(<<>>)
  BY DEF Elements, Distinct
<1>4. \A t \in Tokens : ~Routed(t) /\ \A w \in Worktrees : ~Held(w, t) /\ ~InLane(w, t)
  BY <1>2, <1>3 DEF Routed, Held, InLane, Idle
<1>5. Alone
  BY <1>2, <1>3, <1>4 DEF Alone
<1>6. Owner
  BY <1>2 DEF Owner, LaneConns, Uses, Idle
<1> QED
  BY <1>1, <1>5, <1>6 DEF Basis

\* Every step keeps it.
LEMMA NextBasis ==
  ASSUME Basis, [Next]_vars
  PROVE  Basis'
  BY NextShape, NextIds, NextBooks, NextAlone, NextOwner DEF Basis, Shape
=============================================================================
