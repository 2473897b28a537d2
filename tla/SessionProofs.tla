---------------------------- MODULE SessionProofs ----------------------------
(***************************************************************************)
(* What a session asks of the servers, counts, cancels, dials and leaves   *)
(* behind.  The credits of a session, the messages its lanes deliver and   *)
(* the work gopls has are tied together: who a call is owed by, whose      *)
(* operation a connection holds and what gopls was sent agree, so that a   *)
(* result is given to the call it is about.  The kinds of accounting step  *)
(* keep its two tallies the sizes of the tables they count; the lanes and  *)
(* their control workers keep to the connections that are theirs; and a    *)
(* closed session holds nothing.                                           *)
(***************************************************************************)
EXTENDS BridgeProofs


USE DEF NoToken, NoConn, Attempts

\* gopls has been sent t on connection c, and nobody has read its answer.
Has(c, t) == t \in upstream[c] \/ t \in responses[c]

\* No server has heard of t.
Untouched(t) ==
  /\ \A c \in Conns : ~Has(c, t) /\ \A i \in Ids : operations[c][i].tok # t
  /\ \A i \in Ids : awaiting[i].tok = t => awaiting[i].conn = NoConn

\* A message that waits to be delivered is untouched.
Unsent == \A t \in Tokens : Waits(t) => Untouched(t)

\* The message t a lane is delivering: nothing was sent over a connection the
\* lane may still use before the operation began, and the operation stays until
\* it is sent.
Delivering(w, t) ==
  /\ session # "closed"
  /\ lane[w].pc \in {"attempt", "gate"} =>
       /\ \A i \in Ids : awaiting[i].tok = t => awaiting[i].conn = NoConn
       /\ \A c \in Conns : Uses(w, c) => ~Has(c, t) /\ \A i \in Ids : operations[c][i].tok # t
  /\ \A c \in Conns : c = lane[w].conn =>
       /\ Writing(w) => \A i \in Ids : awaiting[i].tok = t => awaiting[i].conn = c
       /\ lane[w].pc \in {"stale", "write"} =>
            ~Has(c, t) /\ (~IsNotification(t) => operations[c][idOf[t]].tok = t)
       /\ lane[w].pc = "written" /\ ~IsNotification(t) /\ operations[c][idOf[t]].tok = t => Has(c, t)

\* A connection nobody dialled has nothing.
Undialled ==
  \A c \in Conns : connState[c] = "unused" =>
    \A t \in Tokens : ~Has(c, t) /\ \A i \in Ids : operations[c][i].tok = NoToken

\* gopls answers what it was asked once.
AnsweredApart == \A c \in Conns : upstream[c] \cap responses[c] = {}

Places ==
  /\ Unsent
  /\ \A w \in Worktrees, t \in Tokens : Held(w, t) => Delivering(w, t)
  /\ Undialled /\ AnsweredApart /\ UpstreamWorkCharged

\* Where a call has been bound: nowhere before the router has routed it, then
\* to the lane that has it.
Bound ==
  \A i \in Ids, t \in Tokens : awaiting[i].tok = t =>
    /\ t \in Elements(incoming) => awaiting[i].wt = NoWorktree
    /\ t = routing.tok => awaiting[i].wt = routing.wt
    /\ \A w \in Worktrees : InLane(w, t) => awaiting[i].wt = w

\* An id nobody is owed is vacant.
VacantClean == \A i \in Ids : awaiting[i].tok = NoToken => awaiting[i] = Vacant

\* An operation is that of a minted call under its own id, charged to a worktree.
OperationsOwn ==
  \A c \in Conns, i \in Ids :
    LET o == operations[c][i] IN
    o.tok # NoToken => o.wt \in Worktrees /\ o.tok <= minted /\ idOf[o.tok] = i

Credit == VacantClean /\ OperationsOwn /\ AbandonedIffDisowned

-----------------------------------------------------------------------------
(* What a step may do to the accounting. *)

\* Nothing.
Rests == UNCHANGED <<awaiting, operations, perWorktree, operationsPerWorktree>>

\* A call is admitted under a free id.
Enters(i) ==
  /\ Admissible(i) /\ Track(i) /\ minted' = minted + 1
  /\ UNCHANGED <<operations, perWorktree, operationsPerWorktree>>

\* The calls of S are claimed.
Claims(S) ==
  /\ Forget(S) /\ operations' = Abandoned(S, operations)
  /\ UNCHANGED operationsPerWorktree

\* The operation under i at c is resolved, and its call claimed if c owes it.
Resolves(c, i, S) ==
  /\ S \subseteq {i} \cap Outstanding /\ (awaiting[i].conn = c => i \in S)
  /\ EndOperation(c, i) /\ Forget(S) /\ operations' = Abandoned(S, Ended(c, i))

\* The call t, not bound before, is charged to w.
Binds(t, w) ==
  /\ Bindable(t, w) /\ Bind(t, w) /\ \A i \in Owned(t) : awaiting[i].wt = NoWorktree
  /\ LaneAvailable(w)
  /\ UNCHANGED <<operations, operationsPerWorktree>>

\* An operation is begun for t, which no connection owes, by the lane that has the
\* gate and the connection.
Begins(t, c, w) ==
  /\ Held(w, t) /\ lane[w].conn = c /\ GateFree(w)
  /\ Reservable(t, c, w) /\ BeginOperation(t, c, w)
  /\ \A i \in Owned(t) : awaiting[i].conn = NoConn
  /\ UNCHANGED perWorktree

\* A failed write gives its call back.
Retries(t, c) ==
  Retryable(t, c) /\ Retry(t, c) /\ UNCHANGED <<perWorktree, operationsPerWorktree>>

\* The session closes.
Clears ==
  /\ Forget(Outstanding)
  /\ operations' = [c \in Conns |-> [i \in Ids |-> NoOperation]]
  /\ operationsPerWorktree' = [w \in Worktrees |-> 0]

Accounts ==
  \/ Rests
  \/ \E i \in Ids : Enters(i)
  \/ \E S \in SUBSET Outstanding : Claims(S)
  \/ \E c \in Conns, i \in Ids, S \in SUBSET Outstanding : Resolves(c, i, S)
  \/ \E t \in Tokens, w \in Worktrees : Binds(t, w)
  \/ \E t \in Tokens, c \in Conns, w \in Worktrees : Begins(t, c, w)
  \/ \E t \in Tokens, c \in Conns : Retries(t, c)
  \/ Clears

\* Tokens are minted one after another, and keep their ids.
Grows == minted' \in Nat /\ minted <= minted' /\ \A t \in Tokens : t <= minted => idOf'[t] = idOf[t]

\* They do in every step.
LEMMA StepGrows ==
  ASSUME Basis, [Next]_vars
  PROVE  Grows
<1>1. minted \in Nat /\ Tokens \subseteq Int /\ idOf \in [Tokens -> Ids \cup {NoId}]
  BY TrackerAssumption DEF Basis, Shape, TypeOK, TrackerTypeOK, Tokens
<1>2. ASSUME NEW i \in Ids, Opens(i)
      PROVE  Grows
  BY <1>1, <1>2 DEF Opens, Grows
<1> QED
  BY <1>1, <1>2, StepKinds DEF Basis, Books, Shape, Grows, Passes, Settles, Closes

\* The ids owned by a token are one or none.
LEMMA OneOwned ==
  ASSUME Basis, NEW t \in Tokens
  PROVE  /\ Owned(t) = {} \/ Owned(t) = {idOf[t]}
         /\ Owned(t) # {} => t <= minted /\ idOf[t] \in Ids /\ idOf[t] \in Outstanding
  BY DEF Basis, Books, Ledger, Owned, Outstanding

\* What the router does to the accounting.
LEMMA RouterAccounts ==
  ASSUME Basis, Bound, Router
  PROVE  Accounts
<1>1. CASE RouteTakes \/ RouteHandsOver \/ RouteStops
  BY <1>1 DEF RouteTakes, RouteHandsOver, RouteStops, trackerVars, Accounts, Rests
<1>2. ASSUME FailRouting
      PROVE  Accounts
  <2>1. Owned(routing.tok) \in SUBSET Outstanding /\ Claims(Owned(routing.tok))
    BY <1>2, OwnedOutstanding DEF FailRouting, FailDelivery, Remove, Claims
  <2> QED
    BY <2>1 DEF Accounts
<1>3. ASSUME NEW w \in Worktrees, RouteBinds(w)
      PROVE  Accounts
  <2>1. routing.tok \in Tokens /\ routing.wt = NoWorktree
    BY <1>3 DEF RouteBinds, Resolving, Basis, Shape, TypeOK, BridgeTypeOK
  <2>2. CASE IsNotification(routing.tok)
    BY <1>3, <2>2 DEF RouteBinds, Accounts, Rests
  <2>3. CASE ~IsNotification(routing.tok)
    <3>1. \A i \in Owned(routing.tok) : awaiting[i].wt = NoWorktree
      BY <2>1 DEF Bound, Owned, Outstanding
    <3>2. Binds(routing.tok, w)
      BY <1>3, <2>1, <2>3, <3>1 DEF RouteBinds, Binds, MayBind
    <3> QED
      BY <2>1, <3>2 DEF Accounts
  <2> QED
    BY <2>2, <2>3
<1> QED
  BY <1>1, <1>2, <1>3 DEF Router, RouteFails, RouteOverflows, RouteRefused

\* A message the lane takes up has been placed nowhere.
LEMMA TakesNothing ==
  ASSUME Basis, Unsent, NEW w \in Worktrees, LaneTakes(w)
  PROVE  UNCHANGED awaiting
<1>1. reqs[w] \in Seq(Tokens) /\ reqs[w] # <<>> /\ awaiting \in [Ids -> Owed]
  BY DEF LaneTakes, Basis, Shape, TypeOK, TrackerTypeOK, LaneTypeOK
<1>2. PICK t \in Tokens : t = Head(reqs[w]) /\ t \in Elements(reqs[w])
  BY <1>1, TailElements
<1>3. \A i \in Owned(t) : awaiting[i].conn = NoConn
  BY <1>2 DEF Unsent, Waits, Untouched, Owned, Outstanding
<1>4. \A i \in Ids : i \in Owned(t) => [awaiting[i] EXCEPT !.conn = NoConn] = awaiting[i]
  BY <1>1, <1>3 DEF Owed
<1>5. awaiting' = [i \in Ids |-> awaiting[i]]
  BY <1>2, <1>4 DEF LaneTakes, Unplace
<1> QED
  BY <1>1, <1>5

\* What a lane does.
LEMMA DeliveryAccounts ==
  ASSUME Basis, Places, Credit, NEW w \in Worktrees, Delivery(w)
  PROVE  Accounts
<1>1. CASE LaneSkips(w) \/ LaneDropsNotification(w) \/ LaneReuses(w) \/ LaneDialFails(w)
           \/ UpstreamReceives(w) \/ LaneDelivered(w) \/ \E c \in Conns : LaneDials(w, c)
  BY <1>1 DEF LaneSkips, LaneDropsNotification, LaneReuses, LaneDialFails,
     UpstreamReceives, LaneDelivered, LaneDials, trackerVars, Accounts, Rests
<1>2. CASE LaneTakes(w)
  BY <1>2, TakesNothing DEF LaneTakes, Accounts, Rests, Places
<1>3. CASE LaneGivesUp(w) \/ LaneRefused(w)
  <2>1. Owned(lane[w].tok) \in SUBSET Outstanding /\ Claims(Owned(lane[w].tok))
    BY <1>3, OwnedOutstanding DEF LaneGivesUp, LaneRefused, FailDelivery, Remove, Claims
  <2> QED
    BY <2>1 DEF Accounts
<1>4. CASE LaneTooLarge(w)
  <2>1. CASE IsNotification(lane[w].tok)
    BY <1>4, <2>1 DEF LaneTooLarge, Accounts, Rests
  <2>2. CASE ~IsNotification(lane[w].tok)
    <3>1. PICK t \in Tokens, c \in Conns : t = lane[w].tok /\ c = lane[w].conn
      BY <1>4 DEF LaneTooLarge, Basis, Shape, LaneShape
    <3>2. idOf[t] \in Ids
      BY <2>2, <3>1 DEF IsNotification, Basis, Shape, TypeOK, TrackerTypeOK
    <3>3. operations[c][idOf[t]].tok = t
      BY <1>4, <2>2, <3>1 DEF LaneTooLarge, Places, Delivering, Held
    <3>4. Owned(t) \in SUBSET Outstanding /\ Owned(t) \subseteq {idOf[t]}
      BY OneOwned, OwnedOutstanding
    <3>5. awaiting[idOf[t]].conn = c => idOf[t] \in Owned(t)
      BY <3>1, <3>2, <3>3 DEF Credit, AbandonedIffDisowned, Owned, Outstanding, Tokens
    <3>6. Resolves(c, idOf[t], Owned(t))
      BY <1>4, <2>2, <3>1, <3>4, <3>5 DEF LaneTooLarge, Resolves, Remove
    <3> QED
      BY <3>2, <3>4, <3>6 DEF Accounts
  <2> QED
    BY <2>1, <2>2
<1>5. CASE LaneBegins(w)
  <2>1. CASE IsNotification(lane[w].tok)
    BY <1>5, <2>1 DEF LaneBegins, Accounts, Rests
  <2>2. CASE ~IsNotification(lane[w].tok)
    <3>1. PICK t \in Tokens, c \in Conns : t = lane[w].tok /\ c = lane[w].conn
      BY <1>5 DEF LaneBegins, Basis, Shape, LaneShape
    <3>2. \A i \in Owned(t) : awaiting[i].conn = NoConn
      BY <1>5, <3>1 DEF LaneBegins, Places, Delivering, Held, Owned, Outstanding
    <3>3. Begins(t, c, w)
      BY <1>5, <2>2, <3>1, <3>2 DEF LaneBegins, Begins, Held
    <3> QED
      BY <3>3 DEF Accounts
  <2> QED
    BY <2>1, <2>2
<1>6. CASE LaneWriteFails(w)
  <2>1. PICK t \in Tokens, c \in Conns : t = lane[w].tok /\ c = lane[w].conn
    BY <1>6 DEF LaneWriteFails, Writing, Basis, Shape, LaneShape
  <2>2. Rests \/ Retries(t, c)
    BY <1>6, <2>1 DEF LaneWriteFails, Rests, Retries
  <2> QED
    BY <2>2 DEF Accounts
<1> QED
  BY <1>1, <1>2, <1>3, <1>4, <1>5, <1>6 DEF Delivery

\* What a connection's two goroutines do.
LEMMA ReaderAccounts ==
  ASSUME Basis, Credit, NEW c \in Conns, Reader(c) \/ RootsWorker(c)
  PROVE  Accounts
<1>1. OwedBy(c) \in SUBSET Outstanding
  BY DEF OwedBy
<1>2. CASE ReaderResponds(c)
  <2>1. PICK t \in responses[c] : FinishResponse(c, t)
    BY <1>2 DEF ReaderResponds
  <2>2. t \in Tokens /\ idOf[t] \in Ids
    BY <2>1 DEF Basis, IdShape, Shape, TypeOK, TrackerTypeOK, LaneTypeOK
  <2>3. awaiting[idOf[t]].conn = c => idOf[t] \in Outstanding
    BY <2>2 DEF Outstanding, Credit, VacantClean, Vacant, Conns
  <2>4. Resolves(c, idOf[t], {idOf[t]} \cap OwedBy(c))
    BY <2>1, <2>3 DEF FinishResponse, Resolves, Remove, OwedBy
  <2>5. {idOf[t]} \cap OwedBy(c) \in SUBSET Outstanding
    BY <1>1
  <2> QED
    BY <2>2, <2>4, <2>5 DEF Accounts
<1>3. CASE ReaderFailsCalls(c) \/ RootsFailsCalls(c)
  <2>1. Claims(OwedBy(c))
    BY <1>3 DEF ReaderFailsCalls, RootsFailsCalls, Finish, Remove, Claims
  <2> QED
    BY <1>1, <2>1 DEF Accounts
<1>4. CASE ReaderErrs(c) \/ ReaderLeaves(c) \/ RootsReleases(c) \/ RootsCloses(c)
  BY <1>4 DEF ReaderErrs, ReaderLeaves, RootsReleases, RootsCloses, trackerVars, Accounts, Rests
<1> QED
  BY <1>2, <1>3, <1>4 DEF Reader, RootsWorker

\* Every step does one of these.
LEMMA StepAccounts ==
  ASSUME Basis, Bound, Places, Credit, [Next]_vars
  PROVE  Accounts
<1>1. CASE UNCHANGED vars
  BY <1>1 DEF vars, trackerVars, Accounts, Rests
<1>2. CASE Ingress
  <2>1. ASSUME NEW i \in Ids, NEW k \in Sends \ {"notification"}, Admit(i, k) \/ AdmitTooLate(i, k)
        PROVE  Enters(i)
    BY <2>1 DEF Admit, AdmitTooLate, Mint, Enters
  <2>2. CASE AdmitNotification \/ IngressStops
             \/ \E i \in Ids, k \in Sends \ {"notification"} : AdmitOverflows(i, k)
    BY <2>2 DEF AdmitNotification, IngressStops, AdmitOverflows, trackerVars, Accounts, Rests
  <2>3. ASSUME NEW i \in Ids, Cancel(i)
        PROVE  {i} \in SUBSET Outstanding /\ Claims({i})
    BY <2>3 DEF Cancel, Finish, Remove, Claims
  <2> QED
    BY <1>2, <2>1, <2>2, <2>3 DEF Ingress, Accounts
<1>3. ASSUME NEW w \in Worktrees, Controls(w)
      PROVE  Accounts
  BY <1>3 DEF Controls, ControlChecks, ControlExpires, ControlWrites, trackerVars, Accounts, Rests
<1>4. ASSUME NEW c \in Conns, Gopls(c)
      PROVE  Accounts
  BY <1>4 DEF Gopls, UpstreamAnswers, trackerVars, Accounts, Rests
<1>5. ASSUME NEW t \in Tokens, Timers(t)
      PROVE  Accounts
  <2>1. CASE TimerExpires(t)
    <3>1. Claims(Owned(t)) /\ Owned(t) \in SUBSET Outstanding
      BY <2>1, OwnedOutstanding DEF TimerExpires, Claims
    <3> QED
      BY <3>1 DEF Accounts
  <2>2. CASE TimerFires(t) \/ DeliveryExpires(t)
    BY <2>2 DEF TimerFires, DeliveryExpires, Accounts, Rests
  <2> QED
    BY <1>5, <2>1, <2>2 DEF Timers
<1>6. CASE SessionFails
  BY <1>6 DEF SessionFails, Accounts, Rests
<1>7. CASE SessionCloses
  BY <1>7 DEF SessionCloses, ClearRequests, Remove, Clears, Accounts
<1> QED
  BY <1>1, <1>2, <1>3, <1>4, <1>5, <1>6, <1>7, RouterAccounts, DeliveryAccounts, ReaderAccounts
     DEF Next

-----------------------------------------------------------------------------
(* An operation is abandoned exactly when its call has left.               *)

\* Abandoned keeps every operation, and marks those of S at the connection
\* that owes them.
LEMMA AbandonedMarks ==
  ASSUME NEW S, NEW ops \in [Conns -> [Ids -> Operation]]
  PROVE  \A c \in Conns, i \in Ids :
           /\ Abandoned(S, ops)[c][i].tok = ops[c][i].tok
           /\ Abandoned(S, ops)[c][i].wt = ops[c][i].wt
           /\ Abandoned(S, ops)[c][i].abandoned <=>
                \/ i \in S /\ awaiting[i].conn = c /\ ops[c][i].tok # NoToken
                \/ ops[c][i].abandoned
<1> TAKE c \in Conns, i \in Ids
<1>1. PICK o \in Operation : o = ops[c][i]
  OBVIOUS
<1>2. PICK p : p = Abandoned(S, ops)[c][i]
  OBVIOUS
<1>3. p = IF i \in S /\ awaiting[i].conn = c /\ o.tok # NoToken
          THEN [o EXCEPT !.abandoned = TRUE] ELSE o
  BY <1>1, <1>2 DEF Abandoned
<1>4. /\ [o EXCEPT !.abandoned = TRUE].tok = o.tok
      /\ [o EXCEPT !.abandoned = TRUE].wt = o.wt
      /\ [o EXCEPT !.abandoned = TRUE].abandoned = TRUE
  BY DEF Operation
<1>5. p.tok = o.tok /\ p.wt = o.wt
  BY <1>3, <1>4
<1>6. p.abandoned <=> (i \in S /\ awaiting[i].conn = c /\ o.tok # NoToken) \/ o.abandoned
  BY <1>3, <1>4
<1> QED
  BY <1>1, <1>2, <1>5, <1>6

\* Operations that stay as they were, or go, stay their owners'.
LEMMA SameOperations ==
  ASSUME Basis, OperationsOwn, Grows,
         \A c \in Conns, i \in Ids :
           operations'[c][i].tok # NoToken =>
             operations'[c][i].tok = operations[c][i].tok /\ operations'[c][i].wt = operations[c][i].wt
  PROVE  OperationsOwn'
<1>1. operations \in [Conns -> [Ids -> Operation]] /\ minted \in Nat /\ Tokens \subseteq Int
  BY DEF Basis, Shape, TypeOK, TrackerTypeOK, Tokens
<1> SUFFICES ASSUME NEW c \in Conns, NEW i \in Ids, operations'[c][i].tok # NoToken
             PROVE  /\ operations'[c][i].wt \in Worktrees
                    /\ operations'[c][i].tok <= minted' /\ idOf'[operations'[c][i].tok] = i
  BY DEF OperationsOwn
<1>2. operations[c][i] \in Operation /\ operations[c][i].tok # NoToken
  BY <1>1
<1>3. PICK t \in Tokens : t = operations[c][i].tok
  BY <1>2 DEF Operation
<1>4. t <= minted /\ idOf[t] = i /\ operations[c][i].wt \in Worktrees
  BY <1>3 DEF OperationsOwn
<1> QED
  BY <1>1, <1>3, <1>4 DEF Grows

\* Claiming the calls of S abandons their operations.
LEMMA ClaimsCredit ==
  ASSUME Basis, Credit, Grows, NEW S \in SUBSET Outstanding, Claims(S)
  PROVE  Credit'
<1>1. operations \in [Conns -> [Ids -> Operation]]
  BY DEF Basis, Shape, TypeOK, TrackerTypeOK, Tokens
<1>2. \A i \in Ids : awaiting'[i] = IF i \in S THEN Vacant ELSE awaiting[i]
  BY DEF Claims, Forget
<1>3. \A c \in Conns, i \in Ids :
        /\ operations'[c][i].tok = operations[c][i].tok
        /\ operations'[c][i].wt = operations[c][i].wt
        /\ operations'[c][i].abandoned <=>
             \/ i \in S /\ awaiting[i].conn = c /\ operations[c][i].tok # NoToken
             \/ operations[c][i].abandoned
  BY <1>1, AbandonedMarks DEF Claims
<1>4. OperationsOwn'
  BY <1>3, SameOperations DEF Credit
<1>5. VacantClean'
  BY <1>2 DEF Credit, VacantClean
<1>6. AbandonedIffDisowned'
  BY <1>2, <1>3 DEF Credit, AbandonedIffDisowned, Vacant, Conns
<1> QED
  BY <1>4, <1>5, <1>6 DEF Credit

\* Resolving one leaves none there, and abandons none but its call's.
LEMMA ResolvesCredit ==
  ASSUME Basis, Credit, Grows, NEW c \in Conns, NEW i \in Ids, NEW S, Resolves(c, i, S)
  PROVE  Credit'
<1>1. operations \in [Conns -> [Ids -> Operation]]
  BY DEF Basis, Shape, TypeOK, TrackerTypeOK, Tokens
<1>2. \A j \in Ids : awaiting'[j] = IF j \in S THEN Vacant ELSE awaiting[j]
  BY DEF Resolves, Forget
<1>3. Ended(c, i) \in [Conns -> [Ids -> Operation]]
  BY EndOperationType DEF Resolves, Basis, Shape, TypeOK
<1>4. \A d \in Conns, j \in Ids :
        Ended(c, i)[d][j] = IF d = c /\ j = i THEN NoOperation ELSE operations[d][j]
  BY <1>1 DEF Ended
<1>5. \A d \in Conns, j \in Ids :
        /\ operations'[d][j].tok = Ended(c, i)[d][j].tok
        /\ operations'[d][j].wt = Ended(c, i)[d][j].wt
        /\ operations'[d][j].abandoned <=>
             \/ j \in S /\ awaiting[j].conn = d /\ Ended(c, i)[d][j].tok # NoToken
             \/ Ended(c, i)[d][j].abandoned
  BY <1>3, AbandonedMarks DEF Resolves
<1>6. OperationsOwn'
  BY <1>4, <1>5, SameOperations DEF Credit, NoOperation
<1>7. VacantClean'
  BY <1>2 DEF Credit, VacantClean
<1>8. S \subseteq {i} /\ (awaiting[i].conn = c => i \in S)
  BY DEF Resolves
<1>9. AbandonedIffDisowned'
  <2> SUFFICES ASSUME NEW d \in Conns, NEW j \in Ids
               PROVE  /\ operations'[d][j].tok # NoToken =>
                           (operations'[d][j].abandoned <=>
                              ~(awaiting'[j].tok = operations'[d][j].tok /\ awaiting'[j].conn = d))
                      /\ awaiting'[j].conn = d => operations'[d][j].tok = awaiting'[j].tok
    BY DEF AbandonedIffDisowned
  <2>1. CASE d = c /\ j = i
    <3>1. awaiting'[j].conn # d /\ operations'[d][j].tok = NoToken
      BY <1>2, <1>4, <1>5, <1>8, <2>1 DEF Vacant, Conns, NoOperation
    <3> QED
      BY <3>1
  <2>2. CASE ~(d = c /\ j = i)
    BY <1>2, <1>4, <1>5, <2>2 DEF Credit, AbandonedIffDisowned, Vacant, Conns
  <2> QED
    BY <2>1, <2>2
<1> QED
  BY <1>6, <1>7, <1>9 DEF Credit

\* A call that is bound, or admitted, keeps its operation or has none.
LEMMA BindsCredit ==
  ASSUME Basis, Credit, Grows, NEW t \in Tokens, NEW w \in Worktrees, Binds(t, w)
  PROVE  Credit'
<1>1. awaiting \in [Ids -> Owed] /\ UNCHANGED operations
  BY DEF Binds, Basis, Shape, TypeOK, TrackerTypeOK
<1>2. \A i \in Ids : awaiting'[i].tok = awaiting[i].tok /\ awaiting'[i].conn = awaiting[i].conn
  BY <1>1 DEF Binds, Bind, Owed
<1>3. \A i \in Ids : awaiting[i].tok = NoToken => awaiting'[i] = awaiting[i]
  BY <1>1 DEF Binds, Bind, Owned, Outstanding
<1>4. OperationsOwn'
  BY <1>1, SameOperations DEF Credit
<1>5. VacantClean'
  BY <1>2, <1>3 DEF Credit, VacantClean
<1>6. AbandonedIffDisowned'
  BY <1>1, <1>2 DEF Credit, AbandonedIffDisowned
<1> QED
  BY <1>4, <1>5, <1>6 DEF Credit

\* A newly admitted call is new to every connection.
LEMMA EntersCredit ==
  ASSUME Basis, Credit, Grows, NEW i \in Ids, Enters(i)
  PROVE  Credit'
<1>1. /\ awaiting \in [Ids -> Owed] /\ UNCHANGED operations /\ minted \in Nat
      /\ operations \in [Conns -> [Ids -> Operation]] /\ Tokens \subseteq Int
      /\ minted + 1 # NoToken
  BY DEF Enters, Basis, Shape, TypeOK, TrackerTypeOK, Tokens
<1>2. /\ awaiting[i] = Vacant /\ awaiting'[i].tok = minted + 1 /\ awaiting'[i].conn = NoConn
      /\ \A j \in Ids \ {i} : awaiting'[j] = awaiting[j]
  BY <1>1 DEF Enters, Track, Vacant, Admissible, Credit, VacantClean
<1>3. \A c \in Conns : operations[c][i].tok # minted + 1
  <2> SUFFICES ASSUME NEW c \in Conns, operations[c][i].tok = minted + 1
               PROVE  FALSE
    OBVIOUS
  <2>1. minted + 1 <= minted
    BY <1>1 DEF Credit, OperationsOwn
  <2> QED
    BY <1>1, <2>1
<1>4. OperationsOwn'
  BY <1>1, SameOperations DEF Credit
<1>5. VacantClean'
  BY <1>1, <1>2 DEF Credit, VacantClean
<1>6. AbandonedIffDisowned'
  <2> SUFFICES ASSUME NEW c \in Conns, NEW j \in Ids
               PROVE  /\ operations[c][j].tok # NoToken =>
                           (operations[c][j].abandoned <=>
                              ~(awaiting'[j].tok = operations[c][j].tok /\ awaiting'[j].conn = c))
                      /\ awaiting'[j].conn = c => operations[c][j].tok = awaiting'[j].tok
    BY <1>1 DEF AbandonedIffDisowned
  <2>1. CASE j = i
    <3>1. awaiting'[j].conn # c /\ awaiting[j].conn # c
      BY <1>2, <2>1 DEF Vacant, Conns
    <3> QED
      BY <3>1 DEF Credit, AbandonedIffDisowned
  <2>2. CASE j # i
    BY <1>2, <2>2 DEF Credit, AbandonedIffDisowned
  <2> QED
    BY <2>1, <2>2
<1> QED
  BY <1>4, <1>5, <1>6 DEF Credit

\* An operation begun is its call's, and no other connection owes the call.
LEMMA BeginsCredit ==
  ASSUME Basis, Credit, Grows, NEW t \in Tokens, NEW c \in Conns, NEW w \in Worktrees,
         Begins(t, c, w)
  PROVE  Credit'
<1>1. /\ awaiting \in [Ids -> Owed] /\ minted \in Nat
      /\ operations \in [Conns -> [Ids -> Operation]] /\ Tokens \subseteq Int
      /\ NoConn \notin Conns
  BY DEF Basis, Shape, TypeOK, TrackerTypeOK, Tokens, Conns
<1>2. PICK i \in Ids : i = idOf[t] /\ Owned(t) = {i} /\ t <= minted
  BY OneOwned DEF Begins, Reservable
<1>3. awaiting[i].tok = t /\ awaiting[i].conn = NoConn /\ operations[c][i].tok = NoToken
  BY <1>2 DEF Begins, Reservable, Owned
<1>4. /\ awaiting'[i].tok = t /\ awaiting'[i].conn = c
      /\ \A j \in Ids \ {i} : awaiting'[j] = awaiting[j]
  BY <1>1, <1>2, <1>3 DEF Begins, BeginOperation, Owed
<1>5. operations' = [operations EXCEPT ![c][i] = [tok |-> t, wt |-> w, abandoned |-> FALSE]]
  BY <1>2 DEF Begins, BeginOperation
<1>6. /\ operations'[c][i].tok = t /\ operations'[c][i].wt = w /\ ~operations'[c][i].abandoned
      /\ \A d \in Conns, j \in Ids : d # c \/ j # i => operations'[d][j] = operations[d][j]
  BY <1>1, <1>5
<1>7. VacantClean'
  BY <1>4, <1>1 DEF Credit, VacantClean, Tokens
<1>8. OperationsOwn'
  <2> SUFFICES ASSUME NEW d \in Conns, NEW j \in Ids, operations'[d][j].tok # NoToken
               PROVE  /\ operations'[d][j].wt \in Worktrees
                      /\ operations'[d][j].tok <= minted' /\ idOf'[operations'[d][j].tok] = j
    BY DEF OperationsOwn
  <2>1. CASE d = c /\ j = i
    BY <1>1, <1>2, <1>6, <2>1 DEF Grows
  <2>2. CASE ~(d = c /\ j = i)
    <3>1. operations'[d][j] = operations[d][j] /\ operations[d][j] \in Operation
      BY <1>1, <1>6, <2>2
    <3>2. PICK u \in Tokens : u = operations[d][j].tok
      BY <3>1 DEF Operation
    <3>3. u <= minted /\ idOf[u] = j /\ operations[d][j].wt \in Worktrees
      BY <3>1, <3>2 DEF Credit, OperationsOwn
    <3> QED
      BY <1>1, <3>1, <3>2, <3>3 DEF Grows
  <2> QED
    BY <2>1, <2>2
<1>9. AbandonedIffDisowned'
  <2> SUFFICES ASSUME NEW d \in Conns, NEW j \in Ids
               PROVE  /\ operations'[d][j].tok # NoToken =>
                           (operations'[d][j].abandoned <=>
                              ~(awaiting'[j].tok = operations'[d][j].tok /\ awaiting'[j].conn = d))
                      /\ awaiting'[j].conn = d => operations'[d][j].tok = awaiting'[j].tok
    BY DEF AbandonedIffDisowned
  <2>1. CASE j # i
    BY <1>4, <1>6, <2>1 DEF Credit, AbandonedIffDisowned
  <2>2. CASE j = i /\ d = c
    BY <1>4, <1>6, <2>2
  <2>3. CASE j = i /\ d # c
    BY <1>1, <1>3, <1>4, <1>6, <2>3 DEF Credit, AbandonedIffDisowned
  <2> QED
    BY <2>1, <2>2, <2>3
<1> QED
  BY <1>7, <1>8, <1>9 DEF Credit

\* A call a failed write gives back leaves its operation abandoned.
LEMMA RetriesCredit ==
  ASSUME Basis, Credit, Grows, NEW t \in Tokens, NEW c \in Conns, Retries(t, c)
  PROVE  Credit'
<1>1. /\ awaiting \in [Ids -> Owed] /\ operations \in [Conns -> [Ids -> Operation]]
      /\ NoConn \notin Conns
  BY DEF Basis, Shape, TypeOK, TrackerTypeOK, Conns
<1>2. PICK i \in Ids : i = idOf[t] /\ Owned(t) = {i}
  BY OneOwned DEF Retries, Retryable
<1>3. awaiting[i].tok = t /\ awaiting[i].conn = c
  BY <1>2 DEF Retries, Retryable, Owned
<1>4. operations[c][i].tok = t /\ t # NoToken
  BY <1>3 DEF Credit, AbandonedIffDisowned, Tokens
<1>5. /\ awaiting'[i].tok = t /\ awaiting'[i].conn = NoConn
      /\ \A j \in Ids \ {i} : awaiting'[j] = awaiting[j]
  BY <1>1, <1>2, <1>3 DEF Retries, Retry, Unplace, Owed
<1>6. operations' = [operations EXCEPT ![c][i].abandoned = TRUE]
  BY <1>2, <1>4 DEF Retries, Retry
<1>7. operations[c][i] \in Operation
  BY <1>1
<1>8. /\ operations'[c][i].tok = t /\ operations'[c][i].wt = operations[c][i].wt
      /\ operations'[c][i].abandoned
      /\ \A d \in Conns, j \in Ids : d # c \/ j # i => operations'[d][j] = operations[d][j]
  BY <1>1, <1>4, <1>6, <1>7 DEF Operation
<1>9. OperationsOwn'
  BY <1>4, <1>8, SameOperations DEF Credit
<1>10. VacantClean'
  BY <1>4, <1>5 DEF Credit, VacantClean
<1>11. AbandonedIffDisowned'
  <2> SUFFICES ASSUME NEW d \in Conns, NEW j \in Ids
               PROVE  /\ operations'[d][j].tok # NoToken =>
                           (operations'[d][j].abandoned <=>
                              ~(awaiting'[j].tok = operations'[d][j].tok /\ awaiting'[j].conn = d))
                      /\ awaiting'[j].conn = d => operations'[d][j].tok = awaiting'[j].tok
    BY DEF AbandonedIffDisowned
  <2>1. CASE j # i
    BY <1>5, <1>8, <2>1 DEF Credit, AbandonedIffDisowned
  <2>2. CASE j = i /\ d = c
    BY <1>1, <1>5, <1>8, <2>2
  <2>3. CASE j = i /\ d # c
    BY <1>1, <1>3, <1>5, <1>8, <2>3 DEF Credit, AbandonedIffDisowned
  <2> QED
    BY <2>1, <2>2, <2>3
<1> QED
  BY <1>9, <1>10, <1>11 DEF Credit

\* Every step keeps the credits.
LEMMA NextCredit ==
  ASSUME Basis, Bound, Places, Credit, [Next]_vars
  PROVE  Credit'
<1>1. Grows /\ Accounts
  BY StepGrows, StepAccounts
<1>2. CASE Rests
  <2>1. OperationsOwn'
    BY <1>1, <1>2, SameOperations DEF Rests, Credit
  <2> QED
    BY <1>2, <2>1 DEF Rests, Credit, VacantClean, AbandonedIffDisowned
<1>3. CASE Clears
  <2>1. \A i \in Ids : awaiting'[i] = Vacant
    <3>1. \A i \in Ids : i \notin Outstanding => awaiting[i] = Vacant
      BY DEF Credit, VacantClean, Outstanding
    <3> QED
      BY <1>3, <3>1 DEF Clears, Forget
  <2>2. \A c \in Conns, i \in Ids : operations'[c][i] = NoOperation
    BY <1>3 DEF Clears
  <2> QED
    BY <2>1, <2>2 DEF Credit, VacantClean, OperationsOwn, AbandonedIffDisowned, NoOperation, Vacant,
                      Conns
<1> QED
  BY <1>1, <1>2, <1>3, EntersCredit, ClaimsCredit, ResolvesCredit, BindsCredit, BeginsCredit,
     RetriesCredit DEF Accounts

-----------------------------------------------------------------------------
(* Where a call is bound to. *)

\* A call stays bound where it was, or leaves.
Steady ==
  \A i \in Ids : \/ awaiting'[i] = Vacant
                 \/ awaiting'[i].tok = awaiting[i].tok /\ awaiting'[i].wt = awaiting[i].wt

\* Claiming calls leaves the others where they are.
LEMMA ForgetSteady ==
  ASSUME NEW S, Forget(S)
  PROVE  Steady
  BY DEF Forget, Steady

\* Only ingress and the router do otherwise.
LEMMA StepSteady ==
  ASSUME Basis, [Next]_vars
  PROVE  \/ Steady
         \/ \E i \in Ids, k \in Sends \ {"notification"} : Admit(i, k) \/ AdmitTooLate(i, k)
         \/ \E w \in Worktrees : RouteBinds(w)
<1>1. awaiting \in [Ids -> Owed]
  BY DEF Basis, Shape, TypeOK, TrackerTypeOK
<1>2. ASSUME UNCHANGED awaiting
      PROVE  Steady
  BY <1>2 DEF Steady
<1>3. CASE UNCHANGED vars
  BY <1>2, <1>3 DEF vars, trackerVars
<1>4. CASE Ingress
  BY <1>2, <1>4, ForgetSteady
     DEF Ingress, AdmitOverflows, AdmitNotification, IngressStops, Cancel, Finish, Remove, trackerVars
<1>5. CASE Router
  BY <1>2, <1>5, ForgetSteady
     DEF Router, RouteTakes, RouteFails, RouteHandsOver, RouteOverflows, RouteStops, RouteRefused,
         FailRouting, FailDelivery, Remove, trackerVars
<1>6. ASSUME NEW w \in Worktrees, Delivery(w)
      PROVE  Steady
  <2>1. CASE LaneSkips(w) \/ LaneDropsNotification(w) \/ LaneReuses(w) \/ LaneDialFails(w)
             \/ UpstreamReceives(w) \/ LaneDelivered(w) \/ \E c \in Conns : LaneDials(w, c)
    BY <1>2, <2>1 DEF LaneSkips, LaneDropsNotification, LaneReuses, LaneDialFails,
       UpstreamReceives, LaneDelivered, LaneDials, trackerVars
  <2>2. CASE LaneTakes(w)
    BY <1>1, <2>2 DEF LaneTakes, Unplace, Owed, Steady
  <2>3. CASE LaneGivesUp(w) \/ LaneRefused(w)
    BY <2>3, ForgetSteady DEF LaneGivesUp, LaneRefused, FailDelivery, Remove
  <2>4. CASE LaneTooLarge(w)
    BY <1>2, <2>4, ForgetSteady DEF LaneTooLarge, Remove
  <2>5. CASE LaneBegins(w)
    BY <1>1, <2>5 DEF LaneBegins, BeginOperation, Owed, Steady
  <2>6. CASE LaneWriteFails(w)
    BY <1>1, <2>6 DEF LaneWriteFails, Retry, Unplace, Owed, Steady
  <2> QED
    BY <1>6, <2>1, <2>2, <2>3, <2>4, <2>5, <2>6 DEF Delivery
<1>7. ASSUME NEW w \in Worktrees, Controls(w)
      PROVE  Steady
  BY <1>2, <1>7 DEF Controls, ControlChecks, ControlExpires, ControlWrites, trackerVars
<1>8. ASSUME NEW c \in Conns, Reader(c) \/ RootsWorker(c) \/ Gopls(c)
      PROVE  Steady
  BY <1>2, <1>8, ForgetSteady
     DEF Reader, ReaderResponds, ReaderErrs, ReaderFailsCalls, ReaderLeaves, RootsWorker,
         RootsReleases, RootsCloses, RootsFailsCalls, Gopls, UpstreamAnswers, Finish, FinishResponse,
         Remove, trackerVars
<1>9. ASSUME NEW t \in Tokens, Timers(t)
      PROVE  Steady
  BY <1>2, <1>9, ForgetSteady DEF Timers, TimerFires, TimerExpires, DeliveryExpires
<1>10. CASE SessionFails \/ SessionCloses
  BY <1>2, <1>10, ForgetSteady DEF SessionFails, SessionCloses, ClearRequests, Remove
<1> QED
  BY <1>3, <1>4, <1>5, <1>6, <1>7, <1>8, <1>9, <1>10 DEF Next

\* A call is where it is bound.
LEMMA NextBound ==
  ASSUME Basis, Bound, [Next]_vars
  PROVE  Bound'
<1>1. /\ minted \in Nat /\ Tokens \subseteq Int /\ incoming \in Seq(Tokens)
      /\ awaiting \in [Ids -> Owed] /\ routing.tok \in Tokens \cup {NoToken}
      /\ \A w \in Worktrees : reqs[w] \in Seq(Tokens)
  BY DEF Basis, Shape, TypeOK, TrackerTypeOK, LaneTypeOK, BridgeTypeOK, Tokens
<1>2. \A i \in Outstanding : awaiting[i].tok \in Tokens /\ awaiting[i].tok <= minted
  BY <1>1 DEF Basis, Books, Ledger, Outstanding, Owed
<1>3. ASSUME Steady, Stays
      PROVE  Bound'
  <2> SUFFICES ASSUME NEW i \in Ids, NEW t \in Tokens, awaiting'[i].tok = t
               PROVE  /\ t \in Elements(incoming') => awaiting'[i].wt = NoWorktree
                      /\ t = routing'.tok => awaiting'[i].wt = routing'.wt
                      /\ \A w \in Worktrees : InLane(w, t)' => awaiting'[i].wt = w
    BY DEF Bound
  <2>1. awaiting[i].tok = t /\ awaiting'[i].wt = awaiting[i].wt
    BY <1>3 DEF Steady, Vacant, Tokens
  <2>2. /\ t \in Elements(incoming) => awaiting[i].wt = NoWorktree
        /\ t = routing.tok => awaiting[i].wt = routing.wt
        /\ \A w \in Worktrees : InLane(w, t) => awaiting[i].wt = w
    BY <2>1 DEF Bound
  <2>3. incoming' = incoming /\ routing' \in {routing, NotRouting}
    BY <1>3 DEF Stays
  <2>4. \A w \in Worktrees : InLane(w, t)' => InLane(w, t)
    BY <1>3 DEF Stays
  <2>5. t = routing'.tok => routing' = routing
    BY <2>3 DEF NotRouting, Tokens
  <2> QED
    BY <2>1, <2>2, <2>3, <2>4, <2>5
<1>4. ASSUME NEW i \in Ids, Track(i), Admissible(i), minted' = minted + 1, minted < MaxCalls,
             incoming' = Append(incoming, minted + 1) \/ UNCHANGED incoming,
             UNCHANGED <<routing, reqs, lane>>
      PROVE  Bound'
  <2>1. PICK n \in Tokens : n = minted + 1
    BY <1>4, MintType DEF Basis, Shape, TypeOK
  <2>2. Elements(incoming') \subseteq Elements(incoming) \cup {n}
    <3>1. Elements(Append(incoming, n)) = Elements(incoming) \cup {n}
      BY <1>1, AppendElements
    <3> QED
      BY <1>4, <2>1, <3>1
  <2>3. awaiting'[i] = [tok |-> n, wt |-> NoWorktree, conn |-> NoConn]
        /\ \A j \in Ids \ {i} : awaiting'[j] = awaiting[j]
    BY <1>1, <1>4, <2>1 DEF Track, Vacant
  <2>4. n # routing.tok /\ \A w \in Worktrees : ~InLane(w, n)
    BY <1>1, <2>1 DEF Basis, Alone, Routed
  <2>5. \A w \in Worktrees, t \in Tokens : InLane(w, t)' <=> InLane(w, t)
    BY <1>4 DEF InLane, Held
  <2>6. \A j \in Ids : awaiting[j].tok # n
    BY <1>2, <1>1, <2>1 DEF Outstanding, Tokens
  <2> QED
    BY <1>4, <2>2, <2>3, <2>4, <2>5, <2>6 DEF Bound
<1>5. CASE \E i \in Ids, k \in Sends \ {"notification"} : Admit(i, k) \/ AdmitTooLate(i, k)
  BY <1>4, <1>5 DEF Admit, AdmitTooLate, Mint
<1>6. CASE AdmitNotification
  <2>1. minted < MaxCalls /\ incoming' = Append(incoming, minted + 1)
        /\ UNCHANGED <<awaiting, routing, reqs, lane>>
    BY <1>6 DEF AdmitNotification, Mint, laneVars
  <2>2. PICK n \in Tokens : n = minted + 1
    BY <2>1, MintType DEF Basis, Shape, TypeOK
  <2>3. Elements(incoming') = Elements(incoming) \cup {n}
    BY <1>1, <2>1, <2>2, AppendElements
  <2>4. \A j \in Ids : awaiting[j].tok # n
    BY <1>2, <1>1, <2>2 DEF Outstanding, Tokens
  <2>5. \A w \in Worktrees, t \in Tokens : InLane(w, t)' <=> InLane(w, t)
    BY <2>1 DEF InLane, Held
  <2> QED
    BY <2>1, <2>3, <2>4, <2>5 DEF Bound
<1>7. CASE RouteTakes
  <2>1. /\ routing'.tok = Head(incoming) /\ routing'.wt = NoWorktree
        /\ incoming # <<>> /\ incoming' = Tail(incoming)
        /\ UNCHANGED <<awaiting, reqs, lane>>
    BY <1>7 DEF RouteTakes, NotRouting, trackerVars, laneVars
  <2>2. Head(incoming) \in Elements(incoming) /\ Elements(incoming') \subseteq Elements(incoming)
    BY <1>1, <2>1, TailElements
  <2>3. \A w \in Worktrees, t \in Tokens : InLane(w, t)' <=> InLane(w, t)
    BY <2>1 DEF InLane, Held
  <2> QED
    BY <2>1, <2>2, <2>3 DEF Bound
<1>8. ASSUME NEW w \in Worktrees, RouteBinds(w)
      PROVE  Bound'
  <2>1. PICK n \in Tokens : n = routing.tok
    BY <1>8 DEF RouteBinds, Resolving, Basis, Shape, TypeOK, BridgeTypeOK
  <2>2. routing'.tok = n /\ routing'.wt = w /\ UNCHANGED <<incoming, reqs, lane>>
    BY <1>8, <2>1 DEF RouteBinds, laneVars, Basis, Shape, TypeOK, BridgeTypeOK
  <2>3. \A i \in Ids : /\ awaiting'[i].tok = awaiting[i].tok
                        /\ awaiting'[i].wt = IF awaiting[i].tok = n THEN w ELSE awaiting[i].wt
    <3>1. CASE IsNotification(n)
      <4>1. \A i \in Ids : awaiting[i].tok # n
        BY <3>1, TrackerAssumption
           DEF IsNotification, Basis, Books, Ledger, Outstanding, Tokens
      <4> QED
        BY <1>8, <2>1, <3>1, <4>1 DEF RouteBinds
    <3>2. CASE ~IsNotification(n)
      BY <1>1, <1>8, <2>1, <3>2 DEF RouteBinds, Bind, Owned, Outstanding, Owed, Tokens
    <3> QED
      BY <3>1, <3>2
  <2>4. \A v \in Worktrees, t \in Tokens : InLane(v, t)' <=> InLane(v, t)
    BY <2>2 DEF InLane, Held
  <2>5. n \notin Elements(incoming) /\ \A v \in Worktrees : ~InLane(v, n)
    BY <2>1 DEF Basis, Alone, Routed
  <2> QED
    BY <2>1, <2>2, <2>3, <2>4, <2>5 DEF Bound
<1>9. CASE RouteHandsOver
  <2>1. PICK n \in Tokens, w \in Worktrees : n = routing.tok /\ w = routing.wt
    BY <1>9 DEF RouteHandsOver, Basis, Shape, RoutingShape, TypeOK, BridgeTypeOK
  <2>2. reqs' = [reqs EXCEPT ![w] = Append(@, n)] /\ routing' = NotRouting
        /\ UNCHANGED <<awaiting, incoming, lane>>
    BY <1>9, <2>1 DEF RouteHandsOver, trackerVars
  <2>3. reqs'[w] = Append(reqs[w], n) /\ \A v \in Worktrees \ {w} : reqs'[v] = reqs[v]
    BY <2>2 DEF Basis, Shape, TypeOK, LaneTypeOK
  <2>4. reqs[w] \in Seq(Tokens)
    BY <1>1
  <2>5. Elements(reqs'[w]) = Elements(reqs[w]) \cup {n}
    BY <2>3, <2>4, AppendElements
  <2>6. \A v \in Worktrees, t \in Tokens : InLane(v, t)' => InLane(v, t) \/ (v = w /\ t = n)
    BY <2>2, <2>3, <2>5 DEF InLane, Held
  <2>7. \A t \in Tokens : t # routing'.tok
    BY <2>2 DEF NotRouting, Tokens
  <2> QED
    BY <2>1, <2>2, <2>6, <2>7 DEF Bound
<1>10. Stays \/ Moves
  BY StepMoves DEF Basis
<1>11. CASE Moves
  BY <1>5, <1>6, <1>7, <1>8, <1>9, <1>11 DEF Moves
<1> QED
  BY <1>3, <1>5, <1>8, <1>10, <1>11, StepSteady

-----------------------------------------------------------------------------
(* Where the work is. *)

\* Most steps leave the lanes and what the servers have alone, and end no
\* operation: a call may be admitted, and others leave.
LEMMA StillPlaces ==
  ASSUME Basis, Places, [Next]_vars, UNCHANGED <<lane, laneConn>>, AnsweredApart',
         \A c \in Conns, t \in Tokens : Has(c, t)' <=> Has(c, t),
         session' = "closed" <=> session = "closed",
         \A c \in Conns : connState'[c] = "unused" => connState[c] = "unused",
         \A c \in Conns, i \in Ids : operations'[c][i].tok = operations[c][i].tok,
         \A i \in Ids, t \in Tokens : awaiting'[i].tok = t =>
           \/ awaiting[i].tok = t /\ awaiting'[i].conn = awaiting[i].conn
           \/ t > minted /\ awaiting'[i].conn = NoConn
  PROVE  Places'
<1>1. /\ minted \in Nat /\ Tokens \subseteq Int /\ Grows
      /\ \A c \in Conns : upstream'[c] \subseteq Tokens /\ responses'[c] \subseteq Tokens
  <2>1. minted \in Nat /\ Tokens \subseteq Int /\ Grows
    BY StepGrows DEF Basis, Shape, TypeOK, TrackerTypeOK, Tokens
  <2>2. LaneTypeOK'
    BY NextBasis DEF Basis, Shape, TypeOK
  <2> QED
    BY <2>1, <2>2 DEF LaneTypeOK
<1>2. /\ \A w \in Worktrees, c \in Conns : Uses(w, c)' <=> Uses(w, c)
      /\ \A w \in Worktrees, t \in Tokens : Held(w, t)' <=> Held(w, t)
      /\ \A w \in Worktrees : Writing(w)' <=> Writing(w)
  BY DEF Uses, Held, Writing
<1>3. Unsent'
  BY <1>2, StepWaits DEF Basis, Places, Unsent, Untouched
<1>4. ASSUME NEW w \in Worktrees, NEW t \in Tokens, Held(w, t)
      PROVE  Delivering(w, t)'
  <2>1. Delivering(w, t) /\ t <= minted
    BY <1>4 DEF Places, Basis, Alone, InLane
  <2>2. IsNotification(t)' <=> IsNotification(t)
    BY <1>1, <2>1 DEF Grows, IsNotification
  <2>3. idOf'[t] = idOf[t]
    BY <1>1, <2>1 DEF Grows
  <2>4. \A i \in Ids : awaiting'[i].tok = t => awaiting[i].tok = t /\ awaiting'[i].conn = awaiting[i].conn
    BY <1>1, <2>1
  <2>5. ~IsNotification(t) => idOf[t] \in Ids
    BY DEF IsNotification, Basis, Shape, TypeOK, TrackerTypeOK
  <2> QED
    BY <1>2, <2>1, <2>2, <2>3, <2>4, <2>5 DEF Delivering
<1>5. Undialled'
  BY <1>2 DEF Places, Undialled
<1>6. UpstreamWorkCharged'
  <2>1. \A c \in Conns, t \in Tokens : Has(c, t) => idOf[t] \in Ids /\ idOf'[t] = idOf[t]
    BY <1>1 DEF Has, Basis, IdShape, Grows, Shape, TypeOK, TrackerTypeOK
  <2>2. session # "closed" => \A c \in Conns, t \in Tokens : Has(c, t) => operations[c][idOf[t]].tok = t
    BY DEF Has, Places, UpstreamWorkCharged
  <2>3. session' # "closed" => \A c \in Conns, t \in Tokens : Has(c, t)' => operations'[c][idOf'[t]].tok = t
    BY <2>1, <2>2
  <2>4. \A c \in Conns : \A t \in upstream'[c] \cup responses'[c] : t \in Tokens /\ Has(c, t)'
    BY <1>1 DEF Has
  <2> QED
    BY <2>3, <2>4 DEF UpstreamWorkCharged
<1> QED
  BY <1>2, <1>3, <1>4, <1>5, <1>6 DEF Places

\* So does one that moves no work at all.
LEMMA QuietPlaces ==
  ASSUME Basis, Places, [Next]_vars,
         UNCHANGED <<lane, laneConn, upstream, responses>>,
         session' = "closed" <=> session = "closed",
         \A c \in Conns : connState'[c] = "unused" => connState[c] = "unused",
         \A c \in Conns, i \in Ids : operations'[c][i].tok = operations[c][i].tok,
         \A i \in Ids, t \in Tokens : awaiting'[i].tok = t =>
           \/ awaiting[i].tok = t /\ awaiting'[i].conn = awaiting[i].conn
           \/ t > minted /\ awaiting'[i].conn = NoConn
  PROVE  Places'
<1>1. \A c \in Conns, t \in Tokens : Has(c, t)' <=> Has(c, t)
  BY DEF Has
<1>2. AnsweredApart'
  BY DEF Places, AnsweredApart
<1> QED
  BY <1>1, <1>2, StillPlaces

\* Claiming calls is such a step.
LEMMA ClaimQuiet ==
  ASSUME Basis, NEW S, Forget(S), operations' = Abandoned(S, operations)
  PROVE  /\ \A c \in Conns, i \in Ids : operations'[c][i].tok = operations[c][i].tok
         /\ \A i \in Ids, t \in Tokens : awaiting'[i].tok = t =>
              awaiting[i].tok = t /\ awaiting'[i].conn = awaiting[i].conn
<1>1. operations \in [Conns -> [Ids -> Operation]]
  BY DEF Basis, Shape, TypeOK, TrackerTypeOK
<1>2. \A c \in Conns, i \in Ids : operations'[c][i].tok = operations[c][i].tok
  BY <1>1, AbandonedMarks
<1>3. \A i \in Ids : awaiting'[i] = IF i \in S THEN Vacant ELSE awaiting[i]
  BY DEF Forget
<1> QED
  BY <1>2, <1>3 DEF Vacant, Tokens

\* Ingress, the router, the control workers, the timers and the failing readers
\* take such steps only.
LEMMA OthersPlaces ==
  ASSUME Basis, Places, [Next]_vars,
         \/ UNCHANGED vars \/ Ingress \/ Router \/ SessionFails
         \/ \E w \in Worktrees : Controls(w)
         \/ \E c \in Conns : ReaderErrs(c) \/ ReaderFailsCalls(c) \/ ReaderLeaves(c) \/ RootsWorker(c)
         \/ \E t \in Tokens : Timers(t)
  PROVE  Places'
<1>1. /\ awaiting \in [Ids -> Owed] /\ minted \in Nat
      /\ connState \in [Conns -> {"unused", "open", "released", "closed"}]
  BY DEF Basis, Shape, TypeOK, TrackerTypeOK, LaneTypeOK
<1>2. ASSUME UNCHANGED <<session, awaiting, operations, lane, laneConn, upstream, responses, connState>>
      PROVE  Places'
  BY <1>2, QuietPlaces
<1>3. ASSUME NEW S, Forget(S), operations' = Abandoned(S, operations),
             UNCHANGED <<session, lane, laneConn, upstream, responses, connState>>
      PROVE  Places'
  BY <1>3, ClaimQuiet, QuietPlaces
<1>4. CASE UNCHANGED vars
  BY <1>2, <1>4 DEF vars, trackerVars, laneVars
<1>5. CASE Ingress
  <2>1. ASSUME NEW i \in Ids, NEW k \in Sends \ {"notification"}, Admit(i, k) \/ AdmitTooLate(i, k)
        PROVE  Places'
    <3>1. /\ Track(i) /\ UNCHANGED <<session, operations, lane, laneConn, upstream, responses, connState>>
      BY <2>1 DEF Admit, AdmitTooLate
    <3>2. \A j \in Ids, t \in Tokens : awaiting'[j].tok = t =>
            \/ awaiting[j].tok = t /\ awaiting'[j].conn = awaiting[j].conn
            \/ t > minted /\ awaiting'[j].conn = NoConn
      BY <1>1, <3>1 DEF Track, Vacant
    <3> QED
      BY <3>1, <3>2, QuietPlaces
  <2>2. CASE AdmitNotification \/ IngressStops
             \/ \E i \in Ids, k \in Sends \ {"notification"} : AdmitOverflows(i, k)
    BY <1>2, <2>2 DEF AdmitNotification, IngressStops, AdmitOverflows, trackerVars, laneVars
  <2>3. ASSUME NEW i \in Ids, Cancel(i)
        PROVE  Places'
    BY <1>3, <2>3 DEF Cancel, Finish, Remove
  <2> QED
    BY <1>5, <2>1, <2>2, <2>3 DEF Ingress
<1>6. CASE Router
  <2>1. CASE RouteTakes \/ RouteHandsOver \/ RouteStops
    BY <1>2, <2>1 DEF RouteTakes, RouteHandsOver, RouteStops, trackerVars, laneVars
  <2>2. ASSUME FailRouting, UNCHANGED laneVars
        PROVE  Places'
    BY <1>3, <2>2 DEF FailRouting, FailDelivery, Remove, laneVars
  <2>3. ASSUME NEW w \in Worktrees, RouteBinds(w)
        PROVE  Places'
    <3>1. /\ \A i \in Ids : awaiting'[i].tok = awaiting[i].tok /\ awaiting'[i].conn = awaiting[i].conn
          /\ UNCHANGED <<session, operations, lane, laneConn, upstream, responses, connState>>
      BY <1>1, <2>3 DEF RouteBinds, Bind, Owed, laneVars
    <3> QED
      BY <3>1, QuietPlaces
  <2> QED
    BY <1>6, <2>1, <2>2, <2>3 DEF Router, RouteFails, RouteOverflows, RouteRefused
<1>7. CASE \E w \in Worktrees : Controls(w)
  BY <1>2, <1>7 DEF Controls, ControlChecks, ControlExpires, ControlWrites, trackerVars
<1>8. ASSUME NEW c \in Conns, ReaderErrs(c) \/ ReaderLeaves(c) \/ RootsReleases(c) \/ RootsCloses(c)
      PROVE  Places'
  <2>1. /\ UNCHANGED <<session, awaiting, operations, lane, laneConn, upstream, responses>>
        /\ \/ UNCHANGED connState
           \/ connState' = [connState EXCEPT ![c] = "closed"]
           \/ connState' = [connState EXCEPT ![c] = IF @ = "open" THEN "released" ELSE @]
    BY <1>8 DEF ReaderErrs, ReaderLeaves, RootsReleases, RootsCloses, trackerVars
  <2>2. \A d \in Conns : connState'[d] = "unused" => connState[d] = "unused"
    BY <1>1, <2>1
  <2> QED
    BY <2>1, <2>2, QuietPlaces
<1>9. ASSUME NEW c \in Conns, ReaderFailsCalls(c) \/ RootsFailsCalls(c)
      PROVE  Places'
  BY <1>3, <1>9 DEF ReaderFailsCalls, RootsFailsCalls, Finish, Remove, laneVars
<1>10. ASSUME NEW t \in Tokens, Timers(t)
      PROVE  Places'
  BY <1>2, <1>3, <1>10 DEF Timers, TimerFires, TimerExpires, DeliveryExpires, laneVars
<1>11. CASE SessionFails
  <2>1. /\ UNCHANGED <<awaiting, operations, lane, laneConn, upstream, responses, connState>>
        /\ session = "live" /\ session' = "ending"
    BY <1>11 DEF SessionFails, laneVars
  <2> QED
    BY <2>1, QuietPlaces
<1> QED
  BY <1>4, <1>5, <1>6, <1>7, <1>8, <1>9, <1>10, <1>11 DEF RootsWorker

\* gopls answering moves a call from what it has to what nobody has read.
LEMMA AnswersPlaces ==
  ASSUME Basis, Places, [Next]_vars, NEW c \in Conns, Gopls(c)
  PROVE  Places'
<1>1. PICK t \in upstream[c] :
        /\ upstream' = [upstream EXCEPT ![c] = @ \ {t}]
        /\ responses' = [responses EXCEPT ![c] = @ \cup {t}]
        /\ UNCHANGED <<session, awaiting, operations, lane, laneConn, connState>>
  BY DEF Gopls, UpstreamAnswers, trackerVars
<1>2. upstream \in [Conns -> SUBSET Tokens] /\ responses \in [Conns -> SUBSET Tokens]
  BY DEF Basis, Shape, TypeOK, LaneTypeOK
<1>3. \A d \in Conns, u \in Tokens : Has(d, u)' <=> Has(d, u)
  BY <1>1, <1>2 DEF Has
<1>4. AnsweredApart'
  BY <1>1, <1>2 DEF Places, AnsweredApart
<1> QED
  BY <1>1, <1>3, <1>4, StillPlaces

\* A reader that reads the answer ends the operation: it is the one that was
\* begun for the call, and no lane is writing that.
LEMMA RespondsPlaces ==
  ASSUME Basis, Places, [Next]_vars, NEW c \in Conns, ReaderResponds(c)
  PROVE  Places'
<1>1. PICK t \in responses[c] :
        /\ FinishResponse(c, t)
        /\ responses' = [responses EXCEPT ![c] = @ \ {t}]
        /\ UNCHANGED <<session, lane, laneConn, connState, upstream>>
  BY DEF ReaderResponds
<1>2. /\ upstream \in [Conns -> SUBSET Tokens] /\ responses \in [Conns -> SUBSET Tokens]
      /\ operations \in [Conns -> [Ids -> Operation]]
      /\ t \in Tokens /\ idOf[t] \in Ids
  BY DEF Basis, IdShape, Shape, TypeOK, TrackerTypeOK, LaneTypeOK
<1>3. PICK i \in Ids : i = idOf[t]
  BY <1>2
<1>4. /\ UNCHANGED <<minted, idOf>> /\ Forget({i} \cap OwedBy(c))
      /\ operations' = Abandoned({i} \cap OwedBy(c), Ended(c, i))
      /\ EndOperation(c, i)
  BY <1>1, <1>3 DEF FinishResponse, Remove
<1>5. \A d \in Conns, u \in Tokens : Has(d, u)' <=> Has(d, u) /\ ~(d = c /\ u = t)
  BY <1>1, <1>2 DEF Has, Places, AnsweredApart
<1>6. \A d \in Conns, j \in Ids :
        operations'[d][j].tok = IF d = c /\ j = i THEN NoToken ELSE operations[d][j].tok
  <2>1. Ended(c, i) \in [Conns -> [Ids -> Operation]]
    BY <1>4, EndOperationType DEF Basis, Shape, TypeOK
  <2>2. \A d \in Conns, j \in Ids :
          Ended(c, i)[d][j] = IF d = c /\ j = i THEN NoOperation ELSE operations[d][j]
    BY <1>2 DEF Ended
  <2>3. \A d \in Conns, j \in Ids : operations'[d][j].tok = Ended(c, i)[d][j].tok
    BY <1>4, <2>1, AbandonedMarks
  <2> QED
    BY <2>2, <2>3 DEF NoOperation
<1>7. \A j \in Ids, u \in Tokens : awaiting'[j].tok = u =>
        awaiting[j].tok = u /\ awaiting'[j].conn = awaiting[j].conn
  BY <1>4 DEF Forget, Vacant, Tokens
<1>8. session # "closed" =>
        \A d \in Conns, u \in Tokens : Has(d, u) => operations[d][idOf[u]].tok = u /\ idOf[u] \in Ids
  BY <1>2 DEF Has, Places, UpstreamWorkCharged, Basis, IdShape, Shape, TypeOK, TrackerTypeOK
<1>9. /\ \A w \in Worktrees, d \in Conns : Uses(w, d)' <=> Uses(w, d)
      /\ \A w \in Worktrees, u \in Tokens : Held(w, u)' <=> Held(w, u)
      /\ \A w \in Worktrees : Writing(w)' <=> Writing(w)
      /\ Has(c, t)
  BY <1>1 DEF Uses, Held, Writing, Has
<1>10. Unsent'
  BY <1>5, <1>6, <1>7, <1>9, StepWaits DEF Basis, Places, Unsent, Untouched, Tokens
<1>11. ASSUME NEW w \in Worktrees, NEW u \in Tokens, Held(w, u)
       PROVE  Delivering(w, u)'
  <2>1. Delivering(w, u)
    BY <1>11 DEF Places
  <2>2. IsNotification(u)' <=> IsNotification(u)
    BY <1>4 DEF IsNotification
  <2>3. ~IsNotification(u) => idOf[u] \in Ids
    BY DEF IsNotification, Basis, Shape, TypeOK, TrackerTypeOK
  <2>4. lane[w].pc \in {"attempt", "gate"} =>
          /\ \A j \in Ids : awaiting'[j].tok = u => awaiting'[j].conn = NoConn
          /\ \A d \in Conns : Uses(w, d) => ~Has(d, u)' /\ \A j \in Ids : operations'[d][j].tok # u
    BY <1>5, <1>6, <1>7, <2>1 DEF Delivering, Tokens
  <2>5. ASSUME NEW d \in Conns, d = lane[w].conn
        PROVE  /\ Writing(w) => \A j \in Ids : awaiting'[j].tok = u => awaiting'[j].conn = d
               /\ lane[w].pc \in {"stale", "write"} =>
                    ~Has(d, u)' /\ (~IsNotification(u) => operations'[d][idOf[u]].tok = u)
               /\ lane[w].pc = "written" /\ ~IsNotification(u) /\ operations'[d][idOf[u]].tok = u
                    => Has(d, u)'
    <3>1. Writing(w) => \A j \in Ids : awaiting'[j].tok = u => awaiting'[j].conn = d
      BY <1>7, <2>1, <2>5 DEF Delivering
    <3>2. ASSUME lane[w].pc \in {"stale", "write"}
          PROVE  ~Has(d, u)' /\ (~IsNotification(u) => operations'[d][idOf[u]].tok = u)
      <4>1. ~Has(d, u) /\ (~IsNotification(u) => operations[d][idOf[u]].tok = u) /\ session # "closed"
        BY <2>1, <2>5, <3>2 DEF Delivering
      <4>2. operations[c][i].tok = t
        BY <1>2, <1>3, <1>8, <1>9, <4>1
      <4> QED
        BY <1>5, <1>6, <1>9, <2>3, <4>1, <4>2
    <3>3. lane[w].pc = "written" /\ ~IsNotification(u) /\ operations'[d][idOf[u]].tok = u => Has(d, u)'
      BY <1>3, <1>5, <1>6, <2>1, <2>3, <2>5 DEF Delivering, Tokens
    <3> QED
      BY <3>1, <3>2, <3>3
  <2> QED
    BY <1>1, <1>4, <1>9, <2>1, <2>2, <2>4, <2>5 DEF Delivering
<1>12. Undialled'
  BY <1>1, <1>5, <1>6 DEF Places, Undialled
<1>13. AnsweredApart'
  BY <1>1, <1>2 DEF Places, AnsweredApart
<1>14. UpstreamWorkCharged'
  <2>1. session' # "closed" => \A d \in Conns, u \in Tokens : Has(d, u)' => operations'[d][idOf'[u]].tok = u
    <3> SUFFICES ASSUME session # "closed", NEW d \in Conns, NEW u \in Tokens, Has(d, u)'
                 PROVE  operations'[d][idOf[u]].tok = u
      BY <1>1, <1>4
    <3>1. Has(d, u) /\ ~(d = c /\ u = t) /\ operations[d][idOf[u]].tok = u /\ idOf[u] \in Ids
      BY <1>5, <1>8
    <3>2. operations[c][i].tok = t
      BY <1>2, <1>3, <1>8, <1>9
    <3> QED
      BY <1>6, <3>1, <3>2
  <2>2. \A d \in Conns : \A u \in upstream'[d] \cup responses'[d] : u \in Tokens /\ Has(d, u)'
    BY <1>1, <1>2 DEF Has
  <2> QED
    BY <2>1, <2>2 DEF UpstreamWorkCharged
<1> QED
  BY <1>9, <1>10, <1>11, <1>12, <1>13, <1>14 DEF Places

\* When the session closes no lane delivers anything any more.
LEMMA ClosesPlaces ==
  ASSUME Basis, Places, [Next]_vars, SessionCloses
  PROVE  Places'
<1>1. /\ \A w \in Worktrees : lane'[w] = Idle
      /\ session' = "closed" /\ UNCHANGED <<upstream, responses>>
      /\ \A c \in Conns : connState'[c] = "unused" => connState[c] = "unused"
  BY DEF SessionCloses
<1>2. /\ \A c \in Conns, i \in Ids : operations'[c][i].tok = NoToken
      /\ \A i \in Ids : awaiting'[i].tok = NoToken
  BY DEF SessionCloses, ClearRequests, Remove, Forget, Outstanding, Vacant, NoOperation
<1>3. \A c \in Conns, t \in Tokens : Has(c, t)' <=> Has(c, t)
  BY <1>1 DEF Has
<1>4. \A w \in Worktrees, t \in Tokens : ~Held(w, t)'
  BY <1>1 DEF Held, Idle
<1>5. Unsent'
  BY <1>2, <1>3, StepWaits DEF Basis, Places, Unsent, Untouched, Tokens
<1>6. Undialled' /\ AnsweredApart' /\ UpstreamWorkCharged'
  BY <1>1, <1>2, <1>3 DEF Places, Undialled, AnsweredApart, UpstreamWorkCharged
<1> QED
  BY <1>4, <1>5, <1>6 DEF Places

\* What a lane does with its message leaves the others' alone: it touches only
\* connections the lane uses.
LEMMA OneLane ==
  ASSUME Basis, Places, [Next]_vars, NEW w \in Worktrees, NEW u \in Tokens, Held(w, u),
         UNCHANGED <<session, minted, idOf>>,
         \A v \in Worktrees \ {w} : lane'[v] = lane[v] /\ laneConn'[v] = laneConn[v],
         \A c \in Conns, t \in Tokens : t # u \/ ~Uses(w, c) => (Has(c, t)' <=> Has(c, t)),
         \A c \in Conns, i \in Ids :
           \/ operations'[c][i].tok = operations[c][i].tok
           \/ Uses(w, c) /\ operations'[c][i].tok \in {NoToken, u},
         \A i \in Ids, t \in Tokens : awaiting'[i].tok = t =>
           awaiting[i].tok = t /\ (t # u => awaiting'[i].conn = awaiting[i].conn),
         \A c \in Conns : connState'[c] = "unused" => connState[c] = "unused"
  PROVE  /\ Unsent' /\ Undialled'
         /\ \A v \in Worktrees \ {w}, t \in Tokens : Held(v, t)' => Delivering(v, t)'
<1>1. ~Waits(u) /\ NoToken \notin Tokens
  <2>1. InLane(w, u) /\ u <= minted /\ minted \in Nat /\ u \in Int
    BY DEF InLane, Basis, Alone, Shape, TypeOK, TrackerTypeOK, Tokens
  <2> QED
    BY <2>1 DEF Waits, InLane, Basis, Alone, Tokens
<1>2. \A v \in Worktrees \ {w}, t \in Tokens :
        /\ Held(v, t)' <=> Held(v, t)
        /\ Held(v, t) => t # u
  BY DEF Held, InLane, Basis, Alone
<1>3. \A v \in Worktrees \ {w}, c \in Conns :
        /\ Uses(v, c)' <=> Uses(v, c)
        /\ Uses(v, c) => ~Uses(w, c)
        /\ c = lane[v].conn => Uses(v, c)
  BY DEF Uses, Basis, Owner
<1>4. Unsent'
  <2> SUFFICES ASSUME NEW t \in Tokens, Waits(t)' PROVE Untouched(t)'
    BY DEF Unsent
  <2>1. Waits(t) /\ t # u
    BY <1>1, StepWaits DEF Basis
  <2>2. Untouched(t)
    BY <2>1 DEF Places, Unsent
  <2> QED
    BY <1>1, <2>1, <2>2 DEF Untouched
<1>5. Undialled'
  <2> SUFFICES ASSUME NEW c \in Conns, connState'[c] = "unused",
                      NEW t \in Tokens
               PROVE  ~Has(c, t)' /\ \A i \in Ids : operations'[c][i].tok = NoToken
    BY DEF Undialled
  <2>1. connState[c] = "unused" /\ ~Uses(w, c)
    BY DEF Basis, Owner
  <2> QED
    BY <2>1 DEF Places, Undialled
<1>6. ASSUME NEW v \in Worktrees \ {w}, NEW t \in Tokens, Held(v, t)
      PROVE  Delivering(v, t)'
  <2>1. Delivering(v, t) /\ t # u /\ lane'[v] = lane[v]
    BY <1>2, <1>6 DEF Places
  <2>2. /\ IsNotification(t)' <=> IsNotification(t)
        /\ ~IsNotification(t) => idOf[t] \in Ids
        /\ Writing(v)' <=> Writing(v)
    BY <2>1 DEF IsNotification, Writing, Basis, Shape, TypeOK, TrackerTypeOK
  <2>3. \A i \in Ids : awaiting'[i].tok = t => awaiting[i].tok = t /\ awaiting'[i].conn = awaiting[i].conn
    BY <2>1
  <2>4. \A c \in Conns, i \in Ids : Uses(v, c) =>
          operations'[c][i].tok = operations[c][i].tok
    BY <1>3
  <2>5. \A c \in Conns : Uses(v, c) => (Has(c, t)' <=> Has(c, t))
    BY <2>1
  <2>6. lane[v].pc \in {"attempt", "gate"} =>
          /\ \A i \in Ids : awaiting'[i].tok = t => awaiting'[i].conn = NoConn
          /\ \A c \in Conns : Uses(v, c) => ~Has(c, t)' /\ \A i \in Ids : operations'[c][i].tok # t
    BY <2>1, <2>3, <2>4, <2>5 DEF Delivering
  <2>7. ASSUME NEW c \in Conns, c = lane[v].conn
        PROVE  /\ Writing(v) => \A i \in Ids : awaiting'[i].tok = t => awaiting'[i].conn = c
               /\ lane[v].pc \in {"stale", "write"} =>
                    ~Has(c, t)' /\ (~IsNotification(t) => operations'[c][idOf[t]].tok = t)
               /\ lane[v].pc = "written" /\ ~IsNotification(t) /\ operations'[c][idOf[t]].tok = t
                    => Has(c, t)'
    BY <1>3, <2>1, <2>2, <2>3, <2>4, <2>5, <2>7 DEF Delivering
  <2> QED
    BY <1>3, <2>1, <2>2, <2>6, <2>7 DEF Delivering
<1> QED
  BY <1>2, <1>4, <1>5, <1>6

\* If it ends no operation and sends nothing, only its own place matters.
LEMMA IdleLane ==
  ASSUME Basis, Places, [Next]_vars, NEW w \in Worktrees, NEW u \in Tokens, Held(w, u),
         UNCHANGED <<session, minted, idOf, upstream, responses>>,
         \A v \in Worktrees \ {w} : lane'[v] = lane[v] /\ laneConn'[v] = laneConn[v],
         \A c \in Conns, i \in Ids : operations'[c][i].tok = operations[c][i].tok,
         \A i \in Ids, t \in Tokens : awaiting'[i].tok = t =>
           awaiting[i].tok = t /\ (t # u => awaiting'[i].conn = awaiting[i].conn),
         \A c \in Conns : connState'[c] = "unused" => connState[c] = "unused",
         \A t \in Tokens : Held(w, t)' => Delivering(w, t)'
  PROVE  Places'
<1>1. \A c \in Conns, t \in Tokens : Has(c, t)' <=> Has(c, t)
  BY DEF Has
<1>2. Unsent' /\ Undialled' /\ \A v \in Worktrees \ {w}, t \in Tokens : Held(v, t)' => Delivering(v, t)'
  BY <1>1, OneLane
<1>3. AnsweredApart'
  BY DEF Places, AnsweredApart
<1>4. UpstreamWorkCharged'
  <2>1. \A c \in Conns : \A t \in upstream[c] \cup responses[c] : idOf[t] \in Ids
    BY DEF Basis, IdShape, Shape, TypeOK, TrackerTypeOK, LaneTypeOK
  <2> QED
    BY <2>1 DEF Places, UpstreamWorkCharged
<1> QED
  BY <1>2, <1>3, <1>4 DEF Places

\* A message taken up has not been sent anywhere.
LEMMA TakesPlaces ==
  ASSUME Basis, Places, [Next]_vars, NEW w \in Worktrees, LaneTakes(w)
  PROVE  Places'
<1>1. reqs[w] \in Seq(Tokens) /\ reqs[w] # <<>> /\ lane \in [Worktrees -> LaneState]
  BY DEF LaneTakes, Basis, Shape, TypeOK, LaneTypeOK
<1>2. PICK u \in Tokens : u = Head(reqs[w]) /\ u \in Elements(reqs[w])
  BY <1>1, TailElements
<1>3. /\ UNCHANGED <<session, minted, idOf, awaiting, operations, upstream, responses, laneConn, connState>>
      /\ session = "live" /\ lane[w].pc = "idle"
      /\ lane' \in {lane, [lane EXCEPT ![w] = Attempting(u, 1)]}
  BY <1>2, TakesNothing DEF LaneTakes, Places
<1>4. Untouched(u)
  BY <1>2 DEF Places, Unsent, Waits
<1>5. /\ \A c \in Conns, t \in Tokens : Has(c, t)' <=> Has(c, t)
      /\ \A v \in Worktrees : v # w => lane'[v] = lane[v]
      /\ lane'[w].pc = "idle" \/ lane'[w] = Attempting(u, 1)
  BY <1>1, <1>3 DEF Has
<1>6. Unsent'
  BY <1>3, <1>5, StepWaits DEF Basis, Places, Unsent, Untouched
<1>7. ASSUME NEW v \in Worktrees, NEW t \in Tokens, Held(v, t)'
      PROVE  Delivering(v, t)'
  <2>1. CASE v = w
    <3>1. lane'[w].pc = "attempt" /\ t = u
      BY <1>5, <1>7, <2>1 DEF Held, Attempting
    <3> QED
      BY <1>3, <1>4, <1>5, <2>1, <3>1 DEF Delivering, Untouched, Writing
  <2>2. CASE v # w
    <3>1. Delivering(v, t) /\ lane'[v] = lane[v]
      BY <1>5, <1>7, <2>2 DEF Held, Places
    <3> QED
      BY <1>3, <1>5, <3>1 DEF Delivering, Uses, Writing, IsNotification
  <2> QED
    BY <2>1, <2>2
<1>8. Undialled'
  BY <1>3, <1>5 DEF Places, Undialled
<1>9. AnsweredApart' /\ UpstreamWorkCharged'
  BY <1>3 DEF Places, AnsweredApart, UpstreamWorkCharged
<1> QED
  BY <1>6, <1>7, <1>8, <1>9 DEF Places

\* A lane looking for a connection to its server, or done with its message.
LEMMA SeeksPlaces ==
  ASSUME Basis, Places, [Next]_vars, NEW w \in Worktrees,
         \/ LaneGivesUp(w) \/ LaneRefused(w) \/ LaneDropsNotification(w) \/ LaneDelivered(w)
         \/ LaneReuses(w) \/ LaneDialFails(w) \/ \E c \in Conns : LaneDials(w, c)
  PROVE  Places'
<1>1. /\ lane \in [Worktrees -> LaneState] /\ laneConn \in [Worktrees -> Conns \cup {NoConn}]
      /\ connState \in [Conns -> {"unused", "open", "released", "closed"}]
      /\ NoConn \notin Conns
  BY DEF Basis, Shape, TypeOK, LaneTypeOK, Conns
<1>2. PICK u \in Tokens : u = lane[w].tok /\ Held(w, u)
  BY DEF LaneGivesUp, LaneRefused, LaneDropsNotification, LaneDelivered, LaneReuses, LaneDialFails,
         LaneDials, Trying, Held, Basis, Shape, LaneShape
<1>3. Delivering(w, u)
  BY <1>2 DEF Places
<1>4. UNCHANGED <<session, minted, idOf, upstream, responses>>
  BY DEF LaneGivesUp, LaneRefused, LaneDropsNotification, LaneDelivered, LaneReuses, LaneDialFails,
         LaneDials, FailDelivery, trackerVars
<1>5. /\ \A c \in Conns, i \in Ids : operations'[c][i].tok = operations[c][i].tok
      /\ \A i \in Ids, t \in Tokens : awaiting'[i].tok = t =>
           awaiting[i].tok = t /\ awaiting'[i].conn = awaiting[i].conn
  <2>1. CASE UNCHANGED <<awaiting, operations>>
    BY <2>1
  <2>2. CASE LaneGivesUp(w) \/ LaneRefused(w)
    BY <2>2, ClaimQuiet DEF LaneGivesUp, LaneRefused, FailDelivery, Remove
  <2> QED
    BY <2>1, <2>2 DEF LaneDropsNotification, LaneDelivered, LaneReuses, LaneDialFails, LaneDials,
                      trackerVars
<1>6. /\ \A v \in Worktrees \ {w} : lane'[v] = lane[v] /\ laneConn'[v] = laneConn[v]
      /\ \A c \in Conns : connState'[c] = "unused" => connState[c] = "unused"
  BY <1>1 DEF LaneGivesUp, LaneRefused, LaneDropsNotification, LaneDelivered, LaneReuses,
              LaneDialFails, LaneDials, ClosedUnlessAdopted
<1>7. CASE lane' = [lane EXCEPT ![w] = Idle]
  <2>1. \A t \in Tokens : ~Held(w, t)'
    BY <1>1, <1>7 DEF Held, Idle
  <2> QED
    BY <1>2, <1>4, <1>5, <1>6, <2>1, IdleLane
<1>8. CASE LaneReuses(w) \/ LaneDialFails(w) \/ \E c \in Conns : LaneDials(w, c)
  <2>1. /\ lane[w].pc = "attempt" /\ UNCHANGED laneConn
        /\ lane'[w].pc \in {"attempt", "gate"} /\ lane'[w].tok = u
        /\ \/ lane'[w].conn = lane[w].conn
           \/ lane'[w].conn = laneConn[w]
           \/ lane'[w].conn \in Conns /\ connState[lane'[w].conn] = "unused"
    BY <1>1, <1>2, <1>8 DEF LaneReuses, LaneDialFails, LaneDials, NextConn, Trying, LaneState
  <2>2. \A c \in Conns : Uses(w, c)' => Uses(w, c) \/ connState[c] = "unused"
    BY <2>1 DEF Uses
  <2>3. \A c \in Conns : Uses(w, c)' => ~Has(c, u) /\ \A i \in Ids : operations[c][i].tok # u
    BY <1>3, <2>1, <2>2 DEF Delivering, Places, Undialled, Tokens
  <2>4. \A c \in Conns : Has(c, u)' <=> Has(c, u)
    BY <1>4 DEF Has
  <2>5. \A t \in Tokens : Held(w, t)' => Delivering(w, t)'
    BY <1>3, <1>4, <1>5, <2>1, <2>3, <2>4 DEF Held, Delivering, Writing
  <2> QED
    BY <1>2, <1>4, <1>5, <1>6, <2>5, IdleLane
<1> QED
  BY <1>7, <1>8 DEF LaneGivesUp, LaneRefused, LaneDropsNotification, LaneDelivered

\* No id is owed to a notification.
LEMMA NotificationOwesNone ==
  ASSUME Basis, NEW t \in Tokens, IsNotification(t)
  PROVE  \A i \in Ids : awaiting[i].tok # t
  BY TrackerAssumption DEF IsNotification, Basis, Books, Ledger, Outstanding, Tokens

\* An operation is begun where none was, for a message not yet sent there.
LEMMA BeginsPlaces ==
  ASSUME Basis, Places, [Next]_vars, NEW w \in Worktrees, LaneBegins(w)
  PROVE  Places'
<1>1. /\ lane \in [Worktrees -> LaneState] /\ awaiting \in [Ids -> Owed]
      /\ operations \in [Conns -> [Ids -> Operation]]
      /\ NoConn \notin Conns
  BY DEF Basis, Shape, TypeOK, TrackerTypeOK, LaneTypeOK, Conns
<1>2. PICK u \in Tokens, c \in Conns : u = lane[w].tok /\ c = lane[w].conn /\ Held(w, u) /\ Uses(w, c)
  BY DEF LaneBegins, Held, Uses, Basis, Shape, LaneShape
<1>3. /\ session # "closed" /\ ~Has(c, u)
      /\ \A i \in Ids : awaiting[i].tok = u => awaiting[i].conn = NoConn
  BY <1>2 DEF LaneBegins, Places, Delivering
<1>4. /\ UNCHANGED <<session, minted, idOf, upstream, responses, laneConn, connState>>
      /\ lane' = [lane EXCEPT ![w].pc = IF connState[c] = "closed" THEN "stale" ELSE "write"]
  BY <1>2 DEF LaneBegins
<1>5. /\ lane'[w].pc \in {"stale", "write"} /\ lane'[w].tok = u /\ lane'[w].conn = c
      /\ \A v \in Worktrees \ {w} : lane'[v] = lane[v] /\ laneConn'[v] = laneConn[v]
  BY <1>1, <1>2, <1>4 DEF LaneState
<1>6. /\ \A d \in Conns, t \in Tokens : Has(d, t)' <=> Has(d, t)
      /\ \A t \in Tokens : Held(w, t)' <=> t = u
      /\ IsNotification(u)' <=> IsNotification(u)
  BY <1>4, <1>5 DEF Has, Held, IsNotification
<1>7. CASE IsNotification(u)
  <2>1. UNCHANGED <<awaiting, operations>> /\ \A i \in Ids : awaiting[i].tok # u
    BY <1>2, <1>7, NotificationOwesNone DEF LaneBegins
  <2>2. Delivering(w, u)'
    BY <1>3, <1>4, <1>5, <1>6, <1>7, <2>1 DEF Delivering
  <2> QED
    BY <1>2, <1>4, <1>5, <1>6, <2>1, <2>2, IdleLane
<1>8. CASE ~IsNotification(u)
  <2>1. Reservable(u, c, w) /\ BeginOperation(u, c, w)
    BY <1>2, <1>8 DEF LaneBegins
  <2>2. PICK i \in Ids : i = idOf[u] /\ Owned(u) = {i} /\ operations[c][i].tok = NoToken
    BY <2>1, OneOwned DEF Reservable
  <2>3. \A d \in Conns, j \in Ids :
          operations'[d][j].tok = IF d = c /\ j = i THEN u ELSE operations[d][j].tok
    BY <1>1, <2>1, <2>2 DEF BeginOperation
  <2>4. \A j \in Ids : /\ awaiting'[j].tok = awaiting[j].tok
                       /\ awaiting[j].tok # u => awaiting'[j] = awaiting[j]
                       /\ awaiting[j].tok = u => awaiting'[j].conn = c
    BY <1>1, <2>1 DEF BeginOperation, Owned, Outstanding, Owed, Tokens
  <2>5. Unsent' /\ Undialled' /\ \A v \in Worktrees \ {w}, t \in Tokens : Held(v, t)' => Delivering(v, t)'
    BY <1>2, <1>4, <1>5, <1>6, <2>3, <2>4, OneLane
  <2>6. Delivering(w, u)'
    BY <1>3, <1>4, <1>5, <1>6, <2>2, <2>3, <2>4 DEF Delivering
  <2>7. AnsweredApart'
    BY <1>4 DEF Places, AnsweredApart
  <2>8. UpstreamWorkCharged'
    <3>1. \A d \in Conns : \A t \in upstream[d] \cup responses[d] :
            t # NoToken /\ idOf[t] \in Ids /\ operations[d][idOf[t]].tok = t
      BY <1>3 DEF Places, UpstreamWorkCharged, Basis, IdShape, Shape, TypeOK, TrackerTypeOK,
                  LaneTypeOK, Tokens
    <3>2. \A d \in Conns : \A t \in upstream[d] \cup responses[d] : operations'[d][idOf[t]].tok = t
      BY <2>2, <2>3, <3>1
    <3> QED
      BY <1>4, <3>2 DEF UpstreamWorkCharged
  <2> QED
    BY <1>6, <2>5, <2>6, <2>7, <2>8 DEF Places
<1> QED
  BY <1>7, <1>8

\* A message that arrives was not there, and its operation is.
LEMMA ReceivesPlaces ==
  ASSUME Basis, Places, [Next]_vars, NEW w \in Worktrees, UpstreamReceives(w)
  PROVE  Places'
<1>1. /\ lane \in [Worktrees -> LaneState]
      /\ upstream \in [Conns -> SUBSET Tokens] /\ responses \in [Conns -> SUBSET Tokens]
  BY DEF Basis, Shape, TypeOK, LaneTypeOK
<1>2. PICK u \in Tokens, c \in Conns : u = lane[w].tok /\ c = lane[w].conn /\ Held(w, u) /\ Uses(w, c)
  BY DEF UpstreamReceives, Held, Uses, Basis, Shape, LaneShape
<1>3. /\ session # "closed" /\ ~Has(c, u)
      /\ \A i \in Ids : awaiting[i].tok = u => awaiting[i].conn = c
      /\ ~IsNotification(u) => operations[c][idOf[u]].tok = u
  BY <1>2 DEF UpstreamReceives, Places, Delivering, Writing
<1>4. /\ UNCHANGED <<session, minted, idOf, awaiting, operations, responses, laneConn, connState>>
      /\ lane' = [lane EXCEPT ![w].pc = "written"]
      /\ upstream' = IF IsNotification(u) THEN upstream ELSE [upstream EXCEPT ![c] = @ \cup {u}]
  BY <1>2 DEF UpstreamReceives, trackerVars
<1>5. /\ lane'[w].pc = "written" /\ lane'[w].tok = u /\ lane'[w].conn = c
      /\ \A v \in Worktrees \ {w} : lane'[v] = lane[v] /\ laneConn'[v] = laneConn[v]
  BY <1>1, <1>2, <1>4 DEF LaneState
<1>6. /\ \A d \in Conns, t \in Tokens :
           Has(d, t)' <=> Has(d, t) \/ (d = c /\ t = u /\ ~IsNotification(u))
      /\ \A t \in Tokens : Held(w, t)' <=> t = u
      /\ IsNotification(u)' <=> IsNotification(u)
  BY <1>1, <1>4, <1>5 DEF Has, Held, IsNotification
<1>7. Unsent' /\ Undialled' /\ \A v \in Worktrees \ {w}, t \in Tokens : Held(v, t)' => Delivering(v, t)'
  BY <1>2, <1>4, <1>5, <1>6, OneLane
<1>8. Delivering(w, u)'
  BY <1>3, <1>4, <1>5, <1>6 DEF Delivering
<1>9. AnsweredApart'
  BY <1>1, <1>3, <1>4 DEF Places, AnsweredApart, Has
<1>10. UpstreamWorkCharged'
  <2>1. \A d \in Conns : \A t \in upstream[d] \cup responses[d] : operations[d][idOf[t]].tok = t
    BY <1>3 DEF Places, UpstreamWorkCharged
  <2> QED
    BY <1>1, <1>3, <1>4, <2>1 DEF UpstreamWorkCharged
<1> QED
  BY <1>6, <1>7, <1>8, <1>9, <1>10 DEF Places

\* A message refused before the POST was never sent, so its operation goes.
LEMMA TooLargePlaces ==
  ASSUME Basis, Places, [Next]_vars, NEW w \in Worktrees, LaneTooLarge(w)
  PROVE  Places'
<1>1. /\ lane \in [Worktrees -> LaneState] /\ operations \in [Conns -> [Ids -> Operation]]
      /\ connState \in [Conns -> {"unused", "open", "released", "closed"}]
  BY DEF Basis, Shape, TypeOK, TrackerTypeOK, LaneTypeOK
<1>2. PICK u \in Tokens, c \in Conns : u = lane[w].tok /\ c = lane[w].conn /\ Held(w, u) /\ Uses(w, c)
  BY DEF LaneTooLarge, Held, Uses, Basis, Shape, LaneShape
<1>3. /\ session # "closed" /\ ~Has(c, u)
      /\ ~IsNotification(u) => operations[c][idOf[u]].tok = u
  BY <1>2 DEF LaneTooLarge, Places, Delivering
<1>4. /\ UNCHANGED <<session, minted, idOf, upstream, responses, laneConn>>
      /\ \A v \in Worktrees \ {w} : lane'[v] = lane[v] /\ laneConn'[v] = laneConn[v]
      /\ \A d \in Conns : connState'[d] = "unused" => connState[d] = "unused"
      /\ lane'[w] = Idle
  BY <1>1 DEF LaneTooLarge, ClosedUnlessAdopted
<1>5. /\ \A t \in Tokens : ~Held(w, t)'
      /\ \A d \in Conns, t \in Tokens : Has(d, t)' <=> Has(d, t)
  BY <1>4 DEF Held, Has, Idle
<1>6. CASE IsNotification(u)
  <2>1. UNCHANGED <<awaiting, operations>>
    BY <1>2, <1>6 DEF LaneTooLarge
  <2> QED
    BY <1>2, <1>4, <1>5, <2>1, IdleLane
<1>7. CASE ~IsNotification(u)
  <2>1. PICK i \in Ids : i = idOf[u]
    BY <1>7 DEF IsNotification, Basis, Shape, TypeOK, TrackerTypeOK
  <2>2. EndOperation(c, i) /\ Forget(Owned(u)) /\ operations' = Abandoned(Owned(u), Ended(c, i))
    BY <1>2, <1>7, <2>1 DEF LaneTooLarge, Remove
  <2>3. \A d \in Conns, j \in Ids :
          operations'[d][j].tok = IF d = c /\ j = i THEN NoToken ELSE operations[d][j].tok
    <3>1. Ended(c, i) \in [Conns -> [Ids -> Operation]]
      BY <2>2, EndOperationType DEF Basis, Shape, TypeOK
    <3>2. \A d \in Conns, j \in Ids :
            Ended(c, i)[d][j] = IF d = c /\ j = i THEN NoOperation ELSE operations[d][j]
      BY <1>1 DEF Ended
    <3>3. \A d \in Conns, j \in Ids : operations'[d][j].tok = Ended(c, i)[d][j].tok
      BY <2>2, <3>1, AbandonedMarks
    <3> QED
      BY <3>2, <3>3 DEF NoOperation
  <2>4. \A j \in Ids, t \in Tokens : awaiting'[j].tok = t =>
          awaiting[j].tok = t /\ awaiting'[j].conn = awaiting[j].conn
    BY <2>2 DEF Forget, Vacant, Tokens
  <2>5. Unsent' /\ Undialled' /\ \A v \in Worktrees \ {w}, t \in Tokens : Held(v, t)' => Delivering(v, t)'
    BY <1>2, <1>4, <1>5, <2>3, <2>4, OneLane
  <2>6. AnsweredApart'
    BY <1>4 DEF Places, AnsweredApart
  <2>7. UpstreamWorkCharged'
    <3>1. \A d \in Conns : \A t \in upstream[d] \cup responses[d] :
            Has(d, t) /\ idOf[t] \in Ids /\ operations[d][idOf[t]].tok = t
      BY <1>3 DEF Has, Places, UpstreamWorkCharged, Basis, IdShape, Shape, TypeOK, TrackerTypeOK,
                  LaneTypeOK
    <3>2. \A d \in Conns : \A t \in upstream[d] \cup responses[d] : operations'[d][idOf[t]].tok = t
      BY <1>3, <1>7, <2>1, <2>3, <3>1
    <3> QED
      BY <1>4, <3>2 DEF UpstreamWorkCharged
  <2> QED
    BY <1>5, <2>5, <2>6, <2>7 DEF Places
<1> QED
  BY <1>6, <1>7

\* A failed write takes the message back from a connection the lane drops.
LEMMA FailsPlaces ==
  ASSUME Basis, Places, [Next]_vars, NEW w \in Worktrees, LaneWriteFails(w)
  PROVE  Places'
<1>1. /\ lane \in [Worktrees -> LaneState] /\ operations \in [Conns -> [Ids -> Operation]]
      /\ awaiting \in [Ids -> Owed] /\ laneConn \in [Worktrees -> Conns \cup {NoConn}]
      /\ connState \in [Conns -> {"unused", "open", "released", "closed"}]
      /\ NoConn \notin Conns
  BY DEF Basis, Shape, TypeOK, TrackerTypeOK, LaneTypeOK, Conns
<1>2. PICK u \in Tokens, c \in Conns : u = lane[w].tok /\ c = lane[w].conn /\ Held(w, u) /\ Uses(w, c)
  BY DEF LaneWriteFails, Writing, Held, Uses, Basis, Shape, LaneShape
<1>3. session # "closed"
  BY <1>2 DEF Places, Delivering
<1>4. /\ UNCHANGED <<session, minted, idOf, upstream, responses>>
      /\ \A v \in Worktrees \ {w} : lane'[v] = lane[v] /\ laneConn'[v] = laneConn[v]
      /\ \A d \in Conns : connState'[d] = "unused" => connState[d] = "unused"
      /\ laneConn'[w] = NoConn
      /\ lane'[w] = IF IsNotification(u) \/ Retryable(u, c) THEN Attempting(u, lane[w].try + 1) ELSE Idle
  BY <1>1, <1>2 DEF LaneWriteFails
<1>5. /\ \A t \in Tokens : Held(w, t)' => t = u /\ (IsNotification(u) \/ Retryable(u, c))
      /\ \A d \in Conns : ~Uses(w, d)'
      /\ lane'[w].pc \in {"idle", "attempt"} /\ lane'[w].conn = NoConn
  BY <1>1, <1>4 DEF Held, Idle, Attempting, Uses
<1>6. CASE IsNotification(u) \/ ~Retryable(u, c)
  <2>1. UNCHANGED <<awaiting, operations>>
    BY <1>2, <1>6 DEF LaneWriteFails
  <2>2. \A t \in Tokens : Held(w, t)' => \A i \in Ids : awaiting[i].tok # t
    BY <1>5, <1>6, NotificationOwesNone
  <2>3. \A t \in Tokens : Held(w, t)' => Delivering(w, t)'
    BY <1>1, <1>3, <1>4, <1>5, <2>1, <2>2 DEF Delivering
  <2> QED
    BY <1>2, <1>4, <2>1, <2>3, IdleLane
<1>7. CASE ~IsNotification(u) /\ Retryable(u, c)
  <2>1. Retry(u, c) /\ idOf[u] \in Ids
    BY <1>2, <1>7 DEF LaneWriteFails, IsNotification, Basis, Shape, TypeOK, TrackerTypeOK
  <2>2. \A d \in Conns, j \in Ids : operations'[d][j].tok = operations[d][j].tok
    <3>1. operations[c][idOf[u]] \in Operation
      BY <1>1, <2>1
    <3> QED
      BY <1>1, <2>1, <3>1 DEF Retry, Operation
  <2>3. \A j \in Ids : /\ awaiting'[j].tok = awaiting[j].tok
                       /\ awaiting[j].tok # u => awaiting'[j] = awaiting[j]
                       /\ awaiting[j].tok = u => awaiting'[j].conn = NoConn
    BY <1>1, <2>1 DEF Retry, Unplace, Owned, Outstanding, Owed, Tokens
  <2>4. \A t \in Tokens : Held(w, t)' => Delivering(w, t)'
    BY <1>1, <1>3, <1>4, <1>5, <2>3 DEF Delivering, Writing
  <2> QED
    BY <1>2, <1>4, <2>2, <2>3, <2>4, IdleLane
<1> QED
  BY <1>6, <1>7

\* Every step leaves the work where it belongs.
LEMMA NextPlaces ==
  ASSUME Basis, Places, [Next]_vars
  PROVE  Places'
<1>1. ASSUME NEW w \in Worktrees, Delivery(w)
      PROVE  Places'
  <2>1. CASE LaneSkips(w)
    <3>1. UNCHANGED <<session, awaiting, operations, lane, laneConn, upstream, responses, connState>>
      BY <2>1 DEF LaneSkips, trackerVars
    <3> QED
      BY <3>1, QuietPlaces
  <2> QED
    BY <1>1, <2>1, TakesPlaces, SeeksPlaces, BeginsPlaces, ReceivesPlaces, TooLargePlaces, FailsPlaces
       DEF Delivery
<1>2. ASSUME NEW c \in Conns, Reader(c) \/ RootsWorker(c) \/ Gopls(c)
      PROVE  Places'
  BY <1>2, OthersPlaces, RespondsPlaces, AnswersPlaces DEF Reader
<1> QED
  BY <1>1, <1>2, OthersPlaces, ClosesPlaces DEF Next

-----------------------------------------------------------------------------
(* The invariant of the session's work. *)

Core == Basis /\ Bound /\ Places /\ Credit

\* Nothing is asked for when a session starts.
LEMMA InitCore == Init => Core
<1> SUFFICES ASSUME Init PROVE Core
  OBVIOUS
<1>1. Basis
  BY InitBasis
<1>2. /\ \A i \in Ids : awaiting[i] = Vacant
      /\ \A c \in Conns, i \in Ids : operations[c][i] = NoOperation
      /\ \A c \in Conns : upstream[c] = {} /\ responses[c] = {}
      /\ \A w \in Worktrees : lane[w] = Idle
  BY DEF Init, TrackerInit, LaneInit
<1>3. Bound
  BY <1>2 DEF Bound, Vacant, Tokens
<1>4. Places
  BY <1>2 DEF Places, Unsent, Untouched, Held, Idle, Undialled, AnsweredApart, UpstreamWorkCharged,
              Has, NoOperation, Vacant, Tokens
<1>5. Credit
  BY <1>2 DEF Credit, VacantClean, OperationsOwn, AbandonedIffDisowned, NoOperation, Vacant, Conns
<1> QED
  BY <1>1, <1>3, <1>4, <1>5 DEF Core

\* It is inductive.
LEMMA NextCore ==
  ASSUME Core, [Next]_vars
  PROVE  Core'
  BY NextBasis, NextBound, NextPlaces, NextCredit DEF Core

\* It holds throughout.
LEMMA CoreInvariant == Spec => []Core
<1>1. Init => Core
  BY InitCore
<1>2. Core /\ [Next]_vars => Core'
  BY NextCore
<1> QED
  BY <1>1, <1>2, PTL DEF Spec

\* An operation counts as abandoned exactly when its connection no longer owes
\* the client the call it was begun for, through cancellations, retries of failed
\* writes, deadlines and ids the client uses again (removeLocked, retry,
\* beginOperation).
THEOREM AbandonmentExact == Spec => []AbandonedIffDisowned
<1>1. Core => AbandonedIffDisowned
  BY DEF Core, Credit
<1> QED
  BY <1>1, CoreInvariant, PTL

-----------------------------------------------------------------------------
(* Results. *)

\* A response is given to the call it answers: the operation under its id at the
\* connection it came from is its own, and that of the call the connection owes.
LEMMA ResponseOwner ==
  ASSUME Core, NEW c \in Conns, NEW t \in responses[c]
  PROVE  \A i \in {idOf[t]} \cap OwedBy(c) : awaiting[i].tok = t
<1>1. t \in Tokens /\ idOf[t] \in Ids
  BY DEF Core, Basis, IdShape, Shape, TypeOK, TrackerTypeOK, LaneTypeOK
<1>2. CASE session = "closed"
  BY <1>2 DEF Core, Basis, Books, ClosedDone, OwedBy
<1>3. CASE session # "closed"
  <2>1. operations[c][idOf[t]].tok = t
    BY <1>3 DEF Core, Places, UpstreamWorkCharged
  <2> QED
    BY <1>1, <2>1 DEF OwedBy, Core, Credit, AbandonedIffDisowned
<1> QED
  BY <1>2, <1>3

\* An answer about a generation is given to that generation.
LEMMA NextResults ==
  ASSUME Core, ResultsMatch, [Next]_vars
  PROVE  ResultsMatch'
<1>1. ASSUME UNCHANGED results
      PROVE  ResultsMatch'
  BY <1>1 DEF ResultsMatch
<1>2. ASSUME NEW t, NEW S, About(t, S), \A i \in S : awaiting[i].tok = t
      PROVE  ResultsMatch'
  BY <1>2 DEF About, ResultsMatch
<1>3. ASSUME NEW t, About(t, Owned(t))
      PROVE  ResultsMatch'
  BY <1>2, <1>3 DEF Owned
<1>4. CASE UNCHANGED vars
  BY <1>1, <1>4 DEF vars, trackerVars
<1>5. CASE Ingress
  BY <1>1, <1>5 DEF Ingress, Admit, AdmitOverflows, AdmitTooLate, AdmitNotification, Cancel,
                    IngressStops, Finish, trackerVars
<1>6. CASE Router
  BY <1>1, <1>3, <1>6 DEF Router, RouteTakes, RouteFails, RouteHandsOver, RouteOverflows, RouteStops,
     RouteBinds, RouteRefused, FailRouting, FailDelivery, trackerVars
<1>7. ASSUME NEW w \in Worktrees, Delivery(w)
      PROVE  ResultsMatch'
  BY <1>1, <1>3, <1>7 DEF Delivery, LaneSkips, LaneTakes, LaneGivesUp, LaneDropsNotification,
     LaneReuses, LaneDials, LaneDialFails, LaneBegins, LaneRefused, UpstreamReceives, LaneTooLarge,
     LaneDelivered, LaneWriteFails, FailDelivery, trackerVars
<1>8. ASSUME NEW w \in Worktrees, Controls(w)
      PROVE  ResultsMatch'
  BY <1>1, <1>8 DEF Controls, ControlChecks, ControlExpires, ControlWrites, trackerVars
<1>9. ASSUME NEW c \in Conns, ReaderResponds(c)
      PROVE  ResultsMatch'
  <2>1. PICK t \in responses[c] : About(t, {idOf[t]} \cap OwedBy(c))
    BY <1>9 DEF ReaderResponds, FinishResponse
  <2>2. \A i \in {idOf[t]} \cap OwedBy(c) : awaiting[i].tok = t
    BY ResponseOwner
  <2> QED
    BY <1>2, <2>1, <2>2
<1>10. ASSUME NEW c \in Conns, ReaderErrs(c) \/ ReaderFailsCalls(c) \/ ReaderLeaves(c)
                               \/ RootsWorker(c) \/ Gopls(c)
       PROVE  ResultsMatch'
  BY <1>1, <1>10 DEF ReaderErrs, ReaderFailsCalls, ReaderLeaves, RootsWorker, RootsReleases,
     RootsCloses, RootsFailsCalls, Gopls, UpstreamAnswers, Finish, trackerVars
<1>11. ASSUME NEW t \in Tokens, Timers(t)
       PROVE  ResultsMatch'
  BY <1>1, <1>3, <1>11 DEF Timers, TimerFires, TimerExpires, DeliveryExpires
<1>12. CASE SessionFails \/ SessionCloses
  BY <1>1, <1>12 DEF SessionFails, SessionCloses, ClearRequests
<1> QED
  BY <1>4, <1>5, <1>6, <1>7, <1>8, <1>9, <1>10, <1>11, <1>12 DEF Next, Reader

\* A result, a failed delivery or a deadline never answers a later call that took
\* over the id, whatever the client cancels and however late gopls answers: the
\* wire id is all a result carries, and the tracker's records make it enough.
THEOREM ResultsReachOwners == Spec => []ResultsMatch
<1>1. Init => ResultsMatch
  BY DEF Init, TrackerInit, ResultsMatch
<1>2. Core /\ ResultsMatch /\ [Next]_vars => ResultsMatch'
  BY NextResults
<1> QED
  BY <1>1, <1>2, CoreInvariant, PTL DEF Spec

-----------------------------------------------------------------------------
(* Credits. *)

\* A connection that is closed stays closed.
LEMMA ClosedStays ==
  ASSUME Basis, [Next]_vars, NEW c \in Conns, connState[c] = "closed"
  PROVE  connState'[c] = "closed"
<1>1. connState \in [Conns -> {"unused", "open", "released", "closed"}]
  BY DEF Basis, Shape, TypeOK, LaneTypeOK
<1>2. CASE UNCHANGED vars
  BY <1>2 DEF vars, laneVars
<1>3. CASE Ingress \/ Router
  BY <1>3 DEF Ingress, Admit, AdmitOverflows, AdmitTooLate, AdmitNotification, Cancel, IngressStops,
              Router, RouteTakes, RouteFails, RouteHandsOver, RouteOverflows, RouteStops,
              RouteBinds, RouteRefused, laneVars
<1>4. ASSUME NEW w \in Worktrees, Delivery(w) \/ Controls(w)
      PROVE  connState'[c] = "closed"
  <2>1. \/ UNCHANGED connState
        \/ \E d \in Conns : connState' = [connState EXCEPT ![d] = "open"] /\ connState[d] = "unused"
        \/ connState' = [connState EXCEPT ![lane[w].conn] = "closed"]
    BY <1>4 DEF Delivery, LaneSkips, LaneTakes, LaneGivesUp, LaneDropsNotification,
       LaneReuses, LaneDials, LaneDialFails, LaneBegins, LaneRefused, UpstreamReceives, LaneTooLarge,
       LaneDelivered, LaneWriteFails, ClosedUnlessAdopted, NextConn,
       Controls, ControlChecks, ControlExpires, ControlWrites
  <2> QED
    BY <1>1, <2>1
<1>5. ASSUME NEW d \in Conns, Reader(d) \/ RootsWorker(d) \/ Gopls(d)
      PROVE  connState'[c] = "closed"
  <2>1. \/ UNCHANGED connState
        \/ connState' = [connState EXCEPT ![d] = "closed"]
        \/ connState' = [connState EXCEPT ![d] = IF @ = "open" THEN "released" ELSE @]
    BY <1>5 DEF Reader, ReaderResponds, ReaderErrs, ReaderFailsCalls, ReaderLeaves, RootsWorker,
      RootsReleases, RootsCloses, RootsFailsCalls, Gopls, UpstreamAnswers, laneVars
  <2> QED
    BY <1>1, <2>1
<1>6. CASE (\E t \in Tokens : Timers(t)) \/ SessionFails \/ SessionCloses
  BY <1>6 DEF Timers, TimerFires, TimerExpires, DeliveryExpires, SessionFails, SessionCloses, laneVars
<1> QED
  BY <1>2, <1>3, <1>4, <1>5, <1>6 DEF Next

\* The goroutines that neither deliver nor read move no work.
LEMMA OthersQuiet ==
  ASSUME Basis,
         \/ UNCHANGED vars \/ Ingress \/ Router \/ SessionFails
         \/ \E w \in Worktrees : Controls(w)
         \/ \E c \in Conns : ReaderErrs(c) \/ ReaderFailsCalls(c) \/ ReaderLeaves(c) \/ RootsWorker(c)
         \/ \E t \in Tokens : Timers(t)
  PROVE  /\ UNCHANGED <<lane, laneConn, upstream, responses, inits>>
         /\ \A c \in Conns, i \in Ids : operations'[c][i].tok = operations[c][i].tok
<1>1. UNCHANGED <<lane, laneConn, upstream, responses, inits>>
  BY DEF vars, laneVars, Ingress, Admit, AdmitOverflows, AdmitTooLate, AdmitNotification, Cancel,
     IngressStops, Router, RouteTakes, RouteFails, RouteHandsOver, RouteOverflows, RouteStops,
     RouteBinds, RouteRefused, SessionFails, Controls, ControlChecks, ControlExpires, ControlWrites,
     ReaderErrs, ReaderFailsCalls, ReaderLeaves, RootsWorker, RootsReleases, RootsCloses,
     RootsFailsCalls, Timers, TimerFires, TimerExpires, DeliveryExpires
<1>2. \/ UNCHANGED operations
      \/ \E S \in SUBSET Ids : Forget(S) /\ operations' = Abandoned(S, operations)
  <2>1. \A c \in Conns : OwedBy(c) \in SUBSET Ids
    BY DEF OwedBy, Outstanding
  <2>2. \A t : Owned(t) \in SUBSET Ids
    BY DEF Owned, Outstanding
  <2>3. \A i \in Ids : {i} \in SUBSET Ids
    OBVIOUS
  <2>4. CASE UNCHANGED vars \/ Ingress \/ Router \/ SessionFails
    BY <2>2, <2>3, <2>4 DEF vars, trackerVars, Ingress, Admit, AdmitOverflows, AdmitTooLate,
       AdmitNotification, Cancel, IngressStops, Finish, Remove,
       Router, RouteTakes, RouteFails, RouteHandsOver, RouteOverflows, RouteStops, RouteBinds,
       RouteRefused, FailRouting, FailDelivery, SessionFails
  <2>5. CASE \/ \E w \in Worktrees : Controls(w)
             \/ \E c \in Conns : ReaderErrs(c) \/ ReaderFailsCalls(c) \/ ReaderLeaves(c) \/ RootsWorker(c)
    BY <2>1, <2>5 DEF Controls, ControlChecks, ControlExpires, ControlWrites, ReaderErrs,
       ReaderFailsCalls, ReaderLeaves, RootsWorker, RootsReleases, RootsCloses, RootsFailsCalls,
       Finish, Remove, trackerVars
  <2>6. CASE \E t \in Tokens : Timers(t)
    BY <2>2, <2>6 DEF Timers, TimerFires, TimerExpires, DeliveryExpires
  <2> QED
    BY <2>4, <2>5, <2>6
<1> QED
  BY <1>1, <1>2, ClaimQuiet

\* The message t is being written to c.
Writes(w, c, t) == Writing(w) /\ lane[w].conn = c /\ lane[w].tok = t

\* An operation is explained as before, if what explained it is still there.
LEMMA SameExplained ==
  ASSUME Core, ChargesExplained, [Next]_vars, NEW c \in Conns, NEW i \in Ids, NEW t \in Tokens,
         operations[c][i].tok = t,
         Has(c, t) => Has(c, t)' \/ connState'[c] = "closed",
         \A w \in Worktrees : Writes(w, c, t) => Writes(w, c, t)' \/ Has(c, t)' \/ connState'[c] = "closed"
  PROVE  \/ Has(c, t)'
         \/ \E w \in Worktrees : Writes(w, c, t)'
         \/ connState'[c] = "closed"
<1>1. \/ Has(c, t)
      \/ \E w \in Worktrees : Writes(w, c, t)
      \/ connState[c] = "closed"
  BY DEF ChargesExplained, Has, Writes, Tokens
<1>2. CASE connState[c] = "closed"
  BY <1>2, ClosedStays DEF Core
<1> QED
  BY <1>1, <1>2

\* The delivery goroutine leaves no operation unexplained.
LEMMA DeliveryExplained ==
  ASSUME Core, ChargesExplained, [Next]_vars, NEW w \in Worktrees, Delivery(w),
         NEW c \in Conns, NEW i \in Ids, NEW t \in Tokens, operations'[c][i].tok = t
  PROVE  \/ Has(c, t)'
         \/ \E v \in Worktrees : Writes(v, c, t)'
         \/ connState'[c] = "closed"
<1>1. /\ lane \in [Worktrees -> LaneState] /\ operations \in [Conns -> [Ids -> Operation]]
      /\ upstream \in [Conns -> SUBSET Tokens] /\ operations[c][i] \in Operation
      /\ connState \in [Conns -> {"unused", "open", "released", "closed"}]
  BY DEF Core, Basis, Shape, TypeOK, TrackerTypeOK, LaneTypeOK
<1>2. CASE UpstreamReceives(w)
  <2>1. operations[c][i].tok = t
    BY <1>2 DEF UpstreamReceives, trackerVars
  <2>2. idOf[t] = i /\ ~IsNotification(t)
    BY <2>1, TrackerAssumption DEF Core, Credit, OperationsOwn, IsNotification, Tokens
  <2>3. Has(c, t) => Has(c, t)'
    BY <1>1, <1>2 DEF UpstreamReceives, Has
  <2>4. ASSUME NEW v \in Worktrees, Writes(v, c, t)
        PROVE  Writes(v, c, t)'
    BY <1>1, <1>2, <2>4 DEF UpstreamReceives, Writes, Writing, LaneState
  <2> QED
    BY <2>1, <2>3, <2>4, SameExplained
<1>3. CASE LaneBegins(w)
  <2>1. /\ lane'[w].pc \in {"stale", "write"} /\ lane'[w].tok = lane[w].tok
        /\ lane'[w].conn = lane[w].conn /\ lane[w].pc = "gate"
        /\ \A v \in Worktrees \ {w} : lane'[v] = lane[v]
    BY <1>1, <1>3 DEF LaneBegins, LaneState
  <2>2. CASE operations[c][i].tok = t
    <3>1. Has(c, t) => Has(c, t)'
      BY <1>3 DEF LaneBegins, Has
    <3>2. ASSUME NEW v \in Worktrees, Writes(v, c, t)
          PROVE  Writes(v, c, t)'
      BY <2>1, <3>2 DEF Writes, Writing
    <3> QED
      BY <2>2, <3>1, <3>2, SameExplained
  <2>3. CASE operations[c][i].tok # t
    <3>1. c = lane[w].conn /\ t = lane[w].tok
      BY <1>1, <1>3, <2>3, SMTT(30) DEF LaneBegins, BeginOperation
    <3> QED
      BY <2>1, <3>1 DEF Writes, Writing
  <2> QED
    BY <2>2, <2>3
<1>5. ASSUME operations[c][i].tok = t
      PROVE  idOf[t] = i /\ ~IsNotification(t)
  BY <1>5, TrackerAssumption DEF Core, Credit, OperationsOwn, IsNotification, Tokens
<1>6. CASE LaneTooLarge(w)
  <2>1. PICK u \in Tokens, d \in Conns : u = lane[w].tok /\ d = lane[w].conn
    BY <1>6 DEF LaneTooLarge, Core, Basis, Shape, LaneShape
  <2>2. Has(c, t) => Has(c, t)'
    BY <1>6 DEF LaneTooLarge, Has
  <2>3. \A v \in Worktrees \ {w} : lane'[v] = lane[v]
    BY <1>1, <1>6 DEF LaneTooLarge
  <2>4. CASE IsNotification(u)
    <3>1. operations[c][i].tok = t
      BY <1>6, <2>1, <2>4 DEF LaneTooLarge
    <3>2. ~Writes(w, c, t)
      BY <1>5, <2>1, <2>4, <3>1 DEF Writes
    <3>3. \A v \in Worktrees : Writes(v, c, t) => Writes(v, c, t)'
      BY <2>3, <3>2 DEF Writes, Writing
    <3> QED
      BY <2>2, <3>1, <3>3, SameExplained
  <2>5. CASE ~IsNotification(u)
    <3>0. idOf[u] \in Ids
      BY <2>5 DEF IsNotification, Core, Basis, Shape, TypeOK, TrackerTypeOK
    <3>1. Ended(d, idOf[u]) \in [Conns -> [Ids -> Operation]]
      BY <1>6, <2>1, <2>5, <3>0, EndOperationType DEF LaneTooLarge, Core, Basis, Shape, TypeOK
    <3>2. operations'[c][i].tok = Ended(d, idOf[u])[c][i].tok
      BY <1>6, <2>1, <2>5, <3>1, AbandonedMarks DEF LaneTooLarge
    <3>3. Ended(d, idOf[u])[c][i] = IF c = d /\ i = idOf[u] THEN NoOperation ELSE operations[c][i]
      BY <1>1, <3>0 DEF Ended
    <3>4. operations[c][i].tok = t /\ ~(c = d /\ i = idOf[u])
      BY <3>2, <3>3 DEF NoOperation, Tokens
    <3>5. ~Writes(w, c, t)
      BY <1>5, <2>1, <3>4 DEF Writes
    <3>6. \A v \in Worktrees : Writes(v, c, t) => Writes(v, c, t)'
      BY <2>3, <3>5 DEF Writes, Writing
    <3> QED
      BY <2>2, <3>4, <3>6, SameExplained
  <2> QED
    BY <2>4, <2>5
<1>7. CASE LaneDelivered(w)
  <2>1. operations[c][i].tok = t
    BY <1>7 DEF LaneDelivered
  <2>2. Has(c, t) <=> Has(c, t)'
    BY <1>7 DEF LaneDelivered, Has
  <2>3. Writes(w, c, t) => Has(c, t)
    BY <1>1, <1>5, <1>7, <2>1 DEF LaneDelivered, Writes, Writing, Core, Places, Held, Delivering
  <2>4. \A v \in Worktrees \ {w} : Writes(v, c, t) => Writes(v, c, t)'
    BY <1>1, <1>7 DEF LaneDelivered, Writes, Writing
  <2> QED
    BY <2>1, <2>2, <2>3, <2>4, SameExplained
<1>8. CASE LaneWriteFails(w)
  <2>1. PICK u \in Tokens, d \in Conns : u = lane[w].tok /\ d = lane[w].conn
    BY <1>8 DEF LaneWriteFails, Writing, Core, Basis, Shape, LaneShape
  <2>2. operations[c][i].tok = t
    <3>1. CASE UNCHANGED operations
      BY <3>1
    <3>2. CASE operations' = [operations EXCEPT ![d][idOf[u]].abandoned = TRUE]
      <4>1. operations'[c][i] = operations[c][i]
            \/ operations'[c][i] = [operations[c][i] EXCEPT !.abandoned = TRUE]
        BY <1>1, <3>2
      <4> QED
        BY <1>1, <4>1 DEF Operation
    <3> QED
      BY <1>8, <2>1, <3>1, <3>2 DEF LaneWriteFails, Retry
  <2>3. Has(c, t) => Has(c, t)'
    BY <1>8 DEF LaneWriteFails, Has
  <2>4. Writes(w, c, t) => connState'[c] = "closed"
    BY <1>1, <1>8 DEF LaneWriteFails, Writes
  <2>5. \A v \in Worktrees \ {w} : Writes(v, c, t) => Writes(v, c, t)'
    BY <1>1, <1>8 DEF LaneWriteFails, Writes, Writing
  <2> QED
    BY <2>2, <2>3, <2>4, <2>5, SameExplained
<1>9. CASE \/ LaneSkips(w) \/ LaneTakes(w) \/ LaneGivesUp(w) \/ LaneDropsNotification(w)
           \/ LaneReuses(w) \/ LaneDialFails(w) \/ LaneRefused(w) \/ \E d \in Conns : LaneDials(w, d)
  <2>1. operations[c][i].tok = t
    <3>1. CASE UNCHANGED operations
      BY <3>1
    <3>2. CASE LaneGivesUp(w) \/ LaneRefused(w)
      BY <3>2, ClaimQuiet DEF LaneGivesUp, LaneRefused, FailDelivery, Remove, Core
    <3> QED
      BY <1>9, <3>1, <3>2 DEF LaneSkips, LaneTakes, LaneDropsNotification, LaneReuses, LaneDialFails,
         LaneDials, trackerVars
  <2>2. Has(c, t) => Has(c, t)'
    BY <1>9 DEF LaneSkips, LaneTakes, LaneGivesUp, LaneDropsNotification, LaneReuses, LaneDialFails,
       LaneRefused, LaneDials, Has
  <2>3. \A v \in Worktrees \ {w} : lane'[v] = lane[v]
    BY <1>1, <1>9 DEF LaneSkips, LaneTakes, LaneGivesUp, LaneDropsNotification, LaneReuses,
       LaneDialFails, LaneRefused, LaneDials
  <2>4. ~Writing(w) \/ lane' = lane
    BY <1>9 DEF LaneSkips, LaneTakes, LaneGivesUp, LaneDropsNotification, LaneReuses,
       LaneDialFails, LaneRefused, LaneDials, Trying, Writing
  <2>5. \A v \in Worktrees : Writes(v, c, t) => Writes(v, c, t)'
    BY <2>3, <2>4 DEF Writes, Writing
  <2> QED
    BY <2>1, <2>2, <2>5, SameExplained
<1> QED
  BY <1>2, <1>3, <1>6, <1>7, <1>8, <1>9 DEF Delivery

\* A reader that has a result resolves the operation it is about.
LEMMA RespondsExplained ==
  ASSUME Core, ChargesExplained, [Next]_vars, NEW d \in Conns, ReaderResponds(d),
         NEW c \in Conns, NEW i \in Ids, NEW t \in Tokens, operations'[c][i].tok = t
  PROVE  \/ Has(c, t)'
         \/ \E v \in Worktrees : Writes(v, c, t)'
         \/ connState'[c] = "closed"
<1>1. PICK u \in responses[d] : /\ FinishResponse(d, u) /\ UNCHANGED <<lane, upstream>>
                                /\ responses' = [responses EXCEPT ![d] = @ \ {u}]
  BY DEF ReaderResponds
<1>2. /\ operations \in [Conns -> [Ids -> Operation]] /\ responses \in [Conns -> SUBSET Tokens]
      /\ u \in Tokens /\ idOf[u] \in Ids
  BY DEF Core, Basis, IdShape, Shape, TypeOK, TrackerTypeOK, LaneTypeOK
<1>3. Ended(d, idOf[u]) \in [Conns -> [Ids -> Operation]]
  BY <1>1, <1>2, EndOperationType DEF FinishResponse, Core, Basis, Shape, TypeOK
<1>4. operations'[c][i].tok = Ended(d, idOf[u])[c][i].tok
  BY <1>1, <1>3, AbandonedMarks DEF FinishResponse
<1>5. Ended(d, idOf[u])[c][i] = IF c = d /\ i = idOf[u] THEN NoOperation ELSE operations[c][i]
  BY <1>2 DEF Ended
<1>6. operations[c][i].tok = t /\ ~(c = d /\ i = idOf[u])
  BY <1>4, <1>5 DEF NoOperation, Tokens
<1>7. idOf[t] = i
  BY <1>6 DEF Core, Credit, OperationsOwn, Tokens
<1>8. Has(c, t) => Has(c, t)'
  BY <1>1, <1>2, <1>6, <1>7 DEF Has
<1>9. \A v \in Worktrees : Writes(v, c, t) => Writes(v, c, t)'
  BY <1>1 DEF Writes, Writing
<1> QED
  BY <1>6, <1>8, <1>9, SameExplained

\* No step leaves a credit unexplained.
LEMMA NextExplained ==
  ASSUME Core, ChargesExplained, [Next]_vars
  PROVE  ChargesExplained'
<1>1. ASSUME NEW c \in Conns, NEW i \in Ids, NEW t \in Tokens, operations'[c][i].tok = t
      PROVE  \/ Has(c, t)'
             \/ \E v \in Worktrees : Writes(v, c, t)'
             \/ connState'[c] = "closed"
  <2>1. ASSUME UNCHANGED <<lane, upstream, responses>>, operations'[c][i].tok = operations[c][i].tok
        PROVE  \/ Has(c, t)'
               \/ \E v \in Worktrees : Writes(v, c, t)'
               \/ connState'[c] = "closed"
    <3>1. Has(c, t) => Has(c, t)'
      BY <2>1 DEF Has
    <3>2. \A v \in Worktrees : Writes(v, c, t) => Writes(v, c, t)'
      BY <2>1 DEF Writes, Writing
    <3> QED
      BY <1>1, <2>1, <3>1, <3>2, SameExplained
  <2>2. CASE \/ UNCHANGED vars \/ Ingress \/ Router \/ SessionFails
             \/ \E w \in Worktrees : Controls(w)
             \/ \E d \in Conns : ReaderErrs(d) \/ ReaderFailsCalls(d) \/ ReaderLeaves(d) \/ RootsWorker(d)
             \/ \E u \in Tokens : Timers(u)
    BY <2>1, <2>2, OthersQuiet DEF Core
  <2>3. ASSUME NEW w \in Worktrees, Delivery(w)
        PROVE  \/ Has(c, t)'
               \/ \E v \in Worktrees : Writes(v, c, t)'
               \/ connState'[c] = "closed"
    BY <1>1, <2>3, DeliveryExplained
  <2>4. ASSUME NEW d \in Conns, ReaderResponds(d)
        PROVE  \/ Has(c, t)'
               \/ \E v \in Worktrees : Writes(v, c, t)'
               \/ connState'[c] = "closed"
    BY <1>1, <2>4, RespondsExplained
  <2>5. ASSUME NEW d \in Conns, Gopls(d)
        PROVE  \/ Has(c, t)'
               \/ \E v \in Worktrees : Writes(v, c, t)'
               \/ connState'[c] = "closed"
    <3>1. operations[c][i].tok = t
      BY <1>1, <2>5 DEF Gopls, UpstreamAnswers, trackerVars
    <3>2. Has(c, t) => Has(c, t)'
      BY <2>5 DEF Gopls, UpstreamAnswers, Has, Core, Basis, Shape, TypeOK, LaneTypeOK
    <3>3. \A v \in Worktrees : Writes(v, c, t) => Writes(v, c, t)'
      BY <2>5 DEF Gopls, UpstreamAnswers, Writes, Writing
    <3> QED
      BY <3>1, <3>2, <3>3, SameExplained
  <2>6. ~SessionCloses
    BY <1>1 DEF SessionCloses, ClearRequests, NoOperation, Tokens
  <2> QED
    BY <2>2, <2>3, <2>4, <2>5, <2>6 DEF Next, Reader
<1>2. ASSUME NEW c \in Conns, NEW i \in Ids
      PROVE  operations'[c][i].tok \in Tokens \cup {NoToken}
  <2>1. operations' \in [Conns -> [Ids -> Operation]]
    BY NextCore DEF Core, Basis, Shape, TypeOK, TrackerTypeOK
  <2>2. operations'[c][i] \in Operation
    BY <2>1
  <2> QED
    BY <2>2 DEF Operation
<1> QED
  BY <1>1, <1>2 DEF ChargesExplained, Has, Writes

\* The credits of a session are the work gopls has and the work it may have: a
\* cancellation, a deadline or a failed write frees no credit gopls is still using, and
\* nothing but that work, a write in progress or a lost connection keeps one
\* (beginOperation, endOperationLocked, retry).
THEOREM CreditsAreWork == Spec => []ChargedIffWorking
<1>1. Init => ChargesExplained
  BY DEF Init, TrackerInit, ChargesExplained, NoOperation
<1>2. Core /\ ChargesExplained /\ [Next]_vars => ChargesExplained'
  BY NextExplained
<1>3. Core /\ ChargesExplained => ChargedIffWorking
  BY DEF Core, Places, ChargedIffWorking
<1> QED
  BY <1>1, <1>2, <1>3, CoreInvariant, PTL DEF Spec

-----------------------------------------------------------------------------
(* The tallies. *)

\* The calls, and the operations, a worktree is charged with.
Charged(w) == {i \in Outstanding : awaiting[i].wt = w}
Begun(w) == {k \in Unresolved : operations[k[1]][k[2]].wt = w}

\* The tally of the calls.
CallsCounted ==
  /\ \A w \in Worktrees : perWorktree[w] = Cardinality(Charged(w)) /\ perWorktree[w] <= PerLane
  /\ Cardinality(Outstanding) <= Session

\* The tally of the operations.
WorkCounted ==
  /\ \A w \in Worktrees :
       operationsPerWorktree[w] = Cardinality(Begun(w)) /\ operationsPerWorktree[w] <= PerLane
  /\ Cardinality(Unresolved) <= Session

\* The lanes: the router holds no call it could not open a lane for.
LanesFit ==
  /\ Cardinality(lanes) <= MaxLanes
  /\ routing.wt # NoWorktree => LaneAvailable(routing.wt)

\* All the tables are finite.
LEMMA TablesFinite ==
  /\ IsFiniteSet(Outstanding) /\ IsFiniteSet(Unresolved)
  /\ \A w \in Worktrees : IsFiniteSet(Charged(w)) /\ IsFiniteSet(Begun(w))
<1>1. IsFiniteSet(Ids) /\ IsFiniteSet(Conns)
  BY TrackerAssumption, FS_Interval DEF Conns
<1>2. IsFiniteSet(Conns \X Ids)
  BY <1>1, FS_Product
<1>3. IsFiniteSet(Outstanding) /\ IsFiniteSet(Unresolved)
  BY <1>1, <1>2, FS_Subset DEF Outstanding, Unresolved
<1>4. \A w \in Worktrees : Charged(w) \in SUBSET Outstanding /\ Begun(w) \in SUBSET Unresolved
  BY DEF Charged, Begun
<1> QED
  BY <1>3, <1>4, FS_Subset

\* Calls that are claimed are given back where they were charged.
LEMMA ForgetCounted ==
  ASSUME Basis, CallsCounted, NEW S \in SUBSET Outstanding, Forget(S)
  PROVE  CallsCounted'
<1>1. \A i \in Ids : awaiting'[i] = IF i \in S THEN Vacant ELSE awaiting[i]
  BY DEF Forget
<1>2. Outstanding' = Outstanding \ S
  BY <1>1 DEF Outstanding, Vacant
<1>3. ASSUME NEW w \in Worktrees
      PROVE  perWorktree'[w] = Cardinality(Charged(w)') /\ perWorktree'[w] <= PerLane
  <2>1. Charged(w)' = Charged(w) \ S
    BY <1>1, <1>2 DEF Charged, Outstanding
  <2>2. {i \in S : awaiting[i].wt = w} = Charged(w) \cap S
    BY DEF Charged
  <2>3. perWorktree'[w] = Release(perWorktree[w], Cardinality(Charged(w) \cap S))
    BY <2>2 DEF Forget
  <2>4. /\ IsFiniteSet(Charged(w))
        /\ Cardinality(Charged(w)') = Cardinality(Charged(w)) - Cardinality(Charged(w) \cap S)
    BY <2>1, TablesFinite, FS_Difference
  <2>5. /\ Cardinality(Charged(w)) \in Nat /\ Cardinality(Charged(w) \cap S) \in Nat
        /\ Cardinality(Charged(w) \cap S) <= Cardinality(Charged(w))
    BY <2>4, FS_Intersection, FS_CardinalityType
  <2> QED
    BY <2>3, <2>4, <2>5, TrackerAssumption DEF CallsCounted, Release
<1>4. Cardinality(Outstanding \ S) <= Cardinality(Outstanding)
  BY TablesFinite, FS_Subset
<1>5. Cardinality(Outstanding) \in Nat /\ Cardinality(Outstanding \ S) \in Nat
  BY TablesFinite, FS_Subset, FS_CardinalityType
<1> QED
  BY <1>2, <1>3, <1>4, <1>5, TrackerAssumption DEF CallsCounted

\* So is what is charged to a worktree when no call moves to another.
LEMMA SameCalls ==
  ASSUME CallsCounted, UNCHANGED perWorktree,
         \A i \in Ids : awaiting'[i].tok = awaiting[i].tok /\ awaiting'[i].wt = awaiting[i].wt
  PROVE  CallsCounted'
<1>1. Outstanding' = Outstanding /\ \A w \in Worktrees : Charged(w)' = Charged(w)
  BY DEF Outstanding, Charged
<1> QED
  BY <1>1 DEF CallsCounted

\* The calls of a session stay counted.
LEMMA NextCallsCounted ==
  ASSUME Core, CallsCounted, [Next]_vars
  PROVE  CallsCounted'
<1>0. Basis /\ Accounts /\ awaiting \in [Ids -> Owed]
  BY StepAccounts DEF Core, Basis, Shape, TypeOK, TrackerTypeOK
<1>1. CASE Rests
  BY <1>1, SameCalls DEF Rests
<1>2. ASSUME NEW i \in Ids, Enters(i)
      PROVE  CallsCounted'
  <2>1. /\ awaiting'[i].tok # NoToken /\ awaiting'[i].wt = NoWorktree /\ awaiting[i].tok = NoToken
        /\ \A j \in Ids \ {i} : awaiting'[j] = awaiting[j]
    BY <1>0, <1>2 DEF Enters, Track, Vacant, Admissible, Basis, Shape, TypeOK, TrackerTypeOK
  <2>2. Outstanding' = Outstanding \cup {i}
    BY <2>1 DEF Outstanding
  <2>3. \A w \in Worktrees : Charged(w)' = Charged(w)
    BY <2>1, <2>2, TrackerAssumption DEF Charged, Outstanding
  <2>4. Cardinality(Outstanding) \in Nat
    BY TablesFinite, FS_CardinalityType
  <2>5. Cardinality(Outstanding') = Cardinality(Outstanding) + 1
    BY <2>1, <2>2, TablesFinite, FS_AddElement DEF Outstanding
  <2> QED
    BY <1>2, <2>3, <2>4, <2>5, TrackerAssumption DEF CallsCounted, Enters, Admissible
<1>3. ASSUME NEW S \in SUBSET Outstanding, Claims(S)
      PROVE  CallsCounted'
  BY <1>0, <1>3, ForgetCounted DEF Claims
<1>4. ASSUME NEW c \in Conns, NEW i \in Ids, NEW S \in SUBSET Outstanding, Resolves(c, i, S)
      PROVE  CallsCounted'
  BY <1>0, <1>4, ForgetCounted DEF Resolves
<1>5. ASSUME NEW t \in Tokens, NEW w \in Worktrees, Binds(t, w)
      PROVE  CallsCounted'
  <2>1. PICK i \in Ids : Owned(t) = {i} /\ awaiting[i].tok = t /\ awaiting[i].wt = NoWorktree
    BY <1>0, <1>5, OneOwned DEF Binds, Bindable, Owned, Outstanding
  <2>2. /\ awaiting'[i].tok = t /\ awaiting'[i].wt = w
        /\ \A j \in Ids \ {i} : awaiting'[j] = awaiting[j]
    BY <1>0, <1>5, <2>1 DEF Binds, Bind, Owed
  <2>3. Outstanding' = Outstanding /\ i \in Outstanding
    BY <2>1, <2>2 DEF Outstanding, Tokens
  <2>4. ASSUME NEW v \in Worktrees
        PROVE  Charged(v)' = IF v = w THEN Charged(v) \cup {i} ELSE Charged(v)
    BY <2>1, <2>2, <2>3, TrackerAssumption DEF Charged, Outstanding
  <2>5. i \notin Charged(w)
    BY <2>1, TrackerAssumption DEF Charged
  <2>6. Cardinality(Charged(w)') = Cardinality(Charged(w)) + 1
    BY <2>4, <2>5, TablesFinite, FS_AddElement
  <2>7. /\ perWorktree[w] < PerLane
        /\ \A v \in Worktrees : perWorktree'[v] = IF v = w THEN perWorktree[w] + 1 ELSE perWorktree[v]
    BY <1>5 DEF Binds, Bindable, Bind, Core, Basis, Shape, TypeOK, TrackerTypeOK
  <2>8. perWorktree[w] \in Nat
    BY DEF Core, Basis, Shape, TypeOK, TrackerTypeOK
  <2> QED
    BY <2>3, <2>4, <2>6, <2>7, <2>8, TrackerAssumption DEF CallsCounted
<1>6. ASSUME NEW t \in Tokens, NEW c \in Conns, NEW w \in Worktrees, Begins(t, c, w)
      PROVE  CallsCounted'
  <2>1. \A i \in Ids : awaiting'[i].tok = awaiting[i].tok /\ awaiting'[i].wt = awaiting[i].wt
    BY <1>0, <1>6 DEF Begins, BeginOperation, Owed
  <2> QED
    BY <1>6, <2>1, SameCalls DEF Begins
<1>7. ASSUME NEW t \in Tokens, NEW c \in Conns, Retries(t, c)
      PROVE  CallsCounted'
  <2>1. \A i \in Ids : awaiting'[i].tok = awaiting[i].tok /\ awaiting'[i].wt = awaiting[i].wt
    BY <1>0, <1>7 DEF Retries, Retry, Unplace, Owed
  <2> QED
    BY <1>7, <2>1, SameCalls DEF Retries
<1>8. CASE Clears
  BY <1>0, <1>8, ForgetCounted DEF Clears
<1> QED
  BY <1>0, <1>1, <1>2, <1>3, <1>4, <1>5, <1>6, <1>7, <1>8 DEF Accounts

\* Operations that stay as they were are charged as they were.
LEMMA SameWork ==
  ASSUME WorkCounted, UNCHANGED operationsPerWorktree,
         \A c \in Conns, i \in Ids :
           operations'[c][i].tok = operations[c][i].tok /\ operations'[c][i].wt = operations[c][i].wt
  PROVE  WorkCounted'
<1>1. Unresolved' = Unresolved /\ \A w \in Worktrees : Begun(w)' = Begun(w)
  BY DEF Unresolved, Begun
<1> QED
  BY <1>1 DEF WorkCounted

\* The operation a result resolves is given back where it was charged.
LEMMA ResolvesCounted ==
  ASSUME Core, WorkCounted, NEW c \in Conns, NEW i \in Ids, NEW S, Resolves(c, i, S)
  PROVE  WorkCounted'
<1>1. operations \in [Conns -> [Ids -> Operation]] /\ operationsPerWorktree \in [Worktrees -> Nat]
  BY DEF Core, Basis, Shape, TypeOK, TrackerTypeOK
<1>2. Ended(c, i) \in [Conns -> [Ids -> Operation]]
  BY EndOperationType DEF Resolves, Core, Basis, Shape, TypeOK
<1>3. \A d \in Conns, j \in Ids :
        Ended(c, i)[d][j] = IF d = c /\ j = i THEN NoOperation ELSE operations[d][j]
  BY <1>1 DEF Ended
<1>4. \A d \in Conns, j \in Ids :
        /\ operations'[d][j].tok = Ended(c, i)[d][j].tok
        /\ operations'[d][j].wt = Ended(c, i)[d][j].wt
  BY <1>2, AbandonedMarks DEF Resolves
<1>5. CASE operations[c][i].tok = NoToken
  <2>1. UNCHANGED operationsPerWorktree
    BY <1>5 DEF Resolves, EndOperation
  <2>2. Unresolved' = Unresolved
    BY <1>3, <1>4, <1>5 DEF Unresolved, NoOperation
  <2>3. \A w \in Worktrees : Begun(w)' = Begun(w)
    BY <1>3, <1>4, <1>5, <2>2 DEF Begun, Unresolved
  <2> QED
    BY <2>1, <2>2, <2>3 DEF WorkCounted
<1>6. CASE operations[c][i].tok # NoToken
  <2>1. PICK u \in Worktrees : u = operations[c][i].wt
    BY <1>6 DEF Core, Credit, OperationsOwn
  <2>2. <<c, i>> \in Unresolved /\ Unresolved' = Unresolved \ {<<c, i>>}
    BY <1>3, <1>4, <1>6 DEF Unresolved, NoOperation
  <2>3. \A w \in Worktrees : Begun(w)' = Begun(w) \ {<<c, i>>}
    BY <1>3, <1>4, <2>2 DEF Begun, Unresolved
  <2>4. \A w \in Worktrees : <<c, i>> \in Begun(w) <=> w = u
    BY <2>1, <2>2 DEF Begun
  <2>5. \A w \in Worktrees :
          operationsPerWorktree'[w] = IF w = u THEN Release(operationsPerWorktree[w], 1)
                                      ELSE operationsPerWorktree[w]
    BY <1>1, <1>6, <2>1 DEF Resolves, EndOperation
  <2>6. \A w \in Worktrees :
          /\ IsFiniteSet(Begun(w)) /\ Cardinality(Begun(w)) \in Nat
          /\ Cardinality(Begun(w)') = IF w = u THEN Cardinality(Begun(w)) - 1 ELSE Cardinality(Begun(w))
    <3> TAKE w \in Worktrees
    <3>1. IsFiniteSet(Begun(w)) /\ Cardinality(Begun(w)) \in Nat
      BY TablesFinite, FS_CardinalityType
    <3>2. Cardinality(Begun(w) \ {<<c, i>>}) = IF <<c, i>> \in Begun(w) THEN Cardinality(Begun(w)) - 1
                                                ELSE Cardinality(Begun(w))
      BY <3>1, FS_RemoveElement
    <3> QED
      BY <2>3, <2>4, <3>1, <3>2
  <2>7. Cardinality(Begun(u)) > 0
    BY <2>4, <2>6, FS_EmptySet
  <2>8. Cardinality(Unresolved) \in Nat /\ Cardinality(Unresolved') = Cardinality(Unresolved) - 1
    BY <2>2, TablesFinite, FS_RemoveElement, FS_CardinalityType
  <2> QED
    BY <2>5, <2>6, <2>7, <2>8, TrackerAssumption DEF WorkCounted, Release
<1> QED
  BY <1>5, <1>6

\* An operation that is begun is charged within the limits.
LEMMA BeginsCounted ==
  ASSUME Core, WorkCounted, NEW t \in Tokens, NEW c \in Conns, NEW w \in Worktrees, Begins(t, c, w)
  PROVE  WorkCounted'
<1>1. operations \in [Conns -> [Ids -> Operation]] /\ operationsPerWorktree \in [Worktrees -> Nat]
  BY DEF Core, Basis, Shape, TypeOK, TrackerTypeOK
<1>2. PICK i \in Ids : i = idOf[t]
  BY OneOwned DEF Begins, Reservable, Core
<1>3. operations' = [operations EXCEPT ![c][i] = [tok |-> t, wt |-> w, abandoned |-> FALSE]]
  BY <1>2 DEF Begins, BeginOperation
<1>4. /\ operations[c][i].tok = NoToken /\ operations'[c][i].tok = t /\ operations'[c][i].wt = w
      /\ t # NoToken
      /\ \A d \in Conns, j \in Ids : d # c \/ j # i => operations'[d][j] = operations[d][j]
  BY <1>1, <1>2, <1>3 DEF Begins, Reservable, Tokens
<1>5. <<c, i>> \notin Unresolved /\ Unresolved' = Unresolved \cup {<<c, i>>}
  BY <1>4 DEF Unresolved
<1>6. \A v \in Worktrees : Begun(v)' = IF v = w THEN Begun(v) \cup {<<c, i>>} ELSE Begun(v)
  BY <1>4, <1>5 DEF Begun, Unresolved
<1>7. <<c, i>> \notin Begun(w)
  BY <1>5 DEF Begun
<1>8. Cardinality(Begun(w)') = Cardinality(Begun(w)) + 1
  BY <1>6, <1>7, TablesFinite, FS_AddElement
<1>9. Cardinality(Unresolved) \in Nat /\ Cardinality(Unresolved') = Cardinality(Unresolved) + 1
  BY <1>5, TablesFinite, FS_AddElement, FS_CardinalityType
<1>10. \A v \in Worktrees :
         operationsPerWorktree'[v] = IF v = w THEN operationsPerWorktree[v] + 1
                                     ELSE operationsPerWorktree[v]
  BY <1>1 DEF Begins, BeginOperation
<1>11. Cardinality(Unresolved) < Session /\ operationsPerWorktree[w] < PerLane
  BY DEF Begins, Reservable
<1> QED
  BY <1>1, <1>6, <1>8, <1>9, <1>10, <1>11, TrackerAssumption DEF WorkCounted

\* The operations of a session stay counted.
LEMMA NextWorkCounted ==
  ASSUME Core, WorkCounted, [Next]_vars
  PROVE  WorkCounted'
<1>0. Accounts /\ operations \in [Conns -> [Ids -> Operation]]
  BY StepAccounts DEF Core, Basis, Shape, TypeOK, TrackerTypeOK
<1>1. CASE Rests \/ \E i \in Ids : Enters(i)
  BY <1>1, SameWork DEF Rests, Enters
<1>2. ASSUME NEW S \in SUBSET Outstanding, Claims(S)
      PROVE  WorkCounted'
  BY <1>0, <1>2, AbandonedMarks, SameWork DEF Claims
<1>3. ASSUME NEW c \in Conns, NEW i \in Ids, NEW S \in SUBSET Outstanding, Resolves(c, i, S)
      PROVE  WorkCounted'
  BY <1>3, ResolvesCounted
<1>4. ASSUME NEW t \in Tokens, NEW w \in Worktrees, Binds(t, w)
      PROVE  WorkCounted'
  BY <1>4, SameWork DEF Binds
<1>5. ASSUME NEW t \in Tokens, NEW c \in Conns, NEW w \in Worktrees, Begins(t, c, w)
      PROVE  WorkCounted'
  BY <1>5, BeginsCounted
<1>6. ASSUME NEW t \in Tokens, NEW c \in Conns, Retries(t, c)
      PROVE  WorkCounted'
  <2>1. \A d \in Conns, j \in Ids :
          \/ operations'[d][j] = operations[d][j]
          \/ operations'[d][j] = [operations[d][j] EXCEPT !.abandoned = TRUE]
    BY <1>0, <1>6 DEF Retries, Retry
  <2>2. \A d \in Conns, j \in Ids : operations[d][j] \in Operation
    BY <1>0
  <2>3. \A d \in Conns, j \in Ids :
          operations'[d][j].tok = operations[d][j].tok /\ operations'[d][j].wt = operations[d][j].wt
    <3> TAKE d \in Conns, j \in Ids
    <3>1. PICK o \in Operation : o = operations[d][j]
      BY <2>2
    <3>2. [o EXCEPT !.abandoned = TRUE].tok = o.tok /\ [o EXCEPT !.abandoned = TRUE].wt = o.wt
      BY DEF Operation
    <3> QED
      BY <2>1, <3>1, <3>2
  <2> QED
    BY <1>6, <2>3, SameWork DEF Retries
<1>7. CASE Clears
  <2>1. Unresolved' = {} /\ \A w \in Worktrees : Begun(w)' = {} /\ operationsPerWorktree'[w] = 0
    BY <1>7 DEF Clears, Unresolved, Begun, NoOperation
  <2> QED
    BY <2>1, FS_EmptySet, TrackerAssumption DEF WorkCounted
<1> QED
  BY <1>0, <1>1, <1>2, <1>3, <1>4, <1>5, <1>6, <1>7 DEF Accounts

\* A lane is opened only where there is room for it.
LEMMA NextLanesFit ==
  ASSUME Core, LanesFit, [Next]_vars
  PROVE  LanesFit'
<1>1. /\ lanes \in SUBSET Worktrees /\ routing \in [tok : Tokens \cup {NoToken}, wt : Worktrees \cup {NoWorktree}]
  BY DEF Core, Basis, Shape, TypeOK, LaneTypeOK, BridgeTypeOK
<1>2. IsFiniteSet(lanes)
  BY <1>1, TrackerAssumption, FS_Subset
<1>3. ASSUME UNCHANGED <<lanes, routing>>
      PROVE  LanesFit'
  BY <1>3 DEF LanesFit, LaneAvailable
<1>4. CASE RouteTakes
  BY <1>4 DEF RouteTakes, LanesFit, NotRouting, laneVars
<1>5. ASSUME FailRouting, UNCHANGED lanes
      PROVE  LanesFit'
  BY <1>5 DEF FailRouting, LanesFit, NotRouting
<1>6. ASSUME NEW w \in Worktrees, RouteBinds(w)
      PROVE  LanesFit'
  <2>1. routing'.wt = w /\ LaneAvailable(w) /\ UNCHANGED lanes
    BY <1>1, <1>6 DEF RouteBinds, MayBind, laneVars
  <2> QED
    BY <2>1 DEF LanesFit, LaneAvailable
<1>7. CASE RouteHandsOver \/ RouteStops
  <2>1. lanes' = lanes \cup {routing.wt} /\ LaneAvailable(routing.wt) /\ routing'.wt = NoWorktree
    BY <1>7 DEF RouteHandsOver, RouteStops, LanesFit, NotRouting
  <2>2. /\ Cardinality(lanes) \in Nat
        /\ Cardinality(lanes') = IF routing.wt \in lanes THEN Cardinality(lanes) ELSE Cardinality(lanes) + 1
    BY <1>2, <2>1, FS_AddElement, FS_CardinalityType
  <2> QED
    BY <2>1, <2>2, BridgeAssumption DEF LanesFit, LaneAvailable
<1>8. CASE Router
  BY <1>4, <1>5, <1>6, <1>7, <1>8 DEF Router, RouteFails, RouteOverflows, RouteRefused, laneVars
<1>9. CASE UNCHANGED vars \/ Ingress \/ SessionFails \/ SessionCloses
  BY <1>3, <1>9 DEF vars, laneVars, bridgeVars, Ingress, Admit, AdmitOverflows, AdmitTooLate,
     AdmitNotification, Cancel, IngressStops, SessionFails, SessionCloses
<1>10. ASSUME NEW w \in Worktrees, Delivery(w) \/ Controls(w)
       PROVE  LanesFit'
  BY <1>3, <1>10 DEF bridgeVars, Delivery, LaneSkips, LaneTakes, LaneGivesUp, LaneDropsNotification,
     LaneReuses, LaneDialFails, LaneBegins, LaneRefused, UpstreamReceives, LaneTooLarge,
     LaneDelivered, LaneWriteFails, LaneDials, Controls, ControlChecks, ControlExpires, ControlWrites
<1>11. ASSUME NEW c \in Conns, Reader(c) \/ RootsWorker(c) \/ Gopls(c)
       PROVE  LanesFit'
  BY <1>3, <1>11 DEF bridgeVars, laneVars, Reader, ReaderResponds, ReaderErrs, ReaderFailsCalls,
     ReaderLeaves, RootsWorker, RootsReleases, RootsCloses, RootsFailsCalls, Gopls, UpstreamAnswers
<1>12. ASSUME NEW t \in Tokens, Timers(t)
       PROVE  LanesFit'
  BY <1>3, <1>12 DEF bridgeVars, laneVars, Timers, TimerFires, TimerExpires, DeliveryExpires
<1> QED
  BY <1>8, <1>9, <1>10, <1>11, <1>12 DEF Next

\* The two tallies of a session are the sizes of the tables they count, so that no
\* entry is charged twice, given back twice or left behind, and no limit is passed
\* (admit, bindWorktree, beginOperation, removeLocked, endOperationLocked).
THEOREM CountsAreExact == Spec => []TalliesExact
<1>1. Init => CallsCounted /\ WorkCounted /\ LanesFit
  <2> SUFFICES ASSUME Init PROVE CallsCounted /\ WorkCounted /\ LanesFit
    OBVIOUS
  <2>1. Outstanding = {} /\ Unresolved = {} /\ \A w \in Worktrees : Charged(w) = {} /\ Begun(w) = {}
    BY DEF Init, TrackerInit, Outstanding, Unresolved, Charged, Begun, Vacant, NoOperation
  <2>2. \A w \in Worktrees : perWorktree[w] = 0 /\ operationsPerWorktree[w] = 0
    BY DEF Init, TrackerInit
  <2>3. routing.wt = NoWorktree /\ lanes \in {{}, {Home}}
    BY DEF Init, NotRouting
  <2>4. Cardinality(lanes) <= MaxLanes
    <3>1. Cardinality({}) = 0 /\ Cardinality({Home}) = 1
      BY FS_EmptySet, FS_Singleton
    <3> QED
      BY <2>3, <3>1, BridgeAssumption
  <2> QED
    BY <2>1, <2>2, <2>3, <2>4, FS_EmptySet, TrackerAssumption DEF CallsCounted, WorkCounted, LanesFit
<1>2. Core /\ CallsCounted /\ WorkCounted /\ LanesFit /\ [Next]_vars
        => CallsCounted' /\ WorkCounted' /\ LanesFit'
  BY NextCallsCounted, NextWorkCounted, NextLanesFit
<1>3. CallsCounted /\ WorkCounted /\ LanesFit => TalliesExact
  BY DEF CallsCounted, WorkCounted, LanesFit, TalliesExact, Charged, Begun
<1> QED
  BY <1>1, <1>2, <1>3, CoreInvariant, PTL DEF Spec

-----------------------------------------------------------------------------
(* A closed session. *)

\* What is charged to nobody stays so, as nobody is owed anything.
ClosedFree == session = "closed" => Unresolved = {}

\* Only a call that is owed begins an operation, and a closed session owes none.
LEMMA NextClosedFree ==
  ASSUME Core, ClosedFree, [Next]_vars
  PROVE  ClosedFree'
<1>0. Accounts /\ operations \in [Conns -> [Ids -> Operation]]
  BY StepAccounts DEF Core, Basis, Shape, TypeOK, TrackerTypeOK
<1>1. CASE SessionCloses
  BY <1>1 DEF SessionCloses, ClearRequests, ClosedFree, Unresolved, NoOperation
<1>2. CASE ~SessionCloses /\ session' = "closed"
  <2>1. session = "closed"
    <3>1. CASE UNCHANGED vars \/ Ingress \/ Router \/ SessionFails
      BY <1>2, <3>1 DEF vars, trackerVars, Ingress, Admit, AdmitOverflows, AdmitTooLate,
         AdmitNotification, Cancel, IngressStops, Router, RouteTakes, RouteFails, RouteHandsOver,
         RouteOverflows, RouteStops, RouteBinds, RouteRefused, FailRouting, SessionFails
    <3>2. ASSUME NEW w \in Worktrees, Delivery(w) \/ Controls(w)
          PROVE  UNCHANGED session
      BY <3>2 DEF trackerVars, Delivery, LaneSkips, LaneTakes, LaneGivesUp, LaneDropsNotification,
         LaneReuses, LaneDialFails, LaneBegins, LaneRefused, UpstreamReceives, LaneTooLarge,
         LaneDelivered, LaneWriteFails, LaneDials, Controls, ControlChecks, ControlExpires, ControlWrites
    <3>3. ASSUME NEW c \in Conns, Reader(c) \/ RootsWorker(c) \/ Gopls(c)
          PROVE  UNCHANGED session
      BY <3>3 DEF trackerVars, Reader, ReaderResponds, ReaderErrs, ReaderFailsCalls, ReaderLeaves,
         RootsWorker, RootsReleases, RootsCloses, RootsFailsCalls, Gopls, UpstreamAnswers
    <3>4. ASSUME NEW t \in Tokens, Timers(t)
          PROVE  UNCHANGED session
      BY <3>4 DEF Timers, TimerFires, TimerExpires, DeliveryExpires
    <3> QED
      BY <1>2, <3>1, <3>2, <3>3, <3>4 DEF Next
  <2>2. Outstanding = {} /\ \A c \in Conns, i \in Ids : operations[c][i].tok = NoToken
    <3>1. Outstanding = {} /\ Unresolved = {}
      BY <2>1 DEF Core, Basis, Books, ClosedDone, ClosedFree
    <3>2. \A c \in Conns, i \in Ids : <<c, i>> \notin Unresolved
      BY <3>1
    <3> QED
      BY <3>1, <3>2 DEF Unresolved
  <2>3. \A t \in Tokens : Owned(t) = {}
    BY <2>2 DEF Owned
  <2> DEFINE Free == \A c \in Conns, i \in Ids : operations'[c][i].tok = NoToken
  <2>4. Free
    <3>1. CASE Rests \/ \E i \in Ids : Enters(i)
      BY <2>2, <3>1 DEF Rests, Enters
    <3>2. ASSUME NEW S \in SUBSET Outstanding, Claims(S)
          PROVE  Free
      BY <1>0, <2>2, <3>2, AbandonedMarks DEF Claims
    <3>3. ASSUME NEW d \in Conns, NEW j \in Ids, NEW S \in SUBSET Outstanding, Resolves(d, j, S)
          PROVE  Free
      <4>1. Ended(d, j) \in [Conns -> [Ids -> Operation]]
        BY <3>3, EndOperationType DEF Resolves, Core, Basis, Shape, TypeOK
      <4>2. \A c \in Conns, i \in Ids : Ended(d, j)[c][i].tok = NoToken
        BY <1>0, <2>2 DEF Ended, NoOperation
      <4> QED
        BY <3>3, <4>1, <4>2, AbandonedMarks DEF Resolves
    <3>4. CASE Clears \/ \E t \in Tokens, w \in Worktrees : Binds(t, w)
      BY <2>2, <3>4 DEF Clears, NoOperation, Binds
    <3>5. \A t \in Tokens, c \in Conns : ~Retries(t, c) /\ \A w \in Worktrees : ~Begins(t, c, w)
      BY <2>3 DEF Begins, Reservable, Retries, Retryable
    <3> HIDE DEF Free
    <3> QED
      BY <1>0, <3>1, <3>2, <3>3, <3>4, <3>5 DEF Accounts
  <2> QED
    BY <2>4 DEF ClosedFree, Unresolved
<1> QED
  BY <1>1, <1>2 DEF ClosedFree

\* A closed session owes nothing and charges nothing for good: no timer, reader or
\* control worker that outlives clearRequests brings a record back (requests.go).
THEOREM ClosedForGood == Spec => []ClosedIsEmpty
<1>1. Init => ClosedFree
  BY DEF Init, TrackerInit, ClosedFree
<1>2. Core /\ ClosedFree /\ [Next]_vars => ClosedFree'
  BY NextClosedFree
<1>3. Core /\ ClosedFree => ClosedIsEmpty
  BY DEF Core, Basis, Books, ClosedDone, ClosedFree, ClosedIsEmpty
<1> QED
  BY <1>1, <1>2, <1>3, CoreInvariant, PTL DEF Spec

-----------------------------------------------------------------------------
(* Whom a cancellation reaches. *)

\* A lane takes up a connection by dialling it.
LEMMA StepUses ==
  ASSUME Basis, [Next]_vars, NEW v \in Worktrees, NEW c \in Conns, Uses(v, c)'
  PROVE  Uses(v, c) \/ connState[c] = "unused"
<1>1. /\ lane \in [Worktrees -> LaneState] /\ laneConn \in [Worktrees -> Conns \cup {NoConn}]
      /\ NoConn \notin Conns
  BY DEF Basis, Shape, TypeOK, LaneTypeOK, Conns
<1>2. ASSUME NEW w \in Worktrees, Delivery(w)
      PROVE  Uses(v, c) \/ connState[c] = "unused"
  <2>1. ASSUME NEW d \in Conns, LaneDials(w, d)
        PROVE  Uses(v, c) \/ connState[c] = "unused"
    BY <1>1, <2>1 DEF LaneDials, NextConn, Trying, LaneState, Uses
  <2>2. CASE LaneDelivered(w) \/ LaneWriteFails(w) \/ LaneGivesUp(w) \/ LaneDropsNotification(w)
             \/ LaneRefused(w) \/ LaneTooLarge(w)
    BY <1>1, <2>2 DEF LaneDelivered, LaneWriteFails, LaneGivesUp, LaneDropsNotification, LaneRefused,
       LaneTooLarge, Uses, Idle, Attempting
  <2>3. CASE LaneReuses(w) \/ LaneSkips(w) \/ LaneDialFails(w) \/ LaneBegins(w) \/ UpstreamReceives(w)
    BY <1>1, <2>3 DEF LaneReuses, LaneSkips, LaneDialFails, LaneBegins, UpstreamReceives, Trying,
       Uses, LaneState
  <2>4. CASE LaneTakes(w)
    BY <1>1, <2>4 DEF LaneTakes, Uses, Attempting
  <2> QED
    BY <1>2, <2>1, <2>2, <2>3, <2>4 DEF Delivery
<1>3. CASE UNCHANGED <<lane, laneConn>>
  BY <1>3 DEF Uses
<1>4. CASE UNCHANGED vars \/ Ingress \/ Router \/ SessionFails \/ SessionCloses
  BY <1>3, <1>4 DEF vars, laneVars, Ingress, Admit, AdmitOverflows, AdmitTooLate, AdmitNotification,
     Cancel, IngressStops, Router, RouteTakes, RouteFails, RouteHandsOver, RouteOverflows, RouteStops,
     RouteBinds, RouteRefused, SessionFails, SessionCloses
<1>5. ASSUME NEW w \in Worktrees, Controls(w)
      PROVE  UNCHANGED <<lane, laneConn>>
  BY <1>5 DEF Controls, ControlChecks, ControlExpires, ControlWrites
<1>6. ASSUME NEW d \in Conns, Reader(d) \/ RootsWorker(d) \/ Gopls(d)
      PROVE  UNCHANGED <<lane, laneConn>>
  BY <1>6 DEF laneVars, Reader, ReaderResponds, ReaderErrs, ReaderFailsCalls, ReaderLeaves,
     RootsWorker, RootsReleases, RootsCloses, RootsFailsCalls, Gopls, UpstreamAnswers
<1>7. ASSUME NEW t \in Tokens, Timers(t)
      PROVE  UNCHANGED <<lane, laneConn>>
  BY <1>7 DEF laneVars, Timers, TimerFires, TimerExpires, DeliveryExpires
<1> QED
  BY <1>2, <1>3, <1>4, <1>5, <1>6, <1>7 DEF Next

\* A call that has left is never owed again.
LEMMA StepUnowned ==
  ASSUME Basis, [Next]_vars, NEW t \in Tokens, t <= minted, Owned(t) = {}
  PROVE  Owned(t)' = {}
<1>1. minted \in Nat /\ awaiting \in [Ids -> Owed]
  BY DEF Basis, Shape, TypeOK, TrackerTypeOK
<1>2. ASSUME NEW i \in Ids, Opens(i)
      PROVE  Owned(t)' = {}
  <2>1. \A j \in Ids : awaiting'[j].tok = awaiting[j].tok \/ awaiting'[j].tok = minted + 1
    BY <1>1, <1>2 DEF Opens, Track, Vacant
  <2> QED
    BY <1>1, <2>1 DEF Owned, Outstanding, Tokens
<1> QED
  BY <1>2, StepKinds DEF Basis, Books, Shape, Passes, Settles, Closes, Owned, Outstanding, Tokens

\* A control worker of lane w is to forward the advisory k, or is about to.
Advises(w, k) == k \in Elements(controls[w]) \/ (k # NoControl /\ k = control[w])

\* The advisory of a call that i was owed for.
AdvisoryOf(i) == [tok |-> awaiting[i].tok, conn |-> awaiting[i].conn]

\* The advisory of the finished call i joins the others of its lane.
LEMMA QueueAdvises ==
  ASSUME Basis, NEW i \in Outstanding, QueueCancellation(i)
  PROVE  \A w \in Worktrees : \A k \in Elements(controls'[w]) :
           \/ k \in Elements(controls[w])
           \/ awaiting[i].conn # NoConn /\ awaiting[i].wt = w /\ k = AdvisoryOf(i)
<1> TAKE w \in Worktrees
<1>1. controls[w] \in Seq(Control) /\ awaiting[i] \in Owed /\ awaiting[i].tok # NoToken
  BY DEF Basis, Shape, TypeOK, TrackerTypeOK, LaneTypeOK, Outstanding
<1>2. CASE awaiting[i].conn # NoConn /\ awaiting[i].wt = w /\ Len(controls[w]) < LaneQueue
  <2>1. AdvisoryOf(i) \in Control
    BY <1>1, <1>2 DEF AdvisoryOf, Owed, Control
  <2>2. controls'[w] = Append(controls[w], AdvisoryOf(i))
    BY <1>2 DEF QueueCancellation, AdvisoryOf
  <2> QED
    BY <1>1, <1>2, <2>1, <2>2, AppendElements
<1>3. CASE ~(awaiting[i].conn # NoConn /\ awaiting[i].wt = w /\ Len(controls[w]) < LaneQueue)
  BY <1>3 DEF QueueCancellation
<1> QED
  BY <1>2, <1>3

\* What a step does to the advisories: a claimed call's is queued, one is dropped, and
\* one whose operation is nobody else's is taken to the gate.
Advice ==
  /\ \A w \in Worktrees, k \in Control : Advises(w, k)' =>
       \/ Advises(w, k)
       \/ \E i \in Outstanding : /\ awaiting[i].conn # NoConn /\ awaiting[i].wt = w /\ k = AdvisoryOf(i)
                                 /\ awaiting'[i].tok = NoToken
  /\ \A w \in Worktrees, k \in Control : k = control'[w] =>
       \/ k = control[w]
       \/ /\ Advises(w, k) /\ UNCHANGED operations
          /\ operations[k.conn][idOf[k.tok]].tok \in {NoToken, k.tok}
  /\ \A t \in hit' \ hit : \E w \in Worktrees, k \in Control :
       Advises(w, k) /\ k = control[w] /\ t \in upstream[k.conn] /\ idOf[t] = idOf[k.tok]

\* That is what every step does to them.
LEMMA StepAdvice ==
  ASSUME Basis, [Next]_vars
  PROVE  Advice
<1>1. /\ controls \in [Worktrees -> Seq(Control)] /\ control \in [Worktrees -> Control \cup {NoControl}]
      /\ upstream \in [Conns -> SUBSET Tokens] /\ NoControl \notin Control
  <2>1. NoControl.tok = NoToken /\ \A k \in Control : k.tok # NoToken
    BY DEF Control, NoControl, Tokens
  <2>2. NoControl \notin Control
    BY <2>1
  <2> QED
    BY <2>2 DEF Basis, Shape, TypeOK, LaneTypeOK
<1>2. ASSUME UNCHANGED <<controls, control, hit>>
      PROVE  Advice
  BY <1>2 DEF Advice, Advises
<1>3. ASSUME NEW i \in Outstanding, QueueCancellation(i), awaiting'[i].tok = NoToken,
             UNCHANGED <<control, hit>>
      PROVE  Advice
  BY <1>3, QueueAdvises DEF Advice, Advises
<1>4. CASE Ingress
  <2>1. ASSUME NEW i \in Ids, Cancel(i)
        PROVE  i \in Outstanding /\ QueueCancellation(i) /\ awaiting'[i].tok = NoToken /\ UNCHANGED <<control, hit>>
    BY <2>1, ForgetVacates DEF Cancel, Finish, Remove, Outstanding
  <2>2. ASSUME NEW i \in Ids, Cancel(i)
        PROVE  Advice
    BY <1>3, <2>1, <2>2
  <2>3. CASE AdmitNotification \/ IngressStops \/ \E i \in Ids, k \in Sends \ {"notification"} :
               Admit(i, k) \/ AdmitOverflows(i, k) \/ AdmitTooLate(i, k)
    BY <1>2, <2>3 DEF AdmitNotification, IngressStops, Admit, AdmitOverflows, AdmitTooLate, laneVars
  <2> QED
    BY <1>4, <2>2, <2>3 DEF Ingress
<1>5. ASSUME NEW t \in Tokens, Timers(t)
      PROVE  Advice
  <2>1. CASE TimerExpires(t)
    <3>1. CASE Owned(t) = {}
      BY <1>2, <2>1, <3>1 DEF TimerExpires
    <3>2. CASE Owned(t) # {}
      <4>1. PICK i \in Owned(t) : QueueCancellation(i)
        BY <2>1, <3>2 DEF TimerExpires
      <4>2. i \in Outstanding /\ awaiting'[i].tok = NoToken /\ UNCHANGED <<control, hit>>
        BY <2>1, <4>1, ForgetVacates DEF TimerExpires, Owned, Outstanding
      <4> QED
        BY <1>3, <4>1, <4>2
    <3> QED
      BY <3>1, <3>2
  <2>2. CASE TimerFires(t) \/ DeliveryExpires(t)
    BY <1>2, <2>2 DEF TimerFires, DeliveryExpires, laneVars
  <2> QED
    BY <1>5, <2>1, <2>2 DEF Timers
<1>6. ASSUME NEW w \in Worktrees, Controls(w)
      PROVE  Advice
  <2>1. CASE ControlChecks(w) \/ ControlExpires(w)
    <3>1. /\ controls[w] # <<>> /\ controls' = [controls EXCEPT ![w] = Tail(@)] /\ UNCHANGED <<hit, operations>>
      BY <2>1 DEF ControlChecks, ControlExpires, trackerVars
    <3>2. /\ Head(controls[w]) \in Elements(controls[w]) /\ Head(controls[w]) \in Control
          /\ \A v \in Worktrees : Elements(controls'[v]) \subseteq Elements(controls[v])
      <4>1. controls[w] \in Seq(Control)
        BY <1>1
      <4>2. /\ Head(controls[w]) \in Elements(controls[w]) /\ Head(controls[w]) \in Control
            /\ Elements(Tail(controls[w])) \subseteq Elements(controls[w])
        BY <3>1, <4>1, TailElements
      <4> QED
        BY <1>1, <3>1, <4>2
    <3>3. \/ UNCHANGED control
          \/ /\ control' = [control EXCEPT ![w] = Head(controls[w])]
             /\ operations[Head(controls[w]).conn][idOf[Head(controls[w]).tok]].tok
                  \in {NoToken, Head(controls[w]).tok}
      BY <2>1 DEF ControlChecks, ControlExpires
    <3>4. \A v \in Worktrees, k \in Control : k = control'[v] =>
            \/ k = control[v]
            \/ /\ k \in Elements(controls[v])
               /\ operations[k.conn][idOf[k.tok]].tok \in {NoToken, k.tok}
      BY <1>1, <3>2, <3>3
    <3> QED
      BY <1>1, <3>1, <3>2, <3>4 DEF Advice, Advises
  <2>2. CASE ControlWrites(w)
    <3>1. PICK k \in Control : k = control[w]
      BY <1>1, <2>2 DEF ControlWrites
    <3>2. /\ \A t \in hit' \ hit : t \in upstream[k.conn] /\ idOf[t] = idOf[k.tok]
          /\ UNCHANGED controls /\ control' = [control EXCEPT ![w] = NoControl]
      BY <2>2, <3>1 DEF ControlWrites
    <3>3. Advises(w, k)
      BY <1>1, <3>1 DEF Advises
    <3>4. \A v \in Worktrees : control'[v] \in {control[v], NoControl}
      BY <1>1, <3>2
    <3> QED
      BY <1>1, <3>1, <3>2, <3>3, <3>4 DEF Advice, Advises
  <2> QED
    BY <1>6, <2>1, <2>2 DEF Controls
<1>7. CASE UNCHANGED vars \/ Router \/ SessionFails \/ SessionCloses
  BY <1>2, <1>7 DEF vars, laneVars, Router, RouteTakes, RouteFails, RouteHandsOver, RouteOverflows,
     RouteStops, RouteBinds, RouteRefused, SessionFails, SessionCloses
<1>8. ASSUME NEW w \in Worktrees, Delivery(w)
      PROVE  Advice
  BY <1>2, <1>8 DEF Delivery, LaneSkips, LaneTakes, LaneGivesUp, LaneDropsNotification, LaneReuses,
     LaneDialFails, LaneBegins, LaneRefused, UpstreamReceives, LaneTooLarge, LaneDelivered,
     LaneWriteFails, LaneDials
<1>9. ASSUME NEW c \in Conns, Reader(c) \/ RootsWorker(c) \/ Gopls(c)
      PROVE  Advice
  BY <1>2, <1>9 DEF laneVars, Reader, ReaderResponds, ReaderErrs, ReaderFailsCalls, ReaderLeaves,
     RootsWorker, RootsReleases, RootsCloses, RootsFailsCalls, Gopls, UpstreamAnswers
<1> QED
  BY <1>4, <1>5, <1>6, <1>7, <1>8, <1>9 DEF Next

\* An advisory is about a call that has left, over a connection that is its lane's or
\* nobody's; the one that holds the gate finds its own operation or none; a call that
\* is owed by a connection is bound to the lane that uses it; and what was reached had
\* left.
Advisories ==
  /\ \A w \in Worktrees, k \in Control : Advises(w, k) =>
       /\ Owned(k.tok) = {} /\ k.tok <= minted /\ idOf[k.tok] \in Ids
       /\ connState[k.conn] # "unused"
       /\ \A v \in Worktrees : Uses(v, k.conn) => v = w
  /\ \A w \in Worktrees, k \in Control : k = control[w] =>
       operations[k.conn][idOf[k.tok]].tok \in {NoToken, k.tok}
  /\ \A v \in Worktrees, c \in Conns, i \in Ids :
       awaiting[i].conn = c /\ Uses(v, c) => awaiting[i].wt = v
  /\ \A t \in hit : Owned(t) = {} /\ t <= minted

\* A connection that owes a call was dialled.
LEMMA OwingDialled ==
  ASSUME Core, NEW c \in Conns, NEW i \in Ids, awaiting[i].conn = c
  PROVE  connState[c] # "unused" /\ awaiting[i].tok # NoToken
<1>1. awaiting[i].tok # NoToken
  BY DEF Core, Credit, VacantClean, Vacant, Conns
<1>2. operations[c][i].tok # NoToken
  BY <1>1 DEF Core, Credit, AbandonedIffDisowned
<1>3. \E t \in Tokens : TRUE
  BY TrackerAssumption DEF Tokens
<1> QED
  BY <1>1, <1>2, <1>3 DEF Core, Places, Undialled

\* A call that a connection owes stays with the lane of that connection.
LEMMA NextOwing ==
  ASSUME Core, Advisories, [Next]_vars, NEW v \in Worktrees, NEW c \in Conns, NEW i \in Ids,
         awaiting'[i].conn = c, Uses(v, c)'
  PROVE  awaiting'[i].wt = v
<1>0. /\ Accounts /\ awaiting \in [Ids -> Owed] /\ NoConn \notin Conns
      /\ Uses(v, c) \/ connState[c] = "unused"
  BY StepAccounts, StepUses DEF Core, Basis, Shape, TypeOK, TrackerTypeOK, Conns
<1>1. ASSUME awaiting'[i].conn = awaiting[i].conn, awaiting'[i].wt = awaiting[i].wt
      PROVE  awaiting'[i].wt = v
  BY <1>0, <1>1, OwingDialled DEF Advisories
<1>2. CASE Rests
  BY <1>1, <1>2 DEF Rests
<1>3. ASSUME NEW j \in Ids, Enters(j)
      PROVE  awaiting'[i].wt = v
  <2>1. CASE i = j
    BY <1>0, <1>3, <2>1 DEF Enters, Track, Vacant
  <2>2. CASE i # j
    BY <1>0, <1>1, <1>3, <2>2 DEF Enters, Track
  <2> QED
    BY <2>1, <2>2
<1>4. ASSUME NEW S, Forget(S)
      PROVE  awaiting'[i].wt = v
  BY <1>0, <1>1, <1>4 DEF Forget, Vacant
<1>5. ASSUME NEW t \in Tokens, NEW w \in Worktrees, Binds(t, w)
      PROVE  awaiting'[i].wt = v
  <2>1. CASE i \in Owned(t)
    <3>1. awaiting[i].conn = c /\ awaiting[i].wt = NoWorktree
      BY <1>0, <1>5, <2>1 DEF Binds, Bind, Owed
    <3> QED
      BY <1>0, <3>1, OwingDialled, TrackerAssumption DEF Advisories
  <2>2. CASE i \notin Owned(t)
    BY <1>1, <1>5, <2>2 DEF Binds, Bind
  <2> QED
    BY <2>1, <2>2
<1>6. ASSUME NEW t \in Tokens, NEW d \in Conns, NEW w \in Worktrees, Begins(t, d, w)
      PROVE  awaiting'[i].wt = v
  <2>1. CASE i \in Owned(t)
    <3>1. awaiting'[i].conn = d /\ awaiting'[i].wt = awaiting[i].wt
      BY <1>0, <1>6, <2>1 DEF Begins, BeginOperation, Owed
    <3>2. Uses(w, c) /\ InLane(w, t) /\ awaiting[i].tok = t
      BY <1>6, <2>1, <3>1 DEF Begins, Uses, InLane, Owned
    <3>3. awaiting[i].wt = w /\ Uses(v, c)
      BY <1>0, <3>2 DEF Core, Bound, Basis, Owner
    <3> QED
      BY <3>1, <3>2, <3>3 DEF Core, Basis, Owner
  <2>2. CASE i \notin Owned(t)
    BY <1>1, <1>6, <2>2 DEF Begins, BeginOperation
  <2> QED
    BY <2>1, <2>2
<1>7. ASSUME NEW t \in Tokens, NEW d \in Conns, Retries(t, d)
      PROVE  awaiting'[i].wt = v
  BY <1>0, <1>1, <1>7 DEF Retries, Retry, Unplace, Owed
<1> QED
  BY <1>0, <1>2, <1>3, <1>4, <1>5, <1>6, <1>7 DEF Accounts, Claims, Resolves, Clears

\* The operation under an advisory that holds the gate is begun by nobody else.
LEMMA NextControlled ==
  ASSUME Core, Advisories, [Next]_vars, NEW w \in Worktrees, NEW k \in Control, k = control'[w]
  PROVE  operations'[k.conn][idOf'[k.tok]].tok \in {NoToken, k.tok}
<1>0. /\ Accounts /\ Advice /\ Grows /\ operations \in [Conns -> [Ids -> Operation]]
  BY StepAccounts, StepAdvice, StepGrows DEF Core, Basis, Shape, TypeOK, TrackerTypeOK
<1>1. PICK c \in Conns, u \in Tokens : c = k.conn /\ u = k.tok
  BY DEF Control
<1>2. NoControl # k
  BY <1>1 DEF NoControl, Tokens
<1>3. Advises(w, k)
  BY <1>0, <1>2 DEF Advice, Advises
<1>4. PICK i \in Ids : i = idOf[u] /\ i = idOf'[u]
  BY <1>0, <1>1, <1>3 DEF Advisories, Grows
<1>5. CASE k # control[w]
  BY <1>0, <1>1, <1>4, <1>5 DEF Advice
<1>6. CASE k = control[w]
  <2>1. operations[c][i].tok \in {NoToken, u}
    BY <1>1, <1>4, <1>6 DEF Advisories
  <2>2. ASSUME operations'[c][i].tok \in {NoToken, operations[c][i].tok}
        PROVE  operations'[c][i].tok \in {NoToken, u}
    BY <2>1, <2>2
  <2>3. ASSUME Rests \/ Clears \/ \E j \in Ids : Enters(j)
        PROVE  operations'[c][i].tok \in {NoToken, u}
    BY <2>2, <2>3 DEF Rests, Clears, NoOperation, Enters
  <2>4. ASSUME NEW S \in SUBSET Outstanding, Claims(S)
        PROVE  operations'[c][i].tok \in {NoToken, u}
    BY <1>0, <2>2, <2>4, AbandonedMarks DEF Claims
  <2>5. ASSUME NEW d \in Conns, NEW j \in Ids, NEW S \in SUBSET Outstanding, Resolves(d, j, S)
        PROVE  operations'[c][i].tok \in {NoToken, u}
    <3>1. Ended(d, j) \in [Conns -> [Ids -> Operation]]
      BY <2>5, EndOperationType DEF Resolves, Core, Basis, Shape, TypeOK
    <3>2. Ended(d, j)[c][i].tok \in {NoToken, operations[c][i].tok}
      BY <1>0 DEF Ended, NoOperation
    <3> QED
      BY <2>2, <2>5, <3>1, <3>2, AbandonedMarks DEF Resolves
  <2>6. ASSUME NEW t \in Tokens, NEW v \in Worktrees, Binds(t, v)
        PROVE  operations'[c][i].tok \in {NoToken, u}
    BY <2>2, <2>6 DEF Binds
  <2>7. ASSUME NEW t \in Tokens, NEW d \in Conns, NEW v \in Worktrees, Begins(t, d, v)
        PROVE  operations'[c][i].tok \in {NoToken, u}
    <3>1. d # c
      BY <1>1, <1>2, <1>3, <1>6, <2>7 DEF Begins, GateFree, Uses, Advisories
    <3> QED
      BY <1>0, <2>2, <2>7, <3>1 DEF Begins, BeginOperation
  <2>8. ASSUME NEW t \in Tokens, NEW d \in Conns, Retries(t, d)
        PROVE  operations'[c][i].tok \in {NoToken, u}
    <3>1. operations[c][i] \in Operation
      BY <1>0
    <3>2. \/ operations'[c][i] = operations[c][i]
          \/ operations'[c][i] = [operations[c][i] EXCEPT !.abandoned = TRUE]
      BY <1>0, <2>8 DEF Retries, Retry
    <3> QED
      BY <2>2, <3>1, <3>2 DEF Operation
  <2>9. operations'[c][i].tok \in {NoToken, u}
    BY <1>0, <2>3, <2>4, <2>5, <2>6, <2>7, <2>8 DEF Accounts
  <2> QED
    BY <1>1, <1>4, <2>9
<1> QED
  BY <1>5, <1>6

\* A connection that was dialled stays so.
LEMMA StaysDialled ==
  ASSUME Basis, [Next]_vars, NEW c \in Conns, connState[c] # "unused"
  PROVE  connState'[c] # "unused"
<1>1. connState \in [Conns -> {"unused", "open", "released", "closed"}]
  BY DEF Basis, Shape, TypeOK, LaneTypeOK
<1>2. ASSUME NEW d, connState' = [connState EXCEPT ![d] = "closed"]
      PROVE  connState'[c] # "unused"
  BY <1>1, <1>2
<1>3. CASE UNCHANGED connState
  BY <1>3
<1>4. CASE UNCHANGED vars \/ Ingress \/ Router \/ SessionFails
  BY <1>3, <1>4 DEF vars, laneVars, Ingress, Admit, AdmitOverflows, AdmitTooLate, AdmitNotification,
     Cancel, IngressStops, Router, RouteTakes, RouteFails, RouteHandsOver, RouteOverflows, RouteStops,
     RouteBinds, RouteRefused, SessionFails
<1>5. CASE SessionCloses
  BY <1>1, <1>5 DEF SessionCloses
<1>6. ASSUME NEW w \in Worktrees, Delivery(w)
      PROVE  connState'[c] # "unused"
  <2>1. CASE \E d \in Conns : LaneDials(w, d)
    BY <1>1, <2>1 DEF LaneDials
  <2>2. CASE LaneSkips(w) \/ LaneTakes(w) \/ LaneGivesUp(w) \/ LaneDropsNotification(w) \/ LaneReuses(w)
             \/ LaneDialFails(w) \/ LaneBegins(w) \/ UpstreamReceives(w) \/ LaneDelivered(w)
    BY <2>2 DEF LaneSkips, LaneTakes, LaneGivesUp, LaneDropsNotification, LaneReuses, LaneDialFails,
       LaneBegins, UpstreamReceives, LaneDelivered
  <2>3. CASE LaneRefused(w) \/ LaneTooLarge(w) \/ LaneWriteFails(w)
    BY <1>2, <2>3 DEF LaneRefused, LaneTooLarge, LaneWriteFails, ClosedUnlessAdopted
  <2> QED
    BY <1>6, <2>1, <2>2, <2>3 DEF Delivery
<1>7. ASSUME NEW w \in Worktrees, Controls(w)
      PROVE  UNCHANGED connState
  BY <1>7 DEF Controls, ControlChecks, ControlExpires, ControlWrites
<1>8. ASSUME NEW d \in Conns, Reader(d) \/ RootsWorker(d) \/ Gopls(d)
      PROVE  connState'[c] # "unused"
  <2>1. \/ UNCHANGED connState
        \/ connState' = [connState EXCEPT ![d] = "closed"]
        \/ connState' = [connState EXCEPT ![d] = IF @ = "open" THEN "released" ELSE @]
    BY <1>8 DEF Reader, ReaderResponds, ReaderErrs, ReaderFailsCalls, ReaderLeaves, RootsWorker,
      RootsReleases, RootsCloses, RootsFailsCalls, Gopls, UpstreamAnswers, laneVars
  <2> QED
    BY <1>1, <2>1
<1>9. ASSUME NEW t \in Tokens, Timers(t)
      PROVE  UNCHANGED connState
  BY <1>9 DEF laneVars, Timers, TimerFires, TimerExpires, DeliveryExpires
<1> QED
  BY <1>3, <1>4, <1>5, <1>6, <1>7, <1>8, <1>9 DEF Next

\* The ids a token is owed under are one or none, after a step as before it.
LEMMA OneOwnedNext ==
  ASSUME Basis', NEW t \in Tokens
  PROVE  Owned(t)' = {} \/ Owned(t)' = {idOf'[t]}
  BY DEF Basis, Books, Ledger, Owned, Outstanding

\* Every step keeps the advisories to the calls they are about.
LEMMA NextAdvisories ==
  ASSUME Core, Advisories, [Next]_vars
  PROVE  Advisories'
<1>0. /\ Advice /\ Grows /\ awaiting \in [Ids -> Owed] /\ minted \in Nat /\ Tokens \subseteq Int
      /\ idOf \in [Tokens -> Ids \cup {NoId}] /\ upstream \in [Conns -> SUBSET Tokens]
  <2>1. Advice /\ Grows
    BY StepAdvice, StepGrows DEF Core
  <2> QED
    BY <2>1 DEF Core, Basis, Shape, TypeOK, TrackerTypeOK, LaneTypeOK, Tokens
<1>1. ASSUME NEW w \in Worktrees, NEW k \in Control, Advises(w, k)'
      PROVE  /\ Owned(k.tok)' = {} /\ k.tok <= minted' /\ idOf'[k.tok] \in Ids
             /\ connState'[k.conn] # "unused"
             /\ \A v \in Worktrees : Uses(v, k.conn)' => v = w
  <2>1. PICK c \in Conns, u \in Tokens : c = k.conn /\ u = k.tok
    BY DEF Control
  <2>2. /\ u <= minted /\ idOf[u] \in Ids /\ connState[c] # "unused" /\ Owned(u)' = {}
        /\ \A v \in Worktrees : Uses(v, c) => v = w
    <3>1. CASE Advises(w, k)
      BY <2>1, <3>1, StepUnowned DEF Advisories, Core
    <3>2. CASE \E i \in Outstanding : /\ awaiting[i].conn # NoConn /\ awaiting[i].wt = w /\ k = AdvisoryOf(i)
                                      /\ awaiting'[i].tok = NoToken
      <4>1. PICK i \in Ids : /\ awaiting[i].conn = c /\ awaiting[i].wt = w /\ awaiting[i].tok = u
                             /\ awaiting'[i].tok = NoToken
        BY <2>1, <3>2 DEF AdvisoryOf, Outstanding
      <4>2. u <= minted /\ idOf[u] = i
        BY <4>1, OneOwned DEF Core, Owned, Outstanding, Tokens
      <4>3. u <= minted' /\ idOf'[u] = i
        BY <1>0, <4>2 DEF Grows
      <4>4. \A j \in Ids : awaiting'[j].tok = u => j = i
        <5>1. Owned(u)' = {} \/ Owned(u)' = {idOf'[u]}
          BY NextCore, OneOwnedNext DEF Core
        <5> QED
          BY <4>3, <5>1 DEF Owned, Outstanding, Tokens
      <4> QED
        BY <4>1, <4>2, <4>4, OwingDialled DEF Advisories, Owned, Outstanding, Tokens
    <3> QED
      BY <1>0, <1>1, <3>1, <3>2 DEF Advice
  <2>3. u <= minted' /\ idOf'[u] = idOf[u]
    BY <1>0, <2>2 DEF Grows
  <2>4. connState'[c] # "unused"
    BY <2>2, StaysDialled DEF Core
  <2>5. \A v \in Worktrees : Uses(v, c)' => v = w
    BY <2>2, StepUses DEF Core
  <2> QED
    BY <2>1, <2>2, <2>3, <2>4, <2>5
<1>2. ASSUME NEW w \in Worktrees, NEW k \in Control, k = control'[w]
      PROVE  operations'[k.conn][idOf'[k.tok]].tok \in {NoToken, k.tok}
  BY <1>2, NextControlled
<1>3. ASSUME NEW v \in Worktrees, NEW c \in Conns, NEW i \in Ids, awaiting'[i].conn = c, Uses(v, c)'
      PROVE  awaiting'[i].wt = v
  BY <1>3, NextOwing
<1>4. ASSUME NEW t \in hit'
      PROVE  Owned(t)' = {} /\ t <= minted'
  <2>0. t \in Tokens
    BY NextCore DEF Core, Basis, Shape, TypeOK, LaneTypeOK
  <2>1. CASE t \in hit
    BY <1>0, <2>0, <2>1, StepUnowned DEF Advisories, Core, Grows
  <2>2. CASE t \notin hit
    <3>1. PICK w \in Worktrees, k \in Control :
            Advises(w, k) /\ k = control[w] /\ t \in upstream[k.conn] /\ idOf[t] = idOf[k.tok]
      BY <1>0, <2>2 DEF Advice
    <3>2. PICK c \in Conns, u \in Tokens : c = k.conn /\ u = k.tok
      BY DEF Control
    <3>3. t <= minted
      BY <2>0, <3>1, <3>2, TrackerAssumption DEF Advisories, Core, Basis, IdShape
    <3>4. Owned(t) = {}
      <4>1. CASE session = "closed"
        BY <4>1 DEF Core, Basis, Books, ClosedDone, Owned
      <4>2. CASE session # "closed"
        <5>1. operations[c][idOf[t]].tok = t
          BY <3>1, <3>2, <4>2 DEF Core, Places, UpstreamWorkCharged
        <5>2. operations[c][idOf[t]].tok \in {NoToken, u} /\ Owned(u) = {}
          BY <3>1, <3>2 DEF Advisories
        <5> QED
          BY <2>0, <5>1, <5>2 DEF Tokens
      <4> QED
        BY <4>1, <4>2
    <3> QED
      BY <1>0, <2>0, <3>3, <3>4, StepUnowned DEF Core, Grows
  <2> QED
    BY <2>1, <2>2
<1> QED
  BY <1>1, <1>2, <1>3, <1>4 DEF Advisories

\* An advisory cancellation reaches work whose call the client has given up or lost,
\* and never that of a later call that took over the wire id on the same connection:
\* sendCancellation looks the id up under the gate its lane begins operations under
\* (lane.go).
THEOREM BystandersSafe == Spec => []NoBystanderCancelled
<1>1. Init => Advisories
  <2> SUFFICES ASSUME Init PROVE Advisories
    OBVIOUS
  <2>1. \A w \in Worktrees : controls[w] = <<>> /\ control[w] = NoControl
    BY DEF Init, LaneInit
  <2>2. \A w \in Worktrees : Elements(controls[w]) = {}
    BY <2>1 DEF Elements
  <2>3. \A k \in Control : k # NoControl
    <3>1. NoControl.tok = NoToken /\ \A k \in Control : k.tok # NoToken
      BY DEF Control, NoControl, Tokens
    <3> QED
      BY <3>1
  <2>4. hit = {} /\ \A i \in Ids : awaiting[i].conn = NoConn
    BY DEF Init, LaneInit, TrackerInit, Vacant
  <2> QED
    BY <2>1, <2>2, <2>3, <2>4 DEF Advisories, Advises, Conns
<1>2. Core /\ Advisories /\ [Next]_vars => Advisories'
  BY NextAdvisories
<1>3. Advisories => NoBystanderCancelled
  BY DEF Advisories, NoBystanderCancelled
<1> QED
  BY <1>1, <1>2, <1>3, CoreInvariant, PTL DEF Spec

-----------------------------------------------------------------------------
(* The handshake of a connection. *)

\* What a connection was sent, by how far its lane has got with it.
Handshakes ==
  /\ \A w \in Worktrees, c \in Conns : laneConn[w] = c => inits[c] = 1
  /\ \A w \in Worktrees, c \in Conns : lane[w].conn = c =>
       /\ lane[w].pc \in {"gate", "stale", "write"} =>
            IF kindOf[lane[w].tok] = "initialize" THEN inits[c] = 0 /\ laneConn[w] # c
            ELSE inits[c] = 1
       /\ lane[w].pc = "written" => inits[c] = 1
  /\ \A c \in Conns : inits[c] <= 1 /\ \A t \in Tokens : Has(c, t) => inits[c] = 1

\* The kind of a message that was minted stays.
LEMMA StepKindOf ==
  ASSUME Basis, [Next]_vars, NEW t \in Tokens, t <= minted
  PROVE  kindOf'[t] = kindOf[t]
<1>1. minted \in Nat /\ kindOf \in [Tokens -> Kinds \cup {"none"}] /\ Tokens \subseteq Int
  BY DEF Basis, Shape, TypeOK, TrackerTypeOK, Tokens
<1>2. ASSUME NEW i, NEW k, Mint(i, k)
      PROVE  kindOf'[t] = kindOf[t]
  BY <1>1, <1>2 DEF Mint
<1>3. CASE Ingress
  BY <1>2, <1>3 DEF Ingress, Admit, AdmitOverflows, AdmitTooLate, AdmitNotification, Cancel, Finish,
     IngressStops, trackerVars
<1>4. CASE UNCHANGED vars \/ Router \/ SessionFails \/ SessionCloses
  BY <1>4 DEF vars, trackerVars, Router, RouteTakes, RouteFails, RouteHandsOver, RouteOverflows,
     RouteStops, RouteBinds, RouteRefused, FailRouting, FailDelivery, SessionFails, SessionCloses,
     ClearRequests
<1>5. ASSUME NEW w \in Worktrees, Delivery(w) \/ Controls(w)
      PROVE  UNCHANGED kindOf
  BY <1>5 DEF trackerVars, Delivery, LaneSkips, LaneTakes, LaneGivesUp, LaneDropsNotification,
     LaneReuses, LaneDialFails, LaneBegins, LaneRefused, UpstreamReceives, LaneTooLarge, LaneDelivered,
     LaneWriteFails, LaneDials, FailDelivery, Controls, ControlChecks, ControlExpires, ControlWrites
<1>6. ASSUME NEW c \in Conns, Reader(c) \/ RootsWorker(c) \/ Gopls(c)
      PROVE  UNCHANGED kindOf
  BY <1>6 DEF trackerVars, Reader, ReaderResponds, FinishResponse, ReaderErrs, ReaderFailsCalls,
     ReaderLeaves, RootsWorker, RootsReleases, RootsCloses, RootsFailsCalls, Finish, Gopls,
     UpstreamAnswers
<1>7. ASSUME NEW u \in Tokens, Timers(u)
      PROVE  UNCHANGED kindOf
  BY <1>7 DEF Timers, TimerFires, TimerExpires, DeliveryExpires
<1> QED
  BY <1>3, <1>4, <1>5, <1>6, <1>7 DEF Next

\* A message that is delivered was minted.
LEMMA DeliveredMinted ==
  ASSUME Basis, NEW w \in Worktrees, lane[w].pc # "idle"
  PROVE  lane[w].tok \in Tokens /\ lane[w].tok <= minted
<1>1. lane[w].tok \in Tokens
  BY DEF Basis, Shape, LaneShape
<1> QED
  BY <1>1 DEF Basis, Alone, InLane, Held

\* A connection that is dialled is sent its one initialize at once, or gets the
\* client's own.
LEMMA DeliveryHandshakes ==
  ASSUME Core, Handshakes, [Next]_vars, NEW w \in Worktrees, Delivery(w)
  PROVE  Handshakes'
<1>1. /\ lane \in [Worktrees -> LaneState] /\ laneConn \in [Worktrees -> Conns \cup {NoConn}]
      /\ NoConn \notin Conns /\ inits \in [Conns -> Nat] /\ upstream \in [Conns -> SUBSET Tokens]
      /\ LaneConns
  BY DEF Core, Basis, Shape, TypeOK, LaneTypeOK, Conns, Owner
<1>2. UNCHANGED kindOf
  BY DEF trackerVars, Delivery, LaneSkips, LaneTakes, LaneGivesUp, LaneDropsNotification,
     LaneReuses, LaneDialFails, LaneBegins, LaneRefused, UpstreamReceives, LaneTooLarge, LaneDelivered,
     LaneWriteFails, LaneDials, FailDelivery
<1>3. ASSUME NEW d \in Conns, LaneDials(w, d)
      PROVE  Handshakes'
  <2>1. /\ lane' = [lane EXCEPT ![w].pc = "gate", ![w].conn = d] /\ UNCHANGED <<laneConn, upstream, responses>>
        /\ laneConn[w] = NoConn /\ connState[d] = "unused"
        /\ inits' = [inits EXCEPT ![d] = IF kindOf[lane[w].tok] = "initialize" THEN 0 ELSE 1]
    BY <1>3 DEF LaneDials, NextConn
  <2>2. /\ lane'[w].pc = "gate" /\ lane'[w].conn = d /\ lane'[w].tok = lane[w].tok
        /\ \A v \in Worktrees \ {w} : lane'[v] = lane[v]
    BY <1>1, <2>1 DEF LaneState
  <2>3. /\ \A v \in Worktrees : ~Uses(v, d)
        /\ \A t \in Tokens : ~Has(d, t)
    BY <2>1 DEF Core, Basis, Owner, Places, Undialled
  <2>4. /\ \A c \in Conns \ {d} : inits'[c] = inits[c]
        /\ inits'[d] = IF kindOf[lane[w].tok] = "initialize" THEN 0 ELSE 1
    BY <1>1, <2>1
  <2> QED
    BY <1>1, <1>2, <2>1, <2>2, <2>3, <2>4 DEF Handshakes, Uses, Has
<1>4. CASE UpstreamReceives(w)
  <2>1. PICK d \in Conns, u \in Tokens : d = lane[w].conn /\ u = lane[w].tok
    BY <1>4 DEF UpstreamReceives, Core, Basis, Shape, LaneShape
  <2>2. /\ lane[w].pc = "write" /\ lane'[w].pc = "written" /\ lane'[w].conn = d
        /\ \A v \in Worktrees \ {w} : lane'[v] = lane[v]
        /\ UNCHANGED <<laneConn, responses>>
    BY <1>1, <1>4, <2>1 DEF UpstreamReceives, LaneState
  <2>3. \A c \in Conns, t \in Tokens : Has(c, t)' => Has(c, t) \/ c = d
    BY <1>1, <1>4, <2>1 DEF UpstreamReceives, Has
  <2>4. /\ inits'[d] = 1
        /\ \A c \in Conns \ {d} : inits'[c] = inits[c]
        /\ kindOf[u] = "initialize" => laneConn[w] # d
        /\ kindOf[u] # "initialize" => inits' = inits
    BY <1>1, <1>4, <2>1, <2>2 DEF UpstreamReceives, Handshakes
  <2>5. \A v \in Worktrees \ {w} : ~Uses(v, d)
    BY <2>1 DEF Core, Basis, Owner, Uses
  <2> QED
    BY <1>1, <1>2, <2>1, <2>2, <2>3, <2>4, <2>5 DEF Handshakes, Uses
<1>5. CASE LaneDelivered(w)
  <2>1. /\ lane[w].pc = "written" /\ lane' = [lane EXCEPT ![w] = Idle]
        /\ laneConn' = [laneConn EXCEPT ![w] = lane[w].conn]
        /\ UNCHANGED <<inits, upstream, responses>>
    BY <1>5 DEF LaneDelivered
  <2>2. /\ lane'[w].conn = NoConn /\ \A v \in Worktrees \ {w} : lane'[v] = lane[v] /\ laneConn'[v] = laneConn[v]
        /\ laneConn'[w] = lane[w].conn
    BY <1>1, <2>1 DEF Idle
  <2> QED
    BY <1>1, <1>2, <2>1, <2>2 DEF Handshakes, Has
<1>6. CASE LaneReuses(w)
  <2>1. /\ UNCHANGED <<laneConn, inits, upstream, responses>> /\ lane[w].pc = "attempt"
        /\ lane' = IF kindOf[lane[w].tok] = "initialize" THEN [lane EXCEPT ![w].try = @ + 1]
                   ELSE [lane EXCEPT ![w].pc = "gate", ![w].conn = laneConn[w]]
    BY <1>6 DEF LaneReuses, Trying
  <2>2. /\ \A v \in Worktrees \ {w} : lane'[v] = lane[v]
        /\ \/ lane'[w].pc = "attempt" /\ lane'[w].conn = lane[w].conn
           \/ /\ lane'[w].pc = "gate" /\ lane'[w].conn = laneConn[w] /\ lane'[w].tok = lane[w].tok
              /\ kindOf[lane[w].tok] # "initialize"
    BY <1>1, <2>1 DEF LaneState
  <2> QED
    BY <1>1, <1>2, <2>1, <2>2 DEF Handshakes, Has
<1>7. CASE LaneBegins(w)
  <2>1. /\ UNCHANGED <<laneConn, inits, upstream, responses>> /\ lane[w].pc = "gate"
        /\ \A v \in Worktrees \ {w} : lane'[v] = lane[v]
        /\ lane'[w].pc \in {"stale", "write"} /\ lane'[w].conn = lane[w].conn /\ lane'[w].tok = lane[w].tok
    BY <1>1, <1>7 DEF LaneBegins, LaneState
  <2> QED
    BY <1>1, <1>2, <2>1 DEF Handshakes, Has
<1>8. CASE \/ LaneSkips(w) \/ LaneTakes(w) \/ LaneGivesUp(w) \/ LaneDropsNotification(w)
           \/ LaneDialFails(w) \/ LaneRefused(w) \/ LaneTooLarge(w) \/ LaneWriteFails(w)
  <2>1. UNCHANGED <<inits, upstream, responses>>
    BY <1>8 DEF LaneSkips, LaneTakes, LaneGivesUp, LaneDropsNotification, LaneDialFails, LaneRefused,
       LaneTooLarge, LaneWriteFails
  <2>2. /\ \A v \in Worktrees \ {w} : lane'[v] = lane[v] /\ laneConn'[v] = laneConn[v]
        /\ laneConn'[w] \in {laneConn[w], NoConn}
        /\ lane'[w] = lane[w] \/ lane'[w].pc \in {"idle", "attempt"}
    BY <1>1, <1>8 DEF LaneSkips, LaneTakes, LaneGivesUp, LaneDropsNotification, LaneDialFails,
       LaneRefused, LaneTooLarge, LaneWriteFails, Idle, Attempting, LaneState, Trying
  <2> QED
    BY <1>1, <1>2, <2>1, <2>2 DEF Handshakes, Has
<1> QED
  BY <1>3, <1>4, <1>5, <1>6, <1>7, <1>8 DEF Delivery

\* No other goroutine sends an initialize.
LEMMA NextHandshakes ==
  ASSUME Core, Handshakes, [Next]_vars
  PROVE  Handshakes'
<1>1. ASSUME UNCHANGED <<lane, laneConn, inits>>, \A c \in Conns, t \in Tokens : Has(c, t)' => Has(c, t)
      PROVE  Handshakes'
  <2>1. \A w \in Worktrees : lane[w].pc # "idle" => kindOf'[lane[w].tok] = kindOf[lane[w].tok]
    BY DeliveredMinted, StepKindOf DEF Core
  <2> QED
    BY <1>1, <2>1 DEF Handshakes
<1>2. ASSUME UNCHANGED <<lane, laneConn, inits, upstream, responses>>
      PROVE  Handshakes'
  BY <1>1, <1>2 DEF Has
<1>3. ASSUME NEW c \in Conns, ReaderResponds(c)
      PROVE  Handshakes'
  <2>1. /\ UNCHANGED <<lane, laneConn, inits, upstream>>
        /\ \A d \in Conns : responses'[d] \subseteq responses[d]
    BY <1>3 DEF ReaderResponds, Core, Basis, Shape, TypeOK, LaneTypeOK
  <2> QED
    BY <1>1, <2>1 DEF Has
<1>4. ASSUME NEW c \in Conns, Gopls(c)
      PROVE  Handshakes'
  <2>1. UNCHANGED <<lane, laneConn, inits>>
    BY <1>4 DEF Gopls, UpstreamAnswers
  <2>2. \A d \in Conns, t \in Tokens : Has(d, t)' => Has(d, t)
    BY <1>4 DEF Gopls, UpstreamAnswers, Has, Core, Basis, Shape, TypeOK, LaneTypeOK
  <2> QED
    BY <1>1, <2>1, <2>2
<1>5. CASE \/ UNCHANGED vars \/ Ingress \/ Router \/ SessionFails
           \/ \E w \in Worktrees : Controls(w)
           \/ \E c \in Conns : ReaderErrs(c) \/ ReaderFailsCalls(c) \/ ReaderLeaves(c) \/ RootsWorker(c)
           \/ \E t \in Tokens : Timers(t)
  BY <1>2, <1>5, OthersQuiet DEF Core
<1>6. CASE SessionCloses
  BY <1>2, <1>6 DEF SessionCloses
<1> QED
  BY <1>3, <1>4, <1>5, <1>6, DeliveryHandshakes DEF Next, Reader

\* A connection is sent at most one initialize, the client's own or the replayed one,
\* and no request before it (upstream, dialBounded and cache, lane.go).
THEOREM OneHandshake == Spec => []InitializedOnce
<1>1. Init => Handshakes
  BY DEF Init, LaneInit, Handshakes, Conns, Idle, Has
<1>2. Core /\ Handshakes /\ [Next]_vars => Handshakes'
  BY NextHandshakes
<1>3. Core /\ Handshakes => InitializedOnce
  <2> SUFFICES ASSUME Core, Handshakes, NEW c \in Conns
               PROVE  inits[c] <= 1 /\ (upstream[c] \cup responses[c] # {} => inits[c] = 1)
    BY DEF InitializedOnce
  <2>1. upstream[c] \cup responses[c] \subseteq Tokens
    BY DEF Core, Basis, Shape, TypeOK, LaneTypeOK
  <2> QED
    BY <2>1 DEF Handshakes, Has
<1> QED
  BY <1>1, <1>2, <1>3, CoreInvariant, PTL DEF Spec

-----------------------------------------------------------------------------
(* Who answers a call that has been sent. *)

\* A connection's reader is running, or it or the roots worker is about to fail the
\* connection's calls.
Served(c) == reader[c] \in {"running", "failing"} \/ roots[c] \in {"releasing", "failing"}

\* The life of a connection's two goroutines.
Readers ==
  /\ \A w \in Worktrees, c \in Conns : laneConn[w] = c => reader[c] # "none"
  /\ \A c \in Conns :
       /\ session = "live" /\ reader[c] \in {"failing", "done"} => connState[c] \in {"closed", "released"}
       /\ connState[c] = "released" => roots[c] = "releasing"
       /\ roots[c] \in {"failing", "done"} => connState[c] = "closed"
       /\ connState[c] = "unused" => reader[c] = "none" /\ roots[c] = "idle"

\* A call that is owed by a connection is that of a reader or a worker, or of the lane
\* whose write over a connection not its own yet, or closed before it began, will end.
Tended ==
  session = "live" =>
    \A i \in Ids, c \in Conns, t \in Tokens : awaiting[i].tok = t /\ awaiting[i].conn = c =>
      \/ Served(c)
      \/ \E w \in Worktrees : Writes(w, c, t) /\ (laneConn[w] # c \/ lane[w].pc = "stale")

\* A lane leaves the goroutines of its connections in order.
LEMMA DeliveryReaders ==
  ASSUME Core, Readers, [Next]_vars, NEW w \in Worktrees, Delivery(w)
  PROVE  Readers'
<1>1. /\ lane \in [Worktrees -> LaneState] /\ laneConn \in [Worktrees -> Conns \cup {NoConn}]
      /\ NoConn \notin Conns /\ reader \in [Conns -> {"none", "running", "failing", "done"}]
      /\ connState \in [Conns -> {"unused", "open", "released", "closed"}]
      /\ UNCHANGED roots
  BY DEF Core, Basis, Shape, TypeOK, LaneTypeOK, Conns, Delivery, bridgeVars
<1>2. UNCHANGED session
  BY DEF Delivery, LaneSkips, LaneTakes, LaneGivesUp, LaneDropsNotification, LaneReuses, LaneDialFails,
     LaneBegins, LaneRefused, UpstreamReceives, LaneTooLarge, LaneDelivered, LaneWriteFails, LaneDials,
     trackerVars
<1>3. ASSUME NEW d \in Conns, LaneDials(w, d)
      PROVE  Readers'
  <2>1. connState[d] = "unused" /\ connState' = [connState EXCEPT ![d] = "open"] /\ UNCHANGED <<laneConn, reader>>
    BY <1>3 DEF LaneDials, NextConn
  <2> QED
    BY <1>1, <1>2, <2>1 DEF Readers
<1>4. CASE LaneDelivered(w)
  <2>1. PICK d \in Conns : d = lane[w].conn
    BY <1>4 DEF LaneDelivered, Core, Basis, Shape, LaneShape
  <2>2. connState[d] # "unused"
    BY <2>1 DEF Core, Basis, Owner, Uses
  <2>3. /\ laneConn' = [laneConn EXCEPT ![w] = d] /\ UNCHANGED connState
        /\ reader' = IF laneConn[w] = d THEN reader ELSE [reader EXCEPT ![d] = "running"]
    BY <1>4, <2>1 DEF LaneDelivered
  <2> QED
    BY <1>1, <1>2, <2>2, <2>3 DEF Readers
<1>5. ASSUME ~LaneDelivered(w), ~\E d \in Conns : LaneDials(w, d)
      PROVE  Readers'
  <2>1. UNCHANGED reader
    BY <1>5 DEF Delivery, LaneSkips, LaneTakes, LaneGivesUp, LaneDropsNotification, LaneReuses,
       LaneDialFails, LaneBegins, LaneRefused, UpstreamReceives, LaneTooLarge, LaneWriteFails
  <2>2. laneConn' = laneConn \/ laneConn' = [laneConn EXCEPT ![w] = NoConn]
    BY <1>5 DEF Delivery, LaneSkips, LaneTakes, LaneGivesUp, LaneDropsNotification, LaneReuses,
       LaneDialFails, LaneBegins, LaneRefused, UpstreamReceives, LaneTooLarge, LaneWriteFails
  <2>3. UNCHANGED connState \/ (lane[w].conn \in Conns /\ connState' = [connState EXCEPT ![lane[w].conn] = "closed"])
    <3>1. lane[w].pc \notin {"idle", "attempt"} => lane[w].conn \in Conns
      BY DEF Core, Basis, Shape, LaneShape
    <3>2. CASE LaneRefused(w) \/ LaneTooLarge(w) \/ LaneWriteFails(w)
      BY <3>1, <3>2 DEF LaneRefused, LaneTooLarge, LaneWriteFails, Writing, ClosedUnlessAdopted
    <3> QED
      BY <1>5, <3>2 DEF Delivery, LaneSkips, LaneTakes, LaneGivesUp, LaneDropsNotification, LaneReuses,
         LaneDialFails, LaneBegins, UpstreamReceives
  <2>4. \A c \in Conns : connState'[c] \in {connState[c], "closed"}
    BY <1>1, <2>3
  <2>5. \A c \in Conns : connState[c] = "closed" => connState'[c] = "closed"
    BY <2>4
  <2>6. \A v \in Worktrees : laneConn'[v] \in {laneConn[v], NoConn}
    BY <1>1, <2>2
  <2> QED
    BY <1>1, <1>2, <2>1, <2>4, <2>5, <2>6 DEF Readers
<1> QED
  BY <1>3, <1>4, <1>5

\* So do the goroutines themselves.
LEMMA NextReaders ==
  ASSUME Core, Readers, [Next]_vars
  PROVE  Readers'
<1>1. /\ reader \in [Conns -> {"none", "running", "failing", "done"}]
      /\ connState \in [Conns -> {"unused", "open", "released", "closed"}]
      /\ roots \in [Conns -> {"idle", "releasing", "failing", "done"}]
  BY DEF Core, Basis, Shape, TypeOK, LaneTypeOK, BridgeTypeOK
<1>2. ASSUME UNCHANGED <<laneConn, reader, connState, roots>>, session' = "live" => session = "live"
      PROVE  Readers'
  BY <1>2 DEF Readers
<1>3. CASE UNCHANGED vars \/ Ingress \/ Router \/ SessionFails
  BY <1>2, <1>3 DEF vars, trackerVars, laneVars, bridgeVars, Ingress, Admit, AdmitOverflows, AdmitTooLate,
     AdmitNotification, Cancel, IngressStops, Router, RouteTakes, RouteFails, RouteHandsOver,
     RouteOverflows, RouteStops, RouteBinds, RouteRefused, FailRouting, SessionFails
<1>4. ASSUME NEW w \in Worktrees, Controls(w)
      PROVE  Readers'
  BY <1>2, <1>4 DEF Controls, ControlChecks, ControlExpires, ControlWrites, bridgeVars, trackerVars
<1>5. ASSUME NEW t \in Tokens, Timers(t)
      PROVE  Readers'
  BY <1>2, <1>5 DEF laneVars, bridgeVars, Timers, TimerFires, TimerExpires, DeliveryExpires
<1>6. ASSUME NEW c \in Conns, Reader(c) \/ Gopls(c)
      PROVE  Readers'
  <2>1. CASE ReaderResponds(c) \/ Gopls(c)
    BY <1>2, <2>1 DEF ReaderResponds, Gopls, UpstreamAnswers, trackerVars, bridgeVars
  <2>2. CASE ReaderErrs(c)
    BY <1>1, <2>2 DEF ReaderErrs, trackerVars, bridgeVars, Readers
  <2>3. CASE ReaderFailsCalls(c)
    BY <1>1, <2>3 DEF ReaderFailsCalls, bridgeVars, Readers
  <2>4. CASE ReaderLeaves(c)
    BY <1>1, <2>4 DEF ReaderLeaves, trackerVars, bridgeVars, Readers
  <2> QED
    BY <1>6, <2>1, <2>2, <2>3, <2>4 DEF Reader
<1>7. ASSUME NEW c \in Conns, RootsWorker(c)
      PROVE  Readers'
  <2>1. CASE RootsReleases(c)
    BY <1>1, <2>1 DEF RootsReleases, trackerVars, Readers
  <2>2. CASE RootsCloses(c)
    BY <1>1, <2>2 DEF RootsCloses, trackerVars, Readers
  <2>3. CASE RootsFailsCalls(c)
    BY <1>1, <2>3 DEF RootsFailsCalls, laneVars, Readers
  <2> QED
    BY <1>7, <2>1, <2>2, <2>3 DEF RootsWorker
<1>8. CASE SessionCloses
  <2>1. UNCHANGED <<laneConn, reader, roots>> /\ session' = "closed"
    BY <1>8 DEF SessionCloses, bridgeVars
  <2>2. \A c \in Conns : connState'[c] = connState[c] \/ (connState'[c] = "closed" /\ \E w \in Worktrees : laneConn[w] = c)
    BY <1>1, <1>8 DEF SessionCloses
  <2> QED
    BY <1>1, <2>1, <2>2 DEF Readers
<1> QED
  BY <1>3, <1>4, <1>5, <1>6, <1>7, <1>8, DeliveryReaders DEF Next

\* A call that is owed as before is tended as before.
LEMMA SameTended ==
  ASSUME Tended, session = "live", NEW i \in Ids, NEW c \in Conns, NEW t \in Tokens,
         awaiting[i].tok = t, awaiting[i].conn = c, Served(c) => Served(c)',
         \A w \in Worktrees : Writes(w, c, t) /\ (laneConn[w] # c \/ lane[w].pc = "stale") =>
           Served(c)' \/ (Writes(w, c, t) /\ (laneConn[w] # c \/ lane[w].pc = "stale"))'
  PROVE  \/ Served(c)'
         \/ \E w \in Worktrees : (Writes(w, c, t) /\ (laneConn[w] # c \/ lane[w].pc = "stale"))'
  BY DEF Tended

\* A lane that stops writing leaves the call to a reader, or takes it back.
LEMMA DeliveryTended ==
  ASSUME Core, Readers, Tended, [Next]_vars, NEW w \in Worktrees, Delivery(w)
  PROVE  Tended'
<1>1. /\ lane \in [Worktrees -> LaneState] /\ laneConn \in [Worktrees -> Conns \cup {NoConn}]
      /\ NoConn \notin Conns /\ reader \in [Conns -> {"none", "running", "failing", "done"}]
      /\ connState \in [Conns -> {"unused", "open", "released", "closed"}]
      /\ awaiting \in [Ids -> Owed]
      /\ UNCHANGED roots
  BY DEF Core, Basis, Shape, TypeOK, LaneTypeOK, TrackerTypeOK, Conns, Delivery, bridgeVars
<1> SUFFICES ASSUME session' = "live", NEW i \in Ids, NEW c \in Conns, NEW t \in Tokens,
                    awaiting'[i].tok = t, awaiting'[i].conn = c
             PROVE  \/ Served(c)'
                    \/ \E v \in Worktrees : (Writes(v, c, t) /\ (laneConn[v] # c \/ lane[v].pc = "stale"))'
  BY DEF Tended
<1>2. session = "live"
  BY DEF Delivery, LaneSkips, LaneTakes, LaneGivesUp, LaneDropsNotification, LaneReuses, LaneDialFails,
     LaneBegins, LaneRefused, UpstreamReceives, LaneTooLarge, LaneDelivered, LaneWriteFails, LaneDials,
     trackerVars
<1>3. CASE LaneBegins(w)
  <2>1. PICK d \in Conns, u \in Tokens : d = lane[w].conn /\ u = lane[w].tok
    BY <1>3 DEF LaneBegins, Core, Basis, Shape, LaneShape
  <2>2. /\ UNCHANGED <<laneConn, reader>> /\ lane[w].pc = "gate"
        /\ lane'[w].pc = (IF connState[d] = "closed" THEN "stale" ELSE "write")
        /\ lane'[w].conn = d /\ lane'[w].tok = u
        /\ \A v \in Worktrees \ {w} : lane'[v] = lane[v]
    BY <1>1, <1>3, <2>1 DEF LaneBegins, LaneState
  <2>3. CASE awaiting[i].tok = t /\ awaiting[i].conn = c
    <3>1. Served(c) => Served(c)'
      BY <1>1, <2>2 DEF Served
    <3>2. \A v \in Worktrees : Writes(v, c, t) /\ (laneConn[v] # c \/ lane[v].pc = "stale") =>
            (Writes(v, c, t) /\ (laneConn[v] # c \/ lane[v].pc = "stale"))'
      BY <2>2 DEF Writes, Writing
    <3> QED
      BY <1>2, <2>3, <3>1, <3>2, SameTended
  <2>4. CASE ~(awaiting[i].tok = t /\ awaiting[i].conn = c)
    <3>1. c = d /\ t = u
      BY <1>1, <1>3, <2>1, <2>4 DEF LaneBegins, BeginOperation, Owed, Owned
    <3>2. (Writes(w, c, t))'
      BY <2>2, <3>1 DEF Writes, Writing
    <3>3. CASE laneConn[w] = c /\ connState[c] # "closed"
      <4>1. Served(c)
        BY <1>1, <1>2, <3>3 DEF Readers, Served
      <4> QED
        BY <1>1, <2>2, <4>1 DEF Served
    <3> QED
      BY <2>2, <3>1, <3>2, <3>3
  <2> QED
    BY <2>3, <2>4
<1>4. CASE UpstreamReceives(w)
  <2>1. /\ UNCHANGED <<laneConn, reader, awaiting>> /\ lane[w].pc = "write"
        /\ lane'[w].pc = "written" /\ lane'[w].conn = lane[w].conn /\ lane'[w].tok = lane[w].tok
        /\ \A v \in Worktrees \ {w} : lane'[v] = lane[v]
    BY <1>1, <1>4 DEF UpstreamReceives, trackerVars, LaneState
  <2>2. Served(c) => Served(c)'
    BY <1>1, <2>1 DEF Served
  <2>3. \A v \in Worktrees : Writes(v, c, t) /\ (laneConn[v] # c \/ lane[v].pc = "stale") =>
          (Writes(v, c, t) /\ (laneConn[v] # c \/ lane[v].pc = "stale"))'
    BY <2>1 DEF Writes, Writing
  <2> QED
    BY <1>2, <2>1, <2>2, <2>3, SameTended
<1>5. CASE LaneDelivered(w)
  <2>1. PICK d \in Conns : d = lane[w].conn
    BY <1>5 DEF LaneDelivered, Core, Basis, Shape, LaneShape
  <2>2. /\ UNCHANGED awaiting /\ lane[w].pc = "written" /\ \A v \in Worktrees \ {w} : lane'[v] = lane[v]
        /\ laneConn' = [laneConn EXCEPT ![w] = d]
        /\ reader' = IF laneConn[w] = d THEN reader ELSE [reader EXCEPT ![d] = "running"]
    BY <1>1, <1>5, <2>1 DEF LaneDelivered
  <2>3. Served(c) => Served(c)'
    BY <1>1, <2>2 DEF Served
  <2>4. Writes(w, c, t) /\ (laneConn[w] # c \/ lane[w].pc = "stale") => Served(c)'
    BY <1>1, <2>1, <2>2 DEF Served, Writes
  <2>5. \A v \in Worktrees \ {w} : Writes(v, c, t) /\ (laneConn[v] # c \/ lane[v].pc = "stale") =>
          (Writes(v, c, t) /\ (laneConn[v] # c \/ lane[v].pc = "stale"))'
    BY <1>1, <2>2 DEF Writes, Writing
  <2> QED
    BY <1>2, <2>2, <2>3, <2>4, <2>5, SameTended
<1>6. CASE LaneWriteFails(w)
  <2>1. PICK d \in Conns, u \in Tokens : d = lane[w].conn /\ u = lane[w].tok
    BY <1>6 DEF LaneWriteFails, Writing, Core, Basis, Shape, LaneShape
  <2>2. /\ UNCHANGED reader /\ laneConn' = [laneConn EXCEPT ![w] = NoConn]
        /\ \A v \in Worktrees \ {w} : lane'[v] = lane[v]
    BY <1>1, <1>6 DEF LaneWriteFails
  <2>3. awaiting[i].tok = t /\ awaiting[i].conn = c
    BY <1>1, <1>6 DEF LaneWriteFails, Retry, Unplace, Owed
  <2>4. ~Writes(w, c, t)
    <3> SUFFICES ASSUME Writes(w, c, t) PROVE FALSE
      OBVIOUS
    <3>1. i \in Owned(u) /\ awaiting[i].conn = d
      BY <2>1, <2>3 DEF Writes, Owned, Outstanding, Tokens
    <3>2. Retryable(u, d) /\ ~IsNotification(u)
      BY <3>1, NotificationOwesNone DEF Retryable, Owned, Core
    <3>3. Unplace(u)
      BY <1>6, <2>1, <3>2 DEF LaneWriteFails, Retry
    <3>4. awaiting'[i].conn = NoConn
      BY <1>1, <3>1, <3>3 DEF Unplace, Owed
    <3> QED
      BY <1>1, <3>4
  <2>5. Served(c) => Served(c)'
    BY <1>1, <2>2 DEF Served
  <2>6. \A v \in Worktrees \ {w} : Writes(v, c, t) /\ (laneConn[v] # c \/ lane[v].pc = "stale") =>
          (Writes(v, c, t) /\ (laneConn[v] # c \/ lane[v].pc = "stale"))'
    BY <1>1, <2>2 DEF Writes, Writing
  <2> QED
    BY <1>2, <2>3, <2>4, <2>5, <2>6, SameTended
<1>7. CASE LaneTooLarge(w)
  <2>1. PICK d \in Conns, u \in Tokens : d = lane[w].conn /\ u = lane[w].tok
    BY <1>7 DEF LaneTooLarge, Core, Basis, Shape, LaneShape
  <2>2. UNCHANGED <<reader, laneConn>> /\ \A v \in Worktrees \ {w} : lane'[v] = lane[v]
    BY <1>1, <1>7 DEF LaneTooLarge
  <2>3. awaiting[i].tok = t /\ awaiting[i].conn = c /\ t # u
    <3>1. CASE IsNotification(u)
      BY <1>7, <2>1, <3>1, NotificationOwesNone DEF LaneTooLarge, Core
    <3>2. CASE ~IsNotification(u)
      <4>1. Forget(Owned(u))
        BY <1>7, <2>1, <3>2 DEF LaneTooLarge, Remove
      <4>2. i \notin Owned(u) /\ awaiting'[i] = awaiting[i]
        BY <1>1, <4>1 DEF Forget, Vacant
      <4> QED
        BY <4>2 DEF Owned, Outstanding, Tokens
    <3> QED
      BY <3>1, <3>2
  <2>4. Served(c) => Served(c)'
    BY <1>1, <2>2 DEF Served
  <2>5. \A v \in Worktrees : Writes(v, c, t) /\ (laneConn[v] # c \/ lane[v].pc = "stale") =>
          (Writes(v, c, t) /\ (laneConn[v] # c \/ lane[v].pc = "stale"))'
    BY <2>1, <2>2, <2>3 DEF Writes, Writing
  <2> QED
    BY <1>2, <2>3, <2>4, <2>5, SameTended
<1>8. CASE \/ LaneSkips(w) \/ LaneTakes(w) \/ LaneGivesUp(w) \/ LaneDropsNotification(w)
           \/ LaneReuses(w) \/ LaneDialFails(w) \/ LaneRefused(w) \/ \E d \in Conns : LaneDials(w, d)
  <2>1. /\ UNCHANGED <<reader, laneConn>> /\ \A v \in Worktrees \ {w} : lane'[v] = lane[v]
        /\ ~Writing(w) \/ lane' = lane
    BY <1>1, <1>8 DEF LaneSkips, LaneTakes, LaneGivesUp, LaneDropsNotification, LaneReuses, LaneDialFails,
       LaneRefused, LaneDials, Trying, Writing
  <2>2. awaiting[i].tok = t /\ awaiting[i].conn = c
    <3>1. CASE UNCHANGED awaiting
      BY <3>1
    <3>2. CASE LaneTakes(w)
      BY <3>2, TakesNothing DEF Core, Places
    <3>3. CASE LaneGivesUp(w) \/ LaneRefused(w)
      BY <3>3, ClaimQuiet DEF LaneGivesUp, LaneRefused, FailDelivery, Remove, Core
    <3> QED
      BY <1>8, <3>1, <3>2, <3>3 DEF LaneSkips, LaneDropsNotification, LaneReuses, LaneDialFails, LaneDials,
         trackerVars
  <2>3. Served(c) => Served(c)'
    BY <1>1, <2>1 DEF Served
  <2>4. \A v \in Worktrees : Writes(v, c, t) /\ (laneConn[v] # c \/ lane[v].pc = "stale") =>
          (Writes(v, c, t) /\ (laneConn[v] # c \/ lane[v].pc = "stale"))'
    BY <2>1 DEF Writes, Writing
  <2> QED
    BY <1>2, <2>2, <2>3, <2>4, SameTended
<1> QED
  BY <1>3, <1>4, <1>5, <1>6, <1>7, <1>8 DEF Delivery

\* A reader or a worker that ends fails the calls of its connection first.
LEMMA NextTended ==
  ASSUME Core, Readers, Tended, [Next]_vars
  PROVE  Tended'
<1>1. /\ reader \in [Conns -> {"none", "running", "failing", "done"}] /\ NoConn \notin Conns
      /\ roots \in [Conns -> {"idle", "releasing", "failing", "done"}] /\ awaiting \in [Ids -> Owed]
  BY DEF Core, Basis, Shape, TypeOK, LaneTypeOK, BridgeTypeOK, TrackerTypeOK, Conns
<1>2. ASSUME UNCHANGED <<lane, laneConn>>, session' = "live" => session = "live",
             \A i \in Ids, c \in Conns, t \in Tokens : awaiting'[i].tok = t /\ awaiting'[i].conn = c =>
               /\ awaiting[i].tok = t /\ awaiting[i].conn = c
               /\ Served(c) /\ session' = "live" => Served(c)'
      PROVE  Tended'
  BY <1>2 DEF Tended, Writes, Writing
<1>3. ASSUME NEW S, Forget(S)
      PROVE  \A i \in Ids, c \in Conns, t \in Tokens : awaiting'[i].tok = t /\ awaiting'[i].conn = c =>
               awaiting[i].tok = t /\ awaiting[i].conn = c /\ i \notin S
  BY <1>1, <1>3 DEF Forget, Vacant
<1>4. CASE Ingress
  <2>1. UNCHANGED <<lane, laneConn, session, reader, roots>>
    BY <1>4 DEF Ingress, Admit, AdmitOverflows, AdmitTooLate, AdmitNotification, Cancel, IngressStops,
       trackerVars, laneVars, bridgeVars
  <2>2. \A i \in Ids, c \in Conns, t \in Tokens : awaiting'[i].tok = t /\ awaiting'[i].conn = c =>
          awaiting[i].tok = t /\ awaiting[i].conn = c
    <3>1. ASSUME NEW j \in Ids, Track(j)
          PROVE  \A i \in Ids, c \in Conns, t \in Tokens : awaiting'[i].tok = t /\ awaiting'[i].conn = c =>
                   awaiting[i].tok = t /\ awaiting[i].conn = c
      BY <1>1, <3>1 DEF Track, Vacant
    <3> QED
      BY <1>3, <1>4, <3>1, ZenonT(40) DEF Ingress, Admit, AdmitOverflows, AdmitTooLate, AdmitNotification, Cancel,
         Finish, Remove, IngressStops, trackerVars
  <2> QED
    BY <1>2, <2>1, <2>2 DEF Served
<1>5. CASE Router
  <2>1. UNCHANGED <<lane, laneConn, session, reader, roots>>
    BY <1>5 DEF Router, RouteTakes, RouteFails, RouteHandsOver, RouteOverflows, RouteStops, RouteBinds,
       RouteRefused, FailRouting, trackerVars, laneVars
  <2>2. \A i \in Ids, c \in Conns, t \in Tokens : awaiting'[i].tok = t /\ awaiting'[i].conn = c =>
          awaiting[i].tok = t /\ awaiting[i].conn = c
    <3>1. ASSUME NEW u, NEW w, Bind(u, w)
          PROVE  \A i \in Ids, c \in Conns, t \in Tokens : awaiting'[i].tok = t /\ awaiting'[i].conn = c =>
                   awaiting[i].tok = t /\ awaiting[i].conn = c
      BY <1>1, <3>1 DEF Bind, Owed
    <3> QED
      BY <1>3, <1>5, <3>1 DEF Router, RouteTakes, RouteFails, RouteHandsOver, RouteOverflows, RouteStops,
         RouteBinds, RouteRefused, FailRouting, FailDelivery, Remove, trackerVars
  <2> QED
    BY <1>2, <2>1, <2>2 DEF Served
<1>6. CASE UNCHANGED vars \/ SessionFails \/ SessionCloses
  <2>1. CASE UNCHANGED vars
    BY <1>2, <2>1 DEF vars, trackerVars, laneVars, bridgeVars, Served
  <2>2. CASE SessionFails \/ SessionCloses
    BY <2>2 DEF SessionFails, SessionCloses, Tended
  <2> QED
    BY <1>6, <2>1, <2>2
<1>7. ASSUME NEW w \in Worktrees, Controls(w)
      PROVE  Tended'
  BY <1>2, <1>7 DEF Controls, ControlChecks, ControlExpires, ControlWrites, trackerVars, bridgeVars, Served
<1>8. ASSUME NEW d \in Conns, Gopls(d) \/ ReaderErrs(d) \/ ReaderLeaves(d) \/ RootsReleases(d) \/ RootsCloses(d)
      PROVE  Tended'
  <2>1. UNCHANGED <<lane, laneConn, session, awaiting>>
    BY <1>8 DEF Gopls, UpstreamAnswers, ReaderErrs, ReaderLeaves, RootsReleases, RootsCloses, trackerVars,
       bridgeVars
  <2>2. \A c \in Conns : Served(c) /\ session' = "live" => Served(c)'
    BY <1>1, <1>8 DEF Gopls, UpstreamAnswers, ReaderErrs, ReaderLeaves, RootsReleases, RootsCloses,
       trackerVars, bridgeVars, Served
  <2> QED
    BY <1>2, <2>1, <2>2
<1>9. ASSUME NEW d \in Conns, ReaderFailsCalls(d) \/ RootsFailsCalls(d)
      PROVE  Tended'
  <2>1. Forget(OwedBy(d)) /\ UNCHANGED <<lane, laneConn, session>>
    BY <1>9 DEF ReaderFailsCalls, RootsFailsCalls, Finish, Remove, laneVars
  <2>2. \A c \in Conns \ {d} : Served(c) => Served(c)'
    BY <1>1, <1>9 DEF ReaderFailsCalls, RootsFailsCalls, laneVars, bridgeVars, Served
  <2>3. \A i \in Ids, c \in Conns, t \in Tokens : awaiting'[i].tok = t /\ awaiting'[i].conn = c =>
          awaiting[i].tok = t /\ awaiting[i].conn = c /\ c # d
    BY <1>3, <2>1 DEF OwedBy, Outstanding, Tokens
  <2> QED
    BY <1>2, <2>1, <2>2, <2>3
<1>10. ASSUME NEW d \in Conns, ReaderResponds(d)
       PROVE  Tended'
  <2>1. PICK u \in responses[d] : FinishResponse(d, u)
    BY <1>10 DEF ReaderResponds
  <2>2. UNCHANGED <<lane, laneConn, session, reader, roots>>
    BY <1>10 DEF ReaderResponds, bridgeVars
  <2>3. Forget({idOf[u]} \cap OwedBy(d))
    BY <2>1 DEF FinishResponse, Remove
  <2> QED
    BY <1>2, <1>3, <2>2, <2>3 DEF Served
<1>11. ASSUME NEW u \in Tokens, Timers(u)
       PROVE  Tended'
  <2>1. UNCHANGED <<lane, laneConn, session, reader, roots>>
    BY <1>11 DEF Timers, TimerFires, TimerExpires, DeliveryExpires, laneVars, bridgeVars
  <2>2. UNCHANGED awaiting \/ Forget(Owned(u))
    BY <1>11 DEF Timers, TimerFires, TimerExpires, DeliveryExpires
  <2> QED
    BY <1>2, <1>3, <2>1, <2>2 DEF Served
<1> QED
  BY <1>4, <1>5, <1>6, <1>7, <1>8, <1>9, <1>10, <1>11, DeliveryTended DEF Next, Reader, RootsWorker

\* While a session runs, a call that was handed to gopls always has someone left who
\* will answer it, through readers that fail, workers that give their connection up
\* and writes that outlive both (readFromUpstream, answerRootsAsks, cache, retry).
THEOREM NobodyLeftBehind == Spec => []NobodyStranded
<1>1. Init => Readers /\ Tended
  BY DEF Init, LaneInit, TrackerInit, Readers, Tended, Vacant, Conns
<1>2. Core /\ Readers /\ Tended /\ [Next]_vars => Readers' /\ Tended'
  BY NextReaders, NextTended
<1>3. Core /\ Tended => NobodyStranded
  <2> SUFFICES ASSUME Core, Tended, session = "live", NEW i \in Outstanding, awaiting[i].conn # NoConn
               PROVE  \/ \E w \in Worktrees : /\ Writing(w) /\ lane[w].conn = awaiting[i].conn
                                              /\ lane[w].tok = awaiting[i].tok
                      \/ reader[awaiting[i].conn] \in {"running", "failing"}
                      \/ roots[awaiting[i].conn] \in {"releasing", "failing"}
    BY DEF NobodyStranded
  <2>1. awaiting[i] \in Owed /\ i \in Ids /\ awaiting[i].tok # NoToken
    BY DEF Core, Basis, Shape, TypeOK, TrackerTypeOK, Outstanding
  <2>2. PICK c \in Conns, t \in Tokens : c = awaiting[i].conn /\ t = awaiting[i].tok
    BY <2>1 DEF Owed
  <2>3. Served(c) \/ \E w \in Worktrees : Writes(w, c, t)
    BY <2>1, <2>2 DEF Tended
  <2> QED
    BY <2>2, <2>3 DEF Served, Writes
<1> QED
  BY <1>1, <1>2, <1>3, CoreInvariant, PTL DEF Spec
=============================================================================
