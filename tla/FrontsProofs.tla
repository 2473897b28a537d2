---------------------------- MODULE FrontsProofs ----------------------------
(***************************************************************************)
(* Safety of the two fronts of a process: of the HTTP backend for any      *)
(* number of requests, limits and queue lengths, and of the stdio session  *)
(* for any number of requests and any length of its queues.                *)
(***************************************************************************)
EXTENDS MCFronts, FiniteSetTheorems, TLAPS

-----------------------------------------------------------------------------
\* The HTTP backend.

\* How far the callers are that are registered for a reply.
Registered == {"registered", "prepared", "waiting", "leaving", "unlisting"}

\* The queues hold calls, and hold each reply once.
Queues ==
  /\ queue \in Seq(Calls) /\ cold \in Seq(Calls) /\ out \in Seq(Calls)
  /\ \A i, j \in 1 .. Len(out) : i # j => out[i] # out[j]
  /\ held \in Calls \cup {Nobody} /\ offering \in BOOLEAN

\* The reply of c is on its way or has arrived.
OnItsWay(c) == \E i \in 1 .. Len(out) : out[i] = c

\* A caller registers before its call is tracked and unlists after, and a call is tracked
\* or answered but not both.
Callers ==
  /\ \A c \in Calls : c \in pending <=> pc[c] \in Registered
  /\ \A c \in tracked : pc[c] \in {"prepared", "waiting", "leaving"}
  /\ \A c \in Calls : OnItsWay(c) \/ c \in box =>
       c \notin tracked /\ pc[c] \notin {"idle", "arrived", "registered"}
  /\ \A c \in box : ~OnItsWay(c)

\* A caller has a slot for as long as its client is there, and the slots and the
\* registrations keep their limits.
Slotted ==
  /\ Session \in Nat \ {0}
  /\ \A c \in Calls : c \in exchanges \/ c \in gone \/ pc[c] \in {"idle", "returned"}
  /\ \A c \in Calls : pc[c] = "idle" => c \notin exchanges
  /\ Cardinality(exchanges) <= Slots /\ Cardinality(pending) <= Session

\* The inductive invariant of the backend.
Backend == TypeOK /\ Queues /\ Callers /\ NoReplyDropped /\ Slotted /\ LimitsAgree

\* Everything a step counts is finite.
LEMMA AllFinite ==
  ASSUME TypeOK
  PROVE  /\ IsFiniteSet(exchanges) /\ IsFiniteSet(pending) /\ IsFiniteSet(tracked)
         /\ Cardinality(exchanges) \in Nat /\ Cardinality(pending) \in Nat
         /\ Cardinality(tracked) \in Nat
<1>1. IsFiniteSet(exchanges) /\ IsFiniteSet(pending) /\ IsFiniteSet(tracked)
  BY HttpAssumption, FS_Subset DEF TypeOK
<1> QED  BY <1>1, FS_CardinalityType

\* What an answer does to the tracker and to the output queue.
Settles ==
  /\ tracked' \subseteq tracked /\ out' \in Seq(Calls) /\ Len(out') <= OutQueue
  /\ \A i, j \in 1 .. Len(out') : i # j => out'[i] # out'[j]
  /\ \A c \in Calls : (\E i \in 1 .. Len(out') : out'[i] = c) =>
       OnItsWay(c) \/ (c \in tracked /\ c \notin tracked')

\* Whoever claims a call queues at most one reply to it.
LEMMA AnswerSettles ==
  ASSUME TypeOK, Queues, Callers, NEW c \in Calls, Answer(c)
  PROVE  Settles
<1>1. OutQueue \in Nat /\ Len(out) \in Nat /\ Len(out) <= OutQueue
  BY HttpAssumption DEF TypeOK, Queues
<1>2. CASE UNCHANGED out
  BY <1>1, <1>2 DEF Answer, Settles, Queues, OnItsWay
<1>3. CASE /\ c \in tracked /\ tracked' = tracked \ {c}
           /\ Len(out) < OutQueue /\ out' = Append(out, c)
  <2>1. ~OnItsWay(c)
    BY <1>3 DEF Callers
  <2>2. /\ Len(out') = Len(out) + 1 /\ out' \in Seq(Calls) /\ out'[Len(out) + 1] = c
        /\ \A i \in 1 .. Len(out) : out'[i] = out[i]
    BY <1>3 DEF Queues
  <2> QED  BY <1>1, <1>3, <2>1, <2>2 DEF Settles, Queues, OnItsWay
<1> QED  BY <1>2, <1>3 DEF Answer, Forward

\* The tracker is the smaller set: it never refuses a caller that is registered.
LEMMA RoomToTrack ==
  ASSUME Backend, NEW c \in Calls, pc[c] = "registered"
  PROVE  Cardinality(tracked) < Session
<1>1. tracked \subseteq pending \ {c} /\ c \in pending
  BY DEF Backend, Callers, Registered, TypeOK
<1>2. IsFiniteSet(pending) /\ Cardinality(pending \ {c}) = Cardinality(pending) - 1
      /\ IsFiniteSet(pending \ {c})
  BY <1>1, AllFinite, FS_RemoveElement, FS_Subset DEF Backend
<1>3. Cardinality(tracked) <= Cardinality(pending \ {c})
  BY <1>1, <1>2, FS_Subset
<1> QED  BY <1>2, <1>3, AllFinite DEF Backend, Slotted

\* As long as nobody has left, everybody who is registered has a slot, and whoever asks
\* for one more registration has one as well.
LEMMA RoomToRegister ==
  ASSUME Backend, gone = {}, NEW c \in Calls, pc[c] = "arrived"
  PROVE  Cardinality(pending) < Session
<1>1. pending \subseteq exchanges \ {c} /\ c \in exchanges
  BY DEF Backend, Callers, Registered, Slotted, TypeOK
<1>2. IsFiniteSet(exchanges) /\ Cardinality(exchanges \ {c}) = Cardinality(exchanges) - 1
      /\ IsFiniteSet(exchanges \ {c})
  BY <1>1, AllFinite, FS_RemoveElement, FS_Subset DEF Backend
<1>3. Cardinality(pending) <= Cardinality(exchanges \ {c})
  BY <1>1, <1>2, FS_Subset
<1>4. Slots <= Session /\ Slots \in Nat
  BY HttpAssumption DEF Backend, Slotted, Slots
<1> QED  BY <1>2, <1>3, <1>4, AllFinite DEF Backend, Slotted

\* A set that gains one element or loses some keeps a limit it has not reached.
LEMMA GainsOne ==
  ASSUME NEW T, IsFiniteSet(T), NEW x
  PROVE  /\ Cardinality(T \cup {x}) <= Cardinality(T) + 1
         /\ Cardinality(T \ {x}) <= Cardinality(T)
         /\ Cardinality(T \cup {x}) \in Nat /\ Cardinality(T \ {x}) \in Nat
<1>1. Cardinality(T) \in Nat
  BY FS_CardinalityType
<1>2. /\ IsFiniteSet(T \cup {x})
      /\ Cardinality(T \cup {x}) = Cardinality(T) \/ Cardinality(T \cup {x}) = Cardinality(T) + 1
  BY FS_AddElement, Zenon
<1>3. Cardinality(T \ {x}) <= Cardinality(T) /\ Cardinality(T \ {x}) \in Nat
  BY FS_Subset, FS_CardinalityType
<1> QED  BY <1>1, <1>2, <1>3

\* An empty backend keeps all this.
LEMMA InitBackend == Init => Backend
<1> SUFFICES ASSUME Init PROVE Backend
  OBVIOUS
<1>0. TypeOK
  BY HttpAssumption DEF Init, TypeOK
<1>1. NoReplyDropped /\ LimitsAgree
  BY DEF Init, NoReplyDropped, LimitsAgree, NeverRefusedTwice, LimitOnlyAfterDisconnect
<1>q. Queues
  <2>1. queue = <<>> /\ cold = <<>> /\ out = <<>> /\ Len(out) = 0 /\ held = Nobody /\ offering = FALSE
    BY DEF Init
  <2>2. <<>> \in Seq(Calls)
    OBVIOUS
  <2>3. \A i \in 1 .. 0 : FALSE
    OBVIOUS
  <2> QED  BY <2>1, <2>2, <2>3 DEF Queues
<1>2. Callers
  BY DEF Init, Callers, Registered, OnItsWay
<1>3. Slotted
  BY HttpAssumption, FS_EmptySet DEF Init, Slotted, Slots
<1> QED  BY <1>0, <1>1, <1>q, <1>2, <1>3 DEF Backend

\* How a caller's own steps, its exchange's, and those of the router, of the coordinator
\* and of the output goroutine keep them.
LEMMA CallersStep ==
  ASSUME Backend, UNCHANGED Session, NEW c \in Calls,
         Accept(c) \/ Disconnect(c) \/ EndExchange(c) \/ Caller(c)
  PROVE  Backend'
<1>t. /\ IsFiniteSet(exchanges) /\ IsFiniteSet(pending) /\ Cardinality(exchanges) \in Nat
      /\ Cardinality(pending) \in Nat /\ Cardinality(tracked) \in Nat
      /\ TypeOK /\ Queues /\ Callers /\ NoReplyDropped /\ Slotted /\ LimitsAgree
  BY AllFinite DEF Backend
<1>s. Session \in Nat /\ Slots \in Nat /\ Slots' = Slots /\ Nobody \notin Calls
  BY HttpAssumption DEF Backend, Slotted, Slots
<1>1. CASE Accept(c)
  <2>1. TypeOK' /\ Queues' /\ NoReplyDropped'
    BY <1>1, <1>t DEF Accept, routeVars, TypeOK, Queues, NoReplyDropped
  <2>2. Callers'
    BY <1>1, <1>t DEF Accept, routeVars, TypeOK, Callers, Registered, OnItsWay
  <2>3. Cardinality(exchanges') <= Slots
    <3>1. Cardinality(exchanges \cup {c}) <= Cardinality(exchanges) + 1
          /\ Cardinality(exchanges \cup {c}) \in Nat
      BY <1>t, GainsOne
    <3> QED  BY <1>1, <1>t, <1>s, <3>1 DEF Accept, Slotted
  <2>4. Slotted' /\ LimitsAgree'
    BY <1>1, <1>t, <1>s, <2>3 DEF Accept, Slotted, TypeOK, LimitsAgree, NeverRefusedTwice,
       LimitOnlyAfterDisconnect
  <2> QED  BY <2>1, <2>2, <2>4 DEF Backend
<1>2. CASE Disconnect(c)
  <2>1. TypeOK' /\ Queues' /\ NoReplyDropped'
    BY <1>2, <1>t DEF Disconnect, routeVars, TypeOK, Queues, NoReplyDropped
  <2>2. Callers'
    BY <1>2, <1>t DEF Disconnect, routeVars, TypeOK, Callers, Registered, OnItsWay
  <2>3. Slotted' /\ LimitsAgree'
    BY <1>2, <1>t, <1>s DEF Disconnect, Slotted, TypeOK, LimitsAgree, NeverRefusedTwice,
       LimitOnlyAfterDisconnect
  <2> QED  BY <2>1, <2>2, <2>3 DEF Backend
<1>3. CASE EndExchange(c)
  <2>1. TypeOK' /\ Queues' /\ NoReplyDropped'
    BY <1>3, <1>t DEF EndExchange, routeVars, TypeOK, Queues, NoReplyDropped
  <2>2. Callers'
    BY <1>3, <1>t DEF EndExchange, routeVars, TypeOK, Callers, Registered, OnItsWay
  <2>3. Cardinality(exchanges') <= Slots /\ pending \ gone \subseteq exchanges'
    <3>1. Cardinality(exchanges') <= Cardinality(exchanges) /\ Cardinality(exchanges') \in Nat
      BY <1>3, <1>t, GainsOne, FS_Subset, FS_CardinalityType DEF EndExchange
    <3>2. c \notin pending \ gone
      BY <1>3, <1>t DEF EndExchange, Callers, Registered
    <3> QED  BY <1>3, <1>t, <1>s, <3>1, <3>2 DEF EndExchange, Slotted, LimitsAgree,
                LimitOnlyAfterDisconnect
  <2>4. Slotted' /\ LimitsAgree'
    BY <1>3, <1>t, <1>s, <2>3 DEF EndExchange, Slotted, TypeOK, LimitsAgree, NeverRefusedTwice,
       LimitOnlyAfterDisconnect
  <2> QED  BY <2>1, <2>2, <2>4 DEF Backend
<1>4. CASE Register(c)
  <2>1. TypeOK' /\ Queues' /\ NoReplyDropped'
    BY <1>4, <1>t, SMTT(30) DEF Register, routeVars, TypeOK, Queues, NoReplyDropped
  <2>2. Callers'
    BY <1>4, <1>t DEF Register, routeVars, TypeOK, Callers, Registered, OnItsWay
  <2>3. Cardinality(pending') <= Session
    <3>1. Cardinality(pending \cup {c}) <= Cardinality(pending) + 1
          /\ Cardinality(pending \cup {c}) \in Nat
      BY <1>t, GainsOne
    <3>2. CASE pending' = pending
      BY <1>t, <3>2 DEF Slotted
    <3>3. CASE Cardinality(pending) < Session /\ pending' = pending \cup {c}
      BY <1>t, <1>s, <3>1, <3>3
    <3> QED  BY <1>4, <1>t, <1>s, <3>2, <3>3 DEF Register
  <2>4. Slotted'
    BY <1>4, <1>t, <1>s, <2>3 DEF Register, Slotted, TypeOK
  <2>5. LimitsAgree'
    BY <1>4, <1>t, <1>s, RoomToRegister DEF Backend, Register, Slotted, TypeOK, LimitsAgree,
       NeverRefusedTwice, LimitOnlyAfterDisconnect
  <2> QED  BY <2>1, <2>2, <2>4, <2>5 DEF Backend
<1>5. CASE Prepare(c)
  <2>1. /\ tracked' = tracked \cup {c} /\ pc' = [pc EXCEPT ![c] = "prepared"]
        /\ UNCHANGED <<out, failure, denied>>
    BY <1>5, <1>t, <1>s, RoomToTrack DEF Prepare, Slotted
  <2>2. TypeOK' /\ Queues' /\ NoReplyDropped'
    BY <1>5, <1>t, <2>1 DEF Prepare, routeVars, TypeOK, Queues, NoReplyDropped
  <2>3. Callers'
    BY <1>5, <1>t, <2>1 DEF Prepare, routeVars, TypeOK, Callers, Registered, OnItsWay
  <2>4. Slotted' /\ LimitsAgree'
    BY <1>5, <1>t, <1>s, <2>1 DEF Prepare, Slotted, TypeOK, LimitsAgree, NeverRefusedTwice,
       LimitOnlyAfterDisconnect
  <2> QED  BY <2>2, <2>3, <2>4 DEF Backend
<1>6. CASE Enqueue(c)
  <2>1. Settles
    <3>1. CASE UNCHANGED <<tracked, out>>
      BY <3>1, <1>t DEF Settles, Queues, TypeOK, OnItsWay
    <3> QED  BY <1>6, <1>t, <3>1, AnswerSettles DEF Enqueue
  <2>q. queue' \in Seq(Calls) /\ Len(queue') <= LaneQueue
    <3>1. CASE queue' = queue
      BY <3>1, <1>t DEF TypeOK, Queues
    <3>2. CASE Len(queue) < LaneQueue /\ queue' = Append(queue, c)
      BY <3>2, <1>t, HttpAssumption DEF Queues
    <3> QED  BY <1>6, <3>1, <3>2 DEF Enqueue
  <2>2. TypeOK' /\ Queues' /\ NoReplyDropped'
    BY <1>6, <1>t, <1>s, <2>1, <2>q DEF Enqueue, TypeOK, Queues, NoReplyDropped, Settles
  <2>3. Callers'
    BY <1>6, <1>t, <2>1 DEF Enqueue, TypeOK, Callers, Registered, OnItsWay, Settles
  <2>4. Slotted' /\ LimitsAgree'
    BY <1>6, <1>t, <1>s DEF Enqueue, Slotted, TypeOK, LimitsAgree, NeverRefusedTwice,
       LimitOnlyAfterDisconnect
  <2> QED  BY <2>2, <2>3, <2>4 DEF Backend
<1>7. CASE TakeReply(c) \/ GiveUp(c) \/ BackendEnded(c)
  <2>0. Leave(c)
    BY <1>7 DEF TakeReply, GiveUp, BackendEnded
  <2>1. Settles
    <3>1. CASE UNCHANGED <<tracked, out>>
      BY <3>1, <1>t DEF Settles, Queues, TypeOK, OnItsWay
    <3> QED  BY <1>7, <1>t, <3>1, AnswerSettles DEF TakeReply, GiveUp, BackendEnded
  <2>2. TypeOK' /\ Queues' /\ NoReplyDropped'
    BY <2>0, <1>t, <1>s, <2>1 DEF Leave, routeVars, TypeOK, Queues, NoReplyDropped, Settles
  <2>3. Callers'
    BY <2>0, <1>t, <2>1 DEF Leave, TypeOK, Callers, Registered, OnItsWay, Settles
  <2>4. Slotted' /\ LimitsAgree'
    BY <2>0, <1>t, <1>s DEF Leave, Slotted, TypeOK, LimitsAgree, NeverRefusedTwice,
       LimitOnlyAfterDisconnect
  <2> QED  BY <2>2, <2>3, <2>4 DEF Backend
<1>8. CASE Finish(c)
  <2>1. TypeOK' /\ Queues' /\ NoReplyDropped'
    BY <1>8, <1>t DEF Finish, routeVars, TypeOK, Queues, NoReplyDropped
  <2>2. Callers'
    BY <1>8, <1>t DEF Finish, routeVars, TypeOK, Callers, Registered, OnItsWay
  <2>3. Slotted' /\ LimitsAgree'
    BY <1>8, <1>t, <1>s DEF Finish, Slotted, TypeOK, LimitsAgree, NeverRefusedTwice,
       LimitOnlyAfterDisconnect
  <2> QED  BY <2>1, <2>2, <2>3 DEF Backend
<1>9. CASE Unlist(c)
  <2>1. TypeOK' /\ Queues' /\ NoReplyDropped'
    BY <1>9, <1>t DEF Unlist, routeVars, TypeOK, Queues, NoReplyDropped
  <2>2. Callers'
    BY <1>9, <1>t DEF Unlist, routeVars, TypeOK, Callers, Registered, OnItsWay
  <2>3. Cardinality(pending') <= Session
    <3>1. Cardinality(pending') <= Cardinality(pending) /\ Cardinality(pending') \in Nat
      BY <1>9, <1>t, GainsOne, FS_Subset, FS_CardinalityType DEF Unlist
    <3> QED  BY <1>t, <1>s, <3>1 DEF Slotted
  <2>4. Slotted' /\ LimitsAgree'
    BY <1>9, <1>t, <1>s, <2>3 DEF Unlist, Slotted, TypeOK, LimitsAgree, NeverRefusedTwice,
       LimitOnlyAfterDisconnect
  <2> QED  BY <2>1, <2>2, <2>4 DEF Backend
<1> QED  BY <1>1, <1>2, <1>3, <1>4, <1>5, <1>6, <1>7, <1>8, <1>9 DEF Caller

\* Outside the callers no step changes how far a caller is, its slot or its registration:
\* what is left to show is what it does to the queues and to the replies.
LEMMA OthersStep ==
  ASSUME Backend, Session' = Session, UNCHANGED <<pc, denied, exchanges, gone, pending>>,
         TypeOK', Queues', NoReplyDropped', tracked' \subseteq tracked,
         \A c \in Calls : OnItsWay(c)' \/ c \in box' =>
           OnItsWay(c) \/ c \in box \/ (c \in tracked /\ c \notin tracked'),
         \A c \in box' : ~OnItsWay(c)'
  PROVE  Backend'
<1>1. Callers'
  BY DEF Backend, Callers, TypeOK
<1>2. Slotted' /\ LimitsAgree'
  BY DEF Backend, Slotted, Slots, LimitsAgree, NeverRefusedTwice, LimitOnlyAfterDisconnect
<1> QED  BY <1>1, <1>2 DEF Backend

\* A call that is answered outside the callers.
LEMMA SettlesStep ==
  ASSUME Backend, Session' = Session, UNCHANGED callerVars, UNCHANGED dropped, Settles,
         queue' \in Seq(Calls), Len(queue') <= LaneQueue,
         cold' \in Seq(Calls), Len(cold') <= LaneQueue,
         lane' \subseteq Calls, held' \in Calls \cup {Nobody}, offering' \in BOOLEAN,
         offering' => held' # Nobody
  PROVE  Backend'
<1>1. TypeOK' /\ Queues' /\ NoReplyDropped'
  BY DEF Backend, TypeOK, Queues, NoReplyDropped, Settles, callerVars
<1>2. \A c \in Calls : OnItsWay(c)' => OnItsWay(c) \/ (c \in tracked /\ c \notin tracked')
  BY DEF Settles, OnItsWay
<1>3. \A c \in box' : ~OnItsWay(c)'
  BY <1>2 DEF Backend, TypeOK, Callers, callerVars
<1> QED  BY <1>1, <1>2, <1>3, OthersStep DEF Settles, callerVars

\* Where nothing is answered the queue of replies stays as it is.
LEMMA NothingSettled ==
  ASSUME Backend, out' = out, tracked' \subseteq tracked
  PROVE  Settles
BY DEF Backend, TypeOK, Queues, Settles, OnItsWay

\* Routing a resolved call.
LEMMA RouteSettles ==
  ASSUME Backend, NEW c \in Calls, RouteResolved(c)
  PROVE  Settles /\ lane' \subseteq Calls
<1>1. CASE c \in tracked /\ lane' = lane \cup {c} /\ UNCHANGED <<tracked, out, failure>>
  BY <1>1, NothingSettled DEF Backend, TypeOK
<1>2. CASE Answer(c) /\ UNCHANGED lane
  BY <1>2, AnswerSettles DEF Backend, TypeOK
<1> QED  BY <1>1, <1>2 DEF RouteResolved

\* How the router, the coordinator and the lanes keep the invariant.
LEMMA RouterStep ==
  ASSUME Backend, UNCHANGED Session,
         Router \/ ColdTakes \/ ColdResolves \/ (\E c \in Calls : Reply(c))
  PROVE  Backend'
<1>t. /\ queue \in Seq(Calls) /\ cold \in Seq(Calls) /\ Len(queue) <= LaneQueue
      /\ Len(cold) <= LaneQueue /\ lane \subseteq Calls /\ held \in Calls \cup {Nobody}
      /\ offering \in BOOLEAN /\ (offering => held # Nobody) /\ LaneQueue \in Nat
  BY HttpAssumption DEF Backend, TypeOK, Queues
<1>q. ASSUME NEW s \in Seq(Calls), s # <<>>, Len(s) <= LaneQueue
      PROVE  Head(s) \in Calls /\ Tail(s) \in Seq(Calls) /\ Len(Tail(s)) <= LaneQueue
  BY <1>q, <1>t
<1>1. CASE RouterTakes
  <2>1. Head(queue) \in Calls /\ queue' \in Seq(Calls) /\ Len(queue') <= LaneQueue
    BY <1>1, <1>t, <1>q DEF RouterTakes
  <2>2. cold' \in Seq(Calls) /\ Len(cold') <= LaneQueue
    <3>1. CASE cold' = cold
      BY <3>1, <1>t
    <3>2. CASE Len(cold) < LaneQueue /\ cold' = Append(cold, Head(queue))
      BY <3>2, <1>t, <2>1
    <3> QED  BY <1>1, <3>1, <3>2 DEF RouterTakes
  <2>3. Settles /\ lane' \subseteq Calls
    <3>1. CASE RouteResolved(Head(queue))
      BY <3>1, <2>1, RouteSettles
    <3>2. CASE UNCHANGED <<lane, tracked, out, failure>>
      BY <3>2, <1>t, NothingSettled
    <3>3. CASE Answer(Head(queue)) /\ UNCHANGED lane
      BY <3>3, <1>t, <2>1, AnswerSettles DEF Backend
    <3> QED  BY <1>1, <3>1, <3>2, <3>3 DEF RouterTakes
  <2> QED  BY <1>1, <1>t, <2>1, <2>2, <2>3, SettlesStep DEF RouterTakes
<1>2. CASE RouterReady
  <2>1. held \in Calls
    BY <1>2, <1>t DEF RouterReady
  <2>2. Settles /\ lane' \subseteq Calls
    BY <1>2, <2>1, RouteSettles DEF RouterReady
  <2> QED  BY <1>2, <1>t, <2>2, SettlesStep DEF RouterReady
<1>3. CASE RouterEnds
  <2>1. tracked' \subseteq tracked /\ lane' \subseteq lane /\ out' = out
    BY <1>3 DEF RouterEnds
  <2>2. Settles
    BY <2>1, NothingSettled
  <2> QED  BY <1>3, <1>t, <2>1, <2>2, SettlesStep DEF RouterEnds
<1>4. CASE ColdTakes
  <2>1. Head(cold) \in Calls /\ cold' \in Seq(Calls) /\ Len(cold') <= LaneQueue
    BY <1>4, <1>t, <1>q DEF ColdTakes
  <2>2. Settles /\ Head(cold) # Nobody
    BY <1>4, <2>1, NothingSettled, HttpAssumption DEF ColdTakes
  <2> QED  BY <1>4, <1>t, <2>1, <2>2, SettlesStep DEF ColdTakes
<1>5. CASE ColdResolves
  <2>1. Settles
    BY <1>5, NothingSettled DEF ColdResolves
  <2> QED  BY <1>5, <1>t, <2>1, SettlesStep DEF ColdResolves
<1>6. ASSUME NEW c \in Calls, Reply(c) PROVE Backend'
  <2>1. Settles /\ lane' \subseteq Calls
    BY <1>6, <1>t, AnswerSettles DEF Reply, Backend
  <2> QED  BY <1>6, <1>t, <2>1, SettlesStep DEF Reply
<1> QED  BY <1>1, <1>2, <1>3, <1>4, <1>5, <1>6 DEF Router

\* How the output goroutine keeps it: a reply that was on its way is not in the box yet.
LEMMA OutputStep ==
  ASSUME Backend, UNCHANGED Session, Output \/ Close
  PROVE  Backend'
<1>1. CASE OutputTakes
  <2>1. PICK c \in Calls : c = Head(out) /\ OnItsWay(c)
    BY <1>1 DEF OutputTakes, Backend, Queues, OnItsWay
  <2>2. /\ out' = Tail(out) /\ out \in Seq(Calls) /\ out # <<>> /\ Len(out) \in Nat \ {0}
        /\ Len(out') = Len(out) - 1 /\ out' \in Seq(Calls)
        /\ \A i \in 1 .. Len(out) - 1 : out'[i] = out[i + 1]
        /\ out[1] = c
    BY <1>1, <2>1 DEF OutputTakes, Backend, Queues
  <2>3. box' \subseteq box \cup {c} /\ dropped' = dropped /\ tracked' = tracked
    <3>1. c \notin box
      BY <2>1 DEF Backend, Callers
    <3> QED  BY <1>1, <2>1, <3>1 DEF OutputTakes
  <2>4. \A i, j \in 1 .. Len(out) : i # j => out[i] # out[j]
    BY DEF Backend, Queues
  <2>5. \A i, j \in 1 .. Len(out') : i # j => out'[i] # out'[j]
    <3> SUFFICES ASSUME NEW i \in 1 .. Len(out'), NEW j \in 1 .. Len(out'), i # j
                 PROVE  out'[i] # out'[j]
      OBVIOUS
    <3>1. i + 1 \in 1 .. Len(out) /\ j + 1 \in 1 .. Len(out) /\ i + 1 # j + 1
      BY <2>2
    <3> QED  BY <2>2, <2>4, <3>1
  <2>6. ~OnItsWay(c)'
    <3> SUFFICES ASSUME NEW i \in 1 .. Len(out'), out'[i] = c PROVE FALSE
      BY DEF OnItsWay
    <3>1. i + 1 \in 1 .. Len(out) /\ 1 \in 1 .. Len(out) /\ i + 1 # 1 /\ out[i + 1] = c
      BY <2>2
    <3> QED  BY <2>2, <2>4, <3>1
  <2>7. \A d \in Calls : OnItsWay(d)' => OnItsWay(d)
    <3> SUFFICES ASSUME NEW d \in Calls, NEW i \in 1 .. Len(out'), out'[i] = d
                 PROVE  OnItsWay(d)
      BY DEF OnItsWay
    <3>1. i + 1 \in 1 .. Len(out) /\ out[i + 1] = d
      BY <2>2
    <3> QED  BY <3>1 DEF OnItsWay
  <2>8. UNCHANGED <<pc, denied, exchanges, gone, pending>>
        /\ UNCHANGED <<queue, cold, held, offering, lane>>
    BY <1>1 DEF OutputTakes, routeVars
  <2>9. TypeOK' /\ Queues' /\ NoReplyDropped'
    <3>1. Len(out') <= OutQueue
      BY <2>2, HttpAssumption DEF Backend, TypeOK
    <3> QED  BY <2>2, <2>3, <2>5, <2>8, <3>1 DEF Backend, TypeOK, Queues, NoReplyDropped
  <2>10. \A d \in box' : d \in Calls /\ ~OnItsWay(d)'
    BY <2>3, <2>6, <2>7 DEF Backend, Callers, TypeOK
  <2>11. \A d \in Calls : OnItsWay(d)' \/ d \in box' =>
           OnItsWay(d) \/ d \in box \/ (d \in tracked /\ d \notin tracked')
    BY <2>1, <2>3, <2>7
  <2> QED  BY <2>3, <2>8, <2>9, <2>10, <2>11, OthersStep
<1>2. CASE OutputFails \/ OutputEnds \/ Close
  <2>1. UNCHANGED <<callerVars, tracked, routeVars, out, dropped>>
    BY <1>2 DEF OutputFails, OutputEnds, Close
  <2>2. Settles
    BY <2>1, NothingSettled
  <2>3. UNCHANGED callerVars /\ UNCHANGED dropped /\ UNCHANGED <<queue, cold, held, offering, lane>>
    BY <2>1 DEF routeVars
  <2> QED  BY <2>2, <2>3, SettlesStep DEF Backend, TypeOK, Queues
<1> QED  BY <1>1, <1>2 DEF Output

\* Every step of the backend keeps its invariant.
LEMMA StepBackend == Backend /\ [Next]_vars => Backend'
<1>1. ASSUME Backend, UNCHANGED vars PROVE Backend'
  <2>1. UNCHANGED <<Session, callerVars, routeVars, tracked, out, dropped>>
    BY <1>1 DEF vars
  <2>2. Settles
    BY <1>1, <2>1, NothingSettled
  <2>3. UNCHANGED callerVars /\ UNCHANGED dropped /\ UNCHANGED <<queue, cold, held, offering, lane>>
    BY <2>1 DEF routeVars
  <2> QED  BY <1>1, <2>1, <2>2, <2>3, SettlesStep DEF Backend, TypeOK, Queues
<1> QED  BY <1>1, CallersStep, RouterStep, OutputStep DEF Next

\* The inductive invariant holds throughout.
LEMMA AlwaysBackend == Spec => []Backend
BY InitBackend, StepBackend, PTL DEF Spec

\* Nothing is tracked for a caller that is not registered, and no reply ever meets a reply
\* channel that is full, whoever answers, disconnects or shuts down in between.
THEOREM RepliesFindTheirCallers == Spec => []CallersTracked
<1>1. Backend => CallersTracked
  BY DEF Backend, CallersTracked, Callers, Registered, TrackedIsRegistered, TypeOK
<1> QED  BY <1>1, AlwaysBackend, PTL

\* The router never refuses a caller that the backend let in, and the backend turns one away
\* only when clients that left are still registered, for any limits.
THEOREM OneLimit == Spec => []LimitsAgree
<1>1. Backend => LimitsAgree
  BY DEF Backend
<1> QED  BY <1>1, AlwaysBackend, PTL

-----------------------------------------------------------------------------
\* The stdio session.

\* The queues hold requests.
StdioQueues == incoming \in Seq(Requests) /\ sOut \in Seq(Requests)

\* The inductive invariant of the session: what it promises is inductive as it stands.
Stdio == S!TypeOK /\ StdioQueues /\ S!UsableLosesNothing

\* What the constants allow.
LEMMA StdioConstants ==
  /\ OutQueue \in Nat \ {0} /\ ErrQueue \in Nat \ {0} /\ LaneQueue \in Nat \ {0}
  /\ "reading" \notin Requests /\ "idle" \notin Requests /\ "gone" \notin Requests
BY FrontsAssumption DEF S!OutputAssumption

\* A request that is read and not yet answered keeps the place it is given; a full queue
\* that loses its reply leaves a failure for serve, and the end of the session drops it.
LEMMA ForwardKeeps ==
  ASSUME Stdio, NEW r \in Requests, S!forward(r)
  PROVE  /\ place' \in [Requests -> S!Places] /\ errs' \in 0 .. ErrQueue
         /\ sOut' \in Seq(Requests) /\ Len(sOut') <= OutQueue
         /\ errs' = 0 /\ ~sCancelled =>
              errs = 0 /\ \A q \in Requests : place'[q] \in {"lost", "dropped"} => place'[q] = place[q]
<1>t. /\ place \in [Requests -> S!Places] /\ errs \in 0 .. ErrQueue /\ sOut \in Seq(Requests)
      /\ Len(sOut) <= OutQueue /\ Len(sOut) \in Nat /\ ErrQueue \in Nat \ {0} /\ OutQueue \in Nat
  BY StdioConstants DEF Stdio, StdioQueues, S!TypeOK
<1>1. CASE /\ Len(sOut) < OutQueue /\ sOut' = Append(sOut, r)
           /\ place' = [place EXCEPT ![r] = "out"] /\ UNCHANGED errs
  <2>1. sOut' \in Seq(Requests) /\ Len(sOut') <= OutQueue
    BY <1>t, <1>1
  <2> QED  BY <1>t, <1>1, <2>1 DEF S!Places
<1>2. CASE /\ sCancelled /\ place' = [place EXCEPT ![r] = "dropped"]
           /\ UNCHANGED <<sOut, errs>>
  BY <1>t, <1>2 DEF S!Places
<1>3. CASE /\ Len(sOut) >= OutQueue /\ ~sCancelled
           /\ place' = [place EXCEPT ![r] = "lost"] /\ S!reportError /\ UNCHANGED sOut
  BY <1>t, <1>3 DEF S!Places, S!reportError
<1> QED  BY <1>1, <1>2, <1>3 DEF S!forward

\* The types of a session and its promise, of a step that leaves serve alone.
Continues ==
  /\ S!TypeOK' /\ StdioQueues'
  /\ serve' = serve /\ (sCancelled => sCancelled')
  /\ errs' = 0 /\ ~sCancelled' =>
       /\ errs = 0
       /\ writer' = "gone" => writer = "gone"
       /\ ingress' = "gone" => ingress = "gone"
       /\ \A q \in Requests : place'[q] \in {"lost", "dropped"} => place'[q] = place[q]

\* Such a step keeps the invariant.
LEMMA ContinuesKeeps == Stdio /\ Continues => Stdio'
BY DEF Stdio, Continues, S!UsableLosesNothing

\* Every step of a session keeps its invariant.
LEMMA StepStdio == Stdio /\ [S!Next]_stdioVars => Stdio'
<1> SUFFICES ASSUME Stdio, [S!Next]_stdioVars PROVE Stdio'
  OBVIOUS
<1>t. /\ place \in [Requests -> S!Places] /\ errs \in 0 .. ErrQueue /\ sOut \in Seq(Requests)
      /\ Len(sOut) <= OutQueue /\ incoming \in Seq(Requests) /\ Len(incoming) <= LaneQueue
      /\ ingress \in Requests \cup {"reading", "gone"}
      /\ writer \in Requests \cup {"idle", "gone"}
  BY DEF Stdio, StdioQueues, S!TypeOK
<1>c. /\ OutQueue \in Nat \ {0} /\ ErrQueue \in Nat \ {0} /\ LaneQueue \in Nat \ {0}
      /\ "reading" \notin Requests /\ "idle" \notin Requests /\ "gone" \notin Requests
  BY StdioConstants
<1>e. ASSUME S!reportError PROVE errs' \in 0 .. ErrQueue /\ errs' # 0
  BY <1>e, <1>t, <1>c DEF S!reportError
<1>1. ASSUME NEW r \in Requests, S!ReadRequest(r) PROVE Stdio'
  <2>1. CASE /\ ingress' = r /\ place' = [place EXCEPT ![r] = "admitted"]
             /\ UNCHANGED <<sOut, errs>>
    <3>1. Continues
      BY <1>1, <1>t, <1>c, <2>1 DEF S!ReadRequest, S!sideVars, Continues, StdioQueues, S!TypeOK, S!Places
    <3> QED  BY <3>1, ContinuesKeeps
  <2>2. CASE S!forward(r) /\ UNCHANGED ingress
    <3>1. Continues
      BY <1>1, <1>t, <1>c, <2>2, ForwardKeeps DEF S!ReadRequest, S!sideVars, Continues, StdioQueues, S!TypeOK
    <3> QED  BY <3>1, ContinuesKeeps
  <2> QED  BY <1>1, <2>1, <2>2 DEF S!ReadRequest
<1>2. CASE S!ReadFails
  <2>1. Continues
    BY <1>2, <1>t, <1>e DEF S!ReadFails, S!sideVars, Continues, StdioQueues, S!TypeOK
  <2> QED  BY <2>1, ContinuesKeeps
<1>3. ASSUME NEW r \in Requests, S!Enqueue(r) PROVE Stdio'
  <2>1. CASE /\ Len(incoming) < LaneQueue /\ incoming' = Append(incoming, r)
             /\ place' = [place EXCEPT ![r] = "queued"] /\ ingress' = "reading"
             /\ UNCHANGED <<sOut, errs>>
    <3>1. incoming' \in Seq(Requests) /\ Len(incoming') <= LaneQueue
      BY <1>t, <1>c, <2>1
    <3>2. Continues
      BY <1>3, <1>t, <1>c, <2>1, <3>1 DEF S!Enqueue, S!sideVars, Continues, StdioQueues, S!TypeOK, S!Places
    <3> QED  BY <3>2, ContinuesKeeps
  <2>2. CASE sCancelled /\ ingress' = "gone" /\ UNCHANGED <<incoming, place, sOut, errs>>
    <3>1. Continues
      BY <1>3, <1>t, <1>c, <2>2 DEF S!Enqueue, S!sideVars, Continues, StdioQueues, S!TypeOK
    <3> QED  BY <3>1, ContinuesKeeps
  <2>3. CASE S!forward(r) /\ ingress' = "reading" /\ UNCHANGED incoming
    <3>1. Continues
      BY <1>3, <1>t, <1>c, <2>3, ForwardKeeps DEF S!Enqueue, S!sideVars, Continues, StdioQueues, S!TypeOK
    <3> QED  BY <3>1, ContinuesKeeps
  <2> QED  BY <1>3, <2>1, <2>2, <2>3 DEF S!Enqueue
<1>4. CASE S!Route
  <2>1. /\ Head(incoming) \in Requests /\ incoming' \in Seq(Requests)
        /\ Len(incoming') <= LaneQueue
    BY <1>4, <1>t, <1>c DEF S!Route
  <2>2. CASE place' = [place EXCEPT ![Head(incoming)] = "working"] /\ UNCHANGED <<sOut, errs>>
    <3>1. Continues
      BY <1>4, <1>t, <2>1, <2>2 DEF S!Route, S!sideVars, Continues, StdioQueues, S!TypeOK, S!Places
    <3> QED  BY <3>1, ContinuesKeeps
  <2>3. CASE S!forward(Head(incoming))
    <3>1. Continues
      BY <1>4, <1>t, <2>1, <2>3, ForwardKeeps DEF S!Route, S!sideVars, Continues, StdioQueues, S!TypeOK
    <3> QED  BY <3>1, ContinuesKeeps
  <2> QED  BY <1>4, <2>2, <2>3 DEF S!Route
<1>5. ASSUME NEW r \in Requests, S!Reply(r) PROVE Stdio'
  <2>1. Continues
    BY <1>5, <1>t, ForwardKeeps DEF S!Reply, S!sideVars, Continues, StdioQueues, S!TypeOK
  <2> QED  BY <2>1, ContinuesKeeps
<1>6. CASE S!WriterTakes
  <2>1. /\ Head(sOut) \in Requests /\ sOut' \in Seq(Requests) /\ Len(sOut') <= OutQueue
    BY <1>6, <1>t, <1>c DEF S!WriterTakes
  <2>2. Continues
    BY <1>6, <1>t, <1>c, <2>1 DEF S!WriterTakes, S!sideVars, Continues, StdioQueues, S!TypeOK, S!Places
  <2> QED  BY <2>2, ContinuesKeeps
<1>7. CASE S!WriterWrites
  <2>1. Continues
    BY <1>7, <1>t, <1>c DEF S!WriterWrites, S!sideVars, Continues, StdioQueues, S!TypeOK, S!Places
  <2> QED  BY <2>1, ContinuesKeeps
<1>8. CASE S!WriterFails
  <2>1. Continues
    BY <1>8, <1>t, <1>e DEF S!WriterFails, S!sideVars, Continues, StdioQueues, S!TypeOK
  <2> QED  BY <2>1, ContinuesKeeps
<1>9. CASE S!WriterEnds \/ S!RouterEnds \/ S!LanesEnd \/ S!Report \/ S!Interrupt
  <2>1. Continues
    BY <1>9, <1>t DEF S!WriterEnds, S!RouterEnds, S!LanesEnd, S!Report, S!Interrupt, S!sideVars,
       Continues, StdioQueues, S!TypeOK
  <2> QED  BY <2>1, ContinuesKeeps
<1>10. CASE S!Serve
  <2>1. serve' # "waiting"
    BY <1>10 DEF S!Serve, S!Fail, S!CloseLanes, S!ClearRequests, S!Return
  <2>2. S!TypeOK' /\ StdioQueues'
    <3>1. CASE S!Fail \/ S!CloseLanes \/ S!Return
      BY <3>1, <1>t, <1>c DEF S!Fail, S!CloseLanes, S!Return, S!TypeOK, StdioQueues
    <3>2. CASE S!ClearRequests
      BY <3>2, <1>t DEF S!ClearRequests, S!TypeOK, StdioQueues, S!Places
    <3> QED  BY <1>10, <3>1, <3>2 DEF S!Serve
  <2> QED  BY <2>1, <2>2 DEF Stdio, S!UsableLosesNothing
<1>11. CASE UNCHANGED stdioVars
  <2>1. Continues
    BY <1>11, <1>t DEF stdioVars, Continues, StdioQueues, S!TypeOK
  <2> QED  BY <2>1, ContinuesKeeps
<1> QED  BY <1>1, <1>2, <1>3, <1>4, <1>5, <1>6, <1>7, <1>8, <1>9, <1>10, <1>11
     DEF S!Next, S!Ingress

\* A session that can still be used has lost no reply: whenever a queue overflows, the writer
\* fails or the reader ends, a failure is waiting for serve, for any lengths of the queues.
THEOREM UsableKeepsReplies == MCSpec => []RepliesKept
<1>1. MCInit => Stdio
  <2> SUFFICES ASSUME MCInit PROVE Stdio
    OBVIOUS
  <2>1. incoming = <<>> /\ sOut = <<>> /\ Len(sOut) = 0 /\ <<>> \in Seq(Requests)
    BY DEF MCInit, S!Init
  <2>2. S!TypeOK /\ StdioQueues
    BY <2>1, StdioConstants DEF MCInit, S!Init, S!TypeOK, StdioQueues, S!Places
  <2>3. S!UsableLosesNothing
    BY DEF MCInit, S!Init, S!UsableLosesNothing
  <2> QED  BY <2>2, <2>3 DEF Stdio
<1>2. Stdio /\ [MCNext]_<<front, vars, stdioVars>> => Stdio'
  BY StepStdio DEF MCNext
<1>3. Stdio => RepliesKept
  BY DEF Stdio, RepliesKept, S!RepliesKept
<1> QED  BY <1>1, <1>2, <1>3, PTL DEF MCSpec
=============================================================================
