---------------------------- MODULE CallContract ----------------------------
(***************************************************************************)
(* What a session promises its client, and nothing about how: a call is    *)
(* accepted under a wire id that nothing else is owed under, at most       *)
(* Session calls are owed at a time, each is answered once, and only the   *)
(* end of the session discards one unanswered.  bridge.go and requests.go  *)
(* implement it; see BridgeRefinement.                                     *)
(***************************************************************************)
EXTENDS Naturals, FiniteSets

CONSTANTS Calls, Ids, NoId, Session

VARIABLES
  open,     \* the session lasts
  wire,     \* the id each accepted call came under
  owed,     \* calls accepted and not settled
  replies   \* how often each call was answered

Init ==
  /\ open = TRUE
  /\ wire = [t \in Calls |-> NoId]
  /\ owed = {}
  /\ replies = [t \in Calls |-> 0]

Accept(t, i) ==
  /\ open /\ wire[t] = NoId
  /\ \A u \in owed : wire[u] # i
  /\ Cardinality(owed) < Session
  /\ wire' = [wire EXCEPT ![t] = i]
  /\ UNCHANGED open

\* An accepted call is owed an answer, or gets it at once.
Begin(t, i) == Accept(t, i) /\ owed' = owed \cup {t} /\ UNCHANGED replies

Refuse(t, i) ==
  Accept(t, i) /\ UNCHANGED owed /\ replies' = [replies EXCEPT ![t] = @ + 1]

\* A connection that dies settles all its calls at once.
Answer(S) ==
  /\ S # {} /\ S \subseteq owed
  /\ owed' = owed \ S
  /\ replies' = [t \in Calls |-> IF t \in S THEN replies[t] + 1 ELSE replies[t]]
  /\ UNCHANGED <<open, wire>>

Close ==
  /\ open /\ open' = FALSE
  /\ owed' = {}
  /\ UNCHANGED <<wire, replies>>

Next ==
  \/ \E t \in Calls, i \in Ids : Begin(t, i) \/ Refuse(t, i)
  \/ \E S \in SUBSET owed : Answer(S)
  \/ Close

Spec == Init /\ [][Next]_<<open, wire, owed, replies>>
=============================================================================
