--------------------------- MODULE RegistryProofs ---------------------------
(***************************************************************************)
(* Safety of the registry, for any number of managers, worktrees, pids,    *)
(* ports, starts and crashes.                                              *)
(***************************************************************************)
EXTENDS RegistryProps, FiniteSetTheorems, TLAPS

\* Every server that an operation or the map names has been started.
Started(S) == \A r \in S : r.id \in 1 .. Len(starts)

Claiming == {"spawned", "await", "stop", "discard", "forget"}

Named ==
  /\ Started(registry)
  /\ \A m \in Managers :
       /\ Started(op[m].todo) /\ Started(op[m].gone)
       /\ Started(op[m].cond) /\ Started(op[m].sig)
       /\ op[m].pc \in Claiming => op[m].id \in 1 .. Len(starts)

\* What an operation believes to be dead is dead.
Dead ==
  \A m \in Managers :
    /\ \A r \in op[m].gone : ~Alive(r.id)
    /\ op[m].pc = "forget" => ~Alive(op[m].id)

\* What has been spawned under the lock fits in among the records that will be written.
Fits ==
  \A m \in Managers : op[m].pc = "spawned" =>
    /\ lock = m
    /\ \A r \in registry : r.id # op[m].id
    /\ \A r \in Kept(m) : /\ starts[r.id].wt # starts[op[m].id].wt
                          /\ starts[r.id].port # starts[op[m].id].port
    /\ Cardinality(Kept(m)) < SharedServers

\* The inductive invariant.
Sound ==
  /\ TypeOK /\ Named /\ Dead /\ Fits
  /\ IsFiniteSet(registry) /\ RegistryConsistent /\ NoOrphan

-----------------------------------------------------------------------------
\* What the sequence of starts holds.
LEMMA StartFields ==
  ASSUME TypeOK
  PROVE  /\ Len(starts) \in Nat /\ starts \in Seq(Start) /\ Len(starts) <= MaxStarts
         /\ \A g \in 1 .. Len(starts) : /\ g \in Servers /\ starts[g].wt \in Worktrees
                                       /\ starts[g].port \in Ports /\ starts[g].pid \in Pids
<1>1. Len(starts) \in Nat /\ starts \in Seq(Start) /\ Len(starts) <= MaxStarts
  BY DEF TypeOK
<1>2. \A g \in 1 .. Len(starts) : starts[g] \in Start
  BY <1>1
<1> QED  BY <1>1, <1>2, RegistryAssumption DEF Start, Servers

\* The facts of a step that every other argument uses: starts only grow, and a
\* server that does not run never runs again.
Grows ==
  /\ Len(starts') \in Nat /\ Len(starts) <= Len(starts')
  /\ \A g \in 1 .. Len(starts) : starts'[g] = starts[g] /\ (Alive(g)' => Alive(g))

\* Only a start, under a free pid, and the processes' own steps change what runs.
LEMMA StepGrows == TypeOK /\ [Next]_vars => Grows
<1> SUFFICES ASSUME TypeOK, [Next]_vars PROVE Grows
  OBVIOUS
<1>0. Len(starts) \in Nat /\ starts \in Seq(Start)
  BY DEF TypeOK
<1>1. ASSUME UNCHANGED <<starts, proc>> PROVE Grows
  BY <1>0, <1>1 DEF Grows, Alive, Runner
<1>2. ASSUME NEW m \in Managers, EnsureSpawns(m) PROVE Grows
  <2>1. PICK port \in Ports, pid \in Pids :
          /\ proc[pid] = Nobody
          /\ starts' = Append(starts, [wt |-> op[m].wt, port |-> port, pid |-> pid])
          /\ proc' = [proc EXCEPT ![pid] = Len(starts) + 1]
    BY <1>2 DEF EnsureSpawns
  <2>2. op[m].wt \in Worktrees
    BY <1>2 DEF EnsureSpawns, AtClaim, TypeOK, Operation
  <2>3. starts' \in Seq(Start) /\ Len(starts') = Len(starts) + 1
        /\ \A g \in 1 .. Len(starts) : starts'[g] = starts[g]
    BY <1>0, <2>1, <2>2 DEF Start
  <2>4. ASSUME NEW g \in 1 .. Len(starts), Alive(g)' PROVE Alive(g)
    <3>1. starts[g].pid \in Pids
      BY StartFields
    <3> QED  BY <2>1, <2>3, <2>4, <3>1, <1>0 DEF Alive, Runner, TypeOK
  <2> QED  BY <2>3, <2>4, <1>0 DEF Grows
<1>3. ASSUME NEW x \in Pids, NEW y \in {Nobody, Stranger},
             proc' = [proc EXCEPT ![x] = y], UNCHANGED starts
      PROVE  Grows
  <2>1. \A g \in 1 .. Len(starts) : starts[g].pid \in Pids
    BY StartFields
  <2> QED  BY <1>0, <1>3, <2>1 DEF Grows, Alive, Runner, TypeOK, Nobody, Stranger
<1>4. ASSUME NEW g \in 1 .. Len(starts), Dies(g) PROVE Grows
  <2>1. starts[g].pid \in Pids
    BY StartFields
  <2> QED  BY <1>3, <1>4, <2>1 DEF Dies, Managing
<1>5. ASSUME NEW p \in Pids, PidReused(p) \/ StrangerExits(p) PROVE Grows
  BY <1>3, <1>5 DEF PidReused, StrangerExits, Managing
<1>6. CASE UNCHANGED vars
  BY <1>1, <1>6 DEF vars
<1>7. ASSUME NEW m \in Managers, Step(m) PROVE Grows
  BY <1>1, <1>2, <1>7 DEF Step, Flush, SweepSnapshot, Probe, CommitTerminating, Signal,
     Abandon, SweepEnd, EnsureRefused, EnsureReuses, RecordStart, RecordFails, Ready,
     NotReady, StopConfirmed, StopUnconfirmed, Forget, ForgetFails, Crash, Quiet
<1>8. ASSUME NEW m \in Managers, NEW w \in Worktrees, Used(m, w) \/ EnsureSnapshot(m, w)
      PROVE  Grows
  BY <1>1, <1>8 DEF Used, EnsureSnapshot, Quiet
<1>9. ASSUME NEW g \in 1 .. Len(starts), Binds(g) \/ GraceEnds(g) PROVE Grows
  BY <1>1, <1>9 DEF Binds, GraceEnds, Managing
<1> QED  BY <1>4, <1>5, <1>6, <1>7, <1>8, <1>9 DEF Next

\* An operation that has its type and names only servers that were started.
WellFormed(o) ==
  /\ o \in Operation
  /\ Started(o.todo) /\ Started(o.gone) /\ Started(o.cond) /\ Started(o.sig)
  /\ o.pc \in Claiming => o.id \in 1 .. Len(starts)

\* Every operation is well-formed.
LEMMA WellFormedOps == TypeOK /\ Named => \A m \in Managers : WellFormed(op[m])
BY DEF TypeOK, Named, WellFormed

\* A manager that does nothing names nothing.
LEMMA IdleWellFormed == WellFormed(Idle)
BY DEF WellFormed, Idle, Operation, Started, Claiming

\* A step of manager m that leaves the processes alone keeps the types if it leaves
\* a well-formed operation behind.
OwnStep(m) ==
  /\ op' = [op EXCEPT ![m] = op'[m]] /\ WellFormed(op'[m])
  /\ registry' \subseteq Record /\ Started(registry')
  /\ lock' \in Managers \cup {NoManager}
  /\ counts' \in [Managers -> SUBSET Worktrees]
  /\ uses' \in 0 .. MaxUses /\ crashes' \in 0 .. MaxCrashes
  /\ condemned' \subseteq 1 .. Len(starts) /\ signalled' \subseteq 1 .. Len(starts)
  /\ lost' \subseteq 1 .. Len(starts) /\ settled' \subseteq 1 .. Len(starts)

\* Such a step keeps the types.
LEMMA OwnStepTyped ==
  ASSUME TypeOK, Named, NEW m \in Managers, Quiet, OwnStep(m)
  PROVE  TypeOK' /\ Named'
<1>1. \A n \in Managers : WellFormed(op'[n])
  BY WellFormedOps DEF OwnStep, TypeOK
<1>2. op' \in [Managers -> Operation]
  BY <1>1 DEF OwnStep, TypeOK, WellFormed
<1>3. TypeOK'
  BY <1>2 DEF TypeOK, OwnStep, Quiet
<1>4. Named'
  BY <1>1 DEF Named, OwnStep, Quiet, WellFormed, Started
<1> QED  BY <1>3, <1>4

\* A record that is marked or counted still names its server.
LEMMA Rewrites ==
  ASSUME NEW r \in Record
  PROVE  /\ Marked(r) \in Record /\ Marked(r).id = r.id
         /\ \A ws : Bumped(r, ws) \in Record /\ Bumped(r, ws).id = r.id
                    /\ Bumped(r, ws).term = r.term
<1>1. Marked(r) \in Record /\ Marked(r).id = r.id
  BY DEF Record, Marked
<1>2. ASSUME NEW ws
      PROVE  Bumped(r, ws) \in Record /\ Bumped(r, ws).id = r.id /\ Bumped(r, ws).term = r.term
  BY DEF Record, Bumped
<1> QED  BY <1>1, <1>2

\* What may be signalled has been started.
LEMMA OursStarted ==
  ASSUME TypeOK, NEW g \in 1 .. Len(starts), Ours(g)
  PROVE  Runner(g) \in 1 .. Len(starts)
<1>1. Runner(g) \in 1 .. Len(starts) \cup {Nobody, Stranger}
  BY StartFields DEF TypeOK, Runner
<1>2. Runner(g) \in 1 .. MaxStarts
  BY DEF Ours, Servers
<1> QED  BY <1>1, <1>2, RegistryAssumption DEF Nobody, Stranger

\* Types, together with the fact that only servers that were started are named.
LEMMA StepTyped == TypeOK /\ Named /\ [Next]_vars => TypeOK' /\ Named'
<1> SUFFICES ASSUME TypeOK, Named, [Next]_vars PROVE TypeOK' /\ Named'
  OBVIOUS
<1> DEFINE Goal == TypeOK' /\ Named'
<1>0. Nobody = 0 /\ Stranger = -1 /\ Nobody \notin Servers
  BY RegistryAssumption DEF Nobody, Stranger, Servers
<1>w. \A m \in Managers : WellFormed(op[m])
  BY WellFormedOps
<1>r. registry \subseteq Record /\ Started(registry)
  BY DEF TypeOK, Named
<1>1. ASSUME NEW m \in Managers, Flush(m) PROVE Goal
  <2>1. op' = [op EXCEPT ![m] = op'[m]] /\ WellFormed(op'[m])
    BY <1>1, <1>w DEF Flush, TypeOK, WellFormed, Operation, Started, Claiming
  <2>2. registry' \subseteq Record /\ Started(registry')
    BY <1>1, <1>r, Rewrites DEF Flush, Started
  <2>3. OwnStep(m)
    BY <1>1, <2>1, <2>2 DEF Flush, OwnStep, TypeOK, Quiet, Recorded
  <2> QED  BY <1>1, <2>3, OwnStepTyped DEF Flush
<1>2. ASSUME NEW m \in Managers, SweepSnapshot(m) PROVE Goal
  <2>1. op' = [op EXCEPT ![m] = op'[m]] /\ WellFormed(op'[m])
    <3>1. op' = [op EXCEPT ![m] = op'[m]]
      BY <1>2 DEF SweepSnapshot, TypeOK
    <3>2. op'[m] = [op[m] EXCEPT !.pc = "probe", !.todo = Selected(NoWorktree)]
      BY <1>2 DEF SweepSnapshot, TypeOK, Operation
    <3>3. Selected(NoWorktree) \in SUBSET Record /\ Started(Selected(NoWorktree))
      BY <1>r DEF Selected, Started
    <3>4. WellFormed(op'[m])
      BY <1>w, <3>2, <3>3 DEF WellFormed, Operation, Claiming
    <3> QED  BY <3>1, <3>4
  <2>3. OwnStep(m)
    BY <1>2, <2>1, <1>r DEF SweepSnapshot, OwnStep, TypeOK, Quiet, Recorded
  <2> QED  BY <1>2, <2>3, OwnStepTyped DEF SweepSnapshot
<1>3. ASSUME NEW m \in Managers, Probe(m) PROVE Goal
  <2>a. PICK r \in op[m].todo : \E v \in Verdicts(r, op[m].wt = NoWorktree) :
          /\ op' = [op EXCEPT ![m].todo = @ \ {r},
                              ![m].gone = IF v = "gone" THEN @ \cup {r} ELSE @,
                              ![m].cond = IF v = "terminate" THEN @ \cup {r} ELSE @]
          /\ condemned' = IF v = "terminate" THEN condemned \cup {Runner(r.id)} ELSE condemned
    BY <1>3 DEF Probe
  <2>0. PICK v \in Verdicts(r, op[m].wt = NoWorktree) :
          /\ op' = [op EXCEPT ![m].todo = @ \ {r},
                              ![m].gone = IF v = "gone" THEN @ \cup {r} ELSE @,
                              ![m].cond = IF v = "terminate" THEN @ \cup {r} ELSE @]
          /\ condemned' = IF v = "terminate" THEN condemned \cup {Runner(r.id)} ELSE condemned
    BY <2>a
  <2>1. r \in Record /\ r.id \in 1 .. Len(starts)
    BY <1>w DEF WellFormed, Operation, Started
  <2>2. op' = [op EXCEPT ![m] = op'[m]]
    BY <2>0 DEF TypeOK
  <2>3. op'[m] = [op[m] EXCEPT !.todo = @ \ {r},
                               !.gone = IF v = "gone" THEN @ \cup {r} ELSE @,
                               !.cond = IF v = "terminate" THEN @ \cup {r} ELSE @]
    BY <2>0 DEF TypeOK, Operation
  <2>4. WellFormed(op'[m])
    <3>1. op[m] \in Operation /\ Started(op[m].todo) /\ Started(op[m].gone)
          /\ Started(op[m].cond) /\ Started(op[m].sig)
      BY <1>w DEF WellFormed
    <3>2. op'[m] \in Operation
      <4> DEFINE T == op[m].todo \ {r}
                 G == IF v = "gone" THEN op[m].gone \cup {r} ELSE op[m].gone
                 C == IF v = "terminate" THEN op[m].cond \cup {r} ELSE op[m].cond
      <4>1. T \in SUBSET Record /\ G \in SUBSET Record /\ C \in SUBSET Record
        BY <2>1, <3>1 DEF Operation
      <4>2. op'[m] = [op[m] EXCEPT !.todo = T, !.gone = G, !.cond = C]
        BY <2>3, <3>1 DEF Operation
      <4> HIDE DEF T, G, C
      <4> QED  BY <3>1, <4>1, <4>2 DEF Operation
    <3>3. Started(op'[m].todo) /\ Started(op'[m].gone) /\ Started(op'[m].cond)
          /\ Started(op'[m].sig)
      BY <2>1, <2>3, <3>1 DEF Operation, Started
    <3>4. op'[m].pc \in Claiming => op'[m].id \in 1 .. Len(starts)
      BY <1>w, <2>3, <3>1 DEF Operation, WellFormed
    <3> QED  BY <3>2, <3>3, <3>4 DEF WellFormed
  <2>5. v = "terminate" => Ours(r.id)
    BY DEF Verdicts, Identity
  <2>6. condemned' \subseteq 1 .. Len(starts)
    BY <2>0, <2>1, <2>5, OursStarted DEF TypeOK
  <2>7. OwnStep(m)
    BY <1>3, <1>r, <2>2, <2>4, <2>6 DEF Probe, OwnStep, TypeOK, Quiet
  <2> QED  BY <1>3, <2>7, OwnStepTyped DEF Probe
<1>4. ASSUME NEW m \in Managers, CommitTerminating(m) PROVE Goal
  <2>1. op' = [op EXCEPT ![m] = op'[m]]
    BY <1>4 DEF CommitTerminating, TypeOK
  <2>2. op'[m] = [op[m] EXCEPT !.pc = "signal", !.gone = {}, !.cond = {},
                               !.sig = {Marked(r) : r \in Condemns(m)}]
    BY <1>4 DEF CommitTerminating, TypeOK, Operation
  <2>3. {Marked(r) : r \in Condemns(m)} \subseteq Record
        /\ Started({Marked(r) : r \in Condemns(m)})
    BY <1>r, Rewrites DEF Condemns, Started
  <2>4. WellFormed(op'[m])
    BY <2>2, <2>3, <1>w, ZenonT(40) DEF WellFormed, Operation, Started, Claiming
  <2>5. registry' \subseteq Record /\ Started(registry')
    BY <1>4, <1>r, Rewrites DEF CommitTerminating, Kept, Started
  <2>6. OwnStep(m)
    BY <1>4, <2>1, <2>4, <2>5 DEF CommitTerminating, OwnStep, TypeOK, Quiet, Recorded
  <2> QED  BY <1>4, <2>6, OwnStepTyped DEF CommitTerminating
<1>5. ASSUME NEW m \in Managers, Signal(m) PROVE Goal
  <2>1. op' = [op EXCEPT ![m] = op'[m]] /\ WellFormed(op'[m])
    BY <1>5, <1>w DEF Signal, TypeOK, WellFormed, Operation, Started, Claiming
  <2>2. signalled' \subseteq 1 .. Len(starts)
    BY <1>5, <1>r, OursStarted DEF Signal, MaySignal, Started, TypeOK
  <2>3. OwnStep(m)
    BY <1>5, <2>1, <2>2, <1>r DEF Signal, OwnStep, TypeOK, Quiet
  <2> QED  BY <1>5, <2>3, OwnStepTyped DEF Signal
<1>6. ASSUME NEW m \in Managers, Abandon(m) PROVE Goal
  <2>1. op' = [op EXCEPT ![m] = op'[m]] /\ WellFormed(op'[m])
    BY <1>6, IdleWellFormed DEF Abandon, TypeOK
  <2>3. OwnStep(m)
    BY <1>6, <2>1, <1>r DEF Abandon, OwnStep, TypeOK, Quiet, Recorded
  <2> QED  BY <1>6, <2>3, OwnStepTyped DEF Abandon
<1>7. ASSUME NEW m \in Managers, SweepEnd(m) PROVE Goal
  <2>1. op' = [op EXCEPT ![m] = op'[m]] /\ WellFormed(op'[m])
    BY <1>7, IdleWellFormed DEF SweepEnd, TypeOK
  <2>2. registry' \subseteq Record /\ Started(registry')
    BY <1>7, <1>r DEF SweepEnd, Kept, Started
  <2>3. OwnStep(m)
    BY <1>7, <2>1, <2>2 DEF SweepEnd, OwnStep, TypeOK, Quiet, Recorded
  <2> QED  BY <1>7, <2>3, OwnStepTyped DEF SweepEnd
<1>8. ASSUME NEW m \in Managers, EnsureRefused(m) PROVE Goal
  <2>1. op' = [op EXCEPT ![m] = op'[m]] /\ WellFormed(op'[m])
    BY <1>8, IdleWellFormed DEF EnsureRefused, TypeOK
  <2>3. OwnStep(m)
    BY <1>8, <2>1, <1>r DEF EnsureRefused, OwnStep, TypeOK, Quiet, Recorded
  <2> QED  BY <1>8, <2>3, OwnStepTyped DEF EnsureRefused
<1>9. ASSUME NEW m \in Managers, EnsureReuses(m) PROVE Goal
  <2>0. PICK r \in Existing(m) :
          op' = [op EXCEPT ![m] = IF r.id \in young
                                    THEN [Idle EXCEPT !.pc = "await", !.wt = op[m].wt, !.id = r.id]
                                    ELSE Idle]
    BY <1>9 DEF EnsureReuses
  <2>1. r \in Record /\ r.id \in 1 .. Len(starts) /\ op[m].wt \in Worktrees \cup {NoWorktree}
    BY <1>r, <1>w DEF Existing, Kept, Started, WellFormed, Operation
  <2>2. WellFormed([Idle EXCEPT !.pc = "await", !.wt = op[m].wt, !.id = r.id])
    BY <2>1, StartFields, IdleWellFormed DEF WellFormed, Operation, Started, Claiming, Idle
  <2>3. op' = [op EXCEPT ![m] = op'[m]] /\ WellFormed(op'[m])
    BY <2>0, <2>2, IdleWellFormed DEF TypeOK
  <2>4. registry' \subseteq Record /\ Started(registry')
    BY <1>9, <1>r DEF EnsureReuses, Kept, Started
  <2>5. OwnStep(m)
    BY <1>9, <2>3, <2>4 DEF EnsureReuses, OwnStep, TypeOK, Quiet, Recorded
  <2> QED  BY <1>9, <2>5, OwnStepTyped DEF EnsureReuses
<1>10. ASSUME NEW m \in Managers, RecordStart(m) PROVE Goal
  <2>0. op[m].id \in 1 .. Len(starts)
    BY <1>10, <1>w DEF RecordStart, WellFormed, Claiming
  <2>1. op' = [op EXCEPT ![m] = op'[m]] /\ WellFormed(op'[m])
    BY <1>10, <1>w, ZenonT(40) DEF RecordStart, TypeOK, WellFormed, Operation, Started, Claiming
  <2>2. Fresh(op[m].id) \in Record /\ Fresh(op[m].id).id = op[m].id
    BY <2>0, StartFields DEF Fresh, Record
  <2>3. registry' \subseteq Record /\ Started(registry')
    BY <1>10, <1>r, <2>0, <2>2 DEF RecordStart, Kept, Started
  <2>4. OwnStep(m)
    BY <1>10, <2>1, <2>3 DEF RecordStart, OwnStep, TypeOK, Quiet, Recorded
  <2> QED  BY <1>10, <2>4, OwnStepTyped DEF RecordStart
<1>11. ASSUME NEW m \in Managers, RecordFails(m) PROVE Goal
  <2>1. op' = [op EXCEPT ![m] = op'[m]] /\ WellFormed(op'[m])
    BY <1>11, <1>w, <1>r, IdleWellFormed DEF RecordFails, TypeOK, WellFormed, Operation, Started, Claiming
  <2>3. OwnStep(m)
    BY <1>11, <2>1, <1>r DEF RecordFails, OwnStep, TypeOK, Quiet, Recorded
  <2> QED  BY <1>11, <2>3, OwnStepTyped DEF RecordFails
<1>12. ASSUME NEW m \in Managers, Ready(m) PROVE Goal
  <2>1. op' = [op EXCEPT ![m] = op'[m]] /\ WellFormed(op'[m])
    BY <1>12, IdleWellFormed DEF Ready, TypeOK
  <2>3. OwnStep(m)
    BY <1>12, <2>1, <1>r DEF Ready, OwnStep, TypeOK, Quiet, Recorded
  <2> QED  BY <1>12, <2>3, OwnStepTyped DEF Ready
<1>13. ASSUME NEW m \in Managers, NotReady(m) PROVE Goal
  <2>1. op' = [op EXCEPT ![m] = op'[m]] /\ WellFormed(op'[m])
    BY <1>13, <1>w, <1>r, IdleWellFormed, SMTT(30) DEF NotReady, TypeOK, WellFormed, Operation, Started, Claiming
  <2>3. OwnStep(m)
    BY <1>13, <2>1, <1>r DEF NotReady, OwnStep, TypeOK, Quiet, Recorded
  <2> QED  BY <1>13, <2>3, OwnStepTyped DEF NotReady
<1>14. ASSUME NEW m \in Managers, StopConfirmed(m) PROVE Goal
  <2>1. op' = [op EXCEPT ![m] = op'[m]] /\ WellFormed(op'[m])
    BY <1>14, <1>w, <1>r, IdleWellFormed, SMTT(30) DEF StopConfirmed, TypeOK, WellFormed, Operation, Started, Claiming
  <2>3. OwnStep(m)
    BY <1>14, <2>1, <1>r DEF StopConfirmed, OwnStep, TypeOK, Quiet, Recorded
  <2> QED  BY <1>14, <2>3, OwnStepTyped DEF StopConfirmed
<1>15. ASSUME NEW m \in Managers, StopUnconfirmed(m) PROVE Goal
  <2>0. op[m].id \in 1 .. Len(starts)
    BY <1>15, <1>w DEF StopUnconfirmed, WellFormed, Claiming
  <2>1. op' = [op EXCEPT ![m] = op'[m]] /\ WellFormed(op'[m])
    BY <1>15, IdleWellFormed DEF StopUnconfirmed, TypeOK
  <2>2. registry' \subseteq Record /\ Started(registry')
    BY <1>15, <1>r DEF StopUnconfirmed
  <2>3. OwnStep(m)
    BY <1>15, <2>0, <2>1, <2>2 DEF StopUnconfirmed, OwnStep, TypeOK, Quiet
  <2> QED  BY <1>15, <2>3, OwnStepTyped DEF StopUnconfirmed
<1>16. ASSUME NEW m \in Managers, Forget(m) PROVE Goal
  <2>0. op[m].id \in 1 .. Len(starts)
    BY <1>16, <1>w DEF Forget, WellFormed, Claiming
  <2>1. op' = [op EXCEPT ![m] = op'[m]] /\ WellFormed(op'[m])
    BY <1>16, IdleWellFormed DEF Forget, TypeOK
  <2>2. registry' \subseteq Record /\ Started(registry')
    BY <1>16, <1>r DEF Forget, Started
  <2>3. OwnStep(m)
    BY <1>16, <2>0, <2>1, <2>2 DEF Forget, OwnStep, TypeOK, Quiet
  <2> QED  BY <1>16, <2>3, OwnStepTyped DEF Forget
<1>17. ASSUME NEW m \in Managers, ForgetFails(m) PROVE Goal
  <2>1. op' = [op EXCEPT ![m] = op'[m]] /\ WellFormed(op'[m])
    BY <1>17, IdleWellFormed DEF ForgetFails, TypeOK
  <2>3. OwnStep(m)
    BY <1>17, <2>1, <1>r DEF ForgetFails, OwnStep, TypeOK, Quiet, Recorded
  <2> QED  BY <1>17, <2>3, OwnStepTyped DEF ForgetFails
<1>18. ASSUME NEW m \in Managers, Crash(m) PROVE Goal
  <2>0. op[m].pc \in {"spawned", "discard"} => op[m].id \in 1 .. Len(starts)
    BY <1>18, <1>w DEF Crash, WellFormed, Claiming
  <2>1. op' = [op EXCEPT ![m] = op'[m]] /\ WellFormed(op'[m])
    BY <1>18, IdleWellFormed DEF Crash, TypeOK
  <2>2. registry' \subseteq Record /\ Started(registry')
    BY <1>18, <1>r DEF Crash
  <2>3. OwnStep(m)
    <3>1. crashes' \in 0 .. MaxCrashes
      BY <1>18, RegistryAssumption DEF Crash, TypeOK
    <3>2. lost' \subseteq 1 .. Len(starts)
      BY <1>18, <2>0 DEF Crash, TypeOK
    <3>3. counts' \in [Managers -> SUBSET Worktrees] /\ lock' \in Managers \cup {NoManager}
      BY <1>18 DEF Crash, TypeOK
    <3> QED  BY <1>18, <2>1, <2>2, <3>1, <3>2, <3>3 DEF Crash, OwnStep, TypeOK, Quiet
  <2> QED  BY <1>18, <2>3, OwnStepTyped DEF Crash
<1>19. ASSUME NEW m \in Managers, EnsureSpawns(m) PROVE Goal
  <2>1. PICK port \in Ports, pid \in Pids :
          /\ starts' = Append(starts, [wt |-> op[m].wt, port |-> port, pid |-> pid])
          /\ proc' = [proc EXCEPT ![pid] = Len(starts) + 1]
    BY <1>19 DEF EnsureSpawns
  <2>2. [wt |-> op[m].wt, port |-> port, pid |-> pid] \in Start
    BY <1>19 DEF EnsureSpawns, AtClaim, TypeOK, Operation, Start
  <2>3. starts' \in Seq(Start) /\ Len(starts') = Len(starts) + 1 /\ Len(starts') <= MaxStarts
        /\ Len(starts) \in Nat
    BY <1>19, <2>1, <2>2, StartFields, RegistryAssumption DEF EnsureSpawns
  <2>4. 1 .. Len(starts) \subseteq 1 .. Len(starts') /\ Len(starts') \in 1 .. Len(starts')
        /\ Len(starts') \in Servers
    BY <2>3, RegistryAssumption DEF Servers
  <2>5. \A S : Started(S) => Started(S)'
    BY <2>4 DEF Started
  <2>6. op' = [op EXCEPT ![m] = [op[m] EXCEPT !.pc = "spawned", !.id = Len(starts'), !.own = TRUE]]
    BY <1>19, <2>3 DEF EnsureSpawns, TypeOK, Operation
  <2>7. op'[m] \in Operation /\ Started(op'[m].todo) /\ Started(op'[m].gone)
        /\ Started(op'[m].cond) /\ Started(op'[m].sig) /\ op'[m].id \in 1 .. Len(starts')
    BY <1>w, <2>4, <2>6 DEF TypeOK, Operation, WellFormed
  <2>8. TypeOK'
    <3>1. op' \in [Managers -> Operation]
      BY <2>6, <2>7 DEF TypeOK
    <3>2. proc' \in [Pids -> 1 .. Len(starts') \cup {Nobody, Stranger}]
      BY <2>1, <2>3, <2>4 DEF TypeOK
    <3>3. young' \subseteq 1 .. Len(starts')
      BY <1>19, <2>3, <2>4 DEF TypeOK, EnsureSpawns
    <3> QED  BY <1>19, <2>3, <2>4, <3>1, <3>2, <3>3 DEF TypeOK, EnsureSpawns, Recorded
  <2>9. Named'
    <3>1. Started(registry)'
      BY <1>19, <1>r, <2>4 DEF EnsureSpawns, Started
    <3>2. ASSUME NEW n \in Managers
          PROVE  /\ Started(op[n].todo)' /\ Started(op[n].gone)'
                 /\ Started(op[n].cond)' /\ Started(op[n].sig)'
                 /\ op'[n].pc \in Claiming => op'[n].id \in 1 .. Len(starts')
      <4>1. CASE n = m
        BY <4>1, <2>4, <2>7 DEF Started
      <4>2. CASE n # m
        <5>1. op'[n] = op[n] /\ WellFormed(op[n])
          BY <4>2, <2>6, <1>w DEF TypeOK
        <5> QED  BY <5>1, <2>4 DEF Started, WellFormed
      <4> QED  BY <4>1, <4>2
    <3> QED  BY <3>1, <3>2 DEF Named
  <2> QED  BY <2>8, <2>9
<1>20. ASSUME UNCHANGED <<registry, starts, op>>, TypeOK' PROVE Goal
  BY <1>20 DEF Named, Started
<1>21. ASSUME NEW m \in Managers, NEW w \in Worktrees, Used(m, w) PROVE Goal
  BY <1>20, <1>21, RegistryAssumption DEF Used, Quiet, Recorded, TypeOK
<1>22. ASSUME NEW m \in Managers, NEW w \in Worktrees, EnsureSnapshot(m, w) PROVE Goal
  <2>1. op' = [op EXCEPT ![m] = op'[m]] /\ WellFormed(op'[m])
    <3>1. op' = [op EXCEPT ![m] = op'[m]]
      BY <1>22 DEF EnsureSnapshot, TypeOK
    <3>2. op'[m] = [op[m] EXCEPT !.pc = "probe", !.wt = w, !.todo = Selected(w)]
      BY <1>22 DEF EnsureSnapshot, TypeOK, Operation
    <3>3. Selected(w) \in SUBSET Record /\ Started(Selected(w))
      BY <1>r DEF Selected, Started
    <3>4. WellFormed(op'[m])
      BY <1>w, <3>2, <3>3 DEF WellFormed, Operation, Claiming
    <3> QED  BY <3>1, <3>4
  <2>2. OwnStep(m)
    BY <1>22, <1>r, <2>1 DEF EnsureSnapshot, OwnStep, TypeOK, Quiet, Recorded
  <2> QED  BY <1>22, <2>2, OwnStepTyped DEF EnsureSnapshot
<1>23. ASSUME NEW g \in 1 .. Len(starts), Binds(g) \/ Dies(g) \/ GraceEnds(g) PROVE Goal
  <2>1. starts[g].pid \in Pids
    BY StartFields
  <2>2. TypeOK'
    BY <1>23, <2>1 DEF Binds, Dies, GraceEnds, Managing, TypeOK
  <2> QED  BY <1>20, <1>23, <2>2 DEF Binds, Dies, GraceEnds, Managing
<1>24. ASSUME NEW p \in Pids, PidReused(p) \/ StrangerExits(p) PROVE Goal
  BY <1>20, <1>24 DEF PidReused, StrangerExits, Managing, TypeOK
<1>25. CASE UNCHANGED vars
  BY <1>20, <1>25 DEF vars, TypeOK
<1>26. ASSUME NEW m \in Managers, Step(m) PROVE Goal
  BY <1>1, <1>2, <1>3, <1>4, <1>5, <1>6, <1>7, <1>8, <1>9, <1>10, <1>11, <1>12, <1>13, <1>14,
     <1>15, <1>16, <1>17, <1>18, <1>19, <1>26 DEF Step
<1> QED  BY <1>21, <1>22, <1>23, <1>24, <1>25, <1>26 DEF Next
-----------------------------------------------------------------------------
\* Rewriting the map without adding to it, which takes the lock: records are marked or
\* counted in place, and only records of dead servers are left out.
Shrinks ==
  /\ lock = NoManager
  /\ \E f \in [registry -> Record], K \in SUBSET registry :
       /\ \A r \in registry : f[r].id = r.id /\ (r.term => f[r].term)
       /\ registry' = {f[r] : r \in K}
       /\ \A r \in registry \ K : ~Alive(r.id)

\* The map changes only under the lock: it shrinks, or its holder records a start.
LEMMA StepRegistry ==
  TypeOK /\ Named /\ Dead /\ [Next]_vars
    => registry' = registry \/ Shrinks \/ \E m \in Managers : RecordStart(m)
<1> SUFFICES ASSUME TypeOK, Named, Dead, [Next]_vars
             PROVE  registry' = registry \/ Shrinks \/ \E m \in Managers : RecordStart(m)
  OBVIOUS
<1> DEFINE Goal == registry' = registry \/ Shrinks \/ \E m \in Managers : RecordStart(m)
<1>r. registry \subseteq Record
  BY DEF TypeOK
<1>i. ASSUME NEW K \in SUBSET registry, lock = NoManager, registry' = K,
             \A r \in registry \ K : ~Alive(r.id)
      PROVE  Shrinks
  <2> DEFINE f == [r \in registry |-> r]
  <2>1. f \in [registry -> Record] /\ registry' = {f[r] : r \in K}
    BY <1>i, <1>r
  <2>2. \A r \in registry : f[r].id = r.id /\ (r.term => f[r].term)
    OBVIOUS
  <2> HIDE DEF f
  <2> QED  BY <1>i, <2>1, <2>2 DEF Shrinks
<1>d. ASSUME NEW m \in Managers PROVE \A r \in registry \ Kept(m) : ~Alive(r.id)
  BY DEF Dead, Kept
<1>1. ASSUME NEW m \in Managers, Flush(m) PROVE Goal
  <2> DEFINE f == [r \in registry |-> Bumped(r, counts[m])]
  <2>1. f \in [registry -> Record]
    BY <1>r, Rewrites
  <2>2. \A r \in registry : f[r].id = r.id /\ (r.term => f[r].term)
    BY <1>r, Rewrites
  <2>3. registry' = {f[r] : r \in registry} /\ lock = NoManager
    BY <1>1 DEF Flush
  <2> HIDE DEF f
  <2>4. Shrinks
    BY <2>1, <2>2, <2>3 DEF Shrinks
  <2> QED  BY <2>4
<1>2. ASSUME NEW m \in Managers, CommitTerminating(m) PROVE Goal
  <2> DEFINE f == [r \in registry |-> IF r \in Condemns(m) THEN Marked(r) ELSE r]
  <2>1. f \in [registry -> Record]
    BY <1>r, Rewrites
  <2>2. \A r \in registry : f[r].id = r.id /\ (r.term => f[r].term)
    BY <1>r, Rewrites DEF Marked
  <2>3. registry' = {f[r] : r \in Kept(m)} /\ lock = NoManager /\ Kept(m) \subseteq registry
    BY <1>2 DEF CommitTerminating, Probed, Kept
  <2> HIDE DEF f
  <2>4. Shrinks
    BY <1>d, <2>1, <2>2, <2>3 DEF Shrinks
  <2> QED  BY <2>4
<1>3. ASSUME NEW m \in Managers, SweepEnd(m) \/ EnsureReuses(m) PROVE Goal
  <2>1. registry' = Kept(m) /\ Kept(m) \subseteq registry /\ lock = NoManager
    BY <1>3 DEF SweepEnd, EnsureReuses, AtClaim, AtBody, Probed, Kept
  <2> QED  BY <1>d, <1>i, <2>1
<1>4. ASSUME NEW m \in Managers, Forget(m) PROVE Goal
  <2>1. \A r \in registry \ registry' : ~Alive(r.id)
    BY <1>4 DEF Forget, Forgets, Fresh, Dead
  <2> QED  BY <1>4, <1>i, <2>1 DEF Forget
<1>5. ASSUME UNCHANGED registry PROVE Goal
  BY <1>5
<1>6. ASSUME NEW m \in Managers, Step(m) PROVE Goal
  <2>1. CASE Flush(m) \/ CommitTerminating(m) \/ SweepEnd(m) \/ EnsureReuses(m) \/ Forget(m)
    BY <1>1, <1>2, <1>3, <1>4, <2>1
  <2>2. CASE RecordStart(m)
    BY <2>2
  <2> QED  BY <1>5, <1>6, <2>1, <2>2 DEF Step, SweepSnapshot, Probe, Signal, Abandon,
     EnsureRefused, EnsureSpawns, RecordFails, Ready, NotReady, StopConfirmed,
     StopUnconfirmed, ForgetFails, Crash
<1> QED  BY <1>5, <1>6 DEF Next, Used, EnsureSnapshot, Binds, Dies, GraceEnds, PidReused,
   StrangerExits, Managing, vars

-----------------------------------------------------------------------------
\* What a step may do to the operation of manager n.
Moves(n) ==
  /\ op'[n].gone \subseteq op[n].gone \/ Probe(n)
  /\ op'[n].pc = "forget" =>
       \/ op[n].pc = "forget" /\ op'[n].id = op[n].id
       \/ StopConfirmed(n)
  /\ op'[n].pc = "spawned" =>
       \/ /\ op[n].pc = "spawned" /\ op'[n].id = op[n].id /\ op'[n].gone = op[n].gone
          /\ lock' = lock
       \/ EnsureSpawns(n)
  /\ op[n].pc \in {"spawned", "discard"} =>
       \/ op'[n].pc \in {"spawned", "discard"} /\ op'[n].id = op[n].id
       \/ RecordStart(n) \/ op[n].id \in lost' \/ ~Alive(op[n].id)

\* Every step moves every operation in one of these ways.
LEMMA StepMoves == TypeOK /\ Fits /\ [Next]_vars => \A n \in Managers : Moves(n)
<1> SUFFICES ASSUME TypeOK, Fits, [Next]_vars, NEW n \in Managers PROVE Moves(n)
  OBVIOUS
<1>t. op[n] \in Operation /\ op \in [Managers -> Operation]
  BY DEF TypeOK
<1>1. ASSUME op'[n] = op[n], op[n].pc = "spawned" => lock' = lock PROVE Moves(n)
  BY <1>1 DEF Moves
<1>2. ASSUME NEW m \in Managers, Step(m), m # n PROVE Moves(n)
  <2>1. op'[n] = op[n]
    BY <1>2, <1>t DEF Step, Flush, SweepSnapshot, Probe, CommitTerminating, Signal,
     Abandon, SweepEnd, EnsureRefused, EnsureReuses, EnsureSpawns, RecordStart, RecordFails,
     Ready, NotReady, StopConfirmed, StopUnconfirmed, Forget, ForgetFails, Crash
  <2>2. ASSUME op[n].pc = "spawned" PROVE lock' = lock
    <3>1. lock = n /\ lock # NoManager /\ lock # m
      BY <1>2, <2>2, RegistryAssumption DEF Fits
    <3>2. ~RecordStart(m) /\ ~RecordFails(m) /\ ~EnsureSpawns(m)
      BY <3>1 DEF Fits, RecordStart, RecordFails, EnsureSpawns, AtClaim, AtBody, Probed
    <3> QED  BY <1>2, <3>1, <3>2 DEF Step, Flush, SweepSnapshot, Probe, CommitTerminating,
     Signal, Abandon, SweepEnd, EnsureRefused, EnsureReuses, Ready, NotReady, StopConfirmed,
     StopUnconfirmed, Forget, ForgetFails, Crash
  <2> QED  BY <1>1, <2>1, <2>2
<1>3. ASSUME Step(n) PROVE Moves(n)
  <2>1. CASE Flush(n) \/ SweepSnapshot(n) \/ Probe(n) \/ CommitTerminating(n) \/ Signal(n)
    <3>1. op'[n].pc \in {"flushed", "probe", "signal"}
      <4>1. CASE Probe(n)
        BY <4>1, <1>t DEF Probe, Operation
      <4>2. CASE Flush(n) \/ SweepSnapshot(n) \/ CommitTerminating(n)
        BY <4>2, <1>t DEF Flush, SweepSnapshot, CommitTerminating, Operation
      <4>3. CASE Signal(n)
        BY <4>3, <1>t DEF Signal, Operation
      <4> QED  BY <2>1, <4>1, <4>2, <4>3
    <3>2. op[n].pc \in {"idle", "flushed", "probe", "signal"}
      BY <2>1 DEF Flush, SweepSnapshot, Probe, CommitTerminating, Probed, Signal
    <3>3. CASE Flush(n) \/ SweepSnapshot(n) \/ Signal(n)
      <4>1. op'[n].gone = op[n].gone
        BY <3>3, <1>t DEF Flush, SweepSnapshot, Signal, Operation
      <4> QED  BY <3>1, <3>2, <4>1 DEF Moves
    <3>4. CASE CommitTerminating(n)
      <4>1. op'[n].gone = {}
        BY <3>4, <1>t DEF CommitTerminating, Operation
      <4> QED  BY <3>1, <3>2, <4>1 DEF Moves
    <3>5. CASE Probe(n)
      BY <3>1, <3>2, <3>5 DEF Moves
    <3> QED  BY <2>1, <3>3, <3>4, <3>5
  <2>2. CASE Abandon(n) \/ SweepEnd(n) \/ EnsureRefused(n) \/ Ready(n) \/ ForgetFails(n) \/ Forget(n)
    BY <2>2, <1>t DEF Abandon, SweepEnd, EnsureRefused, Ready, ForgetFails, Forget, Moves, Idle,
       AtClaim, AtBody, Probed
  <2>3. CASE EnsureReuses(n)
    BY <2>3, <1>t DEF EnsureReuses, Moves, Idle, AtClaim, AtBody, Probed
  <2>4. CASE EnsureSpawns(n) \/ RecordStart(n) \/ RecordFails(n)
    <3>1. CASE EnsureSpawns(n)
      <4>1. op[n].pc \in {"probe", "signal"} /\ op'[n].pc = "spawned" /\ op'[n].gone = op[n].gone
        BY <3>1, <1>t DEF EnsureSpawns, AtClaim, AtBody, Probed, Operation
      <4> QED  BY <3>1, <4>1 DEF Moves
    <3>2. CASE RecordStart(n)
      <4>1. op'[n].pc = "await" /\ op'[n].gone = {}
        BY <3>2, <1>t DEF RecordStart, Operation
      <4> QED  BY <3>2, <4>1 DEF Moves
    <3>3. CASE RecordFails(n)
      <4>1. op[n].pc = "spawned" /\ op'[n].pc = "discard" /\ op'[n].gone = {} /\ op'[n].id = op[n].id
        BY <3>3, <1>t DEF RecordFails, Operation
      <4> QED  BY <4>1 DEF Moves
    <3> QED  BY <2>4, <3>1, <3>2, <3>3
  <2>5. CASE NotReady(n) \/ StopConfirmed(n) \/ StopUnconfirmed(n)
    BY <2>5, <1>t DEF NotReady, StopConfirmed, StopUnconfirmed, Moves, Idle, Operation
  <2>6. CASE Crash(n)
    BY <2>6, <1>t DEF Crash, Moves, Idle
  <2> QED  BY <1>3, <2>1, <2>2, <2>3, <2>4, <2>5, <2>6 DEF Step
<1>4. ASSUME NEW m \in Managers, NEW w \in Worktrees, Used(m, w) \/ EnsureSnapshot(m, w)
      PROVE  Moves(n)
  <2>1. CASE Used(m, w)
    BY <1>1, <2>1 DEF Used
  <2>2. CASE EnsureSnapshot(m, w)
    BY <2>2, <1>t DEF EnsureSnapshot, Moves, Operation
  <2> QED  BY <1>4, <2>1, <2>2
<1> QED  BY <1>1, <1>2, <1>3, <1>4 DEF Next, Binds, Dies, GraceEnds, PidReused,
   StrangerExits, Managing, vars
-----------------------------------------------------------------------------
\* A probe says gone only of a server that does not run.
LEMMA GoneIsDead ==
  ASSUME TypeOK, NEW r, r.id \in 1 .. Len(starts), NEW sweep, "gone" \in Verdicts(r, sweep)
  PROVE  ~Alive(r.id)
<1>1. r.id \in Servers /\ r.id # Nobody
  BY StartFields DEF Nobody
<1> QED  BY <1>1 DEF Verdicts, Identity, Alive, Exists, Ours

\* Beliefs of death stay true: verdicts are right when given, and the dead do not return.
LEMMA StepDead == TypeOK /\ Named /\ Dead /\ Fits /\ [Next]_vars => Dead'
<1> SUFFICES ASSUME TypeOK, Named, Dead, Fits, [Next]_vars, NEW n \in Managers
             PROVE  /\ (\A r \in op[n].gone : ~Alive(r.id))'
                    /\ (op[n].pc = "forget" => ~Alive(op[n].id))'
  BY DEF Dead
<1>1. Grows /\ Moves(n) /\ op[n] \in Operation
  BY StepGrows, StepMoves DEF TypeOK
<1>2. \A g \in 1 .. Len(starts) : ~Alive(g) => ~(proc'[starts'[g].pid] = g)
  BY <1>1 DEF Grows, Alive, Runner
<1>3. ASSUME NEW r \in op'[n].gone PROVE r.id \in 1 .. Len(starts) /\ ~Alive(r.id)
  <2>1. CASE r \in op[n].gone
    BY <2>1 DEF Named, Started, Dead
  <2>2. CASE Probe(n) /\ r \notin op[n].gone
    <3>1. PICK q \in op[n].todo : \E v \in Verdicts(q, op[n].wt = NoWorktree) :
            op' = [op EXCEPT ![n].todo = @ \ {q},
                             ![n].gone = IF v = "gone" THEN @ \cup {q} ELSE @,
                             ![n].cond = IF v = "terminate" THEN @ \cup {q} ELSE @]
      BY <2>2 DEF Probe
    <3>2. q = r /\ "gone" \in Verdicts(q, op[n].wt = NoWorktree)
      BY <1>1, <1>3, <2>2, <3>1 DEF TypeOK, Operation
    <3>3. r.id \in 1 .. Len(starts)
      BY <3>1, <3>2 DEF Named, Started
    <3> QED  BY <3>2, <3>3, GoneIsDead
  <2> QED  BY <1>1, <1>3, <2>1, <2>2 DEF Moves
<1>4. ASSUME op'[n].pc = "forget" PROVE op'[n].id \in 1 .. Len(starts) /\ ~Alive(op'[n].id)
  <2>1. CASE op[n].pc = "forget" /\ op'[n].id = op[n].id
    BY <2>1 DEF Named, Claiming, Dead
  <2>2. CASE StopConfirmed(n)
    <3>1. op'[n].id = op[n].id
      BY <1>1, <1>4, <2>2 DEF StopConfirmed, TypeOK, Operation, Idle
    <3> QED  BY <2>2, <3>1 DEF StopConfirmed, Named, Claiming
  <2> QED  BY <1>1, <1>4, <2>1, <2>2 DEF Moves
<1> QED  BY <1>2, <1>3, <1>4 DEF Alive, Runner
\* A spawned server keeps fitting in: only its starter, who has the lock, writes the map.
LEMMA StepFits == TypeOK /\ Named /\ Dead /\ Fits /\ [Next]_vars => Fits'
<1> SUFFICES ASSUME TypeOK, Named, Dead, Fits, [Next]_vars, NEW n \in Managers,
                    op'[n].pc = "spawned"
             PROVE  /\ lock' = n
                    /\ \A r \in registry' : r.id # op'[n].id
                    /\ \A r \in registry' \ op'[n].gone :
                         /\ starts'[r.id].wt # starts'[op'[n].id].wt
                         /\ starts'[r.id].port # starts'[op'[n].id].port
                    /\ Cardinality(registry' \ op'[n].gone) < SharedServers
  BY DEF Fits, Kept
<1>1. Grows /\ Moves(n) /\ op \in [Managers -> Operation] /\ Started(registry)
  BY StepGrows, StepMoves DEF TypeOK, Named
<1>2. CASE op[n].pc = "spawned" /\ op'[n].id = op[n].id /\ op'[n].gone = op[n].gone /\ lock' = lock
  <2>1. lock = n /\ lock # NoManager /\ op[n].id \in 1 .. Len(starts)
    BY <1>2, RegistryAssumption DEF Fits, Named, Claiming
  <2>2. ASSUME NEW m \in Managers, RecordStart(m) PROVE FALSE
    <3>1. m = n
      BY <2>1, <2>2 DEF RecordStart, Fits
    <3>2. op'[n].pc = "await"
      BY <1>1, <2>2, <3>1 DEF RecordStart, Operation
    <3> QED  BY <3>2
  <2>3. registry' = registry
    BY <2>1, <2>2, StepRegistry DEF Shrinks
  <2>4. /\ \A r \in registry : r.id # op[n].id
        /\ \A r \in registry \ op[n].gone : /\ starts[r.id].wt # starts[op[n].id].wt
                                            /\ starts[r.id].port # starts[op[n].id].port
        /\ Cardinality(registry \ op[n].gone) < SharedServers
    BY <1>2 DEF Fits, Kept
  <2> QED  BY <1>1, <1>2, <2>1, <2>3, <2>4 DEF Grows, Started
<1>3. CASE EnsureSpawns(n)
  <2>1. PICK port \in Ports, pid \in Pids :
          /\ Allocated(op[n].wt, Kept(n), port)
          /\ starts' = Append(starts, [wt |-> op[n].wt, port |-> port, pid |-> pid])
    BY <1>3 DEF EnsureSpawns
  <2>2. starts'[Len(starts) + 1] = [wt |-> op[n].wt, port |-> port, pid |-> pid]
        /\ Len(starts) \in Nat
    BY <2>1, StartFields
  <2>3. op'[n].id = Len(starts) + 1 /\ op'[n].gone = op[n].gone /\ lock' = n /\ registry' = registry
    BY <1>1, <1>3 DEF EnsureSpawns, Operation
  <2>4. \A r \in registry : r.id \in 1 .. Len(starts)
    BY <1>1 DEF Started
  <2>5. \A r \in Kept(n) : starts[r.id].wt # op[n].wt /\ starts[r.id].port # port
    BY <1>3, <2>1 DEF EnsureSpawns, Existing, Allocated, Free
  <2>6. Cardinality(Kept(n)) < SharedServers
    BY <1>3 DEF EnsureSpawns
  <2> QED  BY <1>1, <2>2, <2>3, <2>4, <2>5, <2>6 DEF Grows, Kept
<1> QED  BY <1>1, <1>2, <1>3 DEF Moves

\* Different records name different servers.
LEMMA Unique ==
  ASSUME RegistryConsistent, NEW r \in registry, NEW s \in registry, r.id = s.id
  PROVE  r = s
BY DEF RegistryConsistent

\* Worktrees and ports stay unique and the limit stays kept.
LEMMA StepConsistent ==
  TypeOK /\ Named /\ Dead /\ Fits /\ IsFiniteSet(registry) /\ RegistryConsistent /\ [Next]_vars
    => IsFiniteSet(registry') /\ RegistryConsistent'
<1> SUFFICES ASSUME TypeOK, Named, Dead, Fits, IsFiniteSet(registry), RegistryConsistent, [Next]_vars
             PROVE  /\ IsFiniteSet(registry')
                    /\ \A r, s \in registry' :
                         r # s => /\ starts'[r.id].wt # starts'[s.id].wt
                                  /\ starts'[r.id].port # starts'[s.id].port
                    /\ Cardinality(registry') <= SharedServers
  BY DEF RegistryConsistent
<1>1. Grows /\ Started(registry) /\ SharedServers \in Nat /\ Cardinality(registry) \in Nat
      /\ Cardinality(registry) <= SharedServers
  BY StepGrows, FS_CardinalityType, RegistryAssumption DEF Named, RegistryConsistent
<1>2. \A r, s \in registry : r # s => /\ starts'[r.id].wt # starts'[s.id].wt
                                      /\ starts'[r.id].port # starts'[s.id].port
  BY <1>1 DEF Grows, Started, RegistryConsistent
<1>3. CASE registry' = registry
  BY <1>1, <1>2, <1>3
<1>4. CASE Shrinks
  <2>1. PICK f \in [registry -> Record], K \in SUBSET registry :
          /\ \A r \in registry : f[r].id = r.id
          /\ registry' = {f[r] : r \in K}
    BY <1>4 DEF Shrinks
  <2>2. IsFiniteSet(K) /\ Cardinality(K) \in Nat /\ Cardinality(K) <= Cardinality(registry)
    BY FS_Subset, FS_CardinalityType
  <2>3. IsFiniteSet(registry') /\ Cardinality(registry') <= Cardinality(K)
        /\ Cardinality(registry') \in Nat
    <3> DEFINE h == [r \in K |-> f[r]]
    <3>1. h \in Surjection(K, registry')
      BY <2>1 DEF Surjection
    <3> QED  BY <2>2, <3>1, FS_Surjection, FS_CardinalityType
  <2>4. ASSUME NEW r \in registry', NEW s \in registry', r # s
        PROVE  /\ starts'[r.id].wt # starts'[s.id].wt
               /\ starts'[r.id].port # starts'[s.id].port
    <3>1. PICK q \in K : r = f[q]
      BY <2>1
    <3>2. PICK u \in K : s = f[u]
      BY <2>1
    <3>3. q # u /\ r.id = q.id /\ s.id = u.id
      BY <2>1, <2>4, <3>1, <3>2
    <3> QED  BY <1>2, <3>3
  <2> QED  BY <1>1, <2>2, <2>3, <2>4
<1>5. ASSUME NEW m \in Managers, RecordStart(m)
      PROVE  /\ IsFiniteSet(registry')
             /\ \A r, s \in registry' :
                  r # s => /\ starts'[r.id].wt # starts'[s.id].wt
                           /\ starts'[r.id].port # starts'[s.id].port
             /\ Cardinality(registry') <= SharedServers
  <2> DEFINE new == Fresh(op[m].id)
  <2>1. new.id = op[m].id /\ op[m].id \in 1 .. Len(starts) /\ op[m].pc = "spawned"
    BY <1>5 DEF Fresh, RecordStart, Named, Claiming
  <2>2. \A r \in Kept(m) : /\ starts'[r.id].wt # starts'[new.id].wt
                           /\ starts'[r.id].port # starts'[new.id].port
    BY <1>1, <2>1 DEF Fits, Kept, Grows, Started
  <2>3. registry' = Kept(m) \cup {new} /\ Kept(m) \subseteq registry
    BY <1>5 DEF RecordStart, Kept
  <2>4. IsFiniteSet(Kept(m)) /\ Cardinality(Kept(m)) \in Nat /\ Cardinality(Kept(m)) < SharedServers
    BY <2>1, <2>3, FS_Subset, FS_CardinalityType DEF Fits
  <2> HIDE DEF new
  <2>5. IsFiniteSet(registry') /\ Cardinality(registry') <= Cardinality(Kept(m)) + 1
    <3>1. IsFiniteSet(Kept(m) \cup {new})
          /\ (Cardinality(Kept(m) \cup {new}) = Cardinality(Kept(m))
              \/ Cardinality(Kept(m) \cup {new}) = Cardinality(Kept(m)) + 1)
      BY <2>4, FS_AddElement, Zenon
    <3> QED  BY <2>3, <2>4, <3>1
  <2>6. Cardinality(registry') \in Nat
    BY <2>5, FS_CardinalityType
  <2>7. \A r, s \in registry' :
          r # s => /\ starts'[r.id].wt # starts'[s.id].wt
                   /\ starts'[r.id].port # starts'[s.id].port
    BY <1>2, <2>2, <2>3
  <2> QED  BY <1>1, <2>4, <2>5, <2>6, <2>7
<1> QED  BY <1>3, <1>4, <1>5, StepRegistry
-----------------------------------------------------------------------------
\* No step drops the record of a running server.
LEMMA StepKeepsLive ==
  ASSUME TypeOK, Named, Dead, [Next]_vars, NEW r \in registry, Alive(r.id)
  PROVE  \E s \in registry' : s.id = r.id
<1>1. CASE registry' = registry
  BY <1>1
<1>2. CASE Shrinks
  BY <1>2 DEF Shrinks
<1>3. ASSUME NEW m \in Managers, RecordStart(m) PROVE r \in registry'
  BY <1>3 DEF RecordStart, Kept, Dead
<1> QED  BY <1>1, <1>2, <1>3, StepRegistry

\* No step clears a termination mark.
LEMMA StepKeepsMarks ==
  ASSUME TypeOK, Named, Dead, Fits, RegistryConsistent, [Next]_vars,
         NEW r \in registry, r.term, NEW s \in registry', s.id = r.id
  PROVE  s.term
<1>1. CASE registry' = registry
  BY <1>1, Unique
<1>2. CASE Shrinks
  <2>1. PICK f \in [registry -> Record], K \in SUBSET registry :
          /\ \A q \in registry : f[q].id = q.id /\ (q.term => f[q].term)
          /\ registry' = {f[q] : q \in K}
    BY <1>2 DEF Shrinks
  <2>2. PICK q \in K : s = f[q]
    BY <2>1
  <2>3. q = r
    BY <2>1, <2>2, Unique
  <2> QED  BY <2>1, <2>2, <2>3
<1>3. ASSUME NEW m \in Managers, RecordStart(m) PROVE s.term
  <2>1. s # Fresh(op[m].id)
    BY <1>3 DEF RecordStart, Fits, Fresh
  <2>2. s \in registry
    BY <1>3, <2>1 DEF RecordStart, Kept
  <2> QED  BY <2>2, Unique
<1> QED  BY <1>1, <1>2, <1>3, StepRegistry

\* A running server stays in the map, in its starter's hands, or lost with its starter.
LEMMA StepNoOrphan ==
  TypeOK /\ Named /\ Dead /\ Fits /\ NoOrphan /\ [Next]_vars => NoOrphan'
<1> SUFFICES ASSUME TypeOK, Named, Dead, Fits, NoOrphan, [Next]_vars,
                    NEW g \in 1 .. Len(starts'), Alive(g)'
             PROVE  \/ \E r \in registry' : r.id = g
                    \/ \E m \in Managers : op'[m].id = g /\ op'[m].pc \in {"spawned", "discard"}
                    \/ g \in lost'
  BY DEF NoOrphan
<1>1. Grows /\ (\A n \in Managers : Moves(n)) /\ op \in [Managers -> Operation]
      /\ Len(starts) \in Nat
  BY StepGrows, StepMoves, StartFields DEF TypeOK
<1>2. CASE g \in 1 .. Len(starts)
  <2>1. Alive(g)
    BY <1>1, <1>2 DEF Grows
  <2>2. CASE \E r \in registry : r.id = g
    BY <2>1, <2>2, StepKeepsLive
  <2>3. ASSUME NEW m \in Managers, op[m].id = g, op[m].pc \in {"spawned", "discard"}
        PROVE  \/ \E r \in registry' : r.id = g
               \/ op'[m].id = g /\ op'[m].pc \in {"spawned", "discard"}
               \/ g \in lost'
    <3>1. CASE RecordStart(m)
      <4>1. Fresh(op[m].id) \in registry' /\ Fresh(op[m].id).id = op[m].id
        BY <3>1 DEF RecordStart, Fresh
      <4> QED  BY <2>3, <4>1
    <3> QED  BY <1>1, <2>1, <2>3, <3>1 DEF Moves
  <2>4. lost \subseteq lost'
    BY DEF Next, Step, Flush, SweepSnapshot, Probe, CommitTerminating, Signal, Abandon,
       SweepEnd, EnsureRefused, EnsureReuses, EnsureSpawns, RecordStart, RecordFails, Ready,
       NotReady, StopConfirmed, StopUnconfirmed, Forget, ForgetFails, Crash, Used,
       EnsureSnapshot, Binds, Dies, GraceEnds, PidReused, StrangerExits, Managing, Recorded, vars
  <2> QED  BY <1>2, <2>1, <2>2, <2>3, <2>4 DEF NoOrphan
<1>3. CASE g \notin 1 .. Len(starts)
  <2>1. starts' # starts
    BY <1>3
  <2>2. PICK m \in Managers : EnsureSpawns(m)
    BY <2>1 DEF Next, Step, Flush, SweepSnapshot, Probe, CommitTerminating, Signal, Abandon,
       SweepEnd, EnsureRefused, EnsureReuses, RecordStart, RecordFails, Ready,
       NotReady, StopConfirmed, StopUnconfirmed, Forget, ForgetFails, Crash, Used,
       EnsureSnapshot, Binds, Dies, GraceEnds, PidReused, StrangerExits, Managing, Quiet, vars
  <2>3. op'[m].id = Len(starts) + 1 /\ op'[m].pc = "spawned"
    BY <1>1, <2>2 DEF EnsureSpawns, Operation
  <2>4. Len(starts') = Len(starts) + 1
    BY <2>2, StartFields DEF EnsureSpawns
  <2> QED  BY <1>1, <1>3, <2>3, <2>4
<1> QED  BY <1>2, <1>3

-----------------------------------------------------------------------------
\* An empty map is sound.
LEMMA InitSound == Init => Sound
<1> SUFFICES ASSUME Init PROVE Sound
  OBVIOUS
<1>1. TypeOK
  BY RegistryAssumption, IdleWellFormed DEF Init, TypeOK, WellFormed
<1>2. Named /\ Dead /\ Fits
  BY DEF Init, Named, Dead, Fits, Started, Claiming, Idle
<1>3. IsFiniteSet(registry) /\ RegistryConsistent
  BY FS_EmptySet, RegistryAssumption DEF Init, RegistryConsistent
<1>4. NoOrphan
  BY DEF Init, NoOrphan
<1> QED  BY <1>1, <1>2, <1>3, <1>4 DEF Sound

\* Soundness is kept by every step.
LEMMA StepSound == Sound /\ [Next]_vars => Sound'
BY StepTyped, StepDead, StepFits, StepConsistent, StepNoOrphan DEF Sound

\* The inductive invariant of the registry holds throughout.
LEMMA AlwaysSound == Spec => []Sound
BY InitSound, StepSound, PTL DEF Spec

\* The map of shared servers has one record for a worktree, one for a port, and never more
\* than the limit, for any number of managers that ensure, sweep, forget and are killed.
THEOREM OneRecordEach == Spec => []RegistryConsistent
<1>1. Sound => RegistryConsistent
  BY DEF Sound
<1> QED  BY <1>1, AlwaysSound, PTL

\* A gopls that a manager started is in the map as long as it runs, unless its starter is
\* writing or stopping it, or was killed there.
THEOREM Discoverable == Spec => []NoOrphan
<1>1. Sound => NoOrphan
  BY DEF Sound
<1> QED  BY <1>1, AlwaysSound, PTL

\* A worktree has one running server, apart from those its starters could not record.
THEOREM OneServerEach == Spec => []OneServer
<1>1. Sound => OneServer
  <2> SUFFICES ASSUME Sound, NEW g \in 1 .. Len(starts), NEW h \in 1 .. Len(starts),
                      Alive(g), Alive(h), g # h, starts[g].wt = starts[h].wt,
                      g \notin lost \cup Discarding, h \notin lost \cup Discarding
               PROVE  FALSE
    BY DEF OneServer
  <2>1. ASSUME NEW x \in {g, h}
        PROVE  \/ \E r \in registry : r.id = x
               \/ \E m \in Managers : op[m].id = x /\ op[m].pc = "spawned"
    BY DEF Sound, NoOrphan, Discarding
  <2>2. ASSUME NEW x \in {g, h}, NEW y \in {g, h}, x # y, NEW m \in Managers,
               op[m].id = x, op[m].pc = "spawned", NEW r \in registry, r.id = y
        PROVE  FALSE
    <3>1. r \in Kept(m)
      BY <2>2 DEF Sound, Dead, Kept
    <3> QED  BY <2>2, <3>1 DEF Sound, Fits
  <2>3. ASSUME NEW m \in Managers, op[m].id = g, op[m].pc = "spawned",
               NEW n \in Managers, op[n].id = h, op[n].pc = "spawned"
        PROVE  FALSE
    BY <2>3 DEF Sound, Fits
  <2>4. ASSUME NEW r \in registry, r.id = g, NEW s \in registry, s.id = h PROVE FALSE
    BY <2>4 DEF Sound, RegistryConsistent
  <2> QED  BY <2>1, <2>2, <2>3, <2>4
<1> QED  BY <1>1, AlwaysSound, PTL

\* No step of any manager takes the record of a running server out of the map: not the
\* verdict of an old probe, and not a forget that comes late.
THEOREM LiveStaysRecorded == Spec => NeverForgetsLive
<1>1. Sound /\ [Next]_vars
        => [\A r \in registry : Alive(r.id) => \E s \in registry' : s.id = r.id]_vars
  BY StepKeepsLive DEF Sound
<1> QED  BY <1>1, AlwaysSound, PTL DEF Spec, NeverForgetsLive

\* A termination mark is final: usage that is counted late, or a new start, never clears it.
THEOREM MarksAreFinal == Spec => MarkIsFinal
<1>1. Sound /\ [Next]_vars
        => [\A r \in registry : r.term => \A s \in registry' : s.id = r.id => s.term]_vars
  BY StepKeepsMarks DEF Sound
<1> QED  BY <1>1, AlwaysSound, PTL DEF Spec, MarkIsFinal
-----------------------------------------------------------------------------
\* Only a server that runs answers on its port, and what runs under a pid is the last
\* server that was started there.
Runs ==
  /\ \A g \in serving : Alive(g)
  /\ \A p \in Pids : proc[p] \in 1 .. Len(starts) => starts[proc[p]].pid = p
  /\ \A g, h \in 1 .. Len(starts) : Alive(g) /\ g < h => starts[h].pid # starts[g].pid

\* A server leaves its pid and its port together, and a pid is given away only when free.
LEMMA StepRuns == TypeOK /\ Runs /\ [Next]_vars => Runs'
<1> SUFFICES ASSUME TypeOK, Runs, [Next]_vars PROVE Runs'
  OBVIOUS
<1>0. /\ Len(starts) \in Nat /\ Nobody = 0 /\ Stranger = -1 /\ serving \subseteq 1 .. Len(starts)
      /\ proc \in [Pids -> 1 .. Len(starts) \cup {Nobody, Stranger}]
      /\ \A g \in 1 .. Len(starts) : starts[g].pid \in Pids
  BY StartFields DEF TypeOK, Nobody, Stranger
<1>1. ASSUME UNCHANGED <<starts, proc, serving>> PROVE Runs'
  BY <1>1 DEF Runs, Alive, Runner
<1>2. ASSUME NEW m \in Managers, EnsureSpawns(m) PROVE Runs'
  <2>1. PICK port \in Ports, pid \in Pids :
          /\ proc[pid] = Nobody
          /\ starts' = Append(starts, [wt |-> op[m].wt, port |-> port, pid |-> pid])
          /\ proc' = [proc EXCEPT ![pid] = Len(starts) + 1]
    BY <1>2 DEF EnsureSpawns
  <2>2. /\ Len(starts') = Len(starts) + 1
        /\ \A g \in 1 .. Len(starts) : starts'[g] = starts[g]
        /\ starts'[Len(starts) + 1].pid = pid
    BY <2>1, StartFields
  <2>3. \A g \in 1 .. Len(starts) : starts[g].pid = pid => ~Alive(g)
    BY <1>0, <2>1 DEF Alive, Runner
  <2>4. \A g \in 1 .. Len(starts) : Alive(g)' <=> Alive(g)
    <3> SUFFICES ASSUME NEW g \in 1 .. Len(starts) PROVE Alive(g)' <=> Alive(g)
      OBVIOUS
    <3>1. starts[g].pid \in Pids /\ starts'[g].pid = starts[g].pid /\ g # Len(starts) + 1
      BY <1>0, <2>2
    <3> QED  BY <1>0, <2>1, <2>3, <3>1 DEF Alive, Runner
  <2>5. serving' = serving
    BY <1>2 DEF EnsureSpawns
  <2>6. \A g \in serving' : Alive(g)'
    BY <1>0, <2>4, <2>5 DEF Runs
  <2>7. \A p \in Pids : proc'[p] \in 1 .. Len(starts') => starts'[proc'[p]].pid = p
    BY <1>0, <2>1, <2>2 DEF Runs
  <2>8. ASSUME NEW g \in 1 .. Len(starts'), NEW h \in 1 .. Len(starts'), Alive(g)', g < h
        PROVE  starts'[h].pid # starts'[g].pid
    <3>1. g \in 1 .. Len(starts) /\ Alive(g)
      BY <1>0, <2>2, <2>4, <2>8
    <3>2. CASE h \in 1 .. Len(starts)
      BY <2>2, <2>8, <3>1, <3>2 DEF Runs
    <3>3. CASE h = Len(starts) + 1
      BY <2>2, <2>3, <3>1, <3>3
    <3> QED  BY <1>0, <2>2, <3>2, <3>3
  <2> QED  BY <2>6, <2>7, <2>8 DEF Runs
<1>3. ASSUME NEW g \in 1 .. Len(starts), Binds(g) PROVE Runs'
  BY <1>0, <1>3 DEF Binds, Managing, Runs, Alive, Runner
<1>4. ASSUME NEW g \in 1 .. Len(starts), Dies(g) PROVE Runs'
  <2>1. starts[g].pid \in Pids /\ Alive(g) /\ g # Nobody
    BY <1>0, <1>4 DEF Dies
  <2>2. proc' = [proc EXCEPT ![starts[g].pid] = Nobody] /\ serving' = serving \ {g}
        /\ starts' = starts
    BY <1>4 DEF Dies, Managing
  <2>3. \A h \in 1 .. Len(starts) : Alive(h)' <=> Alive(h) /\ h # g
    BY <1>0, <2>1, <2>2 DEF Alive, Runner
  <2> QED  BY <1>0, <2>1, <2>2, <2>3 DEF Runs
<1>5. ASSUME NEW p \in Pids, PidReused(p) \/ StrangerExits(p) PROVE Runs'
  <2>1. proc' = [proc EXCEPT ![p] = proc'[p]] /\ proc[p] \in {Nobody, Stranger}
        /\ proc'[p] \in {Nobody, Stranger} /\ starts' = starts /\ serving' = serving
    BY <1>0, <1>5 DEF PidReused, StrangerExits, Managing
  <2>2. \A h \in 1 .. Len(starts) : Alive(h)' <=> Alive(h)
    BY <1>0, <2>1 DEF Alive, Runner
  <2> QED  BY <1>0, <2>1, <2>2 DEF Runs
<1>6. ASSUME NEW g \in 1 .. Len(starts), GraceEnds(g) PROVE Runs'
  BY <1>1, <1>6 DEF GraceEnds, Managing
<1>7. ASSUME NEW m \in Managers, Step(m) PROVE Runs'
  BY <1>1, <1>2, <1>7 DEF Step, Flush, SweepSnapshot, Probe, CommitTerminating, Signal,
     Abandon, SweepEnd, EnsureRefused, EnsureReuses, RecordStart, RecordFails, Ready,
     NotReady, StopConfirmed, StopUnconfirmed, Forget, ForgetFails, Crash, Quiet
<1>8. ASSUME NEW m \in Managers, NEW w \in Worktrees, Used(m, w) \/ EnsureSnapshot(m, w)
      PROVE  Runs'
  BY <1>1, <1>8 DEF Used, EnsureSnapshot, Quiet
<1>9. CASE UNCHANGED vars
  BY <1>1, <1>9 DEF vars
<1> QED  BY <1>3, <1>4, <1>5, <1>6, <1>7, <1>8, <1>9 DEF Next

\* A verdict to terminate stands only for a server that a probe condemned, as long as that
\* server runs, and what is left to signal is marked.
Sentenced ==
  \A m \in Managers :
    /\ \A r \in op[m].cond \cup op[m].sig : Alive(r.id) => r.id \in condemned
    /\ \A r \in op[m].sig : r.term

\* What a step adds to a manager's verdicts and to its signals.
Sentences(n) ==
  /\ op'[n].cond \subseteq op[n].cond \/ Probe(n)
  /\ op'[n].sig \subseteq op[n].sig \/ CommitTerminating(n)

\* Every step adds to them in one of these ways.
LEMMA StepSentences == TypeOK /\ [Next]_vars => \A n \in Managers : Sentences(n)
<1> SUFFICES ASSUME TypeOK, [Next]_vars, NEW n \in Managers PROVE Sentences(n)
  OBVIOUS
<1>t. op[n] \in Operation /\ op \in [Managers -> Operation]
  BY DEF TypeOK
<1>1. ASSUME op'[n] = op[n] PROVE Sentences(n)
  BY <1>1 DEF Sentences
<1>2. ASSUME NEW m \in Managers, Step(m), m # n PROVE Sentences(n)
  <2>1. op'[n] = op[n]
    BY <1>2, <1>t DEF Step, Flush, SweepSnapshot, Probe, CommitTerminating, Signal,
     Abandon, SweepEnd, EnsureRefused, EnsureReuses, EnsureSpawns, RecordStart, RecordFails,
     Ready, NotReady, StopConfirmed, StopUnconfirmed, Forget, ForgetFails, Crash
  <2> QED  BY <1>1, <2>1
<1>3. ASSUME op'[n] = Idle PROVE Sentences(n)
  BY <1>3 DEF Sentences, Idle
<1>4. ASSUME Step(n) PROVE Sentences(n)
  <2>1. CASE Abandon(n) \/ SweepEnd(n) \/ EnsureRefused(n) \/ Ready(n) \/ ForgetFails(n)
             \/ Forget(n) \/ StopUnconfirmed(n) \/ Crash(n)
    BY <1>3, <1>t, <2>1 DEF Abandon, SweepEnd, EnsureRefused, Ready, ForgetFails, Forget,
       StopUnconfirmed, Crash
  <2>2. CASE EnsureReuses(n)
    BY <1>t, <2>2 DEF EnsureReuses, Sentences, Idle
  <2>3. CASE Flush(n) \/ SweepSnapshot(n)
    BY <1>t, <2>3 DEF Flush, SweepSnapshot, Sentences, Operation
  <2>4. CASE EnsureSpawns(n)
    BY <1>t, <2>4 DEF EnsureSpawns, Sentences, Operation
  <2>5. CASE RecordStart(n) \/ RecordFails(n)
    BY <1>t, <2>5 DEF RecordStart, RecordFails, Sentences, Operation
  <2>6. CASE NotReady(n) \/ StopConfirmed(n)
    BY <1>t, <2>6 DEF NotReady, StopConfirmed, Sentences, Operation, Idle
  <2>7. CASE Signal(n)
    BY <1>t, <2>7 DEF Signal, Sentences, Operation
  <2>8. CASE Probe(n)
    <3>1. op'[n].sig = op[n].sig
      BY <1>t, <2>8 DEF Probe, Operation
    <3> QED  BY <2>8, <3>1 DEF Sentences
  <2>9. CASE CommitTerminating(n)
    BY <1>t, <2>9 DEF CommitTerminating, Sentences, Operation
  <2> QED  BY <1>4, <2>1, <2>2, <2>3, <2>4, <2>5, <2>6, <2>7, <2>8, <2>9 DEF Step
<1>5. ASSUME NEW m \in Managers, NEW w \in Worktrees, Used(m, w) \/ EnsureSnapshot(m, w)
      PROVE  Sentences(n)
  <2>1. CASE Used(m, w)
    BY <1>1, <2>1 DEF Used
  <2>2. CASE EnsureSnapshot(m, w)
    BY <2>2, <1>t DEF EnsureSnapshot, Sentences, Operation
  <2> QED  BY <1>5, <2>1, <2>2
<1> QED  BY <1>1, <1>2, <1>4, <1>5 DEF Next, Binds, Dies, GraceEnds, PidReused,
   StrangerExits, Managing, vars

\* What was condemned stays so.
LEMMA CondemnedGrows == [Next]_vars => condemned \subseteq condemned'
BY ZenonT(40) DEF Next, Step, Flush, SweepSnapshot, Probe, CommitTerminating, Signal, Abandon,
   SweepEnd, EnsureRefused, EnsureReuses, EnsureSpawns, RecordStart, RecordFails, Ready,
   NotReady, StopConfirmed, StopUnconfirmed, Forget, ForgetFails, Crash, Used,
   EnsureSnapshot, Binds, Dies, GraceEnds, PidReused, StrangerExits, Managing, Recorded, vars

\* A probe condemns what runs under the pid: the server of the record, or one that took its
\* pid and its port, and then the server of the record is dead for good.
LEMMA StepSentenced == TypeOK /\ Named /\ Sentenced /\ [Next]_vars => Sentenced'
<1> SUFFICES ASSUME TypeOK, Named, Sentenced, [Next]_vars, NEW n \in Managers
             PROVE  /\ \A r \in op'[n].cond \cup op'[n].sig : Alive(r.id)' => r.id \in condemned'
                    /\ \A r \in op'[n].sig : r.term
  BY DEF Sentenced
<1>1. Grows /\ condemned \subseteq condemned' /\ Sentences(n) /\ op[n] \in Operation
      /\ op \in [Managers -> Operation] /\ WellFormed(op[n])
  BY StepGrows, CondemnedGrows, StepSentences, WellFormedOps DEF TypeOK
<1>2. \A r \in op[n].cond \cup op[n].sig :
        /\ r \in Record /\ r.id \in 1 .. Len(starts)
        /\ Alive(r.id)' => r.id \in condemned'
  BY <1>1 DEF Grows, Sentenced, WellFormed, Started, Operation
<1>3. ASSUME NEW r \in op'[n].cond, Alive(r.id)' PROVE r.id \in condemned'
  <2>1. CASE r \in op[n].cond
    BY <1>2, <1>3, <2>1
  <2>2. CASE Probe(n) /\ r \notin op[n].cond
    <3>1. PICK q \in op[n].todo : \E v \in Verdicts(q, op[n].wt = NoWorktree) :
            /\ op' = [op EXCEPT ![n].todo = @ \ {q},
                                ![n].gone = IF v = "gone" THEN @ \cup {q} ELSE @,
                                ![n].cond = IF v = "terminate" THEN @ \cup {q} ELSE @]
            /\ condemned' = IF v = "terminate" THEN condemned \cup {Runner(q.id)} ELSE condemned
      BY <2>2 DEF Probe
    <3>2. q = r /\ condemned' = condemned \cup {Runner(r.id)}
      BY <1>1, <1>3, <2>2, <3>1 DEF Operation
    <3>3. r.id \in 1 .. Len(starts)
      BY <1>1, <3>1, <3>2 DEF WellFormed, Started
    <3>4. Alive(r.id)
      BY <1>1, <1>3, <3>3 DEF Grows
    <3> QED  BY <3>2, <3>4 DEF Alive
  <2> QED  BY <1>1, <2>1, <2>2 DEF Sentences
<1>4. ASSUME NEW r \in op'[n].sig PROVE r.term /\ (Alive(r.id)' => r.id \in condemned')
  <2>1. CASE r \in op[n].sig
    BY <1>2, <2>1 DEF Sentenced
  <2>2. CASE CommitTerminating(n) /\ r \notin op[n].sig
    <3>1. op'[n].sig = {Marked(q) : q \in Condemns(n)}
      BY <1>1, <2>2 DEF CommitTerminating, Operation
    <3>2. PICK q \in op[n].cond : r = Marked(q)
      BY <1>4, <3>1 DEF Condemns
    <3>3. r.id = q.id /\ r.term
      BY <3>2 DEF Marked
    <3> QED  BY <1>2, <3>3
  <2> QED  BY <1>1, <2>1, <2>2 DEF Sentences
<1> QED  BY <1>3, <1>4

\* What a signal reaches: a server whose mark is in the map, or one that cannot be told
\* from a server that was started earlier.
LEMMA SignalReaches ==
  ASSUME TypeOK, Named, Runs, Sentenced, NEW m \in Managers, NEW s \in op[m].sig,
         MaySignal(s)
  PROVE  LET g == Runner(s.id)
         IN  /\ g \in 1 .. Len(starts) /\ starts[g].port = starts[s.id].port
             /\ s \in registry /\ s.term
             /\ Alive(g) => Impostor(g) \/ g = s.id
<1> DEFINE g == Runner(s.id)
<1>1. s \in registry /\ Ours(s.id) /\ s.id \in 1 .. Len(starts) /\ s.term
  BY DEF MaySignal, Named, Started, Sentenced
<1>2. g \in 1 .. Len(starts) /\ starts[g].port = starts[s.id].port
  BY <1>1, OursStarted DEF Ours
<1>3. starts[g].pid = starts[s.id].pid
  BY <1>1, <1>2, StartFields DEF Runs, Runner
<1>4. Len(starts) \in Nat
  BY StartFields
<1> HIDE DEF g
<1>5. ASSUME Alive(g), g # s.id PROVE Impostor(g)
  <2>1. s.id < g
    BY <1>1, <1>2, <1>3, <1>4, <1>5 DEF Runs
  <2>2. s.id \in 1 .. g - 1
    BY <1>1, <1>2, <1>4, <2>1
  <2> QED  BY <1>2, <1>3, <2>2 DEF Impostor
<1> QED  BY <1>1, <1>2, <1>5 DEF g

\* Only a signal signals.
LEMMA OnlySignal ==
  [Next]_vars => signalled' = signalled \/ \E m \in Managers : Signal(m)
BY DEF Next, Step, Flush, SweepSnapshot, Probe, CommitTerminating, Abandon,
   SweepEnd, EnsureRefused, EnsureReuses, EnsureSpawns, RecordStart, RecordFails, Ready,
   NotReady, StopConfirmed, StopUnconfirmed, Forget, ForgetFails, Crash, Used,
   EnsureSnapshot, Binds, Dies, GraceEnds, PidReused, StrangerExits, Managing, Recorded, vars

\* The mark of a server that was signalled stays in the map as long as the server runs.
LEMMA StepSignalled ==
  Sound /\ Runs /\ Sentenced /\ SignalledMarked /\ [Next]_vars => SignalledMarked'
<1> SUFFICES ASSUME Sound, Runs, Sentenced, SignalledMarked, [Next]_vars,
                    NEW g \in signalled', Alive(g)', ~Impostor(g)'
             PROVE  \E r \in registry' : r.id = g /\ r.term
  BY DEF SignalledMarked
<1>1. Grows /\ TypeOK /\ Named /\ Dead /\ Fits /\ RegistryConsistent
  BY StepGrows DEF Sound
<1>2. ASSUME g \in 1 .. Len(starts) PROVE Alive(g) /\ ~Impostor(g)
  BY <1>1, <1>2, StartFields DEF Grows, Impostor
<1>3. ASSUME g \in 1 .. Len(starts), NEW r \in registry, r.id = g, r.term
      PROVE  \E s \in registry' : s.id = g /\ s.term
  <2>1. PICK s \in registry' : s.id = r.id
    BY <1>1, <1>2, <1>3, StepKeepsLive
  <2>2. s.term
    BY <1>1, <1>3, <2>1, StepKeepsMarks
  <2> QED  BY <1>3, <2>1, <2>2
<1>4. CASE g \in signalled
  <2>1. g \in 1 .. Len(starts)
    BY <1>1, <1>4 DEF TypeOK
  <2> QED  BY <1>2, <1>3, <1>4, <2>1 DEF SignalledMarked
<1>5. CASE g \notin signalled
  <2>1. PICK m \in Managers : Signal(m)
    BY <1>5, OnlySignal
  <2>2. PICK s \in op[m].sig : MaySignal(s) /\ g = Runner(s.id)
    BY <1>5, <2>1 DEF Signal
  <2>3. g \in 1 .. Len(starts) /\ s \in registry /\ s.term
        /\ (Alive(g) => Impostor(g) \/ g = s.id)
    BY <1>1, <2>2, SignalReaches
  <2> QED  BY <1>2, <1>3, <2>3
<1> QED  BY <1>4, <1>5

\* The inductive invariant of termination.
Doomed == Sound /\ Runs /\ Sentenced /\ SignalledMarked

\* It holds throughout.
LEMMA AlwaysDoomed == Spec => []Doomed
<1>1. Init => Doomed
  <2> SUFFICES ASSUME Init PROVE Runs /\ Sentenced /\ SignalledMarked
    BY InitSound DEF Doomed
  <2>1. starts = <<>> /\ Len(starts) = 0
    BY DEF Init
  <2> QED  BY <2>1 DEF Init, Runs, Sentenced, SignalledMarked, Idle, Nobody
<1>2. Doomed /\ [Next]_vars => Doomed'
  <2> SUFFICES ASSUME Doomed, [Next]_vars PROVE Doomed'
    OBVIOUS
  <2>1. Sound' /\ Runs' /\ Sentenced'
    BY StepSound, StepRuns, StepSentenced DEF Doomed, Sound
  <2>2. SignalledMarked'
    BY StepSignalled DEF Doomed
  <2> QED  BY <2>1, <2>2 DEF Doomed
<1> QED  BY <1>1, <1>2, PTL DEF Spec

\* The port of a server that runs and is in the map is its own: whoever else listens there
\* is a start that its starter could not record.
THEOREM PortsAreOwn == Spec => []PortsBelong
<1>1. Doomed => PortsBelong
  <2> SUFFICES ASSUME Doomed, NEW r \in registry, NEW g \in serving, Alive(r.id),
                      starts[g].port = starts[r.id].port, g # r.id,
                      g \notin lost, g \notin Discarding
               PROVE  FALSE
    BY DEF PortsBelong
  <2>1. Alive(g) /\ g \in 1 .. Len(starts)
    BY DEF Doomed, Runs, Sound, TypeOK
  <2>2. CASE \E s \in registry : s.id = g
    BY <2>2 DEF Doomed, Sound, RegistryConsistent
  <2>3. ASSUME NEW m \in Managers, op[m].id = g, op[m].pc = "spawned" PROVE FALSE
    <3>1. r \in Kept(m)
      BY DEF Doomed, Sound, Dead, Kept
    <3> QED  BY <2>3, <3>1 DEF Doomed, Sound, Fits
  <2> QED  BY <2>1, <2>2, <2>3 DEF Doomed, Sound, NoOrphan, Discarding
<1> QED  BY <1>1, AlwaysDoomed, PTL

\* Termination is in the map before the signal and stays there until the server is gone,
\* whatever managers crash, sweep or flush in between, and only servers are signalled.
THEOREM MarkedBeforeSignalled == Spec => []SignalsSound
<1>1. Doomed => SignalsSound
  BY DEF Doomed, Sound, SignalsSound
<1> QED  BY <1>1, AlwaysDoomed, PTL

\* A server that the map names is signalled only after a probe condemned that very server,
\* however long the signal took and whatever became of the pid.
THEOREM CondemnedFirst == Spec => SignalledCondemned
<1>1. ASSUME Doomed, [Next]_vars, NEW r \in registry, r.id \in signalled' \ signalled
      PROVE  r.id \in condemned
  <2>1. PICK m \in Managers : Signal(m)
    BY <1>1, OnlySignal
  <2>2. PICK s \in op[m].sig : MaySignal(s) /\ r.id = Runner(s.id)
    BY <1>1, <2>1 DEF Signal
  <2>3. s \in registry /\ starts[r.id].port = starts[s.id].port
    BY <1>1, <2>2, SignalReaches DEF Doomed, Sound
  <2>4. r.id = s.id
    BY <1>1, <2>3 DEF Doomed, Sound, RegistryConsistent
  <2> QED  BY <1>1, <2>2, <2>4 DEF Doomed, Sentenced, Alive
<1>2. Doomed /\ [Next]_vars
        => [\A r \in registry : r.id \in signalled' \ signalled => r.id \in condemned]_vars
  BY <1>1
<1> QED  BY <1>2, AlwaysDoomed, PTL DEF Spec, SignalledCondemned
=============================================================================
