------------------------------ MODULE Registry ------------------------------
(***************************************************************************)
(* The registry of shared gopls servers (registry.go, manager.go, probe.go *)
(* and process.go): a map file that any number of manager processes read,  *)
(* and change under one flock, and the processes it names.                 *)
(*                                                                         *)
(* A manager runs one operation at a time here; a process that runs        *)
(* several is several managers, since they share nothing but the file and  *)
(* the usage they count.  Where an operation stands:                       *)
(*   flushed - a sweep has added its usage to the map;                     *)
(*   probe   - the snapshot is read, todo is left to probe, no lock held;  *)
(*   signal  - termination is in the map, sig is left to signal;           *)
(*   spawned - holds the lock, its gopls runs and is not in the map;       *)
(*   await   - polls the endpoint of the server it claimed;                *)
(*   stop    - kills its own start, which never became ready;              *)
(*   discard - kills its own start, which could not be recorded;           *)
(*   forget  - that start has exited, its record is to go.                 *)
(*                                                                         *)
(* A server is named by its place in starts, the sequence of all starts.   *)
(***************************************************************************)
EXTENDS Integers, FiniteSets, Sequences

CONSTANTS
  Managers,
  Worktrees,
  Pids,           \* process ids, which the system uses again
  NumPorts,       \* portCount
  Base,           \* basePort, as an offset from firstPort
  SharedServers,  \* limits.SharedServers
  NoManager, NoWorktree,
  MaxStarts,      \* bound: servers started
  MaxUses,        \* bound: deliveries that are counted as usage
  MaxCrashes      \* bound: managers that are killed

ASSUME RegistryAssumption ==
  /\ NoManager \notin Managers /\ NoWorktree \notin Worktrees
  /\ NumPorts \in Nat \ {0} /\ Base \in [Worktrees -> 0 .. NumPorts - 1]
  /\ SharedServers \in Nat \ {0}
  /\ MaxStarts \in Nat /\ MaxUses \in Nat /\ MaxCrashes \in Nat

VARIABLES
  registry,   \* the records of the map
  starts,     \* the worktree, port and pid of every server started
  proc,       \* what runs under each pid
  serving,    \* servers that have bound their port
  young,      \* servers inside their start grace
  lock,       \* who holds the map's flock over several steps
  op,         \* the operation of each manager
  counts,     \* useCounts: worktrees each manager has used since its last flush
  uses,       \* deliveries counted so far
  crashes,
  condemned,  \* history: servers a probe found fit to terminate
  signalled,  \* history: servers that were sent SIGTERM through the registry
  lost,       \* history: servers whose starter gave up on them unrecorded
  settled     \* history: failed starts whose forget reported success

vars == <<registry, starts, proc, serving, young, lock, op, counts, uses, crashes,
          condemned, signalled, lost, settled>>

Ports == 0 .. NumPorts - 1
Servers == 1 .. MaxStarts
Nobody == 0                 \* nothing runs under the pid
Stranger == -1              \* a process that is no gopls of any manager

Start == [wt : Worktrees, port : Ports, pid : Pids]

(***************************************************************************)
(* A record names one start, and carries what is rewritten in place.       *)
(* Records are compared whole, as the Go code does with ==.                *)
(***************************************************************************)
Record == [id : Servers, uses : Nat, term : BOOLEAN]
Fresh(g) == [id |-> g, uses |-> 0, term |-> FALSE]
\* Mistake: the signal is sent before the mark is written.
MarkedNever(r) == r

Marked(r) == [id |-> r.id, uses |-> r.uses, term |-> TRUE]

Operation == [pc : {"idle", "flushed", "probe", "signal", "spawned", "await", "stop",
                    "discard", "forget"},
              wt : Worktrees \cup {NoWorktree},   \* NoWorktree: the whole registry
              todo : SUBSET Record,               \* snapshot left to probe
              gone : SUBSET Record, cond : SUBSET Record,  \* verdicts to commit
              sig : SUBSET Record,
              id : Servers \cup {Nobody},         \* the server it claimed
              own : BOOLEAN]                      \* this operation started it
Idle == [pc |-> "idle", wt |-> NoWorktree, todo |-> {}, gone |-> {}, cond |-> {},
         sig |-> {}, id |-> Nobody, own |-> FALSE]

Init ==
  /\ registry = {} /\ starts = <<>>
  /\ proc = [p \in Pids |-> Nobody]
  /\ serving = {} /\ young = {}
  /\ lock = NoManager
  /\ op = [m \in Managers |-> Idle]
  /\ counts = [m \in Managers |-> {}]
  /\ uses = 0 /\ crashes = 0
  /\ condemned = {} /\ signalled = {} /\ lost = {} /\ settled = {}

(***************************************************************************)
(* What a manager can see of a server.                                     *)
(***************************************************************************)
Runner(g) == proc[starts[g].pid]      \* what runs under the pid of server g
Alive(g) == Runner(g) = g
Exists(g) == Runner(g) # Nobody       \* kill(pid, 0)
Listening(p) == \E g \in serving : starts[g].port = p
Ours(g) ==                            \* a gopls that was told to listen on g's port
  /\ Runner(g) \in Servers
  /\ starts[Runner(g)].port = starts[g].port

\* Mistake: no answer from ps is taken for no process.
IdentityGuessed(r) == {"gone", IF Ours(r.id) THEN "terminate" ELSE "gone"}

\* What identityVerdict may say of a record: ps may fail or time out.
Identity(r) == {"uncertain", IF Ours(r.id) THEN "terminate" ELSE "gone"}

(***************************************************************************)
(* What a probe of a record may say.  An endpoint that listens answers, or *)
(* times out, and only a refusal is conclusive.  A sweep also asks for the *)
(* identity of a live server that is over the open-file budget, has missed *)
(* a change or has lost its worktree: any of them may hold.                *)
(***************************************************************************)
Verdicts(r, sweep) ==
  IF ~Exists(r.id) THEN {"gone"}
  ELSE IF r.term THEN Identity(r)
  ELSE IF r.id \in young THEN {"live"}
  ELSE IF ~Listening(starts[r.id].port) THEN Identity(r)
  ELSE {"live"} \cup (IF sweep THEN Identity(r) ELSE Identity(r) \ {"terminate"})

-----------------------------------------------------------------------------
(***************************************************************************)
(* Sweeps and usage.                                                       *)
(***************************************************************************)
Quiet == UNCHANGED <<starts, proc, serving, young>>
Recorded == UNCHANGED <<condemned, signalled, lost, settled>>

\* A call was delivered to worktree w.
Used(m, w) ==
  /\ \E r \in registry : starts[r.id].wt = w /\ r.id \in serving
  /\ w \notin counts[m]        \* how often is left out
  /\ uses < MaxUses /\ uses' = uses + 1
  /\ counts' = [counts EXCEPT ![m] = @ \cup {w}]
  /\ Quiet /\ Recorded /\ UNCHANGED <<registry, lock, op, crashes>>

\* Mistake: the record is written as it was counted, its mark left out.
BumpedUnmarked(r, ws) ==
  IF starts[r.id].wt \in ws THEN [id |-> r.id, uses |-> r.uses + 1, term |-> FALSE] ELSE r

\* flushUses adds the manager's usage to records that are not terminating.
Bumped(r, ws) ==
  IF starts[r.id].wt \in ws /\ ~r.term
    THEN [r EXCEPT !.uses = @ + 1]
    ELSE r

Flush(m) ==
  /\ op[m].pc = "idle" /\ lock = NoManager
  /\ registry' = {Bumped(r, counts[m]) : r \in registry}
  /\ counts' = [counts EXCEPT ![m] = {}]
  /\ op' = [op EXCEPT ![m].pc = "flushed"]
  /\ Quiet /\ Recorded /\ UNCHANGED <<lock, uses, crashes>>

-----------------------------------------------------------------------------
(***************************************************************************)
(* withSelectedRecords: snapshot, probes without the lock, commit.         *)
(***************************************************************************)
Selected(w) == {r \in registry : w = NoWorktree \/ starts[r.id].wt = w}

SweepSnapshot(m) ==
  /\ op[m].pc = "flushed"
  /\ op' = [op EXCEPT ![m].pc = "probe", ![m].todo = Selected(NoWorktree)]
  /\ Quiet /\ Recorded /\ UNCHANGED <<registry, lock, counts, uses, crashes>>

EnsureSnapshot(m, w) ==
  /\ op[m].pc = "idle"
  /\ op' = [op EXCEPT ![m].pc = "probe", ![m].wt = w, ![m].todo = Selected(w)]
  /\ Quiet /\ Recorded /\ UNCHANGED <<registry, lock, counts, uses, crashes>>

Probe(m) ==
  /\ op[m].pc = "probe"
  /\ \E r \in op[m].todo : \E v \in Verdicts(r, op[m].wt = NoWorktree) :
       /\ op' = [op EXCEPT ![m].todo = @ \ {r},
                           ![m].gone = IF v = "gone" THEN @ \cup {r} ELSE @,
                           ![m].cond = IF v = "terminate" THEN @ \cup {r} ELSE @]
       /\ condemned' = IF v = "terminate" THEN condemned \cup {Runner(r.id)} ELSE condemned
  /\ Quiet /\ UNCHANGED <<registry, lock, counts, uses, crashes, signalled, lost, settled>>

Probed(m) == op[m].pc = "probe" /\ op[m].todo = {} /\ lock = NoManager

\* A verdict stands for the very record that was probed and for no other.
Condemns(m) == op[m].cond \cap registry
Kept(m) == registry \ op[m].gone

CommitTerminating(m) ==
  /\ Probed(m) /\ Condemns(m) # {}
  /\ registry' = {IF r \in Condemns(m) THEN Marked(r) ELSE r : r \in Kept(m)}
  /\ op' = [op EXCEPT ![m].pc = "signal", ![m].gone = {}, ![m].cond = {},
                      ![m].sig = {Marked(r) : r \in Condemns(m)}]
  /\ Quiet /\ Recorded /\ UNCHANGED <<lock, counts, uses, crashes>>

\* Mistake: the process is looked at again, the record is not.
MaySignalUnlisted(r) == Ours(r.id)

\* Mistake: the record is looked at again, the process is not.
MaySignalUnknown(r) == r \in registry /\ Exists(r.id)

\* signalTerminating: the record and the process are looked at again.  The check and the
\* kill are one step: their race, which POSIX leaves open, is conceded in the source.
MaySignal(r) == r \in registry /\ Ours(r.id)

Signal(m) ==
  /\ op[m].pc = "signal"
  /\ \E r \in op[m].sig :
       /\ op' = [op EXCEPT ![m].sig = @ \ {r}]
       /\ \/ MaySignal(r) /\ signalled' = signalled \cup {Runner(r.id)}
          \/ UNCHANGED signalled       \* not ours any more, or ps did not answer
  /\ Quiet /\ UNCHANGED <<registry, lock, counts, uses, crashes, condemned, lost, settled>>

\* The body of the operation runs under the lock, over the kept records: in the commit
\* of the verdicts, or in one of its own when there was something to signal.
AtBody(m) ==
  \/ Probed(m) /\ Condemns(m) = {}
  \/ op[m].pc = "signal" /\ op[m].sig = {} /\ lock = NoManager

\* The context ended, the map or its lock could not be used, or gopls did not start:
\* nothing is written, a gone record included.
Abandon(m) ==
  /\ op[m].pc \in {"flushed", "probe", "signal"}
  /\ op' = [op EXCEPT ![m] = Idle]
  /\ Quiet /\ Recorded /\ UNCHANGED <<registry, lock, counts, uses, crashes>>

\* keepRecords, the body of a sweep and of list.
SweepEnd(m) ==
  /\ AtBody(m) /\ op[m].wt = NoWorktree
  /\ registry' = Kept(m)
  /\ op' = [op EXCEPT ![m] = Idle]
  /\ Quiet /\ Recorded /\ UNCHANGED <<lock, counts, uses, crashes>>

-----------------------------------------------------------------------------
(***************************************************************************)
(* claimPort, the body of ensure.                                          *)
(***************************************************************************)
PortAt(w, k) == (Base[w] + k) % NumPorts        \* nextPort, k times over

\* Mistake: only ports in use are avoided, and not the ones that are reserved.
FreeUnreserved(p, records) == ~Listening(p)

Free(p, records) == ~Listening(p) /\ \A r \in records : starts[r.id].port # p

\* The port allocatePort answers: the first free one, from the worktree's own on.
Allocated(w, records, p) ==
  \E k \in 0 .. NumPorts - 1 :
    /\ p = PortAt(w, k) /\ Free(p, records)
    /\ \A j \in 0 .. k - 1 : ~Free(PortAt(w, j), records)

\* Mistake: a server that is terminating does not stand in the way of the next.
ExistingUnmarked(m) == {r \in Kept(m) : starts[r.id].wt = op[m].wt /\ ~r.term}

Existing(m) == {r \in Kept(m) : starts[r.id].wt = op[m].wt}
AtClaim(m) == AtBody(m) /\ op[m].wt # NoWorktree

\* The worktree's server is terminating, the limit is reached or no port is free.
EnsureRefused(m) ==
  /\ AtClaim(m)
  /\ \/ \E r \in Existing(m) : r.term
     \/ /\ Existing(m) = {}
        /\ \/ Cardinality(Kept(m)) >= SharedServers
           \/ \A p \in Ports : ~Free(p, Kept(m))
  /\ op' = [op EXCEPT ![m] = Idle]
  /\ Quiet /\ Recorded /\ UNCHANGED <<registry, lock, counts, uses, crashes>>

\* A server inside its grace was not probed, so its readiness is still to be seen.
EnsureReuses(m) ==
  /\ AtClaim(m)
  /\ \E r \in Existing(m) :
       /\ ~r.term
       /\ op' = [op EXCEPT ![m] = IF r.id \in young
                                    THEN [Idle EXCEPT !.pc = "await", !.wt = op[m].wt,
                                                      !.id = r.id]
                                    ELSE Idle]
  /\ registry' = Kept(m)
  /\ Quiet /\ Recorded /\ UNCHANGED <<lock, counts, uses, crashes>>

\* Mistake: the lock is released between the start and the write that records it.
EnsureSpawnsUnlocked(m) ==
  /\ AtClaim(m) /\ Existing(m) = {} /\ Cardinality(Kept(m)) < SharedServers
  /\ Len(starts) < MaxStarts
  /\ \E port \in Ports, pid \in Pids :
       /\ Allocated(op[m].wt, Kept(m), port)
       /\ proc[pid] = Nobody
       /\ starts' = Append(starts, [wt |-> op[m].wt, port |-> port, pid |-> pid])
       /\ proc' = [proc EXCEPT ![pid] = Len(starts) + 1]
  /\ young' = young \cup {Len(starts) + 1}
  /\ op' = [op EXCEPT ![m].pc = "spawned", ![m].id = Len(starts) + 1, ![m].own = TRUE]
  /\ Recorded /\ UNCHANGED <<registry, serving, lock, counts, uses, crashes>>

EnsureSpawns(m) ==
  /\ AtClaim(m) /\ Existing(m) = {} /\ Cardinality(Kept(m)) < SharedServers
  /\ Len(starts) < MaxStarts
  /\ \E port \in Ports, pid \in Pids :
       /\ Allocated(op[m].wt, Kept(m), port)
       /\ proc[pid] = Nobody
       /\ starts' = Append(starts, [wt |-> op[m].wt, port |-> port, pid |-> pid])
       /\ proc' = [proc EXCEPT ![pid] = Len(starts) + 1]
  /\ young' = young \cup {Len(starts) + 1}
  /\ lock' = m
  /\ op' = [op EXCEPT ![m].pc = "spawned", ![m].id = Len(starts) + 1, ![m].own = TRUE]
  /\ Recorded /\ UNCHANGED <<registry, serving, counts, uses, crashes>>

RecordStart(m) ==
  /\ op[m].pc = "spawned"
  /\ registry' = Kept(m) \cup {Fresh(op[m].id)}
  /\ lock' = NoManager
  /\ op' = [op EXCEPT ![m].pc = "await", ![m].gone = {}, ![m].cond = {}]
  /\ Quiet /\ Recorded /\ UNCHANGED <<counts, uses, crashes>>

\* writeMap failed: the map says what it said, and the start is stopped.
RecordFails(m) ==
  /\ op[m].pc = "spawned"
  /\ lock' = NoManager
  /\ op' = [op EXCEPT ![m].pc = "discard", ![m].gone = {}, ![m].cond = {}]
  /\ Quiet /\ Recorded /\ UNCHANGED <<registry, counts, uses, crashes>>

-----------------------------------------------------------------------------
(***************************************************************************)
(* The end of ensure: awaitReady, childProcess.stop and forget.            *)
(***************************************************************************)
Ready(m) ==
  /\ op[m].pc = "await" /\ Listening(starts[op[m].id].port)
  /\ op' = [op EXCEPT ![m] = Idle]
  /\ Quiet /\ Recorded /\ UNCHANGED <<registry, lock, counts, uses, crashes>>

\* Another's start is its starter's to clean up.
NotReady(m) ==
  /\ op[m].pc = "await"
  /\ op' = [op EXCEPT ![m] = IF op[m].own THEN [@ EXCEPT !.pc = "stop"] ELSE Idle]
  /\ Quiet /\ Recorded /\ UNCHANGED <<registry, lock, counts, uses, crashes>>

StopConfirmed(m) ==
  /\ op[m].pc \in {"stop", "discard"} /\ ~Alive(op[m].id)
  /\ op' = [op EXCEPT ![m] = IF op[m].pc = "stop" THEN [@ EXCEPT !.pc = "forget"] ELSE Idle]
  /\ Quiet /\ Recorded /\ UNCHANGED <<registry, lock, counts, uses, crashes>>

\* Neither SIGTERM nor SIGKILL was seen to end it: a record, if any, stays.
StopUnconfirmed(m) ==
  /\ op[m].pc \in {"stop", "discard"} /\ Alive(op[m].id)
  /\ op' = [op EXCEPT ![m] = Idle]
  /\ lost' = IF op[m].pc = "discard" THEN lost \cup {op[m].id} ELSE lost
  /\ Quiet /\ UNCHANGED <<registry, lock, counts, uses, crashes, condemned, signalled, settled>>

\* Mistake: the record is matched by its worktree and its port.
ForgetsPort(r, started) ==
  /\ starts[r.id].wt = starts[started.id].wt
  /\ starts[r.id].port = starts[started.id].port

\* The record is matched whole, as it was when it was claimed.
Forgets(r, started) == r = started

Forget(m) ==
  /\ op[m].pc = "forget" /\ lock = NoManager
  /\ registry' = {r \in registry : ~Forgets(r, Fresh(op[m].id))}
  /\ op' = [op EXCEPT ![m] = Idle]
  /\ settled' = settled \cup {op[m].id}
  /\ Quiet /\ UNCHANGED <<lock, counts, uses, crashes, condemned, signalled, lost>>

\* The two seconds of the cleanup context were spent waiting for the lock.
ForgetFails(m) ==
  /\ op[m].pc = "forget"
  /\ op' = [op EXCEPT ![m] = Idle]
  /\ Quiet /\ Recorded /\ UNCHANGED <<registry, lock, counts, uses, crashes>>

\* The manager is killed: the system drops its flock, its children live on.
Crash(m) ==
  /\ crashes < MaxCrashes /\ crashes' = crashes + 1
  /\ op[m].pc # "idle"
  /\ lost' = IF op[m].pc \in {"spawned", "discard"} THEN lost \cup {op[m].id} ELSE lost
  /\ lock' = IF lock = m THEN NoManager ELSE lock
  /\ op' = [op EXCEPT ![m] = Idle]
  /\ counts' = [counts EXCEPT ![m] = {}]
  /\ Quiet /\ UNCHANGED <<registry, uses, condemned, signalled, settled>>

-----------------------------------------------------------------------------
(***************************************************************************)
(* The processes.                                                          *)
(***************************************************************************)
Managing == UNCHANGED <<registry, starts, lock, op, counts, uses, crashes, condemned,
                        signalled, lost, settled>>

\* A gopls binds its port, if nobody else has.
Binds(g) ==
  /\ Alive(g) /\ ~Listening(starts[g].port)
  /\ serving' = serving \cup {g}
  /\ Managing /\ UNCHANGED <<proc, young>>

\* It exits, of itself or because it was told to.
Dies(g) ==
  /\ Alive(g)
  /\ proc' = [proc EXCEPT ![starts[g].pid] = Nobody]
  /\ serving' = serving \ {g}
  /\ Managing /\ UNCHANGED young

\* startGrace is over.  The clock is not tied to readyTimeout: a slow write or a slow
\* lock may eat the difference between the two.
GraceEnds(g) ==
  /\ g \in young
  /\ young' = young \ {g}
  /\ Managing /\ UNCHANGED <<proc, serving>>

\* The system gives a free pid to an unrelated process.
PidReused(p) ==
  /\ proc[p] = Nobody
  /\ proc' = [proc EXCEPT ![p] = Stranger]
  /\ Managing /\ UNCHANGED <<serving, young>>

StrangerExits(p) ==
  /\ proc[p] = Stranger
  /\ proc' = [proc EXCEPT ![p] = Nobody]
  /\ Managing /\ UNCHANGED <<serving, young>>

-----------------------------------------------------------------------------
Step(m) ==
  \/ Flush(m) \/ SweepSnapshot(m) \/ Probe(m) \/ CommitTerminating(m) \/ Signal(m)
  \/ Abandon(m) \/ SweepEnd(m)
  \/ EnsureRefused(m) \/ EnsureReuses(m) \/ EnsureSpawns(m) \/ RecordStart(m) \/ RecordFails(m)
  \/ Ready(m) \/ NotReady(m) \/ StopConfirmed(m) \/ StopUnconfirmed(m)
  \/ Forget(m) \/ ForgetFails(m) \/ Crash(m)

Next ==
  \/ \E m \in Managers : Step(m)
  \/ \E m \in Managers, w \in Worktrees : Used(m, w) \/ EnsureSnapshot(m, w)
  \/ \E g \in 1 .. Len(starts) : Binds(g) \/ Dies(g) \/ GraceEnds(g)
  \/ \E p \in Pids : PidReused(p) \/ StrangerExits(p)

Spec == Init /\ [][Next]_vars
=============================================================================
