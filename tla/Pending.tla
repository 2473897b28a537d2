------------------------------ MODULE Pending -------------------------------
(***************************************************************************)
(* Which worktrees have a call pending (pending.go): every manager mirrors *)
(* its upstream operations in a file of its own, written off the hot path, *)
(* and a sweep of any manager reads all of them just before it condemns a  *)
(* server (maintenance.go).  One worktree.  A manager may crash, leave and *)
(* be started again under the same pid; a write may fail.                  *)
(***************************************************************************)
EXTENDS Integers, FiniteSets, FiniteSetsExt

CONSTANTS
    Managers,    \* manager processes, by pid
    Sweepers,    \* bound: the managers that sweep
    Callers,     \* bound: the managers that have calls
    Calls,       \* operation keys of a manager
    pendingFresh,       \* pendingFresh
    MaxClock,    \* bound: the clock
    MaxCrashes,  \* bound: managers killed
    MaxFailures  \* bound: writes of the file that fail

\* What MCMaintenance assumes of the constants.
PendingAssumption ==
    /\ IsFiniteSet(Managers) /\ Sweepers \cup Callers \subseteq Managers /\ IsFiniteSet(Calls)
    /\ pendingFresh \in Nat \ {0} /\ MaxClock \in Nat \ {0} /\ MaxCrashes \in Nat /\ MaxFailures \in Nat

VARIABLES
    clock,
    running,   \* the processes there are
    ops,       \* pendingCalls.ops: call -> its start, 0 when it is not pending
    owing,     \* an update has changed ops and not yet signalled it
    dirty,     \* pendingCalls.dirty: a publish is owed
    publisher, \* publishPending: what it does, and the value it writes
    file,      \* the manager's file: the newest start it holds, or 0
    check,     \* busyWorktrees of a sweep
    stale,     \* history: the file was not written, or was struck by another manager
    held,      \* history: calls a check should spare the worktree for
    hidden,    \* history: managers that began a newer call while a check went on
    crashes, failures

daemonVars == <<ops, owing, dirty, publisher>>
vars == <<clock, running, daemonVars, file, check, stale, held, hidden, crashes, failures>>

Idle == [phase |-> "idle", value |-> 0]
NoCheck == [phase |-> "idle", now |-> 0, left |-> {}, gone |-> {}, busy |-> FALSE]
None == [c \in Calls |-> 0]

Init ==
    /\ clock = 1 /\ running = Managers
    /\ ops = [m \in Managers |-> None]
    /\ owing = [m \in Managers |-> FALSE] /\ dirty = [m \in Managers |-> FALSE]
    /\ publisher = [m \in Managers |-> Idle] /\ file = [m \in Managers |-> 0]
    /\ check = [m \in Managers |-> NoCheck]
    /\ stale = [m \in Managers |-> FALSE] /\ held = [m \in Managers |-> {}]
    /\ hidden = [m \in Managers |-> {}]
    /\ crashes = 0 /\ failures = 0

\* pendingCalls.newest of the worktree, 0 when nothing is pending.
newest(m) == Max({ops[m][c] : c \in Calls} \cup {0})

Tick ==
    /\ clock < MaxClock /\ clock' = clock + 1
    /\ UNCHANGED <<running, daemonVars, file, check, stale, held, hidden, crashes, failures>>

-----------------------------------------------------------------------------
\* The mirror of one manager's operations.

\* beginPending: under the router's lock, so one update at a time.
Begin(m, c) ==
    /\ m \in running \cap Callers /\ ~owing[m] /\ ops[m][c] = 0
    /\ ops' = [ops EXCEPT ![m][c] = clock] /\ owing' = [owing EXCEPT ![m] = TRUE]
    /\ hidden' = [s \in Managers |-> IF check[s].phase # "idle" /\ check[s].now < clock
                                    THEN hidden[s] \cup {m} ELSE hidden[s]]
    /\ UNCHANGED <<clock, running, dirty, publisher, file, check, stale, held, crashes, failures>>

\* endPending.
End(m, c) ==
    /\ m \in running /\ ~owing[m] /\ ops[m][c] # 0
    /\ ops' = [ops EXCEPT ![m][c] = 0] /\ owing' = [owing EXCEPT ![m] = TRUE]
    /\ held' = [s \in Managers |-> held[s] \ {<<m, c>>}]
    /\ UNCHANGED <<clock, running, dirty, publisher, file, check, stale, hidden, crashes, failures>>

\* update's second half: the slot is filled, or was full.
Owe(m) ==
    /\ owing[m] /\ owing' = [owing EXCEPT ![m] = FALSE] /\ dirty' = [dirty EXCEPT ![m] = TRUE]
    /\ UNCHANGED <<clock, running, ops, publisher, file, check, stale, held, hidden, crashes, failures>>

\* publishPending takes the debt before it reads what is pending.
PublishTakes(m) ==
    /\ m \in running /\ publisher[m].phase = "idle" /\ dirty[m]
    /\ dirty' = [dirty EXCEPT ![m] = FALSE]
    /\ publisher' = [publisher EXCEPT ![m].phase = "taken"]
    /\ UNCHANGED <<clock, running, ops, owing, file, check, stale, held, hidden, crashes, failures>>

PublishReads(m) ==
    /\ publisher[m].phase = "taken"
    /\ publisher' = [publisher EXCEPT ![m] = [phase |-> "writing", value |-> newest(m)]]
    /\ UNCHANGED <<clock, running, ops, owing, dirty, file, check, stale, held, hidden, crashes, failures>>

\* Mistake: the debt is paid when the file is written, whatever came since.
SettledByWriting(m) == [dirty EXCEPT ![m] = FALSE]

\* writePending renames a whole new file into place, or removes the old one.
Written(m) == [file EXCEPT ![m] = publisher[m].value]

\* What a write leaves of the debt: whatever came after it was taken.
Settled(m) == dirty

PublishWrites(m) ==
    /\ publisher[m].phase = "writing" /\ publisher' = [publisher EXCEPT ![m] = Idle]
    /\ \/ file' = Written(m) /\ stale' = [stale EXCEPT ![m] = FALSE] /\ UNCHANGED failures
       \/ /\ failures < MaxFailures /\ failures' = failures + 1
          /\ stale' = [stale EXCEPT ![m] = TRUE] /\ UNCHANGED file
    /\ dirty' = Settled(m)
    /\ UNCHANGED <<clock, running, ops, owing, check, held, hidden, crashes>>

-----------------------------------------------------------------------------
\* Processes.

Gone(m) ==
    /\ running' = running \ {m}
    /\ ops' = [ops EXCEPT ![m] = None] /\ owing' = [owing EXCEPT ![m] = FALSE]
    /\ dirty' = [dirty EXCEPT ![m] = FALSE] /\ publisher' = [publisher EXCEPT ![m] = Idle]
    /\ check' = [check EXCEPT ![m] = NoCheck]
    /\ held' = [s \in Managers |-> IF s = m THEN {} ELSE {h \in held[s] : h[1] # m}]
    /\ UNCHANGED <<clock, stale, hidden>>

\* The context ends: publishPending removes its file on the way out.
Leave(m) ==
    /\ m \in running /\ publisher[m].phase = "idle"
    /\ file' = [file EXCEPT ![m] = 0] /\ Gone(m) /\ UNCHANGED <<crashes, failures>>

\* The process is killed, and its file stays.
Crash(m) ==
    /\ m \in running /\ crashes < MaxCrashes /\ crashes' = crashes + 1
    /\ Gone(m) /\ UNCHANGED <<file, failures>>

\* A manager is started under the pid; it has yet to publish anything.
Restart(m) ==
    /\ m \notin running /\ running' = running \cup {m} /\ stale' = [stale EXCEPT ![m] = TRUE]
    /\ UNCHANGED <<clock, daemonVars, file, check, held, hidden, crashes, failures>>

-----------------------------------------------------------------------------
\* busyWorktrees, asked by manager s just before a verdict.

\* Mistake: only what has been pending for a while counts.
ProtectsOld(start, now) == start > 0 /\ start < now

\* mark: an operation of that start makes the worktree busy; one that lies in the
\* future protects nothing.
Protects(start, now) == start > 0 /\ start <= now /\ now - start < pendingFresh

\* Call c of m is pending, and s can know of it when it reads the clock.
KnownTo(s, m, c) ==
    /\ Protects(ops[m][c], clock)
    /\ m = s \/ (file[m] = ops[m][c] /\ ~dirty[m] /\ ~owing[m] /\ publisher[m] = Idle)

Known(s) == {h \in running \X Calls : KnownTo(s, h[1], h[2])}

\* The clock is read, and nothing else.
CheckStarts(s) ==
    /\ s \in running /\ check[s].phase = "idle"
    /\ check' = [check EXCEPT ![s] = [NoCheck EXCEPT !.phase = "own", !.now = clock]]
    /\ held' = [held EXCEPT ![s] = Known(s)] /\ hidden' = [hidden EXCEPT ![s] = {}]
    /\ UNCHANGED <<clock, running, daemonVars, file, stale, crashes, failures>>

\* Its own operations, then the listing.
CheckLists(s) ==
    /\ check[s].phase = "own"
    /\ check' = [check EXCEPT ![s].phase = "files", ![s].busy = Protects(newest(s), check[s].now),
                              ![s].left = {m \in Managers \ {s} : file[m] # 0}]
    /\ UNCHANGED <<clock, running, daemonVars, file, stale, held, hidden, crashes, failures>>

\* A process answers to the pid, the manager or one that has it by now: its file
\* is read, if it is still there.
CheckReads(s, m) ==
    /\ check[s].phase = "files" /\ m \in check[s].left
    /\ check' = [check EXCEPT ![s].left = @ \ {m},
                              ![s].busy = @ \/ Protects(file[m], check[s].now)]
    /\ UNCHANGED <<clock, running, daemonVars, file, stale, held, hidden, crashes, failures>>

\* The pid is gone: the file is removed next.
CheckMisses(s, m) ==
    /\ check[s].phase = "files" /\ m \in check[s].left /\ m \notin running
    /\ check' = [check EXCEPT ![s].phase = "strike", ![s].left = @ \ {m}, ![s].gone = {m}]
    /\ UNCHANGED <<clock, running, daemonVars, file, stale, held, hidden, crashes, failures>>

\* os.Remove, and by now a manager may run under that pid again.
CheckStrikes(s, m) ==
    /\ check[s].phase = "strike" /\ m \in check[s].gone
    /\ check' = [check EXCEPT ![s].phase = "files", ![s].gone = {}]
    /\ file' = [file EXCEPT ![m] = 0]
    /\ stale' = [stale EXCEPT ![m] = @ \/ m \in running]
    /\ held' = [t \in Managers |-> {h \in held[t] : h[1] # m}]
    /\ UNCHANGED <<clock, running, daemonVars, hidden, crashes, failures>>

\* The verdict.
CheckEnds(s) ==
    /\ check[s].phase = "files" /\ check[s].left = {}
    /\ check' = [check EXCEPT ![s].phase = IF check[s].busy THEN "spared" ELSE "condemned"]
    /\ UNCHANGED <<clock, running, daemonVars, file, stale, held, hidden, crashes, failures>>

CheckLeaves(s) ==
    /\ check[s].phase \in {"spared", "condemned"} /\ check' = [check EXCEPT ![s] = NoCheck]
    /\ held' = [held EXCEPT ![s] = {}] /\ hidden' = [hidden EXCEPT ![s] = {}]
    /\ UNCHANGED <<clock, running, daemonVars, file, stale, crashes, failures>>

-----------------------------------------------------------------------------

Mirror(m) ==
    \/ \E c \in Calls : Begin(m, c) \/ End(m, c)
    \/ Owe(m) \/ PublishTakes(m) \/ PublishReads(m) \/ PublishWrites(m)

Check(s) ==
    \/ CheckStarts(s) \/ CheckLists(s) \/ CheckEnds(s) \/ CheckLeaves(s)
    \/ \E m \in Managers : CheckReads(s, m) \/ CheckMisses(s, m) \/ CheckStrikes(s, m)

Next ==
    \/ Tick
    \/ \E m \in Managers : Mirror(m) \/ Leave(m) \/ Crash(m) \/ Restart(m)
    \/ \E s \in Sweepers : Check(s)

Spec == Init /\ [][Next]_vars

-----------------------------------------------------------------------------
\* Properties.

\* At rest the file says what is pending: however updates and writes interleave, no
\* change is lost between the slot and the file (update, publishPending).
MirrorCatchesUp ==
    \A m \in running :
        publisher[m].phase = "idle" /\ ~dirty[m] /\ ~owing[m] /\ ~stale[m] => file[m] = newest(m)

Condemned(s) == check[s].phase = "condemned"

\* A server is not condemned over a call that was pending, fresh and known when the
\* clock was read, is pending still, and is in no file struck meanwhile - unless a newer
\* call, which the same manager began after the clock was read, hides it: its start lies
\* in the future of the check and protects nothing, and newest() is all a manager tells
\* (pending.go:149-155).
KnownCallSpares ==
    \A s \in Managers : Condemned(s) => \A h \in held[s] : h[1] \in hidden[s]

\* What is pending reaches the file, and what a file says protects.
PendingProtects == MirrorCatchesUp /\ KnownCallSpares
=============================================================================
