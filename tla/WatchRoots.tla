----------------------------- MODULE WatchRoots -----------------------------
(***************************************************************************)
(* What a manager remembers of the roots it told a gopls to watch          *)
(* (watchroots.go), how it gets there (bridge.go, answerRoots) and how     *)
(* maintenance uses it (maintenance.go).  One worktree and one manager:    *)
(* its lane dials one connection after another, each connection asks for   *)
(* the roots, one worker walks the tree, and a sweep condemns the gopls    *)
(* that missed a change.  The tree is its one partial directory.           *)
(***************************************************************************)
EXTENDS Integers, FiniteSets

CONSTANTS
    Names,       \* entries of the partial directory that come and go
    Docs,        \* the subdirectory a rule may exclude; always there
    MaxServers,  \* bound: gopls processes started for the worktree, one at a time
    Legacies,    \* bound: the choices of Legacy
    MaxConns,    \* bound: connections dialled
    MaxAsks,     \* bound: roots/list requests
    MaxChanges   \* bound: changes of the tree

Servers == 1..MaxServers

ASSUME WatchAssumption ==
    /\ IsFiniteSet(Names) /\ Docs \notin Names
    /\ MaxServers \in Nat \ {0} /\ Legacies \subseteq SUBSET Servers
    /\ MaxConns \in Nat /\ MaxAsks \in Nat /\ MaxChanges \in Nat

VARIABLES
    Legacy,   \* servers whose record has no start: of unknown identity; never changes
    now,      \* the clock: every reading of it is later than the one before
    tree,     \* which of Names the partial directory holds
    filtered, \* the rules in force exclude Docs
    changes,  \* bound: how often the tree changed
    record,   \* the worktree's record in the map, or NoRecord
    started,  \* how many servers were started
    edited,   \* servers that started before the last edit of a module file
    gen,      \* the last connection dialled
    open,     \* it is open
    serves,   \* connection -> the server it was dialled to
    job,      \* connection -> its pending roots/list
    worker,   \* the connection the planning worker walks for, or 0
    plan,     \* watchPlans.plans of the worktree, or NoPlan
    sweep,    \* the maintenance sweep
    first     \* history: the plan first remembered for a server

connVars == <<gen, open, serves>>
treeVars == <<tree, filtered, changes, edited>>
vars == <<Legacy, now, treeVars, record, started, connVars, job, worker, plan, sweep, first>>

NoRecord == [id |-> 0, at |-> 0, terminating |-> FALSE]
NoRoots == [partial |-> FALSE, names |-> {}]
NoPlan == [roots |-> NoRoots, planned |-> 0, taken |-> 0, server |-> -1]
NoJob == [phase |-> "idle", at |-> 0, roots |-> NoRoots]
NoSweep == [phase |-> "idle", rec |-> NoRecord, snap |-> NoPlan, usedUp |-> FALSE]
Unset == [partial |-> TRUE, names |-> {Docs}]  \* no first plan yet: none holds this

\* record.server, serverID.known: the identity of a server, 0 when it is unknown.
Identity(s) == IF s \in Legacy THEN 0 ELSE s

\* time.Time.Unix: two readings of the clock fall into one second.
Second(t) == t \div 2

Init ==
    /\ Legacy \in Legacies
    /\ now = 1 /\ tree = {} /\ filtered \in BOOLEAN /\ changes = 0
    /\ record = NoRecord /\ started = 0 /\ edited = {}
    /\ gen = 0 /\ open = FALSE /\ serves = [g \in 1..MaxConns |-> 0]
    /\ job = [g \in 1..MaxConns |-> NoJob] /\ worker = 0
    /\ plan = NoPlan /\ sweep = NoSweep
    /\ first = [s \in Servers |-> Unset]

-----------------------------------------------------------------------------
\* The tree, its servers and the lane's connections.

\* relevantNames of the partial directory under the rules in force.
Relevant == IF filtered THEN tree ELSE tree \cup {Docs}

\* Mistake: the names are listed without asking the filter.
planWatchUnfiltered == [partial |-> filtered, names |-> IF filtered THEN tree \cup {Docs} ELSE {}]

\* planWatch: with nothing excluded the root is the worktree, and nothing is partial.
planWatch == [partial |-> filtered, names |-> IF filtered THEN Relevant ELSE {}]

\* An entry of the directory appears or goes.
ChangeTree(n) ==
    /\ changes < MaxChanges /\ changes' = changes + 1
    /\ tree' = IF n \in tree THEN tree \ {n} ELSE tree \cup {n}
    /\ UNCHANGED <<now, filtered, edited, record, started, connVars, job, worker, plan, sweep, first>>

\* A module file is edited, which may add or drop an ignore directive.
EditModule ==
    /\ changes < MaxChanges /\ changes' = changes + 1
    /\ filtered' \in BOOLEAN /\ edited' = 1..started
    /\ UNCHANGED <<now, tree, record, started, connVars, job, worker, plan, sweep, first>>

\* ensure starts a server where no record is left.
StartServer ==
    /\ record = NoRecord /\ started < MaxServers
    /\ started' = started + 1 /\ now' = now + 1
    /\ record' = [id |-> started', at |-> IF started' \in Legacy THEN 0 ELSE now, terminating |-> FALSE]
    /\ UNCHANGED <<treeVars, connVars, job, worker, plan, sweep, first>>

\* The server exits, of itself or signalled, and a sweep drops its record.
ServerExits ==
    /\ record # NoRecord /\ record' = NoRecord
    /\ UNCHANGED <<now, treeVars, started, connVars, job, worker, plan, sweep, first>>

\* dialGopls: the connection knows which server ensure vouched for.
Dial ==
    /\ ~open /\ gen < MaxConns /\ record # NoRecord /\ ~record.terminating
    /\ gen' = gen + 1 /\ open' = TRUE /\ serves' = [serves EXCEPT ![gen'] = record.id]
    /\ UNCHANGED <<now, treeVars, record, started, job, worker, plan, sweep, first>>

\* The lane gives its connection up, which ends the lifetime of everything on it.
Close ==
    /\ open /\ open' = FALSE
    /\ UNCHANGED <<now, treeVars, record, started, gen, serves, job, worker, plan, sweep, first>>

\* ctx.Err() = nil of an answer to connection g.
Live(g) == open /\ g = gen

-----------------------------------------------------------------------------
\* answerRoots and the planning worker.

\* planRoots is entered; the time of admission orders the plans.
Ask(g) ==
    /\ Live(g) /\ job[g].phase = "idle" /\ now < MaxServers + 2 * MaxAsks  \* bound
    /\ job' = [job EXCEPT ![g] = [NoJob EXCEPT !.phase = "queued", !.at = now]]
    /\ now' = now + 1
    /\ UNCHANGED <<treeVars, record, started, connVars, worker, plan, sweep, first>>

\* The worker takes a job, and leaves one alone whose caller has gone.
Take(g) ==
    /\ worker = 0 /\ job[g].phase = "queued" /\ Live(g)
    /\ worker' = g /\ job' = [job EXCEPT ![g].phase = "planning"]
    /\ UNCHANGED <<now, treeVars, record, started, connVars, plan, sweep, first>>

\* The walk is done; the reply is buffered, whoever waits for it.
Walk(g) ==
    /\ worker = g /\ worker' = 0
    /\ IF job[g].phase = "planning"
       THEN job' = [job EXCEPT ![g].phase = "walked", ![g].roots = planWatch]
       ELSE UNCHANGED job
    /\ UNCHANGED <<now, treeVars, record, started, connVars, plan, sweep, first>>

Receive(g) ==
    /\ job[g].phase = "walked" /\ Live(g)
    /\ job' = [job EXCEPT ![g].phase = "planned"]
    /\ UNCHANGED <<now, treeVars, record, started, connVars, worker, plan, sweep, first>>

\* The 30 s of the answer are over, or the connection is: the caller leaves, the
\* connection is closed, and the reply stays where it is.
Expire(g) ==
    /\ job[g].phase \in {"queued", "planning", "walked"}
    /\ job' = [job EXCEPT ![g].phase = "failed"]
    /\ open' = (open /\ g # gen)
    /\ UNCHANGED <<now, treeVars, record, started, gen, serves, worker, plan, sweep, first>>

Pinned(id) == id # 0 /\ plan.server = id

\* Mistake: a later answer of the same server replaces its first.
SupersededByAge(id, at) == plan # NoPlan /\ plan.planned > at

\* rememberWatch keeps the plan it has: it is this server's, or a newer one.
Superseded(id, at) == plan # NoPlan /\ (Pinned(id) \/ plan.planned > at)

\* rememberWatch: what an answer leaves remembered.
Remembered(id, j) ==
    IF Superseded(id, j.at) THEN plan
    ELSE IF ~j.roots.partial /\ id = 0 THEN NoPlan
    ELSE [roots |-> j.roots, planned |-> j.at, taken |-> now, server |-> id]

Remember(g) ==
    LET id == Identity(serves[g]) IN
    /\ job[g].phase = "planned"
    /\ plan' = Remembered(id, job[g])
    /\ first' = IF first[serves[g]] # Unset THEN first
                ELSE [first EXCEPT ![serves[g]] = job[g].roots]
    /\ job' = [job EXCEPT ![g].phase = "remembered"] /\ now' = now + 1
    /\ UNCHANGED <<treeVars, record, started, connVars, worker, sweep>>

\* The answer is written, or the connection is closed.  A server that did not get
\* it keeps the plan that was remembered for it.
Reply(g) ==
    /\ job[g].phase = "remembered"
    /\ \/ /\ Live(g) /\ record.id = serves[g]
          /\ job' = [job EXCEPT ![g] = NoJob] /\ UNCHANGED open
       \/ /\ job' = [job EXCEPT ![g].phase = "failed"]
          /\ open' = (open /\ g # gen)
    /\ UNCHANGED <<now, treeVars, record, started, gen, serves, worker, plan, sweep, first>>

-----------------------------------------------------------------------------
\* Maintenance.

\* partialChanged: other names, or a module file edited since r started.
Differs(r, snap) ==
    snap.roots.partial /\ (Relevant # snap.roots.names \/ (r.at # 0 /\ r.id \in edited))

\* Mistake: the snapshot in the map judges whichever server runs now.
DescribesAny(snap, r) == snap # NoPlan

\* watchChanged: only a snapshot of r's own server describes r's watcher.
Describes(snap, r) ==
    /\ snap # NoPlan
    /\ IF Identity(r.id) # 0 /\ snap.server # 0
       THEN snap.server = Identity(r.id)
       ELSE Second(snap.taken) >= Second(r.at)

\* watchChanged, under its lock: the snapshot that judges the record.
SweepCopies ==
    /\ sweep.phase = "idle" /\ record # NoRecord /\ ~record.terminating
    /\ Describes(plan, record)
    /\ sweep' = [NoSweep EXCEPT !.phase = "copied", !.rec = record, !.snap = plan]
    /\ UNCHANGED <<now, treeVars, record, started, connVars, job, worker, plan, first>>

\* watchChanged reads the directory with no lock held; the worktree is not busy.
SweepCondemns ==
    /\ sweep.phase = "copied" /\ Differs(sweep.rec, sweep.snap)
    /\ sweep' = [sweep EXCEPT !.phase = "condemned"]
    /\ UNCHANGED <<now, treeVars, record, started, connVars, job, worker, plan, first>>

\* Nothing changed, a call is pending or fresh, or the server is in its start grace.
SweepSpares ==
    /\ sweep.phase = "copied" /\ sweep' = NoSweep
    /\ UNCHANGED <<now, treeVars, record, started, connVars, job, worker, plan, first>>

\* Mistake: the change is used up although the server stays.
LeavesAnyway(kept, r) == TRUE

\* forgetCondemned: r is not among the records the sweep kept.
Leaves(kept, r) == ~(kept.id = r.id /\ ~kept.terminating)

\* The verdict is committed: the record is marked terminating if it is still the
\* one that was probed.  A sweep that fails proves nothing.
SweepTerminates ==
    /\ sweep.phase = "condemned"
    /\ record' = IF record = sweep.rec THEN [record EXCEPT !.terminating = TRUE] ELSE record
    /\ \E failed \in BOOLEAN :
        sweep' = [sweep EXCEPT !.phase = "committed",
                               !.usedUp = ~failed /\ Leaves(record', sweep.rec)]
    /\ UNCHANGED <<now, treeVars, started, connVars, job, worker, plan, first>>

\* The identity check could not answer, or the record changed under the probe.
SweepKeeps ==
    /\ sweep.phase = "condemned"
    /\ \E failed \in BOOLEAN :
        sweep' = [sweep EXCEPT !.phase = "committed",
                               !.usedUp = ~failed /\ Leaves(record, sweep.rec)]
    /\ UNCHANGED <<now, treeVars, record, started, connVars, job, worker, plan, first>>

\* forgetWatch: the snapshot goes unless a newer one replaced it.
SweepForgets ==
    /\ sweep.phase = "committed" /\ sweep' = NoSweep
    /\ plan' = IF sweep.usedUp /\ plan.taken = sweep.snap.taken THEN NoPlan ELSE plan
    /\ UNCHANGED <<now, treeVars, record, started, connVars, job, worker, first>>

-----------------------------------------------------------------------------

ServeRoots == \E g \in 1..MaxConns :
    Ask(g) \/ Take(g) \/ Walk(g) \/ Receive(g) \/ Expire(g) \/ Remember(g) \/ Reply(g)

Sweep == SweepCopies \/ SweepCondemns \/ SweepSpares \/ SweepTerminates \/ SweepKeeps \/ SweepForgets

Next ==
    /\ UNCHANGED Legacy
    /\ \/ \E n \in Names : ChangeTree(n)
       \/ EditModule \/ StartServer \/ ServerExits \/ Dial \/ Close
       \/ ServeRoots \/ Sweep

\* Sweeps come back on a timer and end; a worktree is not busy at every one of
\* them, nor is every verdict uncertain.
Runs(A) == A /\ UNCHANGED Legacy
Fairness ==
    /\ WF_vars(Runs(SweepCopies)) /\ WF_vars(Runs(SweepSpares)) /\ WF_vars(Runs(SweepForgets))
    /\ SF_vars(Runs(SweepCondemns)) /\ SF_vars(Runs(SweepTerminates /\ sweep'.usedUp))

Spec == Init /\ [][Next]_vars
FairSpec == Spec /\ Fairness

-----------------------------------------------------------------------------
\* Properties.

\* An excluded directory is never among the names, and a plan without an
\* exclusion has none.
Roots == [partial : {TRUE}, names : SUBSET Names] \cup {NoRoots}
Records == [id : 0..MaxServers, at : Nat, terminating : BOOLEAN]
Plans == [roots : Roots, planned : Nat, taken : Nat, server : -1..MaxServers]

TypeOK ==
    /\ now \in Nat /\ tree \in SUBSET Names /\ filtered \in BOOLEAN /\ changes \in 0..MaxChanges
    /\ record \in Records /\ started \in 0..MaxServers /\ edited \in SUBSET Servers
    /\ gen \in 0..MaxConns /\ open \in BOOLEAN
    /\ serves \in [1..MaxConns -> 0..MaxServers]
    /\ job \in [1..MaxConns -> [phase : {"idle", "queued", "planning", "walked", "planned", "remembered", "failed"},
                                at : Nat, roots : Roots]]
    /\ worker \in 0..MaxConns /\ plan \in Plans
    /\ sweep \in [phase : {"idle", "copied", "condemned", "committed"}, rec : Records,
                  snap : Plans, usedUp : BOOLEAN]
    /\ first \in [Servers -> Roots \cup {Unset}]
    /\ plan # NoPlan => plan.planned < plan.taken /\ plan.taken < now

\* The server of record r has missed something no root of its first answer covers.
Missed(r) ==
    /\ r.id # 0 /\ first[r.id] # Unset
    /\ Differs(r, [NoPlan EXCEPT !.roots = first[r.id]])

Running == record.id \notin Legacy /\ record # NoRecord /\ ~record.terminating

\* A change the running server missed is there for the next sweep to find, however
\* many connections asked again since, whatever plan of an earlier server came in
\* late and whichever sweep has spared it (rememberWatch, forgetWatch).
MissedIsFound == Running /\ Missed(record) => Describes(plan, record) /\ Differs(record, plan)

\* What is remembered is a plan of the past, and what judges the running server is its own.
SnapshotsSound == TypeOK /\ MissedIsFound

\* A server is condemned for a change it missed itself: never for what its
\* predecessor's snapshot says, and never twice for one change (watchChanged).
\* Only a snapshot of unknown identity, told apart by when it was taken, may.
CondemnsOwnMiss ==
    [][ (sweep.phase = "copied" /\ sweep'.phase = "condemned")
        => \/ Missed(sweep.rec)
           \/ sweep.snap.server = 0 /\ Second(sweep.snap.taken) >= Second(sweep.rec.at) ]_vars

\* A server that goes on missing a change is restarted in the end: a sweep that
\* spared it has not used the change up (forgetCondemned).
MissedIsRestarted ==
    \A s \in Servers :
        (Running /\ record.id = s /\ Missed(record)) ~> ~(Running /\ record.id = s /\ Missed(record))
=============================================================================
