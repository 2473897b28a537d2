-------------------------------- MODULE Paths --------------------------------
(***************************************************************************)
(* How a tool call finds its worktree (paths.go, routing.go): two memos    *)
(* that expire together, one worker that may touch the file system, a      *)
(* goroutine that waits for it within a budget, and the router, which      *)
(* alone commits routes.  In a stdio session one goroutine is both; the    *)
(* HTTP backend has a coordinator that waits while warm calls pass.        *)
(***************************************************************************)
EXTENDS Integers, Sequences, FiniteSets

CONSTANTS
    PathNames,    \* absolute path arguments
    Dirs,         \* physical directories
    Trees,        \* worktrees
    Home,         \* the worktree the router was started in
    None,         \* no worktree, no memo entry, no sticky worktree
    Clients,      \* bound: what a router serves, see Stateless, CacheEntries and Calls
    ColdQueue,    \* capacity of the resolution queue
    MaxEpochs,    \* bound: memo epochs
    MaxMoves      \* bound: changes of the file system

ASSUME PathsAssumption ==
    /\ Home \in Trees /\ None \notin Trees
    /\ \A c \in Clients : /\ c.stateless \in BOOLEAN /\ c.cache \in Nat \ {0}
                         /\ c.calls \in Seq(Seq(PathNames))
    /\ ColdQueue \in Nat \ {0} /\ MaxEpochs \in Nat /\ MaxMoves \in Nat

VARIABLES
    client,      \* the kind of router there is and what it is asked; never changes
    \* the file system
    dirOf,       \* containingDir of each path: its physical directory
    treeOf,      \* the worktree git names for a directory, or None
    moves,
    \* the memos
    paths,       \* router.paths: path -> [tree, dir]
    worktrees,   \* router.worktrees: directory -> worktree
    generation,  \* memo.generation
    due,         \* memo.expires is zero or has passed
    \* the worker
    job,
    \* routing
    taken,       \* calls the router has taken
    cold,        \* calls waiting for the coordinator (HTTP)
    ask,         \* resolveWorktrees: the call it works for, how far, what it found
    routing,     \* the call the router has committed and not yet spelled
    sticky,
    routed,      \* history: where each call went
    \* history: what the file system has shown since the epoch began
    dirsSeen, treesSeen

fsVars == <<dirOf, treeOf, moves>>
memoVars == <<paths, worktrees, generation, due, dirsSeen, treesSeen>>
routeVars == <<taken, cold, ask, routing, sticky, routed>>
vars == <<client, fsVars, memoVars, job, routeVars>>

Stateless == client.stateless  \* the HTTP backend's router
CacheEntries == client.cache   \* Limits.CacheEntries
Calls == client.calls          \* the path arguments of each tool call, in wire order

NoCall == 0
CallIds == DOMAIN Calls
Idle == [call |-> NoCall, pc |-> "idle", found |-> <<>>]
NoJob == [call |-> NoCall, pc |-> "idle", alive |-> FALSE, todo |-> <<>>, found |-> <<>>,
          gen |-> 0, dir |-> None, tree |-> None]
Unrouted == [how |-> "none", tree |-> None, named |-> {}]

Init ==
    /\ client \in Clients
    /\ dirOf \in [PathNames -> Dirs] /\ treeOf \in [Dirs -> Trees \cup {None}] /\ moves = 0
    /\ paths = << >> /\ worktrees = << >> /\ generation = 0 /\ due = TRUE
    /\ job = NoJob
    /\ taken = 0 /\ cold = <<>> /\ ask = Idle /\ routing = NoCall /\ sticky = None
    /\ routed = [c \in CallIds |-> Unrouted]
    /\ dirsSeen = [p \in PathNames |-> {}] /\ treesSeen = [d \in Dirs |-> {}]

-----------------------------------------------------------------------------
\* The file system: a link is retargeted, a worktree is added or removed.

Retarget ==
    /\ moves < MaxMoves
    /\ \E p \in PathNames, d \in Dirs :
        /\ d # dirOf[p]
        /\ dirOf' = [dirOf EXCEPT ![p] = d]
        /\ dirsSeen' = [dirsSeen EXCEPT ![p] = @ \cup {d}]
    /\ moves' = moves + 1
    /\ UNCHANGED <<treeOf, paths, worktrees, generation, due, treesSeen, job, routeVars>>

Reown ==
    /\ moves < MaxMoves
    /\ \E d \in Dirs, t \in Trees \cup {None} :
        /\ t # treeOf[d]
        /\ treeOf' = [treeOf EXCEPT ![d] = t]
        /\ treesSeen' = [treesSeen EXCEPT ![d] = @ \cup {t}]
    /\ moves' = moves + 1
    /\ UNCHANGED <<dirOf, paths, worktrees, generation, due, dirsSeen, job, routeVars>>

-----------------------------------------------------------------------------
\* The memos.  Each operator is one critical section of memoMu.

Tick ==
    /\ ~due /\ generation < MaxEpochs
    /\ due' = TRUE
    /\ UNCHANGED <<fsVars, paths, worktrees, generation, dirsSeen, treesSeen, job, routeVars>>

pathsNow == IF due THEN << >> ELSE paths
worktreesNow == IF due THEN << >> ELSE worktrees
generationNow == IF due THEN generation + 1 ELSE generation

\* expireMemosLocked, and the maps its caller leaves behind.
expireMemos(P, W) ==
    /\ paths' = P /\ worktrees' = W
    /\ generation' = generationNow /\ due' = FALSE
    /\ dirsSeen' = IF due THEN [p \in PathNames |-> {dirOf[p]}] ELSE dirsSeen
    /\ treesSeen' = IF due THEN [d \in Dirs |-> {treeOf[d]}] ELSE treesSeen

expireOnly == expireMemos(pathsNow, worktreesNow)

\* cache[key] = value.
Put(cache, key, value) ==
    [k \in DOMAIN cache \cup {key} |-> IF k = key THEN value ELSE cache[k]]

\* Mistake: a full cache is cleared only once it has overflowed.
memoizeLate(cache, key, value) ==
    IF key \notin DOMAIN cache /\ Cardinality(DOMAIN cache) > CacheEntries
    THEN Put(<< >>, key, value) ELSE Put(cache, key, value)

\* A new key clears a cache that is full.
memoize(cache, key, value) ==
    IF key \notin DOMAIN cache /\ Cardinality(DOMAIN cache) >= CacheEntries
    THEN Put(<< >>, key, value) ELSE Put(cache, key, value)

\* A metrics snapshot sweeps idle memos.
Sweep == due /\ expireOnly /\ UNCHANGED <<fsVars, job, routeVars>>

WithoutRepeats(found, tree) ==
    IF tree = None \/ \E i \in DOMAIN found : found[i] = tree THEN found ELSE Append(found, tree)

\* cachedWorktrees: every argument is in the memo, and what it names.
Cached(c) == \A i \in DOMAIN Calls[c] : Calls[c][i] \in DOMAIN pathsNow
CachedTrees(c) ==
    LET upto[i \in 0..Len(Calls[c])] ==
            IF i = 0 THEN <<>> ELSE WithoutRepeats(upto[i - 1], pathsNow[Calls[c][i]].tree)
    IN  upto[Len(Calls[c])]

-----------------------------------------------------------------------------
\* The worker: pathResolver.run, toolCallWorktrees, worktreeOf.

WorkerStep(j) == job' = j /\ UNCHANGED <<fsVars, routeVars>>

\* worktreeOf's verbatim lookup; a job whose context is done looks up no more.
LookUp ==
    /\ job.pc = "paths" /\ job.todo # <<>> /\ job.alive
    /\ expireOnly
    /\ LET p == Head(job.todo) IN
       \/ /\ p \in DOMAIN pathsNow
          /\ WorkerStep([job EXCEPT !.todo = Tail(@),
                            !.found = WithoutRepeats(@, pathsNow[p].tree)])
       \/ /\ p \notin DOMAIN pathsNow
          /\ WorkerStep([job EXCEPT !.pc = "dir", !.gen = generationNow])

\* containingDir, without the lock.
Contain ==
    /\ job.pc = "dir"
    /\ WorkerStep([job EXCEPT !.pc = "tree", !.dir = dirOf[Head(job.todo)]])
    /\ UNCHANGED memoVars

\* The directory memo, which is read without expiring it first.
LookUpDir ==
    /\ job.pc = "tree"
    /\ IF job.dir \in DOMAIN worktrees
       THEN WorkerStep([job EXCEPT !.pc = "store", !.tree = worktrees[job.dir]])
       ELSE WorkerStep([job EXCEPT !.pc = "git"])
    /\ UNCHANGED memoVars

Without(j) == [j EXCEPT !.pc = "paths", !.todo = Tail(@), !.dir = None, !.tree = None, !.gen = 0]

\* Mistake: a directory of no worktree is remembered as such.
GitMemoizesNone ==
    /\ job.pc = "git"
    /\ WorkerStep([job EXCEPT !.pc = "store", !.tree = treeOf[job.dir]])
    /\ UNCHANGED memoVars

\* worktreeOfDir: git answers, or it fails, always so where there is no worktree.
Git ==
    /\ job.pc = "git"
    /\ \/ /\ treeOf[job.dir] # None
          /\ WorkerStep([job EXCEPT !.pc = "store", !.tree = treeOf[job.dir]])
       \/ WorkerStep(Without(job))
    /\ UNCHANGED memoVars

\* Mistake: the answer is stored although the epoch turned meanwhile.
StoreAnyEpoch ==
    /\ job.pc = "store"
    /\ IF job.alive
       THEN expireMemos(memoize(pathsNow, Head(job.todo), [tree |-> job.tree, dir |-> job.dir]),
                        memoize(worktreesNow, job.dir, job.tree))
       ELSE expireOnly
    /\ WorkerStep([Without(job) EXCEPT !.found = WithoutRepeats(@, job.tree)])

\* Both memos take the answer, unless its epoch or its caller's patience is over.
Store ==
    /\ job.pc = "store"
    /\ IF job.alive /\ job.gen = generationNow
       THEN expireMemos(memoize(pathsNow, Head(job.todo), [tree |-> job.tree, dir |-> job.dir]),
                        memoize(worktreesNow, job.dir, job.tree))
       ELSE expireOnly
    /\ WorkerStep([Without(job) EXCEPT !.found = WithoutRepeats(@, job.tree)])

\* The reply: buffered, and read by nobody once the caller has given up.
WorkerReplies ==
    /\ job.pc = "paths" /\ (job.todo = <<>> \/ ~job.alive)
    /\ job' = NoJob
    /\ ask' = IF job.alive THEN [ask EXCEPT !.pc = "done", !.found = job.found] ELSE ask
    /\ UNCHANGED <<fsVars, memoVars, taken, cold, routing, sticky, routed>>

Worker == LookUp \/ Contain \/ LookUpDir \/ Git \/ Store \/ WorkerReplies

-----------------------------------------------------------------------------
\* resolveWorktrees, by whichever goroutine asks.

\* A complete hit needs no worker.
AskCached ==
    /\ ask.pc = "ask"
    /\ expireOnly
    /\ ask' = IF Cached(ask.call)
              THEN [ask EXCEPT !.pc = "done", !.found = CachedTrees(ask.call)]
              ELSE [ask EXCEPT !.pc = "send"]
    /\ UNCHANGED <<fsVars, job, taken, cold, routing, sticky, routed>>

\* The worker takes a job only when it is idle.
Send ==
    /\ ask.pc = "send" /\ job = NoJob
    /\ ask' = [ask EXCEPT !.pc = "wait"]
    /\ job' = [NoJob EXCEPT !.call = ask.call, !.pc = "paths", !.alive = TRUE,
                            !.todo = Calls[ask.call]]
    /\ UNCHANGED <<fsVars, memoVars, taken, cold, routing, sticky, routed>>

\* Mistake: a caller the worker has no time for waits without a budget.
TimeoutOnceSent ==
    /\ ask.pc = "wait"
    /\ ask' = [ask EXCEPT !.pc = "failed"]
    /\ job' = [job EXCEPT !.alive = FALSE]
    /\ UNCHANGED <<fsVars, memoVars, taken, cold, routing, sticky, routed>>

\* The routing budget runs out, for the caller and for the job it sent; it is
\* looked at once more when the answer has come.
Timeout ==
    /\ ask.pc \in {"send", "wait", "done"}
    /\ ask' = [ask EXCEPT !.pc = "failed"]
    /\ job' = IF ask.pc = "wait" THEN [job EXCEPT !.alive = FALSE] ELSE job
    /\ UNCHANGED <<fsVars, memoVars, taken, cold, routing, sticky, routed>>

-----------------------------------------------------------------------------
\* The router.

Fail(c) ==
    /\ routed' = [routed EXCEPT ![c] = [Unrouted EXCEPT !.how = "failed"]]
    /\ UNCHANGED <<routing, sticky>>

\* Mistake: a refused call still moves the sticky worktree.
CommitSticksRefused(c, found) ==
    \/ /\ Len(found) >= 1
       /\ sticky' = IF Stateless THEN sticky ELSE found[1]
       /\ routed' = [routed EXCEPT ![c] =
                        [how |-> IF Len(found) > 1 THEN "failed" ELSE "named",
                         tree |-> IF Len(found) > 1 THEN None ELSE found[1], named |-> {}]]
       /\ routing' = IF Len(found) > 1 THEN routing ELSE c
    \/ /\ Len(found) = 0
       /\ routed' = [routed EXCEPT ![c] =
                        [how |-> "unnamed", named |-> {},
                         tree |-> IF ~Stateless /\ sticky # None THEN sticky ELSE Home]]
       /\ routing' = c
       /\ UNCHANGED sticky

\* targetWorktrees, and routeResolved up to the spelling.  A target is chosen, and
\* kept as the sticky worktree, before the call may still fail: its budget is
\* over, or the worktree has no room for it.
Commit(c, found) ==
    \/ Len(found) > 1 /\ Fail(c)
    \/ /\ Len(found) = 1
       /\ sticky' = IF Stateless THEN sticky ELSE found[1]
       /\ routed' = [routed EXCEPT ![c] = [how |-> "named", tree |-> found[1], named |-> {}]]
       /\ routing' \in {c, NoCall}
    \/ /\ Len(found) = 0
       /\ routed' = [routed EXCEPT ![c] =
                        [how |-> "unnamed", named |-> {},
                         tree |-> IF ~Stateless /\ sticky # None THEN sticky ELSE Home]]
       /\ routing' \in {c, NoCall}
       /\ UNCHANGED sticky

\* A session's router resolves each call itself, in wire order; the backend's
\* routes what the memo knows and leaves the rest to the coordinator.
TakeCall ==
    LET c == taken + 1 IN
    /\ routing = NoCall /\ taken < Len(Calls)
    /\ taken' = c
    /\ \/ /\ ~Stateless /\ ask.pc = "idle"
          /\ ask' = [Idle EXCEPT !.call = c, !.pc = "ask"]
          /\ UNCHANGED <<memoVars, cold, routing, sticky, routed>>
       \/ /\ Stateless
          /\ expireOnly
          /\ \/ Cached(c) /\ Commit(c, CachedTrees(c)) /\ UNCHANGED <<ask, cold>>
             \/ /\ ~Cached(c) /\ Len(cold) < ColdQueue
                /\ cold' = Append(cold, c)
                /\ UNCHANGED <<ask, routing, sticky, routed>>
             \/ ~Cached(c) /\ Len(cold) >= ColdQueue /\ Fail(c) /\ UNCHANGED <<ask, cold>>
    /\ UNCHANGED <<fsVars, job>>

TakeCold ==
    /\ ask.pc = "idle" /\ cold # <<>>
    /\ ask' = [Idle EXCEPT !.call = Head(cold), !.pc = "ask"]
    /\ cold' = Tail(cold)
    /\ UNCHANGED <<fsVars, memoVars, job, taken, routing, sticky, routed>>

\* The resolution reaches the router.
TakeResolved ==
    /\ routing = NoCall /\ ask.pc \in {"done", "failed"}
    /\ IF ask.pc = "done" THEN Commit(ask.call, ask.found) ELSE Fail(ask.call)
    /\ ask' = Idle
    /\ UNCHANGED <<fsVars, memoVars, job, taken, cold>>

\* Mistake: the spelling is resolved again instead of read from the memo.
SpellAnew ==
    /\ routing # NoCall
    /\ routed' = [routed EXCEPT ![routing].named =
                    {[tree |-> treeOf[dirOf[p]], dir |-> dirOf[p]] :
                        p \in {Calls[routing][i] : i \in DOMAIN Calls[routing]}}]
    /\ routing' = NoCall
    /\ UNCHANGED <<fsVars, memoVars, job, taken, cold, ask, sticky>>

\* canonicalToolCall: the memoized spellings, read without expiring the memo.
Spell ==
    /\ routing # NoCall
    /\ routed' = [routed EXCEPT ![routing].named =
                    {paths[p] : p \in {Calls[routing][i] : i \in DOMAIN Calls[routing]}
                                        \cap DOMAIN paths}]
    /\ routing' = NoCall
    /\ UNCHANGED <<fsVars, memoVars, job, taken, cold, ask, sticky>>

Router == TakeCall \/ TakeResolved \/ Spell
Coordinator == TakeCold \/ AskCached \/ Send \/ Timeout

Next ==
    /\ UNCHANGED client
    /\ Retarget \/ Reown \/ Tick \/ Sweep \/ Worker \/ Router \/ Coordinator

\* Budgets expire and goroutines run, but a file system call of the worker may
\* never return.
Fairness == WF_vars(UNCHANGED client /\ Router) /\ WF_vars(UNCHANGED client /\ Coordinator)

Spec == Init /\ [][Next]_vars /\ Fairness

-----------------------------------------------------------------------------
\* Properties.

Entry == [tree : Trees, dir : Dirs]

TypeOK ==
    /\ DOMAIN paths \subseteq PathNames /\ DOMAIN worktrees \subseteq Dirs
    /\ \A p \in DOMAIN paths : paths[p] \in Entry
    /\ \A d \in DOMAIN worktrees : worktrees[d] \in Trees
    /\ ask.pc \in {"idle", "ask", "send", "wait", "done", "failed"}
    /\ job.pc \in {"idle", "paths", "dir", "tree", "git", "store"}
    /\ sticky \in Trees \cup {None}

\* Neither memo ever holds more than its bound (paths.go:171-180).
MemosBounded ==
    /\ Cardinality(DOMAIN paths) <= CacheEntries
    /\ Cardinality(DOMAIN worktrees) <= CacheEntries

\* Whatever a memo holds was true of the file system at some moment since its
\* epoch began: a lookup that straddles the turn stores nothing, and a
\* directory hit cannot renew a stale path (paths.go:26-27, 157-166).
MemoOfThisEpoch ==
    ~due =>
        /\ \A p \in DOMAIN paths :
            /\ paths[p].dir \in dirsSeen[p]
            /\ paths[p].tree \in treesSeen[paths[p].dir]
        /\ \A d \in DOMAIN worktrees : worktrees[d] \in treesSeen[d]

\* The memos keep their bound and their epoch (paths.go:26-53, 157-180).
MemosSound == TypeOK /\ MemosBounded /\ MemoOfThisEpoch

\* A call naming no worktree goes where the last earlier call that named one
\* went - the home worktree if there is none - whatever finished or timed out in
\* between; the HTTP backend always sends it home (routing.go:135-150, 177-181).
UnnamedFollowsNamed ==
    \A c \in CallIds : routed[c].how = "unnamed" =>
        LET named == {e \in 1..c - 1 : routed[e].how = "named"} IN
        routed[c].tree =
            IF Stateless \/ named = {} THEN Home
            ELSE routed[CHOOSE e \in named : \A f \in named : f <= e].tree

\* In a session the spelling a call is forwarded with and the worktree it goes
\* to come from the same resolution: a symlink retargeted in between cannot give
\* one server the other tree's path (paths.go:297-301).  In the HTTP backend it can:
\* between the coordinator's resolution and the router's, a warm call's lookup may
\* expire the memo and another argument fill it anew.
SpellingFollowsRoute ==
    ~Stateless => \A c \in CallIds : routed[c].how = "named" =>
        \A e \in routed[c].named : e.tree = routed[c].tree

\* Every call is routed or failed although the worker may be stuck in a file
\* system call for ever (routing.go:177-181).
EveryCallSettles == <>(\A c \in CallIds : routed[c].how # "none")
=============================================================================
