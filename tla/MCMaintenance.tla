--------------------------- MODULE MCMaintenance ----------------------------
(***************************************************************************)
(* What a sweep judges by: what each server was told to watch, the pending *)
(* files, the open-file budget and the rules its plan was made from.  They *)
(* share no state, so a behaviour is one of a single part of them.         *)
(***************************************************************************)
EXTENDS WatchRoots, Sequences

CONSTANTS
    \* of Pending
    Managers, Sweepers, Callers, Calls, pendingFresh, MaxClock, MaxCrashes, MaxFailures,
    \* of Eviction: its Inputs, Files and Budgets, and evictionWindow
    RecordLists, OpenFiles, Budgets, evictionWindow,
    \* of WatchPlan: Segments are its Names
    Dirs, Segments, Stars, Patterns, MaxRules, Ignores, MaxIgnores, MaxGrowth

VARIABLES
    part,  \* "watch", "pending", "eviction" or "plan"; never changes
    clock, running, ops, owing, dirty, publisher, file, check, stale, held, hidden,
    crashes, failures,
    records, files, budget, verdict,
    pTree, closed, ignores, global, pPlan, before, growth

pendingVars == <<clock, running, ops, owing, dirty, publisher, file, check, stale, held,
                 hidden, crashes, failures>>
evictionVars == <<records, files, budget, verdict>>
planVars == <<pTree, closed, ignores, global, pPlan, before, growth>>

\* The first server may be one whose record names no start.
MCLegacies == {{}, {1}}

-----------------------------------------------------------------------------
\* Three records over up to three processes.

Kinds == { <<1, FALSE, FALSE>>, <<-1, FALSE, FALSE>>, <<0, FALSE, FALSE>>, <<1, TRUE, FALSE>> }

\* Frequency and last use.
Uses == {<<1, 2>>, <<2, 1>>}

MCRecord(p, f, u, k) ==
    [pid |-> p, frequency |-> f, usedAt |-> u, age |-> k[1], busy |-> k[2], terminating |-> k[3]]

MCOf(p) == {MCRecord(p, x[1][1], x[1][2], x[2]) : x \in Uses \X Kinds}

MCInputs ==
    LET shapes == {<<1, 1, 1>>, <<1, 1, 2>>, <<1, 2, 1>>, <<1, 2, 2>>, <<1, 2, 3>>}
        lists(s) == {<<x, y, z>> : x \in MCOf(s[1]), y \in MCOf(s[2]), z \in MCOf(s[3])}
        leaving == MCRecord(1, 1, 1, <<1, FALSE, TRUE>>)
    IN  UNION {lists(s) : s \in shapes}
        \cup {<<leaving, r>> : r \in MCOf(1) \cup MCOf(2)} \cup {<<r, leaving>> : r \in MCOf(1) \cup MCOf(2)}

-----------------------------------------------------------------------------
\* Two names, three levels, every shape of rule.

MCDirs == {<<"a">>, <<"a", "a">>, <<"a", "b">>, <<"a", "b", "a">>, <<"b">>, <<"b", "a">>}
MCPatterns ==
    {<<>>, <<"a">>, <<"a", "b">>, <<"a", "b", "a">>, <<"**", "a">>, <<"**", "b">>, <<"a", "**", "a">>}
MCIgnores ==
    { [module |-> <<>>, relative |-> TRUE, path |-> <<"a", "b">>],
      [module |-> <<>>, relative |-> FALSE, path |-> <<"a">>],
      [module |-> <<>>, relative |-> FALSE, path |-> <<"b", "a">>],
      [module |-> <<"a">>, relative |-> TRUE, path |-> <<"a">>],
      [module |-> <<"a">>, relative |-> FALSE, path |-> <<"a">>] }

-----------------------------------------------------------------------------
P == INSTANCE Pending
E == INSTANCE Eviction WITH Inputs <- RecordLists, Files <- OpenFiles
W == INSTANCE WatchPlan WITH Names <- Segments, tree <- pTree, plan <- pPlan

ASSUME MaintenanceAssumption == P!PendingAssumption /\ E!EvictionAssumption /\ W!PlanAssumption

NoRecords == records = <<>> /\ files = <<>> /\ budget = 1 /\ verdict = E!Unjudged
NoRules == /\ pTree = {} /\ closed = {} /\ ignores = <<>> /\ global = <<>>
           /\ pPlan = W!Unplanned /\ before = {} /\ growth = 0

MCInit ==
    /\ part \in {"watch", "pending", "eviction", "plan"}
    /\ Init /\ P!Init
    /\ part # "watch" => Legacy = {} /\ filtered
    /\ IF part = "eviction" THEN E!Init ELSE NoRecords
    /\ IF part = "plan" THEN W!Init ELSE NoRules

MCNext ==
    /\ UNCHANGED part
    /\ \/ part = "watch" /\ Next /\ UNCHANGED <<pendingVars, evictionVars, planVars>>
       \/ part = "pending" /\ P!Next /\ UNCHANGED <<vars, evictionVars, planVars>>
       \/ part = "eviction" /\ E!Next /\ UNCHANGED <<vars, pendingVars, planVars>>
       \/ part = "plan" /\ W!Next /\ UNCHANGED <<vars, pendingVars, evictionVars>>

\* Without a server no sweep has anything to do, so fairness asks nothing of the others.
MCSpec ==
    MCInit /\ [][MCNext]_<<part, vars, pendingVars, evictionVars, planVars>> /\ Fairness

-----------------------------------------------------------------------------
\* Of Pending: what is pending reaches the file, and protects (pending.go).
PendingProtects == P!PendingProtects

\* Of Eviction: who goes when the open files are over budget (overBudget).
EvictionSound == E!EvictionSound

\* Of WatchPlan: the roots are what the rules and directives include (planWatch).
PlanAsRuled == W!PlanAsRuled

\* Of WatchPlan: a change is noticed when no root covers it, and only then
\* (relevantNames, partialChanged).
NoticedIffUncovered == W!NoticedIffUncovered
=============================================================================
