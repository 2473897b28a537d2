----------------------------- MODULE Eviction -------------------------------
(***************************************************************************)
(* Which servers the open-file budget costs (maintenance.go, overBudget):  *)
(* the least frequently used, until the rest fits; a process that several  *)
(* records describe counts once, and is spared if any of them is.          *)
(***************************************************************************)
EXTENDS Integers, Sequences, FiniteSets, FiniteSetsExt, SequencesExt

CONSTANTS
    Inputs,         \* bound: the record lists to judge
    Files,          \* bound: the numbers of files lsof may count for a process
    Budgets,        \* bound: Limits.OpenFiles
    evictionWindow  \* the age below which a server is spared

\* What MCMaintenance assumes of the constants.
EvictionAssumption ==
    /\ evictionWindow \in Nat \ {0} /\ Files \subseteq Nat /\ Budgets \subseteq Nat
    /\ Inputs \subseteq Seq([pid : Int, frequency : Nat, usedAt : Nat, age : Int,
                             busy : BOOLEAN, terminating : BOOLEAN])

VARIABLES
    records,  \* the records of the map: pid, aged frequency, last use, age, and flags
    files,    \* pid -> the open files lsof counted, 0 when it did not list the pid
    budget,
    verdict   \* the victims in order and the total left, or Unjudged

vars == <<records, files, budget, verdict>>

Pids == {records[i].pid : i \in DOMAIN records}
Aliases(p) == {i \in DOMAIN records : records[i].pid = p}

\* The sum of f over S.
SumOver(f, S) == MapThenSumSet(LAMBDA x : f[x], S)

Total(P) == SumOver(files, P)

\* Mistake: the first record of a process speaks for all.
SparedByFirst(p) ==
    LET r == records[Min(Aliases(p))]
    IN  r.terminating \/ r.busy \/ files[p] = 0 \/ (r.age >= 0 /\ r.age < evictionWindow)

\* A process is spared if any record of it is leaving, busy or new, or if it has
\* nothing to give back.  A start in the future is no new server.
Spared(p) ==
    \/ files[p] = 0
    \/ \E i \in Aliases(p) : \/ records[i].terminating \/ records[i].busy
                             \/ records[i].age >= 0 /\ records[i].age < evictionWindow

\* Mistake: the coldest record of a process ranks it.
RankColdest(p) ==
    LET best == {i \in Aliases(p) : \A j \in Aliases(p) : records[i].frequency <= records[j].frequency}
    IN  Min(best)

\* byPID: the first of the hottest records ranks the process.
Rank(p) ==
    LET best == {i \in Aliases(p) : \A j \in Aliases(p) : records[i].frequency >= records[j].frequency}
    IN  Min(best)

\* The order of the candidates: frequency, last use, and where the process comes first.
Colder(p, q) ==
    LET r == records[Rank(p)]
        s == records[Rank(q)]
    IN  \/ r.frequency < s.frequency
        \/ r.frequency = s.frequency /\ r.usedAt < s.usedAt
        \/ r.frequency = s.frequency /\ r.usedAt = s.usedAt /\ Min(Aliases(p)) <= Min(Aliases(q))

Movable == {p \in Pids : ~Spared(p)}

\* S in the order R: the k-th member has k at or before it.
InOrder(S, R) ==
    [k \in 1..Cardinality(S) |-> CHOOSE x \in S : Cardinality({y \in S : <<y, x>> \in R}) = k]

\* The coldest first.
candidates == InOrder(Movable, {x \in Movable \X Movable : Colder(x[1], x[2])})

\* What is left once the first n candidates are gone.
Left(n) == Total(Pids) - Total({candidates[i] : i \in 1..n})

\* Mistake: one process more than the budget needs.
FitsBelow(n) == Left(n) < budget

Fits(n) == Left(n) <= budget

\* overBudget: the shortest run of candidates after which the rest fits.
overBudget ==
    LET enough == {n \in 0..Len(candidates) : Fits(n)} \cup {Len(candidates)}
        n == Min(enough)
    IN  [victims |-> SubSeq(candidates, 1, n), left |-> Left(n)]

Unjudged == [victims |-> <<>>, left |-> -1]

Init ==
    /\ records \in Inputs /\ budget \in Budgets
    /\ files \in [Pids -> Files] /\ verdict = Unjudged

Judge ==
    /\ verdict = Unjudged /\ verdict' = overBudget
    /\ UNCHANGED <<records, files, budget>>

Next == Judge

Spec == Init /\ [][Next]_vars

-----------------------------------------------------------------------------
\* Properties.

Judged == verdict # Unjudged
Victims == ToSet(verdict.victims)

\* No process dies of which any record is busy, new or leaving, and none that is no
\* help (overBudget's spared).
SparesAliases ==
    Judged => \A i \in DOMAIN records :
        records[i].pid \in Victims =>
            /\ ~records[i].busy /\ ~records[i].terminating /\ files[records[i].pid] > 0
            /\ records[i].age < 0 \/ records[i].age >= evictionWindow

\* The rest fits the budget, unless nothing more may go; the last victim was needed;
\* and no process is counted twice (total).
JustEnough ==
    Judged =>
        /\ verdict.left = Total(Pids \ Victims)
        /\ verdict.left > budget => \A p \in Pids \ Victims : Spared(p)
        /\ verdict.victims # <<>> => verdict.left + files[Last(verdict.victims)] > budget

\* A process that stays although it could go is used at least as often as every
\* victim, by its best record (byPID, SortStableFunc).
Hottest(p) == Max({records[i].frequency : i \in Aliases(p)})
ColdestGoFirst ==
    Judged => \A v \in Victims, p \in Pids \ Victims :
        ~Spared(p) => Hottest(v) <= Hottest(p)

\* The victims are the coldest, just enough, and never a process somebody needs.
EvictionSound == SparesAliases /\ JustEnough /\ ColdestGoFirst
=============================================================================
