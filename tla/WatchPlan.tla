----------------------------- MODULE WatchPlan ------------------------------
(***************************************************************************)
(* The roots a gopls is told to watch (watchroots.go): the rules of go.mod *)
(* and the environment, which directories they exclude, the directories    *)
(* that cover the rest and the partial directories no root covers.  A plan *)
(* is made for one tree; the tree then grows and shrinks, and watchChanged *)
(* compares the partial directories with what they held.  A path is the    *)
(* sequence of its segments, the worktree the empty one.                   *)
(***************************************************************************)
EXTENDS Integers, Sequences, SequencesExt

CONSTANTS
    Dirs,       \* bound: the directories that may exist below the worktree
    Names,      \* the segments of their paths
    Stars,        \* the segment "**" of a rule
    Patterns,   \* bound: the paths of the rules
    MaxRules,   \* bound: rules of the environment
    Ignores,    \* bound: the ignore directives a module file may hold
    MaxIgnores, \* bound: ignore directives
    MaxGrowth   \* bound: directories that appear or go after the plan

\* What MCMaintenance assumes of the constants.
PlanAssumption ==
    /\ Stars \notin Names /\ IsFiniteSet(Dirs) /\ Dirs \subseteq Seq(Names) \ {<<>>}
    /\ \A d \in Dirs : Len(d) = 1 \/ Front(d) \in Dirs
    /\ Patterns \subseteq Seq(Names \cup {Stars})
    /\ \A g \in Ignores : g.module \in Seq(Names) /\ g.relative \in BOOLEAN
                          /\ g.path \in Seq(Names) \ {<<>>}
    /\ MaxRules \in Nat /\ MaxIgnores \in Nat /\ MaxGrowth \in Nat

VARIABLES
    tree,     \* the directories there are, but for those gopls' watcher skips
    closed,   \* the directory that could not be read when the plan was made
    ignores,  \* the ignore directives of the worktree's modules, in order
    global,   \* the rules of the environment
    plan,     \* the plan, or Unplanned
    before,   \* history: the tree the plan was made for
    growth    \* bound: how often the tree changed since

vars == <<tree, closed, ignores, global, plan, before, growth>>

Worktree == <<>>
Below(d, r) == IsPrefix(r, d)

-----------------------------------------------------------------------------
\* The rules.

\* pathIncludeFunc's pattern: ends[i] is how many segments of d the first i of p take.
\* It is anchored at the worktree unless it begins with "**"; any other "**" takes one
\* segment or more; the end is free.
MatchesRule(p, d) ==
    \E ends \in [1..Len(p) -> 0..Len(d)] : \A i \in 1..Len(p) :
        LET begin == IF i = 1 THEN 0 ELSE ends[i - 1]
        IN  IF p[i] = Stars THEN i = 1 \/ ends[i] > begin
                            ELSE ends[i] = begin + 1 /\ p[i] = d[ends[i]]

\* pathIncludeFunc: the last rule that matches decides.
Include(R, d) ==
    LET matching == {i \in DOMAIN R : MatchesRule(R[i].path, d)}
    IN  matching = {} \/ R[CHOOSE i \in matching : \A j \in matching : j <= i].plus

\* Mistake: only the directory a rule names is worth a look.
MayIncludeNamed(R, d) ==
    \E i \in DOMAIN R : /\ R[i].plus
                        /\ \/ R[i].path = <<>> \/ Stars \in Range(R[i].path)
                           \/ R[i].path = d

\* newDirFilter.mayInclude: a + rule may include d or something below it.
MayInclude(R, d) ==
    \E i \in DOMAIN R : /\ R[i].plus
                        /\ \/ R[i].path = <<>> \/ Stars \in Range(R[i].path)
                           \/ Below(R[i].path, d)

Minus(p) == [plus |-> FALSE, path |-> p]

\* Mistake: "dir/**/pattern" is taken to cover dir/pattern.
IgnoreRulesDeep(g) ==
    IF g.relative THEN << Minus(g.module \o g.path) >>
    ELSE << Minus(g.module \o <<Stars>> \o g.path) >>

\* moduleIgnoreFilters: the rules of one ignore directive.
IgnoreRules(g) ==
    IF g.relative THEN << Minus(g.module \o g.path) >>
    ELSE IF g.module = Worktree THEN << Minus(<<Stars>> \o g.path) >>
    ELSE << Minus(g.module \o g.path), Minus(g.module \o <<Stars>> \o g.path) >>

moduleIgnoreFilters == FlattenSeq([i \in DOMAIN ignores |-> IgnoreRules(ignores[i])])

Rules == moduleIgnoreFilters \o global

-----------------------------------------------------------------------------
\* The walk.

Kids(t, d) == {k \in t : Len(k) = Len(d) + 1 /\ Below(k, d)}

\* Mistake: an excluded directory records the included subdirectories alone.
relevantNamesIncluded(t, R, d, files) == {k \in Kids(t, d) : Include(R, k)}

\* Mistake: every subdirectory is news.
relevantNamesAll(t, R, d, files) == Kids(t, d)

\* relevantNames, worthListing: the subdirectories whose coming and going counts.
relevantNames(t, R, d, files) ==
    {k \in Kids(t, d) : Include(R, k) \/ (~files /\ MayInclude(R, k))}

Unread == [clean |-> TRUE, roots |-> {}, partial |-> {}]

\* Mistake: the clean children are roots although their parent is clean as well.
WalkedEager(t, R, d, files, of) ==
    LET inner == {k \in DOMAIN of : Include(R, k)}
        clean == files /\ inner = Kids(t, d) /\ \A k \in inner : of[k].clean
    IN  [clean   |-> clean,
         roots   |-> (UNION {of[k].roots : k \in DOMAIN of}) \cup {k \in inner : of[k].clean},
         partial |-> (UNION {of[k].partial : k \in DOMAIN of}) \cup
                     IF clean THEN {} ELSE {[dir |-> d, files |-> files, names |-> relevantNames(t, R, d, files)]}]

\* planner.walk (files) and walkExcluded, given what they returned of the children:
\* a directory with nothing excluded below it is clean, any other is partial.
Walked(t, R, d, files, of) ==
    LET inner == {k \in DOMAIN of : Include(R, k)}
        clean == files /\ inner = Kids(t, d) /\ \A k \in inner : of[k].clean
    IN  IF clean THEN Unread
        ELSE [clean   |-> FALSE,
              roots   |-> (UNION {of[k].roots : k \in DOMAIN of}) \cup {k \in inner : of[k].clean},
              partial |-> (UNION {of[k].partial : k \in DOMAIN of}) \cup
                          {[dir |-> d, files |-> files, names |-> relevantNames(t, R, d, files)]}]

\* The walk of a directory of t, of an included one or the worktree (TRUE) or of an
\* excluded one.  One of shut cannot be read, and counts as clean or adds nothing.
walk(t, shut, R) ==
    LET of[x \in (Dirs \cup {Worktree}) \X BOOLEAN] ==
            LET d == x[1]
                seen == {k \in Kids(t, d) : Include(R, k) \/ MayInclude(R, k)}
            IN  IF d \in shut THEN Unread
                ELSE Walked(t, R, d, x[2], [k \in seen |-> of[<<k, Include(R, k)>>]])
    IN  of

planWatch(t, shut, R) ==
    LET top == walk(t, shut, R)[<<Worktree, TRUE>>]
    IN  IF R = <<>> \/ top.clean
        THEN [roots |-> {Worktree}, partial |-> {}]
        ELSE [roots |-> top.roots, partial |-> top.partial]

Unplanned == [roots |-> {}, partial |-> {}]

\* partialChanged: a partial directory that can be read holds other names.
Changed ==
    \E e \in plan.partial :
        /\ e.dir \in tree \cup {Worktree}
        /\ relevantNames(tree, Rules, e.dir, e.files) # e.names

-----------------------------------------------------------------------------

Trees == {t \in SUBSET Dirs : \A d \in t : Len(d) = 1 \/ Front(d) \in t}
RuleSet == [plus : BOOLEAN, path : Patterns]
UpTo(S, n) == UNION {[1..k -> S] : k \in 0..n}

Init ==
    /\ tree \in Trees /\ closed \in {{}} \cup {{d} : d \in tree}
    /\ ignores \in UpTo(Ignores, MaxIgnores) /\ global \in UpTo(RuleSet, MaxRules)
    /\ plan = Unplanned /\ before = {} /\ growth = 0

Plan ==
    /\ plan = Unplanned
    /\ plan' = planWatch(tree, closed, Rules) /\ before' = tree
    /\ UNCHANGED <<tree, closed, ignores, global, growth>>

\* A directory appears, with those above it.
Appear(d) ==
    /\ plan # Unplanned /\ growth < MaxGrowth /\ closed = {}
    /\ d \notin tree /\ tree' = tree \cup {k \in Dirs : Below(d, k)} /\ growth' = growth + 1
    /\ UNCHANGED <<closed, ignores, global, plan, before>>

Vanish(d) ==
    /\ plan # Unplanned /\ growth < MaxGrowth /\ closed = {}
    /\ d \in tree /\ tree' = {k \in tree : ~Below(k, d)} /\ growth' = growth + 1
    /\ UNCHANGED <<closed, ignores, global, plan, before>>

Next == Plan \/ \E d \in Dirs : Appear(d) \/ Vanish(d)

Spec == Init /\ [][Next]_vars

-----------------------------------------------------------------------------
\* Properties.  The unread directory stands for one that may hold anything.

Fresh == plan # Unplanned /\ growth = 0
Covered(d) == \E r \in plan.roots : Below(d, r)
Readable(d) == \A c \in closed : d = c \/ ~Below(d, c)

\* gopls watches no excluded directory and every included one: a directory lies
\* below a root, or is partial with its own files counted, if and only if the rules
\* include it, however deep below an excluded one it lies (walk, walkExcluded).
CoversTheIncluded ==
    Fresh => \A d \in {k \in tree : Readable(k)} :
        /\ Include(Rules, d) <=> Covered(d) \/ (\E e \in plan.partial : e.dir = d /\ e.files)
                                 \/ (d \in closed /\ Include(Rules, d))
        /\ ~(Covered(d) /\ \E e \in plan.partial : e.dir = d)

\* SPEC.md, S1a: the roots are the smallest set of directories that does this: none
\* lies below another, and to watch the parent of one is to watch an excluded tree.
RootsAreFewest ==
    Fresh => \A r \in plan.roots \ {Worktree} :
        /\ \A q \in plan.roots : Below(r, q) => q = r
        /\ \E d \in tree : Below(d, Front(r)) /\ ~Include(Rules, d)

Came == (tree \ before) \cup (before \ tree)

\* The highest directory that came or went with d.
Top(d) == CHOOSE k \in Came : Below(d, k) /\ \A j \in Came : Below(d, j) => Below(j, k)
Own(d) == d = Worktree \/ Include(Rules, d)

\* An included directory that came or went where no root covers it is noticed, in
\* an excluded directory as well as in an included one (relevantNames) - unless it
\* came inside a new excluded directory of an included one, of which the code lists
\* no name (watchroots.go:368): that change goes unnoticed.
UncoveredIsNoticed ==
    plan # Unplanned =>
        \A d \in Came : /\ Include(Rules, d) /\ ~Covered(Front(d))
                       /\ (Own(Front(Top(d))) => Include(Rules, Top(d)))
                       => Changed

\* Nothing else condemns a server: neither what happens below a root, which gopls
\* sees itself, nor a directory no + rule can reach (worthListing).
OnlyUncoveredIsNoticed ==
    Changed => \E d \in Came : ~Covered(Front(d)) /\ (Include(Rules, d) \/ MayInclude(Rules, d))

\* cmd/go's reading of a directive: "./dir" is relative to its module, a bare path
\* names every directory of that path at any depth below it.
Ignored(g, d) ==
    IF g.relative THEN Below(d, g.module \o g.path)
    ELSE /\ Below(d, g.module)
         /\ \E k \in Len(g.module)..Len(d) - Len(g.path) :
                SubSeq(d, k + 1, k + Len(g.path)) = g.path

\* The rules made of ignore directives exclude what cmd/go ignores and no more
\* (moduleIgnoreFilters).
IgnoresAsCmdGo ==
    global = <<>> => \A d \in Dirs :
        Include(Rules, d) <=> \A i \in DOMAIN ignores : ~Ignored(ignores[i], d)

\* The plan does what the rules say and the rules what the directives say, with the
\* fewest roots (SPEC.md, S1a).
PlanAsRuled == CoversTheIncluded /\ RootsAreFewest /\ IgnoresAsCmdGo

\* A change is noticed when no root covers it, and only then.
NoticedIffUncovered == UncoveredIsNoticed /\ OnlyUncoveredIsNoticed
=============================================================================
