----------------------------- MODULE PathsProofs -----------------------------
(***************************************************************************)
(* Safety of path resolution and routing, for any paths, directories and   *)
(* worktrees, any calls of any length and any bound of the memos: what the *)
(* memos hold is of their epoch, a call that names nothing follows the     *)
(* last that did, and in a session a call is spelled as it was routed.     *)
(***************************************************************************)
EXTENDS Paths, DataLemmas

-----------------------------------------------------------------------------
\* Data.

\* t is one of the members of the sequence s.
Among(t, s) == \E i \in 1 .. Len(s) : s[i] = t

\* WithoutRepeats adds a worktree, if it is one, and loses none.
LEMMA Added ==
  ASSUME PathsAssumption, NEW s \in Seq(Trees), NEW t \in Trees \cup {None}
  PROVE  /\ WithoutRepeats(s, t) \in Seq(Trees)
         /\ t # None => Among(t, WithoutRepeats(s, t))
         /\ \A u : Among(u, s) => Among(u, WithoutRepeats(s, t))
<1>1. CASE t = None \/ \E i \in DOMAIN s : s[i] = t
  <2>1. WithoutRepeats(s, t) = s  BY <1>1 DEF WithoutRepeats
  <2> QED BY <2>1, <1>1 DEF Among
<1>2. CASE ~(t = None \/ \E i \in DOMAIN s : s[i] = t)
  <2>1. WithoutRepeats(s, t) = Append(s, t) /\ t \in Trees  BY <1>2 DEF WithoutRepeats
  <2>2. /\ Append(s, t) \in Seq(Trees) /\ Len(Append(s, t)) = Len(s) + 1
        /\ Append(s, t)[Len(s) + 1] = t
        /\ \A i \in 1 .. Len(s) : Append(s, t)[i] = s[i]
    BY <2>1
  <2> QED BY <2>1, <2>2 DEF Among
<1> QED BY <1>1, <1>2

\* The worktree the i-th argument of call c is in, as the memo has it.
Named(c, i) == pathsNow[Calls[c][i]].tree

\* There are the worktrees the first i arguments name, in order and without repeats.
LEMMA Collected ==
  ASSUME PathsAssumption, NEW c, NEW n \in Nat, \A i \in 1 .. n : Named(c, i) \in Trees
  PROVE  \E f : /\ f = [i \in 0 .. n |-> IF i = 0 THEN <<>> ELSE WithoutRepeats(f[i - 1], Named(c, i))]
<1> DEFINE Good(m, f) == f = [i \in 0 .. m |-> IF i = 0 THEN <<>> ELSE WithoutRepeats(f[i - 1], Named(c, i))]
<1> DEFINE Bad == {m \in 0 .. n : ~ \E f : Good(m, f)}
<1>1. SUFFICES ASSUME Bad # {} PROVE FALSE
  <2>1. n \notin Bad => \E f : Good(n, f)  OBVIOUS
  <2> QED BY <1>1, <2>1
<1>2. PICK m \in Bad : \A y \in Bad : m <= y
  <2>1. Bad \in SUBSET Nat  OBVIOUS
  <2> HIDE DEF Bad
  <2> QED BY <1>1, <2>1, Least
<1>3. CASE m = 0
  <2> DEFINE g == [i \in 0 .. 0 |-> <<>>]
  <2>1. Good(0, g)  OBVIOUS
  <2> QED BY <2>1, <1>3
<1>4. CASE m # 0
  <2>0. m \in 1 .. n /\ m - 1 \in 0 .. n  BY <1>4
  <2>1. m \in 1 .. n /\ m - 1 \in 0 .. n /\ m - 1 \notin Bad
    <3>1. m - 1 \notin Bad
      <4> HIDE DEF Bad
      <4> QED BY <1>2, <2>0
    <3> QED BY <2>0, <3>1
  <2>2. PICK f : Good(m - 1, f)  BY <2>1
  <2> DEFINE g == [i \in 0 .. m |-> IF i = m THEN WithoutRepeats(f[m - 1], Named(c, m)) ELSE f[i]]
  <2>3. ASSUME NEW i \in 0 .. m
        PROVE  g[i] = IF i = 0 THEN <<>> ELSE WithoutRepeats(g[i - 1], Named(c, i))
    <3>1. CASE i = m  BY <2>1, <3>1
    <3>2. CASE i # m
      <4>1. i \in 0 .. m - 1 /\ g[i] = f[i]  BY <2>1, <3>2
      <4>2. f[i] = IF i = 0 THEN <<>> ELSE WithoutRepeats(f[i - 1], Named(c, i))  BY <2>2, <4>1
      <4>3. CASE i = 0  BY <4>1, <4>2, <4>3
      <4>4. CASE i # 0
        <5>1. i - 1 \in 0 .. m /\ i - 1 # m /\ g[i - 1] = f[i - 1]  BY <2>1, <4>1, <4>4
        <5> QED BY <5>1, <4>1, <4>2, <4>4
      <4> QED BY <4>3, <4>4
    <3> QED BY <3>1, <3>2
  <2>4. Good(m, g)
    <3>1. g = [i \in 0 .. m |-> g[i]]  OBVIOUS
    <3> HIDE DEF g
    <3> QED BY <3>1, <2>3
  <2> QED BY <2>4
<1> QED BY <1>3, <1>4

\* What cachedWorktrees finds: every memo entry's worktree, and nothing else.
LEMMA CachedFound ==
  ASSUME PathsAssumption, NEW c, NEW n \in Nat, \A i \in 1 .. n : Named(c, i) \in Trees,
         NEW u, u = [i \in 0 .. n |-> IF i = 0 THEN <<>> ELSE WithoutRepeats(u[i - 1], Named(c, i))]
  PROVE  u[n] \in Seq(Trees) /\ \A i \in 1 .. n : Among(Named(c, i), u[n])
<1> DEFINE Fine(m) == u[m] \in Seq(Trees) /\ \A i \in 1 .. m : Among(Named(c, i), u[m])
<1> DEFINE Bad == {m \in 0 .. n : ~Fine(m)}
<1>1. \A m \in 0 .. n : u[m] = IF m = 0 THEN <<>> ELSE WithoutRepeats(u[m - 1], Named(c, m))
  OBVIOUS
<1>2. SUFFICES ASSUME Bad # {} PROVE FALSE
  <2>1. n \notin Bad => Fine(n)  OBVIOUS
  <2> QED BY <1>2, <2>1
<1>3. PICK m \in Bad : \A y \in Bad : m <= y
  <2>1. Bad \in SUBSET Nat  OBVIOUS
  <2> HIDE DEF Bad
  <2> QED BY <1>2, <2>1, Least
<1>4. CASE m = 0
  <2>1. u[0] = <<>> /\ 1 .. 0 = {}  BY <1>1
  <2> QED BY <2>1, <1>4
<1>5. CASE m # 0
  <2>1. m \in 1 .. n /\ m - 1 \in 0 .. n  BY <1>5
  <2>2. m - 1 \notin Bad
    <3> HIDE DEF Bad
    <3> QED BY <1>3, <2>1
  <2>3. Fine(m - 1)  BY <2>1, <2>2
  <2>4. u[m] = WithoutRepeats(u[m - 1], Named(c, m))  BY <1>1, <2>1
  <2>5. Named(c, m) \in Trees \cup {None} /\ Named(c, m) # None  BY <2>1 DEF PathsAssumption
  <2>6. /\ u[m] \in Seq(Trees) /\ Among(Named(c, m), u[m])
        /\ \A t : Among(t, u[m - 1]) => Among(t, u[m])
    BY <2>3, <2>4, <2>5, Added
  <2>7. ASSUME NEW i \in 1 .. m PROVE Among(Named(c, i), u[m])
    <3>1. CASE i = m  BY <3>1, <2>6
    <3>2. CASE i # m
      <4>1. i \in 1 .. m - 1  BY <3>2, <2>1
      <4> QED BY <4>1, <2>3, <2>6
    <3> QED BY <3>1, <3>2
  <2> QED BY <2>6, <2>7
<1> QED BY <1>4, <1>5

\* What cachedWorktrees finds.
LEMMA CachedTreesFound ==
  ASSUME PathsAssumption, NEW c, Calls[c] \in Seq(PathNames), Cached(c),
         \A p \in DOMAIN pathsNow : pathsNow[p].tree \in Trees
  PROVE  /\ CachedTrees(c) \in Seq(Trees)
         /\ \A i \in 1 .. Len(Calls[c]) : Among(pathsNow[Calls[c][i]].tree, CachedTrees(c))
<1> DEFINE n == Len(Calls[c])
<1> DEFINE u == CHOOSE f : f = [i \in 0 .. n |-> IF i = 0 THEN <<>> ELSE WithoutRepeats(f[i - 1], Named(c, i))]
<1>1. n \in Nat /\ \A i \in 1 .. n : Named(c, i) \in Trees  BY DEF Cached, Named
<1>2. u = [i \in 0 .. n |-> IF i = 0 THEN <<>> ELSE WithoutRepeats(u[i - 1], Named(c, i))]
  <2> HIDE DEF n
  <2> QED BY <1>1, Collected
<1>3. CachedTrees(c) = u[n]  BY DEF CachedTrees, Named
<1>4. u[n] \in Seq(Trees) /\ \A i \in 1 .. n : Among(Named(c, i), u[n])
  <2> HIDE DEF n, u
  <2> QED BY <1>1, <1>2, CachedFound
<1> QED BY <1>3, <1>4 DEF Named

\* A cache that takes an entry has it, keeps what it keeps and keeps its bound.
LEMMA Memoized ==
  ASSUME NEW cache, NEW key, NEW value, CacheEntries \in Nat \ {0},
         IsFiniteSet(DOMAIN cache), Cardinality(DOMAIN cache) <= CacheEntries
  PROVE  LET m == memoize(cache, key, value) IN
         /\ IsFiniteSet(DOMAIN m) /\ Cardinality(DOMAIN m) <= CacheEntries
         /\ key \in DOMAIN m /\ m[key] = value
         /\ \A k \in DOMAIN m : k # key => k \in DOMAIN cache /\ m[k] = cache[k]
<1> DEFINE m == memoize(cache, key, value)
<1>0. DOMAIN << >> = {}  OBVIOUS
<1>1. CASE key \notin DOMAIN cache /\ Cardinality(DOMAIN cache) >= CacheEntries
  <2>1. m = Put(<< >>, key, value)  BY <1>1 DEF memoize
  <2>2. DOMAIN m = {key} /\ m[key] = value  BY <2>1, <1>0 DEF Put
  <2>3. IsFiniteSet({key}) /\ Cardinality({key}) = 1  BY FS_Singleton
  <2> QED BY <2>2, <2>3
<1>2. CASE ~(key \notin DOMAIN cache /\ Cardinality(DOMAIN cache) >= CacheEntries)
  <2>1. m = Put(cache, key, value)  BY <1>2 DEF memoize
  <2>2. /\ DOMAIN m = DOMAIN cache \cup {key} /\ m[key] = value
        /\ \A k \in DOMAIN m : k # key => k \in DOMAIN cache /\ m[k] = cache[k]
    BY <2>1 DEF Put
  <2>3. /\ IsFiniteSet(DOMAIN cache \cup {key})
        /\ Cardinality(DOMAIN cache \cup {key}) =
             IF key \in DOMAIN cache THEN Cardinality(DOMAIN cache) ELSE Cardinality(DOMAIN cache) + 1
    BY FS_AddElement
  <2>4. Cardinality(DOMAIN cache) \in Nat  BY FS_CardinalityType
  <2>5. Cardinality(DOMAIN m) <= CacheEntries  BY <1>2, <2>2, <2>3, <2>4
  <2> QED BY <2>2, <2>3, <2>5
<1> QED BY <1>1, <1>2

-----------------------------------------------------------------------------
\* The memos.

\* The file system and what it has shown since the epoch began.
Shown ==
  /\ client \in Clients
  /\ dirOf \in [PathNames -> Dirs] /\ treeOf \in [Dirs -> Trees \cup {None}]
  /\ generation \in Nat /\ due \in BOOLEAN
  /\ dirsSeen \in [PathNames -> SUBSET Dirs]
  /\ treesSeen \in [Dirs -> SUBSET (Trees \cup {None})]
  /\ ~due => /\ \A p \in PathNames : dirOf[p] \in dirsSeen[p]
             /\ \A d \in Dirs : treeOf[d] \in treesSeen[d]

\* Memo entries of the paths and of the directories, as many as fit.
Kept ==
  /\ DOMAIN paths \subseteq PathNames /\ DOMAIN worktrees \subseteq Dirs
  /\ \A p \in DOMAIN paths : paths[p] \in Entry
  /\ \A d \in DOMAIN worktrees : worktrees[d] \in Trees
  /\ IsFiniteSet(DOMAIN paths) /\ Cardinality(DOMAIN paths) <= CacheEntries
  /\ IsFiniteSet(DOMAIN worktrees) /\ Cardinality(DOMAIN worktrees) <= CacheEntries

\* Where the calls are.
Queued ==
  /\ taken \in 0 .. Len(Calls) /\ cold \in Seq(CallIds)
  /\ ask \in [call : CallIds \cup {NoCall}, found : Seq(Trees),
              pc : {"idle", "ask", "send", "wait", "done", "failed"}]
  /\ ask.pc # "idle" => ask.call \in CallIds
  /\ routing \in CallIds \cup {NoCall} /\ sticky \in Trees \cup {None}
  /\ routed \in [CallIds -> [how : {"none", "failed", "named", "unnamed"},
                             tree : Trees \cup {None}, named : SUBSET Entry]]

\* What the worker knows of the argument it works on.
Working ==
  /\ job \in [call : CallIds \cup {NoCall}, alive : BOOLEAN, todo : Seq(PathNames),
              found : Seq(Trees), gen : Nat, dir : Dirs \cup {None}, tree : Trees \cup {None},
              pc : {"idle", "paths", "dir", "tree", "git", "store"}]
  /\ job.gen <= generation
  /\ job.pc \in {"dir", "tree", "git", "store"} => job.todo # <<>>
  /\ job.pc \in {"tree", "git", "store"} => job.dir \in Dirs
  /\ job.pc = "store" => job.tree \in Trees

\* What it knows was so in the epoch it began in, if that is not over.
Recent ==
  ~due /\ job.gen = generation =>
    /\ job.pc \in {"tree", "git", "store"} => job.dir \in dirsSeen[Head(job.todo)]
    /\ job.pc = "store" => job.tree \in treesSeen[job.dir]

\* It works for the caller that waits for it, or for one that has left.
Awaited == job.alive => job.call = ask.call /\ ask.pc = "wait"

Memory == Shown /\ Kept /\ MemoOfThisEpoch /\ Queued /\ Working /\ Recent /\ Awaited

\* The client of a router.
LEMMA Served ==
  ASSUME PathsAssumption, client \in Clients
  PROVE  /\ Stateless \in BOOLEAN /\ CacheEntries \in Nat \ {0}
         /\ Calls \in Seq(Seq(PathNames)) /\ CallIds = 1 .. Len(Calls) /\ NoCall \notin CallIds
         /\ \A c \in CallIds : Calls[c] \in Seq(PathNames)
BY DEF PathsAssumption, Stateless, CacheEntries, Calls, CallIds, NoCall

\* What the memos hold now is what they held, or nothing.
LEMMA Now ==
  ASSUME Shown, Kept, MemoOfThisEpoch, PathsAssumption
  PROVE  /\ \A p \in DOMAIN pathsNow : p \in DOMAIN paths /\ pathsNow[p] = paths[p] /\ ~due
         /\ \A d \in DOMAIN worktreesNow : d \in DOMAIN worktrees /\ worktreesNow[d] = worktrees[d] /\ ~due
         /\ IsFiniteSet(DOMAIN pathsNow) /\ Cardinality(DOMAIN pathsNow) <= CacheEntries
         /\ IsFiniteSet(DOMAIN worktreesNow) /\ Cardinality(DOMAIN worktreesNow) <= CacheEntries
<1>1. CacheEntries \in Nat \ {0} /\ due \in BOOLEAN  BY Served DEF Shown
<1>2. IsFiniteSet({}) /\ Cardinality({}) = 0  BY FS_EmptySet
<1>3. DOMAIN << >> = {}  OBVIOUS
<1>4. CASE due
  <2>1. DOMAIN pathsNow = {} /\ DOMAIN worktreesNow = {}  BY <1>3, <1>4 DEF pathsNow, worktreesNow
  <2> QED BY <2>1, <1>1, <1>2
<1>5. CASE ~due
  <2>1. pathsNow = paths /\ worktreesNow = worktrees  BY <1>5 DEF pathsNow, worktreesNow
  <2> QED BY <2>1, <1>5 DEF Kept
<1> QED BY <1>1, <1>4, <1>5

\* What is expired holds on to the epoch, whatever sound maps are left behind.
LEMMA ExpireKeeps ==
  ASSUME PathsAssumption, Shown, Kept, NEW P, NEW W, expireMemos(P, W), client' = client,
         UNCHANGED fsVars,
         \A p \in DOMAIN P : /\ p \in PathNames /\ P[p] \in Entry /\ ~due
                             /\ P[p].dir \in dirsSeen[p] /\ P[p].tree \in treesSeen[P[p].dir],
         \A d \in DOMAIN W : d \in Dirs /\ W[d] \in Trees /\ ~due /\ W[d] \in treesSeen[d],
         IsFiniteSet(DOMAIN P), Cardinality(DOMAIN P) <= CacheEntries,
         IsFiniteSet(DOMAIN W), Cardinality(DOMAIN W) <= CacheEntries
  PROVE  Shown' /\ Kept' /\ MemoOfThisEpoch' /\ generation' = generationNow /\ due' = FALSE
<1>1. paths' = P /\ worktrees' = W /\ generation' = generationNow /\ due' = FALSE
  BY DEF expireMemos
<1>2. CASE due
  <2>1. /\ dirsSeen' = [p \in PathNames |-> {dirOf[p]}]
        /\ treesSeen' = [d \in Dirs |-> {treeOf[d]}]
        /\ dirOf' = dirOf /\ treeOf' = treeOf /\ generation' = generation + 1
    BY <1>1, <1>2 DEF expireMemos, fsVars, generationNow
  <2>2. Shown'
    <3>1. /\ dirsSeen' \in [PathNames -> SUBSET Dirs]
          /\ \A p \in PathNames : dirsSeen'[p] = {dirOf[p]}
      BY <2>1 DEF Shown
    <3>2. treesSeen' \in [Dirs -> SUBSET (Trees \cup {None})]
      <4>1. \A d \in Dirs : {treeOf[d]} \in SUBSET (Trees \cup {None})  BY DEF Shown
      <4> QED BY <4>1, <2>1
    <3>3. \A d \in Dirs : treesSeen'[d] = {treeOf[d]}  BY <2>1
    <3>4. /\ \A p \in PathNames : dirOf'[p] \in dirsSeen'[p]
          /\ \A d \in Dirs : treeOf'[d] \in treesSeen'[d]
      BY <3>1, <3>3, <2>1
    <3>5. generation' \in Nat
      <4>1. generation \in Nat  BY DEF Shown
      <4> QED BY <4>1, <2>1
    <3>6. due' \in BOOLEAN  BY <1>1
    <3> QED BY <3>1, <3>2, <3>4, <3>5, <3>6, <2>1 DEF Shown
  <2>3. Kept' /\ MemoOfThisEpoch'
    BY <1>1, <1>2 DEF Kept, MemoOfThisEpoch, CacheEntries
  <2> QED BY <2>2, <2>3, <1>1
<1>3. CASE ~due
  <2>1. /\ dirsSeen' = dirsSeen /\ treesSeen' = treesSeen
        /\ dirOf' = dirOf /\ treeOf' = treeOf /\ generation' = generation
    BY <1>1, <1>3 DEF expireMemos, fsVars, generationNow
  <2>2. Shown'  BY <1>1, <1>3, <2>1 DEF Shown
  <2>3. Kept'  BY <1>1 DEF Kept, CacheEntries
  <2>4. MemoOfThisEpoch'  BY <1>1, <2>1 DEF MemoOfThisEpoch
  <2> QED BY <2>2, <2>3, <2>4, <1>1
<1> QED BY <1>2, <1>3 DEF Shown

\* A step that only expires the memos.
LEMMA ExpireOnlyKeeps ==
  ASSUME PathsAssumption, Shown, Kept, MemoOfThisEpoch, expireOnly, client' = client, UNCHANGED fsVars
  PROVE  /\ Shown' /\ Kept' /\ MemoOfThisEpoch'
         /\ generation' = generationNow /\ due' = FALSE
         /\ generationNow \in Nat /\ generation <= generationNow
         /\ generationNow = generation => ~due /\ dirsSeen' = dirsSeen /\ treesSeen' = treesSeen
<1>1. expireMemos(pathsNow, worktreesNow)  BY DEF expireOnly
<1>2. /\ \A p \in DOMAIN pathsNow :
           /\ p \in PathNames /\ pathsNow[p] \in Entry /\ ~due
           /\ pathsNow[p].dir \in dirsSeen[p] /\ pathsNow[p].tree \in treesSeen[pathsNow[p].dir]
      /\ \A d \in DOMAIN worktreesNow :
           d \in Dirs /\ worktreesNow[d] \in Trees /\ ~due /\ worktreesNow[d] \in treesSeen[d]
  BY Now DEF Kept, MemoOfThisEpoch
<1>3. Shown' /\ Kept' /\ MemoOfThisEpoch' /\ generation' = generationNow /\ due' = FALSE
  BY <1>1, <1>2, Now, ExpireKeeps
<1>4. /\ generationNow \in Nat /\ generation <= generationNow
      /\ generationNow = generation => ~due
  BY DEF generationNow, Shown
<1>5. ~due => dirsSeen' = dirsSeen /\ treesSeen' = treesSeen  BY <1>1 DEF expireMemos
<1> QED BY <1>3, <1>4, <1>5

\* The memos start empty.
LEMMA MemoryInit == ASSUME PathsAssumption, Init PROVE Memory
<1>1. client \in Clients /\ CacheEntries \in Nat \ {0}  BY Served DEF Init
<1>2. IsFiniteSet({}) /\ Cardinality({}) = 0 /\ DOMAIN << >> = {}  BY FS_EmptySet
<1>3. Shown  BY <1>1 DEF Init, Shown
<1>4. Kept  BY <1>1, <1>2 DEF Init, Kept
<1>5. Queued
  <2>1. <<>> \in Seq(Trees) /\ <<>> \in Seq(CallIds)  OBVIOUS
  <2>2. 0 \in 0 .. Len(Calls)  BY Served, <1>1
  <2> QED BY <2>1, <2>2 DEF Init, Queued, Idle, Unrouted
<1>6. Working /\ Recent /\ Awaited  BY DEF Init, Working, Recent, Awaited, NoJob
<1> QED BY <1>3, <1>4, <1>5, <1>6 DEF Memory, MemoOfThisEpoch, Init

\* The file system moves, and the history sees it.
LEMMA MovesKeepMemory ==
  ASSUME PathsAssumption, Memory, client' = client, Retarget \/ Reown
  PROVE  Memory'
<1> USE DEF Memory
<1>0. UNCHANGED <<client, paths, worktrees, generation, due, job, routeVars>>
  BY DEF Retarget, Reown
<1>1. Kept'  BY <1>0 DEF Kept, CacheEntries
<1>2. Queued' /\ Awaited'  BY <1>0 DEF Queued, Awaited, routeVars, CallIds, Calls
<1>3. Working'  BY <1>0 DEF Working, CallIds, Calls
<1>4. CASE Retarget
  <2>1. PICK p \in PathNames, d \in Dirs :
          /\ dirOf' = [dirOf EXCEPT ![p] = d]
          /\ dirsSeen' = [dirsSeen EXCEPT ![p] = @ \cup {d}]
          /\ treeOf' = treeOf /\ treesSeen' = treesSeen
    BY <1>4 DEF Retarget
  <2>2. Shown'  BY <2>1, <1>0 DEF Shown
  <2>3. \A q \in PathNames : dirsSeen[q] \subseteq dirsSeen'[q]  BY <2>1 DEF Shown
  <2>4. MemoOfThisEpoch'  BY <2>1, <2>3, <1>0 DEF MemoOfThisEpoch, Kept
  <2>5. job.pc \in {"tree", "git", "store"} => Head(job.todo) \in PathNames  BY DEF Working
  <2>6. Recent'  BY <2>1, <2>3, <2>5, <1>0 DEF Recent
  <2> QED BY <2>2, <2>4, <2>6, <1>1, <1>2, <1>3
<1>5. CASE Reown
  <2>1. PICK d \in Dirs, t \in Trees \cup {None} :
          /\ treeOf' = [treeOf EXCEPT ![d] = t]
          /\ treesSeen' = [treesSeen EXCEPT ![d] = @ \cup {t}]
          /\ dirOf' = dirOf /\ dirsSeen' = dirsSeen
    BY <1>5 DEF Reown
  <2>2. Shown'  BY <2>1, <1>0 DEF Shown
  <2>3. \A e \in Dirs : treesSeen[e] \subseteq treesSeen'[e]  BY <2>1 DEF Shown
  <2>4. MemoOfThisEpoch'  BY <2>1, <2>3, <1>0 DEF MemoOfThisEpoch, Kept, Entry
  <2>6. Recent'  BY <2>1, <2>3, <1>0 DEF Recent, Working
  <2> QED BY <2>2, <2>4, <2>6, <1>1, <1>2, <1>3
<1> QED BY <1>4, <1>5

\* The memos fall due, or are swept.
LEMMA SweepsKeepMemory ==
  ASSUME PathsAssumption, Memory, client' = client, Tick \/ Sweep
  PROVE  Memory'
<1> USE DEF Memory
<1>0. UNCHANGED <<client, fsVars, job, routeVars>>  BY DEF Tick, Sweep
<1>2. Queued' /\ Awaited'  BY <1>0 DEF Queued, Awaited, routeVars, CallIds, Calls
<1>4. CASE Tick
  <2>1. due' = TRUE /\ UNCHANGED <<fsVars, paths, worktrees, generation, dirsSeen, treesSeen>>
    BY <1>4 DEF Tick
  <2>2. Shown'  BY <2>1, <1>0 DEF Shown, fsVars
  <2>3. Kept'  BY <2>1, <1>0 DEF Kept, CacheEntries
  <2>4. MemoOfThisEpoch' /\ Recent'  BY <2>1 DEF MemoOfThisEpoch, Recent
  <2>5. Working'  BY <1>0, <2>1 DEF Working, CallIds, Calls
  <2> QED BY <2>2, <2>3, <2>4, <2>5, <1>2
<1>5. CASE Sweep
  <2>1. expireOnly /\ due  BY <1>5 DEF Sweep
  <2>2. /\ Shown' /\ Kept' /\ MemoOfThisEpoch'
        /\ generation' = generationNow /\ generation <= generationNow /\ generationNow \in Nat
    BY <2>1, <1>0, ExpireOnlyKeeps
  <2>3. generation' = generation + 1  BY <2>1, <2>2 DEF generationNow
  <2>4. Working'  BY <1>0, <2>2 DEF Working, CallIds, Calls, Shown
  <2>5. Recent'  BY <1>0, <2>3 DEF Recent, Working, Shown
  <2> QED BY <2>2, <2>4, <2>5, <1>2
<1> QED BY <1>4, <1>5

\* The worker looks up, reads the file system, asks git and stores what it learnt.
LEMMA WorkerKeepsMemory ==
  ASSUME PathsAssumption, Memory, client' = client, Worker
  PROVE  Memory'
<1> USE DEF Memory
<1>1. CallIds' = CallIds /\ Calls' = Calls /\ CacheEntries' = CacheEntries
  BY DEF CallIds, Calls, CacheEntries
<1>2. client \in Clients /\ CacheEntries \in Nat \ {0}  BY Served DEF Shown
<1>3. ASSUME UNCHANGED routeVars PROVE Queued' /\ (job'.alive = job.alive /\ job'.call = job.call => Awaited')
  BY <1>1, <1>3 DEF Queued, routeVars, Awaited
<1>4. job.todo # <<>> => /\ Head(job.todo) \in PathNames /\ Tail(job.todo) \in Seq(PathNames)
                         /\ job.todo \in Seq(PathNames)
  BY DEF Working
<1>5. ASSUME NEW t \in Trees \cup {None} PROVE WithoutRepeats(job.found, t) \in Seq(Trees)
  BY Added DEF Working
<1>6. CASE LookUp
  <2>1. /\ expireOnly /\ UNCHANGED <<fsVars, routeVars>> /\ job.pc = "paths" /\ job.todo # <<>>
    BY <1>6 DEF LookUp, WorkerStep
  <2>2. /\ Shown' /\ Kept' /\ MemoOfThisEpoch'
        /\ generation' = generationNow /\ generation <= generationNow /\ generationNow \in Nat
    BY <2>1, ExpireOnlyKeeps
  <2>7. job.gen <= generation' /\ job.gen \in Nat /\ generation' \in Nat  BY <2>2 DEF Working, Shown
  <2>3. CASE Head(job.todo) \in DOMAIN pathsNow
    <3>1. pathsNow[Head(job.todo)].tree \in Trees  BY <2>3, Now DEF Kept, Entry
    <3>2. job' = [job EXCEPT !.todo = Tail(@),
                             !.found = WithoutRepeats(@, pathsNow[Head(job.todo)].tree)]
      BY <1>6, <2>3 DEF LookUp, WorkerStep
    <3>3. WithoutRepeats(job.found, pathsNow[Head(job.todo)].tree) \in Seq(Trees)  BY <3>1, <1>5
    <3>4. Working'
      BY <3>2, <3>3, <2>1, <2>7, <1>1, <1>4 DEF Working
    <3>5. Recent'  BY <3>2, <2>1 DEF Recent, Working
    <3> QED BY <3>2, <3>4, <3>5, <2>1, <2>2, <1>3
  <2>4. CASE Head(job.todo) \notin DOMAIN pathsNow
    <3>1. job' = [job EXCEPT !.pc = "dir", !.gen = generationNow]
      BY <1>6, <2>4 DEF LookUp, WorkerStep
    <3>2. Working'
      <4>1. job'.gen = generation' /\ job'.pc = "dir"  BY <3>1, <2>2 DEF Working
      <4>2. job' = [job EXCEPT !.pc = "dir", !.gen = generation']  BY <3>1, <2>2
      <4>3. job' \in [call : CallIds \cup {NoCall}, alive : BOOLEAN, todo : Seq(PathNames),
                found : Seq(Trees), gen : Nat, dir : Dirs \cup {None}, tree : Trees \cup {None},
                pc : {"idle", "paths", "dir", "tree", "git", "store"}]
        BY <4>2, <2>7 DEF Working
      <4>4. job'.gen <= generation' /\ job'.todo # <<>>  BY <4>1, <4>2, <2>1, <2>7 DEF Working
      <4> QED BY <4>1, <4>3, <4>4, <1>1 DEF Working
    <3>3. Recent'  BY <3>1, <2>1 DEF Recent, Working
    <3> QED BY <3>1, <3>2, <3>3, <2>1, <2>2, <1>3
  <2> QED BY <2>3, <2>4
<1>7. ASSUME UNCHANGED memoVars, UNCHANGED fsVars PROVE Shown' /\ Kept' /\ MemoOfThisEpoch'
  BY <1>7, <1>1 DEF Shown, Kept, MemoOfThisEpoch, memoVars, fsVars
<1>8. CASE Contain
  <2>1. /\ job' = [job EXCEPT !.pc = "tree", !.dir = dirOf[Head(job.todo)]] /\ job.pc = "dir"
        /\ UNCHANGED <<fsVars, memoVars, routeVars>>
    BY <1>8 DEF Contain, WorkerStep
  <2>2. job.todo # <<>> /\ dirOf[Head(job.todo)] \in Dirs  BY <2>1, <1>4 DEF Working, Shown
  <2>3. Working'  BY <2>1, <2>2, <1>1, <1>4 DEF Working, memoVars
  <2>4. Recent'  BY <2>1, <2>2, <1>4 DEF Recent, Shown, Working, memoVars
  <2> QED BY <2>1, <2>3, <2>4, <1>3, <1>7
<1>9. CASE LookUpDir
  <2>1. job.pc = "tree" /\ UNCHANGED <<fsVars, memoVars, routeVars>> /\ job.dir \in Dirs
    BY <1>9 DEF LookUpDir, WorkerStep, Working
  <2>2. CASE job.dir \in DOMAIN worktrees
    <3>1. job' = [job EXCEPT !.pc = "store", !.tree = worktrees[job.dir]] /\ worktrees[job.dir] \in Trees
      BY <1>9, <2>2 DEF LookUpDir, WorkerStep, Kept
    <3>2. Working'  BY <3>1, <2>1, <1>1 DEF Working, memoVars
    <3>3. Recent'  BY <3>1, <2>1, <2>2 DEF Recent, MemoOfThisEpoch, memoVars, Working
    <3>4. job'.alive = job.alive /\ job'.call = job.call
      BY <2>2, <3>1 DEF Working
    <3> QED BY <2>1, <3>2, <3>3, <3>4, <1>3, <1>7
  <2>3. CASE job.dir \notin DOMAIN worktrees
    <3>1. job' = [job EXCEPT !.pc = "git"]  BY <1>9, <2>3 DEF LookUpDir, WorkerStep
    <3>2. Working' /\ Recent'  BY <3>1, <2>1, <1>1 DEF Working, Recent, memoVars
    <3>3. job'.alive = job.alive /\ job'.call = job.call  BY <3>1 DEF Working
    <3> QED BY <2>1, <3>2, <3>3, <1>3, <1>7
  <2> QED BY <2>2, <2>3
<1>10. ASSUME NEW f \in Seq(Trees), job.todo # <<>>, generation' \in Nat,
              job' = [call |-> job.call, pc |-> "paths", alive |-> job.alive, todo |-> Tail(job.todo),
                      found |-> f, gen |-> 0, dir |-> None, tree |-> None]
       PROVE  Working' /\ Recent' /\ job'.alive = job.alive /\ job'.call = job.call
  <2>1. Working'  BY <1>1, <1>4, <1>10 DEF Working
  <2>2. Recent'  BY <1>10 DEF Recent
  <2> QED BY <2>1, <2>2, <1>10
<1>11. CASE Git
  <2>1. job.pc = "git" /\ UNCHANGED <<fsVars, memoVars, routeVars>> /\ job.dir \in Dirs /\ job.todo # <<>>
    BY <1>11 DEF Git, WorkerStep, Working
  <2>2. CASE treeOf[job.dir] # None /\ job' = [job EXCEPT !.pc = "store", !.tree = treeOf[job.dir]]
    <3>1. treeOf[job.dir] \in Trees  BY <2>1, <2>2 DEF Shown
    <3>2. Working'  BY <3>1, <2>1, <2>2, <1>1 DEF Working, memoVars
    <3>3. Recent'  BY <2>1, <2>2 DEF Recent, Shown, memoVars, Working
    <3>4. job'.alive = job.alive /\ job'.call = job.call
      BY <2>2, <3>1 DEF Working
    <3> QED BY <2>1, <3>2, <3>3, <3>4, <1>3, <1>7
  <2>3. CASE job' = Without(job)
    <3>1. job' = [call |-> job.call, pc |-> "paths", alive |-> job.alive, todo |-> Tail(job.todo),
                  found |-> job.found, gen |-> 0, dir |-> None, tree |-> None]
      BY <2>3 DEF Without, Working
    <3>2. job.found \in Seq(Trees) /\ generation' \in Nat  BY <2>1 DEF Working, Shown, memoVars
    <3>3. Working' /\ Recent' /\ job'.alive = job.alive /\ job'.call = job.call
      BY <2>1, <3>1, <3>2, <1>10
    <3> QED BY <2>1, <3>3, <1>3, <1>7
  <2> QED BY <1>11, <2>2, <2>3 DEF Git, WorkerStep
<1>12. CASE Store
  <2>1. /\ job.pc = "store" /\ UNCHANGED <<fsVars, routeVars>> /\ job.dir \in Dirs
        /\ job.tree \in Trees /\ job.todo # <<>>
    BY <1>12 DEF Store, WorkerStep, Working
  <2>2. job' = [Without(job) EXCEPT !.found = WithoutRepeats(@, job.tree)]
    BY <1>12 DEF Store, WorkerStep
  <2>3. WithoutRepeats(job.found, job.tree) \in Seq(Trees)  BY <2>1, <1>5
  <2>4. Shown' /\ Kept' /\ MemoOfThisEpoch'
    <3>1. CASE expireOnly  BY <2>1, <3>1, ExpireOnlyKeeps
    <3>2. CASE job.alive /\ job.gen = generationNow
      <4> DEFINE P == memoize(pathsNow, Head(job.todo), [tree |-> job.tree, dir |-> job.dir])
      <4> DEFINE W == memoize(worktreesNow, job.dir, job.tree)
      <4>1. expireMemos(P, W)  BY <1>12, <3>2 DEF Store
      <4>2. ~due /\ job.gen = generation
        BY <3>2 DEF generationNow, Working, Shown
      <4>3. job.dir \in dirsSeen[Head(job.todo)] /\ job.tree \in treesSeen[job.dir]
        BY <4>2, <2>1 DEF Recent
      <4>4. /\ IsFiniteSet(DOMAIN P) /\ Cardinality(DOMAIN P) <= CacheEntries
            /\ P[Head(job.todo)] = [tree |-> job.tree, dir |-> job.dir]
            /\ \A k \in DOMAIN P : k # Head(job.todo) => k \in DOMAIN pathsNow /\ P[k] = pathsNow[k]
        BY <1>2, Now, Memoized
      <4>5. /\ IsFiniteSet(DOMAIN W) /\ Cardinality(DOMAIN W) <= CacheEntries
            /\ W[job.dir] = job.tree
            /\ \A k \in DOMAIN W : k # job.dir => k \in DOMAIN worktreesNow /\ W[k] = worktreesNow[k]
        BY <1>2, Now, Memoized
      <4> HIDE DEF P, W
      <4>6. ASSUME NEW p \in DOMAIN P
            PROVE  /\ p \in PathNames /\ P[p] \in Entry /\ ~due
                   /\ P[p].dir \in dirsSeen[p] /\ P[p].tree \in treesSeen[P[p].dir]
        <5>1. CASE p = Head(job.todo)  BY <5>1, <4>2, <4>3, <4>4, <2>1, <1>4 DEF Entry
        <5>2. CASE p # Head(job.todo)
          <6>1. p \in DOMAIN paths /\ P[p] = paths[p]  BY <5>2, <4>4, Now
          <6> QED BY <6>1, <4>2 DEF Kept, MemoOfThisEpoch
        <5> QED BY <5>1, <5>2
      <4>7. ASSUME NEW d \in DOMAIN W
            PROVE  d \in Dirs /\ W[d] \in Trees /\ ~due /\ W[d] \in treesSeen[d]
        <5>1. CASE d = job.dir  BY <5>1, <4>2, <4>3, <4>5, <2>1
        <5>2. CASE d # job.dir
          <6>1. d \in DOMAIN worktrees /\ W[d] = worktrees[d]  BY <5>2, <4>5, Now
          <6> QED BY <6>1, <4>2 DEF Kept, MemoOfThisEpoch
        <5> QED BY <5>1, <5>2
      <4> QED BY <4>1, <4>4, <4>5, <4>6, <4>7, <2>1, ExpireKeeps
    <3> QED BY <1>12, <3>1, <3>2 DEF Store
  <2>5. Working' /\ Recent' /\ job'.alive = job.alive /\ job'.call = job.call
    <3>1. job' = [call |-> job.call, pc |-> "paths", alive |-> job.alive, todo |-> Tail(job.todo),
                  found |-> WithoutRepeats(job.found, job.tree), gen |-> 0, dir |-> None, tree |-> None]
      BY <2>2 DEF Without, Working
    <3>2. generation' \in Nat  BY <2>4 DEF Shown
    <3> QED BY <2>1, <2>3, <3>1, <3>2, <1>10
  <2> QED BY <2>1, <2>4, <2>5, <1>3
<1>13. CASE WorkerReplies
  <2>1. /\ job' = NoJob /\ UNCHANGED <<fsVars, memoVars, taken, cold, routing, sticky, routed>>
        /\ ask' = IF job.alive THEN [ask EXCEPT !.pc = "done", !.found = job.found] ELSE ask
    BY <1>13 DEF WorkerReplies
  <2>2. Working'  BY <2>1, <1>1 DEF NoJob, Working, Shown, memoVars
  <2>3. Recent' /\ Awaited'  BY <2>1 DEF NoJob, Recent, Awaited
  <2>4. ask' \in [call : CallIds \cup {NoCall}, found : Seq(Trees),
                  pc : {"idle", "ask", "send", "wait", "done", "failed"}]
        /\ (ask'.pc # "idle" => ask'.call \in CallIds)
    <3>1. CASE job.alive
      <4>1. ask' = [ask EXCEPT !.pc = "done", !.found = job.found]  BY <2>1, <3>1
      <4>2. ask.call \in CallIds /\ job.found \in Seq(Trees)  BY <3>1 DEF Awaited, Queued, Working
      <4> QED BY <4>1, <4>2 DEF Queued
    <3>2. CASE ~job.alive  BY <2>1, <3>2 DEF Queued
    <3> QED BY <3>1, <3>2
  <2>5. Queued'  BY <2>1, <2>4, <1>1 DEF Queued
  <2> QED BY <2>1, <2>2, <2>3, <2>5, <1>7
<1> QED BY <1>6, <1>8, <1>9, <1>11, <1>12, <1>13 DEF Worker

\* The caller asks, sends, waits, and gives up.
LEMMA CoordinatorKeepsMemory ==
  ASSUME PathsAssumption, Memory, client' = client, Coordinator
  PROVE  Memory'
<1> USE DEF Memory
<1>1. CallIds' = CallIds /\ Calls' = Calls /\ CacheEntries' = CacheEntries
  BY DEF CallIds, Calls, CacheEntries
<1>2. /\ client \in Clients /\ CallIds = 1 .. Len(Calls) /\ NoCall \notin CallIds
      /\ \A c \in CallIds : Calls[c] \in Seq(PathNames)
  BY Served DEF Shown
<1>3. ASSUME UNCHANGED memoVars, UNCHANGED fsVars PROVE Shown' /\ Kept' /\ MemoOfThisEpoch'
  BY <1>3, <1>1 DEF Shown, Kept, MemoOfThisEpoch, memoVars, fsVars
<1>4. ASSUME UNCHANGED memoVars, UNCHANGED fsVars, UNCHANGED job
      PROVE  Shown' /\ Kept' /\ MemoOfThisEpoch' /\ Working' /\ Recent'
  BY <1>4, <1>1, <1>3 DEF Working, Recent, memoVars
<1>5. CASE TakeCold
  <2>1. /\ UNCHANGED <<fsVars, memoVars, job, taken, routing, sticky, routed>>
        /\ ask.pc = "idle" /\ cold # <<>> /\ cold' = Tail(cold)
        /\ ask' = [Idle EXCEPT !.call = Head(cold), !.pc = "ask"]
    BY <1>5 DEF TakeCold
  <2>2. Head(cold) \in CallIds /\ cold' \in Seq(CallIds) /\ <<>> \in Seq(Trees)  BY <2>1 DEF Queued
  <2>3. Queued' /\ Awaited'  BY <2>1, <2>2, <1>1 DEF Queued, Awaited, Idle
  <2> QED BY <2>1, <2>3, <1>4
<1>6. CASE AskCached
  <2>1. /\ expireOnly /\ UNCHANGED <<fsVars, job, taken, cold, routing, sticky, routed>>
        /\ ask.pc = "ask" /\ ask.call \in CallIds
        /\ ask' = IF Cached(ask.call)
                  THEN [ask EXCEPT !.pc = "done", !.found = CachedTrees(ask.call)]
                  ELSE [ask EXCEPT !.pc = "send"]
    BY <1>6 DEF AskCached, Queued
  <2>2. /\ Shown' /\ Kept' /\ MemoOfThisEpoch'
        /\ generation' = generationNow /\ generation <= generationNow /\ generationNow \in Nat
        /\ generationNow = generation => ~due /\ dirsSeen' = dirsSeen /\ treesSeen' = treesSeen
    BY <2>1, ExpireOnlyKeeps
  <2>3. Working'  BY <2>1, <2>2, <1>1 DEF Working, Shown
  <2>4. Recent'
    <3>1. job.gen \in Nat /\ job.gen <= generation /\ generation \in Nat  BY DEF Working, Shown
    <3>2. CASE job.gen = generation'
      <4>1. generationNow = generation  BY <3>1, <3>2, <2>2
      <4>2. job' = job  BY <2>1
      <4> QED BY <4>1, <4>2, <3>2, <2>2 DEF Recent
    <3>3. CASE job.gen # generation'  BY <3>3, <2>1 DEF Recent
    <3> QED BY <3>2, <3>3
  <2>5. CASE Cached(ask.call)
    <3>1. \A p \in DOMAIN pathsNow : pathsNow[p].tree \in Trees  BY Now DEF Kept, Entry
    <3>2. CachedTrees(ask.call) \in Seq(Trees)  BY <3>1, <2>1, <2>5, <1>2, CachedTreesFound
    <3>3. ask' = [ask EXCEPT !.pc = "done", !.found = CachedTrees(ask.call)]  BY <2>1, <2>5
    <3>4. Queued' /\ Awaited'  BY <2>1, <3>2, <3>3, <1>1 DEF Queued, Awaited
    <3> QED BY <2>1, <2>2, <2>3, <2>4, <3>4
  <2>6. CASE ~Cached(ask.call)
    <3>1. ask' = [ask EXCEPT !.pc = "send"]  BY <2>1, <2>6
    <3>2. Queued' /\ Awaited'  BY <2>1, <3>1, <1>1 DEF Queued, Awaited
    <3> QED BY <2>1, <2>2, <2>3, <2>4, <3>2
  <2> QED BY <2>5, <2>6
<1>7. CASE Send
  <2>1. /\ UNCHANGED <<fsVars, memoVars, taken, cold, routing, sticky, routed>>
        /\ ask.pc = "send" /\ ask' = [ask EXCEPT !.pc = "wait"] /\ job = NoJob /\ ask.call \in CallIds
        /\ job' = [NoJob EXCEPT !.call = ask.call, !.pc = "paths", !.alive = TRUE, !.todo = Calls[ask.call]]
    BY <1>7 DEF Send, Queued
  <2>2. Queued' /\ Awaited'  BY <2>1, <1>1 DEF Queued, Awaited, NoJob
  <2>3. Working' /\ Recent'  BY <2>1, <1>1, <1>2 DEF NoJob, Working, Recent, Shown, memoVars
  <2> QED BY <2>1, <2>2, <2>3, <1>3
<1>8. CASE Timeout
  <2>1. /\ UNCHANGED <<fsVars, memoVars, taken, cold, routing, sticky, routed>>
        /\ ask.pc # "idle" /\ ask' = [ask EXCEPT !.pc = "failed"]
        /\ job' = IF ask.pc = "wait" THEN [job EXCEPT !.alive = FALSE] ELSE job
    BY <1>8 DEF Timeout
  <2>2. Queued'  BY <2>1, <1>1 DEF Queued
  <2>3. Working' /\ Recent' /\ Awaited'
    <3>1. CASE ask.pc = "wait"
      <4>1. job' = [job EXCEPT !.alive = FALSE]  BY <2>1, <3>1
      <4>2. Working' /\ Awaited'  BY <4>1, <2>1, <1>1 DEF Working, Awaited, memoVars
      <4>3. Recent'  BY <4>1, <2>1 DEF Working, Recent, memoVars
      <4> QED BY <4>2, <4>3
    <3>2. CASE ask.pc # "wait"
      <4>1. job' = job  BY <2>1, <3>2
      <4> QED BY <4>1, <3>2, <2>1, <1>1 DEF Working, Recent, Awaited, memoVars
    <3> QED BY <3>1, <3>2
  <2> QED BY <2>1, <2>2, <2>3, <1>3
<1> QED BY <1>5, <1>6, <1>7, <1>8 DEF Coordinator

\* A commitment leaves the routes typed.
LEMMA CommitTyped ==
  ASSUME PathsAssumption, Memory, NEW c \in CallIds, NEW found \in Seq(Trees),
         Commit(c, found) \/ (Fail(c))
  PROVE  /\ routing' \in CallIds \cup {NoCall} /\ sticky' \in Trees \cup {None}
         /\ routed' \in [CallIds -> [how : {"none", "failed", "named", "unnamed"},
                             tree : Trees \cup {None}, named : SUBSET Entry]]
<1> USE DEF Memory
<1>1. CASE Fail(c)
  BY <1>1 DEF Fail, Queued, Unrouted
<1>2. CASE Len(found) = 1 /\ Commit(c, found)
  <2>1. found[1] \in Trees  BY <1>2
  <2>2. /\ sticky' = IF Stateless THEN sticky ELSE found[1]
        /\ routed' = [routed EXCEPT ![c] = [how |-> "named", tree |-> found[1], named |-> {}]]
        /\ routing' \in {c, NoCall}
    BY <1>2 DEF Commit
  <2>3. [how |-> "named", tree |-> found[1], named |-> {}]
           \in [how : {"none", "failed", "named", "unnamed"},
                             tree : Trees \cup {None}, named : SUBSET Entry]
    BY <2>1
  <2> QED BY <2>1, <2>2, <2>3 DEF Queued
<1>3. CASE Len(found) = 0 /\ Commit(c, found)
  <2> DEFINE t == IF ~Stateless /\ sticky # None THEN sticky ELSE Home
  <2>1. t \in Trees  BY DEF Queued, PathsAssumption
  <2>2. /\ sticky' = sticky /\ routing' \in {c, NoCall}
        /\ routed' = [routed EXCEPT ![c] = [how |-> "unnamed", named |-> {}, tree |-> t]]
    BY <1>3 DEF Commit
  <2> HIDE DEF t
  <2>3. [how |-> "unnamed", named |-> {}, tree |-> t]
           \in [how : {"none", "failed", "named", "unnamed"},
                             tree : Trees \cup {None}, named : SUBSET Entry]
    BY <2>1
  <2> QED BY <2>1, <2>2, <2>3 DEF Queued
<1> QED BY <1>1, <1>2, <1>3 DEF Commit

\* The router takes a call, commits it and spells it.
LEMMA RouterKeepsMemory ==
  ASSUME PathsAssumption, Memory, client' = client, Router
  PROVE  Memory'
<1> USE DEF Memory
<1>1. CallIds' = CallIds /\ Calls' = Calls /\ CacheEntries' = CacheEntries
  BY DEF CallIds, Calls, CacheEntries
<1>2. /\ client \in Clients /\ CallIds = 1 .. Len(Calls) /\ NoCall \notin CallIds /\ Len(Calls) \in Nat
      /\ \A c \in CallIds : Calls[c] \in Seq(PathNames)
  BY Served DEF Shown
<1>4. ASSUME UNCHANGED memoVars, UNCHANGED fsVars, UNCHANGED job
      PROVE  Shown' /\ Kept' /\ MemoOfThisEpoch' /\ Working' /\ Recent'
  BY <1>4, <1>1 DEF Shown, Kept, MemoOfThisEpoch, Working, Recent, memoVars, fsVars
<1>5. CASE TakeCall
  <2> DEFINE c == taken + 1
  <2>1. /\ c \in CallIds /\ taken' = c /\ taken' \in 0 .. Len(Calls) /\ UNCHANGED <<fsVars, job>>
    BY <1>5, <1>2 DEF TakeCall, Queued
  <2>2. CASE ~Stateless
    <3>1. /\ ask.pc = "idle" /\ ask' = [Idle EXCEPT !.call = c, !.pc = "ask"]
          /\ UNCHANGED <<memoVars, cold, routing, sticky, routed>>
      BY <1>5, <2>2 DEF TakeCall
    <3>2. <<>> \in Seq(Trees)  OBVIOUS
    <3>3. Queued' /\ Awaited'  BY <2>1, <3>1, <3>2, <1>1 DEF Queued, Awaited, Idle
    <3> QED BY <2>1, <3>1, <3>3, <1>4
  <2>3. CASE Stateless
    <3>1. expireOnly /\ ask' = ask  BY <1>5, <2>3 DEF TakeCall
    <3>2. /\ Shown' /\ Kept' /\ MemoOfThisEpoch'
          /\ generation' = generationNow /\ generation <= generationNow /\ generationNow \in Nat
          /\ generationNow = generation => ~due /\ dirsSeen' = dirsSeen /\ treesSeen' = treesSeen
      BY <2>1, <3>1, ExpireOnlyKeeps
    <3>3. Working'  BY <2>1, <3>2, <1>1 DEF Working, Shown
    <3>4. Recent'
      <4>1. job.gen \in Nat /\ job.gen <= generation /\ generation \in Nat  BY DEF Working, Shown
      <4>2. CASE job.gen = generation'
        <5>1. generationNow = generation  BY <4>1, <4>2, <3>2
        <5>2. job' = job  BY <2>1
        <5> QED BY <5>1, <5>2, <4>2, <3>2 DEF Recent
      <4>3. CASE job.gen # generation'  BY <4>3, <2>1 DEF Recent
      <4> QED BY <4>2, <4>3
    <3>5. Awaited'  BY <2>1, <3>1 DEF Awaited
    <3>6. CASE Cached(c) /\ Commit(c, CachedTrees(c)) /\ cold' = cold
      <4>1. \A p \in DOMAIN pathsNow : pathsNow[p].tree \in Trees  BY Now DEF Kept, Entry
      <4>2. CachedTrees(c) \in Seq(Trees)  BY <4>1, <2>1, <3>6, <1>2, CachedTreesFound
      <4>3. /\ routing' \in CallIds \cup {NoCall} /\ sticky' \in Trees \cup {None}
            /\ routed' \in [CallIds -> [how : {"none", "failed", "named", "unnamed"},
                             tree : Trees \cup {None}, named : SUBSET Entry]]
        BY <2>1, <3>6, <4>2, CommitTyped
      <4>4. Queued'  BY <2>1, <3>1, <3>6, <4>3, <1>1 DEF Queued
      <4> QED BY <3>2, <3>3, <3>4, <3>5, <4>4
    <3>7. CASE cold' = Append(cold, c) /\ UNCHANGED <<routing, sticky, routed>>
      <4>1. cold' \in Seq(CallIds)  BY <2>1, <3>7 DEF Queued
      <4>2. Queued'  BY <2>1, <3>1, <3>7, <4>1, <1>1 DEF Queued
      <4> QED BY <3>2, <3>3, <3>4, <3>5, <4>2
    <3>8. CASE Fail(c) /\ cold' = cold
      <4>1. <<>> \in Seq(Trees)  OBVIOUS
      <4>3. /\ routing' \in CallIds \cup {NoCall} /\ sticky' \in Trees \cup {None}
            /\ routed' \in [CallIds -> [how : {"none", "failed", "named", "unnamed"},
                             tree : Trees \cup {None}, named : SUBSET Entry]]
        BY <2>1, <3>8, <4>1, CommitTyped
      <4>4. Queued'  BY <2>1, <3>1, <3>8, <4>3, <1>1 DEF Queued
      <4> QED BY <3>2, <3>3, <3>4, <3>5, <4>4
    <3> QED BY <1>5, <2>3, <3>6, <3>7, <3>8 DEF TakeCall
  <2> QED BY <2>2, <2>3
<1>6. CASE TakeResolved
  <2>1. /\ ask.pc \in {"done", "failed"} /\ ask' = Idle /\ ask.call \in CallIds
        /\ UNCHANGED <<fsVars, memoVars, job, taken, cold>> /\ ask.found \in Seq(Trees)
        /\ Commit(ask.call, ask.found) \/ Fail(ask.call)
    BY <1>6 DEF TakeResolved, Queued
  <2>2. /\ routing' \in CallIds \cup {NoCall} /\ sticky' \in Trees \cup {None}
        /\ routed' \in [CallIds -> [how : {"none", "failed", "named", "unnamed"},
                             tree : Trees \cup {None}, named : SUBSET Entry]]
    BY <2>1, CommitTyped
  <2>3. <<>> \in Seq(Trees)  OBVIOUS
  <2>4. Queued' /\ Awaited'  BY <2>1, <2>2, <2>3, <1>1 DEF Queued, Awaited, Idle
  <2> QED BY <2>1, <2>4, <1>4
<1>7. CASE Spell
  <2> DEFINE n == {paths[p] : p \in {Calls[routing][i] : i \in DOMAIN Calls[routing]} \cap DOMAIN paths}
  <2>1. /\ UNCHANGED <<fsVars, memoVars, job, taken, cold, ask, sticky>>
        /\ routing' = NoCall /\ routing \in CallIds
        /\ routed' = [routed EXCEPT ![routing].named = n]
    BY <1>7 DEF Spell, Queued
  <2>2. n \in SUBSET Entry  BY DEF Kept
  <2> HIDE DEF n
  <2>3. routed' \in [CallIds -> [how : {"none", "failed", "named", "unnamed"},
                                tree : Trees \cup {None}, named : SUBSET Entry]]
    <3>1. [routed[routing] EXCEPT !.named = n] \in [how : {"none", "failed", "named", "unnamed"},
                                tree : Trees \cup {None}, named : SUBSET Entry]
      BY <2>1, <2>2, SMTT(30) DEF Queued
    <3>2. routed' = [routed EXCEPT ![routing] = [routed[routing] EXCEPT !.named = n]]
      BY <2>1
    <3> QED BY <2>1, <3>1, <3>2 DEF Queued
  <2>4. Queued' /\ Awaited'  BY <2>1, <2>3, <1>1 DEF Queued, Awaited
  <2> QED BY <2>1, <2>4, <1>4
<1> QED BY <1>5, <1>6, <1>7 DEF Router

\* Every step keeps what is known of the memos, the worker and the calls.
LEMMA MemoryKept == ASSUME PathsAssumption, Memory, [Next]_vars PROVE Memory'
<1>1. ASSUME Next PROVE Memory'
  BY <1>1, MovesKeepMemory, SweepsKeepMemory, WorkerKeepsMemory, RouterKeepsMemory,
     CoordinatorKeepsMemory DEF Next
<1>2. ASSUME UNCHANGED vars PROVE Memory'
  <2>1. UNCHANGED <<client, fsVars, memoVars, job, routeVars>>  BY <1>2 DEF vars
  <2>2. Shown' /\ Kept' /\ MemoOfThisEpoch'
    BY <1>2, <2>1 DEF Memory, Shown, Kept, MemoOfThisEpoch, CacheEntries, fsVars, memoVars
  <2>3. Queued' /\ Working' /\ Recent' /\ Awaited'
    BY <1>2, <2>1 DEF Memory, Queued, Working, Recent, Awaited, CallIds, Calls, memoVars, routeVars
  <2> QED BY <2>2, <2>3 DEF Memory
<1> QED BY <1>1, <1>2

\* What the memos hold was so, and they hold no more than they may (MemosSound): for
\* any file system, however long a resolution takes and whoever gives it up.
THEOREM MemosStaySound == ASSUME PathsAssumption PROVE Spec => []MemosSound
<1>1. Init => Memory  BY MemoryInit
<1>2. Memory /\ [Next]_vars => Memory'  BY MemoryKept
<1>3. Memory => MemosSound
  <2> SUFFICES ASSUME Memory PROVE MemosSound  OBVIOUS
  <2> USE DEF Memory
  <2>1. TypeOK  BY DEF TypeOK, Kept, Queued, Working
  <2>2. MemosBounded  BY DEF MemosBounded, Kept
  <2> QED BY <2>1, <2>2 DEF MemosSound
<1> QED BY <1>1, <1>2, <1>3, PTL DEF Spec

-----------------------------------------------------------------------------
\* The routes.

\* The calls before c that named a worktree, and the last of a set of them.
NamedBefore(c) == {e \in 1 .. c - 1 : routed[e].how = "named"}
Latest(e, S) == e \in S /\ \A f \in S : f <= e

\* A session routes one call at a time, in wire order.
InTurn ==
  ~Stateless =>
    /\ cold = <<>>
    /\ ask.pc # "idle" => ask.call = taken /\ routed[taken].how = "none" /\ routing = NoCall
    /\ \A c \in CallIds : c > taken => routed[c].how = "none"

\* What it is stuck to is where the last call went that named a worktree.
Stuck ==
  ~Stateless =>
    \/ (\A c \in CallIds : routed[c].how # "named") /\ sticky = None
    \/ \E e \in CallIds : /\ routed[e].how = "named" /\ sticky = routed[e].tree /\ sticky # None
                          /\ \A c \in CallIds : routed[c].how = "named" => c <= e

\* Where a call that names nothing goes.
Followed ==
  \A c \in CallIds : routed[c].how = "unnamed" =>
    \/ (Stateless \/ NamedBefore(c) = {}) /\ routed[c].tree = Home
    \/ ~Stateless /\ \E e \in CallIds : Latest(e, NamedBefore(c)) /\ routed[c].tree = routed[e].tree

Routes == InTurn /\ Stuck /\ Followed

\* The witness is the chosen one.
LEMMA FollowedIsEnough ==
  ASSUME PathsAssumption, Memory, Followed PROVE UnnamedFollowsNamed
<1> SUFFICES ASSUME NEW c \in CallIds, routed[c].how = "unnamed"
             PROVE  routed[c].tree = IF Stateless \/ NamedBefore(c) = {} THEN Home
                        ELSE routed[CHOOSE e \in NamedBefore(c) : \A f \in NamedBefore(c) : f <= e].tree
  BY DEF UnnamedFollowsNamed, NamedBefore
<1>1. CASE Stateless \/ NamedBefore(c) = {}  BY <1>1 DEF Followed, Latest
<1>2. CASE ~(Stateless \/ NamedBefore(c) = {})
  <2>1. PICK e \in CallIds : Latest(e, NamedBefore(c)) /\ routed[c].tree = routed[e].tree
    BY <1>2 DEF Followed
  <2>2. NamedBefore(c) \subseteq Int  BY DEF NamedBefore
  <2>3. ASSUME NEW g \in NamedBefore(c), \A f \in NamedBefore(c) : f <= g PROVE g = e
    <3>1. g <= e /\ e <= g /\ g \in Int /\ e \in Int  BY <2>1, <2>2, <2>3 DEF Latest
    <3> QED BY <3>1
  <2>4. (CHOOSE g \in NamedBefore(c) : \A f \in NamedBefore(c) : f <= g) = e
    BY <2>1, <2>3 DEF Latest
  <2> QED BY <1>2, <2>1, <2>4
<1> QED BY <1>1, <1>2

\* Committing the call whose turn it is, or failing it, in a session.
LEMMA CommitFollows ==
  ASSUME PathsAssumption, Memory, Routes, ~Stateless, client' = client, taken' = taken,
         taken \in CallIds, routed[taken].how = "none",
         NEW found \in Seq(Trees), Commit(taken, found) \/ Fail(taken)
  PROVE  Stuck' /\ Followed' /\ (\A c \in CallIds : c > taken => routed'[c].how = "none")
<1>0. /\ CallIds' = CallIds /\ (Stateless' <=> Stateless) /\ CallIds = 1 .. Len(Calls) /\ Len(Calls) \in Nat
      /\ Calls' = Calls
  BY Served DEF CallIds, Calls, Stateless, Memory, Shown
<1>1. \A c \in CallIds : routed[c].how = "named" => c < taken
  BY <1>0 DEF Routes, InTurn
<1>2. ASSUME \A c \in CallIds : c # taken => routed'[c] = routed[c],
             routed'[taken].how # "unnamed"
      PROVE  Followed'
  <2> SUFFICES ASSUME NEW c \in CallIds, routed'[c].how = "unnamed"
               PROVE  \/ (Stateless \/ NamedBefore(c)' = {}) /\ routed'[c].tree = Home
                      \/ ~Stateless /\ \E e \in CallIds :
                            Latest(e, NamedBefore(c)') /\ routed'[c].tree = routed'[e].tree
    BY <1>0 DEF Followed, Latest
  <2>1. c # taken /\ routed[c].how = "unnamed"  BY <1>2
  <2>2. c < taken  BY <2>1, <1>0 DEF Routes, InTurn
  <2>3. \A e \in 1 .. c - 1 : e \in CallIds /\ e # taken  BY <2>2, <1>0
  <2>4. NamedBefore(c)' = NamedBefore(c)  BY <2>3, <1>2 DEF NamedBefore
  <2>5. \A e \in NamedBefore(c) : e \in CallIds /\ routed'[e] = routed[e]  BY <2>3, <1>2 DEF NamedBefore
  <2> QED BY <2>1, <2>4, <2>5, <1>2 DEF Routes, Followed, Latest
<1>3. routed \in [CallIds -> [how : {"none", "failed", "named", "unnamed"},
                             tree : Trees \cup {None}, named : SUBSET Entry]]
  BY DEF Memory, Queued
<1>4. CASE Fail(taken)
  <2>1. /\ routed' = [routed EXCEPT ![taken] = [Unrouted EXCEPT !.how = "failed"]]
        /\ sticky' = sticky
    BY <1>4 DEF Fail
  <2>2. /\ \A c \in CallIds : c # taken => routed'[c] = routed[c]
        /\ routed'[taken].how = "failed"
    BY <2>1, <1>3 DEF Unrouted
  <2>3. Followed'  BY <2>2, <1>2
  <2>4. Stuck'  BY <2>1, <2>2, <1>0, <1>1, SMTT(30) DEF Routes, Stuck
  <2>5. \A c \in CallIds : c > taken => routed'[c].how = "none"  BY <2>2, <1>0 DEF Routes, InTurn
  <2> QED BY <2>3, <2>4, <2>5
<1>5. CASE Len(found) = 1 /\ Commit(taken, found)
  <2>1. /\ routed' = [routed EXCEPT ![taken] = [how |-> "named", tree |-> found[1], named |-> {}]]
        /\ sticky' = found[1] /\ found[1] \in Trees /\ found[1] # None
    <3>1. found[1] \in Trees /\ found[1] # None  BY <1>5 DEF PathsAssumption
    <3> QED BY <3>1, <1>5 DEF Commit
  <2>2. /\ \A c \in CallIds : c # taken => routed'[c] = routed[c]
        /\ routed'[taken].how = "named" /\ routed'[taken].tree = found[1]
    BY <2>1, <1>3
  <2>3. Followed'  BY <2>2, <1>2
  <2>4. \A c \in CallIds : c > taken => routed'[c].how = "none"  BY <2>2, <1>0 DEF Routes, InTurn
  <2>5. Stuck'
    <3>1. \A c \in CallIds : routed'[c].how = "named" => c <= taken  BY <2>4, <1>0
    <3> QED BY <3>1, <2>1, <2>2, <1>0 DEF Stuck
  <2> QED BY <2>3, <2>4, <2>5
<1>6. CASE Len(found) = 0 /\ Commit(taken, found)
  <2> DEFINE t == IF sticky # None THEN sticky ELSE Home
  <2>1. /\ routed' = [routed EXCEPT ![taken] = [how |-> "unnamed", named |-> {}, tree |-> t]]
        /\ sticky' = sticky
    BY <1>6 DEF Commit
  <2>2. /\ \A c \in CallIds : c # taken => routed'[c] = routed[c]
        /\ routed'[taken].how = "unnamed" /\ routed'[taken].tree = t
    <3> HIDE DEF t
    <3> QED BY <2>1, <1>3
  <2>3. \A c \in CallIds : c > taken => routed'[c].how = "none"  BY <2>2, <1>0 DEF Routes, InTurn
  <2>4. Stuck'  BY <2>1, <2>2, <1>0, <1>1 DEF Routes, Stuck
  <2>5. ASSUME NEW c \in CallIds, routed'[c].how = "unnamed"
        PROVE  \/ (Stateless \/ NamedBefore(c)' = {}) /\ routed'[c].tree = Home
               \/ ~Stateless /\ \E e \in CallIds :
                     Latest(e, NamedBefore(c)') /\ routed'[c].tree = routed'[e].tree
    <3>1. c <= taken /\ \A e \in 1 .. c - 1 : e \in CallIds /\ e # taken /\ routed'[e] = routed[e]
      BY <2>2, <2>3, <2>5, <1>0
    <3>2. NamedBefore(c)' = NamedBefore(c)  BY <3>1 DEF NamedBefore
    <3>3. \A e \in NamedBefore(c) : e \in CallIds /\ routed'[e] = routed[e]  BY <3>1 DEF NamedBefore
    <3>4. CASE c # taken
      <4>1. routed'[c] = routed[c]  BY <3>4, <2>2
      <4> QED BY <4>1, <2>5, <3>2, <3>3 DEF Routes, Followed, Latest
    <3>5. CASE c = taken
      <4>1. CASE \A d \in CallIds : routed[d].how # "named"
        <5>1. sticky = None  BY <4>1 DEF Routes, Stuck
        <5>2. NamedBefore(c) = {}  BY <4>1, <3>1 DEF NamedBefore
        <5> QED BY <5>1, <5>2, <3>2, <3>5, <2>2
      <4>2. CASE ~ \A d \in CallIds : routed[d].how # "named"
        <5>1. PICK e \in CallIds : /\ routed[e].how = "named" /\ sticky = routed[e].tree /\ sticky # None
                                   /\ \A d \in CallIds : routed[d].how = "named" => d <= e
          BY <4>2 DEF Routes, Stuck
        <5>2. e < c /\ e \in 1 .. c - 1  BY <5>1, <3>5, <1>1, <1>0
        <5>3. Latest(e, NamedBefore(c))  BY <5>1, <5>2, <3>1 DEF Latest, NamedBefore
        <5>4. routed'[c].tree = routed'[e].tree  BY <5>1, <5>2, <3>1, <3>5, <2>2
        <5> QED BY <5>3, <5>4, <3>2
      <4> QED BY <4>1, <4>2
    <3> QED BY <3>4, <3>5
  <2>6. Followed'  BY <2>5, <1>0 DEF Followed, Latest
  <2> QED BY <2>3, <2>4, <2>6
<1> QED BY <1>4, <1>5, <1>6 DEF Commit

\* Committing or failing any call in the backend.
LEMMA CommitGoesHome ==
  ASSUME PathsAssumption, Memory, Followed, Stateless, client' = client, NEW c \in CallIds,
         NEW found \in Seq(Trees), Commit(c, found) \/ Fail(c)
  PROVE  Followed'
<1>0. CallIds' = CallIds /\ Stateless'  BY DEF CallIds, Calls, Stateless
<1>1. \A d \in CallIds : d # c => routed'[d] = routed[d]
  BY DEF Commit, Fail, Memory, Queued
<1>2. routed'[c].how = "unnamed" => routed'[c].tree = Home
  BY DEF Commit, Fail, Memory, Queued, Unrouted
<1>3. ASSUME NEW d \in CallIds, routed'[d].how = "unnamed" PROVE routed'[d].tree = Home
  BY <1>1, <1>2, <1>3 DEF Followed
<1> QED BY <1>0, <1>3 DEF Followed

\* A step that commits nothing keeps the routes.
LEMMA RoutesUntouched ==
  ASSUME PathsAssumption, Memory, Routes, client' = client,
         UNCHANGED <<taken, cold, routing, sticky, routed>>,
         ~Stateless => (ask'.pc # "idle" => ask.pc # "idle" /\ ask'.call = ask.call)
  PROVE  Routes'
<1>0. CallIds' = CallIds /\ (Stateless' <=> Stateless)  BY DEF CallIds, Calls, Stateless
<1>1. InTurn'  BY <1>0 DEF Routes, InTurn
<1>2. Stuck'  BY <1>0 DEF Routes, Stuck
<1>3. Followed'  BY <1>0 DEF Routes, Followed, NamedBefore, Latest
<1> QED BY <1>1, <1>2, <1>3 DEF Routes

\* Every step keeps the routes.
LEMMA RoutesKept ==
  ASSUME PathsAssumption, Memory, Routes, Next PROVE Routes'
<1>0. client' = client  BY DEF Next
<1>1. CallIds' = CallIds /\ (Stateless' <=> Stateless) /\ CallIds = 1 .. Len(Calls) /\ Len(Calls) \in Nat
      /\ Stateless \in BOOLEAN
  BY <1>0, Served DEF CallIds, Calls, Stateless, Memory, Shown
<1>2. CASE Retarget \/ Reown \/ Tick \/ Sweep
  <2>1. UNCHANGED routeVars  BY <1>2 DEF Retarget, Reown, Tick, Sweep
  <2> QED BY <1>0, <2>1, RoutesUntouched DEF routeVars
<1>3. CASE Worker
  <2>1. CASE UNCHANGED routeVars  BY <1>0, <2>1, RoutesUntouched DEF routeVars
  <2>2. CASE WorkerReplies
    <3>1. /\ UNCHANGED <<taken, cold, routing, sticky, routed>>
          /\ ask' = IF job.alive THEN [ask EXCEPT !.pc = "done", !.found = job.found] ELSE ask
      BY <2>2 DEF WorkerReplies
    <3>2. ask'.pc # "idle" => ask.pc # "idle" /\ ask'.call = ask.call
      BY <3>1 DEF Memory, Awaited, Queued
    <3> QED BY <1>0, <3>1, <3>2, RoutesUntouched
  <2> QED BY <1>3, <2>1, <2>2 DEF Worker, LookUp, Contain, LookUpDir, Git, Store, WorkerStep
<1>4. CASE Coordinator
  <2>1. CASE AskCached \/ Send \/ Timeout
    <3>1. UNCHANGED <<taken, cold, routing, sticky, routed>>  BY <2>1 DEF AskCached, Send, Timeout
    <3>2. ask'.pc # "idle" => ask.pc # "idle" /\ ask'.call = ask.call
      BY <2>1 DEF AskCached, Send, Timeout, Memory, Queued
    <3> QED BY <1>0, <3>1, <3>2, RoutesUntouched
  <2>2. CASE TakeCold
    <3>1. Stateless  BY <2>2 DEF TakeCold, Routes, InTurn
    <3>2. UNCHANGED <<sticky, routed>>  BY <2>2 DEF TakeCold
    <3> QED BY <3>1, <3>2, <1>1 DEF Routes, InTurn, Stuck, Followed, NamedBefore, Latest
  <2> QED BY <1>4, <2>1, <2>2 DEF Coordinator
<1>5. CASE TakeCall
  <2>1. CASE ~Stateless
    <3>1. /\ ask.pc = "idle" /\ ask' = [Idle EXCEPT !.call = taken + 1, !.pc = "ask"] /\ routing = NoCall
          /\ UNCHANGED <<cold, routing, sticky, routed>> /\ taken' = taken + 1 /\ taken + 1 \in CallIds
      BY <1>5, <2>1, <1>1 DEF TakeCall, Memory, Queued
    <3>2. InTurn'  BY <3>1, <2>1, <1>1 DEF Routes, InTurn, Idle, Memory, Queued
    <3>3. Stuck' /\ Followed'  BY <3>1, <1>1 DEF Routes, Stuck, Followed, NamedBefore, Latest
    <3> QED BY <3>2, <3>3 DEF Routes
  <2>2. CASE Stateless
    <3>1. InTurn' /\ Stuck'  BY <2>2, <1>1 DEF InTurn, Stuck
    <3>2. taken + 1 \in CallIds  BY <1>5, <1>1 DEF TakeCall, Memory, Queued
    <3>3. CASE UNCHANGED routed  BY <3>1, <3>3, <1>1 DEF Routes, Followed, NamedBefore, Latest
    <3>4. ASSUME NEW found \in Seq(Trees), Commit(taken + 1, found) \/ Fail(taken + 1) PROVE Routes'
      <4>1. Followed'  BY <1>0, <2>2, <3>2, <3>4, CommitGoesHome DEF Routes
      <4> QED BY <3>1, <4>1 DEF Routes
    <3>5. CASE Fail(taken + 1)
      <4>1. <<>> \in Seq(Trees)  OBVIOUS
      <4> QED BY <3>4, <3>5, <4>1
    <3>6. CASE Cached(taken + 1) /\ Commit(taken + 1, CachedTrees(taken + 1))
      <4>1. \A p \in DOMAIN pathsNow : pathsNow[p].tree \in Trees  BY Now DEF Memory, Kept, Entry
      <4>2. CachedTrees(taken + 1) \in Seq(Trees)
        BY <4>1, <3>2, <3>6, Served, CachedTreesFound DEF Memory, Shown
      <4> QED BY <3>4, <3>6, <4>2
    <3> QED BY <1>5, <2>2, <3>3, <3>5, <3>6 DEF TakeCall
  <2> QED BY <2>1, <2>2, <1>1
<1>6. CASE TakeResolved
  <2>1. /\ ask.pc \in {"done", "failed"} /\ ask' = Idle /\ ask.call \in CallIds
        /\ UNCHANGED <<taken, cold>> /\ ask.found \in Seq(Trees)
        /\ Commit(ask.call, ask.found) \/ Fail(ask.call)
    BY <1>6 DEF TakeResolved, Memory, Queued
  <2>2. CASE Stateless
    <3>1. InTurn' /\ Stuck'  BY <2>2, <1>1 DEF InTurn, Stuck
    <3>2. Followed'  BY <1>0, <2>1, <2>2, CommitGoesHome DEF Routes
    <3> QED BY <3>1, <3>2 DEF Routes
  <2>3. CASE ~Stateless
    <3>1. ask.call = taken /\ routed[taken].how = "none" /\ cold = <<>>
      BY <2>1, <2>3 DEF Routes, InTurn
    <3>2. Stuck' /\ Followed' /\ (\A c \in CallIds : c > taken => routed'[c].how = "none")
      BY <1>0, <2>1, <2>3, <3>1, CommitFollows
    <3>3. InTurn'  BY <2>1, <3>1, <3>2, <1>1 DEF InTurn, Idle
    <3> QED BY <3>2, <3>3 DEF Routes
  <2> QED BY <2>2, <2>3, <1>1
<1>7. CASE Spell
  <2>1. /\ UNCHANGED <<taken, cold, ask, sticky>> /\ routing' = NoCall /\ routing \in CallIds
        /\ \A c \in CallIds : routed'[c].how = routed[c].how /\ routed'[c].tree = routed[c].tree
    BY <1>7 DEF Spell, Memory, Queued
  <2>2. InTurn'
    <3>1. ~Stateless => ask.pc = "idle" /\ ask'.pc = "idle"  BY <1>7, <2>1 DEF Spell, Routes, InTurn
    <3> QED BY <2>1, <3>1, <1>1 DEF Routes, InTurn
  <2>3. Stuck'  BY <2>1, <1>1 DEF Routes, Stuck
  <2>4. ASSUME NEW c \in CallIds PROVE NamedBefore(c)' = NamedBefore(c) /\ NamedBefore(c) \subseteq CallIds
    <3>1. \A e \in 1 .. c - 1 : e \in CallIds  BY <1>1
    <3> QED BY <3>1, <2>1 DEF NamedBefore
  <2>5. Followed'  BY <2>1, <2>4, <1>1 DEF Routes, Followed, Latest
  <2> QED BY <2>2, <2>3, <2>5 DEF Routes
<1> QED BY <1>2, <1>3, <1>4, <1>5, <1>6, <1>7 DEF Next, Router

\* A call that names no worktree follows the last one that did (UnnamedFollowsNamed):
\* for any calls, in whatever order resolutions end, fail or run out of time.
THEOREM UnnamedFollow == ASSUME PathsAssumption PROVE Spec => []UnnamedFollowsNamed
<1>1. Init => Memory /\ Routes
  <2> SUFFICES ASSUME Init PROVE Routes  BY MemoryInit
  <2>1. \A c \in CallIds : routed[c].how = "none"  BY DEF Init, Unrouted
  <2>2. InTurn  BY <2>1 DEF Init, InTurn, Idle
  <2> QED BY <2>1, <2>2 DEF Init, Routes, Stuck, Followed
<1>2. Memory /\ Routes /\ [Next]_vars => (Memory /\ Routes)'
  <2>1. ASSUME Memory, Routes, UNCHANGED vars PROVE Routes'
    <3>1. UNCHANGED <<client, routeVars>>  BY <2>1 DEF vars
    <3> QED BY <2>1, <3>1, RoutesUntouched DEF routeVars
  <2> QED BY <2>1, MemoryKept, RoutesKept
<1>3. Memory /\ Routes => UnnamedFollowsNamed  BY FollowedIsEnough DEF Routes
<1> QED BY <1>1, <1>2, <1>3, PTL DEF Spec

-----------------------------------------------------------------------------
\* The spellings.

\* The i-th argument of call c is memoized, if at all, in a tree of ts.
MemoAmong(c, i, ts) == Calls[c][i] \in DOMAIN paths => Among(paths[Calls[c][i]].tree, ts)

\* How far the worker is: it has done with the arguments before its todo, and the memo
\* has none of them in a tree it did not find; the one it works on is not memoized.
Progress ==
  job.alive =>
    LET c == job.call
        k == Len(Calls[c]) - Len(job.todo)
    IN  /\ k >= 0 /\ \A i \in 1 .. Len(job.todo) : job.todo[i] = Calls[c][k + i]
        /\ \A i \in 1 .. k : MemoAmong(c, i, job.found)
        /\ job.pc \in {"dir", "tree", "git", "store"} => Head(job.todo) \notin DOMAIN paths

\* In a session the memo agrees with what was found until the call is spelled.
Agreed ==
  /\ routing # NoCall => ask.pc = "idle"
  /\ Progress
  /\ ask.pc = "done" => \A i \in 1 .. Len(Calls[ask.call]) : MemoAmong(ask.call, i, ask.found)
  /\ routing # NoCall /\ routed[routing].how = "named" =>
       \A i \in 1 .. Len(Calls[routing]) :
         Calls[routing][i] \in DOMAIN paths => paths[Calls[routing][i]].tree = routed[routing].tree
  /\ \A c \in CallIds : routed[c].how = "named" => \A e \in routed[c].named : e.tree = routed[c].tree

\* The memo loses entries at most.
Shrinks == \A p \in DOMAIN paths' : p \in DOMAIN paths /\ paths'[p] = paths[p]

\* A memo that loses entries disagrees with nothing.
LEMMA ShrinkingAgrees ==
  ASSUME PathsAssumption, Memory, Agreed, Shrinks, client' = client,
         UNCHANGED <<job, ask, routing, routed>>
  PROVE  Agreed'
<1>0. Calls' = Calls /\ CallIds' = CallIds  BY DEF Calls, CallIds
<1>1. \A c, i, ts : MemoAmong(c, i, ts) => MemoAmong(c, i, ts)'
  BY <1>0 DEF Shrinks, MemoAmong, Among
<1>2. Progress'  BY <1>0, <1>1 DEF Agreed, Progress, Shrinks
<1>3. ask'.pc = "done" => \A i \in 1 .. Len(Calls[ask.call]) : MemoAmong(ask.call, i, ask.found)'
  BY <1>1 DEF Agreed
<1>4. routing' # NoCall /\ routed'[routing'].how = "named" =>
       \A i \in 1 .. Len(Calls[routing]) :
         Calls[routing][i] \in DOMAIN paths' => paths'[Calls[routing][i]].tree = routed[routing].tree
  BY DEF Agreed, Shrinks
<1> QED BY <1>0, <1>2, <1>3, <1>4 DEF Agreed, MemoAmong

\* The memos as they are now have lost entries at most.
LEMMA NowShrinks ==
  ASSUME PathsAssumption, Memory, expireOnly PROVE Shrinks
<1>1. paths' = pathsNow  BY DEF expireOnly, expireMemos
<1> QED BY <1>1, Now DEF Shrinks, Memory

\* The worker is done with one more argument: it has its tree or the memo has none.
LEMMA OneMore ==
  ASSUME PathsAssumption, Memory, Agreed, client' = client, job.alive, job.todo # <<>>,
         NEW f \in Seq(Trees), \A t : Among(t, job.found) => Among(t, f),
         \A p \in DOMAIN paths' : p # Head(job.todo) => p \in DOMAIN paths /\ paths'[p] = paths[p],
         Head(job.todo) \in DOMAIN paths' => Among(paths'[Head(job.todo)].tree, f),
         job'.alive, job'.call = job.call, job'.todo = Tail(job.todo), job'.found = f, job'.pc = "paths"
  PROVE  Progress'
<1> DEFINE c == job.call
<1> DEFINE k == Len(Calls[c]) - Len(job.todo)
<1>0. /\ Calls' = Calls /\ c \in CallIds /\ Calls[c] \in Seq(PathNames)
      /\ job.todo \in Seq(PathNames)
  BY Served DEF Calls, Memory, Awaited, Queued, Shown, Working
<1>1. /\ k >= 0 /\ \A i \in 1 .. Len(job.todo) : job.todo[i] = Calls[c][k + i]
      /\ \A i \in 1 .. k : MemoAmong(c, i, job.found)
  BY DEF Agreed, Progress
<1>2. /\ Len(Tail(job.todo)) = Len(job.todo) - 1 /\ Len(job.todo) \in Nat \ {0}
      /\ \A i \in 1 .. Len(job.todo) - 1 : Tail(job.todo)[i] = job.todo[i + 1]
      /\ Head(job.todo) = job.todo[1] /\ Len(Calls[c]) \in Nat
  BY <1>0
<1>3. Len(Calls[c]) - Len(Tail(job.todo)) = k + 1 /\ k \in Int
  <2> DEFINE l == Len(Calls[c])
  <2> DEFINE m == Len(job.todo)
  <2> DEFINE n == Len(Tail(job.todo))
  <2>1. l \in Nat /\ m \in Nat /\ n = m - 1 /\ k = l - m  BY <1>2
  <2> HIDE DEF k, l, m, n
  <2>2. l - n = k + 1 /\ k \in Int  BY <2>1
  <2> QED BY <2>2 DEF l, n
<1>4. ASSUME NEW i \in 1 .. Len(Tail(job.todo)) PROVE Tail(job.todo)[i] = Calls[c][(k + 1) + i]
  <2>1. i + 1 \in 1 .. Len(job.todo) /\ i \in 1 .. Len(job.todo) - 1  BY <1>2
  <2> HIDE DEF k
  <2>2. k + (i + 1) = (k + 1) + i  BY <1>3, <2>1
  <2> QED BY <2>1, <2>2, <1>1, <1>2
<1>5. Calls[c][k + 1] = Head(job.todo)
  <2> HIDE DEF k
  <2> QED BY <1>1, <1>2
<1>6. ASSUME NEW i \in 1 .. k + 1, Calls[c][i] \in DOMAIN paths' PROVE Among(paths'[Calls[c][i]].tree, f)
  <2>1. CASE Calls[c][i] = Head(job.todo)  BY <2>1, <1>6
  <2>2. CASE Calls[c][i] # Head(job.todo)
    <3>1. Calls[c][i] \in DOMAIN paths /\ paths'[Calls[c][i]] = paths[Calls[c][i]]  BY <2>2, <1>6
    <3>2. i \in 1 .. k
      <4> HIDE DEF k
      <4> QED BY <2>2, <1>3, <1>5
    <3> QED BY <3>1, <3>2, <1>1 DEF MemoAmong
  <2> QED BY <2>1, <2>2
<1> HIDE DEF k
<1>7. k + 1 >= 0  BY <1>1, <1>3
<1>8. Calls'[job'.call] = Calls[c] /\ job'.todo = Tail(job.todo) /\ job'.found = f  BY <1>0
<1> HIDE DEF c
<1>9. Len(Calls'[job'.call]) - Len(job'.todo) = k + 1  BY <1>3, <1>8
<1>10. \A i \in 1 .. Len(job'.todo) : job'.todo[i] = Calls'[job'.call][(k + 1) + i]  BY <1>4, <1>8
<1>11. \A i \in 1 .. k + 1 : Calls'[job'.call][i] \in DOMAIN paths' =>
         Among(paths'[Calls'[job'.call][i]].tree, job'.found)
  BY <1>6, <1>8
<1>12. job'.pc = "paths"  OBVIOUS
<1> QED BY <1>7, <1>9, <1>10, <1>11, <1>12 DEF Progress, MemoAmong, Among

\* What else agrees when no call is being spelled and no resolution is done.
LEMMA AgreedAsIs ==
  ASSUME PathsAssumption, Memory, Agreed, client' = client, Progress', ask'.pc # "done",
         routing' = NoCall, UNCHANGED routed
  PROVE  Agreed'
<1>0. Calls' = Calls /\ CallIds' = CallIds  BY DEF Calls, CallIds
<1> QED BY <1>0 DEF Agreed

\* The worker keeps the agreement.
LEMMA WorkerAgrees ==
  ASSUME PathsAssumption, Memory, Routes, Agreed, ~Stateless, client' = client, Worker
  PROVE  Agreed'
<1>0. Calls' = Calls /\ CallIds' = CallIds  BY DEF Calls, CallIds
<1>1. job.alive => ask.pc = "wait" /\ job.call = ask.call /\ ask.call \in CallIds /\ routing = NoCall
  BY DEF Memory, Awaited, Queued, Routes, InTurn
<1>2. ASSUME ~job'.alive, Shrinks, UNCHANGED <<ask, routing, routed>> PROVE Agreed'
  <2>1. \A c, i, ts : MemoAmong(c, i, ts) => MemoAmong(c, i, ts)'
    BY <1>0, <1>2 DEF Shrinks, MemoAmong, Among
  <2>2. ask'.pc = "done" => \A i \in 1 .. Len(Calls[ask.call]) : MemoAmong(ask.call, i, ask.found)'
    BY <2>1, <1>2 DEF Agreed
  <2>3. routing' # NoCall /\ routed'[routing'].how = "named" =>
         \A i \in 1 .. Len(Calls[routing]) :
           Calls[routing][i] \in DOMAIN paths' => paths'[Calls[routing][i]].tree = routed[routing].tree
    BY <1>2 DEF Agreed, Shrinks
  <2> QED BY <1>0, <1>2, <2>2, <2>3 DEF Agreed, MemoAmong, Progress
<1>3. UNCHANGED memoVars => Shrinks  BY DEF memoVars, Shrinks
<1>4. CASE LookUp
  <2>1. expireOnly /\ UNCHANGED routeVars /\ job.alive /\ job.todo # <<>> /\ Shrinks /\ paths' = pathsNow
    BY <1>4, NowShrinks DEF LookUp, WorkerStep, expireOnly, expireMemos
  <2>2. CASE Head(job.todo) \in DOMAIN pathsNow
    <3> DEFINE f == WithoutRepeats(job.found, pathsNow[Head(job.todo)].tree)
    <3>1. job' = [job EXCEPT !.todo = Tail(@), !.found = f]
      BY <1>4, <2>2 DEF LookUp, WorkerStep
    <3>2. pathsNow[Head(job.todo)].tree \in Trees
      BY <2>2, Now DEF Memory, Kept, Entry
    <3>3. /\ f \in Seq(Trees) /\ Among(pathsNow[Head(job.todo)].tree, f)
          /\ \A t : Among(t, job.found) => Among(t, f)
      BY <3>2, Added DEF Memory, Working, PathsAssumption
    <3>4. job'.alive /\ job'.call = job.call /\ job'.todo = Tail(job.todo) /\ job'.found = f /\ job'.pc = "paths"
      <4> HIDE DEF f
      <4> QED BY <3>1, <2>1, <1>4 DEF Memory, Working, LookUp
    <3> HIDE DEF f
    <3>5. Progress'  BY <2>1, <3>3, <3>4, OneMore DEF Shrinks
    <3> QED BY <3>5, <2>1, <1>1, AgreedAsIs DEF routeVars
  <2>3. CASE Head(job.todo) \notin DOMAIN pathsNow
    <3>1. job' = [job EXCEPT !.pc = "dir", !.gen = generationNow]
      BY <1>4, <2>3 DEF LookUp, WorkerStep
    <3>2. /\ job'.alive /\ job'.call = job.call /\ job'.todo = job.todo /\ job'.found = job.found
      BY <3>1, <2>1 DEF Memory, Working
    <3>3. \A c, i, ts : MemoAmong(c, i, ts) => MemoAmong(c, i, ts)'
      BY <1>0, <2>1 DEF Shrinks, MemoAmong, Among
    <3>4. Progress'  BY <3>2, <3>3, <2>1, <2>3, <1>0 DEF Agreed, Progress
    <3> QED BY <3>4, <2>1, <1>1, AgreedAsIs DEF routeVars
  <2> QED BY <2>2, <2>3
<1>5. ASSUME UNCHANGED <<memoVars, routeVars>>, job'.alive = job.alive, job'.call = job.call,
             job'.todo = job.todo, job'.found = job.found,
             job.pc \in {"dir", "tree", "git", "store"}
      PROVE  Agreed'
  <2>1. CASE ~job.alive  BY <2>1, <1>2, <1>3, <1>5 DEF routeVars
  <2>2. CASE job.alive
    <3>1. paths' = paths  BY <1>5 DEF memoVars
    <3>3. \A c, i, ts : MemoAmong(c, i, ts) => MemoAmong(c, i, ts)'
      BY <1>0, <3>1 DEF MemoAmong, Among
    <3>2. Progress'  BY <3>1, <3>3, <2>2, <1>5, <1>0 DEF Agreed, Progress
    <3> QED BY <3>2, <2>2, <1>1, <1>5, AgreedAsIs DEF routeVars
  <2> QED BY <2>1, <2>2
<1>6. CASE Contain \/ LookUpDir
  BY <1>5, <1>6 DEF Contain, LookUpDir, WorkerStep, Memory, Working
<1>7. CASE Git
  <2>1. CASE job' = [job EXCEPT !.pc = "store", !.tree = treeOf[job.dir]]
    BY <1>5, <1>7, <2>1 DEF Git, WorkerStep, Memory, Working
  <2>2. CASE job' = Without(job)
    <3>1. UNCHANGED <<memoVars, routeVars>> /\ job.pc = "git" /\ job.todo # <<>> /\ paths' = paths
      BY <1>7 DEF Git, WorkerStep, Memory, Working, memoVars
    <3>2. /\ job'.alive = job.alive /\ job'.call = job.call /\ job'.todo = Tail(job.todo)
          /\ job'.found = job.found /\ job'.pc = "paths" /\ job.found \in Seq(Trees)
      BY <2>2 DEF Without, Memory, Working
    <3>3. CASE ~job.alive  BY <3>1, <3>2, <3>3, <1>2, <1>3 DEF routeVars
    <3>4. CASE job.alive
      <4>1. Head(job.todo) \notin DOMAIN paths  BY <3>1, <3>4 DEF Agreed, Progress
      <4>2. Progress'  BY <4>1, <3>1, <3>2, <3>4, OneMore
      <4> QED BY <4>2, <3>1, <3>4, <1>1, AgreedAsIs DEF routeVars
    <3> QED BY <3>3, <3>4
  <2> QED BY <1>7, <2>1, <2>2 DEF Git, WorkerStep
<1>8. CASE Store
  <2> DEFINE f == WithoutRepeats(job.found, job.tree)
  <2> DEFINE P == memoize(pathsNow, Head(job.todo), [tree |-> job.tree, dir |-> job.dir])
  <2>1. /\ job.pc = "store" /\ UNCHANGED routeVars /\ job.todo # <<>> /\ job.tree \in Trees
        /\ job' = [Without(job) EXCEPT !.found = f]
    <3>1. job.pc = "store" /\ UNCHANGED routeVars /\ job' = [Without(job) EXCEPT !.found = f]
      <4>1. [Without(job) EXCEPT !.found = f] = [Without(job) EXCEPT !.found = WithoutRepeats(@, job.tree)]
        BY DEF Without, Memory, Working
      <4> QED BY <4>1, <1>8 DEF Store, WorkerStep
    <3> HIDE DEF f
    <3> QED BY <3>1 DEF Memory, Working
  <2>2. f \in Seq(Trees) /\ Among(job.tree, f) /\ \A t : Among(t, job.found) => Among(t, f)
    BY <2>1, Added DEF Memory, Working, PathsAssumption
  <2>3. /\ job'.alive = job.alive /\ job'.call = job.call /\ job'.todo = Tail(job.todo)
        /\ job'.found = f /\ job'.pc = "paths"
    <3> HIDE DEF f
    <3> QED BY <2>1 DEF Without, Memory, Working
  <2>4. CASE expireOnly
    <3>1. Shrinks  BY <2>4, NowShrinks
    <3>2. CASE ~job.alive  BY <2>1, <2>3, <3>1, <3>2, <1>2 DEF routeVars
    <3>3. CASE job.alive
      <4>1. Head(job.todo) \notin DOMAIN paths'
        BY <2>1, <3>1, <3>3 DEF Agreed, Progress, Shrinks
      <4> HIDE DEF f
      <4>2. Progress'  BY <4>1, <3>1, <2>1, <2>2, <2>3, <3>3, OneMore DEF Shrinks
      <4> QED BY <4>2, <2>1, <3>3, <1>1, AgreedAsIs DEF routeVars
    <3> QED BY <3>2, <3>3
  <2>5. CASE job.alive /\ paths' = P
    <3>1. CacheEntries \in Nat \ {0}  BY Served DEF Memory, Shown
    <3>2. /\ P[Head(job.todo)] = [tree |-> job.tree, dir |-> job.dir]
          /\ \A k \in DOMAIN P : k # Head(job.todo) => k \in DOMAIN pathsNow /\ P[k] = pathsNow[k]
      BY <3>1, Now, Memoized DEF Memory
    <3> HIDE DEF P, f
    <3>3. \A p \in DOMAIN paths' : p # Head(job.todo) => p \in DOMAIN paths /\ paths'[p] = paths[p]
      BY <3>2, <2>5, Now DEF Memory
    <3>4. paths'[Head(job.todo)].tree = job.tree  BY <3>2, <2>5
    <3>5. Progress'  BY <3>3, <3>4, <2>1, <2>2, <2>3, <2>5, OneMore
    <3> QED BY <3>5, <2>1, <2>5, <1>1, AgreedAsIs DEF routeVars
  <2> QED BY <1>8, <2>4, <2>5 DEF Store, expireMemos
<1>9. CASE WorkerReplies
  <2>1. /\ job' = NoJob /\ UNCHANGED <<memoVars, routing, routed>>
        /\ ask' = IF job.alive THEN [ask EXCEPT !.pc = "done", !.found = job.found] ELSE ask
        /\ job.todo = <<>> \/ ~job.alive
    BY <1>9 DEF WorkerReplies
  <2>2. CASE ~job.alive  BY <2>1, <2>2, <1>2, <1>3 DEF NoJob
  <2>3. CASE job.alive
    <3>1. /\ ask'.pc = "done" /\ ask'.found = job.found /\ ask'.call = job.call /\ routing' = NoCall
          /\ job.todo = <<>> /\ paths' = paths
      BY <2>1, <2>3, <1>1 DEF Memory, Queued, memoVars
    <3>2. Len(job.todo) = 0 /\ Calls[job.call] \in Seq(PathNames)
      BY <3>1, <2>3, <1>1, Served DEF Memory, Shown
    <3>3. Len(Calls[job.call]) - Len(job.todo) = Len(Calls[job.call])  BY <3>2
    <3>4. \A i \in 1 .. Len(Calls[job.call]) : MemoAmong(job.call, i, job.found)
      BY <3>3, <2>3 DEF Agreed, Progress
    <3>5. \A i \in 1 .. Len(Calls'[ask'.call]) : Calls'[ask'.call][i] \in DOMAIN paths' =>
            Among(paths'[Calls'[ask'.call][i]].tree, ask'.found)
      BY <3>1, <3>4, <1>0 DEF MemoAmong
    <3>6. Progress'  BY <2>1 DEF Progress, NoJob
    <3> QED BY <3>1, <3>5, <3>6, <2>1, <1>0 DEF Agreed, MemoAmong, Among
  <2> QED BY <2>2, <2>3
<1> QED BY <1>4, <1>6, <1>7, <1>8, <1>9 DEF Worker

\* The caller keeps the agreement.
LEMMA CoordinatorAgrees ==
  ASSUME PathsAssumption, Memory, Routes, Agreed, ~Stateless, client' = client, Coordinator
  PROVE  Agreed'
<1>0. Calls' = Calls /\ CallIds' = CallIds  BY DEF Calls, CallIds
<1>1. CASE TakeCold  BY <1>1 DEF TakeCold, Routes, InTurn
<1>2. ask.pc # "idle" => ask.call \in CallIds /\ routing = NoCall
  BY DEF Memory, Queued, Routes, InTurn
<1>3. CASE AskCached
  <2>1. /\ expireOnly /\ UNCHANGED <<job, routing, routed>> /\ ask.pc = "ask" /\ ask.call \in CallIds
        /\ ask' = IF Cached(ask.call)
                  THEN [ask EXCEPT !.pc = "done", !.found = CachedTrees(ask.call)]
                  ELSE [ask EXCEPT !.pc = "send"]
    BY <1>2, <1>3 DEF AskCached
  <2>2. ~job'.alive  BY <2>1 DEF Memory, Awaited
  <2>3. Progress'  BY <2>2 DEF Progress
  <2>4. CASE ~Cached(ask.call)
    <3>1. ask' = [ask EXCEPT !.pc = "send"]  BY <2>1, <2>4
    <3>2. ask'.pc # "done"  BY <3>1 DEF Memory, Queued
    <3> QED BY <2>1, <2>3, <3>2, <1>2, AgreedAsIs
  <2>5. CASE Cached(ask.call)
    <3>1. \A p \in DOMAIN pathsNow : pathsNow[p].tree \in Trees  BY Now DEF Memory, Kept, Entry
    <3>2. \A i \in 1 .. Len(Calls[ask.call]) :
             Among(pathsNow[Calls[ask.call][i]].tree, CachedTrees(ask.call))
      BY <2>1, <2>5, <3>1, Served, CachedTreesFound DEF Memory, Shown
    <3>3. ask'.call = ask.call /\ ask'.found = CachedTrees(ask.call)  BY <2>1, <2>5 DEF Memory, Queued
    <3>4. paths' = pathsNow  BY <2>1 DEF expireOnly, expireMemos
    <3>5. \A i \in 1 .. Len(Calls'[ask'.call]) : Calls'[ask'.call][i] \in DOMAIN paths' =>
            Among(paths'[Calls'[ask'.call][i]].tree, ask'.found)
      BY <3>2, <3>3, <3>4, <1>0
    <3>6. routing' = NoCall  BY <2>1, <1>2
    <3>7. \A c \in CallIds' : routed'[c].how = "named" => \A e \in routed'[c].named : e.tree = routed'[c].tree
      BY <2>1, <1>0 DEF Agreed
    <3> QED BY <2>3, <3>5, <3>6, <3>7 DEF Agreed, MemoAmong, Among
  <2> QED BY <2>4, <2>5
<1>4. CASE Send
  <2>1. /\ UNCHANGED <<memoVars, routing, routed>> /\ ask.call \in CallIds /\ routing = NoCall
        /\ ask' = [ask EXCEPT !.pc = "wait"]
        /\ job' = [NoJob EXCEPT !.call = ask.call, !.pc = "paths", !.alive = TRUE, !.todo = Calls[ask.call]]
    BY <1>2, <1>4 DEF Send
  <2>2. job'.call = ask.call /\ job'.todo = Calls[ask.call] /\ job'.pc = "paths"
    BY <2>1 DEF NoJob
  <2>3. Calls'[job'.call] = job'.todo /\ job'.todo \in Seq(PathNames)
    BY <2>1, <2>2, <1>0, Served DEF Memory, Shown
  <2>4. Len(job'.todo) \in Nat  BY <2>3
  <2>5. /\ Len(Calls'[job'.call]) - Len(job'.todo) = 0 /\ 1 .. 0 = {}
        /\ \A i \in 1 .. Len(job'.todo) : 0 + i = i
    BY <2>3, <2>4
  <2>6. Progress'
    <3>1. \A i \in 1 .. Len(job'.todo) : job'.todo[i] = Calls'[job'.call][0 + i]  BY <2>3, <2>5
    <3>2. \A i \in 1 .. 0 : MemoAmong(job.call, i, job.found)'  BY <2>5
    <3>3. Len(Calls'[job'.call]) - Len(job'.todo) >= 0  BY <2>5
    <3>4. job'.pc \notin {"dir", "tree", "git", "store"}  BY <2>2
    <3> QED BY <2>5, <3>1, <3>2, <3>3, <3>4 DEF Progress
  <2>7. ask'.pc # "done"  BY <2>1 DEF Memory, Queued
  <2> QED BY <2>1, <2>6, <2>7, AgreedAsIs
<1>5. CASE Timeout
  <2>1. /\ UNCHANGED <<memoVars, routing, routed>> /\ routing = NoCall
        /\ ask' = [ask EXCEPT !.pc = "failed"]
        /\ job' = IF ask.pc = "wait" THEN [job EXCEPT !.alive = FALSE] ELSE job
    BY <1>2, <1>5 DEF Timeout
  <2>2. ~job'.alive  BY <2>1 DEF Memory, Awaited, Working
  <2>3. Progress'  BY <2>2 DEF Progress
  <2>4. ask'.pc # "done"  BY <2>1 DEF Memory, Queued
  <2> QED BY <2>1, <2>3, <2>4, AgreedAsIs
<1> QED BY <1>1, <1>3, <1>4, <1>5 DEF Coordinator

\* The router keeps the agreement.
LEMMA RouterAgrees ==
  ASSUME PathsAssumption, Memory, Routes, Agreed, ~Stateless, client' = client, Router
  PROVE  Agreed'
<1>0. Calls' = Calls /\ CallIds' = CallIds  BY DEF Calls, CallIds
<1>1. NoCall \notin CallIds /\ \A c \in CallIds : Calls[c] \in Seq(PathNames)
  BY Served DEF Memory, Shown
<1>2. \A c, i, ts : paths' = paths /\ MemoAmong(c, i, ts) => MemoAmong(c, i, ts)'
  BY <1>0 DEF MemoAmong, Among
<1>3. CASE TakeCall
  <2>1. /\ ask.pc = "idle" /\ ask' = [Idle EXCEPT !.call = taken + 1, !.pc = "ask"] /\ routing = NoCall
        /\ UNCHANGED <<memoVars, job, routing, routed>>
    BY <1>3 DEF TakeCall
  <2>2. ~job'.alive  BY <2>1 DEF Memory, Awaited
  <2>3. Progress'  BY <2>2 DEF Progress
  <2>4. ask'.pc # "done"  BY <2>1 DEF Idle
  <2> QED BY <2>1, <2>3, <2>4, AgreedAsIs
<1>4. CASE TakeResolved
  <2>1. /\ ask.pc \in {"done", "failed"} /\ ask' = Idle /\ ask.call \in CallIds /\ ask.found \in Seq(Trees)
        /\ UNCHANGED <<memoVars, job>> /\ routing = NoCall
    BY <1>4 DEF TakeResolved, Memory, Queued
  <2>2. ~job'.alive  BY <2>1 DEF Memory, Awaited
  <2>3. Progress'  BY <2>2 DEF Progress
  <2>4. paths' = paths /\ ask'.pc = "idle"  BY <2>1 DEF memoVars, Idle
  <2>5. CASE Fail(ask.call)
    <3>1. /\ routed' = [routed EXCEPT ![ask.call] = [Unrouted EXCEPT !.how = "failed"]]
          /\ routing' = NoCall
      BY <2>1, <2>5 DEF Fail
    <3>2. \A c \in CallIds : routed'[c].how = "named" => \A e \in routed'[c].named : e.tree = routed'[c].tree
      BY <3>1 DEF Agreed, Memory, Queued, Unrouted
    <3> QED BY <2>3, <2>4, <3>1, <3>2, <1>0 DEF Agreed
  <2>6. CASE ask.pc = "done" /\ Commit(ask.call, ask.found)
    <3>1. /\ routing' \in {ask.call, NoCall}
          /\ \A c \in CallIds : c # ask.call => routed'[c] = routed[c]
          /\ routed'[ask.call].named = {}
          /\ routed'[ask.call].how = "named" =>
               Len(ask.found) = 1 /\ routed'[ask.call].tree = ask.found[1]
      <4>1. CASE Len(ask.found) > 1 /\ Fail(ask.call)
        BY <2>1, <4>1 DEF Fail, Unrouted, Memory, Queued
      <4>2. CASE Len(ask.found) = 1 /\ Commit(ask.call, ask.found)
        <5>1. /\ routed' = [routed EXCEPT ![ask.call] =
                              [how |-> "named", tree |-> ask.found[1], named |-> {}]]
              /\ routing' \in {ask.call, NoCall}
          BY <4>2 DEF Commit
        <5> QED BY <5>1, <4>2, <2>1 DEF Memory, Queued
      <4>3. CASE Len(ask.found) = 0 /\ Commit(ask.call, ask.found)
        <5> DEFINE t == IF ~Stateless /\ sticky # None THEN sticky ELSE Home
        <5>1. /\ routed' = [routed EXCEPT ![ask.call] =
                              [how |-> "unnamed", named |-> {}, tree |-> t]]
              /\ routing' \in {ask.call, NoCall}
          BY <4>3 DEF Commit
        <5> HIDE DEF t
        <5> QED BY <5>1, <2>1 DEF Memory, Queued
      <4> QED BY <2>6, <4>1, <4>2, <4>3 DEF Commit
    <3>2. \A c \in CallIds : routed'[c].how = "named" => \A e \in routed'[c].named : e.tree = routed'[c].tree
      BY <3>1 DEF Agreed
    <3>3. ASSUME routing' # NoCall, routed'[routing'].how = "named",
                 NEW i \in 1 .. Len(Calls[routing']), Calls[routing'][i] \in DOMAIN paths'
          PROVE  paths'[Calls[routing'][i]].tree = routed'[routing'].tree
      <4>1. /\ routing' = ask.call /\ Len(ask.found) = 1
            /\ routed'[routing'].tree = ask.found[1]
        BY <3>1, <3>3
      <4>2. Among(paths[Calls[ask.call][i]].tree, ask.found)
        BY <4>1, <3>3, <2>4, <2>6 DEF Agreed, MemoAmong
      <4>3. paths[Calls[ask.call][i]].tree = ask.found[1]  BY <4>1, <4>2 DEF Among
      <4> QED BY <4>1, <4>3, <2>4
    <3> QED BY <2>3, <2>4, <3>2, <3>3, <1>0 DEF Agreed
  <2> QED BY <1>4, <2>5, <2>6 DEF TakeResolved
<1>5. CASE Spell
  <2> DEFINE n == {paths[p] : p \in {Calls[routing][i] : i \in DOMAIN Calls[routing]} \cap DOMAIN paths}
  <2>1. /\ UNCHANGED <<memoVars, job, ask>> /\ routing \in CallIds /\ routing' = NoCall
        /\ routed' = [routed EXCEPT ![routing].named = n] /\ ask.pc = "idle"
    BY <1>1, <1>5 DEF Spell, Memory, Queued, Agreed
  <2>2. routed[routing].how = "named" => \A e \in n : e.tree = routed[routing].tree
    <3>1. DOMAIN Calls[routing] = 1 .. Len(Calls[routing])  BY <2>1, <1>1
    <3> QED BY <3>1, <2>1, <1>1 DEF Agreed
  <2> HIDE DEF n
  <2>3. \A c \in CallIds : routed'[c].how = "named" => \A e \in routed'[c].named : e.tree = routed'[c].tree
    BY <2>1, <2>2 DEF Agreed, Memory, Queued
  <2>4. ~job'.alive  BY <2>1 DEF Memory, Awaited
  <2>5. Progress' /\ ask'.pc = "idle"  BY <2>1, <2>4 DEF Progress
  <2> QED BY <2>1, <2>3, <2>5, <1>0 DEF Agreed
<1> QED BY <1>3, <1>4, <1>5 DEF Router

\* In a session a call is spelled by the resolution that routed it
\* (SpellingFollowsRoute): for any file system that moves in between, and however
\* the memos fill, clear and expire.
THEOREM SpelledAsRouted == ASSUME PathsAssumption PROVE Spec => []SpellingFollowsRoute
<1> DEFINE IInv == Memory /\ Routes /\ (~Stateless => Agreed)
<1>1. Init => IInv
  <2> SUFFICES ASSUME Init PROVE IInv  OBVIOUS
  <2>1. \A c \in CallIds : routed[c].how = "none"  BY DEF Init, Unrouted
  <2>2. InTurn  BY <2>1 DEF Init, InTurn, Idle
  <2>3. Routes  BY <2>1, <2>2 DEF Init, Routes, Stuck, Followed
  <2>4. Agreed  BY <2>1 DEF Init, Agreed, Idle, Progress, NoJob
  <2> QED BY <2>3, <2>4, MemoryInit
<1>2. IInv /\ [Next]_vars => IInv'
  <2> SUFFICES ASSUME Memory, Routes, ~Stateless => Agreed, [Next]_vars
               PROVE  Routes' /\ (~Stateless' => Agreed')
    BY MemoryKept
  <2>1. CASE UNCHANGED vars
    <3>1. UNCHANGED <<client, memoVars, job, routeVars>>  BY <2>1 DEF vars
    <3>2. Routes'  BY <3>1, RoutesUntouched DEF routeVars
    <3>3. Shrinks /\ (~Stateless' => ~Stateless)  BY <3>1 DEF Stateless, memoVars, Shrinks
    <3>4. ~Stateless' => Agreed'  BY <3>1, <3>3, ShrinkingAgrees DEF routeVars
    <3> QED BY <3>2, <3>4
  <2>2. ASSUME Next, ~Stateless' PROVE Agreed'
    <3>1. client' = client /\ ~Stateless  BY <2>2 DEF Next, Stateless
    <3>2. CASE Retarget \/ Reown \/ Tick \/ Sweep
      <4>1. UNCHANGED <<job, routeVars>>  BY <3>2 DEF Retarget, Reown, Tick, Sweep
      <4>2. Shrinks
        <5>1. CASE Sweep  BY <5>1, NowShrinks DEF Sweep
        <5>2. CASE Retarget \/ Reown \/ Tick  BY <5>2 DEF Retarget, Reown, Tick, Shrinks
        <5> QED BY <3>2, <5>1, <5>2
      <4> QED BY <3>1, <4>1, <4>2, ShrinkingAgrees DEF routeVars
    <3>3. Worker \/ Coordinator \/ Router => Agreed'
      BY <3>1, WorkerAgrees, CoordinatorAgrees, RouterAgrees
    <3> QED BY <2>2, <3>1, <3>2, <3>3 DEF Next
  <2> QED BY <2>1, <2>2, RoutesKept
<1>3. IInv => SpellingFollowsRoute  BY DEF Agreed, SpellingFollowsRoute
<1> QED BY <1>1, <1>2, <1>3, PTL DEF Spec
=============================================================================
