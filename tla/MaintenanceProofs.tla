-------------------------- MODULE MaintenanceProofs --------------------------
(***************************************************************************)
(* Safety of what a sweep judges by.  Watch roots, for any names, servers, *)
(* connections, answers and changes of the tree: the running server is     *)
(* judged by its own first answer.  Pending files, for any managers,       *)
(* sweepers and calls, and however often a manager is killed, started      *)
(* again or fails to write: at rest a file says what is pending, and a     *)
(* call a sweep could know of spares its server.  Eviction, for any        *)
(* records.  The plan of what to watch, for any directories and rules.     *)
(***************************************************************************)
EXTENDS MCMaintenance, DataLemmas

-----------------------------------------------------------------------------
(* Watch roots. *)

\* The connections that were dialled.
Conns == 1 .. MaxConns

\* A connection's pending answer.
Asking(g) == job[g].phase # "idle"

\* Servers and connections come one after another.
Ordered ==
  /\ \A g \in Conns : g <= gen => serves[g] \in 1 .. started
  /\ \A g \in Conns : g > gen => ~Asking(g)
  /\ \A g, h \in Conns : g <= h /\ h <= gen => serves[g] <= serves[h]
  /\ record = NoRecord \/ (record.id = started /\ record.id # 0)
  /\ \A s \in Servers : first[s] # Unset => s <= started

\* Answers of a later connection were asked for later.
Dated ==
  /\ \A g \in Conns : Asking(g) => job[g].at < now
  /\ \A g, h \in Conns : g < h /\ Asking(g) /\ Asking(h) => job[g].at < job[h].at

\* What is remembered was asked for by the connection h: later than what any earlier
\* connection asks for, and earlier than what any later one does.
By(h) ==
  /\ plan.server = Identity(serves[h]) /\ first[serves[h]] # Unset
  /\ \A g \in Conns : Asking(g) => /\ g < h => job[g].at < plan.planned
                                   /\ g > h => job[g].at > plan.planned

Signed == plan # NoPlan => \E h \in 1 .. gen : By(h)

\* The plan in the map is the first of the server that runs.
OwnFirst ==
  \A s \in Servers : record.id = s /\ ~record.terminating /\ s \notin Legacy /\ first[s] # Unset =>
    plan # NoPlan /\ plan.server = s /\ plan.roots = first[s]

\* A sweep judges by what was in the map, and uses it up for a server that leaves.
Judging ==
  sweep.phase # "idle" =>
    /\ sweep.rec.id \in 1 .. started /\ sweep.snap # NoPlan /\ sweep.snap.taken < now
    /\ plan # NoPlan /\ plan.taken = sweep.snap.taken => plan = sweep.snap
    /\ sweep.snap.server <= sweep.rec.id
    /\ sweep.usedUp => Leaves(record, sweep.rec)
    /\ sweep.rec.id \notin Legacy /\ sweep.snap.server # 0 =>
         /\ sweep.snap.server = sweep.rec.id /\ first[sweep.rec.id] = sweep.snap.roots
    /\ Describes(sweep.snap, sweep.rec)

Watched == TypeOK /\ Legacy \in Legacies /\ Ordered /\ Dated /\ Signed /\ OwnFirst /\ Judging

\* No roots are the ones that stand for an answer not yet given.
LEMMA Given == ASSUME WatchAssumption, NEW r \in Roots PROVE r # Unset
<1>1. Unset.partial = TRUE /\ Unset.names = {Docs} /\ Docs \notin Names
  BY DEF Unset, WatchAssumption
<1>2. CASE r = NoRoots  BY <1>1, <1>2 DEF NoRoots
<1>3. CASE r \in [partial : {TRUE}, names : SUBSET Names]  BY <1>1, <1>3
<1> QED BY <1>2, <1>3 DEF Roots

\* What there is where nothing is.
LEMMA Nothing ==
  ASSUME WatchAssumption
  PROVE  /\ NoRoots \in Roots /\ NoPlan \in Plans /\ NoRecord \in Records
         /\ NoJob \in [phase : {"idle"}, at : Nat, roots : Roots]
         /\ NoSweep \in [phase : {"idle"}, rec : Records, snap : Plans, usedUp : {FALSE}]
         /\ 0 \in 0 .. MaxServers /\ 0 \in 0 .. MaxConns /\ 0 \in 0 .. MaxChanges
<1>1. 0 \in 0 .. MaxServers /\ -1 \in -1 .. MaxServers /\ 0 \in 0 .. MaxConns /\ 0 \in 0 .. MaxChanges
  BY DEF WatchAssumption
<1>2. NoRoots \in Roots  BY DEF Roots
<1>3. NoPlan \in Plans  BY <1>1, <1>2 DEF NoPlan, Plans
<1>4. NoRecord \in Records  BY <1>1 DEF NoRecord, Records
<1> QED BY <1>1, <1>2, <1>3, <1>4 DEF NoJob, NoSweep

\* The initial states.
LEMMA WatchedInit == ASSUME WatchAssumption, Init PROVE Watched
<1>1. TypeOK
  <2>1. job \in [1..MaxConns -> [phase : {"idle", "queued", "planning", "walked", "planned", "remembered", "failed"},
                                at : Nat, roots : Roots]]
    BY Nothing DEF Init
  <2>2. sweep \in [phase : {"idle", "copied", "condemned", "committed"}, rec : Records,
                  snap : Plans, usedUp : BOOLEAN]
    BY Nothing DEF Init
  <2>3. first \in [Servers -> Roots \cup {Unset}]  BY DEF Init
  <2>4. serves \in [1..MaxConns -> 0..MaxServers]  BY Nothing DEF Init
  <2> QED BY Nothing, <2>1, <2>2, <2>3, <2>4 DEF Init, TypeOK
<1>2. Ordered /\ Dated /\ Signed
  <2>1. \A g \in Conns : ~Asking(g) /\ ~(g <= gen)  BY DEF Init, Asking, Conns, NoJob
  <2>2. \A s \in Servers : first[s] = Unset  BY DEF Init
  <2>3. Ordered
    <3>1. \A h \in Conns : ~(h <= gen)  BY <2>1
    <3> QED BY <2>1, <2>2, <3>1 DEF Init, Ordered
  <2> QED BY <2>1, <2>3 DEF Init, Dated, Signed
<1>3. OwnFirst /\ Judging  BY DEF Init, OwnFirst, Judging, NoSweep, NoRecord, Unset, Servers
<1> QED BY <1>1, <1>2, <1>3 DEF Init, Watched

\* The tree changes.
LEMMA TreeWatched ==
  ASSUME WatchAssumption, Watched, Legacy' = Legacy, (\E n \in Names : ChangeTree(n)) \/ EditModule
  PROVE  Watched'
<1> USE DEF Watched
<1>1. /\ UNCHANGED <<now, record, started, connVars, job, worker, plan, sweep, first>>
      /\ tree' \in SUBSET Names /\ filtered' \in BOOLEAN /\ edited' \in SUBSET Servers
      /\ changes' \in 0 .. MaxChanges
  <2>1. UNCHANGED <<now, record, started, connVars, job, worker, plan, sweep, first>>
    BY DEF ChangeTree, EditModule
  <2>2. tree' \in SUBSET Names /\ filtered' \in BOOLEAN  BY DEF ChangeTree, EditModule, TypeOK
  <2>3. 1 .. started \subseteq Servers  BY DEF TypeOK, Servers, WatchAssumption
  <2>4. edited' \in SUBSET Servers  BY <2>3 DEF ChangeTree, EditModule, TypeOK
  <2>5. changes' \in 0 .. MaxChanges
    <3>1. changes \in 0 .. MaxChanges /\ changes < MaxChanges /\ changes' = changes + 1 /\ MaxChanges \in Nat
      BY DEF ChangeTree, EditModule, TypeOK, WatchAssumption
    <3> QED BY <3>1
  <2> QED BY <2>1, <2>2, <2>4, <2>5
<1>2. TypeOK'  BY <1>1 DEF TypeOK, connVars
<1>3. Ordered' /\ Dated'  BY <1>1 DEF Ordered, Dated, connVars, Asking
<1>4. Signed' /\ OwnFirst'  BY <1>1 DEF Signed, By, OwnFirst, connVars, Asking, Identity
<1>5. Judging'  BY <1>1 DEF Judging, Describes, Identity, Leaves
<1> QED BY <1>2, <1>3, <1>4, <1>5

\* Servers start and exit.
LEMMA ServersWatched ==
  ASSUME WatchAssumption, Watched, Legacy' = Legacy, StartServer \/ ServerExits
  PROVE  Watched'
<1> USE DEF Watched
<1>1. /\ UNCHANGED <<treeVars, connVars, job, worker, plan, sweep, first>>
      /\ now' \in {now, now + 1} /\ started' \in {started, started + 1} /\ started' \in 0 .. MaxServers
      /\ now \in Nat /\ started \in Nat
  BY DEF StartServer, ServerExits, TypeOK, WatchAssumption
<1>2. \/ record' = NoRecord /\ started' = started
      \/ /\ started' = started + 1 /\ record'.id = started' /\ ~record'.terminating
         /\ record' \in Records /\ record = NoRecord
  <2>1. CASE StartServer
    <3>1. /\ started' = started + 1 /\ record = NoRecord /\ now \in Nat /\ started' \in 0 .. MaxServers
          /\ record' = [id |-> started', at |-> IF started' \in Legacy THEN 0 ELSE now, terminating |-> FALSE]
      BY <2>1, <1>1 DEF StartServer
    <3> QED BY <3>1 DEF Records
  <2>2. CASE ServerExits  BY <2>2 DEF ServerExits
  <2> QED BY <2>1, <2>2
<1>3. TypeOK'
  <2>1. record' \in Records  BY <1>2, Nothing
  <2>2. plan' # NoPlan => plan'.planned < plan'.taken /\ plan'.taken < now'
    BY <1>1 DEF TypeOK, Plans
  <2>3. now' \in Nat  BY <1>1
  <2> QED BY <1>1, <2>1, <2>2, <2>3 DEF TypeOK, treeVars, connVars
<1>4. Ordered'
  <2>1. record' = NoRecord \/ (record'.id = started' /\ record'.id # 0)  BY <1>1, <1>2
  <2>2. 1 .. started \subseteq 1 .. started'  BY <1>1
  <2>3. \A s \in Servers : s <= started => s <= started'  BY <1>1 DEF Servers
  <2> QED BY <1>1, <2>1, <2>2, <2>3 DEF Ordered, connVars, Asking
<1>5. Dated'  BY <1>1 DEF Dated, Asking, TypeOK, Conns
<1>6. Signed'  BY <1>1 DEF Signed, By, connVars, Asking, Identity
<1>7. OwnFirst'
  <2>1. CASE record' = NoRecord  BY <2>1 DEF OwnFirst, NoRecord, Servers
  <2>2. CASE record'.id = started + 1  BY <2>2, <1>1 DEF OwnFirst, Ordered, Servers
  <2> QED BY <1>2, <2>1, <2>2
<1>8. Judging'
  <2>1. \A r : Leaves(record, r) /\ r.id \in 1 .. started => Leaves(record', r)
    BY <1>1, <1>2 DEF Leaves, NoRecord
  <2> QED BY <1>1, <2>1 DEF Judging, Describes, Identity, TypeOK, Plans
<1> QED BY <1>3, <1>4, <1>5, <1>6, <1>7, <1>8

\* The lane dials and gives up.
LEMMA LaneWatched ==
  ASSUME WatchAssumption, Watched, Legacy' = Legacy, Dial \/ Close
  PROVE  Watched'
<1> USE DEF Watched
<1>1. UNCHANGED <<now, treeVars, record, started, job, worker, plan, sweep, first>>
  BY DEF Dial, Close
<1>2. OwnFirst' /\ Dated'  BY <1>1 DEF OwnFirst, Dated, Asking
<1>3. Judging'  BY <1>1 DEF Judging, Describes, Identity, Leaves
<1>4. CASE Close
  <2>1. UNCHANGED <<gen, serves>> /\ open' = FALSE  BY <1>4 DEF Close
  <2>2. TypeOK'  BY <1>1, <2>1 DEF TypeOK, treeVars
  <2>3. Ordered' /\ Signed'  BY <1>1, <2>1 DEF Ordered, Signed, By, Asking, Identity
  <2> QED BY <2>2, <2>3, <1>1, <1>2, <1>3
<1>5. CASE Dial
  <2>1. /\ gen' = gen + 1 /\ open' = TRUE /\ gen' \in Conns /\ gen \in 0 .. MaxConns
        /\ serves' = [serves EXCEPT ![gen'] = record.id] /\ record.id = started /\ record.id \in 1 .. started
        /\ serves \in [Conns -> 0 .. MaxServers]
    BY <1>5 DEF Dial, TypeOK, WatchAssumption, Conns, Ordered, Records
  <2>2. serves' \in [Conns -> 0 .. MaxServers]  BY <2>1 DEF TypeOK, Records
  <2>3. TypeOK'  BY <1>1, <2>1, <2>2 DEF TypeOK, treeVars, Conns
  <2>4. /\ serves'[gen'] = started /\ \A g \in Conns : g <= gen => serves'[g] = serves[g]
    BY <2>1
  <2>5. Ordered'
    <3>1. \A g \in Conns : g <= gen' => g <= gen \/ g = gen'  BY <2>1 DEF Conns
    <3>2. \A g \in Conns : g <= gen' => serves'[g] \in 1 .. started'
      BY <3>1, <2>4, <2>1, <1>1 DEF Ordered
    <3>3. \A g, h \in Conns : g <= h /\ h <= gen' => serves'[g] <= serves'[h]
      <4> SUFFICES ASSUME NEW g \in Conns, NEW h \in Conns, g <= h, h <= gen'
                   PROVE  serves'[g] <= serves'[h]
        OBVIOUS
      <4>1. CASE h <= gen  BY <4>1, <2>1, <2>4 DEF Ordered, Conns
      <4>2. CASE h = gen'  BY <4>2, <3>2, <2>4, <1>1
      <4> QED BY <3>1, <4>1, <4>2
    <3>4. \A g \in Conns : g > gen' => ~Asking(g)'  BY <1>1, <2>1 DEF Ordered, Asking, Conns
    <3> QED BY <3>2, <3>3, <3>4, <1>1 DEF Ordered
  <2>6. Signed'
    <3> SUFFICES ASSUME plan # NoPlan PROVE \E h \in 1 .. gen' : By(h)'  BY <1>1 DEF Signed
    <3>1. PICK h \in 1 .. gen : By(h)  BY DEF Signed
    <3>2. h \in 1 .. gen' /\ serves'[h] = serves[h]  BY <2>1, <2>4 DEF Conns
    <3> QED BY <1>1, <3>1, <3>2 DEF By, Asking, Identity
  <2> QED BY <2>3, <2>5, <2>6, <1>1, <1>2, <1>3
<1> QED BY <1>4, <1>5

\* What a pending answer is.
Jobs == [phase : {"idle", "queued", "planning", "walked", "planned", "remembered", "failed"},
         at : Nat, roots : Roots]

\* An answer goes on, or is done.
LEMMA AnswerWatched ==
  ASSUME WatchAssumption, Watched, Legacy' = Legacy,
         UNCHANGED <<now, treeVars, record, started, gen, serves, plan, sweep, first>>,
         open' \in BOOLEAN, worker' \in 0 .. MaxConns, job' \in [Conns -> Jobs],
         \A g \in Conns : Asking(g)' => Asking(g) /\ job'[g].at = job[g].at
  PROVE  Watched'
<1> USE DEF Watched
<1>1. TypeOK'  BY DEF TypeOK, treeVars, Conns, Jobs
<1>2. Ordered'  BY DEF Ordered
<1>3. Dated'  BY DEF Dated
<1>4. Signed'
  <2> SUFFICES ASSUME plan # NoPlan PROVE \E h \in 1 .. gen : By(h)'  BY DEF Signed
  <2>1. PICK h \in 1 .. gen : By(h)  BY DEF Signed
  <2> QED BY <2>1 DEF By, Identity
<1>5. OwnFirst'  BY DEF OwnFirst
<1>6. Judging'  BY DEF Judging, Describes, Identity, Leaves
<1> QED BY <1>1, <1>2, <1>3, <1>4, <1>5, <1>6

\* A connection asks for the roots.
LEMMA AskWatched ==
  ASSUME WatchAssumption, Watched, Legacy' = Legacy, NEW g \in Conns, Ask(g)
  PROVE  Watched'
<1> USE DEF Watched
<1>1. /\ UNCHANGED <<treeVars, record, started, connVars, worker, plan, sweep, first>>
      /\ now' = now + 1 /\ now \in Nat /\ g = gen /\ ~Asking(g)
      /\ job' = [job EXCEPT ![g] = [NoJob EXCEPT !.phase = "queued", !.at = now]]
      /\ job \in [Conns -> Jobs]
  BY DEF Ask, Live, Asking, TypeOK, Conns, Jobs
<1>2. [NoJob EXCEPT !.phase = "queued", !.at = now] \in Jobs
  BY <1>1, Nothing DEF NoJob, Jobs
<1>3. /\ job' \in [Conns -> Jobs] /\ job'[g].at = now /\ Asking(g)'
      /\ \A h \in Conns : h # g => job'[h] = job[h]
  BY <1>1, <1>2 DEF NoJob, Asking
<1>4. TypeOK'
  <2>1. plan' # NoPlan => plan'.planned < plan'.taken /\ plan'.taken < now'
    BY <1>1 DEF TypeOK, Plans
  <2> QED BY <1>1, <1>3, <2>1, SMTT(30) DEF TypeOK, treeVars, connVars, Conns, Jobs
<1>5. Ordered'  BY <1>1, <1>3 DEF Ordered, connVars, Asking, Conns
<1>6. Dated'
  <2>1. \A h \in Conns : Asking(h)' => h = g \/ (Asking(h) /\ job'[h].at = job[h].at)
    BY <1>3 DEF Asking
  <2>2. \A h \in Conns : Asking(h)' => job'[h].at < now' /\ h <= g
    <3> SUFFICES ASSUME NEW h \in Conns, Asking(h)' PROVE job'[h].at < now' /\ h <= g  OBVIOUS
    <3>1. CASE h = g  BY <3>1, <1>1, <1>3 DEF Conns
    <3>2. CASE h # g
      <4>1. Asking(h) /\ job'[h].at = job[h].at  BY <2>1, <3>2
      <4>2. job[h].at < now /\ job[h].at \in Nat  BY <4>1, <1>1 DEF Dated, Jobs
      <4>3. h <= g  BY <4>1, <1>1 DEF Ordered, Conns
      <4> QED BY <4>1, <4>2, <4>3, <1>1
    <3> QED BY <3>1, <3>2
  <2>3. ASSUME NEW h \in Conns, NEW i \in Conns, h < i, Asking(h)', Asking(i)'
        PROVE  job'[h].at < job'[i].at
    <3>1. h # g  BY <2>2, <2>3 DEF Conns
    <3>2. Asking(h) /\ job'[h].at = job[h].at  BY <3>1, <2>1, <2>3
    <3>3. CASE i = g  BY <3>2, <3>3, <1>3 DEF Dated
    <3>4. CASE i # g
      <4>1. Asking(i) /\ job'[i].at = job[i].at  BY <3>4, <2>1, <2>3
      <4> QED BY <3>2, <4>1, <2>3 DEF Dated
    <3> QED BY <3>3, <3>4
  <2> QED BY <2>2, <2>3 DEF Dated
<1>7. Signed'
  <2> SUFFICES ASSUME plan # NoPlan PROVE \E h \in 1 .. gen' : By(h)'  BY <1>1 DEF Signed
  <2>1. PICK h \in 1 .. gen : By(h)  BY DEF Signed
  <2>2. plan.planned < now  BY <1>1 DEF TypeOK, Plans
  <2>3. ~(g < h)  BY <1>1 DEF Conns
  <2>4. ASSUME NEW i \in Conns, Asking(i)'
        PROVE  (i < h => job'[i].at < plan.planned) /\ (i > h => job'[i].at > plan.planned)
    <3>1. CASE i = g  BY <3>1, <2>2, <2>3, <1>1, <1>3 DEF TypeOK, Plans
    <3>2. CASE i # g
      <4>1. Asking(i) /\ job'[i].at = job[i].at  BY <3>2, <2>4, <1>3 DEF Asking
      <4> QED BY <4>1, <2>1 DEF By
    <3> QED BY <3>1, <3>2
  <2>5. h \in 1 .. gen' /\ plan' = plan /\ serves' = serves /\ first' = first  BY <1>1 DEF connVars
  <2>6. By(h)'  BY <2>1, <2>4, <2>5 DEF By, Identity
  <2> QED BY <2>5, <2>6
<1>8. OwnFirst'  BY <1>1 DEF OwnFirst
<1>9. Judging'  BY <1>1, SMTT(30) DEF Judging, Describes, Identity, Leaves, TypeOK, Plans
<1> QED BY <1>4, <1>5, <1>6, <1>7, <1>8, <1>9

\* An answer is remembered: it supersedes only what an earlier connection asked for.
LEMMA RememberWatched ==
  ASSUME WatchAssumption, Watched, Legacy' = Legacy, NEW g \in Conns, Remember(g)
  PROVE  Watched'
<1> USE DEF Watched
<1> DEFINE s == serves[g]
<1> DEFINE id == Identity(s)
<1>1. /\ UNCHANGED <<treeVars, record, started, connVars, worker, sweep>>
      /\ now' = now + 1 /\ now \in Nat /\ job[g].phase = "planned" /\ Asking(g)
      /\ job' = [job EXCEPT ![g].phase = "remembered"] /\ job \in [Conns -> Jobs]
      /\ plan' = Remembered(id, job[g])
      /\ first' = IF first[s] # Unset THEN first ELSE [first EXCEPT ![s] = job[g].roots]
      /\ MaxConns \in Nat /\ MaxServers \in Nat /\ gen \in 0 .. MaxConns
  BY DEF Remember, Asking, TypeOK, Conns, Jobs, WatchAssumption
<1>2. g <= gen /\ g \in 1 .. gen /\ s \in 1 .. started /\ s \in Servers /\ started \in 0 .. MaxServers
  BY <1>1 DEF Ordered, Conns, Servers, TypeOK
<1>3. job[g].roots \in Roots /\ job[g].at \in Nat /\ job[g].at < now  BY <1>1 DEF Jobs, Dated
<1>4. /\ first' \in [Servers -> Roots \cup {Unset}] /\ first'[s] # Unset
      /\ \A t \in Servers : first[t] # Unset => first'[t] = first[t]
      /\ \A t \in Servers : t # s => first'[t] = first[t]
      /\ first[s] = Unset => first'[s] = job[g].roots
  BY <1>1, <1>2, <1>3, Given DEF TypeOK
<1>5. /\ job' \in [Conns -> Jobs]
      /\ \A h \in Conns : (Asking(h)' <=> Asking(h)) /\ job'[h].at = job[h].at
  <2>1. job'[g].phase = "remembered" /\ job'[g].at = job[g].at /\ job'[g] \in Jobs  BY <1>1 DEF Jobs
  <2>2. \A h \in Conns : h # g => job'[h] = job[h]  BY <1>1
  <2>3. job' \in [Conns -> Jobs]  BY <1>1, <2>1
  <2> QED BY <1>1, <2>1, <2>2, <2>3 DEF Asking
<1>6. id \in 0 .. MaxServers  BY <1>2 DEF Identity
<1> DEFINE new == [roots |-> job[g].roots, planned |-> job[g].at, taken |-> now, server |-> id]
<1>7. \/ plan' = plan /\ Superseded(id, job[g].at)
      \/ plan' = NoPlan /\ ~Superseded(id, job[g].at) /\ id = 0
      \/ plan' = new /\ ~Superseded(id, job[g].at)
  BY <1>1 DEF Remembered
<1>8. new \in Plans /\ new # NoPlan /\ new.server = id /\ new.planned = job[g].at /\ new.taken = now
      /\ new.roots = job[g].roots
  BY <1>1, <1>3, <1>6 DEF Plans, NoPlan
<1> HIDE DEF new, id
<1>9. plan' \in Plans /\ (plan' # NoPlan => plan'.planned < plan'.taken /\ plan'.taken < now')
  <2>1. plan \in Plans /\ NoPlan \in Plans  BY Nothing DEF TypeOK
  <2>2. CASE plan' = plan  BY <2>1, <2>2, <1>1, SMTT(30) DEF TypeOK, Plans
  <2>3. CASE plan' = new  BY <2>3, <1>1, <1>3, <1>8
  <2> QED BY <2>1, <2>2, <2>3, <1>7
<1>10. TypeOK'
  BY <1>1, <1>4, <1>5, <1>9, SMTT(30) DEF TypeOK, treeVars, connVars, Conns, Jobs
<1>11. Ordered'
  <2>1. \A t \in Servers : first'[t] # Unset => t <= started
    <3> SUFFICES ASSUME NEW t \in Servers, first'[t] # Unset PROVE t <= started  OBVIOUS
    <3>1. CASE t = s  BY <3>1, <1>2
    <3>2. CASE t # s  BY <3>2, <1>4 DEF Ordered
    <3> QED BY <3>1, <3>2
  <2> QED BY <1>1, <1>5, <2>1 DEF Ordered, connVars
<1>12. Dated'
  <2>1. \A h \in Conns : Asking(h) => job[h].at < now + 1 /\ job[h].at \in Nat
    BY <1>1 DEF Dated, Jobs
  <2> QED BY <1>1, <1>5, <2>1 DEF Dated
<1>13. Signed'
  <2> SUFFICES ASSUME plan' # NoPlan PROVE \E h \in 1 .. gen : By(h)'  BY <1>1 DEF Signed, connVars
  <2>1. CASE plan' = plan
    <3>1. PICK h \in 1 .. gen : By(h)  BY <2>1 DEF Signed
    <3>2. serves[h] \in Servers  BY <3>1, <1>1, <1>2 DEF Ordered, Conns, Servers
    <3>3. first'[serves[h]] # Unset  BY <3>1, <3>2, <1>4 DEF By
    <3> QED BY <2>1, <3>1, <3>3, <1>1, <1>5 DEF By, Identity, connVars
  <2>2. CASE plan' = new
    <3>1. plan'.server = Identity(s) /\ plan'.planned = job[g].at  BY <2>2, <1>8 DEF id
    <3>2. By(g)'  BY <3>1, <1>1, <1>4, <1>5 DEF By, Identity, connVars, Dated
    <3> QED BY <3>2, <1>2
  <2> QED BY <1>7, <2>1, <2>2
<1>14. OwnFirst'
  <2> SUFFICES ASSUME NEW t \in Servers, record.id = t, ~record.terminating, t \notin Legacy, first'[t] # Unset
               PROVE  plan' # NoPlan /\ plan'.server = t /\ plan'.roots = first'[t]
    BY <1>1 DEF OwnFirst
  <2>0. t = started /\ t # 0 /\ Identity(t) = t
    BY DEF Ordered, NoRecord, Servers, Identity
  <2>1. CASE first[t] # Unset
    <3>1. plan # NoPlan /\ plan.server = t /\ plan.roots = first[t] /\ first'[t] = first[t]
      BY <2>1, <1>4 DEF OwnFirst
    <3>2. Superseded(id, job[g].at)
      <4>1. CASE id = t  BY <4>1, <3>1, <2>0 DEF Superseded, Pinned
      <4>2. CASE id # t
        <5>1. PICK h \in 1 .. gen : By(h)  BY <3>1 DEF Signed
        <5>2. serves[h] = t  BY <5>1, <3>1, <2>0 DEF By, Identity
        <5>3. s # t  BY <4>2, <2>0 DEF id
        <5>4. s < t /\ h \in Conns  BY <5>3, <1>1, <1>2, <2>0 DEF Conns
        <5>5. ~(h <= g)
          <6> SUFFICES ASSUME h <= g PROVE FALSE  OBVIOUS
          <6>1. serves[h] <= serves[g]  BY <5>4, <1>2 DEF Ordered
          <6> QED BY <6>1, <5>2, <5>4, <1>2, <2>0
        <5>6. g < h  BY <5>5, <1>2 DEF Conns
        <5>7. job[g].at < plan.planned  BY <5>1, <5>6, <1>1 DEF By
        <5>8. plan.planned > job[g].at  BY <5>7, <1>3 DEF TypeOK, Plans
        <5> QED BY <5>8, <3>1 DEF Superseded
      <4> QED BY <4>1, <4>2
    <3> QED BY <3>1, <3>2, <1>7
  <2>2. CASE first[t] = Unset
    <3>1. t = s /\ first'[t] = job[g].roots /\ id = t  BY <2>0, <2>2, <1>4 DEF id
    <3>2. ~Superseded(id, job[g].at)
      <4> SUFFICES ASSUME plan # NoPlan, Pinned(id) \/ plan.planned > job[g].at PROVE FALSE
        BY DEF Superseded
      <4>1. PICK h \in 1 .. gen : By(h)  BY DEF Signed
      <4>2. serves[h] # t /\ h \in Conns /\ serves[h] \in 1 .. started
        BY <4>1, <2>2, <1>1 DEF By, Ordered, Conns
      <4>3. ~Pinned(id)  BY <4>1, <4>2, <3>1, <2>0 DEF Pinned, By, Identity
      <4>4. plan.planned > job[g].at  BY <4>3
      <4>5. ~(g <= h)
        <5> SUFFICES ASSUME g <= h PROVE FALSE  OBVIOUS
        <5>1. serves[g] <= serves[h]  BY <4>2, <1>1 DEF Ordered
        <5> QED BY <5>1, <4>2, <3>1, <2>0, <1>2
      <4>6. g > h  BY <4>5 DEF Conns
      <4>7. job[g].at > plan.planned  BY <4>1, <4>6, <1>1 DEF By
      <4> QED BY <4>4, <4>7, <1>3, SMTT(30) DEF TypeOK, Plans
    <3> QED BY <3>1, <3>2, <2>0, <1>7, <1>8
  <2> QED BY <2>1, <2>2
<1>15. Judging'
  <2> SUFFICES ASSUME sweep.phase # "idle"
               PROVE  /\ sweep.snap.taken < now'
                      /\ plan' # NoPlan /\ plan'.taken = sweep.snap.taken => plan' = sweep.snap
                      /\ sweep.rec.id \notin Legacy /\ sweep.snap.server # 0 =>
                           first'[sweep.rec.id] = sweep.snap.roots
    BY <1>1 DEF Judging, Describes, Identity, Leaves
  <2>1. sweep.snap.taken < now /\ sweep.snap.taken \in Nat  BY DEF Judging, TypeOK, Plans
  <2>2. plan' # NoPlan /\ plan'.taken = sweep.snap.taken => plan' = sweep.snap
    BY <2>1, <1>1, <1>7, <1>8 DEF Judging
  <2>3. sweep.rec.id \notin Legacy /\ sweep.snap.server # 0 =>
           first'[sweep.rec.id] = sweep.snap.roots
    <3>1. sweep.rec.id \in Servers /\ sweep.snap.roots \in Roots
      BY <1>2, SMTT(30) DEF Judging, Servers, TypeOK, Plans
    <3> QED BY <3>1, <1>4, Given DEF Judging
  <2> QED BY <2>1, <2>2, <2>3, <1>1
<1> QED BY <1>10, <1>11, <1>12, <1>13, <1>14, <1>15

\* The steps of an answer between its question and its end.
LEMMA StagesWatched ==
  ASSUME WatchAssumption, Watched, Legacy' = Legacy, NEW g \in Conns,
         Take(g) \/ Walk(g) \/ Receive(g) \/ Expire(g) \/ Reply(g)
  PROVE  Watched'
<1>1. /\ job \in [Conns -> Jobs] /\ worker \in 0 .. MaxConns /\ open \in BOOLEAN
      /\ filtered \in BOOLEAN /\ tree \in SUBSET Names /\ 0 \in 0 .. MaxConns /\ g \in 0 .. MaxConns
  BY Nothing DEF Watched, TypeOK, Conns, Jobs, WatchAssumption
<1>2. UNCHANGED <<now, treeVars, record, started, gen, serves, plan, sweep, first>>
  BY DEF Take, Walk, Receive, Expire, Reply, connVars
<1>3. open' \in BOOLEAN /\ worker' \in 0 .. MaxConns
  BY <1>1 DEF Take, Walk, Receive, Expire, Reply, connVars
<1>4. planWatch \in Roots  BY <1>1, Nothing DEF planWatch, Relevant, Roots, NoRoots
<1>5. NoJob \in Jobs  BY Nothing DEF Jobs
<1>6. \/ job' = job
      \/ \E p \in {"planning", "planned", "failed"} : job' = [job EXCEPT ![g].phase = p] /\ Asking(g)
      \/ job' = [job EXCEPT ![g].phase = "walked", ![g].roots = planWatch] /\ Asking(g)
      \/ job' = [job EXCEPT ![g] = NoJob]
  BY DEF Take, Walk, Receive, Expire, Reply, Asking
<1>7. job' \in [Conns -> Jobs] /\ \A h \in Conns : Asking(h)' => Asking(h) /\ job'[h].at = job[h].at
  <2>1. CASE job' = job  BY <2>1, <1>1 DEF Asking
  <2>2. ASSUME NEW p \in {"planning", "planned", "failed"}, job' = [job EXCEPT ![g].phase = p], Asking(g)
        PROVE  job' \in [Conns -> Jobs] /\ \A h \in Conns : Asking(h)' => Asking(h) /\ job'[h].at = job[h].at
    <3>1. job'[g].at = job[g].at /\ job'[g] \in Jobs  BY <2>2, <1>1 DEF Jobs
    <3>2. \A h \in Conns : h # g => job'[h] = job[h]  BY <2>2, <1>1
    <3>3. job' \in [Conns -> Jobs]  BY <2>2, <1>1, <3>1
    <3> QED BY <2>2, <3>1, <3>2, <3>3 DEF Asking
  <2>3. ASSUME job' = [job EXCEPT ![g].phase = "walked", ![g].roots = planWatch], Asking(g)
        PROVE  job' \in [Conns -> Jobs] /\ \A h \in Conns : Asking(h)' => Asking(h) /\ job'[h].at = job[h].at
    <3>1. job'[g].at = job[g].at /\ job'[g] \in Jobs  BY <2>3, <1>1, <1>4 DEF Jobs
    <3>2. \A h \in Conns : h # g => job'[h] = job[h]  BY <2>3, <1>1
    <3>3. job' \in [Conns -> Jobs]  BY <2>3, <1>1, <3>1
    <3> QED BY <2>3, <3>1, <3>2, <3>3 DEF Asking
  <2>4. CASE job' = [job EXCEPT ![g] = NoJob]
    <3>1. job'[g] = NoJob /\ \A h \in Conns : h # g => job'[h] = job[h]  BY <2>4, <1>1
    <3>2. ~Asking(g)'  BY <3>1 DEF Asking, NoJob
    <3> QED BY <2>4, <1>1, <1>5, <3>1, <3>2 DEF Asking
  <2> QED BY <1>6, <2>1, <2>2, <2>3, <2>4
<1> QED BY <1>2, <1>3, <1>7, AnswerWatched

\* A sweep takes a copy of what is remembered, of the server in the map.
LEMMA CopyWatched ==
  ASSUME WatchAssumption, Watched, Legacy' = Legacy, SweepCopies
  PROVE  Watched'
<1> USE DEF Watched
<1>1. /\ UNCHANGED <<now, treeVars, record, started, connVars, job, worker, plan, first>>
      /\ sweep' = [phase |-> "copied", rec |-> record, snap |-> plan, usedUp |-> FALSE]
      /\ record # NoRecord /\ ~record.terminating /\ Describes(plan, record) /\ plan # NoPlan
  BY DEF SweepCopies, Describes, NoSweep
<1>2. record.id = started /\ record.id \in 1 .. started /\ record.id \in Servers /\ record.id # 0
  BY <1>1 DEF Ordered, Records, TypeOK, Servers, WatchAssumption
<1>3. TypeOK'  BY <1>1 DEF TypeOK, treeVars, connVars
<1>4. Ordered' /\ Dated'  BY <1>1 DEF Ordered, Dated, connVars, Asking
<1>5. Signed'  BY <1>1 DEF Signed, By, connVars, Asking, Identity
<1>6. OwnFirst'  BY <1>1 DEF OwnFirst
<1>7. Judging'
  <2>1. PICK h \in 1 .. gen : By(h)  BY <1>1 DEF Signed
  <2>2. h \in Conns /\ serves[h] \in 1 .. started
    BY DEF Ordered, Conns, TypeOK, WatchAssumption
  <2>3. plan.server <= record.id  BY <2>1, <2>2, <1>2 DEF By, Identity
  <2>4. record.id \notin Legacy /\ plan.server # 0 =>
          plan.server = record.id /\ first[record.id] = plan.roots
    <3> SUFFICES ASSUME record.id \notin Legacy, plan.server # 0
                 PROVE  plan.server = record.id /\ first[record.id] = plan.roots
      OBVIOUS
    <3>1. plan.server = record.id  BY <1>1, <1>2 DEF Describes, Identity
    <3>2. serves[h] = record.id  BY <3>1, <2>1, <1>2 DEF By, Identity
    <3>3. first[record.id] # Unset  BY <3>2, <2>1 DEF By
    <3> QED BY <3>1, <3>3, <1>1, <1>2 DEF OwnFirst
  <2>5. plan.taken < now  BY <1>1 DEF TypeOK
  <2> QED BY <1>1, <1>2, <2>3, <2>4, <2>5 DEF Judging, Describes, Identity
<1> QED BY <1>3, <1>4, <1>5, <1>6, <1>7

\* A sweep goes on and touches the record alone.
LEMMA VerdictWatched ==
  ASSUME WatchAssumption, Watched, Legacy' = Legacy,
         SweepCondemns \/ SweepSpares \/ SweepTerminates \/ SweepKeeps
  PROVE  Watched'
<1> USE DEF Watched
<1>1. /\ UNCHANGED <<now, treeVars, started, connVars, job, worker, plan, first>>
      /\ sweep.phase # "idle"
      /\ record' = record \/ (record = sweep.rec /\ record' = [record EXCEPT !.terminating = TRUE])
  BY DEF SweepCondemns, SweepSpares, SweepTerminates, SweepKeeps
<1>2. \/ sweep' = NoSweep
      \/ /\ sweep'.rec = sweep.rec /\ sweep'.snap = sweep.snap
         /\ sweep' \in [phase : {"idle", "copied", "condemned", "committed"}, rec : Records,
                        snap : Plans, usedUp : BOOLEAN]
         /\ sweep'.usedUp => Leaves(record', sweep.rec)
  <2>1. CASE SweepCondemns  BY <2>1 DEF SweepCondemns, TypeOK, Judging
  <2>2. CASE SweepSpares  BY <2>2 DEF SweepSpares
  <2>3. CASE SweepTerminates
    <3>1. PICK failed \in BOOLEAN :
             sweep' = [sweep EXCEPT !.phase = "committed",
                                    !.usedUp = ~failed /\ Leaves(record', sweep.rec)]
      BY <2>3 DEF SweepTerminates
    <3>2. (~failed /\ Leaves(record', sweep.rec)) \in BOOLEAN  BY DEF Leaves
    <3> QED BY <3>1, <3>2 DEF TypeOK
  <2>4. CASE SweepKeeps
    <3>1. PICK failed \in BOOLEAN :
             sweep' = [sweep EXCEPT !.phase = "committed",
                                    !.usedUp = ~failed /\ Leaves(record, sweep.rec)]
      BY <2>4 DEF SweepKeeps
    <3>2. (~failed /\ Leaves(record, sweep.rec)) \in BOOLEAN  BY DEF Leaves
    <3>3. record' = record  BY <2>4 DEF SweepKeeps
    <3> QED BY <3>1, <3>2, <3>3 DEF TypeOK
  <2> QED BY <2>1, <2>2, <2>3, <2>4
<1>3. record' \in Records /\ record'.id = record.id /\ (record.terminating => record'.terminating)
  BY <1>1 DEF TypeOK, Records
<1>4. TypeOK'
  <2>1. sweep' \in [phase : {"idle", "copied", "condemned", "committed"}, rec : Records,
                    snap : Plans, usedUp : BOOLEAN]
    BY <1>2, Nothing
  <2> QED BY <1>1, <1>3, <2>1 DEF TypeOK, treeVars, connVars
<1>5. Ordered'
  <2>1. record' = NoRecord \/ (record'.id = started /\ record'.id # 0)
    <3>1. CASE record' = record  BY <3>1 DEF Ordered
    <3>2. CASE record = sweep.rec
      <4>1. record.id \in 1 .. started /\ started \in 0 .. MaxServers  BY <3>2, <1>1 DEF Judging, TypeOK
      <4>2. record.id # 0 /\ record # NoRecord  BY <4>1 DEF NoRecord
      <4> QED BY <4>2, <1>3 DEF Ordered
    <3> QED BY <1>1, <3>1, <3>2
  <2> QED BY <1>1, <2>1 DEF Ordered, connVars, Asking
<1>6. Dated'  BY <1>1 DEF Dated, Asking
<1>7. Signed'  BY <1>1 DEF Signed, By, connVars, Asking, Identity
<1>8. OwnFirst'  BY <1>1, <1>3 DEF OwnFirst
<1>9. Judging'  BY <1>1, <1>2 DEF Judging, Describes, Identity, NoSweep
<1> QED BY <1>4, <1>5, <1>6, <1>7, <1>8, <1>9

\* A sweep forgets what it judged by: never the plan of a server that goes on running.
LEMMA ForgetWatched ==
  ASSUME WatchAssumption, Watched, Legacy' = Legacy, SweepForgets
  PROVE  Watched'
<1> USE DEF Watched
<1>1. /\ UNCHANGED <<now, treeVars, record, started, connVars, job, worker, first>>
      /\ sweep' = NoSweep /\ sweep.phase # "idle"
      /\ plan' = plan \/ (plan' = NoPlan /\ sweep.usedUp /\ plan.taken = sweep.snap.taken)
  BY DEF SweepForgets
<1>2. TypeOK'  BY <1>1, Nothing DEF TypeOK, treeVars, connVars
<1>3. Ordered' /\ Dated'  BY <1>1 DEF Ordered, Dated, connVars, Asking
<1>4. Signed'  BY <1>1 DEF Signed, By, connVars, Asking, Identity
<1>5. Judging'  BY <1>1 DEF Judging, NoSweep
<1>6. OwnFirst'
  <2> SUFFICES ASSUME NEW s \in Servers, record.id = s, ~record.terminating, s \notin Legacy,
                      first[s] # Unset, plan' # plan
               PROVE  FALSE
    BY <1>1 DEF OwnFirst
  <2>1. plan # NoPlan /\ plan.server = s /\ plan = sweep.snap /\ sweep.usedUp
    BY <1>1 DEF OwnFirst, Judging
  <2>2. s = started  BY DEF Ordered, NoRecord, Servers
  <2>3. s <= sweep.rec.id /\ sweep.rec.id \in 1 .. started  BY <2>1, <1>1 DEF Judging
  <2>4. sweep.rec.id = s  BY <2>2, <2>3 DEF TypeOK
  <2>5. Leaves(record, sweep.rec)  BY <2>1, <1>1 DEF Judging
  <2> QED BY <2>4, <2>5 DEF Leaves
<1> QED BY <1>2, <1>3, <1>4, <1>5, <1>6

\* Every step keeps the invariant.
LEMMA WatchedStep == ASSUME WatchAssumption, Watched, [Next]_vars PROVE Watched'
<1>1. CASE UNCHANGED vars
  <2>1. UNCHANGED <<Legacy, now, record, started, job, worker, plan, sweep, first, tree, filtered,
                    changes, edited, gen, open, serves>>
    BY <1>1 DEF vars, treeVars, connVars
  <2>2. TypeOK'  BY <2>1 DEF Watched, TypeOK
  <2>3. Ordered' /\ Dated'  BY <2>1 DEF Watched, Ordered, Dated, Asking
  <2>4. Signed'  BY <2>1 DEF Watched, Signed, By, Asking, Identity
  <2>5. OwnFirst' /\ Judging'  BY <2>1 DEF Watched, OwnFirst, Judging, Describes, Identity, Leaves
  <2> QED BY <2>1, <2>2, <2>3, <2>4, <2>5 DEF Watched
<1>2. CASE Next
  <2>1. Legacy' = Legacy  BY <1>2 DEF Next
  <2>2. CASE ServeRoots
    <3>1. PICK g \in Conns :
             Ask(g) \/ Take(g) \/ Walk(g) \/ Receive(g) \/ Expire(g) \/ Remember(g) \/ Reply(g)
      BY <2>2 DEF ServeRoots, Conns
    <3> QED BY <2>1, <3>1, AskWatched, RememberWatched, StagesWatched
  <2>3. CASE Sweep
    BY <2>1, <2>3, CopyWatched, VerdictWatched, ForgetWatched DEF Sweep
  <2> QED BY <1>2, <2>1, <2>2, <2>3, TreeWatched, ServersWatched, LaneWatched DEF Next
<1> QED BY <1>1, <1>2

\* Hence the invariant.
LEMMA AlwaysWatched == ASSUME WatchAssumption PROVE Spec => []Watched
<1>1. Init => Watched  BY WatchedInit
<1>2. Watched /\ [Next]_vars => Watched'  BY WatchedStep
<1> QED BY <1>1, <1>2, PTL DEF Spec

\* A change the running server missed is there for the next sweep to find, and all that
\* is remembered has its type: rememberWatch keeps a server's first answer against every
\* later one, and forgetWatch takes it away from a server that leaves (watchroots.go:392,
\* 448).
THEOREM NothingMissedIsLost == ASSUME WatchAssumption PROVE Spec => []SnapshotsSound
<1>1. ASSUME Watched PROVE SnapshotsSound
  <2> USE <1>1 DEF Watched
  <2> SUFFICES ASSUME Running, Missed(record) PROVE Describes(plan, record) /\ Differs(record, plan)
    BY DEF SnapshotsSound, MissedIsFound
  <2>1. record.id \in Servers /\ record.id # 0 /\ ~record.terminating /\ record.id \notin Legacy
    BY DEF Running, Missed, TypeOK, Records, Servers, WatchAssumption
  <2>2. plan # NoPlan /\ plan.server = record.id /\ plan.roots = first[record.id]
    BY <2>1 DEF OwnFirst, Missed
  <2>3. Describes(plan, record)  BY <2>1, <2>2 DEF Describes, Identity
  <2>4. Differs(record, plan)  BY <2>2 DEF Differs, Missed, NoPlan
  <2> QED BY <2>3, <2>4
<1> QED BY <1>1, AlwaysWatched, PTL

\* A record without a start was written by an older manager: the server before one of
\* unknown identity was of unknown identity too (registry.go:22).
OldestUnknown == \A L \in Legacies : \A s \in L : 1 .. s \subseteq L

\* A sweep that judges a server of unknown identity judges it by an answer to such a one.
Unknown == sweep.phase # "idle" /\ sweep.rec.id \in Legacy => sweep.snap.server = 0

\* Every step keeps that.
LEMMA UnknownStep ==
  ASSUME WatchAssumption, OldestUnknown, Watched, Unknown, [Next]_vars
  PROVE  Unknown'
<1>1. Legacy' = Legacy /\ Legacy \in Legacies  BY DEF Next, vars, Watched
<1>2. CASE sweep' = sweep  BY <1>1, <1>2 DEF Unknown
<1>3. CASE sweep' = NoSweep  BY <1>3 DEF Unknown, NoSweep
<1>4. CASE sweep'.rec = sweep.rec /\ sweep'.snap = sweep.snap /\ sweep.phase # "idle"
  BY <1>1, <1>4 DEF Unknown
<1>5. CASE SweepCopies
  <2>1. sweep'.rec = record /\ sweep'.snap = plan /\ record # NoRecord /\ plan # NoPlan
    BY <1>5 DEF SweepCopies, Describes, NoSweep
  <2>2. PICK h \in 1 .. gen : By(h)  BY <2>1 DEF Watched, Signed
  <2>3. serves[h] \in 1 .. started /\ record.id = started /\ started \in Nat
    BY <2>1 DEF Watched, Ordered, Conns, TypeOK, WatchAssumption
  <2>4. record.id \in Legacy => serves[h] \in Legacy  BY <2>3, <1>1 DEF OldestUnknown
  <2> QED BY <2>1, <2>2, <2>4, <1>1 DEF Unknown, By, Identity
<1>6. \/ sweep' = sweep \/ sweep' = NoSweep \/ SweepCopies
      \/ sweep'.rec = sweep.rec /\ sweep'.snap = sweep.snap /\ sweep.phase # "idle"
  <2>1. CASE UNCHANGED vars  BY <2>1 DEF vars
  <2>2. CASE Sweep
    BY <2>2 DEF Sweep, SweepCondemns, SweepSpares, SweepTerminates, SweepKeeps, SweepForgets,
                Watched, TypeOK
  <2>3. CASE ServeRoots
    BY <2>3 DEF ServeRoots, Ask, Take, Walk, Receive, Expire, Remember, Reply
  <2>4. CASE (\E n \in Names : ChangeTree(n)) \/ EditModule \/ StartServer \/ ServerExits \/ Dial \/ Close
    BY <2>4 DEF ChangeTree, EditModule, StartServer, ServerExits, Dial, Close
  <2> QED BY <2>1, <2>2, <2>3, <2>4 DEF Next
<1> QED BY <1>2, <1>3, <1>4, <1>5, <1>6

\* The step that condemns.
LEMMA CondemnedStep ==
  ASSUME WatchAssumption, Watched, Unknown, [Next]_vars,
         sweep.phase = "copied", sweep'.phase = "condemned"
  PROVE  \/ Missed(sweep.rec)
         \/ sweep.snap.server = 0 /\ Second(sweep.snap.taken) >= Second(sweep.rec.at)
<1>1. SweepCondemns
  <2>1. sweep' # sweep  OBVIOUS
  <2>2. ~(UNCHANGED vars)  BY <2>1 DEF vars
  <2>3. ~ServeRoots
    BY <2>1 DEF ServeRoots, Ask, Take, Walk, Receive, Expire, Remember, Reply
  <2>4. ~((\E n \in Names : ChangeTree(n)) \/ EditModule \/ StartServer \/ ServerExits \/ Dial \/ Close)
    BY <2>1 DEF ChangeTree, EditModule, StartServer, ServerExits, Dial, Close
  <2>5. Sweep  BY <2>2, <2>3, <2>4 DEF Next
  <2> QED BY <2>5 DEF Sweep, SweepCopies, SweepSpares, SweepTerminates, SweepKeeps, SweepForgets, NoSweep
<1>2. Differs(sweep.rec, sweep.snap)  BY <1>1 DEF SweepCondemns
<1>3. Describes(sweep.snap, sweep.rec) /\ sweep.rec.id \in 1 .. started  BY DEF Watched, Judging
<1>4. CASE sweep.snap.server = 0  BY <1>3, <1>4 DEF Describes
<1>5. CASE sweep.snap.server # 0
  <2>1. sweep.rec.id \notin Legacy  BY <1>5 DEF Unknown
  <2>2. first[sweep.rec.id] = sweep.snap.roots  BY <2>1, <1>5 DEF Watched, Judging
  <2>3. sweep.snap.roots \in Roots  BY DEF Watched, TypeOK, Plans
  <2>4. first[sweep.rec.id] # Unset /\ sweep.rec.id # 0  BY <2>2, <2>3, <1>3, Given
  <2>5. Missed(sweep.rec)  BY <1>2, <2>2, <2>4 DEF Missed, Differs, NoPlan
  <2> QED BY <2>5
<1> QED BY <1>4, <1>5

\* A server is condemned for a change it missed itself, never for what a snapshot of its
\* predecessor says; only a snapshot of unknown identity, told apart by its time, may
\* (watchChanged, watchroots.go:421).
THEOREM CondemnedForItsOwn ==
  ASSUME WatchAssumption, OldestUnknown PROVE Spec => CondemnsOwnMiss
<1>1. Init => Unknown  BY DEF Init, Unknown, NoSweep
<1>2. Watched /\ Unknown /\ [Next]_vars => Unknown'  BY UnknownStep
<1>3. Watched /\ Unknown /\ [Next]_vars =>
        ((sweep.phase = "copied" /\ sweep'.phase = "condemned")
          => \/ Missed(sweep.rec)
             \/ sweep.snap.server = 0 /\ Second(sweep.snap.taken) >= Second(sweep.rec.at))
  BY CondemnedStep
<1> QED BY <1>1, <1>2, <1>3, AlwaysWatched, PTL DEF Spec, CondemnsOwnMiss

-----------------------------------------------------------------------------
(* Pending files: the invariant. *)

Phases == {"idle", "taken", "writing"}
CheckPhases == {"idle", "own", "files", "strike", "spared", "condemned"}

\* The types; nothing starts later than now, and a check reads the clock before it ends.
Typed ==
  /\ clock \in Nat /\ running \in SUBSET Managers
  /\ ops \in [Managers -> [Calls -> Nat]] /\ \A m \in Managers, c \in Calls : ops[m][c] <= clock
  /\ owing \in [Managers -> BOOLEAN] /\ dirty \in [Managers -> BOOLEAN]
  /\ publisher \in [Managers -> [phase : Phases, value : Nat]] /\ file \in [Managers -> Nat]
  /\ check \in [Managers -> [phase : CheckPhases, now : Nat, left : SUBSET Managers,
                             gone : SUBSET Managers, busy : BOOLEAN]]
  /\ \A s \in Managers : check[s].now <= clock
  /\ stale \in [Managers -> BOOLEAN] /\ held \in [Managers -> SUBSET (Managers \X Calls)]
  /\ hidden \in [Managers -> SUBSET Managers]

\* Without a debt, what is being written is what is pending, and so is what was written;
\* nobody publishes for a process that is gone.
Mirrored ==
  /\ \A m \in Managers : m \notin running => publisher[m].phase = "idle"
  /\ \A m \in running : ~dirty[m] /\ ~owing[m] =>
       /\ publisher[m].phase = "writing" => publisher[m].value = P!newest(m)
       /\ publisher[m].phase = "idle" /\ ~stale[m] => file[m] = P!newest(m)

\* Call c of m is held against check s and nothing newer hides it: then everything that
\* says what is pending for m protects, or the check has found it busy.
Guarded(s, m, c) ==
  /\ m \in running
  /\ P!Protects(ops[m][c], check[s].now)
  /\ \A d \in Calls : ops[m][d] <= check[s].now
  /\ m = s /\ check[s].phase # "own" => check[s].busy
  /\ m # s =>
       /\ publisher[m].phase = "writing" => P!Protects(publisher[m].value, check[s].now)
       /\ ~check[s].busy => /\ P!Protects(file[m], check[s].now)
                            /\ check[s].phase = "own" \/ m \in check[s].left

Spares ==
  /\ \A s \in Managers : check[s].phase # "idle" =>
       \A m \in Managers, c \in Calls : <<m, c>> \in held[s] /\ m \notin hidden[s] => Guarded(s, m, c)
  /\ \A s \in Managers : check[s].phase = "condemned" => ~check[s].busy /\ check[s].left = {}
  /\ \A s \in Managers : check[s].phase = "own" => ~check[s].busy

Faithful == Typed /\ Mirrored /\ Spares

\* What newest is: one of the starts, or 0, and no start is later.
LEMMA Newest ==
  ASSUME Typed, NEW m \in Managers
  PROVE  /\ P!newest(m) \in Nat /\ P!newest(m) <= clock
         /\ P!newest(m) = 0 \/ \E c \in Calls : P!newest(m) = ops[m][c]
         /\ \A c \in Calls : ops[m][c] <= P!newest(m)
<1> DEFINE S == {ops[m][c] : c \in Calls} \cup {0}
<1>1. S \in SUBSET Nat /\ S # {} /\ clock \in Nat /\ \A x \in S : x <= clock  BY DEF Typed
<1>2. Max(S) \in S /\ \A x \in S : x <= Max(S)
  <2> HIDE DEF S
  <2> QED BY <1>1, Greatest
<1>3. P!newest(m) = Max(S)  BY DEF P!newest, P!Max, Max
<1> QED BY <1>1, <1>2, <1>3

\* What protects is a natural in the past.
LEMMA NewestProtects ==
  ASSUME P!PendingAssumption, Typed, NEW m \in Managers, NEW c \in Calls, NEW when \in Nat,
         P!Protects(ops[m][c], when), \A d \in Calls : ops[m][d] <= when
  PROVE  P!Protects(P!newest(m), when)
<1>1. ops[m][c] \in Nat /\ P!newest(m) \in Nat /\ ops[m][c] <= P!newest(m)  BY Newest DEF Typed
<1>2. P!newest(m) <= when  BY Newest
<1> QED BY <1>1, <1>2 DEF P!Protects, P!PendingAssumption

\* The initial states.
LEMMA MirrorInit == ASSUME P!PendingAssumption, P!Init PROVE Faithful
<1>1. Typed
  <2>1. P!None \in [Calls -> Nat] /\ \A c \in Calls : P!None[c] = 0  BY DEF P!None
  <2>2. P!Idle \in [phase : Phases, value : Nat]  BY DEF P!Idle, Phases
  <2>3. P!NoCheck \in [phase : CheckPhases, now : Nat, left : SUBSET Managers,
                     gone : SUBSET Managers, busy : BOOLEAN]
    BY DEF P!NoCheck, CheckPhases
  <2> QED BY <2>1, <2>2, <2>3 DEF P!Init, Typed, P!NoCheck
<1>2. Mirrored
  <2> SUFFICES ASSUME NEW m \in Managers PROVE P!newest(m) = 0 /\ publisher[m].phase = "idle"
    BY DEF P!Init, Mirrored, P!Idle
  <2>1. \A c \in Calls : ops[m][c] = 0  BY DEF P!Init, P!None
  <2> QED BY <1>1, <2>1, Newest DEF P!Init, P!Idle
<1>3. Spares  BY DEF P!Init, Spares, P!NoCheck
<1> QED BY <1>1, <1>2, <1>3 DEF Faithful

-----------------------------------------------------------------------------
(* The steps of a manager. *)

\* A manager whose starts stay the same has the same newest start.
LEMMA SameNewest ==
  ASSUME NEW m \in Managers, ops'[m] = ops[m]
  PROVE  P!newest(m)' = P!newest(m)
  BY DEF P!newest

\* The clock goes on.
LEMMA TickFaithful == ASSUME P!PendingAssumption, Faithful, P!Tick PROVE Faithful'
<1> USE DEF Faithful
<1>1. clock' = clock + 1 /\ UNCHANGED <<running, ops, owing, dirty, publisher, file, check, stale, held, hidden>>
  BY DEF P!Tick, P!daemonVars
<1>2. Typed'
  <2>1. clock \in Nat /\ \A m \in Managers, c \in Calls : ops[m][c] <= clock /\ ops[m][c] \in Nat  BY DEF Typed
  <2>2. \A s \in Managers : check[s].now <= clock /\ check[s].now \in Nat  BY DEF Typed
  <2> QED BY <1>1, <2>1, <2>2 DEF Typed
<1>3. Mirrored'  BY <1>1, SameNewest DEF Mirrored, Typed
<1>4. Spares'  BY <1>1 DEF Spares, Guarded
<1> QED BY <1>2, <1>3, <1>4

\* A call begins or ends.
LEMMA CallFaithful ==
  ASSUME P!PendingAssumption, Faithful, NEW m \in Managers, NEW c \in Calls, P!Begin(m, c) \/ P!End(m, c)
  PROVE  Faithful'
<1> USE DEF Faithful
<1>1. /\ UNCHANGED <<clock, running, dirty, publisher, file, check, stale>>
      /\ owing' = [owing EXCEPT ![m] = TRUE] /\ m \in running
  BY DEF P!Begin, P!End
<1>2. PICK t \in Nat : /\ ops' = [ops EXCEPT ![m][c] = t] /\ t <= clock
                       /\ (P!Begin(m, c) /\ t = clock) \/ (P!End(m, c) /\ t = 0)
  <2>1. CASE P!Begin(m, c)
    <3>1. ops' = [ops EXCEPT ![m][c] = clock] /\ clock \in Nat /\ clock <= clock  BY <2>1 DEF P!Begin, Typed
    <3> QED BY <2>1, <3>1
  <2>2. CASE P!End(m, c)
    <3>1. ops' = [ops EXCEPT ![m][c] = 0] /\ 0 <= clock  BY <2>2 DEF P!End, Typed
    <3> QED BY <2>2, <3>1
  <2> QED BY <2>1, <2>2
<1>3. /\ ops' \in [Managers -> [Calls -> Nat]] /\ ops'[m][c] = t
      /\ \A n \in Managers : n # m => ops'[n] = ops[n]
      /\ \A d \in Calls : d # c => ops'[m][d] = ops[m][d]
  BY <1>2 DEF Typed
<1>4. /\ held' \in [Managers -> SUBSET (Managers \X Calls)] /\ hidden' \in [Managers -> SUBSET Managers]
      /\ \A s \in Managers : held'[s] \subseteq held[s] /\ hidden[s] \subseteq hidden'[s]
  <2>1. CASE P!Begin(m, c)
    <3>1. /\ held' = held
          /\ hidden' = [s \in Managers |-> IF check[s].phase # "idle" /\ check[s].now < clock
                                          THEN hidden[s] \cup {m} ELSE hidden[s]]
      BY <2>1 DEF P!Begin
    <3> QED BY <3>1 DEF Typed
  <2>2. CASE P!End(m, c)
    <3>1. hidden' = hidden /\ held' = [s \in Managers |-> held[s] \ {<<m, c>>}]
      BY <2>2 DEF P!End
    <3> QED BY <3>1 DEF Typed
  <2> QED BY <2>1, <2>2
<1>5. Typed'
  <2>1. \A n \in Managers, d \in Calls : ops'[n][d] <= clock
    <3> SUFFICES ASSUME NEW n \in Managers, NEW d \in Calls PROVE ops'[n][d] <= clock  OBVIOUS
    <3>1. CASE n = m /\ d = c  BY <3>1, <1>2, <1>3
    <3>2. CASE n # m  BY <3>2, <1>3 DEF Typed
    <3>3. CASE n = m /\ d # c  BY <3>3, <1>3 DEF Typed
    <3> QED BY <3>1, <3>2, <3>3
  <2> QED BY <1>1, <1>3, <1>4, <2>1 DEF Typed
<1>6. Mirrored'
  <2> SUFFICES ASSUME NEW n \in running, ~dirty[n], ~owing'[n]
               PROVE  /\ publisher[n].phase = "writing" => publisher[n].value = P!newest(n)'
                      /\ publisher[n].phase = "idle" /\ ~stale[n] => file[n] = P!newest(n)'
    BY <1>1 DEF Mirrored
  <2>1. n \in Managers /\ n # m  BY <1>1 DEF Typed
  <2>2. P!newest(n)' = P!newest(n) /\ ~owing[n]  BY <2>1, <1>1, <1>3, SameNewest DEF Typed
  <2> QED BY <2>2 DEF Mirrored
<1>7. Spares'
  <2> SUFFICES ASSUME NEW s \in Managers, check[s].phase # "idle",
                      NEW n \in Managers, NEW d \in Calls, <<n, d>> \in held'[s], n \notin hidden'[s]
               PROVE  Guarded(s, n, d)'
    BY <1>1 DEF Spares
  <2>1. Guarded(s, n, d)  BY <1>4 DEF Spares
  <2>2. CASE n # m
    <3>1. ops'[n] = ops[n]  BY <2>2, <1>3
    <3> QED BY <2>1, <3>1, <1>1 DEF Guarded
  <2>3. CASE n = m
    <3>1. t <= check[s].now
      <4>1. CASE t = 0  BY <4>1 DEF Typed
      <4>2. CASE P!Begin(m, c) /\ t = clock
        <5>1. ~(check[s].now < clock)  BY <4>2, <2>3 DEF P!Begin
        <5> QED BY <5>1, <4>2 DEF Typed
      <4> QED BY <1>2, <4>1, <4>2
    <3>2. \A e \in Calls : ops'[m][e] <= check[s].now  BY <2>1, <2>3, <3>1, <1>3 DEF Guarded
    <3>3. d # c
      <4>1. CASE P!Begin(m, c)  BY <4>1, <2>1, <2>3 DEF P!Begin, Guarded, P!Protects
      <4>2. CASE P!End(m, c)  BY <4>2, <2>3 DEF P!End, Typed
      <4> QED BY <4>1, <4>2
    <3>4. ops'[m][d] = ops[m][d]  BY <3>3, <1>3
    <3> QED BY <2>1, <2>3, <3>2, <3>4, <1>1 DEF Guarded
  <2> QED BY <2>2, <2>3
<1> QED BY <1>5, <1>6, <1>7

\* The publisher takes what is owed and writes what is pending.
LEMMA PublishFaithful ==
  ASSUME P!PendingAssumption, Faithful, NEW m \in Managers,
         P!Owe(m) \/ P!PublishTakes(m) \/ P!PublishReads(m) \/ P!PublishWrites(m)
  PROVE  Faithful'
<1> USE DEF Faithful
<1>1. UNCHANGED <<clock, running, ops, check, held, hidden>>
  BY DEF P!Owe, P!PublishTakes, P!PublishReads, P!PublishWrites
<1>2. \A n \in Managers : P!newest(n)' = P!newest(n)  BY <1>1, SameNewest
<1>3. P!newest(m) \in Nat  BY Newest
<1>4. /\ publisher' \in [Managers -> [phase : Phases, value : Nat]] /\ file' \in [Managers -> Nat]
      /\ owing' \in [Managers -> BOOLEAN] /\ dirty' \in [Managers -> BOOLEAN]
      /\ stale' \in [Managers -> BOOLEAN]
      /\ \A n \in Managers : n # m => /\ publisher'[n] = publisher[n] /\ file'[n] = file[n]
                                      /\ owing'[n] = owing[n] /\ dirty'[n] = dirty[n]
                                      /\ stale'[n] = stale[n]
  <2>1. CASE P!Owe(m)  BY <2>1 DEF P!Owe, Typed
  <2>2. CASE P!PublishTakes(m)  BY <2>2 DEF P!PublishTakes, Typed, Phases
  <2>3. CASE P!PublishReads(m)  BY <2>3, <1>3 DEF P!PublishReads, Typed, Phases
  <2>4. CASE P!PublishWrites(m)  BY <2>4 DEF P!PublishWrites, Typed, Phases, P!Written, P!Settled, P!Idle
  <2> QED BY <2>1, <2>2, <2>3, <2>4
<1>5. Typed'  BY <1>1, <1>4 DEF Typed
<1>6. Mirrored'
  <2> SUFFICES ASSUME NEW n \in running, ~dirty'[n], ~owing'[n]
               PROVE  /\ publisher'[n].phase = "writing" => publisher'[n].value = P!newest(n)
                      /\ publisher'[n].phase = "idle" /\ ~stale'[n] => file'[n] = P!newest(n)
    <3>1. \A n \in running : n \in Managers  BY DEF Typed
    <3>2. \A n \in Managers : n \notin running => publisher'[n].phase = "idle"
      <4>1. \A n \in Managers : n \notin running /\ n # m => publisher'[n].phase = "idle"
        BY <1>4 DEF Mirrored
      <4>2. m \notin running => publisher'[m].phase = "idle"
        BY DEF Mirrored, P!Owe, P!PublishTakes, P!PublishReads, P!PublishWrites
      <4> QED BY <4>1, <4>2
    <3> QED BY <1>1, <1>2, <3>1, <3>2 DEF Mirrored
  <2>1. n \in Managers  BY DEF Typed
  <2>2. CASE n # m  BY <2>1, <2>2, <1>4 DEF Mirrored
  <2>3. CASE n = m
    <3>1. CASE P!Owe(m)  BY <2>3, <3>1 DEF P!Owe, Typed
    <3>2. CASE P!PublishTakes(m)  BY <2>3, <3>2 DEF P!PublishTakes, Typed
    <3>3. CASE P!PublishReads(m)  BY <2>3, <3>3 DEF P!PublishReads, Typed
    <3>4. CASE P!PublishWrites(m)
      <4>1. /\ publisher[m].phase = "writing" /\ publisher'[m].phase = "idle"
            /\ dirty' = dirty /\ owing' = owing
            /\ file'[m] = publisher[m].value \/ stale'[m]
        BY <3>4 DEF P!PublishWrites, Typed, P!Written, P!Settled, P!Idle
      <4> QED BY <2>3, <4>1 DEF Mirrored
    <3> QED BY <3>1, <3>2, <3>3, <3>4
  <2> QED BY <2>2, <2>3
<1>7. Spares'
  <2> SUFFICES ASSUME NEW s \in Managers, check[s].phase # "idle",
                      NEW n \in Managers, NEW d \in Calls, <<n, d>> \in held[s], n \notin hidden[s]
               PROVE  Guarded(s, n, d)'
    BY <1>1 DEF Spares
  <2>1. Guarded(s, n, d)  BY DEF Spares
  <2>2. CASE n # m  BY <2>1, <2>2, <1>1, <1>4 DEF Guarded
  <2>3. CASE n = m /\ n # s
    <3>1. check[s].now \in Nat  BY DEF Typed
    <3>2. P!Protects(P!newest(m), check[s].now)  BY <2>1, <2>3, <3>1, NewestProtects DEF Guarded
    <3>3. publisher'[m].phase = "writing" =>
             publisher'[m].value = P!newest(m) \/ (publisher[m].phase = "writing" /\ publisher'[m] = publisher[m])
      BY DEF P!Owe, P!PublishTakes, P!PublishReads, P!PublishWrites, Typed, P!Idle
    <3>4. file'[m] = file[m] \/ (publisher[m].phase = "writing" /\ file'[m] = publisher[m].value)
      BY DEF P!Owe, P!PublishTakes, P!PublishReads, P!PublishWrites, Typed, P!Written
    <3> QED BY <2>1, <2>3, <3>2, <3>3, <3>4, <1>1 DEF Guarded
  <2>4. CASE n = m /\ n = s  BY <2>1, <2>4, <1>1 DEF Guarded
  <2> QED BY <2>2, <2>3, <2>4
<1> QED BY <1>5, <1>6, <1>7

\* A process goes, and takes its calls along.
LEMMA GoneFaithful ==
  ASSUME P!PendingAssumption, Faithful, NEW m \in Managers, P!Leave(m) \/ P!Crash(m)
  PROVE  Faithful'
<1> USE DEF Faithful
<1>1. /\ clock' = clock /\ stale' = stale /\ hidden' = hidden /\ running' = running \ {m}
      /\ ops' = [ops EXCEPT ![m] = P!None] /\ owing' = [owing EXCEPT ![m] = FALSE]
      /\ dirty' = [dirty EXCEPT ![m] = FALSE] /\ publisher' = [publisher EXCEPT ![m] = P!Idle]
      /\ check' = [check EXCEPT ![m] = P!NoCheck]
      /\ held' = [s \in Managers |-> IF s = m THEN {} ELSE {h \in held[s] : h[1] # m}]
      /\ file' \in [Managers -> Nat] /\ \A n \in Managers : n # m => file'[n] = file[n]
  BY DEF P!Leave, P!Crash, P!Gone, Typed
<1>2. P!None \in [Calls -> Nat] /\ \A c \in Calls : P!None[c] = 0  BY DEF P!None
<1>3. /\ P!Idle \in [phase : Phases, value : Nat]
      /\ P!NoCheck \in [phase : CheckPhases, now : Nat, left : SUBSET Managers,
                     gone : SUBSET Managers, busy : BOOLEAN]
  BY DEF P!Idle, Phases, P!NoCheck, CheckPhases
<1>4. /\ ops' \in [Managers -> [Calls -> Nat]] /\ owing' \in [Managers -> BOOLEAN]
      /\ dirty' \in [Managers -> BOOLEAN]
      /\ publisher' \in [Managers -> [phase : Phases, value : Nat]]
      /\ check' \in [Managers -> [phase : CheckPhases, now : Nat, left : SUBSET Managers,
                                  gone : SUBSET Managers, busy : BOOLEAN]]
      /\ ops'[m] = P!None /\ check'[m] = P!NoCheck
      /\ \A n \in Managers : n # m => /\ ops'[n] = ops[n] /\ owing'[n] = owing[n] /\ dirty'[n] = dirty[n]
                                      /\ publisher'[n] = publisher[n] /\ check'[n] = check[n]
  BY <1>1, <1>2, <1>3 DEF Typed
<1>5. Typed'
  <2>0. clock \in Nat  BY DEF Typed
  <2>1. \A n \in Managers, c \in Calls : ops'[n][c] <= clock
    <3> SUFFICES ASSUME NEW n \in Managers, NEW c \in Calls PROVE ops'[n][c] <= clock  OBVIOUS
    <3>1. CASE n = m  BY <3>1, <2>0, <1>2, <1>4
    <3>2. CASE n # m  BY <3>2, <1>4 DEF Typed
    <3> QED BY <3>1, <3>2
  <2>2. \A s \in Managers : check'[s].now <= clock
    <3> SUFFICES ASSUME NEW s \in Managers PROVE check'[s].now <= clock  OBVIOUS
    <3>1. CASE s = m  BY <3>1, <2>0, <1>4 DEF P!NoCheck
    <3>2. CASE s # m  BY <3>2, <1>4 DEF Typed
    <3> QED BY <3>1, <3>2
  <2>3. held' \in [Managers -> SUBSET (Managers \X Calls)]  BY <1>1 DEF Typed
  <2> QED BY <1>1, <1>4, <2>1, <2>2, <2>3 DEF Typed
<1>6. Mirrored'
  <2> SUFFICES ASSUME NEW n \in running, n # m, ~dirty'[n], ~owing'[n]
               PROVE  /\ publisher'[n].phase = "writing" => publisher'[n].value = P!newest(n)'
                      /\ publisher'[n].phase = "idle" /\ ~stale'[n] => file'[n] = P!newest(n)'
    <3>1. \A n \in Managers : n \notin running' => publisher'[n].phase = "idle"
      BY <1>1, <1>4 DEF Mirrored, P!Idle, Typed
    <3> QED BY <1>1, <3>1 DEF Mirrored
  <2>1. n \in Managers  BY DEF Typed
  <2>2. P!newest(n)' = P!newest(n)  BY <2>1, <1>4, SameNewest
  <2> QED BY <2>1, <2>2, <1>1, <1>4 DEF Mirrored
<1>7. Spares'
  <2>1. ASSUME NEW s \in Managers, check'[s].phase # "idle",
               NEW n \in Managers, NEW d \in Calls, <<n, d>> \in held'[s], n \notin hidden'[s]
        PROVE  Guarded(s, n, d)'
    <3>1. s # m  BY <2>1, <1>4 DEF P!NoCheck
    <3>2. n # m /\ <<n, d>> \in held[s]  BY <2>1, <3>1, <1>1
    <3>3. Guarded(s, n, d)  BY <2>1, <3>1, <3>2, <1>1, <1>4 DEF Spares
    <3> QED BY <3>1, <3>2, <3>3, <1>1, <1>4 DEF Guarded
  <2>2. ASSUME NEW s \in Managers
        PROVE  /\ check'[s].phase = "condemned" => ~check'[s].busy /\ check'[s].left = {}
               /\ check'[s].phase = "own" => ~check'[s].busy
    BY <1>4 DEF Spares, P!NoCheck
  <2> QED BY <2>1, <2>2 DEF Spares
<1> QED BY <1>5, <1>6, <1>7

\* A manager is started, with nothing pending.
LEMMA RestartFaithful ==
  ASSUME P!PendingAssumption, Faithful, NEW m \in Managers, P!Restart(m)
  PROVE  Faithful'
<1> USE DEF Faithful
<1>1. /\ UNCHANGED <<clock, ops, owing, dirty, publisher, file, check, held, hidden>>
      /\ m \notin running /\ running' = running \cup {m} /\ stale' = [stale EXCEPT ![m] = TRUE]
  BY DEF P!Restart, P!daemonVars
<1>2. Typed'  BY <1>1 DEF Typed
<1>3. Spares'  BY <1>1 DEF Spares, Guarded
<1>4. Mirrored'
  <2>1. \A n \in Managers : P!newest(n)' = P!newest(n)  BY <1>1, SameNewest
  <2>2. stale'[m]  BY <1>1 DEF Typed
  <2>3. \A n \in running : n # m /\ n \in Managers /\ stale'[n] = stale[n]  BY <1>1 DEF Typed
  <2> QED BY <1>1, <2>1, <2>2, <2>3 DEF Mirrored
<1> QED BY <1>2, <1>3, <1>4

-----------------------------------------------------------------------------
(* The steps of a check. *)

\* What a check is.
Checks == [phase : CheckPhases, now : Nat, left : SUBSET Managers, gone : SUBSET Managers, busy : BOOLEAN]

\* A check that goes on: it may find a worktree busy, and what a call that is held against
\* it needs is kept.
LEMMA CheckGoesOn ==
  ASSUME P!PendingAssumption, Faithful, NEW s \in Managers, NEW k \in Checks,
         UNCHANGED <<clock, running, ops, owing, dirty, publisher, file, stale, held, hidden>>,
         check' = [check EXCEPT ![s] = k],
         check[s].phase # "idle", k.phase \notin {"idle", "own"}, k.now = check[s].now,
         check[s].busy => k.busy, k.phase = "condemned" => ~k.busy /\ k.left = {},
         \A m \in Managers, c \in Calls : Guarded(s, m, c) =>
            IF m = s THEN k.busy
            ELSE k.busy \/ (m \in k.left /\ P!Protects(file[m], k.now))
  PROVE  Faithful'
<1> USE DEF Faithful
<1>1. check' \in [Managers -> Checks] /\ check'[s] = k /\ \A t \in Managers : t # s => check'[t] = check[t]
  BY DEF Typed, Checks
<1>2. Typed'
  <2>1. \A t \in Managers : check'[t].now = check[t].now  BY <1>1
  <2> QED BY <1>1, <2>1 DEF Typed, Checks
<1>3. Mirrored'
  <2>1. \A n \in Managers : P!newest(n)' = P!newest(n)  BY SameNewest
  <2>2. \A n \in running : n \in Managers  BY DEF Typed
  <2> QED BY <2>1, <2>2 DEF Mirrored
<1>4. Spares'
  <2>1. ASSUME NEW t \in Managers, check'[t].phase # "idle",
               NEW n \in Managers, NEW d \in Calls, <<n, d>> \in held[t], n \notin hidden[t]
        PROVE  Guarded(t, n, d)'
    <3>1. Guarded(t, n, d)  BY <2>1, <1>1 DEF Spares
    <3>2. CASE t # s  BY <3>1, <3>2, <1>1 DEF Guarded
    <3>3. CASE t = s  BY <3>1, <3>3, <1>1 DEF Guarded
    <3> QED BY <3>2, <3>3
  <2>2. \A t \in Managers : /\ check'[t].phase = "condemned" => ~check'[t].busy /\ check'[t].left = {}
                            /\ check'[t].phase = "own" => ~check'[t].busy
    BY <1>1 DEF Spares
  <2> QED BY <2>1, <2>2 DEF Spares
<1> QED BY <1>2, <1>3, <1>4

\* The clock is read: what is known protects, and nothing is newer.
LEMMA StartsFaithful ==
  ASSUME P!PendingAssumption, Faithful, NEW s \in Managers, P!CheckStarts(s) \/ P!CheckLeaves(s)
  PROVE  Faithful'
<1> USE DEF Faithful
<1> DEFINE k == IF P!CheckStarts(s) THEN [P!NoCheck EXCEPT !.phase = "own", !.now = clock] ELSE P!NoCheck
<1>1. /\ UNCHANGED <<clock, running, ops, owing, dirty, publisher, file, stale>>
      /\ \E h : held' = [held EXCEPT ![s] = h] /\ h \subseteq Managers \X Calls
      /\ hidden' = [hidden EXCEPT ![s] = {}]
  <2>1. P!Known(s) \subseteq Managers \X Calls  BY DEF P!Known, Typed
  <2> QED BY <2>1 DEF P!CheckStarts, P!CheckLeaves, P!daemonVars
<1>2. check' = [check EXCEPT ![s] = k]
  BY DEF P!CheckStarts, P!CheckLeaves
<1>3. k \in Checks /\ k.now <= clock /\ clock \in Nat /\ k.phase # "condemned" /\ ~k.busy
  <2>1. P!NoCheck \in Checks /\ P!NoCheck.now = 0 /\ P!NoCheck.phase = "idle" /\ ~P!NoCheck.busy
    BY DEF Checks, CheckPhases, P!NoCheck
  <2>2. clock \in Nat  BY DEF Typed
  <2>3. CASE P!CheckStarts(s)
    <3>1. k = [phase |-> "own", now |-> clock, left |-> {}, gone |-> {}, busy |-> FALSE]
      BY <2>3 DEF P!NoCheck
    <3> HIDE DEF k
    <3> QED BY <2>2, <3>1 DEF Checks, CheckPhases
  <2>4. CASE ~P!CheckStarts(s)  BY <2>1, <2>2, <2>4
  <2> QED BY <2>3, <2>4
<1> HIDE DEF k
<1>4. check' \in [Managers -> Checks] /\ check'[s] = k /\ \A t \in Managers : t # s => check'[t] = check[t]
  BY <1>2, <1>3 DEF Typed, Checks
<1>5. /\ held' \in [Managers -> SUBSET (Managers \X Calls)] /\ hidden' \in [Managers -> SUBSET Managers]
      /\ \A t \in Managers : t # s => held'[t] = held[t] /\ hidden'[t] = hidden[t]
  BY <1>1 DEF Typed
<1>6. Typed'
  <2>1. \A t \in Managers : check'[t].now <= clock  BY <1>3, <1>4 DEF Typed
  <2> QED BY <1>1, <1>4, <1>5, <2>1 DEF Typed, Checks
<1>7. Mirrored'
  <2>1. \A n \in Managers : P!newest(n)' = P!newest(n)  BY <1>1, SameNewest
  <2>2. \A n \in running : n \in Managers  BY DEF Typed
  <2> QED BY <1>1, <2>1, <2>2 DEF Mirrored
<1>8. Spares'
  <2>1. ASSUME NEW t \in Managers, check'[t].phase # "idle",
               NEW n \in Managers, NEW d \in Calls, <<n, d>> \in held'[t], n \notin hidden'[t]
        PROVE  Guarded(t, n, d)'
    <3>1. CASE t # s
      <4>1. Guarded(t, n, d)  BY <2>1, <3>1, <1>4, <1>5 DEF Spares
      <4> QED BY <3>1, <4>1, <1>1, <1>4 DEF Guarded
    <3>2. CASE t = s
      <4>1. P!CheckStarts(s)  BY <2>1, <3>2, <1>4 DEF k, P!NoCheck
      <4>2. k = [P!NoCheck EXCEPT !.phase = "own", !.now = clock] /\ held'[s] = P!Known(s)
        BY <4>1 DEF k, P!CheckStarts, Typed
      <4>3. n \in running /\ P!KnownTo(s, n, d)  BY <2>1, <3>2, <4>2 DEF P!Known
      <4>4. k.phase = "own" /\ k.now = clock  BY <4>2 DEF P!NoCheck
      <4>5. \A e \in Calls : ops[n][e] <= clock  BY DEF Typed
      <4> QED BY <3>2, <4>3, <4>4, <4>5, <1>1, <1>4 DEF Guarded, P!KnownTo, P!Idle
    <3> QED BY <3>1, <3>2
  <2>2. \A t \in Managers : /\ check'[t].phase = "condemned" => ~check'[t].busy /\ check'[t].left = {}
                            /\ check'[t].phase = "own" => ~check'[t].busy
    BY <1>3, <1>4 DEF Spares
  <2> QED BY <2>1, <2>2 DEF Spares
<1> QED BY <1>6, <1>7, <1>8

\* The own calls are marked, files are read or found gone, and the verdict falls.
LEMMA ReadsFaithful ==
  ASSUME P!PendingAssumption, Faithful, NEW s \in Managers,
         P!CheckLists(s) \/ P!CheckEnds(s) \/ \E m \in Managers : P!CheckReads(s, m) \/ P!CheckMisses(s, m)
  PROVE  Faithful'
<1>1. check[s] \in Checks /\ check[s].now \in Nat /\ Typed /\ Spares  BY DEF Faithful, Typed, Checks
<1>2. UNCHANGED <<clock, running, ops, owing, dirty, publisher, file, stale, held, hidden>>
  BY DEF P!CheckLists, P!CheckEnds, P!CheckReads, P!CheckMisses, P!daemonVars
<1>3. CASE P!CheckLists(s)
  <2> DEFINE k == [check[s] EXCEPT !.phase = "files", !.busy = P!Protects(P!newest(s), check[s].now),
                                   !.left = {m \in Managers \ {s} : file[m] # 0}]
  <2>1. check' = [check EXCEPT ![s] = k] /\ check[s].phase = "own"  BY <1>3, <1>1 DEF P!CheckLists, Typed
  <2>0. ~check[s].busy  BY <2>1, <1>1 DEF Spares
  <2>2. k \in Checks  BY <1>1 DEF Checks, CheckPhases, P!Protects
  <2>3. k.phase = "files" /\ k.now = check[s].now  BY <1>1 DEF Checks
  <2>4. k.busy = P!Protects(P!newest(s), check[s].now) /\ k.left = {m \in Managers \ {s} : file[m] # 0}
    BY <1>1 DEF Checks
  <2>5. \A m \in Managers, c \in Calls : Guarded(s, m, c) =>
            IF m = s THEN k.busy
            ELSE k.busy \/ (m \in k.left /\ P!Protects(file[m], k.now))
    <3> SUFFICES ASSUME NEW m \in Managers, NEW c \in Calls, Guarded(s, m, c)
                 PROVE  IF m = s THEN k.busy ELSE k.busy \/ (m \in k.left /\ P!Protects(file[m], k.now))
      OBVIOUS
    <3>1. CASE m = s
      <4>1. P!Protects(P!newest(s), check[s].now)  BY <3>1, <1>1, NewestProtects DEF Guarded
      <4> QED BY <3>1, <4>1, <2>4
    <3>2. CASE m # s
      <4>1. P!Protects(file[m], check[s].now)  BY <3>2, <2>0 DEF Guarded
      <4>2. file[m] # 0  BY <4>1 DEF P!Protects
      <4> QED BY <3>2, <4>1, <4>2, <2>3, <2>4
    <3> QED BY <3>1, <3>2
  <2> HIDE DEF k
  <2> QED BY <1>2, <2>0, <2>1, <2>2, <2>3, <2>5, CheckGoesOn
<1>4. CASE P!CheckEnds(s)
  <2> DEFINE k == [check[s] EXCEPT !.phase = IF check[s].busy THEN "spared" ELSE "condemned"]
  <2>1. check' = [check EXCEPT ![s] = k] /\ check[s].phase = "files" /\ check[s].left = {}
    BY <1>4, <1>1 DEF P!CheckEnds, Typed
  <2>2. /\ k \in Checks /\ k.phase \in {"spared", "condemned"} /\ k.now = check[s].now
        /\ k.busy = check[s].busy /\ k.left = check[s].left
        /\ k.phase = "condemned" => ~k.busy
    BY <1>1 DEF Checks, CheckPhases
  <2>3. \A m \in Managers, c \in Calls : Guarded(s, m, c) =>
            IF m = s THEN k.busy
            ELSE k.busy \/ (m \in k.left /\ P!Protects(file[m], k.now))
    BY <2>1, <2>2 DEF Guarded
  <2> HIDE DEF k
  <2> QED BY <1>2, <2>1, <2>2, <2>3, CheckGoesOn
<1>5. ASSUME NEW n \in Managers, P!CheckReads(s, n) PROVE Faithful'
  <2> DEFINE k == [check[s] EXCEPT !.left = check[s].left \ {n},
                                   !.busy = check[s].busy \/ P!Protects(file[n], check[s].now)]
  <2>1. check' = [check EXCEPT ![s] = k] /\ check[s].phase = "files"
    BY <1>5, <1>1 DEF P!CheckReads, Typed
  <2>2. /\ k \in Checks /\ k.phase = "files" /\ k.now = check[s].now
        /\ k.busy = (check[s].busy \/ P!Protects(file[n], check[s].now)) /\ k.left = check[s].left \ {n}
    BY <1>1, <2>1 DEF Checks, CheckPhases, P!Protects
  <2>3. \A m \in Managers, c \in Calls : Guarded(s, m, c) =>
            IF m = s THEN k.busy
            ELSE k.busy \/ (m \in k.left /\ P!Protects(file[m], k.now))
    BY <2>1, <2>2 DEF Guarded
  <2> HIDE DEF k
  <2> QED BY <1>2, <2>1, <2>2, <2>3, CheckGoesOn
<1>6. ASSUME NEW n \in Managers, P!CheckMisses(s, n) PROVE Faithful'
  <2> DEFINE k == [check[s] EXCEPT !.phase = "strike", !.left = check[s].left \ {n}, !.gone = {n}]
  <2>1. check' = [check EXCEPT ![s] = k] /\ check[s].phase = "files" /\ n \notin running
    BY <1>6, <1>1, ZenonT(40) DEF P!CheckMisses, Typed
  <2>2. /\ k \in Checks /\ k.phase = "strike" /\ k.now = check[s].now
        /\ k.busy = check[s].busy /\ k.left = check[s].left \ {n}
    BY <1>1, <2>1 DEF Checks, CheckPhases
  <2>3. \A m \in Managers, c \in Calls : Guarded(s, m, c) =>
            IF m = s THEN k.busy
            ELSE k.busy \/ (m \in k.left /\ P!Protects(file[m], k.now))
    BY <2>1, <2>2 DEF Guarded
  <2> HIDE DEF k
  <2> QED BY <1>2, <2>1, <2>2, <2>3, CheckGoesOn
<1> QED BY <1>3, <1>4, <1>5, <1>6

\* A file is struck: from then on nothing it said is known to anybody.
LEMMA StrikesFaithful ==
  ASSUME P!PendingAssumption, Faithful, NEW s \in Managers, NEW m \in Managers, P!CheckStrikes(s, m)
  PROVE  Faithful'
<1> USE DEF Faithful
<1> DEFINE k == [check[s] EXCEPT !.phase = "files", !.gone = {}]
<1>1. /\ UNCHANGED <<clock, running, ops, owing, dirty, publisher, hidden>>
      /\ file' = [file EXCEPT ![m] = 0] /\ check' = [check EXCEPT ![s] = k]
      /\ stale' = [stale EXCEPT ![m] = stale[m] \/ m \in running]
      /\ held' = [t \in Managers |-> {h \in held[t] : h[1] # m}]
      /\ check[s].phase = "strike"
  BY DEF P!CheckStrikes, P!daemonVars, Typed
<1>2. /\ k \in Checks /\ k.phase = "files" /\ k.now = check[s].now
      /\ k.busy = check[s].busy /\ k.left = check[s].left
  BY <1>1 DEF Checks, CheckPhases, Typed
<1> HIDE DEF k
<1>3. check' \in [Managers -> Checks] /\ check'[s] = k /\ \A t \in Managers : t # s => check'[t] = check[t]
  BY <1>1, <1>2 DEF Typed, Checks
<1>4. \A t \in Managers : check'[t].now = check[t].now /\ check'[t].busy = check[t].busy
                          /\ check'[t].left = check[t].left
                          /\ (check'[t].phase = check[t].phase
                              \/ (check[t].phase = "strike" /\ check'[t].phase = "files"))
  BY <1>1, <1>2, <1>3
<1>5. /\ file' \in [Managers -> Nat] /\ stale' \in [Managers -> BOOLEAN] /\ (m \in running => stale'[m])
      /\ \A n \in Managers : n # m => file'[n] = file[n] /\ stale'[n] = stale[n]
      /\ held' \in [Managers -> SUBSET (Managers \X Calls)]
  BY <1>1 DEF Typed
<1>6. Typed'  BY <1>1, <1>3, <1>4, <1>5 DEF Typed, Checks
<1>7. Mirrored'
  <2>1. \A n \in Managers : P!newest(n)' = P!newest(n)  BY <1>1, SameNewest
  <2>2. \A n \in running : n \in Managers  BY DEF Typed
  <2> QED BY <1>1, <1>5, <2>1, <2>2 DEF Mirrored
<1>8. Spares'
  <2>1. ASSUME NEW t \in Managers, check'[t].phase # "idle",
               NEW n \in Managers, NEW d \in Calls, <<n, d>> \in held'[t], n \notin hidden[t]
        PROVE  Guarded(t, n, d)'
    <3>1. n # m /\ <<n, d>> \in held[t]  BY <2>1, <1>1
    <3>2. Guarded(t, n, d)  BY <2>1, <3>1, <1>4 DEF Spares
    <3> QED BY <3>1, <3>2, <1>1, <1>4, <1>5 DEF Guarded
  <2>2. \A t \in Managers : /\ check'[t].phase = "condemned" => ~check'[t].busy /\ check'[t].left = {}
                            /\ check'[t].phase = "own" => ~check'[t].busy
    BY <1>4 DEF Spares
  <2> QED BY <1>1, <2>1, <2>2 DEF Spares
<1> QED BY <1>6, <1>7, <1>8

\* Every step keeps the invariant.
LEMMA FaithfulStep == ASSUME P!PendingAssumption, Faithful, P!Next \/ UNCHANGED pendingVars PROVE Faithful'
<1>1. CASE UNCHANGED pendingVars
  <2>1. UNCHANGED <<clock, running, ops, owing, dirty, publisher, file, check, stale, held, hidden>>
    BY <1>1 DEF pendingVars
  <2>2. \A n \in Managers : P!newest(n)' = P!newest(n)  BY <2>1, SameNewest
  <2>3. \A n \in running : n \in Managers  BY DEF Faithful, Typed
  <2> QED BY <2>1, <2>2, <2>3 DEF Faithful, Typed, Mirrored, Spares, Guarded
<1>2. CASE P!Tick  BY <1>2, TickFaithful
<1>3. ASSUME NEW m \in Managers, P!Mirror(m) \/ P!Leave(m) \/ P!Crash(m) \/ P!Restart(m) PROVE Faithful'
  BY <1>3, CallFaithful, PublishFaithful, GoneFaithful, RestartFaithful DEF P!Mirror
<1>4. ASSUME NEW s \in Sweepers, P!Check(s) PROVE Faithful'
  <2>1. s \in Managers  BY DEF P!PendingAssumption
  <2> QED BY <1>4, <2>1, StartsFaithful, ReadsFaithful, StrikesFaithful DEF P!Check
<1> QED BY <1>1, <1>2, <1>3, <1>4 DEF P!Next

\* What is pending reaches the file: no change is lost between the slot and the file
\* however updates and writes interleave (update, publishPending), and no sweep condemns
\* a server over a call it could know of, that is pending still and that no newer call
\* hides (busyWorktrees, pending.go:149).
THEOREM PendingIsSeen == MCSpec => []PendingProtects
<1>1. MCInit => Faithful  BY MaintenanceAssumption, MirrorInit DEF MCInit
<1>2. Faithful /\ [MCNext]_<<part, vars, pendingVars, evictionVars, planVars>> => Faithful'
  <2>1. ASSUME MCNext \/ UNCHANGED pendingVars PROVE P!Next \/ UNCHANGED pendingVars
    BY <2>1 DEF MCNext
  <2> QED BY <2>1, MaintenanceAssumption, FaithfulStep
<1>3. ASSUME Faithful PROVE PendingProtects
  <2> USE <1>3 DEF Faithful
  <2>1. P!MirrorCatchesUp  BY DEF P!MirrorCatchesUp, Mirrored
  <2>2. P!KnownCallSpares
    <3> SUFFICES ASSUME NEW s \in Managers, P!Condemned(s), NEW h \in held[s], h[1] \notin hidden[s]
                 PROVE  FALSE
      BY DEF P!KnownCallSpares
    <3>1. h[1] \in Managers /\ h[2] \in Calls /\ h = <<h[1], h[2]>>  BY DEF Typed
    <3>2. check[s].phase = "condemned"  BY DEF P!Condemned
    <3>3. Guarded(s, h[1], h[2])  BY <3>1, <3>2 DEF Spares
    <3>4. ~check[s].busy /\ check[s].left = {}  BY <3>2 DEF Spares
    <3> QED BY <3>2, <3>3, <3>4 DEF Guarded
  <2> QED BY <2>1, <2>2 DEF PendingProtects, P!PendingProtects
<1> QED BY <1>1, <1>2, <1>3, PTL DEF MCSpec

-----------------------------------------------------------------------------
(* Eviction. *)

\* What is judged: records of processes, and the files each process has open.
Judgeable ==
  /\ records \in Seq([pid : Int, frequency : Nat, usedAt : Nat, age : Int,
                      busy : BOOLEAN, terminating : BOOLEAN])
  /\ files \in [E!Pids -> OpenFiles] /\ OpenFiles \subseteq Nat /\ budget \in Nat

\* The records there are.
Entries == 1 .. Len(records)

\* The processes are finitely many, and each has a first record.
LEMMA Processes ==
  ASSUME Judgeable
  PROVE  /\ Len(records) \in Nat /\ DOMAIN records = Entries
         /\ \A i \in Entries : /\ records[i].frequency \in Nat /\ records[i].usedAt \in Nat
                               /\ records[i].age \in Int /\ records[i].pid \in E!Pids
         /\ IsFiniteSet(E!Pids) /\ \A p \in E!Pids : files[p] \in Nat
         /\ \A p \in E!Pids : /\ E!Aliases(p) \in SUBSET Entries /\ E!Aliases(p) # {}
                              /\ IsFiniteSet(E!Aliases(p))
                              /\ Min(E!Aliases(p)) \in E!Aliases(p)
                              /\ \A q \in E!Pids : q # p => E!Aliases(p) \cap E!Aliases(q) = {}
<1>1. Len(records) \in Nat /\ DOMAIN records = Entries  BY DEF Judgeable, Entries
<1>2. ASSUME NEW i \in Entries
      PROVE  /\ records[i].frequency \in Nat /\ records[i].usedAt \in Nat
             /\ records[i].age \in Int /\ records[i].pid \in E!Pids
  <2> DEFINE X == [pid : Int, frequency : Nat, usedAt : Nat, age : Int,
                   busy : BOOLEAN, terminating : BOOLEAN]
  <2>1. records[i] \in X
    <3>1. records \in Seq(X)  BY DEF Judgeable
    <3> HIDE DEF X
    <3> QED BY <3>1 DEF Entries
  <2>2. records[i].pid \in E!Pids  BY <1>1 DEF E!Pids
  <2> QED BY <2>1, <2>2
<1>3. IsFiniteSet(Entries)  BY <1>1, FS_Interval DEF Entries
<1>4. IsFiniteSet(E!Pids)
  <2> DEFINE f == [i \in Entries |-> records[i].pid]
  <2>1. f \in Surjection(Entries, E!Pids)
    <3>1. \A i \in Entries : f[i] \in E!Pids  BY <1>2
    <3>2. \A p \in E!Pids : \E i \in Entries : f[i] = p  BY <1>1 DEF E!Pids
    <3> QED BY <3>1, <3>2 DEF Surjection
  <2> QED BY <2>1, <1>3, FS_Surjection
<1>5. \A p \in E!Pids : files[p] \in Nat  BY DEF Judgeable
<1>6. ASSUME NEW p \in E!Pids
      PROVE  /\ E!Aliases(p) \in SUBSET Entries /\ E!Aliases(p) # {} /\ IsFiniteSet(E!Aliases(p))
             /\ Min(E!Aliases(p)) \in E!Aliases(p)
             /\ \A q \in E!Pids : q # p => E!Aliases(p) \cap E!Aliases(q) = {}
  <2>1. E!Aliases(p) \in SUBSET Entries /\ E!Aliases(p) # {}  BY <1>1 DEF E!Aliases, E!Pids
  <2>2. E!Aliases(p) \in SUBSET Nat  BY <2>1, <1>1 DEF Entries
  <2> QED BY <2>1, <2>2, <1>3, Smallest, FS_Subset DEF E!Aliases
<1> QED BY <1>1, <1>2, <1>4, <1>5, <1>6

\* The best record of a process ranks it.
LEMMA RankedByBest ==
  ASSUME Judgeable, NEW p \in E!Pids
  PROVE  /\ E!Rank(p) \in E!Aliases(p)
         /\ \A i \in E!Aliases(p) : records[i].frequency <= records[E!Rank(p)].frequency
         /\ records[E!Rank(p)].frequency = E!Hottest(p)
<1> DEFINE A == E!Aliases(p)
<1> DEFINE best == {i \in A : \A j \in A : records[i].frequency >= records[j].frequency}
<1> DEFINE g == [i \in Entries |-> records[i].frequency]
<1>1. A \in SUBSET Entries /\ A # {} /\ IsFiniteSet(A) /\ \A i \in A : g[i] \in Nat  BY Processes
<1>2. \A i \in A : records[i].frequency \in Nat  BY <1>1
<1>3. best # {}
  <2>1. PICK i \in A : \A j \in A : g[j] <= g[i]
    <3> HIDE DEF A, g
    <3> QED BY <1>1, Largest
  <2>2. \A j \in A : records[i].frequency >= records[j].frequency  BY <2>1, <1>1, <1>2
  <2> QED BY <2>2
<1>4. Min(best) \in best
  <2>1. best \in SUBSET Nat  BY <1>1, Processes DEF Entries
  <2> HIDE DEF best
  <2> QED BY <2>1, <1>3, Smallest
<1>5. E!Rank(p) = Min(best)  BY DEF E!Rank, E!Min, Min
<1>6. E!Rank(p) \in A /\ \A i \in A : records[i].frequency <= records[E!Rank(p)].frequency
  BY <1>2, <1>4, <1>5
<1>7. records[E!Rank(p)].frequency = E!Hottest(p)
  <2> DEFINE H == {records[i].frequency : i \in A}
  <2>1. E!Hottest(p) = CHOOSE x \in H : \A y \in H : x >= y  BY DEF E!Hottest, E!Max
  <2>2. records[E!Rank(p)].frequency \in H /\ \A y \in H : records[E!Rank(p)].frequency >= y
    BY <1>2, <1>6
  <2>3. H \in SUBSET Nat  BY <1>2
  <2> HIDE DEF H
  <2>4. E!Hottest(p) \in H /\ \A y \in H : E!Hottest(p) >= y  BY <2>1, <2>2
  <2>5. /\ E!Hottest(p) \in Nat /\ records[E!Rank(p)].frequency \in Nat
        /\ E!Hottest(p) >= records[E!Rank(p)].frequency
        /\ records[E!Rank(p)].frequency >= E!Hottest(p)
    BY <2>2, <2>3, <2>4
  <2> QED BY <2>5
<1> QED BY <1>6, <1>7

\* The candidates are those that may go, each once, the coldest first.
LEMMA Candidates ==
  ASSUME Judgeable
  PROVE  LET n == Cardinality(E!Movable) IN
         /\ n \in Nat /\ Len(E!candidates) = n /\ DOMAIN E!candidates = 1 .. n
         /\ \A k \in 1 .. n : E!candidates[k] \in E!Movable
         /\ \A p \in E!Movable : \E k \in 1 .. n : E!candidates[k] = p
         /\ \A i, j \in 1 .. n : i < j => /\ E!candidates[i] # E!candidates[j]
                                          /\ E!Colder(E!candidates[i], E!candidates[j])
<1> DEFINE M == E!Movable
<1> DEFINE R == {x \in M \X M : E!Colder(x[1], x[2])}
<1>1. M \in SUBSET E!Pids /\ IsFiniteSet(M) /\ Cardinality(M) \in Nat
  BY Processes, FS_Subset, FS_CardinalityType DEF E!Movable
<1>2. \A p, q \in M : <<p, q>> \in R <=> E!Colder(p, q)  OBVIOUS
<1> DEFINE Key(p) == <<records[E!Rank(p)].frequency, records[E!Rank(p)].usedAt, Min(E!Aliases(p))>>
<1>3. ASSUME NEW p \in M
      PROVE  /\ Key(p)[1] \in Nat /\ Key(p)[2] \in Nat /\ Key(p)[3] \in Nat
             /\ Key(p)[3] \in E!Aliases(p)
  <2>1. p \in E!Pids  BY <1>1
  <2>2. E!Rank(p) \in Entries /\ Min(E!Aliases(p)) \in Entries /\ Min(E!Aliases(p)) \in E!Aliases(p)
    BY <2>1, Processes, RankedByBest
  <2> QED BY <2>2, Processes DEF Entries
<1>4. ASSUME NEW p \in M, NEW q \in M
      PROVE  E!Colder(p, q) <=> \/ Key(p)[1] < Key(q)[1]
                                \/ Key(p)[1] = Key(q)[1] /\ Key(p)[2] < Key(q)[2]
                                \/ Key(p)[1] = Key(q)[1] /\ Key(p)[2] = Key(q)[2] /\ Key(p)[3] <= Key(q)[3]
  BY DEF E!Colder, E!Min, Min
<1>5. \A p, q \in M : p # q => Key(p)[3] # Key(q)[3]
  <2> SUFFICES ASSUME NEW p \in M, NEW q \in M, p # q PROVE Key(p)[3] # Key(q)[3]  OBVIOUS
  <2>1. E!Aliases(p) \cap E!Aliases(q) = {}  BY <1>1, Processes
  <2> QED BY <2>1, <1>3
<1> HIDE DEF Key
<1>6. Ordering(M, R)
  <2> HIDE DEF R, M
  <2> QED BY <1>2, <1>3, <1>4, <1>5 DEF Ordering
<1>7. E!candidates = [k \in 1 .. Cardinality(M) |-> CHOOSE p \in M : Cardinality(Before(M, R, p)) = k]
  BY DEF E!candidates, E!InOrder, Before, E!Cardinality, Cardinality
<1> HIDE DEF R, M
<1>8. Len(E!candidates) = Cardinality(M) /\ DOMAIN E!candidates = 1 .. Cardinality(M)
  BY <1>1, <1>7
<1>9. Ranked(M, R, E!candidates)
  <2> SUFFICES ASSUME NEW k \in 1 .. Cardinality(M), \E p \in M : Cardinality(Before(M, R, p)) = k
               PROVE  E!candidates[k] \in M /\ Cardinality(Before(M, R, E!candidates[k])) = k
    BY DEF Ranked
  <2>1. E!candidates[k] = CHOOSE p \in M : Cardinality(Before(M, R, p)) = k  BY <1>7
  <2> QED BY <2>1
<1>10. InLine(M, R, E!candidates)  BY <1>1, <1>6, <1>9, LinedUp
<1>11. \A i, j \in 1 .. Cardinality(M) : i < j => E!Colder(E!candidates[i], E!candidates[j])
  BY <1>2, <1>10 DEF InLine
<1> QED BY <1>1, <1>8, <1>10, <1>11 DEF M, InLine

\* The first k candidates.
Taken(k) == {E!candidates[i] : i \in 1 .. k}

\* The files that are counted are the sum over the processes.
LEMMA Counted ==
  ASSUME Judgeable, NEW T \in SUBSET E!Pids
  PROVE  E!Total(T) = SumOf(files, T) /\ SumOf(files, T) \in Nat
<1>1. IsFiniteSet(T) /\ \A p \in T : files[p] \in Nat  BY Processes, FS_Subset
<1>2. E!Total(T) = MapThenSumSet(LAMBDA p : files[p], T)
  BY DEF E!Total, E!SumOver, E!MapThenSumSet, E!MapThenFoldSet, MapThenSumSet, MapThenFoldSet
<1> QED BY <1>1, <1>2, SumTaken, UnitsFinite

\* What is left is what the other processes have open, and every candidate counts.
LEMMA WhatIsLeft ==
  ASSUME Judgeable, NEW k \in 0 .. Len(E!candidates)
  PROVE  /\ Taken(k) \in SUBSET E!Movable /\ Taken(k) \in SUBSET E!Pids
         /\ E!Left(k) = E!Total(E!Pids \ Taken(k)) /\ E!Left(k) \in Nat
         /\ k > 0 => E!Left(k - 1) = E!Left(k) + files[E!candidates[k]]
<1>1. /\ Len(E!candidates) \in Nat /\ IsFiniteSet(E!Pids) /\ \A p \in E!Pids : files[p] \in Nat
      /\ E!Movable \in SUBSET E!Pids
  BY Candidates, Processes DEF E!Movable
<1>2. ASSUME NEW j \in 0 .. k
      PROVE  /\ Taken(j) \in SUBSET E!Movable /\ Taken(j) \in SUBSET E!Pids
             /\ E!Left(j) = SumOf(files, E!Pids \ Taken(j)) /\ E!Left(j) \in Nat
  <2>1. Taken(j) \in SUBSET E!Movable /\ Taken(j) \in SUBSET E!Pids  BY <1>1, Candidates DEF Taken
  <2>2. E!Left(j) = SumOf(files, E!Pids) - SumOf(files, Taken(j))  BY <2>1, Counted DEF E!Left, Taken
  <2> DEFINE T == Taken(j)
  <2> DEFINE S == E!Pids
  <2>3. T \in SUBSET S /\ IsFiniteSet(S) /\ \A p \in S : files[p] \in Nat  BY <1>1, <2>1
  <2> HIDE DEF T, S
  <2>4. /\ SumOf(files, S) = SumOf(files, T) + SumOf(files, S \ T)
        /\ SumOf(files, T) \in Nat /\ SumOf(files, S \ T) \in Nat
    BY <2>3, SumSplit
  <2>5. E!Left(j) = SumOf(files, S) - SumOf(files, T)  BY <2>2 DEF S, T
  <2>6. E!Left(j) = SumOf(files, S \ T) /\ E!Left(j) \in Nat  BY <2>4, <2>5
  <2> QED BY <2>1, <2>6 DEF S, T
<1>3. E!Left(k) = E!Total(E!Pids \ Taken(k))  BY <1>1, <1>2, Counted
<1>4. ASSUME k > 0 PROVE E!Left(k - 1) = E!Left(k) + files[E!candidates[k]]
  <2> DEFINE c == E!candidates[k]
  <2>1. k \in 1 .. Len(E!candidates) /\ k - 1 \in 0 .. k /\ k \in 0 .. k  BY <1>1, <1>4
  <2>2. c \in E!Pids /\ c \notin Taken(k - 1)
    <3>1. \A i \in 1 .. k - 1 : E!candidates[i] # c  BY <1>1, <2>1, Candidates
    <3> QED BY <1>1, <2>1, <3>1, Candidates DEF Taken
  <2>3. Taken(k) = Taken(k - 1) \cup {c}
    <3>1. 1 .. k = (1 .. k - 1) \cup {k}  BY <2>1
    <3> QED BY <3>1 DEF Taken
  <2> DEFINE U == E!Pids \ Taken(k)
  <2>4. U \in SUBSET E!Pids /\ c \notin U /\ E!Pids \ Taken(k - 1) = U \cup {c}  BY <2>2, <2>3
  <2> HIDE DEF U, c
  <2>5. SumOf(files, U \cup {c}) = SumOf(files, U) + files[c]  BY <1>1, <2>2, <2>4, SumAdd
  <2>6. E!Left(k) = SumOf(files, U) /\ E!Left(k) \in Nat  BY <1>2, <2>1 DEF U
  <2>7. E!Left(k - 1) = SumOf(files, U \cup {c})  BY <1>2, <2>1, <2>4
  <2> QED BY <2>5, <2>6, <2>7 DEF c
<1>5. k \in 0 .. k  BY <1>1
<1> QED BY <1>2, <1>3, <1>4, <1>5

\* The verdict is sound.
LEMMA VerdictSound ==
  ASSUME Judgeable, verdict = E!overBudget
  PROVE  EvictionSound
<1> DEFINE m == Len(E!candidates)
<1> DEFINE enough == {k \in 0 .. m : E!Fits(k)} \cup {m}
<1> DEFINE n == Min(enough)
<1>1. m \in Nat /\ m = Cardinality(E!Movable) /\ DOMAIN E!candidates = 1 .. m  BY Candidates
<1>2. n \in enough /\ \A k \in enough : n <= k
  <2>1. enough \in SUBSET Nat /\ enough # {}  BY <1>1
  <2> HIDE DEF enough
  <2> QED BY <2>1, Smallest
<1>3. verdict = [victims |-> SubSeq(E!candidates, 1, n), left |-> E!Left(n)]
  BY DEF E!overBudget, E!Min, Min
<1>4. n \in 0 .. m /\ n \in Nat  BY <1>1, <1>2
<1> HIDE DEF n, enough
<1>5. /\ Len(verdict.victims) = n /\ DOMAIN verdict.victims = 1 .. n
      /\ \A i \in 1 .. n : verdict.victims[i] = E!candidates[i]
  <2>1. SubSeq(E!candidates, 1, n) = [i \in 1 .. n |-> E!candidates[i]]  BY <1>1, <1>4
  <2> QED BY <1>3, <1>4, <2>1
<1>6. E!Victims = Taken(n)  BY <1>5 DEF E!Victims, E!ToSet, Taken
<1>7. Taken(n) \in SUBSET E!Movable /\ verdict.left = E!Total(E!Pids \ Taken(n)) /\ verdict.left = E!Left(n)
      /\ verdict.left \in Nat
  <2>1. n \in 0 .. Len(E!candidates)  BY <1>4
  <2>2. verdict.left = E!Left(n)  BY <1>3
  <2> QED BY <2>1, <2>2, WhatIsLeft
<1>8. E!SparesAliases
  <2> SUFFICES ASSUME NEW i \in DOMAIN records, records[i].pid \in E!Victims
               PROVE  /\ ~records[i].busy /\ ~records[i].terminating /\ files[records[i].pid] > 0
                      /\ records[i].age < 0 \/ records[i].age >= evictionWindow
    BY DEF E!SparesAliases
  <2> DEFINE p == records[i].pid
  <2>1. p \in E!Pids /\ ~E!Spared(p)  BY <1>6, <1>7 DEF E!Movable
  <2>2. i \in E!Aliases(p)  BY DEF E!Aliases
  <2>3. files[p] \in Nat /\ files[p] # 0  BY <2>1, Processes DEF E!Spared
  <2>4. ~(records[i].terminating \/ records[i].busy \/ (records[i].age >= 0 /\ records[i].age < evictionWindow))
    BY <2>1, <2>2 DEF E!Spared
  <2>5. records[i].age \in Int /\ evictionWindow \in Nat  BY Processes, MaintenanceAssumption DEF E!EvictionAssumption
  <2> QED BY <2>3, <2>4, <2>5
<1>9. E!JustEnough
  <2>1. verdict.left = E!Total(E!Pids \ E!Victims)  BY <1>6, <1>7
  <2>2. ASSUME verdict.left > budget PROVE \A p \in E!Pids \ E!Victims : E!Spared(p)
    <3>1. n = m
      <4>1. ~E!Fits(n)  BY <1>7, <2>2 DEF E!Fits, Judgeable
      <4> QED BY <1>2, <4>1 DEF enough
    <3>2. \A p \in E!Movable : p \in E!Victims  BY <1>1, <1>6, <3>1, Candidates DEF Taken
    <3> QED BY <3>2 DEF E!Movable
  <2>3. ASSUME verdict.victims # <<>> PROVE verdict.left + files[E!Last(verdict.victims)] > budget
    <3>1. n > 0 /\ E!Last(verdict.victims) = E!candidates[n]
      <4>1. n # 0
        <5>1. 1 .. 0 = {}  OBVIOUS
        <5>2. SubSeq(E!candidates, 1, 0) = <<>>  BY <1>1
        <5> QED BY <1>3, <2>3, <5>2
      <4> QED BY <1>4, <1>5, <4>1 DEF E!Last
    <3>2. n - 1 \in 0 .. m /\ ~(n <= n - 1) /\ n - 1 \in 0 .. m  BY <1>1, <1>4, <3>1
    <3>3. ~E!Fits(n - 1)  BY <1>2, <3>2 DEF enough
    <3>4. E!Left(n - 1) = E!Left(n) + files[E!candidates[n]] /\ E!Left(n - 1) \in Nat
      BY <1>4, <3>1, <3>2, WhatIsLeft
    <3> QED BY <1>7, <3>1, <3>3, <3>4 DEF E!Fits, Judgeable
  <2> QED BY <2>1, <2>2, <2>3 DEF E!JustEnough
<1>10. E!ColdestGoFirst
  <2> SUFFICES ASSUME NEW v \in E!Victims, NEW p \in E!Pids \ E!Victims, ~E!Spared(p)
               PROVE  E!Hottest(v) <= E!Hottest(p)
    BY DEF E!ColdestGoFirst
  <2>1. PICK i \in 1 .. n : v = E!candidates[i]  BY <1>6 DEF Taken
  <2>2. p \in E!Movable  BY DEF E!Movable
  <2>3. PICK j \in 1 .. m : p = E!candidates[j]  BY <1>1, <2>2, Candidates
  <2>4. j \notin 1 .. n  BY <1>6, <2>3 DEF Taken
  <2>5. i \in 1 .. m /\ i < j  BY <1>1, <1>4, <2>4
  <2>6. E!Colder(v, p)  BY <1>1, <2>1, <2>3, <2>5, Candidates
  <2>7. v \in E!Pids /\ p \in E!Pids  BY <1>6, <1>7 DEF E!Movable
  <2>8. /\ records[E!Rank(v)].frequency = E!Hottest(v) /\ records[E!Rank(v)].frequency \in Nat
        /\ records[E!Rank(p)].frequency = E!Hottest(p) /\ records[E!Rank(p)].frequency \in Nat
    BY <2>7, RankedByBest, Processes
  <2> QED BY <2>6, <2>8 DEF E!Colder
<1> QED BY <1>8, <1>9, <1>10 DEF EvictionSound, E!EvictionSound

\* The verdict on the same records is the same.
LEMMA SameVerdict ==
  ASSUME UNCHANGED <<records, files, budget>>
  PROVE  E!overBudget' = E!overBudget /\ E!Pids' = E!Pids
<1>1. E!Pids' = E!Pids /\ \A p : E!Aliases(p)' = E!Aliases(p)  BY DEF E!Pids, E!Aliases
<1>2. \A p : E!Rank(p)' = E!Rank(p) /\ (E!Spared(p)' <=> E!Spared(p))  BY <1>1 DEF E!Rank, E!Spared
<1>3. \A p, q : E!Colder(p, q)' <=> E!Colder(p, q)  BY <1>1, <1>2 DEF E!Colder
<1>4. E!Movable' = E!Movable  BY <1>1, <1>2 DEF E!Movable
<1>5. E!candidates' = E!candidates  BY <1>3, <1>4 DEF E!candidates
<1>6. \A n : E!Left(n)' = E!Left(n)  BY <1>1, <1>5 DEF E!Left, E!Total
<1>7. \A n : E!Fits(n)' <=> E!Fits(n)  BY <1>6 DEF E!Fits
<1>8. E!overBudget' = E!overBudget  BY <1>5, <1>6, <1>7 DEF E!overBudget
<1> QED BY <1>1, <1>8

\* What a behaviour of the eviction part keeps.
Judgment ==
  /\ part # "eviction" => verdict = E!Unjudged
  /\ part = "eviction" => Judgeable /\ (verdict = E!Unjudged \/ verdict = E!overBudget)

\* Whatever the records say and however many files are open: no process goes that any of
\* its records spares, no more go than the budget needs, and what goes is the coldest
\* (overBudget).
THEOREM EvictsTheColdest == MCSpec => []EvictionSound
<1>1. MCInit => Judgment
  <2> SUFFICES ASSUME MCInit PROVE Judgment  OBVIOUS
  <2>1. CASE part = "eviction"
    <3>1. E!Init  BY <2>1 DEF MCInit
    <3> QED BY <2>1, <3>1, MaintenanceAssumption DEF Judgment, Judgeable, E!Init, E!EvictionAssumption
  <2>2. CASE part # "eviction"  BY <2>2 DEF MCInit, NoRecords, Judgment
  <2> QED BY <2>1, <2>2
<1>2. Judgment /\ [MCNext]_<<part, vars, pendingVars, evictionVars, planVars>> => Judgment'
  <2> SUFFICES ASSUME Judgment, [MCNext]_<<part, vars, pendingVars, evictionVars, planVars>>
               PROVE  Judgment'
    OBVIOUS
  <2>1. part' = part /\ UNCHANGED <<records, files, budget>>
        /\ (verdict' = verdict \/ (part = "eviction" /\ verdict' = E!overBudget))
    BY DEF MCNext, E!Next, E!Judge, evictionVars
  <2>2. E!overBudget' = E!overBudget /\ E!Pids' = E!Pids  BY <2>1, SameVerdict
  <2>3. Judgeable => Judgeable'  BY <2>1, <2>2 DEF Judgeable
  <2> QED BY <2>1, <2>2, <2>3 DEF Judgment, E!Unjudged
<1>3. Judgment => EvictionSound
  <2>1. ASSUME verdict = E!Unjudged PROVE EvictionSound
    BY <2>1 DEF EvictionSound, E!EvictionSound, E!SparesAliases, E!JustEnough, E!ColdestGoFirst, E!Judged
  <2> QED BY <2>1, VerdictSound DEF Judgment
<1> QED BY <1>1, <1>2, <1>3, PTL DEF MCSpec

-----------------------------------------------------------------------------
(* The plan: paths. *)

Path == Seq(Segments)

\* The first n segments of a path.
Upper(d, n) == SubSeq(d, 1, n)

\* What lies below what, segment by segment.
LEMMA BelowMeans ==
  ASSUME NEW d \in Path, NEW r \in Path
  PROVE  W!Below(d, r) <=> Len(r) <= Len(d) /\ \A i \in 1 .. Len(r) : r[i] = d[i]
<1>1. SubSeq(r, 1, Len(r)) = r  BY DEF Path
<1>2. ASSUME Len(r) <= Len(d)
      PROVE  /\ SubSeq(d, 1, Len(r)) \in Seq(Segments) /\ Len(SubSeq(d, 1, Len(r))) = Len(r)
             /\ \A i \in 1 .. Len(r) : SubSeq(d, 1, Len(r))[i] = d[i]
  BY <1>2 DEF Path
<1>3. ASSUME Len(r) <= Len(d), \A i \in 1 .. Len(r) : r[i] = d[i] PROVE r = SubSeq(d, 1, Len(r))
  <2> DEFINE s == SubSeq(d, 1, Len(r))
  <2>1. s \in Seq(Segments) /\ Len(s) = Len(r) /\ \A i \in 1 .. Len(r) : s[i] = d[i]  BY <1>2, <1>3
  <2> HIDE DEF s
  <2>2. r = s  BY <2>1, <1>3, SameSequence DEF Path
  <2> QED BY <2>2 DEF s
<1>4. ASSUME Len(r) <= Len(d), r = SubSeq(d, 1, Len(r)) PROVE \A i \in 1 .. Len(r) : r[i] = d[i]
  <2> DEFINE s == SubSeq(d, 1, Len(r))
  <2>1. \A i \in 1 .. Len(r) : s[i] = d[i]  BY <1>2, <1>4
  <2>2. r = s  BY <1>4
  <2> HIDE DEF s
  <2> QED BY <2>1, <2>2
<1> QED BY <1>1, <1>3, <1>4 DEF W!Below, W!IsPrefix

\* Paths lie below one another as beginnings do: what lies above the same path is in line.
LEMMA BelowOrders ==
  ASSUME NEW d \in Path, NEW e \in Path, NEW r \in Path
  PROVE  /\ W!Below(d, d)
         /\ W!Below(d, e) /\ W!Below(e, r) => W!Below(d, r)
         /\ W!Below(d, e) /\ W!Below(e, d) => d = e
         /\ W!Below(d, e) /\ W!Below(d, r) /\ Len(e) <= Len(r) => W!Below(r, e)
         /\ W!Below(d, e) /\ Len(d) = Len(e) => d = e
         /\ W!Below(d, <<>>)
<1>1. W!Below(d, d)  BY BelowMeans
<1>2. W!Below(d, e) /\ W!Below(e, r) => W!Below(d, r)
  <2> SUFFICES ASSUME W!Below(d, e), W!Below(e, r) PROVE W!Below(d, r)  OBVIOUS
  <2>1. Len(r) \in Nat /\ Len(e) \in Nat /\ Len(d) \in Nat  BY DEF Path
  <2> QED BY <2>1, BelowMeans
<1>3. W!Below(d, e) /\ Len(d) = Len(e) => d = e
  <2> SUFFICES ASSUME W!Below(d, e), Len(d) = Len(e) PROVE d = e  OBVIOUS
  <2> QED BY BelowMeans, SameSequence DEF Path
<1>4. W!Below(d, e) /\ W!Below(e, d) => d = e
  <2> SUFFICES ASSUME W!Below(d, e), W!Below(e, d) PROVE d = e  OBVIOUS
  <2>1. Len(e) \in Nat /\ Len(d) \in Nat  BY DEF Path
  <2>2. Len(d) = Len(e)  BY <2>1, BelowMeans
  <2> QED BY <2>2, <1>3
<1>5. W!Below(d, e) /\ W!Below(d, r) /\ Len(e) <= Len(r) => W!Below(r, e)
  <2> SUFFICES ASSUME W!Below(d, e), W!Below(d, r), Len(e) <= Len(r) PROVE W!Below(r, e)  OBVIOUS
  <2>1. Len(r) \in Nat /\ Len(e) \in Nat /\ Len(d) \in Nat  BY DEF Path
  <2>2. \A i \in 1 .. Len(e) : e[i] = d[i] /\ i \in 1 .. Len(r)  BY <2>1, BelowMeans
  <2>3. \A i \in 1 .. Len(r) : r[i] = d[i]  BY BelowMeans
  <2> QED BY <2>2, <2>3, BelowMeans
<1>6. W!Below(d, <<>>)
  <2>1. <<>> \in Path /\ Len(<<>>) = 0 /\ Len(d) \in Nat  BY DEF Path
  <2> QED BY <2>1, BelowMeans
<1> QED BY <1>1, <1>2, <1>3, <1>4, <1>5, <1>6

\* The upper part of a path is a path above it.
LEMMA UpperIs ==
  ASSUME NEW d \in Path, NEW n \in 0 .. Len(d)
  PROVE  Upper(d, n) \in Path /\ Len(Upper(d, n)) = n /\ W!Below(d, Upper(d, n))
<1> DEFINE u == Upper(d, n)
<1>1. u \in Path /\ Len(u) = n /\ \A i \in 1 .. n : u[i] = d[i]  BY DEF Upper, Path
<1> HIDE DEF u
<1>2. W!Below(d, u)  BY <1>1, BelowMeans
<1> QED BY <1>1, <1>2 DEF u

\* And the only one of its length.
LEMMA AboveIsUpper ==
  ASSUME NEW d \in Path, NEW e \in Path, W!Below(d, e)
  PROVE  Len(e) \in 0 .. Len(d) /\ e = Upper(d, Len(e))
<1>1. Len(e) \in 0 .. Len(d)  BY BelowMeans DEF Path
<1> DEFINE u == Upper(d, Len(e))
<1>2. u \in Path /\ Len(u) = Len(e) /\ W!Below(d, u)  BY <1>1, UpperIs
<1> HIDE DEF u
<1>3. Len(u) <= Len(e) /\ Len(u) \in Nat /\ Len(e) \in Nat  BY <1>2 DEF Path
<1>4. W!Below(e, u)  BY <1>2, <1>3, BelowOrders
<1>5. e = u  BY <1>2, <1>4, BelowOrders
<1> QED BY <1>1, <1>5 DEF u

\* The parent of a path, and what lies above it.
LEMMA FrontIs ==
  ASSUME NEW d \in Path, d # <<>>
  PROVE  /\ Len(d) \in Nat \ {0} /\ W!Front(d) \in Path /\ Len(W!Front(d)) = Len(d) - 1
         /\ W!Below(d, W!Front(d)) /\ W!Front(d) # d
         /\ \A e \in Path : W!Below(d, e) /\ e # d => W!Below(W!Front(d), e)
<1>1. Len(d) \in Nat \ {0}  BY DEF Path
<1>2. W!Front(d) = Upper(d, Len(d) - 1)  BY DEF W!Front, Upper
<1>3. Len(d) - 1 \in 0 .. Len(d)  BY <1>1
<1>4. W!Front(d) \in Path /\ Len(W!Front(d)) = Len(d) - 1 /\ W!Below(d, W!Front(d))
  BY <1>2, <1>3, UpperIs
<1>5. W!Front(d) # d  BY <1>1, <1>4
<1>6. ASSUME NEW e \in Path, W!Below(d, e), e # d PROVE W!Below(W!Front(d), e)
  <2>1. Len(e) \in 0 .. Len(d)  BY <1>6, AboveIsUpper
  <2>2. Len(e) # Len(d)  BY <1>6, BelowOrders
  <2>3. Len(e) <= Len(W!Front(d))  BY <1>1, <1>4, <2>1, <2>2
  <2> QED BY <1>4, <1>6, <2>3, BelowOrders
<1> QED BY <1>1, <1>4, <1>5, <1>6

\* The kid of d that e is, or lies below.
LEMMA KidAbove ==
  ASSUME NEW d \in Path, NEW e \in Path, W!Below(e, d), e # d
  PROVE  \E k \in Path : /\ Len(k) = Len(d) + 1 /\ W!Below(k, d) /\ W!Below(e, k)
                         /\ \A j \in Path : W!Below(e, j) /\ W!Below(j, d) /\ j # d => W!Below(j, k)
<1>1. Len(d) \in 0 .. Len(e) /\ Len(e) \in Nat  BY AboveIsUpper DEF Path
<1>2. Len(d) # Len(e)  BY BelowOrders
<1>3. Len(d) + 1 \in 0 .. Len(e) /\ Len(d) <= Len(d) + 1 /\ Len(d) \in Nat  BY <1>1, <1>2
<1> DEFINE k == Upper(e, Len(d) + 1)
<1>4. k \in Path /\ Len(k) = Len(d) + 1 /\ W!Below(e, k)  BY <1>3, UpperIs
<1> HIDE DEF k
<1>5. W!Below(k, d)  BY <1>3, <1>4, BelowOrders
<1>6. ASSUME NEW j \in Path, W!Below(e, j), W!Below(j, d), j # d PROVE W!Below(j, k)
  <2>1. Len(d) \in 0 .. Len(j) /\ Len(j) # Len(d)  BY <1>6, AboveIsUpper, BelowOrders
  <2>2. Len(k) <= Len(j)  BY <1>3, <1>4, <2>1
  <2> QED BY <1>4, <1>6, <2>2, BelowOrders
<1> QED BY <1>4, <1>5, <1>6

-----------------------------------------------------------------------------
(* The plan: rules. *)

Pattern == Seq(Segments \cup {Stars})
Rule == [plus : BOOLEAN, path : Pattern]

\* How many segments of d the first i segments of p take, by ends.
Took(ends, i) == IF i = 0 THEN 0 ELSE ends[i]

\* ends is a match of p with d.
Match(p, d, ends) ==
  /\ ends \in [1 .. Len(p) -> 0 .. Len(d)]
  /\ \A i \in 1 .. Len(p) :
       IF p[i] = Stars THEN i = 1 \/ ends[i] > Took(ends, i - 1)
       ELSE ends[i] = Took(ends, i - 1) + 1 /\ p[i] = d[ends[i]]

LEMMA MatchIs ==
  ASSUME NEW p \in Pattern, NEW d \in Path
  PROVE  W!MatchesRule(p, d) <=> \E ends : Match(p, d, ends)
<1>1. Len(p) \in Nat  BY DEF Pattern
<1>2. \A i \in 1 .. Len(p) : (i - 1 = 0) <=> (i = 1)  BY <1>1
<1>3. ASSUME NEW ends, NEW i \in 1 .. Len(p)
      PROVE  Took(ends, i - 1) = IF i = 1 THEN 0 ELSE ends[i - 1]
  BY <1>2 DEF Took
<1>4. ASSUME NEW ends
      PROVE  Match(p, d, ends) <=>
               /\ ends \in [1 .. Len(p) -> 0 .. Len(d)]
               /\ \A i \in 1 .. Len(p) :
                    LET begin == IF i = 1 THEN 0 ELSE ends[i - 1]
                    IN  IF p[i] = Stars THEN i = 1 \/ ends[i] > begin
                                        ELSE ends[i] = begin + 1 /\ p[i] = d[ends[i]]
  BY <1>3 DEF Match
<1> QED BY <1>4 DEF W!MatchesRule

\* Plain segments take one each.
LEMMA Stretch ==
  ASSUME NEW p \in Pattern, NEW d \in Path, NEW ends, Match(p, d, ends),
         NEW a \in 0 .. Len(p), NEW b \in 0 .. Len(p), a <= b,
         \A i \in a + 1 .. b : p[i] # Stars
  PROVE  \A i \in 0 .. b - a : /\ Took(ends, a + i) = Took(ends, a) + i
                               /\ i > 0 => p[a + i] = d[Took(ends, a) + i]
<1>1. Len(p) \in Nat /\ b - a \in Nat  BY DEF Pattern
<1> DEFINE x == Took(ends, a)
<1>2. x \in Nat  BY <1>1 DEF Match, Took, Path
<1> DEFINE S == {i \in 0 .. b - a : Took(ends, a + i) = x + i /\ (i > 0 => p[a + i] = d[x + i])}
<1>3. 0 \in S  BY <1>1, <1>2
<1>4. ASSUME NEW i \in 0 .. (b - a) - 1, i \in S PROVE i + 1 \in S
  <2>1. /\ a + (i + 1) \in 1 .. Len(p) /\ a + (i + 1) \in a + 1 .. b
        /\ (a + (i + 1)) - 1 = a + i /\ i + 1 \in 0 .. b - a /\ a + (i + 1) # 0
    BY <1>1
  <2>2. p[a + (i + 1)] # Stars  BY <2>1
  <2>3. /\ ends[a + (i + 1)] = Took(ends, a + i) + 1
        /\ p[a + (i + 1)] = d[ends[a + (i + 1)]]
    BY <2>1, <2>2 DEF Match
  <2>4. Took(ends, a + i) = x + i  BY <1>4
  <2>5. ends[a + (i + 1)] = x + (i + 1)  BY <1>2, <2>3, <2>4
  <2>6. Took(ends, a + (i + 1)) = ends[a + (i + 1)]  BY <2>1 DEF Took
  <2> QED BY <2>1, <2>3, <2>5, <2>6
<1> HIDE DEF S
<1>5. \A i \in 0 .. b - a : i \in S  BY <1>1, <1>3, <1>4, UpTo
<1> QED BY <1>5 DEF S

\* A rule without "**" matches what lies below its path.
LEMMA PlainMatch ==
  ASSUME Stars \notin Segments, NEW p \in Path, NEW d \in Path
  PROVE  W!MatchesRule(p, d) <=> W!Below(d, p)
<1>1. p \in Pattern /\ Len(p) \in Nat /\ Len(d) \in Nat  BY DEF Path, Pattern
<1>2. \A i \in 1 .. Len(p) : p[i] # Stars  BY DEF Path
<1>3. ASSUME NEW ends, Match(p, d, ends) PROVE W!Below(d, p)
  <2>1. \A i \in 0 .. Len(p) - 0 : /\ Took(ends, 0 + i) = Took(ends, 0) + i
                                   /\ i > 0 => p[0 + i] = d[Took(ends, 0) + i]
    <3>1. 0 \in 0 .. Len(p) /\ Len(p) \in 0 .. Len(p) /\ 0 <= Len(p) /\ 0 + 1 = 1  BY <1>1
    <3> QED BY <1>1, <1>2, <1>3, <3>1, Stretch
  <2>2. Took(ends, 0) = 0  BY DEF Took
  <2>3. \A i \in 1 .. Len(p) : ends[i] = i /\ p[i] = d[i]  BY <1>1, <2>1, <2>2 DEF Took
  <2>4. Len(p) <= Len(d)
    <3>1. CASE Len(p) = 0  BY <3>1, <1>1
    <3>2. CASE Len(p) # 0
      <4>1. Len(p) \in 1 .. Len(p)  BY <3>2, <1>1
      <4> QED BY <4>1, <2>3, <1>1, <1>3 DEF Match
    <3> QED BY <3>1, <3>2
  <2> QED BY <2>3, <2>4, BelowMeans
<1>4. ASSUME W!Below(d, p) PROVE Match(p, d, [i \in 1 .. Len(p) |-> i])
  <2>1. Len(p) <= Len(d) /\ \A i \in 1 .. Len(p) : p[i] = d[i]  BY <1>4, BelowMeans
  <2> QED BY <1>1, <1>2, <2>1 DEF Match, Took
<1> QED BY <1>1, <1>3, <1>4, MatchIs

\* What matches a directory matches all below it.
LEMMA MatchesBelow ==
  ASSUME NEW p \in Pattern, NEW d \in Path, NEW e \in Path, W!Below(e, d), W!MatchesRule(p, d)
  PROVE  W!MatchesRule(p, e)
<1>1. Len(p) \in Nat /\ Len(d) \in Nat /\ Len(e) \in Nat  BY DEF Pattern, Path
<1>2. Len(d) <= Len(e) /\ \A i \in 1 .. Len(d) : d[i] = e[i]  BY BelowMeans
<1>3. PICK ends : Match(p, d, ends)  BY MatchIs
<1>4. \A i \in 1 .. Len(p) : ends[i] \in 0 .. Len(d) /\ ends[i] \in 0 .. Len(e)
  BY <1>1, <1>2, <1>3 DEF Match
<1>5. \A i \in 1 .. Len(p) : Took(ends, i - 1) \in Nat  BY <1>1, <1>4 DEF Took
<1>6. ASSUME NEW i \in 1 .. Len(p), p[i] # Stars
      PROVE  ends[i] = Took(ends, i - 1) + 1 /\ p[i] = e[ends[i]]
  <2>1. ends[i] = Took(ends, i - 1) + 1 /\ p[i] = d[ends[i]]  BY <1>3, <1>6 DEF Match
  <2>2. ends[i] \in 1 .. Len(d)  BY <2>1, <1>1, <1>4, <1>5
  <2> QED BY <2>1, <2>2, <1>2
<1>7. Match(p, e, ends)
  <2>1. ends \in [1 .. Len(p) -> 0 .. Len(e)]  BY <1>3, <1>4 DEF Match
  <2>2. \A i \in 1 .. Len(p) : p[i] = Stars => i = 1 \/ ends[i] > Took(ends, i - 1)
    BY <1>3 DEF Match
  <2> QED BY <2>1, <2>2, <1>6 DEF Match
<1> QED BY <1>7, MatchIs

LEMMA RuleIs ==
  ASSUME NEW R \in Seq(Rule), NEW i \in DOMAIN R
  PROVE  R[i].path \in Pattern /\ R[i].plus \in BOOLEAN
<1>1. R[i] \in Rule  OBVIOUS
<1> DEFINE r == R[i]
<1> HIDE DEF r
<1>2. r \in Rule  BY <1>1 DEF r
<1>3. r.path \in Pattern /\ r.plus \in BOOLEAN  BY <1>2 DEF Rule
<1> QED BY <1>3 DEF r

\* The last rule that matches, if one does.
LEMMA LastRule ==
  ASSUME NEW R \in Seq(Rule), NEW d \in Path
  PROVE  \/ W!Include(R, d) /\ \A i \in DOMAIN R : ~W!MatchesRule(R[i].path, d)
         \/ \E i \in DOMAIN R : /\ W!MatchesRule(R[i].path, d) /\ (W!Include(R, d) <=> R[i].plus)
                                /\ \A j \in DOMAIN R : W!MatchesRule(R[j].path, d) => j <= i
<1> DEFINE matching == {i \in DOMAIN R : W!MatchesRule(R[i].path, d)}
<1>1. CASE matching = {}  BY <1>1 DEF W!Include
<1>2. CASE matching # {}
  <2>1. Len(R) \in Nat /\ DOMAIN R = 1 .. Len(R)  OBVIOUS
  <2>2. matching \in SUBSET Nat /\ \A x \in matching : x <= Len(R)  BY <2>1
  <2> DEFINE m == matching
  <2> HIDE DEF m
  <2>3. \E i \in m : \A j \in m : j <= i  BY <1>2, <2>1, <2>2, Greatest DEF m
  <2> DEFINE last == CHOOSE i \in m : \A j \in m : j <= i
  <2>4. last \in m /\ \A j \in m : j <= last  BY <2>3
  <2>5. W!Include(R, d) = R[last].plus
    <3>1. W!Include(R, d) = (matching = {} \/ R[CHOOSE i \in matching : \A j \in matching : j <= i].plus)
      BY DEF W!Include
    <3>2. last \in DOMAIN R  BY <2>4 DEF m
    <3>3. R[last].plus \in BOOLEAN  BY <3>2, RuleIs
    <3> QED BY <3>1, <3>3, <1>2 DEF m
  <2> HIDE DEF last
  <2> QED BY <2>4, <2>5 DEF m
<1> QED BY <1>1, <1>2

\* Below a directory that is excluded, and that no + rule may include or lead to an
\* included one, nothing is included.
LEMMA NothingBelow ==
  ASSUME Stars \notin Segments, NEW R \in Seq(Rule), NEW d \in Path, NEW e \in Path, W!Below(e, d),
         ~W!Include(R, d), ~W!MayInclude(R, d)
  PROVE  ~W!Include(R, e)
<1>1. PICK i \in DOMAIN R : /\ W!MatchesRule(R[i].path, d) /\ ~R[i].plus
                            /\ \A j \in DOMAIN R : W!MatchesRule(R[j].path, d) => j <= i
  BY LastRule
<1>2. \A j \in DOMAIN R : R[j].path \in Pattern /\ R[j].plus \in BOOLEAN  BY RuleIs
<1>3. W!MatchesRule(R[i].path, e)  BY <1>1, <1>2, MatchesBelow
<1>4. PICK j \in DOMAIN R : /\ W!MatchesRule(R[j].path, e) /\ (W!Include(R, e) <=> R[j].plus)
                            /\ \A h \in DOMAIN R : W!MatchesRule(R[h].path, e) => h <= j
  BY <1>3, LastRule
<1>5. ASSUME R[j].plus PROVE FALSE
  <2> DEFINE p == R[j].path
  <2>1. p # <<>> /\ Stars \notin W!Range(p) /\ ~W!Below(p, d)  BY <1>5 DEF W!MayInclude
  <2>2. p \in Path
    <3>1. p \in Pattern  BY <1>2
    <3>2. \A k \in 1 .. Len(p) : p[k] \in Segments
      <4> SUFFICES ASSUME NEW k \in 1 .. Len(p) PROVE p[k] \in Segments  OBVIOUS
      <4>1. p[k] \in Segments \cup {Stars} /\ k \in DOMAIN p  BY <3>1 DEF Pattern
      <4>2. p[k] \in W!Range(p)  BY <4>1 DEF W!Range
      <4> QED BY <4>1, <4>2, <2>1
    <3> HIDE DEF p
    <3> QED BY <3>1, <3>2, SMTT(30) DEF Path, Pattern
  <2> HIDE DEF p
  <2>3. W!Below(e, p)  BY <2>2, <1>4, PlainMatch DEF p
  <2>4. W!Below(d, p)
    <3>1. Len(p) \in Nat /\ Len(d) \in Nat  BY <2>2 DEF Path
    <3>2. CASE Len(p) <= Len(d)  BY <3>2, <2>2, <2>3, BelowOrders
    <3>3. CASE Len(d) <= Len(p)  BY <3>3, <2>1, <2>2, <2>3, BelowOrders
    <3> QED BY <3>1, <3>2, <3>3
  <2>5. W!MatchesRule(p, d)  BY <2>2, <2>4, PlainMatch
  <2>6. j <= i /\ i <= j  BY <2>5, <1>1, <1>3, <1>4 DEF p
  <2>7. i = j  BY <2>6
  <2> QED BY <2>7, <1>1, <1>5
<1> QED BY <1>4, <1>5

-----------------------------------------------------------------------------
(* The plan: the walk. *)

\* The directories a tree may hold.
LEMMA DirsArePaths ==
  ASSUME W!PlanAssumption
  PROVE  /\ IsFiniteSet(Dirs) /\ Stars \notin Segments
         /\ \A d \in Dirs : d \in Path /\ d # <<>> /\ Len(d) \in Nat \ {0}
<1>1. IsFiniteSet(Dirs)  BY DEF W!PlanAssumption, IsFiniteSet, W!IsFiniteSet
<1>2. Stars \notin Segments /\ \A d \in Dirs : d \in Path /\ d # <<>>  BY DEF W!PlanAssumption, Path
<1>3. \A d \in Path : d # <<>> => Len(d) \in Nat \ {0}  BY DEF Path
<1> QED BY <1>1, <1>2, <1>3

\* A tree holds what lies above its directories.
LEMMA Upwards ==
  ASSUME W!PlanAssumption, NEW t \in W!Trees, NEW d \in t, NEW e \in Path, e # <<>>, W!Below(d, e)
  PROVE  e \in t
<1>1. d \in Dirs /\ \A u \in t : u \in Dirs /\ (Len(u) = 1 \/ W!Front(u) \in t)  BY DEF W!Trees
<1>2. d \in Path /\ Len(d) \in Nat \ {0}  BY <1>1, DirsArePaths
<1> DEFINE S == {k \in 0 .. Len(d) - 1 : Upper(d, Len(d) - k) \in t}
<1>3. 0 \in S
  <2>1. Upper(d, Len(d) - 0) = d
    <3>1. W!Below(d, d) /\ Len(d) - 0 = Len(d)  BY <1>2, BelowOrders
    <3> QED BY <1>2, <3>1, AboveIsUpper
  <2> QED BY <1>2, <2>1
<1>4. ASSUME NEW k \in 0 .. (Len(d) - 1) - 1, k \in S PROVE k + 1 \in S
  <2> DEFINE u == Upper(d, Len(d) - k)
  <2>1. Len(d) - k \in 0 .. Len(d) /\ Len(d) - k > 1 /\ k + 1 \in 0 .. Len(d) - 1  BY <1>2
  <2>2. u \in Path /\ Len(u) = Len(d) - k /\ W!Below(d, u) /\ u \in t  BY <1>2, <1>4, <2>1, UpperIs
  <2> HIDE DEF u, S
  <2>3. u # <<>>  BY <2>1, <2>2
  <2>4. W!Front(u) \in t
    <3>1. Len(d) - k # 1  BY <1>2, <2>1
    <3>2. Len(u) # 1  BY <2>2, <3>1
    <3> QED BY <1>1, <2>2, <3>2
  <2>5. W!Front(u) \in Path /\ Len(W!Front(u)) = Len(d) - (k + 1) /\ W!Below(u, W!Front(u))
    <3>1. Len(u) - 1 = Len(d) - (k + 1)  BY <1>2, <2>2
    <3> QED BY <3>1, <2>2, <2>3, FrontIs
  <2>6. W!Below(d, W!Front(u))  BY <1>2, <2>2, <2>5, BelowOrders
  <2>7. W!Front(u) = Upper(d, Len(d) - (k + 1))  BY <1>2, <2>5, <2>6, AboveIsUpper
  <2> QED BY <2>1, <2>4, <2>7 DEF S
<1>5. \A k \in 0 .. Len(d) - 1 : k \in S
  <2>1. Len(d) - 1 \in Nat  BY <1>2
  <2> HIDE DEF S
  <2> QED BY <1>3, <1>4, <2>1, UpTo
<1>6. Len(e) \in 0 .. Len(d) /\ e = Upper(d, Len(e)) /\ Len(e) # 0
  BY <1>2, AboveIsUpper DEF Path
<1>7. Len(d) - Len(e) \in 0 .. Len(d) - 1 /\ Len(d) - (Len(d) - Len(e)) = Len(e)  BY <1>2, <1>6
<1> QED BY <1>5, <1>6, <1>7

\* Directories have a depth.
LEMMA Deepest ==
  ASSUME W!PlanAssumption
  PROVE  \E depth \in Nat : \A d \in Dirs : Len(d) <= depth
<1>1. CASE Dirs = {}  BY <1>1
<1>2. CASE Dirs # {}
  <2> DEFINE g == [d \in Dirs |-> Len(d)]
  <2>1. \A d \in Dirs : g[d] \in Nat /\ g[d] = Len(d)  BY DirsArePaths
  <2> HIDE DEF g
  <2>2. PICK s \in Dirs : \A d \in Dirs : g[d] <= g[s]  BY <1>2, <2>1, DirsArePaths, Largest
  <2> QED BY <2>1, <2>2
<1> QED BY <1>1, <1>2

\* What there is to walk, and how a directory is visited when its kids have been.
Nodes == (Dirs \cup {<<>>}) \X BOOLEAN
Seen(t, R, d) == {k \in W!Kids(t, d) : W!Include(R, k) \/ W!MayInclude(R, k)}
Visit(t, c, R, of, x) ==
  IF x[1] \in c THEN W!Unread
  ELSE W!Walked(t, R, x[1], x[2], [k \in Seen(t, R, x[1]) |-> of[<<k, W!Include(R, k)>>]])

\* A visit asks of deeper directories only.
LEMMA VisitsDeeper ==
  ASSUME W!PlanAssumption, NEW t \in SUBSET Dirs, NEW c, NEW R, NEW f, NEW g, NEW x \in Nodes,
         \A y \in Nodes : Len(y[1]) > Len(x[1]) => f[y] = g[y]
  PROVE  Visit(t, c, R, f, x) = Visit(t, c, R, g, x)
<1>1. \A d \in Dirs : Len(d) \in Nat  BY DirsArePaths
<1>2. Len(<<>>) = 0  OBVIOUS
<1>3. Len(x[1]) \in Nat  BY <1>1, <1>2 DEF Nodes
<1>4. ASSUME NEW k \in Seen(t, R, x[1]) PROVE f[<<k, W!Include(R, k)>>] = g[<<k, W!Include(R, k)>>]
  <2>1. k \in Dirs /\ Len(k) = Len(x[1]) + 1  BY DEF Seen, W!Kids
  <2>2. W!Include(R, k) \in BOOLEAN  BY DEF W!Include
  <2> DEFINE y == <<k, W!Include(R, k)>>
  <2>3. y \in Nodes /\ y[1] = k  BY <2>1, <2>2 DEF Nodes
  <2>4. Len(k) > Len(x[1])  BY <1>3, <2>1
  <2> HIDE DEF y
  <2>5. f[y] = g[y]  BY <2>3, <2>4
  <2> QED BY <2>5 DEF y
<1>5. [k \in Seen(t, R, x[1]) |-> f[<<k, W!Include(R, k)>>]]
      = [k \in Seen(t, R, x[1]) |-> g[<<k, W!Include(R, k)>>]]
  BY <1>4
<1> QED BY <1>5 DEF Visit

\* So the walk is what its equation says.
LEMMA WalkIs ==
  ASSUME W!PlanAssumption, NEW t \in SUBSET Dirs, NEW c, NEW R
  PROVE  \A x \in Nodes : W!walk(t, c, R)[x] = Visit(t, c, R, W!walk(t, c, R), x)
<1>1. PICK depth \in Nat : \A d \in Dirs : Len(d) <= depth  BY Deepest
<1>2. \A x \in Nodes : Len(x[1]) \in 0 .. depth
  <2>1. \A d \in Dirs : Len(d) \in Nat  BY DirsArePaths
  <2>2. Len(<<>>) = 0  OBVIOUS
  <2> QED BY <1>1, <2>1, <2>2 DEF Nodes
<1> DEFINE Upto(n, w) ==
      /\ w = [x \in Nodes |-> w[x]]
      /\ \A x \in Nodes : Len(x[1]) > depth - n => w[x] = Visit(t, c, R, w, x)
<1> DEFINE S == {n \in 0 .. depth + 1 : \E w : Upto(n, w)}
<1>3. 0 \in S
  <2> DEFINE w == [x \in Nodes |-> 0]
  <2>1. w = [x \in Nodes |-> w[x]]  OBVIOUS
  <2>2. \A x \in Nodes : ~(Len(x[1]) > depth - 0)  BY <1>2
  <2> HIDE DEF w
  <2> QED BY <2>1, <2>2
<1>4. ASSUME NEW n \in 0 .. (depth + 1) - 1, n \in S PROVE n + 1 \in S
  <2>1. PICK w : Upto(n, w)  BY <1>4
  <2> DEFINE v == [x \in Nodes |-> IF Len(x[1]) = depth - n THEN Visit(t, c, R, w, x) ELSE w[x]]
  <2>2. v = [x \in Nodes |-> v[x]]  OBVIOUS
  <2>3. \A x \in Nodes : v[x] = IF Len(x[1]) = depth - n THEN Visit(t, c, R, w, x) ELSE w[x]  OBVIOUS
  <2> HIDE DEF v
  <2>4. ASSUME NEW x \in Nodes, Len(x[1]) > depth - (n + 1) PROVE v[x] = Visit(t, c, R, v, x)
    <3>1. Len(x[1]) >= depth - n  BY <1>2, <2>4
    <3>2. \A y \in Nodes : Len(y[1]) > Len(x[1]) => w[y] = v[y]  BY <1>2, <2>3, <3>1
    <3>3. Visit(t, c, R, w, x) = Visit(t, c, R, v, x)
      <4> HIDE DEF Upto, S
      <4> QED BY <3>2, VisitsDeeper
    <3>4. v[x] = Visit(t, c, R, w, x)
      <4>1. CASE Len(x[1]) = depth - n  BY <4>1, <2>3
      <4>2. CASE Len(x[1]) # depth - n
        <5>1. Len(x[1]) > depth - n  BY <4>2, <3>1, <1>2
        <5> QED BY <5>1, <4>2, <2>1, <2>3
      <4> QED BY <4>1, <4>2
    <3> QED BY <3>3, <3>4
  <2>5. Upto(n + 1, v)  BY <2>2, <2>4
  <2>6. n + 1 \in 0 .. depth + 1  OBVIOUS
  <2> HIDE DEF Upto
  <2> QED BY <2>5, <2>6
<1>5. \A n \in 0 .. depth + 1 : n \in S
  <2> HIDE DEF S
  <2> QED BY <1>3, <1>4, UpTo
<1>6. PICK w : Upto(depth + 1, w)
  <2>1. depth + 1 \in 0 .. depth + 1  OBVIOUS
  <2> HIDE DEF Upto
  <2> QED BY <1>5, <2>1
<1>7. \A x \in Nodes : w[x] = Visit(t, c, R, w, x)
  <2>1. \A x \in Nodes : Len(x[1]) > depth - (depth + 1)  BY <1>2
  <2> QED BY <1>6, <2>1
<1> DEFINE Walks(f) == f = [x \in Nodes |-> Visit(t, c, R, f, x)]
<1>8. Walks(w)
  <2>1. w = [x \in Nodes |-> w[x]]  BY <1>6
  <2> HIDE DEF Upto
  <2> QED BY <1>7, <2>1
<1>9. W!walk(t, c, R) = CHOOSE f : Walks(f)
  BY DEF W!walk, Visit, Seen, Nodes, W!Worktree
<1> DEFINE f == CHOOSE f : Walks(f)
<1>10. Walks(f)
  <2> HIDE DEF Walks
  <2> QED BY <1>8
<1>11. \A x \in Nodes : f[x] = Visit(t, c, R, f, x)
  <2> HIDE DEF f
  <2> QED BY <1>10
<1> QED BY <1>9, <1>11

-----------------------------------------------------------------------------
(* The plan: what the walk of a tree t finds, when c cannot be read. *)

Strictly(e, d) == W!Below(e, d) /\ e # d
Reads(c, e) == \A s \in c : e = s \/ ~W!Below(e, s)
OwnFiles(R, d) == d = <<>> \/ W!Include(R, d)

\* All below d is included.
AllIn(t, c, R, d) == \A e \in t : Strictly(e, d) /\ Reads(c, e) => W!Include(R, e)
Clean(t, c, R, d) == d \in c \/ (OwnFiles(R, d) /\ AllIn(t, c, R, d))

\* The walk of d comes to e.
Reached(t, c, R, d, e) ==
  /\ Reads(c, e)
  /\ \A j \in t : W!Below(e, j) /\ Strictly(j, d) => W!Include(R, j) \/ W!MayInclude(R, j)

\* The roots below d, and the partial directories.
RootsBelow(t, c, R, d) ==
  {r \in t : /\ Strictly(r, d) /\ Reached(t, c, R, d, r) /\ W!Include(R, r)
             /\ Clean(t, c, R, r) /\ ~Clean(t, c, R, W!Front(r))}
PartialBelow(t, c, R, d) ==
  {e \in t \cup {d} : W!Below(e, d) /\ Reached(t, c, R, d, e) /\ ~Clean(t, c, R, e)}
Entry(t, R, e) ==
  [dir |-> e, files |-> OwnFiles(R, e), names |-> W!relevantNames(t, R, e, OwnFiles(R, e))]

PartialEntries(t, c, R, d) == {Entry(t, R, e) : e \in PartialBelow(t, c, R, d)}

\* What the walk of d returns.
Found(t, c, R, d) ==
  [clean   |-> Clean(t, c, R, d), roots |-> RootsBelow(t, c, R, d), partial |-> PartialEntries(t, c, R, d)]

\* The kids of a directory that can be read.
LEMMA Kid ==
  ASSUME W!PlanAssumption, NEW t \in W!Trees, NEW c, c \subseteq Dirs,
         NEW d \in Path, d \notin c, Reads(c, d), NEW k \in W!Kids(t, d)
  PROVE  /\ k \in t /\ k \in Dirs /\ k \in Path /\ k # <<>> /\ Len(k) = Len(d) + 1
         /\ Strictly(k, d) /\ W!Front(k) = d /\ Reads(c, k)
<1>1. k \in t /\ k \in Dirs /\ Len(k) = Len(d) + 1 /\ W!Below(k, d)  BY DEF W!Kids, W!Trees
<1>2. k \in Path /\ k # <<>> /\ Len(d) \in Nat  BY <1>1, DirsArePaths DEF Path
<1>3. k # d  BY <1>1, <1>2
<1>4. W!Front(k) = d
  <2>1. W!Front(k) \in Path /\ Len(W!Front(k)) = Len(d) /\ W!Below(W!Front(k), d)
    BY <1>1, <1>2, <1>3, FrontIs
  <2> QED BY <2>1, BelowOrders
<1>5. ASSUME NEW s \in c, k # s, W!Below(k, s) PROVE FALSE
  <2>1. s \in Path  BY DirsArePaths
  <2>2. W!Below(d, s)  BY <1>2, <1>4, <1>5, <2>1, FrontIs
  <2> QED BY <2>2 DEF Reads
<1> QED BY <1>1, <1>2, <1>3, <1>4, <1>5 DEF Strictly, Reads

\* What lies below d is a kid or lies below one.
LEMMA UnderKid ==
  ASSUME W!PlanAssumption, NEW t \in W!Trees, NEW d \in Path, NEW e \in t, Strictly(e, d)
  PROVE  \E k \in W!Kids(t, d) :
           /\ W!Below(e, k)
           /\ \A j \in Path : W!Below(e, j) /\ Strictly(j, d) => W!Below(j, k)
<1>1. e \in Path  BY DirsArePaths DEF W!Trees
<1>2. PICK k \in Path : /\ Len(k) = Len(d) + 1 /\ W!Below(k, d) /\ W!Below(e, k)
                        /\ \A j \in Path : W!Below(e, j) /\ W!Below(j, d) /\ j # d => W!Below(j, k)
  BY <1>1, KidAbove DEF Strictly
<1>3. k # <<>>  BY <1>2 DEF Path
<1>4. k \in t  BY <1>1, <1>2, <1>3, Upwards
<1> QED BY <1>2, <1>4 DEF W!Kids, Strictly

\* A directory with its own files is clean when its kids are all included, and clean.
LEMMA CleanKids ==
  ASSUME W!PlanAssumption, NEW t \in W!Trees, NEW c, c \subseteq Dirs, NEW R,
         NEW d \in Path, d \notin c, Reads(c, d)
  PROVE  AllIn(t, c, R, d) <=> \A k \in W!Kids(t, d) : W!Include(R, k) /\ Clean(t, c, R, k)
<1>1. ASSUME AllIn(t, c, R, d), NEW k \in W!Kids(t, d) PROVE W!Include(R, k) /\ Clean(t, c, R, k)
  <2>1. k \in t /\ k \in Path /\ Strictly(k, d) /\ Reads(c, k)  BY Kid
  <2>2. W!Include(R, k)  BY <1>1, <2>1 DEF AllIn
  <2>3. ASSUME NEW e \in t, Strictly(e, k) PROVE Strictly(e, d)
    <3>1. e \in Path  BY DirsArePaths DEF W!Trees
    <3>2. W!Below(e, d)  BY <2>1, <2>3, <3>1, BelowOrders DEF Strictly
    <3>3. e # d  BY <2>1, <2>3, <3>1, BelowOrders DEF Strictly
    <3> QED BY <3>2, <3>3 DEF Strictly
  <2>4. AllIn(t, c, R, k)  BY <1>1, <2>3 DEF AllIn
  <2> QED BY <2>2, <2>4 DEF Clean, OwnFiles
<1>2. ASSUME \A k \in W!Kids(t, d) : W!Include(R, k) /\ Clean(t, c, R, k),
             NEW e \in t, Strictly(e, d), Reads(c, e)
      PROVE  W!Include(R, e)
  <2>1. PICK k \in W!Kids(t, d) : W!Below(e, k)  BY <1>2, UnderKid
  <2>2. CASE e = k  BY <1>2, <2>1, <2>2
  <2>3. CASE e # k
    <3>1. k \notin c  BY <1>2, <2>1, <2>3 DEF Reads
    <3>2. AllIn(t, c, R, k)  BY <1>2, <2>1, <3>1 DEF Clean
    <3> QED BY <1>2, <2>1, <2>3, <3>2 DEF AllIn, Strictly
  <2> QED BY <2>2, <2>3
<1> QED BY <1>1, <1>2 DEF AllIn

\* What lies above a directory that can be read can be read.
LEMMA ReadsAbove ==
  ASSUME W!PlanAssumption, NEW c, c \subseteq Dirs, NEW d \in Path, Reads(c, d),
         NEW e \in Path, W!Below(d, e)
  PROVE  Reads(c, e) /\ (e # d => e \notin c)
<1>1. ASSUME NEW s \in c, e # s, W!Below(e, s) PROVE FALSE
  <2>1. s \in Path  BY DirsArePaths
  <2>2. W!Below(d, s)  BY <1>1, <2>1, BelowOrders
  <2>3. d = s  BY <2>2 DEF Reads
  <2> QED BY <1>1, <2>3, BelowOrders
<1>2. e # d => e \notin c  BY DEF Reads
<1> QED BY <1>1, <1>2 DEF Reads

\* Below a clean directory all that can be read is included and clean.
LEMMA CleanBelow ==
  ASSUME W!PlanAssumption, NEW t \in W!Trees, NEW c, NEW R, NEW d \in Path, Clean(t, c, R, d),
         NEW e \in t, Strictly(e, d), Reads(c, e)
  PROVE  W!Include(R, e) /\ Clean(t, c, R, e)
<1>1. d \notin c  BY DEF Reads, Strictly
<1>2. AllIn(t, c, R, d)  BY <1>1 DEF Clean
<1>3. e \in Path  BY DirsArePaths DEF W!Trees
<1>4. ASSUME NEW g \in t, Strictly(g, e) PROVE Strictly(g, d)
  <2>1. g \in Path  BY DirsArePaths DEF W!Trees
  <2>2. W!Below(g, d)  BY <1>3, <1>4, <2>1, BelowOrders DEF Strictly
  <2>3. g # d  BY <1>3, <1>4, <2>1, BelowOrders DEF Strictly
  <2> QED BY <2>2, <2>3 DEF Strictly
<1>5. W!Include(R, e)  BY <1>2 DEF AllIn
<1>6. AllIn(t, c, R, e)  BY <1>2, <1>4 DEF AllIn
<1> QED BY <1>5, <1>6 DEF Clean, OwnFiles

\* Nothing is found below a clean directory.
LEMMA NothingFound ==
  ASSUME W!PlanAssumption, NEW t \in W!Trees, NEW c, c \subseteq Dirs, NEW R,
         NEW d \in Path, Clean(t, c, R, d)
  PROVE  RootsBelow(t, c, R, d) = {} /\ PartialBelow(t, c, R, d) = {}
<1>1. \A e \in t : W!Below(e, d) /\ Reads(c, e) /\ e # d => W!Include(R, e) /\ Clean(t, c, R, e)
  BY CleanBelow DEF Strictly
<1>2. PartialBelow(t, c, R, d) = {}
  <2> SUFFICES ASSUME NEW e \in PartialBelow(t, c, R, d) PROVE FALSE  OBVIOUS
  <2>1. e \in t \cup {d} /\ W!Below(e, d) /\ Reads(c, e) /\ ~Clean(t, c, R, e)  BY DEF PartialBelow, Reached
  <2> QED BY <2>1, <1>1
<1>3. RootsBelow(t, c, R, d) = {}
  <2> SUFFICES ASSUME NEW r \in RootsBelow(t, c, R, d) PROVE FALSE  OBVIOUS
  <2>1. r \in t /\ W!Below(r, d) /\ r # d /\ Reads(c, r) /\ ~Clean(t, c, R, W!Front(r))
    BY DEF RootsBelow, Reached, Strictly
  <2> DEFINE u == W!Front(r)
  <2>2. r \in Path /\ r # <<>>  BY <2>1, DirsArePaths DEF W!Trees
  <2>3. u \in Path /\ W!Below(r, u) /\ u # r /\ W!Below(u, d)  BY <2>1, <2>2, FrontIs
  <2>4. ~Clean(t, c, R, u)  BY <2>1
  <2> HIDE DEF u
  <2>5. u # d  BY <2>4
  <2>6. u # <<>>
    <3>1. d \in Path /\ <<>> \in Path /\ W!Below(d, <<>>)  BY BelowOrders DEF Path
    <3> QED BY <2>3, <2>5, <3>1, BelowOrders
  <2>7. u \in t  BY <2>1, <2>3, <2>6, Upwards
  <2>8. Reads(c, u)  BY <2>1, <2>2, <2>3, ReadsAbove
  <2> QED BY <1>1, <2>3, <2>4, <2>5, <2>7, <2>8
<1> QED BY <1>2, <1>3

\* What is reached below a kid the walk looks into is reached.
LEMMA ReachedBelowKid ==
  ASSUME W!PlanAssumption, NEW t \in W!Trees, NEW c, c \subseteq Dirs, NEW R,
         NEW d \in Path, d \notin c, Reads(c, d), NEW k \in Seen(t, R, d),
         NEW e \in t, W!Below(e, k), Reached(t, c, R, k, e)
  PROVE  Strictly(e, d) /\ Reached(t, c, R, d, e)
<1>1. k \in W!Kids(t, d) /\ (W!Include(R, k) \/ W!MayInclude(R, k))  BY DEF Seen
<1>2. k \in Path /\ Len(k) = Len(d) + 1 /\ Strictly(k, d) /\ W!Front(k) = d /\ k # <<>>  BY <1>1, Kid
<1>3. e \in Path /\ \A j \in t : j \in Path  BY DirsArePaths DEF W!Trees
<1>4. Strictly(e, d)
  <2>1. W!Below(e, d)  BY <1>2, <1>3, BelowOrders DEF Strictly
  <2>2. e # d  BY <1>2, <1>3, BelowOrders DEF Strictly
  <2> QED BY <2>1, <2>2 DEF Strictly
<1>5. ASSUME NEW j \in t, W!Below(e, j), Strictly(j, d) PROVE W!Include(R, j) \/ W!MayInclude(R, j)
  <2>1. W!Below(j, k)
    <3>1. Len(j) \in Nat /\ Len(d) \in Nat /\ Len(d) \in 0 .. Len(j) /\ Len(d) # Len(j)
      <4>1. j \in Path /\ W!Below(j, d) /\ j # d  BY <1>3, <1>5 DEF Strictly
      <4>2. Len(d) \in 0 .. Len(j)  BY <4>1, AboveIsUpper
      <4>3. Len(d) # Len(j)  BY <4>1, BelowOrders
      <4> QED BY <4>1, <4>2, <4>3 DEF Path
    <3>2. Len(k) <= Len(j)  BY <1>2, <3>1
    <3> QED BY <1>2, <1>3, <1>5, <3>2, BelowOrders
  <2>2. CASE j = k  BY <2>2, <1>1
  <2>3. CASE j # k  BY <2>1, <2>3, <1>5 DEF Reached, Strictly
  <2> QED BY <2>2, <2>3
<1> QED BY <1>4, <1>5 DEF Reached

\* And what is reached below d is that kid, or reached below it.
LEMMA ReachedByKid ==
  ASSUME W!PlanAssumption, NEW t \in W!Trees, NEW c, c \subseteq Dirs, NEW R,
         NEW d \in Path, d \notin c, Reads(c, d), NEW e \in t, Strictly(e, d), Reached(t, c, R, d, e)
  PROVE  \E k \in Seen(t, R, d) : W!Below(e, k) /\ Reached(t, c, R, k, e)
<1>1. PICK k \in W!Kids(t, d) : W!Below(e, k)  BY UnderKid
<1>2. k \in t /\ k \in Path /\ Strictly(k, d)  BY Kid
<1>3. e \in Path /\ \A j \in t : j \in Path  BY DirsArePaths DEF W!Trees
<1>4. k \in Seen(t, R, d)  BY <1>1, <1>2 DEF Seen, Reached
<1>5. ASSUME NEW j \in t, Strictly(j, k) PROVE Strictly(j, d)
  <2>1. W!Below(j, d)  BY <1>2, <1>3, <1>5, BelowOrders DEF Strictly
  <2>2. j # d  BY <1>2, <1>3, <1>5, BelowOrders DEF Strictly
  <2> QED BY <2>1, <2>2 DEF Strictly
<1>6. Reached(t, c, R, k, e)  BY <1>5 DEF Reached
<1> QED BY <1>1, <1>4, <1>6

\* The roots below a directory that is not clean are its clean kids and those of its kids.
LEMMA RootsOfKids ==
  ASSUME W!PlanAssumption, NEW t \in W!Trees, NEW c, c \subseteq Dirs, NEW R,
         NEW d \in Path, Reads(c, d), ~Clean(t, c, R, d)
  PROVE  RootsBelow(t, c, R, d) =
           (UNION {RootsBelow(t, c, R, k) : k \in Seen(t, R, d)})
           \cup {k \in Seen(t, R, d) : W!Include(R, k) /\ Clean(t, c, R, k)}
<1>1. d \notin c  BY DEF Clean
<1>2. \A k \in Seen(t, R, d) : /\ k \in W!Kids(t, d) /\ (W!Include(R, k) \/ W!MayInclude(R, k))
                               /\ k \in t /\ k \in Path /\ Strictly(k, d) /\ W!Front(k) = d /\ Reads(c, k)
  BY <1>1, Kid DEF Seen
<1>3. ASSUME NEW r \in RootsBelow(t, c, R, d)
      PROVE  \/ \E k \in Seen(t, R, d) : r \in RootsBelow(t, c, R, k)
             \/ r \in Seen(t, R, d) /\ W!Include(R, r) /\ Clean(t, c, R, r)
  <2>1. /\ r \in t /\ Strictly(r, d) /\ Reached(t, c, R, d, r) /\ W!Include(R, r)
        /\ Clean(t, c, R, r) /\ ~Clean(t, c, R, W!Front(r))
    BY DEF RootsBelow
  <2>2. PICK k \in Seen(t, R, d) : W!Below(r, k) /\ Reached(t, c, R, k, r)
    BY <1>1, <2>1, ReachedByKid
  <2>3. CASE r = k  BY <2>1, <2>3
  <2>4. CASE r # k  BY <2>1, <2>2, <2>4 DEF RootsBelow, Strictly
  <2> QED BY <2>3, <2>4
<1>4. ASSUME NEW k \in Seen(t, R, d), NEW r \in RootsBelow(t, c, R, k)
      PROVE  r \in RootsBelow(t, c, R, d)
  <2>1. /\ r \in t /\ Strictly(r, k) /\ Reached(t, c, R, k, r) /\ W!Include(R, r)
        /\ Clean(t, c, R, r) /\ ~Clean(t, c, R, W!Front(r))
    BY DEF RootsBelow
  <2>2. Strictly(r, d) /\ Reached(t, c, R, d, r)  BY <1>1, <2>1, ReachedBelowKid DEF Strictly
  <2> QED BY <2>1, <2>2 DEF RootsBelow
<1>5. ASSUME NEW k \in Seen(t, R, d), W!Include(R, k), Clean(t, c, R, k)
      PROVE  k \in RootsBelow(t, c, R, d)
  <2>1. W!Below(k, k)  BY <1>2, BelowOrders
  <2>2. Reached(t, c, R, k, k)
    <3> SUFFICES ASSUME NEW j \in t, W!Below(k, j), Strictly(j, k) PROVE FALSE
      BY <1>2 DEF Reached
    <3>1. j \in Path  BY DirsArePaths DEF W!Trees
    <3> QED BY <1>2, <3>1, BelowOrders DEF Strictly
  <2>3. Reached(t, c, R, d, k)  BY <1>1, <1>2, <2>1, <2>2, ReachedBelowKid
  <2> QED BY <1>2, <1>5, <2>3 DEF RootsBelow
<1> HIDE DEF RootsBelow
<1> QED BY <1>3, <1>4, <1>5

\* Its partial directories are itself and those of its kids.
LEMMA PartialOfKids ==
  ASSUME W!PlanAssumption, NEW t \in W!Trees, NEW c, c \subseteq Dirs, NEW R,
         NEW d \in Path, Reads(c, d), ~Clean(t, c, R, d)
  PROVE  PartialBelow(t, c, R, d) = (UNION {PartialBelow(t, c, R, k) : k \in Seen(t, R, d)}) \cup {d}
<1>1. d \notin c  BY DEF Clean
<1>2. \A k \in Seen(t, R, d) : k \in t  BY <1>1, Kid DEF Seen
<1>3. ASSUME NEW e \in PartialBelow(t, c, R, d), e # d
      PROVE  \E k \in Seen(t, R, d) : e \in PartialBelow(t, c, R, k)
  <2>1. e \in t /\ Strictly(e, d) /\ Reached(t, c, R, d, e) /\ ~Clean(t, c, R, e)
    BY <1>3 DEF PartialBelow, Strictly
  <2>2. PICK k \in Seen(t, R, d) : W!Below(e, k) /\ Reached(t, c, R, k, e)
    BY <1>1, <2>1, ReachedByKid
  <2> QED BY <2>1, <2>2 DEF PartialBelow
<1>4. ASSUME NEW k \in Seen(t, R, d), NEW e \in PartialBelow(t, c, R, k)
      PROVE  e \in PartialBelow(t, c, R, d)
  <2>1. e \in t /\ W!Below(e, k) /\ Reached(t, c, R, k, e) /\ ~Clean(t, c, R, e)
    BY <1>2 DEF PartialBelow
  <2>2. Strictly(e, d) /\ Reached(t, c, R, d, e)  BY <1>1, <2>1, ReachedBelowKid
  <2> QED BY <2>1, <2>2 DEF PartialBelow, Strictly
<1>5. d \in PartialBelow(t, c, R, d)
  <2>1. W!Below(d, d)  BY BelowOrders
  <2>2. Reached(t, c, R, d, d)
    <3> SUFFICES ASSUME NEW j \in t, W!Below(d, j), Strictly(j, d) PROVE FALSE
      BY DEF Reached
    <3>1. j \in Path  BY DirsArePaths DEF W!Trees
    <3> QED BY <3>1, BelowOrders DEF Strictly
  <2> QED BY <2>1, <2>2 DEF PartialBelow
<1> QED BY <1>3, <1>4, <1>5

\* A visit finds what it should, if those of the kids did.
LEMMA VisitFinds ==
  ASSUME W!PlanAssumption, NEW t \in W!Trees, NEW c, c \subseteq Dirs, NEW R,
         NEW d \in Path, Reads(c, d), NEW of,
         d \notin c => \A k \in Seen(t, R, d) : of[<<k, W!Include(R, k)>>] = Found(t, c, R, k)
  PROVE  Visit(t, c, R, of, <<d, OwnFiles(R, d)>>) = Found(t, c, R, d)
<1> DEFINE x == <<d, OwnFiles(R, d)>>
<1>x. x[1] = d /\ x[2] = OwnFiles(R, d)  OBVIOUS
<1> HIDE DEF x
<1> DEFINE kids == [k \in Seen(t, R, d) |-> of[<<k, W!Include(R, k)>>]]
<1>1. CASE d \in c
  <2>1. Clean(t, c, R, d)  BY <1>1 DEF Clean
  <2>2. RootsBelow(t, c, R, d) = {} /\ PartialBelow(t, c, R, d) = {}  BY <2>1, NothingFound
  <2>3. Visit(t, c, R, of, x) = W!Unread  BY <1>1, <1>x DEF Visit
  <2>4. Found(t, c, R, d) = [clean |-> Clean(t, c, R, d), roots |-> {}, partial |-> {}]  BY <2>2 DEF Found, PartialEntries
  <2>5. Clean(t, c, R, d) = TRUE  BY <2>1 DEF Clean
  <2> QED BY <2>3, <2>4, <2>5 DEF W!Unread, x
<1>2. CASE d \notin c
  <2>1. Visit(t, c, R, of, x) = W!Walked(t, R, d, OwnFiles(R, d), kids)  BY <1>2, <1>x DEF Visit
  <2>2. DOMAIN kids = Seen(t, R, d) /\ \A k \in Seen(t, R, d) : kids[k] = Found(t, c, R, k)
    BY <1>2
  <2>3. \A k \in Seen(t, R, d) :
          /\ kids[k].clean = Clean(t, c, R, k) /\ kids[k].roots = RootsBelow(t, c, R, k)
          /\ kids[k].partial = PartialEntries(t, c, R, k)
    <3> HIDE DEF kids
    <3> QED BY <2>2 DEF Found
  <2> HIDE DEF kids
  <2> DEFINE inner == {k \in DOMAIN kids : W!Include(R, k)}
  <2> DEFINE clean == OwnFiles(R, d) /\ inner = W!Kids(t, d) /\ \A k \in inner : kids[k].clean
  <2>4. clean <=> Clean(t, c, R, d)
    <3>1. AllIn(t, c, R, d) <=> \A k \in W!Kids(t, d) : W!Include(R, k) /\ Clean(t, c, R, k)
      BY <1>2, CleanKids
    <3>2. \A k : k \in inner <=> k \in W!Kids(t, d) /\ W!Include(R, k)  BY <2>2 DEF Seen
    <3>3. \A k \in inner : kids[k].clean = Clean(t, c, R, k)  BY <2>2, <2>3
    <3> HIDE DEF inner
    <3>4. (inner = W!Kids(t, d) /\ \A k \in inner : kids[k].clean) <=> AllIn(t, c, R, d)
      BY <3>1, <3>2, <3>3
    <3> QED BY <1>2, <3>4 DEF Clean
  <2>5. CASE clean
    <3>1. W!Walked(t, R, d, OwnFiles(R, d), kids) = W!Unread  BY <2>5 DEF W!Walked
    <3>2. RootsBelow(t, c, R, d) = {} /\ PartialBelow(t, c, R, d) = {}  BY <2>4, <2>5, NothingFound
    <3>3. Found(t, c, R, d) = [clean |-> Clean(t, c, R, d), roots |-> {}, partial |-> {}]  BY <3>2 DEF Found, PartialEntries
    <3>4. Clean(t, c, R, d) = TRUE  BY <2>4, <2>5 DEF Clean
    <3> QED BY <2>1, <3>1, <3>3, <3>4 DEF W!Unread, x
  <2>6. CASE ~clean
    <3>1. W!Walked(t, R, d, OwnFiles(R, d), kids) =
            [clean   |-> FALSE,
             roots   |-> (UNION {kids[k].roots : k \in DOMAIN kids}) \cup {k \in inner : kids[k].clean},
             partial |-> (UNION {kids[k].partial : k \in DOMAIN kids}) \cup
                         {[dir |-> d, files |-> OwnFiles(R, d),
                           names |-> W!relevantNames(t, R, d, OwnFiles(R, d))]}]
      BY <2>6 DEF W!Walked
    <3>2. (UNION {kids[k].roots : k \in DOMAIN kids}) \cup {k \in inner : kids[k].clean}
          = RootsBelow(t, c, R, d)
      <4>1. UNION {kids[k].roots : k \in DOMAIN kids} = UNION {RootsBelow(t, c, R, k) : k \in Seen(t, R, d)}
        BY <2>2, <2>3
      <4>2. {k \in inner : kids[k].clean} = {k \in Seen(t, R, d) : W!Include(R, k) /\ Clean(t, c, R, k)}
        BY <2>2, <2>3
      <4> QED BY <4>1, <4>2, <2>4, <2>6, RootsOfKids
    <3>3. (UNION {kids[k].partial : k \in DOMAIN kids}) \cup {Entry(t, R, d)}
          = PartialEntries(t, c, R, d)
      <4>1. PartialBelow(t, c, R, d) = (UNION {PartialBelow(t, c, R, k) : k \in Seen(t, R, d)}) \cup {d}
        BY <2>4, <2>6, PartialOfKids
      <4>2. UNION {kids[k].partial : k \in DOMAIN kids}
            = UNION {PartialEntries(t, c, R, k) : k \in Seen(t, R, d)}
        BY <2>2, <2>3
      <4>3. UNION {PartialEntries(t, c, R, k) : k \in Seen(t, R, d)}
            = {Entry(t, R, e) : e \in UNION {PartialBelow(t, c, R, k) : k \in Seen(t, R, d)}}
        BY DEF PartialEntries
      <4> QED BY <4>1, <4>2, <4>3 DEF PartialEntries
    <3>4. Clean(t, c, R, d) = FALSE  BY <2>4, <2>6 DEF Clean
    <3> HIDE DEF inner, clean
    <3>5. W!Walked(t, R, d, OwnFiles(R, d), kids) =
            [clean |-> FALSE, roots |-> RootsBelow(t, c, R, d),
             partial |-> PartialEntries(t, c, R, d)]
      BY <3>1, <3>2, <3>3 DEF Entry
    <3> QED BY <2>1, <3>4, <3>5 DEF Found, x
  <2> QED BY <2>5, <2>6
<1> QED BY <1>1, <1>2

\* The walk finds what it should.
LEMMA WalkFinds ==
  ASSUME W!PlanAssumption, NEW t \in W!Trees, NEW c, c \subseteq Dirs, NEW R
  PROVE  \A d \in t \cup {<<>>} :
           Reads(c, d) => W!walk(t, c, R)[<<d, OwnFiles(R, d)>>] = Found(t, c, R, d)
<1>1. PICK depth \in Nat : \A d \in Dirs : Len(d) <= depth  BY Deepest
<1>2. t \in SUBSET Dirs  BY DEF W!Trees
<1>3. \A d \in t \cup {<<>>} : Len(d) \in 0 .. depth /\ d \in Path /\ d \in Dirs \cup {<<>>}
  <2>1. \A d \in Dirs : Len(d) \in Nat /\ d \in Path  BY DirsArePaths
  <2>2. Len(<<>>) = 0 /\ <<>> \in Path  BY DEF Path
  <2> QED BY <1>1, <1>2, <2>1, <2>2
<1> DEFINE walk == W!walk(t, c, R)
<1>4. \A x \in Nodes : walk[x] = Visit(t, c, R, walk, x)  BY <1>2, WalkIs
<1> HIDE DEF walk
<1> DEFINE S == {n \in 0 .. depth + 1 :
                   \A d \in t \cup {<<>>} : Reads(c, d) /\ Len(d) > depth - n
                                            => walk[<<d, OwnFiles(R, d)>>] = Found(t, c, R, d)}
<1>5. 0 \in S  BY <1>3
<1>6. ASSUME NEW n \in 0 .. (depth + 1) - 1, n \in S PROVE n + 1 \in S
  <2>1. ASSUME NEW d \in t \cup {<<>>}, Reads(c, d), Len(d) > depth - (n + 1)
        PROVE  walk[<<d, OwnFiles(R, d)>>] = Found(t, c, R, d)
    <3>1. OwnFiles(R, d) \in BOOLEAN  BY DEF OwnFiles, W!Include
    <3>2. <<d, OwnFiles(R, d)>> \in Nodes  BY <1>3, <3>1 DEF Nodes
    <3>3. walk[<<d, OwnFiles(R, d)>>] = Visit(t, c, R, walk, <<d, OwnFiles(R, d)>>)  BY <1>4, <3>2
    <3>4. ASSUME d \notin c, NEW k \in Seen(t, R, d)
          PROVE  walk[<<k, W!Include(R, k)>>] = Found(t, c, R, k)
      <4>1. k \in t /\ k # <<>> /\ Len(k) = Len(d) + 1 /\ Reads(c, k)
        <5>1. d \in Path /\ k \in W!Kids(t, d)  BY <1>3 DEF Seen
        <5> HIDE DEF S
        <5>2. Reads(c, d) /\ d \notin c  BY <2>1, <3>4
        <5>3. k \in t /\ k # <<>> /\ Reads(c, k)  BY <5>1, <5>2, Kid
        <5>4. Len(k) = Len(d) + 1  BY <5>1 DEF W!Kids
        <5> QED BY <5>3, <5>4
      <4>2. Len(k) > depth - n  BY <1>3, <2>1, <4>1
      <4>3. walk[<<k, OwnFiles(R, k)>>] = Found(t, c, R, k)  BY <1>6, <4>1, <4>2
      <4>4. OwnFiles(R, k) = W!Include(R, k)  BY <4>1 DEF OwnFiles, W!Include
      <4> QED BY <4>3, <4>4
    <3> HIDE DEF S
    <3>5. Visit(t, c, R, walk, <<d, OwnFiles(R, d)>>) = Found(t, c, R, d)
      BY <1>3, <2>1, <3>4, VisitFinds
    <3> QED BY <3>3, <3>5
  <2>2. n + 1 \in 0 .. depth + 1  OBVIOUS
  <2> QED BY <2>1, <2>2
<1>7. \A n \in 0 .. depth + 1 : n \in S
  <2> HIDE DEF S
  <2> QED BY <1>5, <1>6, UpTo
<1>8. depth + 1 \in S
  <2>1. depth + 1 \in 0 .. depth + 1  OBVIOUS
  <2> HIDE DEF S
  <2> QED BY <1>7, <2>1
<1>9. \A d \in t \cup {<<>>} : Len(d) > depth - (depth + 1)  BY <1>3
<1> QED BY <1>8, <1>9 DEF walk

\* What a plan is: the worktree alone, or the roots and the partial directories below it.
LEMMA PlanIs ==
  ASSUME W!PlanAssumption, NEW t \in W!Trees, NEW c, c \subseteq Dirs, NEW R
  PROVE  LET p == W!planWatch(t, c, R) IN
         IF Clean(t, c, R, <<>>) THEN p.roots = {<<>>} /\ p.partial = {}
         ELSE p.roots = RootsBelow(t, c, R, <<>>) /\ p.partial = PartialEntries(t, c, R, <<>>)
<1>1. <<>> \in Path  BY DEF Path
<1>2. Reads(c, <<>>)
  <2> SUFFICES ASSUME NEW s \in c, W!Below(<<>>, s) PROVE s = <<>>  BY DEF Reads
  <2>1. s \in Path  BY DirsArePaths
  <2> QED BY <1>1, <2>1, BelowOrders
<1>3. OwnFiles(R, <<>>) = TRUE  BY DEF OwnFiles
<1>4. W!walk(t, c, R)[<<<<>>, TRUE>>] = Found(t, c, R, <<>>)  BY <1>2, <1>3, WalkFinds
<1>5. R = <<>> => Clean(t, c, R, <<>>)
  <2> SUFFICES ASSUME R = <<>> PROVE Clean(t, c, R, <<>>)  OBVIOUS
  <2>1. \A d : W!Include(R, d)  BY DEF W!Include
  <2> QED BY <2>1 DEF Clean, OwnFiles, AllIn
<1> DEFINE top == W!walk(t, c, R)[<<<<>>, TRUE>>]
<1>6. /\ top.clean = Clean(t, c, R, <<>>) /\ top.roots = RootsBelow(t, c, R, <<>>)
      /\ top.partial = PartialEntries(t, c, R, <<>>)
  BY <1>4 DEF Found
<1>7. W!planWatch(t, c, R) = IF R = <<>> \/ top.clean THEN [roots |-> {<<>>}, partial |-> {}]
                             ELSE [roots |-> top.roots, partial |-> top.partial]
  BY DEF W!planWatch, W!Worktree
<1> HIDE DEF top
<1>8. CASE Clean(t, c, R, <<>>)
  <2>1. W!planWatch(t, c, R) = [roots |-> {<<>>}, partial |-> {}]  BY <1>6, <1>7, <1>8
  <2> QED BY <1>8, <2>1
<1>9. CASE ~Clean(t, c, R, <<>>)
  <2>1. W!planWatch(t, c, R) = [roots |-> top.roots, partial |-> top.partial]  BY <1>5, <1>6, <1>7, <1>9
  <2> QED BY <1>6, <1>9, <2>1
<1> QED BY <1>8, <1>9

\* An included directory, and what lies above it, is reached.
LEMMA IncludedReached ==
  ASSUME W!PlanAssumption, NEW t \in W!Trees, NEW c, c \subseteq Dirs, NEW R \in Seq(Rule),
         NEW d \in Path, W!Include(R, d), NEW e \in Path, W!Below(d, e), Reads(c, e)
  PROVE  Reached(t, c, R, <<>>, e)
<1> SUFFICES ASSUME NEW j \in t, W!Below(e, j), ~W!Include(R, j), ~W!MayInclude(R, j) PROVE FALSE
  BY DEF Reached
<1>1. j \in Path /\ Stars \notin Segments  BY DirsArePaths DEF W!Trees
<1>2. W!Below(d, j)  BY <1>1, BelowOrders
<1> QED BY <1>1, <1>2, NothingBelow

\* An included, clean directory lies below a root, or the worktree is clean.
LEMMA CleanCovered ==
  ASSUME W!PlanAssumption, NEW t \in W!Trees, NEW c, c \subseteq Dirs, NEW R \in Seq(Rule),
         ~Clean(t, c, R, <<>>),
         NEW d \in t, Reads(c, d), W!Include(R, d), Clean(t, c, R, d)
  PROVE  \E r \in RootsBelow(t, c, R, <<>>) : W!Below(d, r)
<1>1. d \in Path /\ d # <<>> /\ Len(d) \in Nat \ {0}  BY DirsArePaths DEF W!Trees
<1> DEFINE Good(n) == W!Include(R, Upper(d, n)) /\ Clean(t, c, R, Upper(d, n))
<1> DEFINE N == {n \in 1 .. Len(d) : Good(n)}
<1>2. Len(d) \in N
  <2>1. Upper(d, Len(d)) = d  BY <1>1, BelowOrders, AboveIsUpper
  <2> QED BY <1>1, <2>1
<1>3. PICK n \in N : \A k \in N : n <= k
  <2>1. N \in SUBSET Nat /\ N # {}  BY <1>1, <1>2
  <2> HIDE DEF N
  <2> QED BY <2>1, Least
<1> DEFINE r == Upper(d, n)
<1>4. n \in 1 .. Len(d) /\ W!Include(R, r) /\ Clean(t, c, R, r)  BY <1>3
<1>5. r \in Path /\ Len(r) = n /\ W!Below(d, r)
  <2>1. n \in 0 .. Len(d)  BY <1>1, <1>4
  <2> QED BY <2>1, <1>1, UpperIs
<1>6. n - 1 \notin N
  <2>1. ~(n <= n - 1)  BY <1>1, <1>4
  <2> HIDE DEF N
  <2> QED BY <1>3, <2>1
<1> HIDE DEF r
<1>7. r # <<>> /\ r # <<>>  BY <1>1, <1>4, <1>5
<1>8. r \in t  BY <1>1, <1>5, <1>7, Upwards
<1>9. Reads(c, r)  BY <1>1, <1>5, ReadsAbove
<1>10. Strictly(r, <<>>)  BY <1>5, <1>7, BelowOrders DEF Strictly
<1>11. Reached(t, c, R, <<>>, r)  BY <1>1, <1>5, <1>9, IncludedReached
<1> DEFINE u == W!Front(r)
<1>12. u \in Path /\ Len(u) = n - 1 /\ W!Below(r, u) /\ u # r  BY <1>5, <1>7, FrontIs
<1> HIDE DEF u
<1>13. W!Below(d, u) /\ u # d
  <2>1. W!Below(d, u)  BY <1>1, <1>5, <1>12, BelowOrders
  <2>2. u # d  BY <1>1, <1>4, <1>12
  <2> QED BY <2>1, <2>2
<1>14. ~Clean(t, c, R, u)
  <2> SUFFICES ASSUME Clean(t, c, R, u) PROVE FALSE  OBVIOUS
  <2>1. u # <<>>  OBVIOUS
  <2>2. u \notin c  BY <1>1, <1>12, <1>13, ReadsAbove
  <2>3. W!Include(R, u)  BY <2>1, <2>2 DEF Clean, OwnFiles
  <2>4. u = Upper(d, n - 1)  BY <1>1, <1>12, <1>13, AboveIsUpper
  <2>5. n - 1 # 0  BY <2>1, <1>12 DEF Path
  <2>6. n - 1 \in 1 .. Len(d)  BY <1>1, <1>4, <2>5
  <2> QED BY <1>6, <2>3, <2>4, <2>6
<1>15. r \in RootsBelow(t, c, R, <<>>)  BY <1>4, <1>8, <1>10, <1>11, <1>14 DEF RootsBelow, u
<1> QED BY <1>5, <1>15

\* What can be read below a root is included and clean.
LEMMA CoveredClean ==
  ASSUME W!PlanAssumption, NEW t \in W!Trees, NEW c, NEW R,
         NEW r \in RootsBelow(t, c, R, <<>>), NEW d \in t, Reads(c, d), W!Below(d, r)
  PROVE  W!Include(R, d) /\ Clean(t, c, R, d)
<1>1. r \in t /\ W!Include(R, r) /\ Clean(t, c, R, r)  BY DEF RootsBelow
<1>2. CASE d = r  BY <1>1, <1>2
<1>3. CASE d # r
  <2>1. r \in Path  BY <1>1, DirsArePaths DEF W!Trees
  <2> QED BY <1>1, <1>3, <2>1, CleanBelow DEF Strictly
<1> QED BY <1>2, <1>3

\* d lies below a root; the plan covers it if and only if it is included, by a root or by a
\* partial directory; r is none too many.
\* d lies below a root; the plan covers it if and only if it is included, by a root or by a
\* partial directory; r is none too many.
Covers(p, d) == \E r \in p.roots : W!Below(d, r)
CoversIncluded(R, p, d) ==
  /\ W!Include(R, d) <=> Covers(p, d) \/ \E e \in p.partial : e.dir = d /\ e.files
  /\ ~(Covers(p, d) /\ \E e \in p.partial : e.dir = d)
HasFewest(t, R, p, r) ==
  /\ \A q \in p.roots : W!Below(r, q) => q = r
  /\ \E d \in t : W!Below(d, W!Front(r)) /\ ~W!Include(R, d)

\* A plan covers what the rules include, and no partial directory.
LEMMA PlanCovers ==
  ASSUME W!PlanAssumption, NEW t \in W!Trees, NEW c, c \subseteq Dirs, NEW R \in Seq(Rule),
         NEW p, p = W!planWatch(t, c, R), NEW d \in t, Reads(c, d)
  PROVE  CoversIncluded(R, p, d)
<1>1. d \in Path /\ d # <<>>  BY DirsArePaths DEF W!Trees
<1>2. CASE Clean(t, c, R, <<>>)
  <2>1. p.roots = {<<>>} /\ p.partial = {}  BY <1>2, PlanIs
  <2>2. W!Below(d, <<>>) /\ <<>> \in Path  BY <1>1, BelowOrders DEF Path
  <2>3. W!Include(R, d)  BY <1>1, <1>2, <2>2, CleanBelow DEF Strictly
  <2> QED BY <2>1, <2>2, <2>3 DEF Covers, CoversIncluded
<1>3. CASE ~Clean(t, c, R, <<>>)
  <2>1. p.roots = RootsBelow(t, c, R, <<>>) /\ p.partial = PartialEntries(t, c, R, <<>>)  BY <1>3, PlanIs
  <2>2. ASSUME NEW e \in p.partial, e.dir = d
        PROVE  d \in PartialBelow(t, c, R, <<>>) /\ (e.files <=> W!Include(R, d))
    <3>1. PICK g \in PartialBelow(t, c, R, <<>>) : e = Entry(t, R, g)  BY <2>1 DEF PartialEntries
    <3>2. e.dir = g /\ e.files = OwnFiles(R, g)  BY <3>1 DEF Entry
    <3> QED BY <1>1, <2>2, <3>2 DEF OwnFiles
  <2>3. ASSUME d \in PartialBelow(t, c, R, <<>>)
        PROVE  \E e \in p.partial : e.dir = d /\ e.files = OwnFiles(R, d)
    <3>1. Entry(t, R, d) \in p.partial  BY <2>1, <2>3 DEF PartialEntries
    <3>2. Entry(t, R, d).dir = d /\ Entry(t, R, d).files = OwnFiles(R, d)  BY DEF Entry
    <3> QED BY <3>1, <3>2
  <2>4. Covers(p, d) => W!Include(R, d) /\ Clean(t, c, R, d)  BY <2>1, CoveredClean DEF Covers
  <2>5. W!Include(R, d) /\ Clean(t, c, R, d) => Covers(p, d)  BY <1>3, <2>1, CleanCovered DEF Covers
  <2>6. W!Include(R, d) /\ ~Clean(t, c, R, d) => d \in PartialBelow(t, c, R, <<>>)
    <3> SUFFICES ASSUME W!Include(R, d), ~Clean(t, c, R, d) PROVE d \in PartialBelow(t, c, R, <<>>)
      OBVIOUS
    <3>1. W!Below(d, d) /\ W!Below(d, <<>>)  BY <1>1, BelowOrders
    <3>2. Reached(t, c, R, <<>>, d)  BY <1>1, <3>1, IncludedReached
    <3> QED BY <3>1, <3>2 DEF PartialBelow
  <2>7. d \in PartialBelow(t, c, R, <<>>) => ~Clean(t, c, R, d)  BY DEF PartialBelow
  <2>8. W!Include(R, d) => OwnFiles(R, d)  BY DEF OwnFiles
  <2>9. W!Include(R, d) /\ ~Covers(p, d) => \E e \in p.partial : e.dir = d /\ e.files
    BY <2>3, <2>5, <2>6, <2>8
  <2>10. (\E e \in p.partial : e.dir = d /\ e.files) => W!Include(R, d)  BY <2>2
  <2> QED BY <2>2, <2>4, <2>7, <2>9, <2>10 DEF CoversIncluded
<1> QED BY <1>2, <1>3

\* With the fewest roots: none lies below another, and the parent of one holds what is
\* excluded.
LEMMA PlanFewest ==
  ASSUME W!PlanAssumption, NEW t \in W!Trees, NEW c, c \subseteq Dirs, NEW R,
         NEW p, p = W!planWatch(t, c, R), NEW r \in p.roots \ {<<>>}
  PROVE  HasFewest(t, R, p, r)
<1>1. ~Clean(t, c, R, <<>>) /\ p.roots = RootsBelow(t, c, R, <<>>)  BY PlanIs
<1>2. r \in t /\ Reads(c, r) /\ ~Clean(t, c, R, W!Front(r))  BY <1>1 DEF RootsBelow, Reached
<1>3. r \in Path /\ r # <<>>  BY <1>2, DirsArePaths DEF W!Trees
<1> DEFINE u == W!Front(r)
<1>4. /\ u \in Path /\ W!Below(r, u) /\ u # r
      /\ \A e \in Path : W!Below(r, e) /\ e # r => W!Below(u, e)
  BY <1>3, FrontIs
<1>5. ~Clean(t, c, R, u)  BY <1>2
<1>6. u # <<>> => u \in t /\ Reads(c, u)  BY <1>2, <1>3, <1>4, Upwards, ReadsAbove
<1> HIDE DEF u
<1>7. ASSUME NEW q \in p.roots, W!Below(r, q), q # r PROVE FALSE
  <2>1. q \in t /\ Clean(t, c, R, q) /\ q \in Path /\ q # <<>>
    BY <1>1, DirsArePaths DEF RootsBelow, W!Trees
  <2>2. W!Below(u, q)  BY <1>4, <1>7, <2>1
  <2>3. u # <<>>
    <3> SUFFICES ASSUME u = <<>> PROVE FALSE  OBVIOUS
    <3>1. W!Below(q, <<>>) /\ <<>> \in Path  BY <2>1, BelowOrders DEF Path
    <3> QED BY <1>4, <2>1, <2>2, <3>1, BelowOrders
  <2>4. q \in RootsBelow(t, c, R, <<>>)  BY <1>1
  <2> QED BY <1>5, <1>6, <2>2, <2>3, <2>4, CoveredClean
<1>8. \E d \in t : W!Below(d, u) /\ ~W!Include(R, d)
  <2>1. CASE OwnFiles(R, u)
    <3>1. ~AllIn(t, c, R, u)  BY <1>5, <2>1 DEF Clean
    <3> QED BY <3>1 DEF AllIn, Strictly
  <2>2. CASE ~OwnFiles(R, u)
    <3>1. u # <<>> /\ ~W!Include(R, u)  BY <2>2 DEF OwnFiles
    <3>2. W!Below(u, u)  BY <1>4, BelowOrders
    <3> QED BY <3>1, <3>2, <1>6
  <2> QED BY <2>1, <2>2
<1> QED BY <1>7, <1>8 DEF u, HasFewest

-----------------------------------------------------------------------------
(* The plan: the rules made of ignore directives. *)

\* d has the segments of q after its first k.
Holds(d, k, q) == k + Len(q) <= Len(d) /\ \A i \in 1 .. Len(q) : d[k + i] = q[i]

LEMMA HoldsIs ==
  ASSUME NEW d \in Path, NEW q \in Path, NEW k \in Nat
  PROVE  Holds(d, k, q) <=> k <= Len(d) - Len(q) /\ SubSeq(d, k + 1, k + Len(q)) = q
<1>1. Len(d) \in Nat /\ Len(q) \in Nat  BY DEF Path
<1> DEFINE s == SubSeq(d, k + 1, k + Len(q))
<1>2. ASSUME k + Len(q) <= Len(d)
      PROVE  s \in Seq(Segments) /\ Len(s) = Len(q) /\ \A i \in 1 .. Len(q) : s[i] = d[k + i]
  BY <1>1, <1>2 DEF Path
<1>3. k + Len(q) <= Len(d) <=> k <= Len(d) - Len(q)  BY <1>1
<1> HIDE DEF s
<1>4. ASSUME k + Len(q) <= Len(d) PROVE s = q <=> \A i \in 1 .. Len(q) : d[k + i] = q[i]
  BY <1>2, <1>4, SameSequence DEF Path
<1> QED BY <1>3, <1>4 DEF Holds, s

\* "**/q" matches where q is anywhere.
LEMMA AnywhereMatch ==
  ASSUME Stars \notin Segments, NEW q \in Path, NEW d \in Path
  PROVE  W!MatchesRule(<<Stars>> \o q, d) <=> \E k \in Nat : Holds(d, k, q)
<1> DEFINE p == <<Stars>> \o q
<1>1. /\ p \in Pattern /\ Len(p) = Len(q) + 1 /\ Len(q) \in Nat /\ Len(d) \in Nat /\ p[1] = Stars
      /\ \A i \in 1 .. Len(q) : p[1 + i] = q[i] /\ q[i] \in Segments
  BY DEF Path, Pattern
<1> HIDE DEF p
<1>2. \A i \in 2 .. Len(p) : p[i] = q[i - 1] /\ p[i] # Stars
  <2> SUFFICES ASSUME NEW i \in 2 .. Len(p) PROVE p[i] = q[i - 1] /\ p[i] # Stars  OBVIOUS
  <2>1. i - 1 \in 1 .. Len(q) /\ 1 + (i - 1) = i  BY <1>1
  <2> QED BY <1>1, <2>1
<1>3. ASSUME NEW ends, Match(p, d, ends) PROVE \E k \in Nat : Holds(d, k, q)
  <2> DEFINE k == Took(ends, 1)
  <2>1. \A i \in 0 .. Len(p) - 1 : Took(ends, 1 + i) = k + i /\ (i > 0 => p[1 + i] = d[k + i])
    <3> DEFINE a == 1
    <3>1. p \in Pattern /\ a \in 0 .. Len(p) /\ Len(p) \in 0 .. Len(p) /\ a <= Len(p)  BY <1>1
    <3>2. \A i \in a + 1 .. Len(p) : p[i] # Stars  BY <1>2
    <3> HIDE DEF a
    <3>3. \A i \in 0 .. Len(p) - a :
            Took(ends, a + i) = Took(ends, a) + i /\ (i > 0 => p[a + i] = d[Took(ends, a) + i])
      BY <1>3, <3>1, <3>2, Stretch
    <3> QED BY <3>3 DEF a
  <2>2. k \in Nat
    <3>1. 1 \in 1 .. Len(p)  BY <1>1
    <3> QED BY <3>1, <1>1, <1>3 DEF Took, Match
  <2> HIDE DEF k
  <2>3. \A i \in 1 .. Len(q) : d[k + i] = q[i]  BY <1>1, <2>1
  <2>4. k + Len(q) <= Len(d)
    <3>1. Took(ends, 1 + Len(q)) = k + Len(q)  BY <1>1, <2>1
    <3>2. 1 + Len(q) \in 1 .. Len(p) /\ 1 + Len(q) # 0  BY <1>1
    <3>3. ends[1 + Len(q)] \in 0 .. Len(d)  BY <1>3, <3>2 DEF Match
    <3> QED BY <1>1, <3>1, <3>2, <3>3 DEF Took
  <2> QED BY <2>2, <2>3, <2>4 DEF Holds
<1>4. ASSUME NEW k \in Nat, Holds(d, k, q) PROVE \E ends : Match(p, d, ends)
  <2> DEFINE ends == [i \in 1 .. Len(p) |-> k + (i - 1)]
  <2>1. ends \in [1 .. Len(p) -> 0 .. Len(d)]  BY <1>1, <1>4 DEF Holds
  <2>2. ASSUME NEW i \in 1 .. Len(p), p[i] # Stars
        PROVE  ends[i] = Took(ends, i - 1) + 1 /\ p[i] = d[ends[i]]
    <3>1. i # 1  BY <1>1, <2>2
    <3>2. i \in 2 .. Len(p) /\ i - 1 \in 1 .. Len(p) /\ i - 1 \in 1 .. Len(q) /\ i - 1 # 0  BY <1>1, <3>1
    <3>3. ends[i] = k + (i - 1) /\ ends[i - 1] = k + ((i - 1) - 1)  BY <3>2
    <3>4. p[i] = d[ends[i]]  BY <1>2, <1>4, <3>2, <3>3 DEF Holds
    <3> QED BY <3>2, <3>3, <3>4 DEF Took
  <2>3. \A i \in 1 .. Len(p) : p[i] = Stars => i = 1
    <3> SUFFICES ASSUME NEW i \in 1 .. Len(p), p[i] = Stars, i # 1 PROVE FALSE  OBVIOUS
    <3>1. i \in 2 .. Len(p)  BY <1>1
    <3> QED BY <3>1, <1>2
  <2> HIDE DEF ends
  <2>4. Match(p, d, ends)  BY <2>1, <2>2, <2>3 DEF Match
  <2> QED BY <2>4
<1> QED BY <1>1, <1>3, <1>4, MatchIs DEF p

\* "m/**/q" matches below m, where q is anywhere but right below m.
LEMMA DeeperMatch ==
  ASSUME Stars \notin Segments, NEW m \in Path, m # <<>>, NEW q \in Path, NEW d \in Path
  PROVE  W!MatchesRule(m \o <<Stars>> \o q, d)
           <=> W!Below(d, m) /\ \E k \in Nat : k > Len(m) /\ Holds(d, k, q)
<1> DEFINE p == m \o <<Stars>> \o q
<1> DEFINE n == Len(m)
<1>1. /\ p \in Pattern /\ Len(p) = n + 1 + Len(q) /\ n \in Nat \ {0} /\ Len(q) \in Nat /\ Len(d) \in Nat
      /\ \A i \in 1 .. n : p[i] = m[i] /\ m[i] \in Segments
      /\ p[n + 1] = Stars
      /\ \A i \in 1 .. Len(q) : p[n + 1 + i] = q[i] /\ q[i] \in Segments
  <2> DEFINE a == m \o <<Stars>>
  <2>1. /\ a \in Pattern /\ Len(a) = n + 1 /\ n \in Nat \ {0} /\ a[n + 1] = Stars
        /\ \A i \in 1 .. n : a[i] = m[i] /\ m[i] \in Segments
    BY DEF Path, Pattern
  <2>2. q \in Pattern /\ Len(q) \in Nat /\ Len(d) \in Nat /\ \A i \in 1 .. Len(q) : q[i] \in Segments
    BY DEF Path, Pattern
  <2> HIDE DEF a, n
  <2>3. /\ a \o q \in Pattern /\ Len(a \o q) = Len(a) + Len(q)
        /\ \A i \in 1 .. Len(a) : (a \o q)[i] = a[i]
        /\ \A i \in 1 .. Len(q) : (a \o q)[Len(a) + i] = q[i]
    BY <2>1, <2>2 DEF Pattern
  <2>4. p = a \o q  BY DEF a
  <2> HIDE DEF p
  <2>5. /\ p \in Pattern /\ Len(p) = n + 1 + Len(q)
        /\ \A i \in 1 .. n + 1 : p[i] = a[i]
        /\ \A i \in 1 .. Len(q) : p[n + 1 + i] = q[i]
    BY <2>1, <2>3, <2>4
  <2>6. \A i \in 1 .. n : i \in 1 .. n + 1  BY <2>1
  <2>7. n + 1 \in 1 .. n + 1  BY <2>1
  <2> QED BY <2>1, <2>2, <2>5, <2>6, <2>7
<1>n. Len(m) = n  OBVIOUS
<1> HIDE DEF p, n
<1>2. /\ \A i \in 1 .. n : p[i] # Stars
      /\ \A i \in n + 2 .. Len(p) : p[i] = q[i - (n + 1)] /\ p[i] # Stars
  <2>1. \A i \in 1 .. n : p[i] # Stars  BY <1>1
  <2>2. ASSUME NEW i \in n + 2 .. Len(p) PROVE p[i] = q[i - (n + 1)] /\ p[i] # Stars
    <3> DEFINE j == i - (n + 1)
    <3>1. j \in 1 .. Len(q) /\ n + 1 + j = i  BY <1>1
    <3> HIDE DEF j
    <3>2. p[n + 1 + j] = q[j] /\ q[j] \in Segments  BY <1>1, <3>1
    <3>3. p[i] = q[j] /\ p[i] # Stars  BY <3>1, <3>2
    <3> QED BY <3>3 DEF j
  <2> QED BY <2>1, <2>2
<1>3. ASSUME NEW ends, Match(p, d, ends)
      PROVE  W!Below(d, m) /\ \E k \in Nat : k > n /\ Holds(d, k, q)
  <2>1. \A i \in 1 .. Len(p) : ends[i] \in 0 .. Len(d)  BY <1>3 DEF Match
  <2>2. \A i \in 0 .. n - 0 : Took(ends, 0 + i) = Took(ends, 0) + i /\ (i > 0 => p[0 + i] = d[Took(ends, 0) + i])
    <3>1. 0 \in 0 .. Len(p) /\ n \in 0 .. Len(p) /\ 0 <= n /\ 0 + 1 = 1  BY <1>1
    <3> QED BY <1>1, <1>2, <1>3, <3>1, Stretch
  <2>3. Took(ends, 0) = 0  BY DEF Took
  <2>4. Took(ends, n) = n /\ \A i \in 1 .. n : m[i] = d[i]  BY <1>1, <2>2, <2>3
  <2>5. n <= Len(d)
    <3>1. ends[n] = n /\ n \in 1 .. Len(p)  BY <1>1, <2>4 DEF Took
    <3> QED BY <3>1, <2>1, <1>1
  <2>6. W!Below(d, m)  BY <1>n, <2>4, <2>5, BelowMeans
  <2> DEFINE k == Took(ends, n + 1)
  <2>7. k = ends[n + 1] /\ n + 1 \in 1 .. Len(p) /\ k \in 0 .. Len(d)  BY <1>1, <2>1 DEF Took
  <2>8. k > n
    <3>1. n + 1 # 1 /\ (n + 1) - 1 = n  BY <1>1
    <3>2. ends[n + 1] > Took(ends, (n + 1) - 1)  BY <1>1, <1>3, <2>7, <3>1 DEF Match
    <3> QED BY <2>4, <2>7, <3>1, <3>2
  <2>9. \A i \in 0 .. Len(p) - (n + 1) : /\ Took(ends, n + 1 + i) = k + i
                                         /\ i > 0 => p[n + 1 + i] = d[k + i]
    <3> DEFINE a == n + 1
    <3>1. p \in Pattern /\ a \in 0 .. Len(p) /\ Len(p) \in 0 .. Len(p) /\ a <= Len(p)  BY <1>1
    <3>2. \A i \in a + 1 .. Len(p) : p[i] # Stars
      <4>1. a + 1 = n + 2  BY <1>1
      <4> QED BY <1>2, <4>1
    <3> HIDE DEF a
    <3>3. \A i \in 0 .. Len(p) - a :
            Took(ends, a + i) = Took(ends, a) + i /\ (i > 0 => p[a + i] = d[Took(ends, a) + i])
      BY <1>3, <3>1, <3>2, Stretch
    <3> QED BY <3>3 DEF a
  <2> HIDE DEF k
  <2>10. Len(p) - (n + 1) = Len(q)  BY <1>1
  <2>11. \A i \in 1 .. Len(q) : d[k + i] = q[i]  BY <1>1, <2>9, <2>10
  <2>12. k + Len(q) <= Len(d)
    <3>1. Took(ends, n + 1 + Len(q)) = k + Len(q)  BY <1>1, <2>9, <2>10
    <3>2. n + 1 + Len(q) \in 1 .. Len(p) /\ n + 1 + Len(q) # 0  BY <1>1
    <3>3. ends[n + 1 + Len(q)] \in 0 .. Len(d)  BY <2>1, <3>2
    <3> QED BY <1>1, <3>1, <3>2, <3>3 DEF Took
  <2>13. k \in Nat  BY <2>7
  <2> QED BY <2>6, <2>8, <2>11, <2>12, <2>13 DEF Holds
<1>4. ASSUME W!Below(d, m), NEW k \in Nat, k > n, Holds(d, k, q) PROVE \E ends : Match(p, d, ends)
  <2>0. n <= Len(d) /\ \A i \in 1 .. n : m[i] = d[i]  BY <1>n, <1>4, BelowMeans
  <2> DEFINE ends == [i \in 1 .. Len(p) |-> IF i <= n THEN i ELSE k + (i - (n + 1))]
  <2>1. ends \in [1 .. Len(p) -> 0 .. Len(d)]
    <3> SUFFICES ASSUME NEW i \in 1 .. Len(p)
                 PROVE  (IF i <= n THEN i ELSE k + (i - (n + 1))) \in 0 .. Len(d)
      OBVIOUS
    <3>1. k + Len(q) <= Len(d)  BY <1>4 DEF Holds
    <3> QED BY <1>1, <2>0, <3>1
  <2>2. \A i \in 1 .. Len(p) : ends[i] = IF i <= n THEN i ELSE k + (i - (n + 1))  OBVIOUS
  <2> HIDE DEF ends
  <2>3. ASSUME NEW i \in 1 .. Len(p), p[i] # Stars
        PROVE  ends[i] = Took(ends, i - 1) + 1 /\ p[i] = d[ends[i]]
    <3>1. i # n + 1  BY <1>1, <2>3
    <3>2. CASE i <= n
      <4>1. i \in 1 .. n /\ ends[i] = i  BY <1>1, <2>2, <3>2
      <4>2. CASE i = 1  BY <4>1, <4>2, <1>1, <2>0 DEF Took
      <4>3. CASE i # 1
        <5>1. i - 1 \in 1 .. Len(p) /\ i - 1 <= n /\ i - 1 # 0  BY <1>1, <3>2, <4>3
        <5>2. ends[i - 1] = i - 1  BY <2>2, <5>1
        <5> QED BY <4>1, <5>1, <5>2, <1>1, <2>0 DEF Took
      <4> QED BY <4>2, <4>3
    <3>3. CASE i > n
      <4>1. /\ i \in n + 2 .. Len(p) /\ ~(i <= n) /\ i - 1 \in 1 .. Len(p) /\ ~(i - 1 <= n) /\ i - 1 # 0
            /\ i - (n + 1) \in 1 .. Len(q)
        BY <1>1, <3>1, <3>3
      <4>2. ends[i] = k + (i - (n + 1)) /\ ends[i - 1] = k + ((i - 1) - (n + 1))  BY <2>2, <4>1
      <4>3. p[i] = d[ends[i]]  BY <1>2, <1>4, <4>1, <4>2 DEF Holds
      <4>4. ends[i] = ends[i - 1] + 1  BY <1>1, <4>2
      <4> QED BY <4>1, <4>3, <4>4 DEF Took
    <3> QED BY <3>2, <3>3, <1>1
  <2>4. ASSUME NEW i \in 1 .. Len(p), p[i] = Stars PROVE ends[i] > Took(ends, i - 1)
    <3>1. i = n + 1
      <4>1. ~(i \in 1 .. n) /\ ~(i \in n + 2 .. Len(p))  BY <1>2, <2>4
      <4> QED BY <1>1, <4>1
    <3>2. ~(i <= n) /\ i - 1 = n /\ n \in 1 .. Len(p) /\ n <= n /\ i - (n + 1) = 0  BY <1>1, <3>1
    <3>3. ends[i] = k + 0 /\ ends[n] = n  BY <2>2, <3>2
    <3>4. Took(ends, i - 1) = n  BY <1>1, <3>2, <3>3 DEF Took
    <3> QED BY <1>4, <3>3, <3>4
  <2>5. Match(p, d, ends)  BY <2>1, <2>3, <2>4 DEF Match
  <2> QED BY <2>5
<1> QED BY <1>1, <1>n, <1>3, <1>4, MatchIs DEF p


\* A path below a path.
LEMMA BelowConcat ==
  ASSUME NEW m \in Path, NEW q \in Path, NEW d \in Path
  PROVE  /\ m \o q \in Path
         /\ W!Below(d, m \o q) <=> W!Below(d, m) /\ Holds(d, Len(m), q)
<1> DEFINE p == m \o q
<1> DEFINE n == Len(m)
<1>1. /\ p \in Path /\ n \in Nat /\ Len(q) \in Nat /\ Len(d) \in Nat /\ Len(p) = n + Len(q)
      /\ \A i \in 1 .. n : p[i] = m[i]
      /\ \A i \in 1 .. Len(q) : p[n + i] = q[i]
  BY DEF Path
<1>n. Len(m) = n  OBVIOUS
<1> HIDE DEF p, n
<1>2. ASSUME W!Below(d, p) PROVE W!Below(d, m) /\ Holds(d, n, q)
  <2>1. Len(p) <= Len(d) /\ \A i \in 1 .. Len(p) : p[i] = d[i]  BY <1>1, <1>2, BelowMeans
  <2>2. \A i \in 1 .. n : i \in 1 .. Len(p)  BY <1>1
  <2>3. n <= Len(d) /\ \A i \in 1 .. n : m[i] = d[i]  BY <1>1, <2>1, <2>2
  <2>4. W!Below(d, m)  BY <1>n, <2>3, BelowMeans
  <2>5. \A i \in 1 .. Len(q) : n + i \in 1 .. Len(p)  BY <1>1
  <2>6. \A i \in 1 .. Len(q) : d[n + i] = q[i]  BY <1>1, <2>1, <2>5
  <2>7. n + Len(q) <= Len(d)  BY <1>1, <2>1
  <2> QED BY <2>4, <2>6, <2>7 DEF Holds
<1>3. ASSUME W!Below(d, m), Holds(d, n, q) PROVE W!Below(d, p)
  <2>1. Len(p) <= Len(d)  BY <1>1, <1>3 DEF Holds
  <2>2. ASSUME NEW i \in 1 .. Len(p) PROVE p[i] = d[i]
    <3>1. CASE i <= n
      <4>1. i \in 1 .. n  BY <1>1, <3>1
      <4>2. m[i] = d[i]  BY <1>n, <1>3, <4>1, BelowMeans
      <4> QED BY <1>1, <4>1, <4>2
    <3>2. CASE i > n
      <4> DEFINE j == i - n
      <4>1. j \in 1 .. Len(q) /\ n + j = i  BY <1>1, <3>2
      <4> HIDE DEF j
      <4>2. d[n + j] = q[j] /\ p[n + j] = q[j]  BY <1>1, <1>3, <4>1 DEF Holds
      <4> QED BY <4>1, <4>2
    <3> QED BY <3>1, <3>2, <1>1
  <2> QED BY <1>1, <2>1, <2>2, BelowMeans
<1> QED BY <1>1, <1>n, <1>2, <1>3 DEF p

\* What cmd/go ignores, by where the path of the directive is.
LEMMA IgnoredMeans ==
  ASSUME NEW g, g.module \in Path, g.path \in Path, NEW d \in Path
  PROVE  W!Ignored(g, d) <=>
           IF g.relative THEN W!Below(d, g.module \o g.path)
           ELSE /\ W!Below(d, g.module)
                /\ \E k \in Nat : k >= Len(g.module) /\ Holds(d, k, g.path)
<1> DEFINE m == g.module
<1> DEFINE q == g.path
<1>1. m \in Path /\ q \in Path /\ Len(m) \in Nat /\ Len(q) \in Nat /\ Len(d) \in Nat  BY DEF Path
<1>2. W!Ignored(g, d) <=>
        IF g.relative THEN W!Below(d, m \o q)
        ELSE /\ W!Below(d, m)
             /\ \E k \in Len(m) .. Len(d) - Len(q) : SubSeq(d, k + 1, k + Len(q)) = q
  BY DEF W!Ignored
<1> HIDE DEF m, q
<1>3. \A k : k \in Len(m) .. Len(d) - Len(q) <=> k \in Nat /\ k >= Len(m) /\ k <= Len(d) - Len(q)
  BY <1>1
<1>4. \A k \in Nat : Holds(d, k, q) <=> k <= Len(d) - Len(q) /\ SubSeq(d, k + 1, k + Len(q)) = q
  BY <1>1, HoldsIs
<1>5. (\E k \in Len(m) .. Len(d) - Len(q) : SubSeq(d, k + 1, k + Len(q)) = q)
        <=> \E k \in Nat : k >= Len(m) /\ Holds(d, k, q)
  BY <1>3, <1>4
<1>6. W!Ignored(g, d) <=>
        IF g.relative THEN W!Below(d, m \o q)
        ELSE W!Below(d, m) /\ \E k \in Nat : k >= Len(m) /\ Holds(d, k, q)
  BY <1>2, <1>5
<1> QED BY <1>6 DEF m, q

LEMMA MinusIs ==
  ASSUME NEW p \in Pattern
  PROVE  W!Minus(p) \in Rule /\ W!Minus(p).path = p /\ ~W!Minus(p).plus
BY DEF W!Minus, Rule

LEMMA OneRule ==
  ASSUME NEW a \in Rule
  PROVE  <<a>> \in Seq(Rule) /\ \A r : Occurs(r, <<a>>) <=> r = a
<1>1. <<a>> \in Seq(Rule) /\ Len(<<a>>) = 1 /\ <<a>>[1] = a  OBVIOUS
<1>2. \A i : i \in 1 .. 1 <=> i = 1  OBVIOUS
<1>3. \A r : Occurs(r, <<a>>) <=> r = a  BY <1>1, <1>2 DEF Occurs
<1> QED BY <1>1, <1>3

LEMMA TwoRules ==
  ASSUME NEW a \in Rule, NEW b \in Rule
  PROVE  <<a, b>> \in Seq(Rule) /\ \A r : Occurs(r, <<a, b>>) <=> r = a \/ r = b
<1>1. <<a, b>> \in Seq(Rule) /\ Len(<<a, b>>) = 2 /\ <<a, b>>[1] = a /\ <<a, b>>[2] = b  OBVIOUS
<1>2. \A i : i \in 1 .. 2 <=> i = 1 \/ i = 2  OBVIOUS
<1>3. \A r : Occurs(r, <<a, b>>) <=> r = a \/ r = b  BY <1>1, <1>2 DEF Occurs
<1> QED BY <1>1, <1>3

\* The rules of a directive exclude what it ignores.
LEMMA DirectiveRules ==
  ASSUME W!PlanAssumption, NEW g \in Ignores
  PROVE  /\ W!IgnoreRules(g) \in Seq(Rule)
         /\ \A r : Occurs(r, W!IgnoreRules(g)) => ~r.plus
         /\ \A d \in Path : (\E r : Occurs(r, W!IgnoreRules(g)) /\ W!MatchesRule(r.path, d))
                              <=> W!Ignored(g, d)
<1> DEFINE m == g.module
<1> DEFINE q == g.path
<1>1. /\ m \in Path /\ q \in Path /\ g.relative \in BOOLEAN /\ Stars \notin Segments
      /\ Len(m) \in Nat /\ (m = <<>> <=> Len(m) = 0)
  BY DEF W!PlanAssumption, Path
<1>2. ASSUME NEW d \in Path
      PROVE  W!Ignored(g, d) <=>
               IF g.relative THEN W!Below(d, m \o q)
               ELSE W!Below(d, m) /\ \E k \in Nat : k >= Len(m) /\ Holds(d, k, q)
  BY <1>1, IgnoredMeans
<1>3. W!IgnoreRules(g) =
        IF g.relative THEN << W!Minus(m \o q) >>
        ELSE IF m = <<>> THEN << W!Minus(<<Stars>> \o q) >>
        ELSE << W!Minus(m \o q), W!Minus(m \o <<Stars>> \o q) >>
  BY DEF W!IgnoreRules, W!Worktree
<1> HIDE DEF m, q
<1> DEFINE a == W!Minus(m \o q)
<1> DEFINE b == W!Minus(<<Stars>> \o q)
<1> DEFINE e == W!Minus(m \o <<Stars>> \o q)
<1>4. a \in Rule /\ a.path = m \o q /\ ~a.plus
  <2>1. m \o q \in Pattern  BY <1>1 DEF Path, Pattern
  <2> QED BY <2>1, MinusIs
<1>5. b \in Rule /\ b.path = <<Stars>> \o q /\ ~b.plus
  <2>1. <<Stars>> \o q \in Pattern  BY <1>1 DEF Path, Pattern
  <2> QED BY <2>1, MinusIs
<1>6. e \in Rule /\ e.path = m \o <<Stars>> \o q /\ ~e.plus
  <2>1. m \o <<Stars>> \in Pattern /\ q \in Pattern  BY <1>1 DEF Path, Pattern
  <2>2. m \o <<Stars>> \o q \in Pattern
    <3> DEFINE h == m \o <<Stars>>
    <3>1. h \in Pattern  BY <2>1
    <3> HIDE DEF h
    <3>2. h \o q \in Pattern  BY <2>1, <3>1 DEF Pattern
    <3> QED BY <3>2 DEF h
  <2> QED BY <2>2, MinusIs
<1>7. W!IgnoreRules(g) = IF g.relative THEN <<a>> ELSE IF m = <<>> THEN <<b>> ELSE <<a, e>>  BY <1>3
<1>8. ASSUME NEW d \in Path
      PROVE  /\ W!MatchesRule(a.path, d) <=> W!Below(d, m \o q)
             /\ W!MatchesRule(a.path, d) <=> W!Below(d, m) /\ Holds(d, Len(m), q)
             /\ W!MatchesRule(b.path, d) <=> \E k \in Nat : Holds(d, k, q)
             /\ m # <<>> => (W!MatchesRule(e.path, d)
                               <=> W!Below(d, m) /\ \E k \in Nat : k > Len(m) /\ Holds(d, k, q))
  <2>1. m \o q \in Path /\ (W!Below(d, m \o q) <=> W!Below(d, m) /\ Holds(d, Len(m), q))
    BY <1>1, BelowConcat
  <2>2. W!MatchesRule(m \o q, d) <=> W!Below(d, m \o q)  BY <1>1, <2>1, PlainMatch
  <2>3. W!MatchesRule(<<Stars>> \o q, d) <=> \E k \in Nat : Holds(d, k, q)  BY <1>1, AnywhereMatch
  <2>4. m # <<>> => (W!MatchesRule(m \o <<Stars>> \o q, d)
                      <=> W!Below(d, m) /\ \E k \in Nat : k > Len(m) /\ Holds(d, k, q))
    BY <1>1, DeeperMatch
  <2> HIDE DEF a, b, e
  <2> QED BY <2>1, <2>2, <2>3, <2>4, <1>4, <1>5, <1>6
<1> DEFINE G == W!IgnoreRules(g)
<1> HIDE DEF a, b, e
<1>9. CASE g.relative
  <2>1. G = <<a>>  BY <1>7, <1>9
  <2>2. G \in Seq(Rule) /\ \A r : Occurs(r, G) <=> r = a  
    <3>1. <<a>> \in Seq(Rule) /\ \A r : Occurs(r, <<a>>) <=> r = a  BY <1>4, OneRule
    <3> QED BY <2>1, <3>1
  <2>3. \A d \in Path : W!MatchesRule(a.path, d) <=> W!Ignored(g, d)  BY <1>2, <1>8, <1>9
  <2> HIDE DEF G
  <2>4. \A d \in Path : (\E r : Occurs(r, G) /\ W!MatchesRule(r.path, d)) <=> W!Ignored(g, d)
    BY <2>2, <2>3
  <2> QED BY <2>2, <2>4, <1>4 DEF G
<1>10. CASE ~g.relative /\ m = <<>>
  <2>1. G = <<b>>  BY <1>7, <1>10
  <2>2. G \in Seq(Rule) /\ \A r : Occurs(r, G) <=> r = b  
    <3>1. <<b>> \in Seq(Rule) /\ \A r : Occurs(r, <<b>>) <=> r = b  BY <1>5, OneRule
    <3> QED BY <2>1, <3>1
  <2>3. \A d \in Path : W!Below(d, m)  BY <1>10, BelowOrders
  <2>4. \A k \in Nat : k >= Len(m)  BY <1>1, <1>10
  <2>5. \A d \in Path : W!MatchesRule(b.path, d) <=> W!Ignored(g, d)  BY <1>2, <1>8, <1>10, <2>3, <2>4
  <2> HIDE DEF G
  <2>6. \A d \in Path : (\E r : Occurs(r, G) /\ W!MatchesRule(r.path, d)) <=> W!Ignored(g, d)
    BY <2>2, <2>5
  <2> QED BY <2>2, <2>6, <1>5 DEF G
<1>11. CASE ~g.relative /\ m # <<>>
  <2>1. G = <<a, e>>  BY <1>7, <1>11
  <2>2. G \in Seq(Rule) /\ \A r : Occurs(r, G) <=> r = a \/ r = e  
    <3>1. <<a, e>> \in Seq(Rule) /\ \A r : Occurs(r, <<a, e>>) <=> r = a \/ r = e
      BY <1>4, <1>6, TwoRules
    <3> QED BY <2>1, <3>1
  <2>3. \A k \in Nat : k >= Len(m) <=> k = Len(m) \/ k > Len(m)  BY <1>1
  <2>4. \A d \in Path : (\E k \in Nat : k >= Len(m) /\ Holds(d, k, q))
          <=> Holds(d, Len(m), q) \/ \E k \in Nat : k > Len(m) /\ Holds(d, k, q)
    BY <1>1, <2>3
  <2>5. \A d \in Path : W!MatchesRule(a.path, d) \/ W!MatchesRule(e.path, d) <=> W!Ignored(g, d)
    BY <1>2, <1>8, <1>11, <2>4
  <2> HIDE DEF G
  <2>6. \A d \in Path : (\E r : Occurs(r, G) /\ W!MatchesRule(r.path, d)) <=> W!Ignored(g, d)
    BY <2>2, <2>5
  <2> QED BY <2>2, <2>6, <1>4, <1>6 DEF G
<1> QED BY <1>1, <1>9, <1>10, <1>11

\* The rules are rules, those of the directives first, and these exclude what any of
\* them ignores.
LEMMA FiltersAre ==
  ASSUME W!PlanAssumption, ignores \in Seq(Ignores)
  PROVE  /\ W!moduleIgnoreFilters \in Seq(Rule)
         /\ \A r : Occurs(r, W!moduleIgnoreFilters)
                     <=> \E i \in DOMAIN ignores : Occurs(r, W!IgnoreRules(ignores[i]))
<1> DEFINE n == Len(ignores)
<1> DEFINE s == [i \in DOMAIN ignores |-> W!IgnoreRules(ignores[i])]
<1>1. n \in Nat /\ DOMAIN ignores = 1 .. n /\ \A i \in 1 .. n : ignores[i] \in Ignores  OBVIOUS
<1>2. Len(s) = n /\ \A i \in 1 .. n : s[i] = W!IgnoreRules(ignores[i])  BY <1>1
<1>3. W!moduleIgnoreFilters = W!FlattenSeq(s)  BY DEF W!moduleIgnoreFilters
<1>4. s = <<>> \/ n # 0  BY <1>1
<1> HIDE DEF s, n
<1>5. Links(s, n, Rule)
  <2> SUFFICES ASSUME NEW i \in 1 .. n PROVE s[i] \in Seq(Rule)  BY DEF Links
  <2>1. W!IgnoreRules(ignores[i]) \in Seq(Rule)  BY <1>1, DirectiveRules
  <2> QED BY <1>2, <2>1
<1>6. PICK f : Chain(f, s, n, Rule)  BY <1>1, <1>5, ChainExists
<1>7. W!FlattenSeq(s) = f[n]
  <2>1. CASE n = 0
    <3>1. s = <<>> /\ Len(s) = 0  BY <1>2, <1>4, <2>1
    <3>2. W!FlattenSeq(s) = s  BY <3>1 DEF W!FlattenSeq
    <3>3. f[0] = <<>>  BY <1>6 DEF Chain
    <3> QED BY <3>1, <3>2, <3>3, <2>1
  <2>2. CASE n # 0
    <3>1. n \in 1 .. n  BY <1>1, <2>2
    <3>2. (CHOOSE g : Chained(s, n, g))[n] = f[n]
      <4>1. \A i \in 1 .. n : s[i] = s[i]  OBVIOUS
      <4> QED BY <1>1, <1>5, <1>6, <3>1, <4>1, ChainTaken
    <3>3. W!FlattenSeq(s) = (CHOOSE g : Chained(s, n, g))[n]
      BY <1>2, <2>2 DEF W!FlattenSeq, Chained
    <3> QED BY <3>2, <3>3
  <2> QED BY <2>1, <2>2
<1>8. f[n] \in Seq(Rule)
  <2>1. n \in 0 .. n  BY <1>1
  <2> QED BY <1>6, <2>1 DEF Chain
<1>9. ASSUME NEW r PROVE Occurs(r, f[n]) <=> \E k \in 1 .. n : Occurs(r, s[k])
  <2>1. n \in Nat  BY <1>1
  <2>2. Occurs(r, f[n]) <=> InALink(r, s, n)  BY <2>1, <1>5, <1>6, ChainHolds
  <2> QED BY <2>2 DEF InALink
<1>10. \A r : Occurs(r, f[n]) <=> \E i \in DOMAIN ignores : Occurs(r, W!IgnoreRules(ignores[i]))
  BY <1>1, <1>2, <1>9
<1> QED BY <1>3, <1>7, <1>8, <1>10

LEMMA RulesAre ==
  ASSUME W!PlanAssumption, ignores \in Seq(Ignores), global \in Seq(W!RuleSet)
  PROVE  W!Rules \in Seq(Rule) /\ (global = <<>> => W!Rules = W!moduleIgnoreFilters)
<1> DEFINE a == W!moduleIgnoreFilters
<1>1. a \in Seq(Rule)  BY FiltersAre
<1>2. W!RuleSet \subseteq Rule
  <2>1. Patterns \subseteq Pattern  BY DEF W!PlanAssumption, Pattern
  <2> QED BY <2>1 DEF W!RuleSet, Rule
<1>3. global \in Seq(Rule)
  <2>1. Len(global) \in Nat /\ \A i \in 1 .. Len(global) : global[i] \in W!RuleSet  OBVIOUS
  <2>2. \A i \in 1 .. Len(global) : global[i] \in Rule  BY <1>2, <2>1
  <2> QED BY <2>1, <2>2
<1>4. W!Rules = a \o global  BY DEF W!Rules
<1> HIDE DEF a
<1>5. a \o global \in Seq(Rule) /\ (global = <<>> => a \o global = a)  BY <1>1, <1>3
<1> QED BY <1>4, <1>5 DEF a

LEMMA IgnoresExact ==
  ASSUME W!PlanAssumption, ignores \in Seq(Ignores), global \in Seq(W!RuleSet)
  PROVE  W!IgnoresAsCmdGo
<1> SUFFICES ASSUME global = <<>>, NEW d \in Dirs
             PROVE  W!Include(W!Rules, d) <=> \A i \in DOMAIN ignores : ~W!Ignored(ignores[i], d)
  BY DEF W!IgnoresAsCmdGo
<1> DEFINE R == W!Rules
<1>1. /\ R \in Seq(Rule)
      /\ \A r : Occurs(r, R) <=> \E i \in DOMAIN ignores : Occurs(r, W!IgnoreRules(ignores[i]))
  BY FiltersAre, RulesAre
<1>2. d \in Path  BY DirsArePaths
<1>3. \A i \in DOMAIN ignores : ignores[i] \in Ignores  OBVIOUS
<1>4. ASSUME NEW i \in DOMAIN ignores
      PROVE  /\ \A r : Occurs(r, W!IgnoreRules(ignores[i])) => ~r.plus
             /\ (\E r : Occurs(r, W!IgnoreRules(ignores[i])) /\ W!MatchesRule(r.path, d))
                  <=> W!Ignored(ignores[i], d)
  BY <1>2, <1>3, DirectiveRules
<1> HIDE DEF R
<1>5. \A j \in DOMAIN R : Occurs(R[j], R)  BY <1>1 DEF Occurs
<1>6. \A r : Occurs(r, R) => \E j \in DOMAIN R : R[j] = r  BY <1>1 DEF Occurs
<1>7. W!Include(R, d) <=> ~\E j \in DOMAIN R : W!MatchesRule(R[j].path, d)
  <2>1. \A j \in DOMAIN R : ~R[j].plus  BY <1>1, <1>4, <1>5
  <2>2. \/ W!Include(R, d) /\ \A i \in DOMAIN R : ~W!MatchesRule(R[i].path, d)
        \/ \E i \in DOMAIN R : W!MatchesRule(R[i].path, d) /\ (W!Include(R, d) <=> R[i].plus)
    BY <1>1, <1>2, LastRule
  <2> QED BY <2>1, <2>2
<1>8. (\E j \in DOMAIN R : W!MatchesRule(R[j].path, d))
        <=> \E r : Occurs(r, R) /\ W!MatchesRule(r.path, d)
  BY <1>5, <1>6
<1>9. (\E r : Occurs(r, R) /\ W!MatchesRule(r.path, d))
        <=> \E i \in DOMAIN ignores : W!Ignored(ignores[i], d)
  BY <1>1, <1>4
<1> QED BY <1>7, <1>8, <1>9 DEF R

-----------------------------------------------------------------------------
(* The plan: what comes and goes. *)

\* What must hold of the plan and the trees.
Kept ==
  /\ pTree \in W!Trees /\ before \in W!Trees /\ closed \subseteq Dirs
  /\ W!Rules \in Seq(Rule)
  /\ pTree = before \/ closed = {}
  /\ pPlan = W!planWatch(before, closed, W!Rules)

\* k came or went.
\* k came or went.
CameIs(k) == k \in W!Came <=> (k \in pTree <=> k \notin before)

LEMMA Arrivals ==
  ASSUME W!PlanAssumption, Kept
  PROVE  /\ \A k : CameIs(k)
         /\ \A k \in W!Came : k \in Dirs /\ k \in Path /\ k # <<>>
<1>1. \A k : CameIs(k)  BY DEF CameIs, W!Came
<1>2. \A k \in W!Came : k \in Dirs  BY DEF W!Came, Kept, W!Trees
<1> QED BY <1>1, <1>2, DirsArePaths

\* The highest directory that came or went with d.
LEMMA TopIs ==
  ASSUME W!PlanAssumption, Kept, NEW d \in W!Came
  PROVE  /\ W!Top(d) \in W!Came /\ W!Below(d, W!Top(d))
         /\ \A j \in W!Came : W!Below(d, j) => W!Below(j, W!Top(d))
<1>1. d \in Path /\ Len(d) \in Nat \ {0} /\ \A j \in W!Came : j \in Path /\ Len(j) \in Nat \ {0}
  BY Arrivals DEF Path
<1> DEFINE N == {n \in 1 .. Len(d) : Upper(d, n) \in W!Came}
<1>2. Len(d) \in N
  <2>1. Upper(d, Len(d)) = d  BY <1>1, BelowOrders, AboveIsUpper
  <2> QED BY <1>1, <2>1
<1>3. PICK n \in N : \A k \in N : n <= k
  <2>1. N \in SUBSET Nat /\ N # {}  BY <1>1, <1>2
  <2> HIDE DEF N
  <2> QED BY <2>1, Least
<1> DEFINE u == Upper(d, n)
<1>4. u \in W!Came /\ n \in 0 .. Len(d)  BY <1>1
<1>5. u \in Path /\ Len(u) = n /\ W!Below(d, u)  BY <1>1, <1>4, UpperIs
<1>6. ASSUME NEW j \in W!Came, W!Below(d, j) PROVE W!Below(j, u)
  <2>1. j \in Path /\ Len(j) \in 1 .. Len(d) /\ j = Upper(d, Len(j))
    <3>1. Len(j) \in 0 .. Len(d) /\ j = Upper(d, Len(j))  BY <1>1, <1>6, AboveIsUpper
    <3> QED BY <1>1, <3>1
  <2>2. Upper(d, Len(j)) \in W!Came  BY <2>1
  <2>3. Len(j) \in N  BY <2>1, <2>2
  <2>4. n <= Len(j)
    <3> HIDE DEF N
    <3> QED BY <1>3, <2>3
  <2> HIDE DEF u
  <2> QED BY <1>1, <1>5, <1>6, <2>1, <2>4, BelowOrders
<1> DEFINE Good(k) == W!Below(d, k) /\ \A j \in W!Came : W!Below(d, j) => W!Below(j, k)
<1>7. W!Top(d) = CHOOSE k \in W!Came : Good(k)  BY DEF W!Top
<1>8. u \in W!Came /\ Good(u)  BY <1>4, <1>5, <1>6
<1> HIDE DEF u
<1>9. W!Top(d) \in W!Came /\ Good(W!Top(d))
  <2> HIDE DEF Good
  <2> QED BY <1>7, <1>8
<1> QED BY <1>9

\* The directory above what came or went: there before and after, and not covered.
LEMMA AboveTop ==
  ASSUME W!PlanAssumption, Kept, NEW d \in W!Came, ~W!Covered(W!Front(d)),
         NEW f, f = W!Front(W!Top(d))
  PROVE  /\ f \in Path /\ W!Below(d, f) /\ f # d
         /\ W!Below(W!Top(d), f) /\ Len(W!Top(d)) = Len(f) + 1
         /\ f # <<>> => f \in pTree /\ f \in before
         /\ ~Covers(pPlan, f) /\ f \notin W!Came
<1> DEFINE k == W!Top(d)
<1>1. d \in Path /\ d # <<>> /\ k \in W!Came /\ k \in Path /\ k # <<>> /\ W!Below(d, k)
  BY Arrivals, TopIs
<1>2. \A j \in W!Came : W!Below(d, j) => W!Below(j, k)  BY TopIs
<1> HIDE DEF k
<1>3. f = W!Front(k)  BY DEF k
<1>4. Len(k) \in Nat \ {0} /\ f \in Path /\ Len(f) = Len(k) - 1 /\ W!Below(k, f) /\ f # k
  BY <1>1, <1>3, FrontIs
<1>5. W!Below(d, f)  BY <1>1, <1>4, BelowOrders
<1>6. f # d
  <2> SUFFICES ASSUME f = d PROVE FALSE  OBVIOUS
  <2>1. f = k  BY <1>1, <1>4, BelowOrders
  <2> QED BY <1>4, <2>1
<1>7. f \notin W!Came
  <2> SUFFICES ASSUME f \in W!Came PROVE FALSE  OBVIOUS
  <2>1. W!Below(f, k)  BY <1>2, <1>5
  <2> QED BY <1>1, <1>4, <2>1, BelowOrders
<1>8. ASSUME f # <<>> PROVE f \in pTree /\ f \in before
  <2>1. CameIs(k) /\ CameIs(f)  BY Arrivals
  <2>2. pTree \in W!Trees /\ before \in W!Trees  BY DEF Kept
  <2>3. k \in pTree => f \in pTree  BY <1>4, <1>8, <2>2, Upwards
  <2>4. k \in before => f \in before  BY <1>4, <1>8, <2>2, Upwards
  <2> QED BY <1>1, <1>7, <2>1, <2>3, <2>4 DEF CameIs
<1>9. ASSUME Covers(pPlan, f) PROVE FALSE
  <2>1. PICK r \in pPlan.roots : W!Below(f, r)  BY <1>9 DEF Covers
  <2>2. r \in Path
    <3>1. r = <<>> \/ r \in before
      <4> DEFINE R == W!Rules
      <4>1. before \in W!Trees /\ closed \subseteq Dirs /\ pPlan = W!planWatch(before, closed, R)
        BY DEF Kept
      <4> HIDE DEF R
      <4>2. pPlan.roots = {<<>>} \/ pPlan.roots = RootsBelow(before, closed, R, <<>>)
        BY <4>1, PlanIs
      <4> QED BY <2>1, <4>2 DEF RootsBelow
    <3>2. <<>> \in Path  BY DEF Path
    <3> QED BY <3>1, <3>2, DirsArePaths DEF Kept, W!Trees
  <2>3. W!Front(d) \in Path /\ W!Below(W!Front(d), f)  BY <1>1, <1>4, <1>5, <1>6, FrontIs
  <2>4. W!Below(W!Front(d), r)  BY <1>4, <2>1, <2>2, <2>3, BelowOrders
  <2> QED BY <2>1, <2>4 DEF W!Covered
<1>10. Len(k) = Len(f) + 1  BY <1>4
<1> QED BY <1>4, <1>5, <1>6, <1>7, <1>8, <1>9, <1>10 DEF k

\* So it is one of the partial directories.
LEMMA UncoveredPartial ==
  ASSUME W!PlanAssumption, Kept, closed = {}, NEW d \in Path, W!Include(W!Rules, d),
         NEW f \in Path, W!Below(d, f), f # <<>> => f \in before, ~Covers(pPlan, f)
  PROVE  Entry(before, W!Rules, f) \in pPlan.partial
<1> DEFINE R == W!Rules
<1>1. R \in Seq(Rule) /\ before \in W!Trees /\ closed \subseteq Dirs
      /\ pPlan = W!planWatch(before, closed, R)
  BY DEF Kept
<1> HIDE DEF R
<1>2. W!Below(f, <<>>) /\ \A e \in Path : Reads(closed, e)  BY BelowOrders DEF Reads
<1>3. ~Clean(before, closed, R, <<>>)
  <2> SUFFICES ASSUME Clean(before, closed, R, <<>>) PROVE FALSE  OBVIOUS
  <2>1. pPlan.roots = {<<>>}  BY <1>1, PlanIs
  <2> QED BY <1>2, <2>1 DEF Covers
<1>4. pPlan.roots = RootsBelow(before, closed, R, <<>>) /\ pPlan.partial = PartialEntries(before, closed, R, <<>>)
  BY <1>1, <1>3, PlanIs
<1>5. Reached(before, closed, R, <<>>, f)
  <2>1. W!Include(R, d)  BY DEF R
  <2> QED BY <1>1, <1>2, <2>1, IncludedReached
<1>6. ~Clean(before, closed, R, f)
  <2> SUFFICES ASSUME Clean(before, closed, R, f) PROVE FALSE  OBVIOUS
  <2>1. f # <<>>  BY <1>3
  <2>2. f \in before /\ W!Include(R, f)  BY <2>1 DEF Clean, OwnFiles
  <2>3. \E r \in RootsBelow(before, closed, R, <<>>) : W!Below(f, r)
    BY <1>1, <1>2, <1>3, <2>2, CleanCovered
  <2> QED BY <1>4, <2>3 DEF Covers
<1>7. f \in PartialBelow(before, closed, R, <<>>)  BY <1>2, <1>5, <1>6 DEF PartialBelow
<1>8. Entry(before, R, f) \in pPlan.partial  BY <1>4, <1>7 DEF PartialEntries
<1> QED BY <1>8 DEF R

\* An included directory that came or went where no root covers it is noticed.
LEMMA Noticed ==
  ASSUME W!PlanAssumption, Kept
  PROVE  W!UncoveredIsNoticed
<1> SUFFICES ASSUME NEW d \in W!Came, W!Include(W!Rules, d), ~W!Covered(W!Front(d)),
                    W!Own(W!Front(W!Top(d))) => W!Include(W!Rules, W!Top(d))
             PROVE  W!Changed
  BY DEF W!UncoveredIsNoticed
<1> DEFINE R == W!Rules
<1> DEFINE k == W!Top(d)
<1> DEFINE f == W!Front(k)
<1>1. R \in Seq(Rule)  BY DEF Kept
<1>2. d \in Path /\ k \in W!Came /\ k \in Path /\ W!Below(d, k)  BY Arrivals, TopIs
<1>3. /\ f \in Path /\ W!Below(d, f) /\ f # d /\ W!Below(k, f) /\ Len(k) = Len(f) + 1
      /\ f # <<>> => f \in pTree /\ f \in before
      /\ ~Covers(pPlan, f)
  BY AboveTop
<1>4. closed = {}
  <2>1. pTree # before  BY <1>2 DEF W!Came
  <2> QED BY <2>1 DEF Kept
<1>5. OwnFiles(R, f) => W!Include(R, k)  BY DEF W!Own, OwnFiles, W!Worktree
<1> HIDE DEF R, k, f
<1>6. W!Include(R, d)  BY DEF R
<1> DEFINE e == Entry(before, R, f)
<1>7. e \in pPlan.partial  BY <1>2, <1>3, <1>4, <1>6, UncoveredPartial DEF R
<1>8. W!Include(R, k) \/ (~OwnFiles(R, f) /\ W!MayInclude(R, k))
  <2> SUFFICES ASSUME ~W!Include(R, k), ~W!MayInclude(R, k) PROVE FALSE  BY <1>5
  <2>1. Stars \notin Segments  BY DirsArePaths
  <2> QED BY <1>1, <1>2, <1>6, <2>1, NothingBelow
<1>9. \A t : k \in W!relevantNames(t, R, f, OwnFiles(R, f)) <=> k \in t
  BY <1>3, <1>8 DEF W!relevantNames, W!Kids
<1>10. k \in pTree <=> k \notin before  BY <1>2, Arrivals DEF CameIs
<1>11. W!relevantNames(pTree, R, f, OwnFiles(R, f)) # W!relevantNames(before, R, f, OwnFiles(R, f))
  BY <1>9, <1>10
<1>12. e.dir = f /\ e.files = OwnFiles(R, f)
       /\ e.names = W!relevantNames(before, R, f, OwnFiles(R, f))
  BY DEF Entry
<1> HIDE DEF e
<1>13. e.dir \in pTree \cup {<<>>}  BY <1>3, <1>12
<1>14. W!relevantNames(pTree, R, e.dir, e.files) # e.names  BY <1>11, <1>12
<1> QED BY <1>7, <1>13, <1>14 DEF W!Changed, W!Worktree, R

\* And nothing else is.
LEMMA OnlyNoticed ==
  ASSUME W!PlanAssumption, Kept
  PROVE  W!OnlyUncoveredIsNoticed
<1> DEFINE R == W!Rules
<1> SUFFICES ASSUME NEW e \in pPlan.partial, W!relevantNames(pTree, R, e.dir, e.files) # e.names
             PROVE  \E d \in W!Came : ~W!Covered(W!Front(d)) /\ (W!Include(R, d) \/ W!MayInclude(R, d))
  BY DEF W!OnlyUncoveredIsNoticed, W!Changed
<1>1. R \in Seq(Rule) /\ before \in W!Trees /\ closed \subseteq Dirs
      /\ pPlan = W!planWatch(before, closed, R)
  BY DEF Kept
<1> HIDE DEF R
<1>2. /\ ~Clean(before, closed, R, <<>>) /\ pPlan.roots = RootsBelow(before, closed, R, <<>>)
      /\ pPlan.partial = PartialEntries(before, closed, R, <<>>)
  BY <1>1, PlanIs
<1>3. PICK f \in PartialBelow(before, closed, R, <<>>) : e = Entry(before, R, f)  BY <1>2 DEF PartialEntries
<1> DEFINE names(t) == W!relevantNames(t, R, f, OwnFiles(R, f))
<1>4. e.dir = f /\ names(pTree) # names(before)
  <2>1. e.dir = f /\ e.files = OwnFiles(R, f) /\ e.names = names(before)  BY <1>3 DEF Entry
  <2> QED BY <2>1
<1>5. f \in before \cup {<<>>} /\ Reads(closed, f)  BY <1>3 DEF PartialBelow, Reached
<1>6. f \in Path
  <2>1. <<>> \in Path  BY DEF Path
  <2> QED BY <1>1, <1>5, <2>1, DirsArePaths DEF W!Trees
<1>7. ~Covers(pPlan, f)
  <2>1. CASE f # <<>>
    <3>1. f \in before /\ Reads(closed, f)  BY <1>5, <2>1
    <3>2. ~Clean(before, closed, R, f)  BY <1>3 DEF PartialBelow
    <3>3. ASSUME NEW r \in RootsBelow(before, closed, R, <<>>), W!Below(f, r) PROVE FALSE
      BY <1>1, <3>1, <3>2, <3>3, CoveredClean
    <3> QED BY <1>2, <3>3 DEF Covers
  <2>2. CASE f = <<>>
    <3> SUFFICES ASSUME NEW r \in pPlan.roots, W!Below(<<>>, r) PROVE FALSE  BY <2>2 DEF Covers
    <3>1. r \in before /\ r \in Path /\ r # <<>>  BY <1>1, <1>2, DirsArePaths DEF RootsBelow, W!Trees
    <3>2. W!Below(r, <<>>) /\ <<>> \in Path  BY <3>1, BelowOrders DEF Path
    <3> QED BY <3>1, <3>2, BelowOrders
  <2> QED BY <2>1, <2>2
<1>8. PICK k : k \in names(pTree) <=> k \notin names(before)
  <2>1. \A x \in names(pTree) : x \in pTree  BY DEF W!relevantNames, W!Kids
  <2> HIDE DEF names
  <2> QED BY <1>4
<1>9. /\ Len(k) = Len(f) + 1 /\ W!Below(k, f) /\ (W!Include(R, k) \/ W!MayInclude(R, k))
      /\ k \in pTree <=> k \notin before
  BY <1>8 DEF W!relevantNames, W!Kids
<1>10. k \in W!Came  BY <1>9, Arrivals DEF CameIs
<1>11. k \in Path /\ k # <<>>  BY <1>10, Arrivals
<1>12. W!Front(k) = f
  <2>1. Len(f) \in Nat  BY <1>6 DEF Path
  <2>2. k # f  BY <1>9, <2>1
  <2>3. W!Front(k) \in Path /\ Len(W!Front(k)) = Len(f) /\ W!Below(W!Front(k), f)
    BY <1>6, <1>9, <1>11, <2>1, <2>2, FrontIs
  <2> QED BY <1>6, <2>3, BelowOrders
<1>13. ~W!Covered(W!Front(k))  BY <1>7, <1>12 DEF Covers, W!Covered
<1> QED BY <1>9, <1>10, <1>13

-----------------------------------------------------------------------------
(* The plan: every behaviour. *)

\* What a behaviour of the plan part keeps; the other parts leave its state empty.
Planning ==
  /\ pTree \in W!Trees /\ before \in W!Trees /\ closed \subseteq Dirs
  /\ ignores \in Seq(Ignores) /\ global \in Seq(W!RuleSet)
  /\ growth \in Nat /\ (growth > 0 => closed = {})
  /\ pPlan = W!Unplanned => growth = 0
  /\ pPlan # W!Unplanned => /\ pPlan = W!planWatch(before, closed, W!Rules)
                            /\ growth = 0 => pTree = before

\* The tree stays one when a directory appears with those above it, or goes with those
\* below it.
LEMMA StaysATree ==
  ASSUME W!PlanAssumption, NEW t \in W!Trees, NEW d \in Dirs
  PROVE  /\ t \cup {k \in Dirs : W!Below(d, k)} \in W!Trees
         /\ {k \in t : ~W!Below(k, d)} \in W!Trees
<1>1. \A k \in Dirs : k \in Path /\ k # <<>> /\ Len(k) \in Nat \ {0}  BY DirsArePaths
<1>2. \A k \in Dirs : Len(k) = 1 \/ W!Front(k) \in Dirs  BY DEF W!PlanAssumption
<1>3. t \subseteq Dirs /\ \A k \in t : Len(k) = 1 \/ W!Front(k) \in t  BY DEF W!Trees
<1>4. ASSUME NEW k \in Dirs, Len(k) # 1
      PROVE  W!Front(k) \in Path /\ W!Below(k, W!Front(k))
  BY <1>1, FrontIs
<1>5. ASSUME NEW k \in Dirs, W!Below(d, k), Len(k) # 1 PROVE W!Front(k) \in Dirs /\ W!Below(d, W!Front(k))
  <2>1. W!Front(k) \in Path /\ W!Below(k, W!Front(k)) /\ W!Front(k) \in Dirs  BY <1>2, <1>4, <1>5
  <2> QED BY <2>1, <1>1, <1>5, BelowOrders
<1>6. ASSUME NEW k \in t, ~W!Below(k, d), Len(k) # 1 PROVE W!Front(k) \in t /\ ~W!Below(W!Front(k), d)
  <2>1. W!Front(k) \in Path /\ W!Below(k, W!Front(k)) /\ W!Front(k) \in t  BY <1>3, <1>4, <1>6
  <2> QED BY <2>1, <1>1, <1>3, <1>6, BelowOrders
<1> QED BY <1>3, <1>5, <1>6 DEF W!Trees

LEMMA PlanningKept ==
  ASSUME W!PlanAssumption, Planning, pPlan # W!Unplanned
  PROVE  Kept
<1>1. W!Rules \in Seq(Rule)  BY RulesAre DEF Planning
<1>2. growth > 0 \/ growth = 0  BY DEF Planning
<1> QED BY <1>1, <1>2 DEF Planning, Kept

LEMMA PlanningInit == MCInit => Planning
<1> SUFFICES ASSUME MCInit PROVE Planning  OBVIOUS
<1>1. {} \in W!Trees  BY DEF W!Trees
<1>2. CASE part = "plan"
  <2>1. W!Init  BY <1>2 DEF MCInit
  <2>2. pTree \in W!Trees /\ before = {} /\ pPlan = W!Unplanned /\ growth = 0  BY <2>1 DEF W!Init
  <2>3. closed \subseteq Dirs
    <3>1. pTree \subseteq Dirs  BY <2>2 DEF W!Trees
    <3> QED BY <2>1, <3>1 DEF W!Init
  <2>4. ignores \in Seq(Ignores) /\ global \in Seq(W!RuleSet)
    <3>1. ignores \in W!UpTo(Ignores, MaxIgnores) /\ global \in W!UpTo(W!RuleSet, MaxRules)
      BY <2>1 DEF W!Init
    <3>2. PICK k \in 0 .. MaxIgnores : ignores \in [1 .. k -> Ignores]  BY <3>1 DEF W!UpTo
    <3>3. PICK n \in 0 .. MaxRules : global \in [1 .. n -> W!RuleSet]  BY <3>1 DEF W!UpTo
    <3>4. MaxIgnores \in Nat /\ MaxRules \in Nat  BY MaintenanceAssumption DEF W!PlanAssumption
    <3>5. ignores \in Seq(Ignores)  BY <3>2, <3>4
    <3>6. global \in Seq(W!RuleSet)  BY <3>3, <3>4
    <3> QED BY <3>5, <3>6
  <2> QED BY <1>1, <2>2, <2>3, <2>4 DEF Planning
<1>3. CASE part # "plan"
  <2>1. NoRules  BY <1>3 DEF MCInit
  <2>2. <<>> \in Seq(Ignores) /\ <<>> \in Seq(W!RuleSet)  OBVIOUS
  <2> QED BY <1>1, <2>1, <2>2 DEF NoRules, Planning
<1> QED BY <1>2, <1>3

LEMMA PlanningStep ==
  Planning /\ [MCNext]_<<part, vars, pendingVars, evictionVars, planVars>> => Planning'
<1> SUFFICES ASSUME Planning, [MCNext]_<<part, vars, pendingVars, evictionVars, planVars>>
             PROVE  Planning'
  OBVIOUS
<1>1. W!Next \/ UNCHANGED planVars  BY DEF MCNext
<1>2. W!PlanAssumption  BY MaintenanceAssumption
<1>3. ASSUME UNCHANGED <<ignores, global>> PROVE W!Rules' = W!Rules
  BY <1>3 DEF W!Rules, W!moduleIgnoreFilters
<1>4. CASE UNCHANGED planVars
  <2>1. UNCHANGED <<pTree, closed, ignores, global, pPlan, before, growth>>  BY <1>4 DEF planVars
  <2>2. W!Rules' = W!Rules  BY <1>3, <2>1
  <2> QED BY <2>1, <2>2 DEF Planning
<1>5. CASE W!Plan
  <2>1. /\ pPlan = W!Unplanned /\ pPlan' = W!planWatch(pTree, closed, W!Rules) /\ before' = pTree
        /\ UNCHANGED <<pTree, closed, ignores, global, growth>>
    BY <1>5 DEF W!Plan
  <2>2. W!Rules' = W!Rules  BY <1>3, <2>1
  <2> QED BY <2>1, <2>2 DEF Planning
<1>6. ASSUME NEW d \in Dirs, W!Appear(d) \/ W!Vanish(d) PROVE Planning'
  <2>1. /\ pPlan # W!Unplanned /\ closed = {} /\ growth' = growth + 1
        /\ UNCHANGED <<closed, ignores, global, pPlan, before>>
    BY <1>6 DEF W!Appear, W!Vanish
  <2>2. pTree' \in W!Trees
    <3>1. pTree \in W!Trees  BY DEF Planning
    <3>2. \/ pTree' = pTree \cup {k \in Dirs : W!Below(d, k)}
          \/ pTree' = {k \in pTree : ~W!Below(k, d)}
      BY <1>6 DEF W!Appear, W!Vanish
    <3> QED BY <1>2, <3>1, <3>2, StaysATree
  <2>3. W!Rules' = W!Rules  BY <1>3, <2>1
  <2>4. growth' \in Nat /\ growth' > 0  BY <2>1 DEF Planning
  <2> QED BY <2>1, <2>2, <2>3, <2>4 DEF Planning
<1> QED BY <1>1, <1>4, <1>5, <1>6 DEF W!Next

\* Whatever the rules, the tree and the directory that cannot be read: the roots and the
\* partial directories cover what the rules include and nothing else, with the fewest
\* roots, and the rules of ignore directives exclude what cmd/go ignores (planWatch,
\* moduleIgnoreFilters).
THEOREM RootsAreAsRuled == MCSpec => []PlanAsRuled
<1>1. Planning => PlanAsRuled
  <2> SUFFICES ASSUME Planning PROVE PlanAsRuled  OBVIOUS
  <2>1. W!PlanAssumption  BY MaintenanceAssumption
  <2>2. W!IgnoresAsCmdGo  BY <2>1, IgnoresExact DEF Planning
  <2>3. ASSUME W!Fresh PROVE Kept /\ pTree = before
    BY <2>1, <2>3, PlanningKept DEF W!Fresh, Planning
  <2>4. W!CoversTheIncluded
    <3> SUFFICES ASSUME W!Fresh, NEW d \in pTree, W!Readable(d)
                 PROVE  /\ W!Include(W!Rules, d) <=>
                             \/ W!Covered(d) \/ \E e \in pPlan.partial : e.dir = d /\ e.files
                             \/ d \in closed /\ W!Include(W!Rules, d)
                        /\ ~(W!Covered(d) /\ \E e \in pPlan.partial : e.dir = d)
      BY DEF W!CoversTheIncluded
    <3>1. Kept /\ d \in before  BY <2>3
    <3>2. Reads(closed, d)  BY DEF W!Readable, Reads
    <3> DEFINE R == W!Rules
    <3>3. /\ before \in W!Trees /\ closed \subseteq Dirs /\ R \in Seq(Rule)
          /\ pPlan = W!planWatch(before, closed, R)
      BY <3>1 DEF Kept
    <3> HIDE DEF R
    <3>4. CoversIncluded(R, pPlan, d)  BY <2>1, <3>1, <3>2, <3>3, PlanCovers
    <3>5. Covers(pPlan, d) <=> W!Covered(d)  BY DEF Covers, W!Covered
    <3> QED BY <3>4, <3>5 DEF R, CoversIncluded
  <2>5. W!RootsAreFewest
    <3> SUFFICES ASSUME W!Fresh, NEW r \in pPlan.roots \ {<<>>}
                 PROVE  /\ \A q \in pPlan.roots : W!Below(r, q) => q = r
                        /\ \E d \in pTree : W!Below(d, W!Front(r)) /\ ~W!Include(W!Rules, d)
      BY DEF W!RootsAreFewest, W!Worktree
    <3>1. Kept /\ pTree = before  BY <2>3
    <3> DEFINE R == W!Rules
    <3>2. /\ before \in W!Trees /\ closed \subseteq Dirs /\ pPlan = W!planWatch(before, closed, R)
      BY <3>1 DEF Kept
    <3> HIDE DEF R
    <3>3. HasFewest(before, R, pPlan, r)  BY <2>1, <3>2, PlanFewest
    <3> QED BY <3>1, <3>3 DEF R, HasFewest
  <2> QED BY <2>2, <2>4, <2>5 DEF PlanAsRuled, W!PlanAsRuled
<1> QED BY <1>1, PlanningInit, PlanningStep, PTL DEF MCSpec

\* However the tree grows and shrinks: a directory that comes or goes where no root covers
\* it is noticed, and nothing else is (relevantNames, partialChanged).
THEOREM NoticedWhenUncovered == MCSpec => []NoticedIffUncovered
<1>1. Planning => NoticedIffUncovered
  <2> SUFFICES ASSUME Planning PROVE NoticedIffUncovered  OBVIOUS
  <2>1. W!PlanAssumption  BY MaintenanceAssumption
  <2>2. CASE pPlan = W!Unplanned
    BY <2>2 DEF W!Unplanned, W!UncoveredIsNoticed, W!OnlyUncoveredIsNoticed, W!Changed,
                NoticedIffUncovered, W!NoticedIffUncovered
  <2>3. CASE pPlan # W!Unplanned
    <3>1. Kept  BY <2>1, <2>3, PlanningKept
    <3> QED BY <2>1, <3>1, Noticed, OnlyNoticed DEF NoticedIffUncovered, W!NoticedIffUncovered
  <2> QED BY <2>2, <2>3
<1> QED BY <1>1, PlanningInit, PlanningStep, PTL DEF MCSpec

=============================================================================
