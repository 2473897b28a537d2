--------------------------- MODULE RegistryProps ----------------------------
(***************************************************************************)
(* What the registry of shared servers promises.                           *)
(***************************************************************************)
EXTENDS Registry

\* Every variable has the type its declaration says.
TypeOK ==
  /\ registry \subseteq Record
  /\ starts \in Seq(Start) /\ Len(starts) <= MaxStarts
  /\ proc \in [Pids -> 1 .. Len(starts) \cup {Nobody, Stranger}]
  /\ serving \subseteq 1 .. Len(starts) /\ young \subseteq 1 .. Len(starts)
  /\ lock \in Managers \cup {NoManager}
  /\ op \in [Managers -> Operation]
  /\ counts \in [Managers -> SUBSET Worktrees]
  /\ uses \in 0 .. MaxUses /\ crashes \in 0 .. MaxCrashes
  /\ condemned \subseteq 1 .. Len(starts) /\ signalled \subseteq 1 .. Len(starts)
  /\ lost \subseteq 1 .. Len(starts) /\ settled \subseteq 1 .. Len(starts)

\* Servers whose starter could not record them and is still stopping them.
Discarding == {op[m].id : m \in {x \in Managers : op[x].pc = "discard"}}

\* Two managers that find no server for a worktree, or are handed the same port, never
\* both record one: worktrees and ports are unique in the map and the limit is kept
\* (claimPort decides under the flock what its probes saw without it).
RegistryConsistent ==
  /\ \A r, s \in registry :
       r # s => /\ starts[r.id].wt # starts[s.id].wt
                /\ starts[r.id].port # starts[s.id].port
  /\ Cardinality(registry) <= SharedServers

\* A worktree has at most one server running, apart from one whose starter died or gave
\* up before recording it.
OneServer ==
  \A g, h \in 1 .. Len(starts) :
    Alive(g) /\ Alive(h) /\ g # h /\ starts[g].wt = starts[h].wt
      => {g, h} \cap (lost \cup Discarding) # {}

\* A server that runs can be found: it is in the map, or its starter has it in hand
\* (claimPort's write, the stop after a failed one), or that starter was killed there.
NoOrphan ==
  \A g \in 1 .. Len(starts) : Alive(g) =>
    \/ \E r \in registry : r.id = g
    \/ \E m \in Managers : op[m].id = g /\ op[m].pc \in {"spawned", "discard"}
    \/ g \in lost

\* A running server's port is its own: nobody but it answers there, so that a probe of the
\* endpoint, which asks only the port, is an answer about that server.
PortsBelong ==
  \A r \in registry : \A g \in serving :
    Alive(r.id) /\ starts[g].port = starts[r.id].port => g = r.id \/ g \in lost \cup Discarding

\* A start given the pid and the port of an earlier one, which nothing can tell from it.
Impostor(g) ==
  \E h \in 1 .. g - 1 : starts[h].pid = starts[g].pid /\ starts[h].port = starts[g].port

\* Termination is durable before the signal: until a server that was signalled is gone,
\* its record is there and says so, whoever flushes, sweeps or crashes in between.
SignalledMarked ==
  \A g \in signalled : Alive(g) /\ ~Impostor(g) => \E r \in registry : r.id = g /\ r.term

\* Only servers are ever signalled, never a stranger under their pid, and durably
\* (signalTerminating).
SignalsSound == TypeOK /\ SignalledMarked

\* A server the map names is signalled only if a probe condemned it, however late the
\* signal comes and whatever runs under the pid by then (signalTerminating looks again).
\* A start not yet in the map may be hit: given the pid and the port of a condemned server
\* that has exited, it is taken for it until the write that replaces the one by the other.
SignalledCondemned ==
  [][\A r \in registry : r.id \in signalled' \ signalled => r.id \in condemned]_vars

\* No step drops the record of a running server: verdicts are applied to the exact record
\* that was probed, and forget to the start whose exit was seen.
NeverForgetsLive ==
  [][\A r \in registry : Alive(r.id) => \E s \in registry' : s.id = r.id]_vars

\* No step clears a termination mark: a record leaves marked or stays marked.
MarkIsFinal ==
  [][\A r \in registry : r.term => \A s \in registry' : s.id = r.id => s.term]_vars

\* SPEC.md, P5: a start that never became ready has its record dropped once its exit is
\* confirmed, and not left for the next sweep.
FailedStartForgotten == \A g \in settled : \A r \in registry : r.id # g
=============================================================================
