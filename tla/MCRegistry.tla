----------------------------- MODULE MCRegistry -----------------------------
(***************************************************************************)
(* Instances of the registry for TLC.                                      *)
(***************************************************************************)
EXTENDS RegistryProps, TLC

\* Every worktree hashes to the same port: each start contends with every other.
SameBase == [w \in Worktrees |-> 0]

Interchangeable == Permutations(Managers) \cup Permutations(Pids) \cup Permutations(Worktrees)
=============================================================================
