------------------------------- MODULE MCPaths -------------------------------
(* Short sequences of tool calls over two paths, two directories, two trees: a *)
(* session whose memos hold one entry, and a backend whose memos hold two.     *)
EXTENDS Paths

CONSTANTS p1, p2

MCClients ==
    { [stateless |-> FALSE, cache |-> 1, calls |-> << <<p1>>, <<p1, p2>>, <<>> >>],
      [stateless |-> TRUE,  cache |-> 2, calls |-> << <<p1>>, <<p1, p2>>, <<>> >>] }
=============================================================================
