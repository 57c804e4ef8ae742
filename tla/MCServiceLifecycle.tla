------------------------- MODULE MCServiceLifecycle -------------------------
(* A small instance of ServiceLifecycle: a caller of the provider selects   *)
(* the identity it started with, another runtime, or another checkout's.    *)
EXTENDS ServiceLifecycle, TLC

CONSTANTS b1, b2, b3, p1, p2, p3

MCIds == {b1, b2, b3}
MCPids == {p1, p2, p3}
MCSelections == {[owner |-> "o1", runtime |-> "r1", revision |-> "v1"],
                 [owner |-> "o1", runtime |-> "r2", revision |-> "v1"],
                 [owner |-> "o2", runtime |-> "r1", revision |-> "v1"]}
Symmetric == Permutations(Ids) \cup Permutations(Pids)
=============================================================================
