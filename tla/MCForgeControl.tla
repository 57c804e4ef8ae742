--------------------------- MODULE MCForgeControl ---------------------------
(* Small instances of ForgeControl: one or two development processes and   *)
(* at most one evaluator.                                                  *)
EXTENDS ForgeControl, TLC

CONSTANTS dev1, dev2, eval, c1, c2, a1, a2, w1, w2

OneDeveloper == {dev1, eval}
TwoDevelopers == {dev1, dev2}
MCMode == [p \in Procs |-> IF p = eval THEN "evaluator" ELSE "development"]
TwoContents == {c1, c2}
OneContent == {c1}
TwoAuths == {a1, a2}
OneAuth == {a1}
OneWorkflow == {w1}
TwoWorkflows == {w1, w2}

\* A policy or a plan requires one workflow; an invalid plan requires nothing.
MCPolicies == {"policy"}
MCPlans == {"plan"}
\* Inspection does not see the plan.
TwoPlans == {"plan", "invalid"}
MCRequired == [x \in Policies \cup Plans |-> IF x = "invalid" THEN {} ELSE {w1}]

Symmetric == Permutations(Contents) \cup Permutations(Auths)
\* Processes of the same mode are interchangeable.
SymmetricProcs == Symmetric \cup Permutations(Procs)
=============================================================================
