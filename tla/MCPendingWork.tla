----------------------------- MODULE MCPendingWork -----------------------------
EXTENDS PendingWork, TLC

\* The second verifier is above the cost boundary of the triggers.
MCCost == [v1 |-> "low", v2 |-> "high", v3 |-> "medium"]

NoFacts == [impact |-> [roots |-> {}, complete |-> FALSE, change_kinds |-> {},
                        guarantee_domains |-> {}, risk_flags |-> {}, nodes |-> {}],
            diagnostics |-> [added |-> {}, resolved |-> {}],
            obligations |-> [added |-> {}, resolved |-> {}, status_changed |-> {}],
            subjects |-> {}, reconciled |-> FALSE, complete |-> FALSE]

\* The first depends on one document and says so, the third does not know.
CONSTANTS a, policy1, policy2
MCEnvelope == [v1 |-> [paths |-> {a}, complete |-> TRUE],
               v2 |-> [paths |-> {}, complete |-> FALSE],
               v3 |-> [paths |-> {a}, complete |-> FALSE]]

\* Two configurations that differ in a policy file; nothing tells the files apart.
MCConfigs == {[raw |-> 1, policy |-> p, environment |-> 1] : p \in {policy1, policy2}}
Symmetric == Permutations({policy1, policy2})

\* A change of an obligation asks for two verifiers; a change of a contract for
\* the selected verification and three verifiers, more than the batch; a diagnosed
\* one for a repair, a verifier that costs too much and one whose answer counts
\* only with a complete envelope.
MCFacts == {[NoFacts EXCEPT !.obligations.status_changed = {"o"}],
            [NoFacts EXCEPT !.complete = TRUE, !.impact.complete = TRUE,
                            !.impact.roots = {"r"}, !.subjects = {"s"},
                            !.impact.nodes = {[kind |-> "contract", id |-> "c"]}],
            [NoFacts EXCEPT !.diagnostics.added = {"d"}]}

AnyTrigger == [action |-> "micro_verifier", policy |-> "attention", kinds |-> {}, changes |-> {},
               domains |-> {}, risks |-> {}, subjectKinds |-> {}, contracts |-> {},
               obligations |-> {}, diagnostics |-> {}, security |-> FALSE, maximum |-> "medium",
               complete |-> FALSE, verifiers |-> <<>>]

MCTriggers ==
    <<[AnyTrigger EXCEPT !.obligations = {[valid |-> TRUE, hits |-> {"o"}]},
                         !.verifiers = <<"v1", "v3">>],
      [AnyTrigger EXCEPT !.kinds = {"semantic_subject_changed"}, !.policy = "unknown",
                         !.verifiers = <<"v1", "v3", "v2">>],
      [AnyTrigger EXCEPT !.action = "verification_plan", !.policy = "unknown",
                         !.contracts = {[valid |-> TRUE, hits |-> {"c"}]}],
      [AnyTrigger EXCEPT !.action = "doctor_safe", !.policy = "silent",
                         !.kinds = {"diagnostic_added"}],
      [AnyTrigger EXCEPT !.kinds = {"diagnostic_added"}, !.complete = TRUE,
                         !.verifiers = <<"v2", "v3">>]>>
=============================================================================
