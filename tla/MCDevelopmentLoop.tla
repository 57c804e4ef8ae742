------------------------- MODULE MCDevelopmentLoop -------------------------
(* Small instances of DevelopmentLoop for TLC. *)
EXTENDS DevelopmentLoop, TLC

\* The loop compares contents and test identities for equality only.
Symmetric == Permutations(Contents) \cup Permutations(Tests)

\* A plan that needs no proof, one that needs a proof it does not route, one that
\* is routed to the selected repositories.
ThreeKinds == {[sufficient_to_stop |-> TRUE, selected_repositories |-> FALSE],
               [sufficient_to_stop |-> FALSE, selected_repositories |-> FALSE],
               [sufficient_to_stop |-> FALSE, selected_repositories |-> TRUE]}
=============================================================================
