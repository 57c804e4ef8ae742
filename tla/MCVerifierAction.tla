-------------------------- MODULE MCVerifierAction --------------------------
(* Two processes, two actions.                                             *)
EXTENDS VerifierAction

CONSTANTS p1, p2, a1, a2

TwoProcesses == {p1, p2}
MCActions == {a1, a2}
=============================================================================
