--------------------------- MODULE VerifierEvidence ---------------------------
(***************************************************************************)
(* What a micro-verifier's recorded result is evidence of                  *)
(* (micro_verifiers.py): the result _execute records, the dependency       *)
(* envelope its provider declares, and whether the result still holds for  *)
(* the tree as it is.  A tree is a function from documents to identities;  *)
(* a configuration is [raw, policy, environment]: the configuration file,  *)
(* the policy files' content and the values of the declared environment.   *)
(***************************************************************************)
EXTENDS Integers

\* The identities a result is bound to besides its inputs.  Those of the verifier,
\* its provider and its workflow are digests of parts of the configuration.
_material_identities(c) ==
    [configuration_identity |-> c.raw, policy_identity |-> c.policy,
     environment_identity |-> c.environment]

\* The provider declares paths and whether they are all it depends on; Forge adds
\* the identities the paths have once the provider is through.
_dependency_envelope(declared, tree) ==
    [path_identities |-> [u \in declared.paths |-> tree[u]], complete |-> declared.complete]

NoEnvelope == _dependency_envelope([paths |-> {}, complete |-> FALSE], <<>>)

\* The record of a run.
Result(status, envelope, c) ==
    [status |-> status, dependency_envelope |-> envelope, material |-> _material_identities(c)]

\* What a result was obtained on.
Basis(r) == <<r.material, r.dependency_envelope>>

\* _execute, from the provider's answer on: an answer keeps its status and its
\* envelope; an operational failure of any kind is UNKNOWN and depends on nothing
\* known.  Trimming a result to its byte limit touches neither.
Executed(answered, status, declared, c, tree) ==
    IF answered THEN Result(status, _dependency_envelope(declared, tree), c)
    ELSE Result("UNKNOWN", NoEnvelope, c)

\* Bug: the identities recorded with the envelope are not compared.
_freshness_Paths(r, c, candidate, tree) ==
    IF r.material # _material_identities(c) THEN "STALE" ELSE "CURRENT"

\* A result is stale once its material identities or a path of its envelope
\* changed.  Otherwise it is current for the same candidate, and for another one
\* only if the provider declared its envelope complete.
_freshness(r, c, candidate, tree) ==
    LET recorded == r.dependency_envelope.path_identities
    IN  CASE r.material # _material_identities(c) -> "STALE"
          [] \E u \in DOMAIN recorded : tree[u] # recorded[u] -> "STALE"
          [] OTHER -> IF tree = candidate \/ r.dependency_envelope.complete
                      THEN "CURRENT" ELSE "UNKNOWN"

=============================================================================
