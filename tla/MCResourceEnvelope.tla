-------------------------- MODULE MCResourceEnvelope --------------------------
EXTENDS ResourceEnvelope, TLC

MCHostMemory == {128, 4096}
MCFreeMemory == {600, 2048}
Bad == {[num |-> FALSE, v |-> 0]}
Defaults == [f \in PolicyFields |-> {}]
\* An ill-typed maximum (ignored) and an ill-typed task limit (rejected).
MCSettings == {[Defaults EXCEPT !["max"] = Bad], [Defaults EXCEPT !["tasks"] = Bad]}
=============================================================================
