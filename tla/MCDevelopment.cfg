CONSTANTS
    Contents = {broken, fixed}
    Tests = {t1}
    PlanKinds <- ThreeKinds
    ProviderRuns = 4
SPECIFICATION Spec
SYMMETRY Symmetric
INVARIANTS VerdictFresh RepairJustified PassSupported ModesAgree
