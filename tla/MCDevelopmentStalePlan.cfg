CONSTANTS
    Contents = {broken, fixed}
    Tests = {t1}
    PlanKinds <- ThreeKinds
    ProviderRuns = 3
SPECIFICATION Spec
SYMMETRY Symmetric
INVARIANT ReboundPlanBound
