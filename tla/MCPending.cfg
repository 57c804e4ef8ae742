SPECIFICATION Spec
SYMMETRY Symmetric
CONSTANTS
    Uris = {a, b}
    a = a
    b = b
    policy1 = policy1
    policy2 = policy2
    Facts <- MCFacts
    Triggers <- MCTriggers
    Cost <- MCCost
    Envelope <- MCEnvelope
    Configs <- MCConfigs
    Batch = 2
    Capacity = 2
    Attention = 2
    MaxEvents = 2
    MaxStarts = 2
    MaxCrashes = 1
INVARIANT PassMeansVerified
INVARIANT NothingForgotten
INVARIANT OneGenerationPerDocument
CHECK_DEADLOCK FALSE
