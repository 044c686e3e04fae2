\* The violated claim about jobs of old versions.
SPECIFICATION SceneSpec
CONSTANTS
    MaxVersion = 2
    Jobs <- MCJobs
    Mismatched = {}
    Recommenders = {r1}
    MaxAttempts = 2
    MaxStalls = 0
    Askers = {a1}
    Chunks = {c1}
    Invented = {i1}
    Capacity = 1
PROPERTY OldVersionHarmless
CHECK_DEADLOCK FALSE
