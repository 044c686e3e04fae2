\* The violated claim about the text of deleted documents.
SPECIFICATION SceneSpec
CONSTANTS
    MaxVersion = 2
    Jobs <- MCJobs
    Mismatched = {}
    Recommenders = {r1}
    MaxAttempts = 2
    MaxStalls = 0
    Askers = {a1}
    Chunks = {c1}
    Invented = {i1}
    Capacity = 1
INVARIANT DeletedHasNoText
CHECK_DEADLOCK FALSE
