\* Two versions, two attempts, no second stall, one recommendation; and three
\* recommendations, two slots, one chunk and one invented source.
SPECIFICATION SceneSpec
CONSTANTS
    MaxVersion = 2
    Jobs <- MCJobs
    Mismatched = {}
    Recommenders = {r1}
    MaxAttempts = 2
    MaxStalls = 0
    Askers = {a1, a2, a3}
    Chunks = {c1}
    Invented = {i1}
    Capacity = 2
INVARIANTS
    WriterIsCurrent
    IndexedHasText
    GroundedOrSilent
    SlotsAreHeld
PROPERTY DeletedIsFinal
CHECK_DEADLOCK FALSE
