\* Outbox: two rows for one job, batches of two.
\* Incident: two racing transitions, four API versions, one run, differing
\* clocks.
SPECIFICATION SceneSpec
CONSTANTS
    e1 = e1
    e2 = e2
    e3 = e3
    j1 = j1
    d1 = d1
    d2 = d2
    Events = {e1, e2}
    Jobs = {j1}
    Dispatchers = {d1, d2}
    Unroutable = {}
    JobOf <- MCJobOf
    Age <- MCAge
    MaxRetry = 2
    Limit = 2
    None = None
    MaxAttempts = 2
    MaxStalls = 1
    Clients = {c1, c2}
    MaxVersion = 4
    MaxRuns = 1
    MaxLag = 0
    Skewed = TRUE
SYMMETRY Symmetries
VIEW View
INVARIANTS
    PublishedNotLost
    FailedOnlyAtLimit
    ClosedIsAnalysed
    StampsAgree
    ResponseBreachIsReal
PROPERTY ImplementsContract
CHECK_DEADLOCK FALSE
