\* One notification asked for twice, with two workers; a routable and an
\* unroutable row, with two dispatchers; one transition of an incident in
\* flight and exact clocks; two versions of a document, the second with the
\* wrong provider.
SPECIFICATION SceneFairSpec
CONSTANTS
    None = None
    Jobs = {n1}
    Workers = {w1, w2}
    MaxRequests = 2
    MaxAttempts = 2
    MaxStalls = 1
    j1 = j1
    e1 = e1
    e3 = e3
    Events = {e1, e3}
    OutboxJobs = {j1}
    Dispatchers = {d1, d2}
    Unroutable = {e3}
    JobOf <- MCJobOf
    Age <- MCAge
    MaxRetry = 2
    Limit = 1
    Clients = {c1}
    MaxIncidentVersion = 2
    MaxLag = 0
    MaxRuns = 2
    Skewed = FALSE
    Documents = {1, 2}
    MaxDocumentVersion = 2
    Mismatched = {2}
    Recommenders = {}
INVARIANT DeliveryBookedOnce
PROPERTIES
    RequestedIsSent
    RowSettlesOrRunsOut
    PublishedIsProcessed
    OverdueResponseMarked
    VersionGetsIndexed
CHECK_DEADLOCK FALSE
