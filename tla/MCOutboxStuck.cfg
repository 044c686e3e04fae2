\* The violated claim about unconfirmed rows.
SPECIFICATION Spec
CONSTANTS
    e1 = e1
    e2 = e2
    e3 = e3
    j1 = j1
    d1 = d1
    d2 = d2
    Events = {e1, e3}
    Jobs = {j1}
    Dispatchers = {d1, d2}
    Unroutable = {e3}
    JobOf <- MCJobOf
    Age <- MCAge2
    MaxRetry = 2
    Limit = 1
    None = None
    MaxAttempts = 2
    MaxStalls = 1
INVARIANT UnconfirmedBecomesEligible
CHECK_DEADLOCK FALSE
