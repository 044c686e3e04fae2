\* The HIGH rule, whose alert turns severe after its job ran.
SPECIFICATION SceneSpec
CONSTANTS
    Scenes = {"rising"}
    FirstWorker = w1
    Enabled = 1
    Events = {1, 2, 3}
    Matching = {1, 2, 3}
    WindowLimit = 3
    Rules <- MCRisingRules
    Anomalies = {5}
    Workers = {w1}
    Analysts = {p1}
    MaxVersion = 0
    MaxRuns = 2
    None = None
PROPERTY SevereGetsIncident
CHECK_DEADLOCK FALSE
