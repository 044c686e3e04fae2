\* Detection: three events, two detection jobs, three versions of the rule.
\* Incidents: two alerts from two versions of the rule, one detection job, two
\* runs of an incident job, one analyst.
SPECIFICATION SceneSpec
CONSTANTS
    Scenes = {"detection", "incidents"}
    FirstWorker = w1
    Enabled = 2
    Events = {1, 2, 3}
    Matching = {1, 3}
    WindowLimit = 2
    Rules <- MCRules
    Anomalies = {5}
    Workers = {w1, w2}
    Analysts = {p1}
    MaxVersion = 2
    MaxRuns = 2
    None = None
INVARIANTS
    OccurrencesAreEvents
    BurstRaisesAlert
    OneIncident
    ManualIncidentIsComplete
PROPERTIES
    DecisionsAreKept
    DecidedAsSeen
    AnnouncedSevereGetsIncident
CHECK_DEADLOCK FALSE
