------------------------------- MODULE Alerts -------------------------------
(***************************************************************************)
(* Detection of alerts and their escalation to incidents: the detection    *)
(* worker (detection.processor.ts, detection-policy.ts), the incident      *)
(* worker's fromAlert() (incident.processor.ts), and the API's commands on *)
(* alerts and rules (prisma-detection.repository.ts) and its manual        *)
(* incidents (prisma-incident.repository.ts).                              *)
(*                                                                         *)
(* One rule is followed through its versions, with one correlation key and *)
(* one deduplication bucket, so that a version has at most one alert and   *)
(* the two share a number.  Every event is a batch of its own and lies     *)
(* within the rule's window; the events that match the condition share the *)
(* correlation key, whatever the version.  Events are numbered in the      *)
(* order of occurred_at, and arrive in any order.                          *)
(*                                                                         *)
(* BullMQ delivers a batch at least once, possibly to two workers at the   *)
(* same time: a worker may take any event that has arrived.                *)
(***************************************************************************)
EXTENDS Integers, Sequences, FiniteSets

CONSTANTS
    Events,      \* normalized events, numbered by occurred_at
    Matching,    \* those that match the rule's condition
    WindowLimit, \* events of a window that a rule looks at: LIMIT 10001
    Rules,       \* the versions of the rule: severity, threshold, enabled
    Anomalies,   \* anomaly scores an event can get
    Workers,     \* detection jobs running at a time
    Analysts,    \* people who send commands
    MaxVersion,  \* bound on the versions of an alert that people decide on
    MaxRuns,     \* runs of an incident job: five attempts, one more after a stall
    None         \* nothing

Alerts == 1..Len(Rules)

SeverityScore == [INFO |-> 10, LOW |-> 25, MEDIUM |-> 50, HIGH |-> 75, CRITICAL |-> 95]

RuleType ==
    [severity: {"INFO", "LOW", "MEDIUM", "HIGH", "CRITICAL"},
     threshold: Nat \ {0}, enabled: BOOLEAN]

ASSUME AlertsAssumption ==
    /\ Events \subseteq Nat /\ IsFiniteSet(Events)
    /\ Matching \subseteq Events
    /\ WindowLimit \in Nat \ {0}
    /\ MaxRuns \in Nat \ {0}
    /\ Rules \in Seq(RuleType)
    /\ Rules # <<>>
    /\ Anomalies \subseteq 0..10
    /\ MaxVersion \in Nat

VARIABLES
    arrived,     \* normalized_events, in the order of their commits
    current,     \* detection_rules.version
    worker,      \* per detection job: what it has counted, before it writes
    executions,  \* rule_executions, <<event, rule version>>
    alert,       \* the alerts' rows
    lapsed,      \* alerts whose suppressed_until has passed
    job,         \* per alert: its create-incident-from-alert job, outbox row included
    runs,        \* per alert: runs of that job that have failed
    links,       \* incident_alerts: the incidents of each alert, by creator
    draft,       \* per analyst: the alerts of the incident being created
    created,     \* analysts whose incident is committed
    decision     \* per analyst: a triage or suppression not yet written

detection == <<arrived, current, worker, executions>>
work      == <<job, runs>>
incident  == <<work, links, draft, created>>
vars      == <<detection, alert, lapsed, incident, decision>>

Statuses == {"OPEN", "ACKNOWLEDGED", "SUPPRESSED", "CLOSED"}
Rows     == [status: Statuses, occurrences: Nat, risk: Nat, events: SUBSET Events, version: Nat]
Counted  == [event: Events, rule: Alerts, observed: Nat, risk: Nat]
Decided  == [alert: Alerts, seen: Rows, to: Statuses \ {"OPEN"}]
Creators == Analysts \cup {"auto"}

ASSUME NoneAssumption == None \notin Rows \cup Counted \cup Decided /\ "auto" \notin Analysts

Exists(a) == alert[a] # None

TypeOK ==
    /\ arrived \in Seq(Events)
    /\ current \in Alerts
    /\ worker \in [Workers -> Counted \cup {None}]
    /\ executions \subseteq Events \X Alerts
    /\ alert \in [Alerts -> Rows \cup {None}]
    /\ lapsed \subseteq {a \in Alerts : Exists(a) /\ alert[a].status = "SUPPRESSED"}
    /\ job \in [Alerts -> {"none", "queued", "creating", "done", "failed"}]
    /\ runs \in [Alerts -> 0..MaxRuns]
    /\ links \in [Alerts -> SUBSET Creators]
    /\ draft \in [Analysts -> SUBSET Alerts]
    /\ created \subseteq Analysts
    /\ decision \in [Analysts -> Decided \cup {None}]

Init ==
    /\ arrived = <<>>
    /\ current = 1
    /\ worker = [w \in Workers |-> None]
    /\ executions = {}
    /\ alert = [a \in Alerts |-> None]
    /\ lapsed = {}
    /\ job = [a \in Alerts |-> "none"]
    /\ runs = [a \in Alerts |-> 0]
    /\ links = [a \in Alerts |-> {}]
    /\ draft = [p \in Analysts |-> {}]
    /\ created = {}
    /\ decision = [p \in Analysts |-> None]

----------------------------------------------------------------------------
(* Detection.                                                              *)

Arrived == {arrived[i] : i \in 1..Len(arrived)}

(* The ingestion worker commits a batch and its outbox row.                *)
Arrive(e) ==
    /\ e \notin Arrived
    /\ arrived' = Append(arrived, e)
    /\ UNCHANGED <<current, worker, executions, alert, lapsed, incident, decision>>

(* mutateRule(): an edit or a switch makes a new version.                  *)
EditRule ==
    /\ current < Len(Rules)
    /\ current' = current + 1
    /\ UNCHANGED <<arrived, worker, executions, alert, lapsed, incident, decision>>

Least(m, n)    == IF m < n THEN m ELSE n
Greatest(m, n) == IF m > n THEN m ELSE n

(* riskScore() of AnomalyScoringPolicy.                                    *)
RiskScore(severity, observed, threshold, anomaly) ==
    Least(100, SeverityScore[severity] + Least(15, Greatest(0, observed - threshold) * 3)
               + Least(10, anomaly * 2))

(* The committed events of the window that ends at e, and what is left of  *)
(* them by ORDER BY occurred_at DESC LIMIT, before the rule sees them.     *)
Window(e) == {d \in Arrived : d <= e}
Newest(S) == {d \in S : Cardinality({x \in S : d <= x}) <= WindowLimit}

\* A plausible defect: the event itself is left out of its window.
CountBefore(e) == Cardinality({d \in Newest(Window(e)) \cap Matching : d < e})

(* countMatches(), which is called for an event that matches.              *)
CountMatches(e) == Cardinality(Newest(Window(e)) \cap Matching)

Observed(e) == IF e \in Matching THEN CountMatches(e) ELSE 0

(* findRules(), scoreAnomaly() and countMatches(): every statement reads   *)
(* what is committed by then, and nothing read here is locked.             *)
Count(w, e) ==
    /\ worker[w] = None
    /\ e \in Arrived
    /\ Rules[current].enabled
    /\ \E anomaly \in Anomalies :
         worker' = [worker EXCEPT ![w] =
           [event |-> e, rule |-> current, observed |-> Observed(e),
            risk |-> RiskScore(Rules[current].severity, Observed(e),
                               Rules[current].threshold, anomaly)]]
    /\ UNCHANGED <<arrived, current, executions, alert, lapsed, incident, decision>>

Reopens(a) == alert[a].status = "SUPPRESSED" /\ a \in lapsed

\* A plausible defect: an occurrence does not count the version up.
UpsertedSilently(a, e, risk) ==
    IF ~Exists(a)
    THEN [status |-> "OPEN", occurrences |-> 1, risk |-> risk, events |-> {e}, version |-> 1]
    ELSE [status |-> IF Reopens(a) THEN "OPEN" ELSE alert[a].status,
          occurrences |-> alert[a].occurrences + 1, risk |-> Greatest(alert[a].risk, risk),
          events |-> alert[a].events \cup {e}, version |-> alert[a].version]

(* INSERT INTO alerts ... ON CONFLICT DO UPDATE, and the alert_events row. *)
Upserted(a, e, risk) ==
    IF ~Exists(a)
    THEN [status |-> "OPEN", occurrences |-> 1, risk |-> risk, events |-> {e}, version |-> 1]
    ELSE [status |-> IF Reopens(a) THEN "OPEN" ELSE alert[a].status,
          occurrences |-> alert[a].occurrences + 1, risk |-> Greatest(alert[a].risk, risk),
          events |-> alert[a].events \cup {e}, version |-> alert[a].version + 1]

(* suppressed_until is set to NULL when an alert reopens, and by a triage. *)
Cleared(a) == lapsed \ {a}

\* A plausible defect: a redelivered event is executed again.
NewAlways(e, v) == TRUE

(* ON CONFLICT DO NOTHING on rule_executions.                              *)
New(e, v) == <<e, v>> \notin executions

(* The rest of the job's transaction.  Only a new alert is announced.      *)
Execute(w) ==
    LET c == worker[w]
        a == c.rule
    IN  /\ c # None
        /\ worker' = [worker EXCEPT ![w] = None]
        /\ executions' = executions \cup {<<c.event, a>>}
        /\ IF New(c.event, a) /\ c.observed >= Rules[a].threshold
           THEN /\ alert' = [alert EXCEPT ![a] = Upserted(a, c.event, c.risk)]
                /\ lapsed' = Cleared(a)
                /\ job' = IF Exists(a) THEN job ELSE [job EXCEPT ![a] = "queued"]
           ELSE UNCHANGED <<alert, lapsed, job>>
        /\ UNCHANGED <<arrived, current, runs, links, draft, created, decision>>

(* The job fails or its worker dies: the transaction is rolled back.       *)
Abandon(w) ==
    /\ worker[w] # None
    /\ worker' = [worker EXCEPT ![w] = None]
    /\ UNCHANGED <<arrived, current, executions, alert, lapsed, incident, decision>>

----------------------------------------------------------------------------
(* Incidents.                                                              *)

(* shouldCreateAutomatically() of IncidentLifecyclePolicy.                 *)
ShouldCreate(severity, risk) == severity = "CRITICAL" \/ risk >= 90

(* A row in another status, one version later.                             *)
InStatus(row, status) ==
    [status |-> status, occurrences |-> row.occurrences, risk |-> row.risk,
     events |-> row.events, version |-> row.version + 1]

\* A plausible defect: UPDATE alerts without its status = 'OPEN'.
AcknowledgedAnyway(a) == InStatus(alert[a], "ACKNOWLEDGED")

(* What creating an incident does to the row of its alert.                 *)
Acknowledged(a) ==
    IF alert[a].status = "OPEN" THEN InStatus(alert[a], "ACKNOWLEDGED") ELSE alert[a]

(* fromAlert() under the advisory lock of the alert: it reads the link and *)
(* the alert's row, which it does not lock.                                *)
Judge(a) ==
    /\ job[a] = "queued"
    /\ job' = [job EXCEPT ![a] =
         IF links[a] = {} /\ ShouldCreate(Rules[a].severity, alert[a].risk)
         THEN "creating" ELSE "done"]
    /\ UNCHANGED <<detection, alert, lapsed, runs, links, draft, created, decision>>

\* A plausible defect: incident_alerts without incident_alerts_org_alert_key.
UnlinkedNever(S) == TRUE

(* The unique index incident_alerts_org_alert_key.                         *)
Unlinked(S) == \A a \in S : links[a] = {}

\* A plausible defect: the error of a run is logged and not thrown again.
RunSwallowed(a) ==
    /\ job' = [job EXCEPT ![a] = "done"]
    /\ UNCHANGED runs

(* A run fails: the job is tried again or, after the last attempt or a     *)
(* second stall, stays in the failed set.                                  *)
RunFails(a) ==
    /\ runs' = [runs EXCEPT ![a] = @ + 1]
    /\ \/ runs[a] + 1 < MaxRuns /\ job' = [job EXCEPT ![a] = "queued"]
       \/ job' = [job EXCEPT ![a] = "failed"]

(* It creates the incident, links and acknowledges the alert.  The reply   *)
(* of the COMMIT may be lost.                                              *)
AutoCreate(a) ==
    /\ job[a] = "creating"
    /\ Unlinked({a})
    /\ links' = [links EXCEPT ![a] = @ \cup {"auto"}]
    /\ alert' = [alert EXCEPT ![a] = Acknowledged(a)]
    /\ \/ job' = [job EXCEPT ![a] = "done"] /\ UNCHANGED runs
       \/ RunFails(a)
    /\ UNCHANGED <<detection, lapsed, draft, created, decision>>

(* The run writes nothing: the index refuses it, or it fails otherwise.    *)
Retry(a) ==
    /\ job[a] \in {"queued", "creating"}
    /\ RunFails(a)
    /\ UNCHANGED <<detection, alert, lapsed, links, draft, created, decision>>

(* The outbox or BullMQ delivers the job once more.                        *)
Redeliver(a) ==
    /\ job[a] \in {"done", "failed"}
    /\ job' = [job EXCEPT ![a] = "queued"]
    /\ runs' = [runs EXCEPT ![a] = 0]
    /\ UNCHANGED <<detection, alert, lapsed, links, draft, created, decision>>

Run(a) == Judge(a) \/ AutoCreate(a) \/ Retry(a)

(* createIncident(): the alerts are read and none is linked.               *)
Draft(p) ==
    /\ p \notin created /\ draft[p] = {}
    /\ \E S \in SUBSET {a \in Alerts : Exists(a) /\ links[a] = {}} :
         /\ S # {}
         /\ draft' = [draft EXCEPT ![p] = S]
    /\ UNCHANGED <<detection, alert, lapsed, work, links, created, decision>>

\* A plausible defect: createMany skips the alerts that are linked already.
CreateSkipping(p) ==
    /\ p \notin created /\ draft[p] # {}
    /\ links' = [a \in Alerts |-> IF a \in draft[p] /\ links[a] = {} THEN {p} ELSE links[a]]
    /\ alert' = [a \in Alerts |-> IF a \in draft[p] THEN Acknowledged(a) ELSE alert[a]]
    /\ created' = created \cup {p}
    /\ UNCHANGED <<detection, lapsed, work, draft, decision>>

(* It links them all and acknowledges those that are open.                 *)
Create(p) ==
    /\ p \notin created /\ draft[p] # {}
    /\ Unlinked(draft[p])
    /\ links' = [a \in Alerts |-> IF a \in draft[p] THEN links[a] \cup {p} ELSE links[a]]
    /\ alert' = [a \in Alerts |-> IF a \in draft[p] THEN Acknowledged(a) ELSE alert[a]]
    /\ created' = created \cup {p}
    /\ UNCHANGED <<detection, lapsed, work, draft, decision>>

(* The index refuses it, or it fails otherwise.                            *)
Discard(p) ==
    /\ p \notin created /\ draft[p] # {}
    /\ draft' = [draft EXCEPT ![p] = {}]
    /\ UNCHANGED <<detection, alert, lapsed, work, links, created, decision>>

----------------------------------------------------------------------------
(* Triage and suppression.                                                 *)

(* An analyst looks at an alert and sends triageAlert() or suppressAlert() *)
(* with its version.                                                       *)
Send(p, a, to) ==
    /\ decision[p] = None
    /\ Exists(a) /\ alert[a].version < MaxVersion
    /\ decision' = [decision EXCEPT ![p] = [alert |-> a, seen |-> alert[a], to |-> to]]
    /\ UNCHANGED <<detection, alert, lapsed, incident>>

(* updateAlert(): WHERE version = the version sent.                        *)
Decide(p) ==
    LET d == decision[p]
        a == d.alert
    IN  /\ d # None
        /\ alert[a].version = d.seen.version
        /\ alert' = [alert EXCEPT ![a] = InStatus(alert[a], d.to)]
        /\ lapsed' = Cleared(a)
        /\ decision' = [decision EXCEPT ![p] = None]
        /\ UNCHANGED <<detection, incident>>

(* A conflict, or the request is lost.                                     *)
Reject(p) ==
    /\ decision[p] # None
    /\ decision' = [decision EXCEPT ![p] = None]
    /\ UNCHANGED <<detection, alert, lapsed, incident>>

(* suppressed_until passes; no row changes.                                *)
Lapse(a) ==
    /\ Exists(a) /\ alert[a].status = "SUPPRESSED" /\ a \notin lapsed
    /\ lapsed' = lapsed \cup {a}
    /\ UNCHANGED <<detection, alert, incident, decision>>

----------------------------------------------------------------------------
Next ==
    \/ \E e \in Events : Arrive(e)
    \/ EditRule
    \/ \E w \in Workers : (\E e \in Events : Count(w, e)) \/ Execute(w) \/ Abandon(w)
    \/ \E a \in Alerts : Run(a) \/ Redeliver(a) \/ Lapse(a)
    \/ \E p \in Analysts : Draft(p) \/ Create(p) \/ Discard(p) \/ Decide(p) \/ Reject(p)
    \/ \E p \in Analysts, a \in Alerts, to \in Statuses \ {"OPEN"} : Send(p, a, to)

Spec == Init /\ [][Next]_vars

(* The incident worker runs what is queued; every run ends, well or badly. *)
Fairness == \A a \in Alerts : WF_vars(Run(a))

FairSpec == Spec /\ Fairness

----------------------------------------------------------------------------
(* Redelivered and concurrent detection jobs count every event once: the   *)
(* number of occurrences an analyst reads is that of the events linked.    *)
OccurrencesAreEvents ==
    \A a \in Alerts : Exists(a) => alert[a].occurrences = Cardinality(alert[a].events)

(* An event that completes a burst when it arrives belongs to the alert    *)
(* once it is executed, whatever arrives or is executed in between: as     *)
(* many matching events as the threshold demands had arrived up to its own *)
(* time, and the window has no more events than a rule looks at.  (An      *)
(* event that arrives late completes the bursts that end with it, not      *)
(* those of later events.)                                                 *)
BurstRaisesAlert ==
    \A a \in Alerts, i \in 1..Len(arrived) :
      /\ <<arrived[i], a>> \in executions
      /\ arrived[i] \in Matching
      /\ Cardinality({j \in 1..i : arrived[j] \in Matching /\ arrived[j] <= arrived[i]})
           >= Rules[a].threshold
      /\ Cardinality(Window(arrived[i])) <= WindowLimit
      => Exists(a) /\ arrived[i] \in alert[a].events

(* An alert has at most one incident, although the worker's lock does not  *)
(* keep the API out.                                                       *)
OneIncident == \A a \in Alerts : Cardinality(links[a]) <= 1

(* An incident created by hand has all the alerts it was asked for.        *)
ManualIncidentIsComplete == \A p \in created : \A a \in draft[p] : p \in links[a]

Severe(a) == Exists(a) /\ (Rules[a].severity = "CRITICAL" \/ alert[a].risk >= 90)

(* An incident nobody asked for comes from an alert that is still severe.  *)
AutoIncidentIsSevere == \A a \in Alerts : "auto" \in links[a] => Severe(a)

(* The workers and the creation of incidents leave what people decided:    *)
(* they acknowledge open alerts and reopen lapsed suppressions, no more.   *)
DecisionsAreKept ==
    [][\A a \in Alerts :
         Exists(a) /\ alert'[a].status # alert[a].status /\ decision' = decision =>
           \/ alert[a].status = "OPEN" /\ alert'[a].status = "ACKNOWLEDGED"
           \/ Reopens(a) /\ alert'[a].status = "OPEN"]_vars

(* Nobody closes or silences what they have not seen: the occurrences,     *)
(* risk and status of the row are those the analyst decided on.            *)
DecidedAsSeen ==
    [][\A p \in Analysts :
         Decide(p) => alert[decision[p].alert] = decision[p].seen]_vars

(* An alert that is severe while its job waits gets an incident, unless    *)
(* the job ends in the failed set, which nobody takes up again.            *)
AnnouncedSevereGetsIncident ==
    \A a \in Alerts :
      (job[a] = "queued" /\ Severe(a)) ~> (links[a] # {} \/ job[a] = "failed")

(* What ADR 0008 says: a critical alert, or one of risk 90 or more,        *)
(* creates an incident.  Even where the failed set excuses it, the code    *)
(* breaks it: only a new alert is announced, and one whose risk passes 90  *)
(* after its job has run is never judged again.                            *)
SevereGetsIncident ==
    \A a \in Alerts : Severe(a) ~> (links[a] # {} \/ job[a] = "failed")
=============================================================================
