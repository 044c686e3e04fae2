---------------------------- MODULE AlertsProofs ----------------------------
(***************************************************************************)
(* Proofs about Alerts, for any events, rule versions, workers, analysts.  *)
(*                                                                         *)
(* TypeInv carries the types and what exists; each property then has an    *)
(* invariant of its own, preserved by every step from a state of TypeInv.  *)
(***************************************************************************)
EXTENDS Alerts, FiniteSetTheorems, TLAPS

(* What is judged, drafted or decided on is an alert that exists, and a    *)
(* job that will run has a run left.                                       *)
TypeInv ==
    /\ TypeOK
    /\ \A a \in Alerts : job[a] # "none" => Exists(a)
    /\ \A a \in Alerts : job[a] # "failed" => runs[a] < MaxRuns
    /\ \A p \in Analysts : \A a \in draft[p] : Exists(a)
    /\ \A p \in Analysts : decision[p] # None => Exists(decision[p].alert)

USE AlertsAssumption, NoneAssumption

LEMMA RuleTyped ==
    ASSUME NEW a \in Alerts
    PROVE  Rules[a] \in RuleType
  BY DEF Alerts

LEMMA RiskIsNat ==
    ASSUME NEW severity \in {"INFO", "LOW", "MEDIUM", "HIGH", "CRITICAL"},
           NEW observed \in Nat, NEW threshold \in Nat, NEW anomaly \in 0..10
    PROVE  RiskScore(severity, observed, threshold, anomaly) \in Nat
  <1>1. SeverityScore[severity] \in Nat
    BY DEF SeverityScore
  <1> QED
    BY <1>1 DEF RiskScore, Least, Greatest

LEMMA ArrivedFinite ==
    ASSUME arrived \in Seq(Events)
    PROVE  Arrived \subseteq Events /\ IsFiniteSet(Arrived)
  <1>1. Arrived \subseteq Events
    BY DEF Arrived
  <1> QED
    BY <1>1, FS_Subset

LEMMA WindowFinite ==
    ASSUME arrived \in Seq(Events), NEW e
    PROVE  /\ Newest(Window(e)) \subseteq Window(e) /\ Window(e) \subseteq Arrived
           /\ IsFiniteSet(Window(e)) /\ IsFiniteSet(Newest(Window(e)) \cap Matching)
  <1>1. Newest(Window(e)) \subseteq Window(e) /\ Window(e) \subseteq Arrived
    BY DEF Newest, Window
  <1> QED
    BY <1>1, ArrivedFinite, FS_Subset

LEMMA ObservedIsNat ==
    ASSUME arrived \in Seq(Events), NEW e
    PROVE  Observed(e) \in Nat
  BY WindowFinite, FS_CardinalityType DEF Observed, CountMatches

LEMMA TypeInit == Init => TypeInv
  BY DEF Init, TypeInv, TypeOK, Alerts

----------------------------------------------------------------------------
(* Types.                                                                  *)

LEMMA UpsertedTyped ==
    ASSUME TypeInv, NEW a \in Alerts, NEW e \in Events, NEW risk \in Nat
    PROVE  Upserted(a, e, risk) \in Rows
  <1> USE DEF TypeInv, TypeOK, Exists
  <1>1. CASE alert[a] = None
    BY <1>1 DEF Upserted, Rows, Statuses
  <1>2. CASE alert[a] # None
    <2>1. alert[a] \in Rows
      BY <1>2
    <2> QED
      BY <1>2, <2>1 DEF Upserted, Rows, Statuses, Greatest
  <1> QED
    BY <1>1, <1>2

LEMMA InStatusTyped ==
    ASSUME NEW r \in Rows, NEW s \in Statuses
    PROVE  InStatus(r, s) \in Rows
  BY DEF InStatus, Rows

LEMMA AcknowledgedTyped ==
    ASSUME TypeInv, NEW a \in Alerts, Exists(a)
    PROVE  /\ Acknowledged(a) \in Rows
           /\ alert[a].status = "SUPPRESSED" => Acknowledged(a) = alert[a]
  <1>1. alert[a] \in Rows
    BY DEF TypeInv, TypeOK, Exists
  <1> QED
    BY <1>1, InStatusTyped DEF Acknowledged, Statuses

LEMMA TypeDetection ==
    ASSUME TypeInv,
           \/ \E e \in Events : Arrive(e)
           \/ EditRule
           \/ \E w \in Workers : Abandon(w)
    PROVE  TypeInv'
  <1> USE DEF TypeInv, TypeOK, Exists, incident, work
  <1>1. ASSUME NEW e \in Events, Arrive(e)
        PROVE  TypeInv'
    BY <1>1 DEF Arrive
  <1>2. CASE EditRule
    BY <1>2 DEF EditRule, Alerts
  <1>3. ASSUME NEW w \in Workers, Abandon(w)
        PROVE  TypeInv'
    BY <1>3 DEF Abandon
  <1> QED
    BY <1>1, <1>2, <1>3

LEMMA TypeCount ==
    ASSUME TypeInv, NEW w \in Workers, NEW e \in Events, Count(w, e)
    PROVE  TypeInv'
  <1> USE DEF TypeInv, TypeOK, Exists, incident, work
  <1>1. PICK anomaly \in Anomalies :
          worker' = [worker EXCEPT ![w] =
            [event |-> e, rule |-> current, observed |-> Observed(e),
             risk |-> RiskScore(Rules[current].severity, Observed(e),
                                Rules[current].threshold, anomaly)]]
    BY DEF Count
  <1>2. Observed(e) \in Nat
    BY ObservedIsNat
  <1>3. RiskScore(Rules[current].severity, Observed(e), Rules[current].threshold, anomaly) \in Nat
    BY <1>2, RiskIsNat, RuleTyped DEF RuleType
  <1>4. worker' \in [Workers -> Counted \cup {None}]
    BY <1>1, <1>2, <1>3 DEF Counted
  <1> QED
    BY <1>4 DEF Count

LEMMA TypeExecute ==
    ASSUME TypeInv, NEW w \in Workers, Execute(w)
    PROVE  TypeInv'
  <1> USE DEF TypeInv, TypeOK, Exists
  <1> DEFINE c == worker[w]
  <1>1. c \in Counted
    BY DEF Execute
  <1>2. c.event \in Events /\ c.rule \in Alerts /\ c.risk \in Nat
    BY <1>1 DEF Counted
  <1>3. /\ worker' \in [Workers -> Counted \cup {None}]
        /\ executions' \subseteq Events \X Alerts
        /\ UNCHANGED <<arrived, current, runs, links, draft, created, decision>>
    BY <1>2 DEF Execute
  <1>4. CASE New(c.event, c.rule) /\ c.observed >= Rules[c.rule].threshold
    <2>1. /\ alert' = [alert EXCEPT ![c.rule] = Upserted(c.rule, c.event, c.risk)]
          /\ lapsed' = lapsed \ {c.rule}
          /\ job' = IF Exists(c.rule) THEN job ELSE [job EXCEPT ![c.rule] = "queued"]
      BY <1>4 DEF Execute, Cleared
    <2>2. Upserted(c.rule, c.event, c.risk) \in Rows
      BY <1>2, UpsertedTyped
    <2> QED
      BY <1>2, <1>3, <2>1, <2>2
  <1>5. CASE ~(New(c.event, c.rule) /\ c.observed >= Rules[c.rule].threshold)
    BY <1>3, <1>5 DEF Execute
  <1> QED
    BY <1>4, <1>5

(* A run that fails keeps the job's types and leaves it a run, or none.    *)
LEMMA RunFailsTyped ==
    ASSUME TypeInv, NEW a \in Alerts, RunFails(a), job[a] \in {"queued", "creating"}
    PROVE  /\ job' \in [Alerts -> {"none", "queued", "creating", "done", "failed"}]
           /\ runs' \in [Alerts -> 0..MaxRuns]
           /\ \A b \in Alerts : job'[b] # "none" => Exists(b)
           /\ \A b \in Alerts : job'[b] # "failed" => runs'[b] < MaxRuns
  BY DEF TypeInv, TypeOK, RunFails

LEMMA TypeIncident ==
    ASSUME TypeInv, NEW a \in Alerts,
           Run(a) \/ Redeliver(a) \/ Lapse(a)
    PROVE  TypeInv'
  <1> USE DEF TypeInv, TypeOK, Exists, detection, incident, work
  <1>1. CASE Judge(a)
    BY <1>1 DEF Judge
  <1>2. CASE AutoCreate(a)
    <2>1. Exists(a)
      BY <1>2 DEF AutoCreate
    <2>2. alert' = [alert EXCEPT ![a] = Acknowledged(a)] /\ lapsed' = lapsed
      BY <1>2 DEF AutoCreate
    <2>3. alert' \in [Alerts -> Rows \cup {None}] /\ \A b \in Alerts : Exists(b) => alert'[b] # None
      BY <2>1, <2>2, AcknowledgedTyped
    <2>4. lapsed' \subseteq {b \in Alerts : alert'[b] # None /\ alert'[b].status = "SUPPRESSED"}
      BY <2>1, <2>2, <2>3, AcknowledgedTyped
    <2>5. links' \in [Alerts -> SUBSET Creators]
      BY <1>2 DEF AutoCreate, Creators
    <2>6. /\ job' \in [Alerts -> {"none", "queued", "creating", "done", "failed"}]
          /\ runs' \in [Alerts -> 0..MaxRuns]
          /\ \A b \in Alerts : job'[b] # "none" => Exists(b)
          /\ \A b \in Alerts : job'[b] # "failed" => runs'[b] < MaxRuns
      BY <1>2, RunFailsTyped DEF AutoCreate
    <2>7. UNCHANGED <<arrived, current, worker, executions, draft, created, decision>>
      BY <1>2 DEF AutoCreate
    <2>8. TypeOK'
      BY <2>3, <2>4, <2>5, <2>6, <2>7
    <2>9. \A q \in Analysts : \A b \in draft'[q] : alert'[b] # None
      BY <2>3, <2>7
    <2>10. \A q \in Analysts : decision'[q] # None => alert'[decision'[q].alert] # None
      BY <2>3, <2>7 DEF Decided
    <2>11. \A b \in Alerts : job'[b] # "none" => alert'[b] # None
      BY <2>3, <2>6
    <2> QED
      BY <2>6, <2>8, <2>9, <2>10, <2>11
  <1>3. CASE Retry(a)
    BY <1>3, RunFailsTyped DEF Retry
  <1>4. CASE Redeliver(a)
    BY <1>4 DEF Redeliver
  <1>5. CASE Lapse(a)
    BY <1>5 DEF Lapse
  <1> QED
    BY <1>1, <1>2, <1>3, <1>4, <1>5 DEF Run

LEMMA TypeManual ==
    ASSUME TypeInv, NEW p \in Analysts, Draft(p) \/ Create(p) \/ Discard(p)
    PROVE  TypeInv'
  <1> USE DEF TypeInv, TypeOK, Exists, detection, work
  <1>1. CASE Draft(p)
    <2>1. PICK S \in SUBSET {a \in Alerts : Exists(a) /\ links[a] = {}} :
            draft' = [draft EXCEPT ![p] = S]
      BY <1>1 DEF Draft
    <2> QED
      BY <1>1, <2>1 DEF Draft
  <1>2. CASE Create(p)
    <2>1. alert' = [a \in Alerts |-> IF a \in draft[p] THEN Acknowledged(a) ELSE alert[a]]
      BY <1>2 DEF Create
    <2>2. alert' \in [Alerts -> Rows \cup {None}] /\ \A b \in Alerts : Exists(b) => alert'[b] # None
      BY <2>1, AcknowledgedTyped
    <2>3. lapsed' \subseteq {b \in Alerts : alert'[b] # None /\ alert'[b].status = "SUPPRESSED"}
      BY <1>2, <2>1, <2>2, AcknowledgedTyped DEF Create
    <2>4. links' \in [Alerts -> SUBSET Creators]
      BY <1>2 DEF Create, Creators
    <2>5. UNCHANGED <<detection, work, draft, decision>> /\ created' = created \cup {p}
      BY <1>2 DEF Create
    <2> QED
      BY <2>2, <2>3, <2>4, <2>5 DEF Decided
  <1>3. CASE Discard(p)
    BY <1>3 DEF Discard
  <1> QED
    BY <1>1, <1>2, <1>3

LEMMA TypeDecision ==
    ASSUME TypeInv, NEW p \in Analysts,
           \/ \E a \in Alerts, to \in Statuses \ {"OPEN"} : Send(p, a, to)
           \/ Decide(p)
           \/ Reject(p)
    PROVE  TypeInv'
  <1> USE DEF TypeInv, TypeOK, Exists, detection, incident, work
  <1>1. ASSUME NEW a \in Alerts, NEW to \in Statuses \ {"OPEN"}, Send(p, a, to)
        PROVE  TypeInv'
    <2>1. [alert |-> a, seen |-> alert[a], to |-> to] \in Decided
      BY <1>1 DEF Send, Decided
    <2> QED
      BY <1>1, <2>1 DEF Send
  <1>2. CASE Decide(p)
    <2> DEFINE a == decision[p].alert
    <2>1. a \in Alerts /\ alert[a] \in Rows /\ decision[p].to \in Statuses
      BY <1>2 DEF Decide, Decided
    <2>2. alert' = [alert EXCEPT ![a] = InStatus(alert[a], decision[p].to)]
      BY <1>2 DEF Decide
    <2>3. alert' \in [Alerts -> Rows \cup {None}] /\ \A b \in Alerts : Exists(b) => alert'[b] # None
      BY <2>1, <2>2, InStatusTyped
    <2>4. lapsed' = lapsed \ {a} /\ UNCHANGED <<detection, incident>>
      BY <1>2 DEF Decide, Cleared
    <2>5. decision' = [decision EXCEPT ![p] = None]
      BY <1>2 DEF Decide
    <2>6. lapsed' \subseteq {b \in Alerts : alert'[b] # None /\ alert'[b].status = "SUPPRESSED"}
      BY <2>1, <2>2, <2>4
    <2> QED
      BY <2>1, <2>3, <2>4, <2>5, <2>6 DEF Decided
  <1>3. CASE Reject(p)
    BY <1>3 DEF Reject
  <1> QED
    BY <1>1, <1>2, <1>3

LEMMA TypeStep ==
    ASSUME TypeInv, [Next]_vars
    PROVE  TypeInv'
  <1>1. CASE UNCHANGED vars
    BY <1>1 DEF TypeInv, TypeOK, Exists, vars, detection, incident, work
  <1> QED
    BY <1>1, TypeDetection, TypeCount, TypeExecute, TypeIncident, TypeManual, TypeDecision
    DEF Next, Run

(* The strengthened type invariant holds in every reachable state.         *)
THEOREM TypesHold == Spec => []TypeInv
  BY TypeInit, TypeStep, PTL DEF Spec

(* The type invariant of the model.                                        *)
THEOREM TypeCorrect == Spec => []TypeOK
  <1>1. TypeInv => TypeOK
    BY DEF TypeInv
  <1> QED
    BY <1>1, TypesHold, PTL

----------------------------------------------------------------------------
(* How the rows of the alerts change, whoever changes them.                *)

(* Creating an incident and deciding restate a row; Execute upserts it.    *)
Restated(a) == \E to \in Statuses : alert'[a] = InStatus(alert[a], to)

UpsertedBy(a, w) ==
    LET c == worker[w] IN
    /\ c # None /\ c.rule = a
    /\ New(c.event, a) /\ c.observed >= Rules[a].threshold
    /\ alert'[a] = Upserted(a, c.event, c.risk)
    /\ executions' = executions \cup {<<c.event, a>>}

LEMMA AcknowledgedRestates ==
    ASSUME NEW a \in Alerts, alert'[a] = Acknowledged(a)
    PROVE  alert'[a] = alert[a] \/ Restated(a)
  <1>1. "ACKNOWLEDGED" \in Statuses
    BY DEF Statuses
  <1> QED
    BY <1>1 DEF Acknowledged, Restated

LEMMA RowSteps ==
    ASSUME TypeInv, [Next]_vars, NEW a \in Alerts
    PROVE  \/ alert'[a] = alert[a]
           \/ Exists(a) /\ Restated(a)
           \/ \E w \in Workers : UpsertedBy(a, w)
  <1> USE DEF TypeInv, TypeOK, detection, incident, work
  <1>1. ASSUME NEW w \in Workers, Execute(w)
        PROVE  alert'[a] = alert[a] \/ UpsertedBy(a, w)
    BY <1>1 DEF Execute, UpsertedBy, Counted
  <1>2. ASSUME NEW b \in Alerts, AutoCreate(b)
        PROVE  alert'[a] = alert[a] \/ (Exists(a) /\ Restated(a))
    <2>1. Exists(b) /\ alert' = [alert EXCEPT ![b] = Acknowledged(b)]
      BY <1>2 DEF AutoCreate
    <2>2. CASE a = b
      BY <2>1, <2>2, AcknowledgedRestates
    <2>3. CASE a # b
      BY <2>1, <2>3
    <2> QED
      BY <2>2, <2>3
  <1>3. ASSUME NEW p \in Analysts, Create(p)
        PROVE  alert'[a] = alert[a] \/ (Exists(a) /\ Restated(a))
    <2>1. alert' = [b \in Alerts |-> IF b \in draft[p] THEN Acknowledged(b) ELSE alert[b]]
      BY <1>3 DEF Create
    <2>2. CASE a \in draft[p]
      BY <2>1, <2>2, AcknowledgedRestates
    <2>3. CASE a \notin draft[p]
      BY <2>1, <2>3
    <2> QED
      BY <2>2, <2>3
  <1>4. ASSUME NEW p \in Analysts, Decide(p)
        PROVE  alert'[a] = alert[a] \/ (Exists(a) /\ Restated(a))
    <2>1. decision[p].to \in Statuses /\ decision[p].alert \in Alerts
      BY <1>4 DEF Decide, Decided
    <2>2. alert' = [alert EXCEPT ![decision[p].alert] =
                      InStatus(alert[decision[p].alert], decision[p].to)]
      BY <1>4 DEF Decide
    <2>3. Exists(decision[p].alert)
      BY <1>4 DEF Decide
    <2>4. CASE a = decision[p].alert
      <3>1. alert'[a] = InStatus(alert[a], decision[p].to)
        BY <2>1, <2>2, <2>4
      <3> QED
        BY <2>1, <2>3, <2>4, <3>1 DEF Restated
    <2>5. CASE a # decision[p].alert
      BY <2>2, <2>5
    <2> QED
      BY <2>4, <2>5
  <1>5. ASSUME NEW b \in Alerts, Judge(b) \/ Retry(b) \/ Redeliver(b) \/ Lapse(b)
        PROVE  alert' = alert
    BY <1>5 DEF Judge, Retry, Redeliver, Lapse
  <1>6. ASSUME NEW p \in Analysts,
               \/ Draft(p) \/ Discard(p) \/ Reject(p)
               \/ \E b \in Alerts, to \in Statuses \ {"OPEN"} : Send(p, b, to)
        PROVE  alert' = alert
    BY <1>6 DEF Draft, Discard, Reject, Send
  <1>7. ASSUME \/ \E e \in Events : Arrive(e)
               \/ EditRule
               \/ \E w \in Workers : (\E e \in Events : Count(w, e)) \/ Abandon(w)
        PROVE  alert' = alert
    BY <1>7 DEF Arrive, EditRule, Count, Abandon
  <1>8. CASE UNCHANGED vars
    BY <1>8 DEF vars
  <1> QED
    BY <1>1, <1>2, <1>3, <1>4, <1>5, <1>6, <1>7, <1>8 DEF Next, Run

LEMMA ExistsStays ==
    ASSUME TypeInv, [Next]_vars, NEW a \in Alerts, Exists(a)
    PROVE  Exists(a)'
  <1>1. alert[a] \in Rows
    BY DEF TypeInv, TypeOK, Exists
  <1>2. ASSUME NEW to \in Statuses
        PROVE  InStatus(alert[a], to) \in Rows
    BY <1>1, InStatusTyped
  <1>3. ASSUME NEW w \in Workers, UpsertedBy(a, w)
        PROVE  alert'[a] \in Rows
    <2>1. worker[w] \in Counted
      BY <1>3 DEF UpsertedBy, TypeInv, TypeOK
    <2>2. worker[w].event \in Events /\ worker[w].risk \in Nat
      BY <2>1 DEF Counted
    <2>3. alert'[a] = Upserted(a, worker[w].event, worker[w].risk)
      BY <1>3 DEF UpsertedBy
    <2> QED
      BY <2>2, <2>3, UpsertedTyped
  <1> QED
    BY <1>1, <1>2, <1>3, RowSteps DEF Restated, Exists

LEMMA ExecutionsGrow ==
    ASSUME [Next]_vars
    PROVE  executions \subseteq executions'
  BY DEF Next, Run, vars, detection, Execute, Arrive, EditRule, Count, Abandon, Judge, AutoCreate,
         Retry, Redeliver, Lapse, Draft, Create, Discard, Decide, Reject, Send

----------------------------------------------------------------------------
(* The events of an alert are executed, so that none is counted twice.     *)
OccurrencesInv ==
    \A a \in Alerts : Exists(a) =>
      /\ alert[a].occurrences = Cardinality(alert[a].events)
      /\ \A e \in alert[a].events : <<e, a>> \in executions

LEMMA OccurrencesStep ==
    ASSUME TypeInv, OccurrencesInv, [Next]_vars
    PROVE  OccurrencesInv'
  <1> SUFFICES ASSUME NEW a \in Alerts, alert'[a] # None
               PROVE  /\ alert'[a].occurrences = Cardinality(alert'[a].events)
                      /\ \A e \in alert'[a].events : <<e, a>> \in executions'
    BY DEF OccurrencesInv, Exists
  <1> USE ExecutionsGrow DEF OccurrencesInv
  <1>1. CASE alert'[a] = alert[a]
    BY <1>1 DEF Exists
  <1>2. CASE Exists(a) /\ Restated(a)
    BY <1>2 DEF Restated, InStatus
  <1>3. ASSUME NEW w \in Workers, UpsertedBy(a, w)
        PROVE  /\ alert'[a].occurrences = Cardinality(alert'[a].events)
               /\ \A e \in alert'[a].events : <<e, a>> \in executions'
    <2> DEFINE e == worker[w].event
    <2>1. alert'[a] = Upserted(a, e, worker[w].risk) /\ <<e, a>> \notin executions
      BY <1>3 DEF UpsertedBy, New
    <2>2. <<e, a>> \in executions'
      BY <1>3 DEF UpsertedBy
    <2>3. CASE ~Exists(a)
      <3>1. alert'[a].occurrences = 1 /\ alert'[a].events = {e}
        BY <2>1, <2>3 DEF Upserted
      <3>2. Cardinality({e}) = 1
        BY FS_Singleton
      <3> QED
        BY <2>2, <3>1, <3>2
    <2>4. CASE Exists(a)
      <3>1. alert[a] \in Rows
        BY <2>4 DEF TypeInv, TypeOK, Exists
      <3>2. IsFiniteSet(alert[a].events)
        BY <3>1, FS_Subset DEF Rows
      <3>3. e \notin alert[a].events
        BY <2>1, <2>4
      <3>4. Cardinality(alert[a].events \cup {e}) = Cardinality(alert[a].events) + 1
        BY <3>2, <3>3, FS_AddElement
      <3>5. /\ alert'[a].occurrences = alert[a].occurrences + 1
            /\ alert'[a].events = alert[a].events \cup {e}
        BY <2>1, <2>4 DEF Upserted
      <3> QED
        BY <2>2, <2>4, <3>4, <3>5
    <2> QED
      BY <2>3, <2>4
  <1> QED
    BY <1>1, <1>2, <1>3, RowSteps

(* Redelivered and concurrent detection jobs count every event once: the   *)
(* transaction that inserts the rule_executions row is the only one that   *)
(* touches the alert for that event.                                       *)
THEOREM OccurrencesCounted == Spec => []OccurrencesAreEvents
  <1>1. Init => OccurrencesInv
    BY DEF Init, OccurrencesInv, Exists
  <1>2. OccurrencesInv => OccurrencesAreEvents
    BY DEF OccurrencesInv, OccurrencesAreEvents
  <1> QED
    BY <1>1, <1>2, OccurrencesStep, TypesHold, PTL DEF Spec

----------------------------------------------------------------------------
(* Every writer of an existing row counts its version up.                  *)
LEMMA RowVersions ==
    ASSUME TypeInv, [Next]_vars, NEW a \in Alerts, Exists(a)
    PROVE  \/ alert'[a] = alert[a]
           \/ /\ alert'[a].version = alert[a].version + 1
              /\ alert'[a].risk >= alert[a].risk
  <1>1. alert[a] \in Rows
    BY DEF TypeInv, TypeOK, Exists
  <1>2. alert[a].risk \in Nat
    BY <1>1 DEF Rows
  <1>3. CASE Restated(a)
    BY <1>2, <1>3 DEF Restated, InStatus
  <1>4. ASSUME NEW w \in Workers, UpsertedBy(a, w)
        PROVE  /\ alert'[a].version = alert[a].version + 1
               /\ alert'[a].risk >= alert[a].risk
    <2>1. alert'[a] = Upserted(a, worker[w].event, worker[w].risk)
      BY <1>4 DEF UpsertedBy
    <2>2. worker[w] \in Counted
      BY <1>4 DEF UpsertedBy, TypeInv, TypeOK
    <2>3. worker[w].risk \in Nat
      BY <2>2 DEF Counted
    <2> QED
      BY <1>2, <2>1, <2>3 DEF Upserted, Greatest
  <1> QED
    BY <1>3, <1>4, RowSteps

(* A decision whose version is current was taken on the row as it is.      *)
SeenInv ==
    \A p \in Analysts : decision[p] # None =>
      LET d == decision[p] IN
      /\ d.seen.version <= alert[d.alert].version
      /\ d.seen.version = alert[d.alert].version => d.seen = alert[d.alert]

LEMMA DecisionSteps ==
    ASSUME TypeInv, [Next]_vars, NEW p \in Analysts
    PROVE  \/ decision'[p] = decision[p]
           \/ decision'[p] = None
           \/ \E a \in Alerts, to \in Statuses :
                /\ Exists(a) /\ alert' = alert
                /\ decision'[p] = [alert |-> a, seen |-> alert[a], to |-> to]
  <1> USE DEF TypeInv, TypeOK
  <1>1. ASSUME NEW q \in Analysts, NEW a \in Alerts, NEW to \in Statuses \ {"OPEN"}, Send(q, a, to)
        PROVE  \/ decision'[p] = decision[p]
               \/ /\ Exists(a) /\ alert' = alert
                  /\ decision'[p] = [alert |-> a, seen |-> alert[a], to |-> to]
    BY <1>1 DEF Send
  <1>2. ASSUME NEW q \in Analysts, Decide(q) \/ Reject(q)
        PROVE  decision'[p] = decision[p] \/ decision'[p] = None
    BY <1>2 DEF Decide, Reject
  <1>3. ASSUME NEW w \in Workers,
               (\E e \in Events : Count(w, e)) \/ Execute(w) \/ Abandon(w)
        PROVE  decision' = decision
    BY <1>3 DEF Count, Execute, Abandon
  <1>4. ASSUME NEW a \in Alerts,
               Judge(a) \/ AutoCreate(a) \/ Retry(a) \/ Redeliver(a) \/ Lapse(a)
        PROVE  decision' = decision
    BY <1>4 DEF Judge, AutoCreate, Retry, Redeliver, Lapse
  <1>5. ASSUME NEW q \in Analysts, Draft(q) \/ Create(q) \/ Discard(q)
        PROVE  decision' = decision
    BY <1>5 DEF Draft, Create, Discard
  <1>6. CASE (\E e \in Events : Arrive(e)) \/ EditRule \/ UNCHANGED vars
    BY <1>6 DEF Arrive, EditRule, vars
  <1>7. ASSUME NEW q \in Analysts, NEW a \in Alerts, NEW to \in Statuses \ {"OPEN"}, Send(q, a, to)
        PROVE  \/ decision'[p] = decision[p]
               \/ \E b \in Alerts, s \in Statuses :
                    /\ Exists(b) /\ alert' = alert
                    /\ decision'[p] = [alert |-> b, seen |-> alert[b], to |-> s]
    <2>1. to \in Statuses
      OBVIOUS
    <2> QED
      BY <1>1, <1>7, <2>1
  <1>8. CASE \E q \in Analysts, a \in Alerts, to \in Statuses \ {"OPEN"} : Send(q, a, to)
    BY <1>7, <1>8
  <1>9. CASE ~\E q \in Analysts, a \in Alerts, to \in Statuses \ {"OPEN"} : Send(q, a, to)
    BY <1>2, <1>3, <1>4, <1>5, <1>6, <1>9 DEF Next, Run
  <1> QED
    BY <1>8, <1>9

LEMMA SeenStep ==
    ASSUME TypeInv, SeenInv, [Next]_vars
    PROVE  SeenInv'
  <1> SUFFICES ASSUME NEW p \in Analysts, decision'[p] # None
               PROVE  LET d == decision'[p] IN
                      /\ d.seen.version <= alert'[d.alert].version
                      /\ d.seen.version = alert'[d.alert].version => d.seen = alert'[d.alert]
    BY DEF SeenInv
  <1>1. CASE decision'[p] = decision[p]
    <2> DEFINE d == decision[p]
    <2>1. d \in Decided
      BY <1>1 DEF TypeInv, TypeOK
    <2>2. d.alert \in Alerts /\ d.seen.version \in Nat /\ Exists(d.alert)
      BY <1>1, <2>1 DEF Decided, Rows, TypeInv
    <2>3. alert[d.alert].version \in Nat
      BY <2>2 DEF TypeInv, TypeOK, Exists, Rows
    <2>4. alert'[d.alert] = alert[d.alert] \/ alert'[d.alert].version = alert[d.alert].version + 1
      BY <2>2, RowVersions
    <2>5. /\ d.seen.version <= alert[d.alert].version
          /\ d.seen.version = alert[d.alert].version => d.seen = alert[d.alert]
      BY <1>1 DEF SeenInv
    <2> QED
      BY <1>1, <2>2, <2>3, <2>4, <2>5
  <1>2. ASSUME NEW a \in Alerts, NEW to \in Statuses, Exists(a), alert' = alert,
               decision'[p] = [alert |-> a, seen |-> alert[a], to |-> to]
        PROVE  LET d == decision'[p] IN
               /\ d.seen.version <= alert'[d.alert].version
               /\ d.seen.version = alert'[d.alert].version => d.seen = alert'[d.alert]
    <2>1. alert[a].version \in Nat
      BY <1>2 DEF TypeInv, TypeOK, Exists, Rows
    <2> QED
      BY <1>2, <2>1
  <1> QED
    BY <1>1, <1>2, DecisionSteps

(* Nobody closes or silences an alert they have not seen as it is: version *)
(* is a faithful name of the row's content, for the workers' upserts count *)
(* it up as the API's updates do.                                          *)
THEOREM DecidedSeen == Spec => DecidedAsSeen
  <1>1. Init => SeenInv
    BY DEF Init, SeenInv
  <1>2. SeenInv => \A p \in Analysts : Decide(p) => alert[decision[p].alert] = decision[p].seen
    BY DEF SeenInv, Decide
  <1> QED
    BY <1>1, <1>2, SeenStep, TypesHold, PTL DEF Spec, DecidedAsSeen

----------------------------------------------------------------------------
(* Incidents.                                                              *)

LEMMA LinkSteps ==
    ASSUME TypeInv, [Next]_vars, NEW a \in Alerts
    PROVE  \/ links'[a] = links[a]
           \/ job[a] = "creating" /\ links[a] = {} /\ links'[a] = {"auto"}
           \/ \E p \in Analysts : links[a] = {} /\ links'[a] = {p}
  <1> USE DEF TypeInv, TypeOK, detection, incident, work
  <1>1. ASSUME NEW b \in Alerts, AutoCreate(b)
        PROVE  \/ links'[a] = links[a]
               \/ job[a] = "creating" /\ links[a] = {} /\ links'[a] = {"auto"}
    BY <1>1 DEF AutoCreate, Unlinked
  <1>2. ASSUME NEW p \in Analysts, Create(p)
        PROVE  links'[a] = links[a] \/ (links[a] = {} /\ links'[a] = {p})
    BY <1>2 DEF Create, Unlinked
  <1>3. ASSUME NEW w \in Workers,
               (\E e \in Events : Count(w, e)) \/ Execute(w) \/ Abandon(w)
        PROVE  links' = links
    BY <1>3 DEF Count, Execute, Abandon
  <1>4. ASSUME NEW b \in Alerts, Judge(b) \/ Retry(b) \/ Redeliver(b) \/ Lapse(b)
        PROVE  links' = links
    BY <1>4 DEF Judge, Retry, Redeliver, Lapse
  <1>5. ASSUME NEW p \in Analysts,
               \/ Draft(p) \/ Discard(p) \/ Decide(p) \/ Reject(p)
               \/ \E b \in Alerts, to \in Statuses \ {"OPEN"} : Send(p, b, to)
        PROVE  links' = links
    BY <1>5 DEF Draft, Discard, Decide, Reject, Send
  <1>6. CASE (\E e \in Events : Arrive(e)) \/ EditRule \/ UNCHANGED vars
    BY <1>6 DEF Arrive, EditRule, vars
  <1> QED
    BY <1>1, <1>2, <1>3, <1>4, <1>5, <1>6 DEF Next, Run

LinkInv == \A a \in Alerts : links[a] = {} \/ \E x : links[a] = {x}

(* The unique index keeps what the worker's lock alone would not: an alert *)
(* has at most one incident, whoever creates it.                           *)
THEOREM AtMostOneIncident == Spec => []OneIncident
  <1>1. Init => LinkInv
    BY DEF Init, LinkInv
  <1>2. ASSUME TypeInv, LinkInv, [Next]_vars
        PROVE  LinkInv'
    BY <1>2, LinkSteps DEF LinkInv
  <1>3. LinkInv => OneIncident
    <2>1. Cardinality({}) = 0
      BY FS_EmptySet
    <2> SUFFICES ASSUME LinkInv, NEW a \in Alerts
                 PROVE  Cardinality(links[a]) <= 1
      BY DEF OneIncident
    <2>2. CASE links[a] = {}
      BY <2>1, <2>2
    <2>3. ASSUME NEW x, links[a] = {x}
          PROVE  Cardinality(links[a]) <= 1
      <3>1. Cardinality({x}) = 1
        BY FS_Singleton
      <3> QED
        BY <2>3, <3>1
    <2> QED
      BY <2>2, <2>3 DEF LinkInv
  <1> QED
    BY <1>1, <1>2, <1>3, TypesHold, PTL DEF Spec

(* Risk is never lowered, so that a severe alert stays severe.             *)
LEMMA SevereStays ==
    ASSUME TypeInv, [Next]_vars, NEW a \in Alerts, Severe(a)
    PROVE  Severe(a)'
  <1>1. Exists(a)
    BY DEF Severe
  <1>2. Exists(a)'
    BY <1>1, ExistsStays
  <1>3. alert[a] \in Rows /\ alert'[a] \in Rows
    BY <1>1, <1>2, TypeStep DEF TypeInv, TypeOK, Exists
  <1>4. alert[a].risk \in Nat /\ alert'[a].risk \in Nat
    BY <1>3 DEF Rows
  <1>5. alert'[a].risk >= alert[a].risk
    BY <1>1, <1>4, RowVersions
  <1> QED
    BY <1>2, <1>4, <1>5 DEF Severe

LEMMA JobSteps ==
    ASSUME TypeInv, [Next]_vars, NEW a \in Alerts, job'[a] = "creating"
    PROVE  job[a] = "creating" \/ Severe(a)
  <1> USE DEF TypeInv, TypeOK, detection, incident, work
  <1>1. ASSUME NEW b \in Alerts, Judge(b)
        PROVE  job[a] = "creating" \/ Severe(a)
    BY <1>1 DEF Judge, ShouldCreate, Severe
  <1>2. ASSUME NEW b \in Alerts, AutoCreate(b) \/ Retry(b) \/ Redeliver(b) \/ Lapse(b)
        PROVE  job[a] = "creating"
    BY <1>2 DEF AutoCreate, Retry, RunFails, Redeliver, Lapse
  <1>3. ASSUME NEW w \in Workers, Execute(w)
        PROVE  job[a] = "creating"
    BY <1>3 DEF Execute, Counted
  <1>4. ASSUME NEW w \in Workers, (\E e \in Events : Count(w, e)) \/ Abandon(w)
        PROVE  job[a] = "creating"
    BY <1>4 DEF Count, Abandon
  <1>5. ASSUME NEW p \in Analysts,
               \/ Draft(p) \/ Create(p) \/ Discard(p) \/ Decide(p) \/ Reject(p)
               \/ \E b \in Alerts, to \in Statuses \ {"OPEN"} : Send(p, b, to)
        PROVE  job[a] = "creating"
    BY <1>5 DEF Draft, Create, Discard, Decide, Reject, Send
  <1>6. CASE (\E e \in Events : Arrive(e)) \/ EditRule \/ UNCHANGED vars
    BY <1>6 DEF Arrive, EditRule, vars
  <1> QED
    BY <1>1, <1>2, <1>3, <1>4, <1>5, <1>6 DEF Next, Run

(* A job that is about to create an incident found its alert severe.       *)
SevereInv == \A a \in Alerts : job[a] = "creating" \/ "auto" \in links[a] => Severe(a)

(* An incident nobody asked for comes from an alert that is still severe:  *)
(* the job reads the alert unlocked, but its risk is never lowered.        *)
THEOREM AutomaticIsSevere == Spec => []AutoIncidentIsSevere
  <1>1. Init => SevereInv
    BY DEF Init, SevereInv
  <1>2. ASSUME TypeInv, SevereInv, [Next]_vars
        PROVE  SevereInv'
    <2> SUFFICES ASSUME NEW a \in Alerts, job'[a] = "creating" \/ "auto" \in links'[a]
                 PROVE  Severe(a)'
      BY DEF SevereInv
    <2>1. CASE job'[a] = "creating"
      BY <1>2, <2>1, JobSteps, SevereStays DEF SevereInv
    <2>2. CASE "auto" \in links'[a]
      <3>1. "auto" \in links[a] \/ job[a] = "creating"
        BY <1>2, <2>2, LinkSteps
      <3> QED
        BY <1>2, <3>1, SevereStays DEF SevereInv
    <2> QED
      BY <2>1, <2>2
  <1>3. SevereInv => AutoIncidentIsSevere
    BY DEF SevereInv, AutoIncidentIsSevere
  <1> QED
    BY <1>1, <1>2, <1>3, TypesHold, PTL DEF Spec

----------------------------------------------------------------------------
LEMMA CreatedInv ==
    ASSUME TypeInv, ManualIncidentIsComplete, [Next]_vars
    PROVE  ManualIncidentIsComplete'
  <1> USE DEF ManualIncidentIsComplete, TypeInv, TypeOK
  <1>1. ASSUME NEW p \in Analysts, Create(p)
        PROVE  ManualIncidentIsComplete'
    BY <1>1 DEF Create
  <1>2. ASSUME NEW a \in Alerts, AutoCreate(a)
        PROVE  ManualIncidentIsComplete'
    BY <1>2 DEF AutoCreate
  <1>3. ASSUME NEW p \in Analysts, Draft(p)
        PROVE  ManualIncidentIsComplete'
    <2>1. p \notin created /\ UNCHANGED <<links, created>>
      BY <1>3 DEF Draft
    <2>2. \A q \in Analysts : q # p => draft'[q] = draft[q]
      BY <1>3 DEF Draft
    <2> QED
      BY <2>1, <2>2
  <1>4. ASSUME NEW p \in Analysts, Discard(p)
        PROVE  ManualIncidentIsComplete'
    BY <1>4 DEF Discard
  <1>5. ASSUME NEW w \in Workers,
               (\E e \in Events : Count(w, e)) \/ Execute(w) \/ Abandon(w)
        PROVE  UNCHANGED <<links, created, draft>>
    BY <1>5 DEF Count, Execute, Abandon, incident, work
  <1>6. ASSUME NEW a \in Alerts, Judge(a) \/ Retry(a) \/ Redeliver(a) \/ Lapse(a)
        PROVE  UNCHANGED <<links, created, draft>>
    BY <1>6 DEF Judge, Retry, Redeliver, Lapse, incident, work
  <1>7. ASSUME NEW p \in Analysts,
               \/ Decide(p) \/ Reject(p)
               \/ \E a \in Alerts, to \in Statuses \ {"OPEN"} : Send(p, a, to)
        PROVE  UNCHANGED <<links, created, draft>>
    BY <1>7 DEF Decide, Reject, Send, incident, work
  <1>8. CASE (\E e \in Events : Arrive(e)) \/ EditRule \/ UNCHANGED vars
    BY <1>8 DEF Arrive, EditRule, vars, incident, work
  <1> QED
    BY <1>1, <1>2, <1>3, <1>4, <1>5, <1>6, <1>7, <1>8 DEF Next, Run

(* An incident created by hand has all of its alerts: the index refuses it *)
(* as a whole when one of them was linked after it was read.               *)
THEOREM ManualComplete == Spec => []ManualIncidentIsComplete
  <1>1. Init => ManualIncidentIsComplete
    BY DEF Init, ManualIncidentIsComplete
  <1> QED
    BY <1>1, CreatedInv, TypesHold, PTL DEF Spec

----------------------------------------------------------------------------
Kept(a) ==
    Exists(a) /\ alert'[a].status # alert[a].status /\ decision' = decision =>
      \/ alert[a].status = "OPEN" /\ alert'[a].status = "ACKNOWLEDGED"
      \/ Reopens(a) /\ alert'[a].status = "OPEN"

LEMMA AcknowledgedKept ==
    ASSUME NEW a \in Alerts, alert'[a] = Acknowledged(a)
    PROVE  Kept(a)
  BY DEF Kept, Acknowledged, InStatus

LEMMA KeptStep ==
    ASSUME TypeInv, [Next]_vars, NEW a \in Alerts
    PROVE  Kept(a)
  <1> USE DEF TypeInv, TypeOK, detection, incident, work
  <1>1. ASSUME NEW w \in Workers, Execute(w)
        PROVE  Kept(a)
    <2>1. worker[w].rule \in Alerts
      BY <1>1 DEF Execute, Counted
    <2>2. \/ alert' = alert
          \/ alert' = [alert EXCEPT ![worker[w].rule] =
                         Upserted(worker[w].rule, worker[w].event, worker[w].risk)]
      BY <1>1 DEF Execute
    <2>3. CASE alert'[a] = alert[a]
      BY <2>3 DEF Kept
    <2>4. CASE alert'[a] = Upserted(a, worker[w].event, worker[w].risk)
      BY <2>4 DEF Kept, Upserted
    <2> QED
      BY <2>1, <2>2, <2>3, <2>4
  <1>2. ASSUME NEW b \in Alerts, AutoCreate(b)
        PROVE  Kept(a)
    <2>1. alert'[a] = alert[a] \/ alert'[a] = Acknowledged(a)
      BY <1>2 DEF AutoCreate
    <2> QED
      BY <2>1, AcknowledgedKept DEF Kept
  <1>3. ASSUME NEW p \in Analysts, Create(p)
        PROVE  Kept(a)
    <2>1. alert'[a] = alert[a] \/ alert'[a] = Acknowledged(a)
      BY <1>3 DEF Create
    <2> QED
      BY <2>1, AcknowledgedKept DEF Kept
  <1>4. ASSUME NEW p \in Analysts, Decide(p)
        PROVE  decision' # decision
    BY <1>4 DEF Decide
  <1>5. ASSUME NEW b \in Alerts, Judge(b) \/ Retry(b) \/ Redeliver(b) \/ Lapse(b)
        PROVE  alert' = alert
    BY <1>5 DEF Judge, Retry, Redeliver, Lapse
  <1>6. ASSUME NEW p \in Analysts,
               \/ Draft(p) \/ Discard(p) \/ Reject(p)
               \/ \E b \in Alerts, to \in Statuses \ {"OPEN"} : Send(p, b, to)
        PROVE  alert' = alert
    BY <1>6 DEF Draft, Discard, Reject, Send
  <1>7. ASSUME \/ \E e \in Events : Arrive(e)
               \/ EditRule
               \/ \E w \in Workers : (\E e \in Events : Count(w, e)) \/ Abandon(w)
        PROVE  alert' = alert
    BY <1>7 DEF Arrive, EditRule, Count, Abandon
  <1>8. CASE UNCHANGED vars
    BY <1>8 DEF vars, Kept
  <1>9. ASSUME alert' = alert \/ decision' # decision
        PROVE  Kept(a)
    BY <1>9 DEF Kept
  <1> HIDE DEF TypeInv, TypeOK, detection, incident, work
  <1> QED
    BY <1>1, <1>2, <1>3, <1>4, <1>5, <1>6, <1>7, <1>8, <1>9 DEF Next, Run

(* The workers and the creation of incidents leave what people decided:    *)
(* they acknowledge open alerts and reopen lapsed suppressions, no more.   *)
THEOREM DecisionsKept == Spec => DecisionsAreKept
  <1>1. TypeInv /\ [Next]_vars =>
          \A a \in Alerts :
            Exists(a) /\ alert'[a].status # alert[a].status /\ decision' = decision =>
              \/ alert[a].status = "OPEN" /\ alert'[a].status = "ACKNOWLEDGED"
              \/ Reopens(a) /\ alert'[a].status = "OPEN"
    BY KeptStep DEF Kept
  <1> QED
    BY <1>1, TypesHold, PTL DEF Spec, DecisionsAreKept

----------------------------------------------------------------------------
(* Bursts.  What a worker has counted is at least what had arrived with    *)
(* its event, as long as the window is not cut.                            *)
Before(i) == {j \in 1..i : arrived[j] \in Matching /\ arrived[j] <= arrived[i]}

InView(i) == arrived[i] \in Matching /\ Cardinality(Window(arrived[i])) <= WindowLimit

CountedInv ==
    /\ \A i, j \in 1..Len(arrived) : arrived[i] = arrived[j] => i = j
    /\ \A x \in executions : x[1] \in Arrived
    /\ \A w \in Workers : worker[w] # None =>
         /\ worker[w].event \in Arrived
         /\ \A i \in 1..Len(arrived) :
              arrived[i] = worker[w].event /\ InView(i)
                => worker[w].observed >= Cardinality(Before(i))

(* A window within the limit is not cut.                                   *)
LEMMA WindowUncut ==
    ASSUME arrived \in Seq(Events), NEW e, Cardinality(Window(e)) <= WindowLimit
    PROVE  Newest(Window(e)) = Window(e)
  <1> SUFFICES ASSUME NEW d \in Window(e)
               PROVE  Cardinality({x \in Window(e) : d <= x}) <= WindowLimit
    BY DEF Newest
  <1> DEFINE S == {x \in Window(e) : d <= x}
  <1>1. IsFiniteSet(Window(e))
    BY WindowFinite
  <1>2. S \subseteq Window(e)
    OBVIOUS
  <1>3. IsFiniteSet(S) /\ Cardinality(S) <= Cardinality(Window(e))
    BY <1>1, <1>2, FS_Subset
  <1>4. Cardinality(S) \in Nat /\ Cardinality(Window(e)) \in Nat
    BY <1>1, <1>3, FS_CardinalityType
  <1> QED
    BY <1>3, <1>4

(* Arrivals are distinct, so that counting them is counting events.        *)
LEMMA CountCoversArrival ==
    ASSUME TypeInv, CountedInv, NEW i \in 1..Len(arrived)
    PROVE  /\ Cardinality(Before(i)) \in Nat
           /\ InView(i) => Observed(arrived[i]) >= Cardinality(Before(i))
  <1> DEFINE T == Window(arrived[i]) \cap Matching
             f == [j \in Before(i) |-> arrived[j]]
  <1>1. arrived \in Seq(Events) /\ Len(arrived) \in Nat
    BY DEF TypeInv, TypeOK
  <1>2. Before(i) \subseteq 1..Len(arrived)
    BY <1>1 DEF Before
  <1>3. IsFiniteSet(T)
    <2>1. IsFiniteSet(Window(arrived[i]))
      BY <1>1, WindowFinite
    <2> QED
      BY <2>1, FS_Subset
  <1>4. f \in [Before(i) -> T]
    BY <1>2 DEF Before, Window, Arrived
  <1>5. \A j, k \in Before(i) : f[j] = f[k] => j = k
    BY <1>2 DEF CountedInv
  <1>6. f \in Injection(Before(i), T)
    BY <1>4, <1>5 DEF Injection, IsInjective
  <1>7. IsFiniteSet(Before(i)) /\ Cardinality(Before(i)) <= Cardinality(T)
    BY <1>3, <1>6, FS_Injection
  <1>8. InView(i) => Observed(arrived[i]) = Cardinality(T)
    BY <1>1, WindowUncut DEF InView, Observed, CountMatches
  <1> QED
    BY <1>3, <1>7, <1>8, FS_CardinalityType

(* An event that arrives leaves what arrived before it, and can only push  *)
(* others out of view.                                                     *)
LEMMA ArriveSteps ==
    ASSUME TypeInv, NEW e \in Events, Arrive(e)
    PROVE  /\ Len(arrived) \in Nat /\ e \notin Arrived /\ Arrived' = Arrived \cup {e}
           /\ Len(arrived') = Len(arrived) + 1 /\ arrived'[Len(arrived')] = e
           /\ UNCHANGED <<worker, executions, alert>>
           /\ \A i \in 1..Len(arrived) :
                /\ arrived'[i] = arrived[i] /\ Before(i)' = Before(i)
                /\ InView(i)' => InView(i)
  <1>1. arrived \in Seq(Events) /\ Len(arrived) \in Nat
    BY DEF TypeInv, TypeOK
  <1>2. arrived' = Append(arrived, e) /\ UNCHANGED <<worker, executions, alert>>
    BY DEF Arrive
  <1>3. Len(arrived') = Len(arrived) + 1 /\ arrived'[Len(arrived')] = e
    BY <1>1, <1>2
  <1>4. \A i \in 1..Len(arrived) : arrived'[i] = arrived[i]
    BY <1>1, <1>2
  <1>5. \A i \in 1..Len(arrived) : Before(i)' = Before(i)
    BY <1>1, <1>4 DEF Before
  <1>6. Arrived' = Arrived \cup {e} /\ e \notin Arrived
    BY <1>1, <1>3, <1>4 DEF Arrived, Arrive
  <1>7. ASSUME NEW i \in 1..Len(arrived), InView(i)'
        PROVE  InView(i)
    <2> DEFINE S == Window(arrived[i])
               T == {d \in Arrived' : d <= arrived[i]}
    <2>1. arrived'[i] \in Matching /\ Cardinality(T) <= WindowLimit
      BY <1>4, <1>7 DEF InView, Window
    <2>2. S \subseteq T
      BY <1>6 DEF Window
    <2>3. IsFiniteSet(T)
      <3>1. IsFiniteSet(Arrived \cup {e})
        BY <1>1, ArrivedFinite, FS_AddElement
      <3>2. T \subseteq Arrived \cup {e}
        BY <1>6
      <3> QED
        BY <3>1, <3>2, FS_Subset
    <2>4. IsFiniteSet(S) /\ Cardinality(S) <= Cardinality(T)
      BY <2>2, <2>3, FS_Subset
    <2>5. Cardinality(S) \in Nat /\ Cardinality(T) \in Nat
      BY <2>3, <2>4, FS_CardinalityType
    <2> QED
      BY <1>4, <2>1, <2>4, <2>5 DEF InView
  <1> QED
    BY <1>1, <1>2, <1>3, <1>4, <1>5, <1>6, <1>7

(* The count is taken when the event and all that came before it are       *)
(* committed, and later arrivals only add to it.                           *)
LEMMA CountedArrive ==
    ASSUME TypeInv, CountedInv, NEW e \in Events, Arrive(e)
    PROVE  CountedInv'
  <1> USE ArriveSteps
  <1>1. \A i, j \in 1..Len(arrived') : arrived'[i] = arrived'[j] => i = j
    <2>1. \A i \in 1..Len(arrived') : i = Len(arrived') \/ i \in 1..Len(arrived)
      OBVIOUS
    <2>2. \A i \in 1..Len(arrived) : arrived'[i] \in Arrived /\ arrived'[i] # e
      BY DEF Arrived
    <2>3. \A i, j \in 1..Len(arrived) : arrived'[i] = arrived'[j] => i = j
      BY DEF CountedInv
    <2> QED
      BY <2>1, <2>2, <2>3
  <1>2. \A w \in Workers : worker[w] # None =>
          \A i \in 1..Len(arrived') :
             arrived'[i] = worker[w].event /\ InView(i)'
               => worker[w].observed >= Cardinality(Before(i)')
    BY DEF CountedInv
  <1> QED
    BY <1>1, <1>2 DEF CountedInv

BurstInv == CountedInv /\ BurstRaisesAlert

Raised(a, i) == Exists(a) /\ arrived[i] \in alert[a].events

LEMMA BurstsRead ==
    BurstRaisesAlert <=>
      \A a \in Alerts, i \in 1..Len(arrived) :
        /\ <<arrived[i], a>> \in executions
        /\ InView(i)
        /\ Cardinality(Before(i)) >= Rules[a].threshold
        => Raised(a, i)
  BY DEF BurstRaisesAlert, InView, Before, Raised

(* No step takes an event from an alert.                                   *)
LEMMA EventsStay ==
    ASSUME TypeInv, [Next]_vars, NEW a \in Alerts, Exists(a)
    PROVE  Exists(a)' /\ alert[a].events \subseteq alert'[a].events
  <1>1. ASSUME NEW w \in Workers, UpsertedBy(a, w)
        PROVE  alert[a].events \subseteq alert'[a].events
    <2>1. alert'[a] = Upserted(a, worker[w].event, worker[w].risk)
      BY <1>1 DEF UpsertedBy
    <2> QED
      BY <2>1 DEF Upserted
  <1>2. ASSUME Restated(a)
        PROVE  alert[a].events \subseteq alert'[a].events
    BY <1>2 DEF Restated, InStatus
  <1> QED
    BY <1>1, <1>2, RowSteps, ExistsStays

LEMMA RaisedStays ==
    ASSUME TypeInv, [Next]_vars, NEW a \in Alerts, NEW i, arrived'[i] = arrived[i], Raised(a, i)
    PROVE  Raised(a, i)'
  BY EventsStay DEF Raised, Exists

LEMMA BurstArrive ==
    ASSUME TypeInv, BurstInv, NEW e \in Events, Arrive(e)
    PROVE  BurstInv'
  <1>1. CountedInv'
    BY CountedArrive DEF BurstInv
  <1>2. \A a \in Alerts : <<e, a>> \notin executions
    BY ArriveSteps DEF BurstInv, CountedInv
  <1>3. [Next]_vars
    BY DEF Next
  <1>4. ASSUME NEW a \in Alerts, NEW i \in 1..Len(arrived'),
               <<arrived'[i], a>> \in executions', InView(i)',
               Cardinality(Before(i)') >= Rules[a].threshold
        PROVE  Raised(a, i)'
    <2>1. i \in 1..Len(arrived)
      BY <1>2, <1>4, ArriveSteps
    <2>2. Raised(a, i)
      BY <1>4, <2>1, ArriveSteps, BurstsRead DEF BurstInv
    <2>3. arrived'[i] = arrived[i]
      BY <2>1, ArriveSteps
    <2> QED
      BY <1>3, <2>2, <2>3, RaisedStays
  <1>5. BurstRaisesAlert'
    BY <1>4 DEF BurstRaisesAlert, InView, Before, Raised
  <1> QED
    BY <1>1, <1>5 DEF BurstInv

LEMMA BurstCount ==
    ASSUME TypeInv, BurstInv, NEW w \in Workers, NEW e \in Events, Count(w, e)
    PROVE  BurstInv'
  <1>1. /\ worker'[w].event = e /\ worker'[w].observed = Observed(e)
        /\ \A v \in Workers : v # w => worker'[v] = worker[v]
    <2>1. PICK risk : worker' = [worker EXCEPT ![w] =
            [event |-> e, rule |-> current, observed |-> Observed(e), risk |-> risk]]
      BY DEF Count
    <2> QED
      BY <2>1 DEF TypeInv, TypeOK
  <1>2. e \in Arrived /\ UNCHANGED <<arrived, executions, alert>>
    BY DEF Count
  <1>3. \A i \in 1..Len(arrived) :
          arrived[i] = e /\ InView(i) => Observed(e) >= Cardinality(Before(i))
    BY CountCoversArrival DEF BurstInv
  <1>4. Arrived' = Arrived
    BY <1>2 DEF Arrived
  <1>5. \A i : Before(i)' = Before(i) /\ InView(i)' = InView(i)
    BY <1>2, <1>4 DEF Before, InView, Window
  <1>6. CountedInv'
    BY <1>1, <1>2, <1>3, <1>4, <1>5 DEF BurstInv, CountedInv
  <1>7. BurstRaisesAlert'
    BY <1>2, <1>4 DEF BurstInv, BurstRaisesAlert, Exists, Window
  <1> QED
    BY <1>6, <1>7 DEF BurstInv

LEMMA BurstExecute ==
    ASSUME TypeInv, BurstInv, NEW w \in Workers, Execute(w)
    PROVE  BurstInv'
  <1> DEFINE c == worker[w]
  <1>1. c \in Counted /\ c # None
    BY DEF Execute, TypeInv, TypeOK
  <1>2. c.rule \in Alerts /\ c.observed \in Nat /\ c.event \in Arrived
    BY <1>1 DEF Counted, BurstInv, CountedInv
  <1>3. /\ worker' = [worker EXCEPT ![w] = None]
        /\ executions' = executions \cup {<<c.event, c.rule>>}
        /\ arrived' = arrived
    BY DEF Execute
  <1>4. Arrived' = Arrived /\ \A i : Before(i)' = Before(i) /\ InView(i)' = InView(i)
    BY <1>3 DEF Arrived, Before, InView, Window
  <1>5. CountedInv'
    <2>1. \A x \in executions' : x[1] \in Arrived'
      BY <1>2, <1>3, <1>4 DEF BurstInv, CountedInv
    <2>2. \A v \in Workers : worker'[v] # None => worker'[v] = worker[v]
      BY <1>3 DEF TypeInv, TypeOK
    <2> QED
      BY <1>3, <1>4, <2>1, <2>2 DEF BurstInv, CountedInv
  <1>6. [Next]_vars
    BY DEF Next
  <1>7. ASSUME NEW a \in Alerts, NEW i \in 1..Len(arrived),
               <<arrived[i], a>> \in executions', InView(i),
               Cardinality(Before(i)) >= Rules[a].threshold
        PROVE  Raised(a, i)'
    <2>1. CASE <<arrived[i], a>> \in executions
      <3>1. Raised(a, i)
        BY <1>7, <2>1, BurstsRead DEF BurstInv
      <3> QED
        BY <1>3, <1>6, <3>1, RaisedStays
    <2>2. CASE <<arrived[i], a>> \notin executions
      <3>1. arrived[i] = c.event /\ a = c.rule
        BY <1>3, <1>7, <2>2
      <3>2. c.observed >= Cardinality(Before(i))
        BY <1>1, <1>7, <3>1 DEF BurstInv, CountedInv
      <3>3. Cardinality(Before(i)) \in Nat /\ Rules[a].threshold \in Nat
        BY CountCoversArrival, RuleTyped DEF BurstInv, RuleType
      <3>4. New(c.event, a) /\ c.observed >= Rules[a].threshold
        BY <1>2, <1>7, <2>2, <3>1, <3>2, <3>3 DEF New
      <3>5. alert'[a] = Upserted(a, c.event, c.risk)
        BY <3>1, <3>4 DEF Execute, TypeInv, TypeOK
      <3>6. Upserted(a, c.event, c.risk) \in Rows
        BY <1>1, UpsertedTyped DEF Counted
      <3>7. c.event \in Upserted(a, c.event, c.risk).events
        BY DEF Upserted
      <3> QED
        BY <1>3, <3>1, <3>5, <3>6, <3>7 DEF Exists, Raised
    <2> QED
      BY <2>1, <2>2
  <1>8. BurstRaisesAlert'
    BY <1>3, <1>4, <1>7 DEF BurstRaisesAlert, InView, Before, Raised
  <1> QED
    BY <1>5, <1>8 DEF BurstInv

LEMMA BurstOther ==
    ASSUME TypeInv, BurstInv, [Next]_vars,
           UNCHANGED <<arrived, executions>>,
           \A w \in Workers : worker'[w] = worker[w] \/ worker'[w] = None
    PROVE  BurstInv'
  <1>1. Arrived' = Arrived
    BY DEF Arrived
  <1>2. \A i : Before(i)' = Before(i) /\ InView(i)' = InView(i)
    BY <1>1 DEF Before, InView, Window
  <1>3. \A w \in Workers : worker'[w] # None => worker'[w] = worker[w]
    OBVIOUS
  <1>4. CountedInv'
    BY <1>1, <1>2, <1>3 DEF BurstInv, CountedInv
  <1>5. ASSUME NEW a \in Alerts, NEW i \in 1..Len(arrived), Raised(a, i)
        PROVE  Raised(a, i)'
    BY <1>5, RaisedStays
  <1>6. BurstRaisesAlert'
    BY <1>2, <1>5, BurstsRead DEF BurstInv, BurstRaisesAlert, InView, Before, Raised
  <1> QED
    BY <1>4, <1>6 DEF BurstInv

LEMMA BurstStep ==
    ASSUME TypeInv, BurstInv, [Next]_vars
    PROVE  BurstInv'
  <1>1. ASSUME NEW e \in Events, Arrive(e)
        PROVE  BurstInv'
    BY <1>1, BurstArrive
  <1>2. ASSUME NEW w \in Workers, NEW e \in Events, Count(w, e)
        PROVE  BurstInv'
    BY <1>2, BurstCount
  <1>3. ASSUME NEW w \in Workers, Execute(w)
        PROVE  BurstInv'
    BY <1>3, BurstExecute
  <1>4. ASSUME NEW w \in Workers, Abandon(w)
        PROVE  BurstInv'
    <2>1. /\ UNCHANGED <<arrived, executions>>
          /\ \A v \in Workers : worker'[v] = worker[v] \/ worker'[v] = None
      BY <1>4 DEF Abandon, TypeInv, TypeOK
    <2> QED
      BY <2>1, BurstOther
  <1>5. ASSUME NEW a \in Alerts,
               Judge(a) \/ AutoCreate(a) \/ Retry(a) \/ Redeliver(a) \/ Lapse(a)
        PROVE  UNCHANGED detection
    BY <1>5 DEF Judge, AutoCreate, Retry, Redeliver, Lapse
  <1>6. ASSUME NEW p \in Analysts,
               \/ Draft(p) \/ Create(p) \/ Discard(p) \/ Decide(p) \/ Reject(p)
               \/ \E a \in Alerts, to \in Statuses \ {"OPEN"} : Send(p, a, to)
        PROVE  UNCHANGED detection
    BY <1>6 DEF Draft, Create, Discard, Decide, Reject, Send
  <1>7. CASE EditRule
    BY <1>7, BurstOther DEF EditRule
  <1>8. CASE UNCHANGED detection
    BY <1>8, BurstOther DEF detection
  <1>9. CASE UNCHANGED vars
    BY <1>8, <1>9 DEF vars
  <1> QED
    BY <1>1, <1>2, <1>3, <1>4, <1>5, <1>6, <1>7, <1>8, <1>9 DEF Next, Run

(* An event that completes a burst when it arrives raises the alert once   *)
(* it is executed: its job counts after its arrival is committed, though   *)
(* without any lock, and arrivals are never withdrawn.                     *)
THEOREM BurstsRaise == Spec => []BurstRaisesAlert
  <1>1. Init => BurstInv
    BY DEF Init, BurstInv, CountedInv, BurstRaisesAlert
  <1>2. BurstInv => BurstRaisesAlert
    BY DEF BurstInv
  <1> QED
    BY <1>1, <1>2, BurstStep, TypesHold, PTL DEF Spec
=============================================================================
