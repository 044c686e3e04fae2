------------------------------ MODULE Incident ------------------------------
(***************************************************************************)
(* The life of one incident: the API's transitions, analysis and           *)
(* assignments under optimistic concurrency (incident.use-cases.ts,        *)
(* prisma-incident.repository.ts, incident-policy.ts), and the worker's    *)
(* evaluation of its two SLA targets (incident.processor.ts).              *)
(*                                                                         *)
(* A transition is two transactions: the use case reads the incident and   *)
(* asks the policy, then the repository reads the row again, takes the     *)
(* time and writes, provided that the version the client sent and the      *)
(* status the use case read are still those of the row.  The write may     *)
(* wait for the row's lock and commits later than the time it stamps.      *)
(* Assignment and analysis read and write in one transaction whose write   *)
(* is guarded by the version it read; since every write of the row         *)
(* increments the version, read and write are one step.                    *)
(*                                                                         *)
(* Texts are BOOLEAN: present (the contracts demand ten characters, as the *)
(* policy does) or null.  Time is abstract: overdue[k] says that the       *)
(* deadline of target k has passed on the database's clock, and a stamp    *)
(* says on which side of the response deadline it lies.                    *)
(***************************************************************************)
EXTENDS Naturals

CONSTANTS
    Clients,     \* transition requests in flight
    MaxVersion,  \* bound on the versions the API creates
    MaxLag,      \* bound on how old a version a client may send
    MaxRuns,     \* runs of an evaluation: five attempts, one more after a stall
    Skewed,      \* may the clocks of API and worker differ from the database's?
    None         \* no request

VARIABLES
    status,     \* incidents.status
    version,    \* incidents.version
    root,       \* root_cause IS NOT NULL
    lessons,    \* lessons_learned IS NOT NULL
    responded,  \* first_responded_at: "no", or "intime" or "late" for the deadline
    punctual,   \* history: it was committed before the deadline
    resolved,   \* resolved_at IS NOT NULL
    closed,     \* closed_at IS NOT NULL
    overdue,    \* per target: its deadline has passed
    breached,   \* per target: response_breached_at, resolution_breached_at
    job,        \* per target: its deferred evaluation
    runs,       \* per target: runs of the evaluation that have failed
    request     \* per client: the transition between its two transactions

analysis == <<root, lessons>>
stamps   == <<responded, punctual, resolved, closed>>
row      == <<status, version, analysis, stamps, breached>>
work     == <<job, runs>>
vars     == <<row, overdue, work, request>>

Targets  == {"RESPONSE", "RESOLUTION"}
Statuses == {"OPEN", "TRIAGED", "INVESTIGATING", "CONTAINED", "RESOLVED", "CLOSED"}

(* TRANSITIONS of incident-policy.ts.                                      *)
Transitions ==
    [OPEN          |-> {"TRIAGED", "CLOSED"},
     TRIAGED       |-> {"INVESTIGATING", "CLOSED"},
     INVESTIGATING |-> {"CONTAINED", "RESOLVED"},
     CONTAINED     |-> {"INVESTIGATING", "RESOLVED"},
     RESOLVED      |-> {"CLOSED", "INVESTIGATING"},
     CLOSED        |-> {"INVESTIGATING"}]

Sides == {"intime", "late"}
Requests ==
    [version: Nat, from: Statuses, to: Statuses, root: BOOLEAN, lessons: BOOLEAN,
     now: Sides \cup {"untaken"}]

TypeOK ==
    /\ status \in Statuses
    /\ version \in Nat
    /\ root \in BOOLEAN
    /\ lessons \in BOOLEAN
    /\ responded \in Sides \cup {"no"}
    /\ punctual \in BOOLEAN
    /\ resolved \in BOOLEAN
    /\ closed \in BOOLEAN
    /\ overdue \in [Targets -> BOOLEAN]
    /\ breached \in [Targets -> BOOLEAN]
    /\ job \in [Targets -> {"deferred", "queued", "writing", "done", "failed"}]
    /\ runs \in [Targets -> 0..MaxRuns]
    /\ request \in [Clients -> Requests \cup {None}]

(* A new incident, created by the worker or by the API: scheduleSla() has  *)
(* put both evaluations in the outbox.  Its deadlines count from the       *)
(* first detection, so they may have passed already.                       *)
Init ==
    /\ status = "OPEN"
    /\ version = 1
    /\ root = FALSE
    /\ lessons = FALSE
    /\ responded = "no"
    /\ punctual = FALSE
    /\ resolved = FALSE
    /\ closed = FALSE
    /\ overdue \in {[k \in Targets |-> FALSE], [k \in Targets |-> k = "RESPONSE"],
                    [k \in Targets |-> TRUE]}
    /\ breached = [k \in Targets |-> FALSE]
    /\ job = [k \in Targets |-> "deferred"]
    /\ runs = [k \in Targets |-> 0]
    /\ request = [c \in Clients |-> None]

----------------------------------------------------------------------------
(* The API.                                                                *)

(* assertTransition() of the policy.                                       *)
Allowed(from, to, hasRoot, hasLessons) ==
    /\ to \in Transitions[from]
    /\ to \in {"RESOLVED", "CLOSED"} => hasRoot
    /\ to = "CLOSED" => hasLessons

(* The use case: it reads the incident and asks the policy with the texts  *)
(* of the request or else of the row.  The client sends a version it has   *)
(* seen; one that is too old is refused in the end, as one that grows old. *)
Submit(c) ==
    /\ request[c] = None
    /\ \E seen \in {v \in 1..version : version <= v + MaxLag}, to \in Statuses, newRoot, newLessons \in BOOLEAN :
         /\ Allowed(status, to, newRoot \/ root, newLessons \/ lessons)
         /\ request' = [request EXCEPT ![c] =
              [version |-> seen, from |-> status, to |-> to,
               root |-> newRoot, lessons |-> newLessons, now |-> "untaken"]]
    /\ UNCHANGED <<row, overdue, work>>

\* A plausible defect: the write is not guarded by the version.
StillCurrentStatusOnly(q) == status = q.from

(* existing.version = input.version and existing.status = currentStatus.   *)
StillCurrent(q) == version = q.version /\ status = q.from

Clock == IF Skewed THEN Sides ELSE IF overdue["RESPONSE"] THEN {"late"} ELSE {"intime"}

(* The repository finds the row as the client and the use case saw it, and *)
(* takes the time on the API's clock.                                      *)
TakeTime(c) ==
    /\ request[c] # None
    /\ request[c].now = "untaken"
    /\ StillCurrent(request[c])
    /\ \E side \in Clock : request' = [request EXCEPT ![c].now = side]
    /\ UNCHANGED <<row, overdue, work>>

\* A plausible defect: a reopened incident keeps its resolution.
StampKeepingResolution(q) ==
    /\ responded' = IF responded = "no" THEN q.now ELSE responded
    /\ punctual' = IF responded = "no" THEN ~overdue["RESPONSE"] ELSE punctual
    /\ resolved' = (resolved \/ q.to \in {"RESOLVED", "CLOSED"})
    /\ closed' = (closed \/ q.to = "CLOSED")

(* first_responded_at is set by the first transition; resolved_at and      *)
(* closed_at by resolving and closing, and cleared by reopening.           *)
Stamp(q) ==
    LET reopens == q.to = "INVESTIGATING" /\ q.from \in {"RESOLVED", "CLOSED"} IN
    /\ responded' = IF responded = "no" THEN q.now ELSE responded
    /\ punctual' = IF responded = "no" THEN ~overdue["RESPONSE"] ELSE punctual
    /\ resolved' = (~reopens /\ (resolved \/ q.to \in {"RESOLVED", "CLOSED"}))
    /\ closed' = (~reopens /\ (closed \/ q.to = "CLOSED"))

(* UPDATE ... WHERE version and status, once nobody else holds the row,    *)
(* and COMMIT.                                                             *)
Transit(c) ==
    LET q == request[c] IN
    /\ q # None
    /\ q.now # "untaken"
    /\ version < MaxVersion
    /\ StillCurrent(q)
    /\ status' = q.to
    /\ version' = version + 1
    /\ root' = (root \/ q.root)
    /\ lessons' = (lessons \/ q.lessons)
    /\ Stamp(q)
    /\ request' = [request EXCEPT ![c] = None]
    /\ UNCHANGED <<overdue, breached, work>>

(* A conflict at the read or at the UPDATE, or the request dies.           *)
Refuse(c) ==
    /\ request[c] # None
    /\ request' = [request EXCEPT ![c] = None]
    /\ UNCHANGED <<row, overdue, work>>

(* What a resolved incident must keep, a closed one in addition.           *)
Withdrawable(r, l) ==
    /\ status \in {"RESOLVED", "CLOSED"} => r # "null"
    /\ status = "CLOSED" => l # "null"

(* updateAnalysis(): each text is left alone, written or set to null.      *)
Edited(has, edit) == IF edit = "keep" THEN has ELSE edit = "text"

UpdateAnalysis ==
    /\ version < MaxVersion
    /\ \E r, l \in {"keep", "text", "null"} :
         /\ ~(r = "keep" /\ l = "keep")
         /\ Withdrawable(r, l)
         /\ root' = Edited(root, r)
         /\ lessons' = Edited(lessons, l)
    /\ version' = version + 1
    /\ UNCHANGED <<status, stamps, overdue, breached, work, request>>

(* assign(): it touches nothing the model keeps but the version.           *)
Assign ==
    /\ version < MaxVersion
    /\ version' = version + 1
    /\ UNCHANGED <<status, analysis, stamps, overdue, breached, work, request>>

----------------------------------------------------------------------------
(* The worker.                                                             *)

(* A deadline passes; the resolution deadline is the later one.            *)
Elapse(k) ==
    /\ ~overdue[k]
    /\ k = "RESOLUTION" => overdue["RESPONSE"]
    /\ overdue' = [overdue EXCEPT ![k] = TRUE]
    /\ UNCHANGED <<row, work, request>>

(* The outbox releases the evaluation at available_at, and may deliver it  *)
(* again when the queue has forgotten it.                                  *)
Deliver(k) ==
    /\ overdue[k]
    /\ job[k] \in {"deferred", "done", "failed"}
    /\ job' = [job EXCEPT ![k] = "queued"]
    /\ runs' = [runs EXCEPT ![k] = 0]
    /\ UNCHANGED <<row, overdue, request>>

(* Its outbox row uses up its claims and never reaches the queue.          *)
Abandon(k) ==
    /\ overdue[k]
    /\ job[k] = "deferred"
    /\ job' = [job EXCEPT ![k] = "failed"]
    /\ UNCHANGED <<row, overdue, runs, request>>

(* A run fails: the job is tried again or, after the last attempt or a     *)
(* second stall, stays in the failed set.                                  *)
RunFails(k) ==
    /\ runs' = [runs EXCEPT ![k] = @ + 1]
    /\ \/ runs[k] + 1 < MaxRuns /\ job' = [job EXCEPT ![k] = "queued"]
       \/ job' = [job EXCEPT ![k] = "failed"]

Met(k) == IF k = "RESPONSE" THEN responded # "no" ELSE resolved

\* A plausible defect: the evaluation trusts the deferral and does not look
\* whether the incident has been answered meanwhile.
BreachUnchecked(k) == ~breached[k]

(* evaluateSla() under its advisory lock: not yet breached, not met, and   *)
(* overdue on the worker's own clock.                                      *)
Breach(k) == ~breached[k] /\ ~Met(k)

Evaluate(k) ==
    /\ job[k] = "queued"
    /\ \E label \in IF Breach(k) THEN IF Skewed THEN {"writing", "done"} ELSE {"writing"}
                    ELSE {"done"} :
         job' = [job EXCEPT ![k] = label]
    /\ UNCHANGED <<row, overdue, runs, request>>

\* A plausible defect: the breach is computed and the column never written.
WriteNothing(k) ==
    /\ job[k] = "writing"
    /\ job' = [job EXCEPT ![k] = "done"]
    /\ UNCHANGED <<row, overdue, runs, request>>

(* UPDATE ... WHERE column IS NULL, with timeline entry and notification.  *)
(* The row was not locked: what was read may have changed.  The reply of   *)
(* the COMMIT may be lost.                                                 *)
WriteBreach(k) ==
    /\ job[k] = "writing"
    /\ breached' = [breached EXCEPT ![k] = TRUE]
    /\ version' = IF breached[k] THEN version ELSE version + 1
    /\ \/ job' = [job EXCEPT ![k] = "done"] /\ UNCHANGED runs
       \/ RunFails(k)
    /\ UNCHANGED <<status, analysis, stamps, overdue, request>>

(* The attempt throws or the worker dies: nothing is written.              *)
Retry(k) ==
    /\ job[k] \in {"queued", "writing"}
    /\ RunFails(k)
    /\ UNCHANGED <<row, overdue, request>>

Run(k) == Evaluate(k) \/ WriteBreach(k) \/ Retry(k)

----------------------------------------------------------------------------
Next ==
    \/ \E c \in Clients : Submit(c) \/ TakeTime(c) \/ Transit(c) \/ Refuse(c)
    \/ UpdateAnalysis \/ Assign
    \/ \E k \in Targets : Elapse(k) \/ Deliver(k) \/ Abandon(k) \/ Run(k)

Spec == Init /\ [][Next]_vars

(* The outbox releases a deferred evaluation or gives it up, and the       *)
(* worker runs what is queued; every run ends, well or badly.  Clients owe *)
(* nothing.                                                                *)
Fairness ==
    \A k \in Targets :
      /\ WF_vars(job[k] = "deferred" /\ Deliver(k))
      /\ WF_vars(Run(k))

FairSpec == Spec /\ Fairness

----------------------------------------------------------------------------
(* Nobody can make an incident resolved without a root cause, or closed    *)
(* without lessons learned: neither a transition whose texts another       *)
(* request withdraws between its two transactions, nor a withdrawal that   *)
(* races a transition.                                                     *)
ClosedIsAnalysed ==
    /\ status \in {"RESOLVED", "CLOSED"} => root
    /\ status = "CLOSED" => root /\ lessons

(* Two requests that read the same status cannot take the incident along   *)
(* an edge the policy does not have.                                       *)
OnlyListedTransitions ==
    [][status' # status => status' \in Transitions[status]]_vars

(* resolved_at and closed_at say what the status says: the evaluation of   *)
(* the SLA and the list of breached incidents read the stamps.             *)
StampsAgree ==
    /\ resolved <=> status \in {"RESOLVED", "CLOSED"}
    /\ closed <=> status = "CLOSED"

(* A response that was committed before its deadline is never marked as a  *)
(* breach: every evaluation, however often it runs and whatever it races,  *)
(* sees it.  (One that was stamped before the deadline and committed after *)
(* it may be: an evaluation that read NULL meanwhile writes the breach     *)
(* without looking again, beside a first_responded_at that is in time.)    *)
ResponseBreachIsReal == breached["RESPONSE"] => ~punctual

(* An incident nobody answered in time is marked, unless the answer comes  *)
(* before the mark or the evaluation ends in the failed set, which nobody  *)
(* takes up again.                                                         *)
OverdueResponseMarked ==
    (overdue["RESPONSE"] /\ responded = "no") ~>
      (breached["RESPONSE"] \/ responded # "no" \/ job["RESPONSE"] = "failed")
=============================================================================
