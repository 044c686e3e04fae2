------------------------------- MODULE Outbox -------------------------------
(***************************************************************************)
(* The transactional outbox and its dispatchers                            *)
(* (apps/worker/src/outbox-dispatcher.ts).  Producers insert rows of       *)
(* outbox_events in the transaction that changes their own tables; every   *)
(* worker process runs one OutboxDispatcher that claims due rows under a   *)
(* one-minute lease, hands each to BullMQ and confirms it.                 *)
(*                                                                         *)
(* Time is abstract: due[e] says whether available_at <= now().  A claim   *)
(* or a failed publication moves available_at to the future (due becomes   *)
(* FALSE) and Elapse lets it pass at any moment, also while a slow         *)
(* dispatcher still holds the row, so a dispatcher may be arbitrarily      *)
(* slower than its lease.                                                  *)
(*                                                                         *)
(* Each SQL statement runs in a transaction of its own and is one step; an *)
(* error reaches the dispatcher either before the effect or, as a lost     *)
(* reply, after it.                                                        *)
(***************************************************************************)
EXTENDS JobQueue, FiniteSets

CONSTANTS
    Events,       \* the outbox rows
    Dispatchers,  \* the worker processes
    JobOf,        \* the jobId the dispatcher's route() gives each event
    Unroutable,   \* events whose payload route() rejects
    Age,          \* occurred_at: the order in which rows are claimed
    MaxRetry,     \* retry_count < 10
    Limit,        \* LIMIT 200
    None          \* no row

ASSUME OutboxAssumption ==
    /\ JobOf \in [Events -> Jobs]
    /\ Unroutable \subseteq Events
    /\ Age \in [Events -> Nat]
    /\ MaxRetry \in Nat \ {0}
    /\ Limit \in Nat \ {0}
    /\ None \notin Events

VARIABLES
    status,  \* outbox_events.status; "NONE" before the producer commits
    retry,   \* outbox_events.retry_count
    due,     \* outbox_events.available_at <= now()
    held,    \* per dispatcher: the retry_count its claim returned for each row
             \* of the batch it still has to publish, 0 for every other row
    phase,   \* per dispatcher: what it awaits
    cur,     \* per dispatcher: the row it is publishing
    added    \* history: rows whose job was given to the queue

rowVars == <<status, retry, due>>
dispatcherVars == <<held, phase, cur>>
vars == <<rowVars, dispatcherVars, added, queueVars>>

Live     == {"PENDING", "PROCESSING"}
Settled  == {"PUBLISHED", "FAILED"}
Statuses == Live \cup Settled \cup {"NONE"}
Phases   == {"ready", "confirming", "failing"}

TypeOK ==
    /\ QueueTypeOK
    /\ status \in [Events -> Statuses]
    /\ retry \in [Events -> 0..MaxRetry]
    /\ due \in [Events -> BOOLEAN]
    /\ held \in [Dispatchers -> [Events -> 0..MaxRetry]]
    /\ phase \in [Dispatchers -> Phases]
    /\ cur \in [Dispatchers -> Events \cup {None}]
    /\ added \subseteq Events

NoRows == [e \in Events |-> 0]

(* publish() returns: on to the next row of the batch.                     *)
NextRow(d) ==
    /\ held' = [held EXCEPT ![d][cur[d]] = 0]
    /\ phase' = [phase EXCEPT ![d] = "ready"]
    /\ cur' = [cur EXCEPT ![d] = None]

Init ==
    /\ QueueInit
    /\ status = [e \in Events |-> "NONE"]
    /\ retry = [e \in Events |-> 0]
    /\ due = [e \in Events |-> FALSE]
    /\ held = [d \in Dispatchers |-> NoRows]
    /\ phase = [d \in Dispatchers |-> "ready"]
    /\ cur = [d \in Dispatchers |-> None]
    /\ added = {}

(***************************************************************************)
(* Plausible defects of the dispatcher, each a variant of the definition   *)
(* named after it below.  The specification uses none of them.             *)
(***************************************************************************)
\* The claim forgets that PROCESSING rows with an expired lease are eligible.
ClaimablePendingOnly(e) == status[e] = "PENDING" /\ due[e] /\ retry[e] < MaxRetry

\* The give-up threshold is reached one attempt early.
GaveUpEarly(d) == held[d][cur[d]] + 1 >= MaxRetry

\* A claimed row is confirmed before its job is given to the queue.
HandOverLater(d, e) ==
    /\ phase' = [phase EXCEPT ![d] = "confirming"]
    /\ UNCHANGED <<added, queueVars>>

----------------------------------------------------------------------------
(* A producer's transaction commits a row, due at once or, for the SLA     *)
(* reminders of an incident, later.                                        *)
Record(e) ==
    /\ status[e] = "NONE"
    /\ status' = [status EXCEPT ![e] = "PENDING"]
    /\ \E now \in BOOLEAN : due' = [due EXCEPT ![e] = now]
    /\ UNCHANGED <<retry, dispatcherVars, added, queueVars>>

(* available_at passes.                                                    *)
Elapse(e) ==
    /\ status[e] \in Live
    /\ ~due[e]
    /\ due' = [due EXCEPT ![e] = TRUE]
    /\ UNCHANGED <<status, retry, dispatcherVars, added, queueVars>>

(* The WHERE clause of the claim.                                          *)
Claimable(e) == status[e] \in Live /\ due[e] /\ retry[e] < MaxRetry

(* A dispatcher starts a cycle only when the previous one has ended        *)
(* (the polling flag).                                                     *)
Idle(d) == phase[d] = "ready" /\ held[d] = NoRows

(* Rows another dispatcher is updating right now; SKIP LOCKED passes over  *)
(* them.                                                                   *)
Locked(d) ==
    {cur[o] : o \in Dispatchers \ {d}} \ {None}

(* retry_count as RETURNING gives it: after the increment.                 *)
Token(e) == retry[e] + 1

(* claim(): the oldest Limit eligible rows become PROCESSING under a new   *)
(* lease.  RETURNING promises no order, so the batch is a set of rows.     *)
Claim(d) ==
    /\ Idle(d)
    /\ \E skipped \in SUBSET Locked(d) :
         LET eligible == {e \in Events : Claimable(e)} \ skipped IN
         \E batch \in SUBSET eligible :
           /\ batch # {}
           /\ Cardinality(batch) <= Limit
           /\ batch # eligible => Cardinality(batch) = Limit
           /\ \A e \in batch, f \in eligible \ batch : Age[e] <= Age[f]
           /\ status' = [e \in Events |-> IF e \in batch THEN "PROCESSING" ELSE status[e]]
           /\ retry' = [e \in Events |-> IF e \in batch THEN Token(e) ELSE retry[e]]
           /\ due' = [e \in Events |-> due[e] /\ e \notin batch]
           /\ held' = [held EXCEPT ![d] = [e \in Events |-> IF e \in batch THEN Token(e) ELSE 0]]
    /\ UNCHANGED <<phase, cur, added, queueVars>>

(* queue.add(...) resolved: on to updatePublished.                         *)
HandOver(d, e) ==
    /\ phase' = [phase EXCEPT ![d] = "confirming"]
    /\ added' = added \cup {e}
    /\ Enqueue(JobOf[e])

(* publish(): the next row of the batch goes to its queue.                 *)
Publish(d, e) ==
    /\ phase[d] = "ready"
    /\ held[d][e] > 0
    /\ e \notin Unroutable
    /\ cur' = [cur EXCEPT ![d] = e]
    /\ HandOver(d, e)
    /\ UNCHANGED <<rowVars, held>>

(* publish() throws before updatePublished: route() rejects the payload,   *)
(* Redis refuses the job, or the reply of an add that took effect is lost. *)
PublishFails(d, e) ==
    /\ phase[d] = "ready"
    /\ held[d][e] > 0
    /\ cur' = [cur EXCEPT ![d] = e]
    /\ phase' = [phase EXCEPT ![d] = "failing"]
    /\ \/ UNCHANGED <<added, queueVars>>
       \/ e \notin Unroutable /\ added' = added \cup {e} /\ Enqueue(JobOf[e])
    /\ UNCHANGED <<rowVars, held>>

(* updatePublished(): only a PROCESSING row is confirmed.  If the reply is *)
(* lost the catch block runs updateFailed on the row it just published.    *)
Confirm(d) ==
    LET e == cur[d] IN
    /\ phase[d] = "confirming"
    /\ status' = [status EXCEPT ![e] = IF @ = "PROCESSING" THEN "PUBLISHED" ELSE @]
    /\ \/ NextRow(d)
       \/ phase' = [phase EXCEPT ![d] = "failing"] /\ UNCHANGED <<held, cur>>
    /\ UNCHANGED <<retry, due, added, queueVars>>

(* updatePublished() rolls back: the catch block takes the job it has just *)
(* added for not published.                                                *)
ConfirmFails(d) ==
    /\ phase[d] = "confirming"
    /\ phase' = [phase EXCEPT ![d] = "failing"]
    /\ UNCHANGED <<rowVars, held, cur, added, queueVars>>

(* const failed = retryCount >= 10                                         *)
GaveUp(d) == held[d][cur[d]] >= MaxRetry

(* updateFailed(): only a PROCESSING row goes back to PENDING, with a      *)
(* backoff, or to FAILED.                                                  *)
Fail(d) ==
    LET e == cur[d] IN
    /\ phase[d] = "failing"
    /\ IF status[e] = "PROCESSING"
       THEN /\ status' = [status EXCEPT ![e] = IF GaveUp(d) THEN "FAILED" ELSE "PENDING"]
            /\ due' = [due EXCEPT ![e] = FALSE]
       ELSE UNCHANGED <<status, due>>
    /\ NextRow(d)
    /\ UNCHANGED <<retry, added, queueVars>>

(* The rest of the batch is dropped: the process dies anywhere in the      *)
(* cycle and is restarted, or updateFailed() throws out of publish() and   *)
(* poll() ends the cycle.                                                  *)
Abandon(d) ==
    /\ ~Idle(d)
    /\ held' = [held EXCEPT ![d] = NoRows]
    /\ phase' = [phase EXCEPT ![d] = "ready"]
    /\ cur' = [cur EXCEPT ![d] = None]
    /\ UNCHANGED <<rowVars, added, queueVars>>

----------------------------------------------------------------------------
DispatcherStep(d) ==
    \/ Confirm(d) \/ ConfirmFails(d) \/ Fail(d)
    \/ \E e \in Events : Publish(d, e) \/ PublishFails(d, e)

QueueOnly(j) == QueueStep(j) /\ UNCHANGED <<rowVars, dispatcherVars, added>>

Next ==
    \/ \E e \in Events : Record(e) \/ Elapse(e)
    \/ \E d \in Dispatchers : Claim(d) \/ DispatcherStep(d) \/ Abandon(d)
    \/ \E j \in Jobs : QueueOnly(j)

Spec == Init /\ [][Next]_vars

(* Every process polls again every 250 ms and finishes or drops the batch  *)
(* it has; time passes; a worker that has a job goes on with it.  Nothing  *)
(* is assumed about producers, about the success of a call, or about       *)
(* BullMQ forgetting jobs.                                                 *)
Fairness ==
    /\ \A e \in Events : WF_vars(Elapse(e))
    /\ \A d \in Dispatchers :
         WF_vars(Claim(d)) /\ WF_vars(DispatcherStep(d) \/ Abandon(d))
    /\ \A j \in Jobs :
         WF_vars(WorkerStep(j) /\ UNCHANGED <<rowVars, dispatcherVars, added>>)

FairSpec == Spec /\ Fairness

----------------------------------------------------------------------------
(* Safety.                                                                 *)

(* A row marked PUBLISHED was given to the queue and its job has not       *)
(* vanished: the queue still has it to run, a processor committed it, or   *)
(* it ended in the failed set after all its attempts.                      *)
PublishedNotLost ==
    \A e \in Events :
      status[e] = "PUBLISHED" =>
        /\ e \in added
        /\ \/ jobState[JobOf[e]] \in Queued
           \/ JobOf[e] \in handled \cup exhausted

(* A row is given up only when its last permitted claim failed, whichever  *)
(* of several dispatchers that held it over time writes the failure.       *)
FailedOnlyAtLimit ==
    \A e \in Events : status[e] = "FAILED" => retry[e] = MaxRetry

(* No dispatcher, however late, revises a settled row: not one that was    *)
(* overtaken after its lease expired, nor one that retries after losing    *)
(* the reply of its own update.                                            *)
SettledIsFinal ==
    [][\A e \in Events : status[e] \in Settled =>
          status'[e] = status[e] /\ retry'[e] = retry[e]]_vars

(* The outbox implements its contract.                                     *)
OutcomeOf ==
    [e \in Events |-> CASE status[e] = "NONE"      -> "unrecorded"
                        [] status[e] \in Live      -> "pending"
                        [] status[e] = "PUBLISHED" -> "published"
                        [] status[e] = "FAILED"    -> "abandoned"]

Contract == INSTANCE OutboxContract WITH outcome <- OutcomeOf, delivered <- added

(* Every step of the dispatchers is a step of the contract or invisible.   *)
ImplementsContract == Contract!Spec

(* Liveness.                                                               *)

(* No recorded row is forgotten while claims remain: it is settled or uses *)
(* up its claims, whatever crashes, lost replies and refusals it meets.    *)
RowSettlesOrRunsOut ==
    \A e \in Events :
      status[e] = "PENDING" ~> (status[e] \in Settled \/ retry[e] = MaxRetry)

(* A published event is processed, or its job is left in the failed set.   *)
PublishedIsProcessed ==
    \A e \in Events :
      status[e] = "PUBLISHED" ~> (JobOf[e] \in handled \cup exhausted)

(* What docs/architecture/event-ingestion.md says of unconfirmed rows: a   *)
(* PROCESSING row is in some dispatcher's hands or becomes eligible again. *)
(* The code breaks it: a dispatcher that dies during the last permitted    *)
(* claim leaves the row PROCESSING with retry_count = 10 for ever.         *)
UnconfirmedBecomesEligible ==
    \A e \in Events :
      status[e] = "PROCESSING" =>
        \/ \E d \in Dispatchers : held[d][e] > 0
        \/ retry[e] < MaxRetry
=============================================================================
