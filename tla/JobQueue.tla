------------------------------ MODULE JobQueue ------------------------------
(***************************************************************************)
(* The BullMQ queues between the outbox dispatcher and the processors, as  *)
(* far as this repository relies on them: a job is named by its jobId,     *)
(* adding a jobId that is still known is a no-op, a job has a bounded      *)
(* number of attempts, and finished jobs are forgotten after a while       *)
(* (removeOnComplete, removeOnFail).  The queues differ only in which      *)
(* processor they call, so they are one map from jobId to job here.        *)
(*                                                                         *)
(* A processor commits its PostgreSQL transaction before BullMQ hears that *)
(* the job is complete, so "committed" is a state of its own: a worker     *)
(* that dies there has its job run again.                                  *)
(***************************************************************************)
EXTENDS Naturals

CONSTANTS
    Jobs,         \* the jobIds
    MaxAttempts,  \* attempts: 5
    MaxStalls     \* BullMQ's maxStalledCount, which the workers leave at 1

ASSUME QueueAssumption ==
    /\ MaxAttempts \in Nat \ {0}
    /\ MaxStalls \in Nat

VARIABLES
    jobState,   \* where the queue has each jobId
    attempts,   \* failed attempts of the job the queue knows
    stalls,     \* times a worker died holding it
    handled,    \* history: jobIds whose processor committed at least once
    exhausted   \* history: jobIds that ended in the failed set at least once

queueVars == <<jobState, attempts, stalls, handled, exhausted>>

Queued    == {"waiting", "active", "committed"}
Forgettable == {"completed", "failed"}
JobStates == Queued \cup Forgettable \cup {"absent"}

QueueTypeOK ==
    /\ jobState \in [Jobs -> JobStates]
    /\ attempts \in [Jobs -> 0..MaxAttempts]
    /\ stalls \in [Jobs -> 0..MaxStalls]
    /\ handled \subseteq Jobs
    /\ exhausted \subseteq Jobs

QueueInit ==
    /\ jobState = [j \in Jobs |-> "absent"]
    /\ attempts = [j \in Jobs |-> 0]
    /\ stalls = [j \in Jobs |-> 0]
    /\ handled = {}
    /\ exhausted = {}

(* queue.add: a jobId the queue still knows, even as a finished job, is    *)
(* left as it is.                                                          *)
Enqueue(j) ==
    /\ IF jobState[j] = "absent"
       THEN /\ jobState' = [jobState EXCEPT ![j] = "waiting"]
            /\ attempts' = [attempts EXCEPT ![j] = 0]
            /\ stalls' = [stalls EXCEPT ![j] = 0]
       ELSE UNCHANGED <<jobState, attempts, stalls>>
    /\ UNCHANGED <<handled, exhausted>>

(* A worker with a free slot takes the job.                                *)
Start(j) ==
    /\ jobState[j] = "waiting"
    /\ jobState' = [jobState EXCEPT ![j] = "active"]
    /\ UNCHANGED <<attempts, stalls, handled, exhausted>>

(* The processor's transaction commits.                                    *)
Commit(j) ==
    /\ jobState[j] = "active"
    /\ jobState' = [jobState EXCEPT ![j] = "committed"]
    /\ handled' = handled \cup {j}
    /\ UNCHANGED <<attempts, stalls, exhausted>>

Complete(j) ==
    /\ jobState[j] = "committed"
    /\ jobState' = [jobState EXCEPT ![j] = "completed"]
    /\ UNCHANGED <<attempts, stalls, handled, exhausted>>

EndFailed(j) ==
    /\ jobState' = [jobState EXCEPT ![j] = "failed"]
    /\ exhausted' = exhausted \cup {j}

\* A plausible defect: a job whose attempt failed is removed at once, as with
\* the default of one attempt and removeOnFail: true.
ThrowRemoves(j) ==
    /\ jobState[j] = "active"
    /\ attempts' = [attempts EXCEPT ![j] = @ + 1]
    /\ jobState' = [jobState EXCEPT ![j] = "absent"]
    /\ UNCHANGED <<stalls, handled, exhausted>>

(* The processor throws: the transaction rolled back and the attempt is    *)
(* counted; the last one leaves the job in the failed set.                 *)
Throw(j) ==
    /\ jobState[j] = "active"
    /\ attempts' = [attempts EXCEPT ![j] = @ + 1]
    /\ IF attempts[j] + 1 = MaxAttempts
       THEN EndFailed(j)
       ELSE /\ jobState' = [jobState EXCEPT ![j] = "waiting"]
            /\ UNCHANGED exhausted
    /\ UNCHANGED <<stalls, handled>>

(* The worker dies with the job, before or after the processor's commit;   *)
(* the stalled check gives the job to another worker, MaxStalls times.     *)
Stall(j) ==
    /\ jobState[j] \in {"active", "committed"}
    /\ \/ /\ stalls[j] < MaxStalls
          /\ stalls' = [stalls EXCEPT ![j] = @ + 1]
          /\ jobState' = [jobState EXCEPT ![j] = "waiting"]
          /\ UNCHANGED exhausted
       \/ /\ stalls[j] = MaxStalls
          /\ EndFailed(j)
          /\ UNCHANGED stalls
    /\ UNCHANGED <<attempts, handled>>

(* removeOnComplete and removeOnFail: the jobId may be added again.        *)
Forget(j) ==
    /\ jobState[j] \in Forgettable
    /\ jobState' = [jobState EXCEPT ![j] = "absent"]
    /\ UNCHANGED <<attempts, stalls, handled, exhausted>>

QueueStep(j) ==
    \/ Start(j) \/ Commit(j) \/ Complete(j)
    \/ Throw(j) \/ Stall(j) \/ Forget(j)

(* What the workers keep doing as long as the process runs.                *)
WorkerStep(j) == Start(j) \/ Commit(j) \/ Complete(j)
=============================================================================
