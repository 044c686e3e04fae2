---------------------------- MODULE OutboxProofs ----------------------------
(***************************************************************************)
(* Proofs about Outbox, for any number of rows, dispatchers and permitted  *)
(* claims: type correctness, the two safety invariants, the finality of    *)
(* settled rows and the implementation of OutboxContract.                  *)
(*                                                                         *)
(* PublishedNotLost is not inductive: whether a confirmation may follow    *)
(* depends on what the dispatcher did before, so the invariant also speaks *)
(* of rows that were added but not yet confirmed, of what each phase of a  *)
(* dispatcher implies, and of what each state of a job has left behind.    *)
(***************************************************************************)
EXTENDS Outbox, TLAPS

(* A finished or committed job has left its mark in the history, and a     *)
(* job that can still run has attempts left.                               *)
JobsInv ==
    \A j \in Jobs :
      /\ jobState[j] \in {"committed", "completed"} => j \in handled
      /\ jobState[j] = "failed" => j \in exhausted
      /\ jobState[j] \in Queued => attempts[j] < MaxAttempts

Known(j) == jobState[j] \in Queued \/ j \in handled \cup exhausted

(* A row given to the queue is still known there or was dealt with.        *)
AddedInv == \A e \in added : Known(JobOf[e])

(* What a dispatcher knows in each phase, and that a claim's retry count   *)
(* never exceeds the row's: a late dispatcher holds an older one.          *)
DispatcherInv ==
    \A d \in Dispatchers :
      /\ \A e \in Events : held[d][e] <= retry[e]
      /\ phase[d] # "ready" => cur[d] \in Events
      /\ phase[d] = "confirming" => cur[d] \in added

PublishedInv == \A e \in Events : status[e] = "PUBLISHED" => e \in added

(* Only recorded rows are claimed.                                         *)
StartedInv == \A e \in Events : status[e] = "NONE" => retry[e] = 0

IInv ==
    /\ TypeOK /\ JobsInv /\ AddedInv /\ DispatcherInv
    /\ PublishedInv /\ StartedInv /\ FailedOnlyAtLimit

USE QueueAssumption, OutboxAssumption

----------------------------------------------------------------------------
LEMMA InitIInv == Init => IInv
  BY DEF Init, QueueInit, IInv, TypeOK, QueueTypeOK, JobsInv, AddedInv, DispatcherInv,
         PublishedInv, StartedInv, FailedOnlyAtLimit, NoRows, JobStates, Queued, Forgettable,
         Statuses, Live, Settled, Phases

(* The parts that speak of the queue alone are preserved by adding a job   *)
(* and by every step of the workers.                                       *)
QueueInv == QueueTypeOK /\ JobsInv

LEMMA EnqueueInv ==
    ASSUME NEW j \in Jobs, QueueInv, Enqueue(j)
    PROVE  /\ QueueInv'
           /\ Known(j)'
           /\ \A k \in Jobs : Known(k) => Known(k)'
  BY DEF QueueInv, QueueTypeOK, JobsInv, Enqueue, Known, JobStates, Queued, Forgettable

LEMMA QueueStepInv ==
    ASSUME NEW j \in Jobs, QueueInv, QueueStep(j)
    PROVE  /\ QueueInv'
           /\ \A k \in Jobs : Known(k) => Known(k)'
  <1> USE DEF QueueInv, QueueTypeOK, JobsInv, Known, JobStates, Queued, Forgettable
  <1>1. CASE Start(j)
    BY <1>1 DEF Start
  <1>2. CASE Commit(j)
    BY <1>2 DEF Commit
  <1>3. CASE Complete(j)
    BY <1>3 DEF Complete
  <1>4. CASE Throw(j)
    BY <1>4 DEF Throw, EndFailed
  <1>5. CASE Stall(j)
    BY <1>5 DEF Stall, EndFailed
  <1>6. CASE Forget(j)
    BY <1>6 DEF Forget
  <1> QED
    BY <1>1, <1>2, <1>3, <1>4, <1>5, <1>6 DEF QueueStep

(* Leaving a row only takes tokens away and touches no other dispatcher.   *)
LEMMA NextRowInv ==
    ASSUME NEW d \in Dispatchers, NextRow(d), cur[d] \in Events,
           held \in [Dispatchers -> [Events -> 0..MaxRetry]],
           phase \in [Dispatchers -> Phases],
           cur \in [Dispatchers -> Events \cup {None}]
    PROVE  /\ held' \in [Dispatchers -> [Events -> 0..MaxRetry]]
           /\ phase' \in [Dispatchers -> Phases]
           /\ cur' \in [Dispatchers -> Events \cup {None}]
           /\ \A o \in Dispatchers, e \in Events : held'[o][e] = held[o][e] \/ held'[o][e] = 0
           /\ \A o \in Dispatchers : phase'[o] # "ready" => phase'[o] = phase[o] /\ cur'[o] = cur[o]
  <1> DEFINE h == [held[d] EXCEPT ![cur[d]] = 0]
  <1>1. held' = [held EXCEPT ![d] = h]
    BY DEF NextRow
  <1>2. h \in [Events -> 0..MaxRetry] /\ \A e \in Events : h[e] = held[d][e] \/ h[e] = 0
    OBVIOUS
  <1> HIDE DEF h
  <1>3. held' \in [Dispatchers -> [Events -> 0..MaxRetry]]
    BY <1>1, <1>2
  <1>4. \A o \in Dispatchers, e \in Events : held'[o][e] = held[o][e] \/ held'[o][e] = 0
    BY <1>1, <1>2
  <1>5. /\ phase' \in [Dispatchers -> Phases]
        /\ cur' \in [Dispatchers -> Events \cup {None}]
        /\ \A o \in Dispatchers : phase'[o] # "ready" => phase'[o] = phase[o] /\ cur'[o] = cur[o]
    BY DEF NextRow, Phases
  <1> QED
    BY <1>3, <1>4, <1>5

(* So what the dispatchers know stays true when rows only gain claims.     *)
LEMMA NextRowKnows ==
    ASSUME NEW d \in Dispatchers, NextRow(d), cur[d] \in Events, DispatcherInv, TypeOK,
           UNCHANGED <<retry, added>>
    PROVE  DispatcherInv'
  <1>1. /\ held \in [Dispatchers -> [Events -> 0..MaxRetry]]
        /\ phase \in [Dispatchers -> Phases]
        /\ cur \in [Dispatchers -> Events \cup {None}]
        /\ retry \in [Events -> 0..MaxRetry]
    BY DEF TypeOK
  <1>2. /\ \A o \in Dispatchers, e \in Events : held'[o][e] = held[o][e] \/ held'[o][e] = 0
        /\ \A o \in Dispatchers : phase'[o] # "ready" => phase'[o] = phase[o] /\ cur'[o] = cur[o]
    BY <1>1, NextRowInv
  <1>3. \A o \in Dispatchers, e \in Events : held'[o][e] <= retry'[e]
    BY <1>1, <1>2 DEF DispatcherInv
  <1>4. \A o \in Dispatchers :
          /\ phase'[o] # "ready" => cur'[o] \in Events
          /\ phase'[o] = "confirming" => cur'[o] \in added'
    BY <1>2 DEF DispatcherInv
  <1> QED
    BY <1>3, <1>4 DEF DispatcherInv

----------------------------------------------------------------------------
LEMMA NextIInv == IInv /\ [Next]_vars => IInv'
  <1> SUFFICES ASSUME IInv, [Next]_vars
               PROVE  IInv'
    OBVIOUS
  <1> USE DEF IInv, TypeOK, Statuses, Live, Settled, Phases, rowVars, dispatcherVars
  <1>q. QueueInv
    BY DEF QueueInv
  <1>u. ASSUME UNCHANGED queueVars, added' = added
        PROVE  QueueInv' /\ AddedInv'
    BY <1>q, <1>u DEF queueVars, QueueInv, QueueTypeOK, JobsInv, AddedInv, Known
  <1>e. ASSUME NEW e \in Events, added' = added \cup {e}, Enqueue(JobOf[e])
        PROVE  QueueInv' /\ AddedInv'
    <2>1. JobOf[e] \in Jobs /\ \A f \in added : JobOf[f] \in Jobs
      OBVIOUS
    <2> QED
      BY <1>q, <1>e, <2>1, EnqueueInv DEF AddedInv
  <1>1. ASSUME NEW e \in Events, Record(e)
        PROVE  IInv'
    BY <1>1, <1>u DEF Record, QueueInv, DispatcherInv, PublishedInv, StartedInv, FailedOnlyAtLimit
  <1>2. ASSUME NEW e \in Events, Elapse(e)
        PROVE  IInv'
    BY <1>2, <1>u DEF Elapse, QueueInv, DispatcherInv, PublishedInv, StartedInv, FailedOnlyAtLimit
  <1>3. ASSUME NEW d \in Dispatchers, Claim(d)
        PROVE  IInv'
    <2>1. PICK batch \in SUBSET Events :
            /\ \A e \in batch : Claimable(e)
            /\ status' = [e \in Events |-> IF e \in batch THEN "PROCESSING" ELSE status[e]]
            /\ retry' = [e \in Events |-> IF e \in batch THEN Token(e) ELSE retry[e]]
            /\ due' = [e \in Events |-> due[e] /\ e \notin batch]
            /\ held' = [held EXCEPT ![d] = [e \in Events |-> IF e \in batch THEN Token(e) ELSE 0]]
            /\ UNCHANGED <<phase, cur, added, queueVars>>
      BY <1>3, Zenon DEF Claim
    <2>2. \A e \in batch : Token(e) \in 0..MaxRetry /\ Token(e) = retry[e] + 1
      BY <2>1 DEF Claimable, Token
    <2>3. QueueInv' /\ AddedInv'
      BY <1>u, <2>1
    <2>4. TypeOK'
      <3>1. due' \in [Events -> BOOLEAN]
        BY <2>1
      <3>2. retry' \in [Events -> 0..MaxRetry] /\ held' \in [Dispatchers -> [Events -> 0..MaxRetry]]
        BY <2>1, <2>2
      <3>3. status' \in [Events -> Statuses]
        BY <2>1
      <3> QED
        BY <2>1, <2>3, <3>1, <3>2, <3>3 DEF QueueInv
    <2>5. DispatcherInv'
      BY <2>1, <2>2 DEF DispatcherInv
    <2>6. PublishedInv' /\ StartedInv' /\ FailedOnlyAtLimit'
      BY <2>1, <2>2 DEF PublishedInv, StartedInv, FailedOnlyAtLimit
    <2> QED
      BY <2>3, <2>4, <2>5, <2>6 DEF QueueInv
  <1>4. ASSUME NEW d \in Dispatchers, NEW e \in Events, Publish(d, e)
        PROVE  IInv'
    <2>1. QueueInv' /\ AddedInv'
      BY <1>4, <1>e DEF Publish, HandOver
    <2> QED
      BY <1>4, <2>1
      DEF Publish, HandOver, QueueInv, DispatcherInv, PublishedInv, StartedInv, FailedOnlyAtLimit
  <1>5. ASSUME NEW d \in Dispatchers, NEW e \in Events, PublishFails(d, e)
        PROVE  IInv'
    <2>1. QueueInv' /\ AddedInv'
      BY <1>5, <1>e, <1>u DEF PublishFails
    <2> QED
      BY <1>5, <2>1
      DEF PublishFails, QueueInv, DispatcherInv, PublishedInv, StartedInv, FailedOnlyAtLimit
  <1>6. ASSUME NEW d \in Dispatchers, Confirm(d)
        PROVE  IInv'
    <2>1. QueueInv' /\ AddedInv'
      BY <1>6, <1>u DEF Confirm
    <2>2. cur[d] \in Events /\ cur[d] \in added /\ phase[d] = "confirming"
      BY <1>6 DEF Confirm, DispatcherInv
    <2>3. /\ status' \in [Events -> Statuses]
          /\ UNCHANGED <<retry, due, added>>
      BY <1>6, <2>2 DEF Confirm
    <2>4. PublishedInv' /\ StartedInv' /\ FailedOnlyAtLimit'
      BY <1>6, <2>2 DEF Confirm, PublishedInv, StartedInv, FailedOnlyAtLimit
    <2>5. CASE NextRow(d)
      <3>1. TypeOK'
        BY <2>1, <2>2, <2>3, <2>5, NextRowInv DEF QueueInv
      <3>2. DispatcherInv'
        BY <2>2, <2>3, <2>5, NextRowKnows
      <3> QED
        BY <2>1, <2>4, <3>1, <3>2 DEF QueueInv
    <2>6. CASE phase' = [phase EXCEPT ![d] = "failing"] /\ UNCHANGED <<held, cur>>
      <3>1. TypeOK'
        BY <2>1, <2>3, <2>6 DEF QueueInv
      <3>2. DispatcherInv'
        BY <2>2, <2>3, <2>6 DEF DispatcherInv
      <3> QED
        BY <2>1, <2>4, <3>1, <3>2 DEF QueueInv
    <2> QED
      BY <1>6, <2>5, <2>6 DEF Confirm
  <1>7. ASSUME NEW d \in Dispatchers, ConfirmFails(d)
        PROVE  IInv'
    BY <1>7, <1>u DEF ConfirmFails, QueueInv, DispatcherInv, PublishedInv, StartedInv, FailedOnlyAtLimit
  <1>8. ASSUME NEW d \in Dispatchers, Fail(d)
        PROVE  IInv'
    <2>1. QueueInv' /\ AddedInv'
      BY <1>8, <1>u DEF Fail
    <2>2. cur[d] \in Events /\ NextRow(d) /\ UNCHANGED <<retry, added>>
      BY <1>8 DEF Fail, DispatcherInv
    <2>3. status' \in [Events -> Statuses] /\ due' \in [Events -> BOOLEAN]
      BY <1>8, <2>2 DEF Fail
    <2>4. TypeOK'
      <3>1. /\ held' \in [Dispatchers -> [Events -> 0..MaxRetry]]
            /\ phase' \in [Dispatchers -> Phases]
            /\ cur' \in [Dispatchers -> Events \cup {None}]
        BY <2>2, NextRowInv
      <3> QED
        BY <2>1, <2>2, <2>3, <3>1 DEF QueueInv
    <2>5. DispatcherInv'
      BY <2>2, NextRowKnows
    <2>6. PublishedInv' /\ StartedInv'
      BY <1>8, <2>2 DEF Fail, PublishedInv, StartedInv
    <2>7. GaveUp(d) => retry[cur[d]] = MaxRetry
      <3>1. held[d][cur[d]] <= retry[cur[d]] /\ held[d][cur[d]] \in Nat /\ retry[cur[d]] \in 0..MaxRetry
            /\ retry[cur[d]] \in Nat
        BY <2>2 DEF DispatcherInv
      <3>2. \A token, claims \in Nat :
              token <= claims /\ claims \in 0..MaxRetry /\ token >= MaxRetry => claims = MaxRetry
        OBVIOUS
      <3> QED
        BY <3>1, <3>2, Zenon DEF GaveUp
    <2>8. FailedOnlyAtLimit'
      BY <1>8, <2>2, <2>7 DEF Fail, FailedOnlyAtLimit
    <2> QED
      BY <2>1, <2>4, <2>5, <2>6, <2>8 DEF QueueInv
  <1>9. ASSUME NEW d \in Dispatchers, Abandon(d)
        PROVE  IInv'
    BY <1>9, <1>u
    DEF Abandon, NoRows, QueueInv, DispatcherInv, PublishedInv, StartedInv, FailedOnlyAtLimit
  <1>10. ASSUME NEW j \in Jobs, QueueOnly(j)
         PROVE  IInv'
    <2>1. QueueInv' /\ AddedInv'
      <3>1. \A e \in added : JobOf[e] \in Jobs
        OBVIOUS
      <3> QED
        BY <1>10, <1>q, <3>1, QueueStepInv DEF QueueOnly, AddedInv
    <2> QED
      BY <1>10, <2>1
      DEF QueueOnly, QueueInv, DispatcherInv, PublishedInv, StartedInv, FailedOnlyAtLimit
  <1>11. CASE UNCHANGED vars
    BY <1>11, <1>u DEF vars, QueueInv, DispatcherInv, PublishedInv, StartedInv, FailedOnlyAtLimit
  <1> QED
    BY <1>1, <1>2, <1>3, <1>4, <1>5, <1>6, <1>7, <1>8, <1>9, <1>10, <1>11
    DEF Next, DispatcherStep

LEMMA SpecIInv == Spec => []IInv
  BY InitIInv, NextIInv, PTL DEF Spec

----------------------------------------------------------------------------
(* Every variable of the rows, the dispatchers and the queue keeps its     *)
(* type; in particular retry_count never passes the limit of the claim.    *)
THEOREM TypeCorrect == Spec => []TypeOK
  <1>1. IInv => TypeOK
    BY DEF IInv
  <1> QED
    BY <1>1, SpecIInv, PTL

(* No published row has lost its job: updatePublished() runs only after    *)
(* queue.add() and BullMQ forgets a job only when it is finished.          *)
THEOREM PublishedKept == Spec => []PublishedNotLost
  <1>1. IInv => PublishedNotLost
    BY DEF IInv, PublishedNotLost, PublishedInv, AddedInv, Known
  <1> QED
    BY <1>1, SpecIInv, PTL

(* A row fails only after the tenth claim, although updateFailed() decides *)
(* with the retry count of a claim that others may have overtaken.         *)
THEOREM FailedAtLimit == Spec => []FailedOnlyAtLimit
  <1>1. IInv => FailedOnlyAtLimit
    BY DEF IInv
  <1> QED
    BY <1>1, SpecIInv, PTL

(* PUBLISHED and FAILED are final: the claim passes over settled rows and  *)
(* both updates of a dispatcher are guarded by status = 'PROCESSING'.      *)
LEMMA SettledStep ==
    ASSUME IInv, [Next]_vars, NEW e \in Events, status[e] \in Settled
    PROVE  status'[e] = status[e] /\ retry'[e] = retry[e]
  <1> USE DEF Settled, Live, rowVars
  <1>t. TypeOK
    BY DEF IInv
  <1> USE <1>t DEF TypeOK
  <1>1. ASSUME NEW f \in Events, Record(f) \/ Elapse(f)
        PROVE  status'[e] = status[e] /\ retry'[e] = retry[e]
    BY <1>1 DEF Record, Elapse
  <1>2. ASSUME NEW d \in Dispatchers, Claim(d)
        PROVE  status'[e] = status[e] /\ retry'[e] = retry[e]
    <2>1. PICK batch \in SUBSET Events :
            /\ \A f \in batch : Claimable(f)
            /\ status' = [f \in Events |-> IF f \in batch THEN "PROCESSING" ELSE status[f]]
            /\ retry' = [f \in Events |-> IF f \in batch THEN Token(f) ELSE retry[f]]
      BY <1>2, Zenon DEF Claim
    <2> QED
      BY <2>1 DEF Claimable
  <1>3. ASSUME NEW d \in Dispatchers, DispatcherStep(d) \/ Abandon(d)
        PROVE  status'[e] = status[e] /\ retry'[e] = retry[e]
    BY <1>3 DEF DispatcherStep, Confirm, ConfirmFails, Fail, Publish, PublishFails, Abandon
  <1>4. ASSUME NEW j \in Jobs, QueueOnly(j)
        PROVE  status'[e] = status[e] /\ retry'[e] = retry[e]
    BY <1>4 DEF QueueOnly
  <1>5. CASE UNCHANGED vars
    BY <1>5 DEF vars
  <1> QED
    BY <1>1, <1>2, <1>3, <1>4, <1>5 DEF Next

(* No step of any dispatcher, however late, revises a settled row.         *)
THEOREM SettledKept == Spec => SettledIsFinal
  <1>1. IInv /\ [Next]_vars =>
          [\A e \in Events : status[e] \in Settled =>
             status'[e] = status[e] /\ retry'[e] = retry[e]]_vars
    BY SettledStep
  <1> QED
    BY <1>1, SpecIInv, PTL DEF Spec, SettledIsFinal

----------------------------------------------------------------------------
(* The refinement: what OutcomeOf says of each status, and that it sees    *)
(* nothing of a row that stays live.                                       *)
LEMMA OutcomeValue ==
    ASSUME TypeOK
    PROVE  /\ OutcomeOf = [e \in Events |-> OutcomeOf[e]]
           /\ \A e \in Events :
                /\ status[e] = "NONE" => OutcomeOf[e] = "unrecorded"
                /\ status[e] \in Live => OutcomeOf[e] = "pending"
                /\ status[e] = "PUBLISHED" => OutcomeOf[e] = "published"
                /\ status[e] = "FAILED" => OutcomeOf[e] = "abandoned"
  BY DEF OutcomeOf, TypeOK, Statuses, Live, Settled

LEMMA OutcomeSame ==
    ASSUME TypeOK, TypeOK',
           \A e \in Events : status'[e] = status[e] \/ (status[e] \in Live /\ status'[e] \in Live)
    PROVE  OutcomeOf' = OutcomeOf
  <1>1. \A e \in Events : OutcomeOf'[e] = OutcomeOf[e]
    BY OutcomeValue DEF OutcomeOf, TypeOK, Statuses, Live, Settled
  <1> QED
    BY <1>1 DEF OutcomeOf

LEMMA OutcomeOne ==
    ASSUME TypeOK, NEW f \in Events, NEW s \in Statuses,
           status' = [status EXCEPT ![f] = s]
    PROVE  /\ s = "PENDING" => OutcomeOf' = [OutcomeOf EXCEPT ![f] = "pending"]
           /\ s = "PUBLISHED" => OutcomeOf' = [OutcomeOf EXCEPT ![f] = "published"]
           /\ s = "FAILED" => OutcomeOf' = [OutcomeOf EXCEPT ![f] = "abandoned"]
  <1> USE DEF TypeOK, Statuses, Live, Settled
  <1> DEFINE Out(v) == [OutcomeOf EXCEPT ![f] = v]
  <1>1. status'[f] = s /\ \A e \in Events \ {f} : status'[e] = status[e]
    OBVIOUS
  <1>2. \A e \in Events \ {f} : OutcomeOf'[e] = OutcomeOf[e]
    BY <1>1 DEF OutcomeOf
  <1>3. /\ s = "PENDING" => OutcomeOf'[f] = "pending"
        /\ s = "PUBLISHED" => OutcomeOf'[f] = "published"
        /\ s = "FAILED" => OutcomeOf'[f] = "abandoned"
    BY <1>1 DEF OutcomeOf
  <1>4. \A v : OutcomeOf'[f] = v => OutcomeOf' = Out(v)
    <2> SUFFICES ASSUME NEW v, OutcomeOf'[f] = v
                 PROVE  OutcomeOf' = Out(v)
      OBVIOUS
    <2>1. \A e \in Events : OutcomeOf'[e] = Out(v)[e]
      BY <1>2 DEF OutcomeOf
    <2> QED
      BY <2>1 DEF OutcomeOf
  <1>5. /\ s = "PENDING" => OutcomeOf' = Out("pending")
        /\ s = "PUBLISHED" => OutcomeOf' = Out("published")
        /\ s = "FAILED" => OutcomeOf' = Out("abandoned")
    BY <1>3, <1>4, Zenon
  <1> QED
    BY <1>5, Zenon

LEMMA ContractInit == Init => Contract!Init
  <1> SUFFICES ASSUME Init
               PROVE  Contract!Init
    OBVIOUS
  <1>1. TypeOK /\ \A e \in Events : status[e] = "NONE"
    BY InitIInv DEF IInv, Init
  <1>2. \A e \in Events : OutcomeOf[e] = "unrecorded"
    BY <1>1, OutcomeValue
  <1>3. OutcomeOf = [e \in Events |-> OutcomeOf[e]]
    BY <1>1, OutcomeValue
  <1>4. OutcomeOf = [e \in Events |-> "unrecorded"]
    BY <1>2, <1>3
  <1> QED
    BY <1>4 DEF Init, Contract!Init

LEMMA ContractStep ==
    ASSUME IInv, IInv', [Next]_vars
    PROVE  [Contract!Next]_<<OutcomeOf, added>>
  <1> USE DEF rowVars, Live, Settled, Statuses
  <1>t. TypeOK /\ TypeOK' /\ PublishedInv /\ DispatcherInv
    BY DEF IInv
  <1>s. ASSUME added' = added,
               \A e \in Events : status'[e] = status[e] \/ (status[e] \in Live /\ status'[e] \in Live)
        PROVE  UNCHANGED <<OutcomeOf, added>>
    BY <1>t, <1>s, OutcomeSame
  <1>d. ASSUME NEW e \in Events, status[e] # "NONE", status' = status, added' = added \cup {e}
        PROVE  Contract!Deliver(e)
    <2>1. OutcomeOf' = OutcomeOf
      BY <1>t, <1>d, OutcomeSame
    <2>2. OutcomeOf[e] # "unrecorded"
      BY <1>t, <1>d, OutcomeValue DEF TypeOK
    <2> QED
      BY <1>d, <2>1, <2>2 DEF Contract!Deliver
  <1>r. \A d \in Dispatchers, e \in Events : held[d][e] > 0 => status[e] # "NONE"
    <2> SUFFICES ASSUME NEW d \in Dispatchers, NEW e \in Events, held[d][e] > 0, status[e] = "NONE"
                 PROVE  FALSE
      OBVIOUS
    <2>1. held[d][e] <= retry[e] /\ retry[e] = 0 /\ held[d][e] \in Nat
      BY <1>t DEF DispatcherInv, StartedInv, IInv, TypeOK
    <2> QED
      BY <2>1
  <1>1. ASSUME NEW e \in Events, Record(e)
        PROVE  Contract!Record(e)
    <2>1. status' = [status EXCEPT ![e] = "PENDING"] /\ status[e] = "NONE" /\ added' = added
      BY <1>1 DEF Record
    <2>2. OutcomeOf' = [OutcomeOf EXCEPT ![e] = "pending"] /\ OutcomeOf[e] = "unrecorded"
      BY <1>t, <2>1, OutcomeOne, OutcomeValue
    <2> QED
      BY <2>1, <2>2 DEF Contract!Record
  <1>2. ASSUME NEW e \in Events, Elapse(e)
        PROVE  UNCHANGED <<OutcomeOf, added>>
    BY <1>2, <1>s DEF Elapse
  <1>3. ASSUME NEW d \in Dispatchers, Claim(d)
        PROVE  UNCHANGED <<OutcomeOf, added>>
    <2>1. PICK batch \in SUBSET Events :
            /\ \A e \in batch : Claimable(e)
            /\ status' = [e \in Events |-> IF e \in batch THEN "PROCESSING" ELSE status[e]]
            /\ added' = added
      BY <1>3, Zenon DEF Claim
    <2> QED
      BY <2>1, <1>s DEF Claimable
  <1>4. ASSUME NEW d \in Dispatchers, NEW e \in Events, Publish(d, e)
        PROVE  Contract!Deliver(e)
    BY <1>4, <1>d, <1>r DEF Publish, HandOver
  <1>5. ASSUME NEW d \in Dispatchers, NEW e \in Events, PublishFails(d, e)
        PROVE  Contract!Deliver(e) \/ UNCHANGED <<OutcomeOf, added>>
    BY <1>5, <1>d, <1>s, <1>r DEF PublishFails
  <1>6. ASSUME NEW d \in Dispatchers, Confirm(d)
        PROVE  \/ \E e \in Events : Contract!Publish(e)
               \/ UNCHANGED <<OutcomeOf, added>>
    <2>1. cur[d] \in Events /\ cur[d] \in added /\ added' = added
      BY <1>6, <1>t DEF Confirm, DispatcherInv
    <2>2. CASE status[cur[d]] = "PROCESSING"
      <3>1. status' = [status EXCEPT ![cur[d]] = "PUBLISHED"]
        BY <1>6, <2>2 DEF Confirm
      <3>2. /\ OutcomeOf' = [OutcomeOf EXCEPT ![cur[d]] = "published"]
            /\ OutcomeOf[cur[d]] = "pending"
        BY <1>t, <2>1, <2>2, <3>1, OutcomeOne, OutcomeValue
      <3> QED
        BY <2>1, <3>2 DEF Contract!Publish
    <2>3. CASE status[cur[d]] # "PROCESSING"
      BY <1>6, <1>s, <1>t, <2>1, <2>3 DEF Confirm, TypeOK
    <2> QED
      BY <2>2, <2>3
  <1>7. ASSUME NEW d \in Dispatchers, Fail(d)
        PROVE  \/ \E e \in Events : Contract!GiveUp(e)
               \/ UNCHANGED <<OutcomeOf, added>>
    <2>1. cur[d] \in Events /\ added' = added
      BY <1>7, <1>t DEF Fail, DispatcherInv
    <2>2. CASE status[cur[d]] = "PROCESSING" /\ GaveUp(d)
      <3>1. status' = [status EXCEPT ![cur[d]] = "FAILED"]
        BY <1>7, <2>2 DEF Fail
      <3>2. /\ OutcomeOf' = [OutcomeOf EXCEPT ![cur[d]] = "abandoned"]
            /\ OutcomeOf[cur[d]] = "pending"
        BY <1>t, <2>1, <2>2, <3>1, OutcomeOne, OutcomeValue
      <3> QED
        BY <2>1, <3>2 DEF Contract!GiveUp
    <2>3. CASE ~(status[cur[d]] = "PROCESSING" /\ GaveUp(d))
      BY <1>7, <1>s, <1>t, <2>1, <2>3 DEF Fail, TypeOK
    <2> QED
      BY <2>2, <2>3
  <1>8. ASSUME \/ UNCHANGED vars
               \/ \E d \in Dispatchers : ConfirmFails(d) \/ Abandon(d)
               \/ \E j \in Jobs : QueueOnly(j)
        PROVE  UNCHANGED <<OutcomeOf, added>>
    BY <1>8, <1>s DEF vars, ConfirmFails, Abandon, QueueOnly
  <1> QED
    BY <1>1, <1>2, <1>3, <1>4, <1>5, <1>6, <1>7, <1>8
    DEF Next, DispatcherStep, Contract!Next

(* The dispatchers implement the producers' contract: with any number of   *)
(* them, slow, dying or retrying after lost replies, each step records,    *)
(* delivers, publishes or abandons one event, or is invisible.             *)
THEOREM Refinement == Spec => ImplementsContract
  <1>1. IInv /\ IInv' /\ [Next]_vars => [Contract!Next]_<<OutcomeOf, added>>
    BY ContractStep
  <1> QED
    BY <1>1, ContractInit, SpecIInv, PTL DEF Spec, ImplementsContract, Contract!Spec
=============================================================================
