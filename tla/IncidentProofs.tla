--------------------------- MODULE IncidentProofs ---------------------------
(***************************************************************************)
(* Proofs about Incident, for any number of requests and versions.         *)
(*                                                                         *)
(* A transition is judged in one transaction and written in another.  It   *)
(* is enough that the version the client sent is still current: every      *)
(* write of the row increments the version and no client sends a version   *)
(* it has not seen, so the row is the one the policy judged.               *)
(***************************************************************************)
EXTENDS MCWork, TLAPS

(* A request whose version is still current was judged on this very row.   *)
JudgedInv ==
    \A c \in Clients :
      request[c] # None =>
        LET q == request[c] IN
        /\ q.version <= version
        /\ q.version = version =>
             /\ q.from = incidentStatus
             /\ I!Allowed(incidentStatus, q.to, q.root \/ root, q.lessons \/ lessons)

(* A job that will run has a run left.                                     *)
RunsLeft == \A k \in I!Targets : evaluation[k] # "failed" => runs[k] < MaxRuns

IInv == I!TypeOK /\ RunsLeft /\ JudgedInv /\ I!ClosedIsAnalysed /\ I!StampsAgree

USE IncidentAssumption DEF I!Targets, I!Sides

LEMMA EdgesAreStatuses == \A s \in I!Statuses : I!Transitions[s] \subseteq I!Statuses
  BY DEF I!Transitions, I!Statuses

LEMMA IInit == I!Init => IInv
  <1> SUFFICES ASSUME I!Init
               PROVE  IInv
    OBVIOUS
  <1>1. overdue \in [I!Targets -> BOOLEAN]
    BY DEF I!Init
  <1>2. RunsLeft /\ runs \in [I!Targets -> 0..MaxRuns]
    BY IncidentAssumption DEF I!Init, RunsLeft
  <1>3. breached \in [I!Targets -> BOOLEAN]
    BY DEF I!Init
  <1> QED
    BY <1>1, <1>2, <1>3
       DEF I!Init, IInv, I!TypeOK, JudgedInv, I!ClosedIsAnalysed, I!StampsAgree, I!Statuses

(* A new request was judged on the row as it is.                           *)
LEMMA SubmitStep ==
    ASSUME IInv, NEW c \in Clients, I!Submit(c)
    PROVE  IInv'
  <1> USE DEF IInv, I!TypeOK, I!row, I!analysis, I!stamps, I!work
  <1>1. PICK seen \in 1..version, to \in I!Statuses, newRoot \in BOOLEAN, newLessons \in BOOLEAN :
          /\ I!Allowed(incidentStatus, to, newRoot \/ root, newLessons \/ lessons)
          /\ request' = [request EXCEPT ![c] =
               [version |-> seen, from |-> incidentStatus, to |-> to,
                root |-> newRoot, lessons |-> newLessons, now |-> "untaken"]]
    BY DEF I!Submit
  <1> DEFINE q == [version |-> seen, from |-> incidentStatus, to |-> to,
                   root |-> newRoot, lessons |-> newLessons, now |-> "untaken"]
  <1>2. UNCHANGED <<I!row, overdue, I!work>>
    BY DEF I!Submit
  <1>3. q \in I!Requests /\ seen <= version
    BY DEF I!Requests
  <1>4. I!TypeOK'
    BY <1>1, <1>2, <1>3
  <1>5. JudgedInv'
    <2> SUFFICES ASSUME NEW d \in Clients, request'[d] # None
                 PROVE  LET p == request'[d] IN
                        /\ p.version <= version
                        /\ p.version = version =>
                             /\ p.from = incidentStatus
                             /\ I!Allowed(incidentStatus, p.to, p.root \/ root, p.lessons \/ lessons)
      BY <1>2 DEF JudgedInv, I!Allowed
    <2>1. CASE d = c
      BY <1>1, <1>3, <2>1
    <2>2. CASE d # c
      BY <1>1, <2>2 DEF JudgedInv
    <2> QED
      BY <2>1, <2>2
  <1> QED
    BY <1>2, <1>4, <1>5 DEF I!ClosedIsAnalysed, I!StampsAgree, RunsLeft

(* Taking the time leaves the judgement of a request as it is.             *)
LEMMA TakeTimeStep ==
    ASSUME IInv, NEW c \in Clients, I!TakeTime(c)
    PROVE  IInv'
  <1> USE DEF IInv, I!TypeOK, I!row, I!analysis, I!stamps, I!work
  <1>1. PICK side \in I!Clock : request' = [request EXCEPT ![c].now = side]
    BY DEF I!TakeTime
  <1>2. request[c] \in I!Requests /\ UNCHANGED <<I!row, overdue, I!work>>
    BY DEF I!TakeTime
  <1> DEFINE new == [request[c] EXCEPT !.now = side]
  <1>3. side \in I!Sides
    BY DEF I!Clock
  <1>4. /\ request' = [request EXCEPT ![c] = new]
        /\ new \in I!Requests
        /\ new.version = request[c].version /\ new.from = request[c].from /\ new.to = request[c].to
        /\ new.root = request[c].root /\ new.lessons = request[c].lessons
    BY <1>1, <1>2, <1>3 DEF I!Requests
  <1> HIDE DEF new
  <1>5. I!TypeOK'
    BY <1>2, <1>4
  <1>6. JudgedInv'
    <2> SUFFICES ASSUME NEW d \in Clients, request'[d] # None
                 PROVE  LET p == request'[d] IN
                        /\ p.version <= version
                        /\ p.version = version =>
                             /\ p.from = incidentStatus
                             /\ I!Allowed(incidentStatus, p.to, p.root \/ root, p.lessons \/ lessons)
      BY <1>2 DEF JudgedInv, I!Allowed
    <2>1. CASE d = c
      BY <1>2, <1>4, <2>1 DEF JudgedInv, I!TakeTime
    <2>2. CASE d # c
      BY <1>4, <2>2 DEF JudgedInv
    <2> QED
      BY <2>1, <2>2
  <1> QED
    BY <1>2, <1>5, <1>6 DEF I!ClosedIsAnalysed, I!StampsAgree, RunsLeft

(* Whoever writes the row makes every pending judgement out of date.       *)
LEMMA OutOfDate ==
    ASSUME IInv, version' = version + 1,
           \A c \in Clients : request'[c] = request[c] \/ request'[c] = None
    PROVE  JudgedInv'
  BY DEF IInv, I!TypeOK, JudgedInv, I!Requests

LEMMA TransitStep ==
    ASSUME IInv, NEW c \in Clients, I!Transit(c)
    PROVE  /\ IInv'
           /\ incidentStatus' \in I!Transitions[incidentStatus]
  <1> USE DEF IInv, I!TypeOK
  <1> DEFINE q == request[c]
  <1>1. q \in I!Requests
    BY DEF I!Transit
  <1>2. /\ q.from = incidentStatus
        /\ q.to \in I!Transitions[incidentStatus]
        /\ q.to \in {"RESOLVED", "CLOSED"} => q.root \/ root
        /\ q.to = "CLOSED" => q.lessons \/ lessons
    BY <1>1 DEF I!Transit, I!StillCurrent, JudgedInv, I!Allowed
  <1>3. /\ incidentStatus' = q.to /\ version' = version + 1
        /\ root' = (root \/ q.root) /\ lessons' = (lessons \/ q.lessons)
        /\ I!Stamp(q) /\ q.now # "untaken"
        /\ request' = [request EXCEPT ![c] = None]
        /\ UNCHANGED <<overdue, breached, I!work>>
    BY DEF I!Transit
  <1> HIDE DEF q
  <1>4. I!TypeOK'
    <2>1. responded' \in I!Sides \cup {"no"} /\ punctual' \in BOOLEAN
      BY <1>1, <1>3 DEF I!Requests, I!Stamp
    <2>2. resolved' \in BOOLEAN /\ closed' \in BOOLEAN
      BY <1>1, <1>3, Zenon DEF I!Stamp
    <2>3. /\ incidentStatus' \in I!Statuses /\ version' \in Nat
          /\ root' \in BOOLEAN /\ lessons' \in BOOLEAN
      BY <1>1, <1>3 DEF I!Requests
    <2> QED
      BY <1>3, <2>1, <2>2, <2>3 DEF I!work
  <1>5. JudgedInv'
    BY <1>3, OutOfDate
  <1>6. I!ClosedIsAnalysed'
    BY <1>1, <1>2, <1>3 DEF I!ClosedIsAnalysed, I!Requests
  <1>7. I!StampsAgree'
    <2>1. /\ incidentStatus = "CLOSED" => q.to = "INVESTIGATING"
          /\ incidentStatus = "RESOLVED" => q.to \in {"CLOSED", "INVESTIGATING"}
      BY <1>2, SMT DEF I!Transitions, I!Statuses
    <2>2. /\ resolved' <=> ~(q.to = "INVESTIGATING" /\ q.from \in {"RESOLVED", "CLOSED"})
                             /\ (resolved \/ q.to \in {"RESOLVED", "CLOSED"})
          /\ closed' <=> ~(q.to = "INVESTIGATING" /\ q.from \in {"RESOLVED", "CLOSED"})
                           /\ (closed \/ q.to = "CLOSED")
      BY <1>3, Zenon DEF I!Stamp
    <2> QED
      BY <1>2, <1>3, <2>1, <2>2 DEF I!StampsAgree
  <1> QED
    BY <1>2, <1>3, <1>4, <1>5, <1>6, <1>7 DEF RunsLeft, I!work

(* A refusal forgets a request.                                            *)
LEMMA RefuseStep ==
    ASSUME IInv, NEW c \in Clients, I!Refuse(c)
    PROVE  IInv'
  <1> USE DEF IInv, I!TypeOK, I!row, I!analysis, I!stamps, I!work
  <1>1. /\ request' = [request EXCEPT ![c] = None]
        /\ UNCHANGED <<I!row, overdue, I!work>>
    BY DEF I!Refuse
  <1>2. I!TypeOK'
    BY <1>1
  <1>3. \A d \in Clients : request'[d] = request[d] \/ request'[d] = None
    BY <1>1
  <1>4. JudgedInv'
    BY <1>1, <1>3 DEF JudgedInv, I!Allowed
  <1> QED
    BY <1>1, <1>2, <1>4 DEF I!ClosedIsAnalysed, I!StampsAgree, RunsLeft

(* An edit of the texts leaves those that the status demands.              *)
LEMMA AnalysisStep ==
    ASSUME IInv, I!UpdateAnalysis
    PROVE  IInv'
  <1> USE DEF IInv, I!TypeOK, I!stamps, I!work
  <1>1. PICK r \in {"keep", "text", "null"}, l \in {"keep", "text", "null"} :
          /\ I!Withdrawable(r, l)
          /\ root' = I!Edited(root, r)
          /\ lessons' = I!Edited(lessons, l)
    BY DEF I!UpdateAnalysis
  <1>2. /\ version' = version + 1
        /\ UNCHANGED <<incidentStatus, I!stamps, overdue, breached, I!work, request>>
    BY DEF I!UpdateAnalysis
  <1>3. I!TypeOK'
    <2>1. root' \in BOOLEAN /\ lessons' \in BOOLEAN
      BY <1>1, Zenon DEF I!Edited
    <2> QED
      BY <1>2, <2>1
  <1>4. JudgedInv'
    BY <1>2, OutOfDate
  <1>5. I!ClosedIsAnalysed'
    BY <1>1, <1>2 DEF I!ClosedIsAnalysed, I!Withdrawable, I!Edited
  <1>6. I!StampsAgree'
    BY <1>2 DEF I!StampsAgree
  <1> QED
    BY <1>2, <1>3, <1>4, <1>5, <1>6 DEF RunsLeft

(* A step that leaves status, texts, stamps and requests alone, whether or *)
(* not it counts the version up.                                           *)
LEMMA Aside ==
    ASSUME IInv, I!TypeOK', RunsLeft',
           UNCHANGED <<incidentStatus, I!analysis, resolved, closed, request>>,
           version' = version \/ version' = version + 1
    PROVE  IInv'
  <1> USE DEF IInv, I!analysis
  <1>1. JudgedInv'
    <2>1. CASE version' = version
      BY <2>1 DEF JudgedInv, I!Allowed
    <2>2. CASE version' = version + 1
      BY <2>2, OutOfDate
    <2> QED
      BY <2>1, <2>2
  <1> QED
    BY <1>1 DEF I!ClosedIsAnalysed, I!StampsAgree

(* A run that fails keeps the types of the job.                            *)
LEMMA RunFailsType ==
    ASSUME I!TypeOK, NEW k \in I!Targets, I!RunFails(k), runs[k] < MaxRuns
    PROVE  /\ evaluation' \in [I!Targets -> {"deferred", "queued", "writing", "done", "failed"}]
           /\ runs' \in [I!Targets -> 0..MaxRuns]
  BY DEF I!TypeOK, I!RunFails

(* The worker's steps and the assignments.                                 *)
LEMMA AsideSteps ==
    ASSUME IInv, NEW k \in I!Targets,
           I!Assign \/ I!Elapse(k) \/ I!Deliver(k) \/ I!Abandon(k) \/ I!Run(k)
    PROVE  /\ IInv'
           /\ UNCHANGED incidentStatus
  <1> USE DEF I!TypeOK, I!row, I!stamps, I!analysis, I!work
  <1>0. I!TypeOK /\ RunsLeft
    BY DEF IInv
  <1>1. CASE I!Assign
    BY <1>0, <1>1, Aside DEF I!Assign, RunsLeft
  <1>2. CASE I!Elapse(k)
    BY <1>0, <1>2, Aside DEF I!Elapse, RunsLeft
  <1>3. CASE I!Deliver(k)
    BY <1>0, <1>3, Aside DEF I!Deliver, RunsLeft
  <1>4. CASE I!Abandon(k)
    BY <1>0, <1>4, Aside DEF I!Abandon, RunsLeft
  <1>5. CASE I!Evaluate(k)
    <2>1. PICK label \in {"writing", "done"} : evaluation' = [evaluation EXCEPT ![k] = label]
      BY <1>5 DEF I!Evaluate
    <2> QED
      BY <1>0, <1>5, <2>1, Aside DEF I!Evaluate, RunsLeft
  <1>6. CASE I!WriteBreach(k)
    <2>1. /\ evaluation' \in [I!Targets -> {"deferred", "queued", "writing", "done", "failed"}]
          /\ runs' \in [I!Targets -> 0..MaxRuns]
          /\ RunsLeft'
      BY <1>0, <1>6, RunFailsType DEF I!WriteBreach, RunsLeft, I!RunFails
    <2> QED
      BY <1>0, <1>6, <2>1, Aside DEF I!WriteBreach
  <1>7. CASE I!Retry(k)
    <2>1. /\ evaluation' \in [I!Targets -> {"deferred", "queued", "writing", "done", "failed"}]
          /\ runs' \in [I!Targets -> 0..MaxRuns]
          /\ RunsLeft'
      BY <1>0, <1>7, RunFailsType DEF I!Retry, RunsLeft, I!RunFails
    <2> QED
      BY <1>0, <1>7, <2>1, Aside DEF I!Retry
  <1> QED
    BY <1>1, <1>2, <1>3, <1>4, <1>5, <1>6, <1>7 DEF I!Run

LEMMA Step ==
    ASSUME IInv, [I!Next]_I!vars
    PROVE  /\ IInv'
           /\ incidentStatus' # incidentStatus => incidentStatus' \in I!Transitions[incidentStatus]
  <1>1. CASE \E c \in Clients : I!Submit(c)
    BY <1>1, SubmitStep DEF I!Submit, I!row
  <1>2. CASE \E c \in Clients : I!TakeTime(c) \/ I!Transit(c)
    BY <1>2, TakeTimeStep, TransitStep DEF I!TakeTime, I!row
  <1>3. CASE \E c \in Clients : I!Refuse(c)
    BY <1>3, RefuseStep DEF I!Refuse, I!row
  <1>4. CASE I!UpdateAnalysis
    BY <1>4, AnalysisStep DEF I!UpdateAnalysis
  <1>5. CASE I!Assign
    BY <1>5, AsideSteps
  <1>6. CASE \E k \in I!Targets : I!Elapse(k) \/ I!Deliver(k) \/ I!Abandon(k) \/ I!Run(k)
    BY <1>6, AsideSteps
  <1>7. CASE UNCHANGED I!vars
    <2>1. I!TypeOK' /\ RunsLeft'
      BY <1>7 DEF IInv, I!TypeOK, RunsLeft, I!vars, I!row, I!stamps, I!analysis, I!work
    <2> QED
      BY <1>7, <2>1, Aside DEF I!vars, I!row, I!stamps
  <1> QED
    BY <1>1, <1>2, <1>3, <1>4, <1>5, <1>6, <1>7 DEF I!Next

(* The inductive invariant holds in every reachable state.                 *)
THEOREM Inductive == I!Spec => []IInv
  BY IInit, Step, PTL DEF I!Spec

(* Once the response is overdue nobody can become punctual, and only an    *)
(* overdue response is evaluated.                                          *)
LateInv ==
    /\ evaluation["RESPONSE"] # "deferred" \/ breached["RESPONSE"] => overdue["RESPONSE"]
    /\ evaluation["RESPONSE"] = "writing" \/ breached["RESPONSE"] => ~punctual
    /\ punctual => responded # "no"

LEMMA LateInit == I!Init => LateInv
  <1> SUFFICES ASSUME I!Init
               PROVE  LateInv
    OBVIOUS
  <1> QED
    BY DEF I!Init, LateInv

LEMMA LateStep ==
    ASSUME I!TypeOK, LateInv, [I!Next]_I!vars
    PROVE  LateInv'
  <1> USE DEF I!TypeOK, LateInv, I!row, I!stamps, I!analysis, I!work
  <1>1. ASSUME NEW c \in Clients, I!Submit(c) \/ I!TakeTime(c) \/ I!Refuse(c)
        PROVE  LateInv'
    BY <1>1 DEF I!Submit, I!TakeTime, I!Refuse
  <1>2. ASSUME NEW c \in Clients, I!Transit(c)
        PROVE  LateInv'
    <2>1. /\ responded' = IF responded = "no" THEN request[c].now ELSE responded
          /\ punctual' = IF responded = "no" THEN ~overdue["RESPONSE"] ELSE punctual
          /\ request[c].now \in I!Sides
      BY <1>2 DEF I!Transit, I!Stamp, I!Requests
    <2>2. UNCHANGED <<overdue, breached, I!work>>
      BY <1>2 DEF I!Transit
    <2> QED
      BY <2>1, <2>2
  <1>3. CASE I!UpdateAnalysis \/ I!Assign
    BY <1>3 DEF I!UpdateAnalysis, I!Assign
  <1>4. ASSUME NEW k \in I!Targets, I!Elapse(k)
        PROVE  LateInv'
    BY <1>4 DEF I!Elapse
  <1>5. ASSUME NEW k \in I!Targets, I!Deliver(k) \/ I!Abandon(k)
        PROVE  LateInv'
    BY <1>5 DEF I!Deliver, I!Abandon
  <1>6. ASSUME NEW k \in I!Targets, I!Evaluate(k)
        PROVE  LateInv'
    <2>1. PICK label \in {"writing", "done"} :
            /\ evaluation' = [evaluation EXCEPT ![k] = label]
            /\ label = "writing" => I!Breach(k)
      BY <1>6 DEF I!Evaluate
    <2>2. evaluation[k] = "queued" /\ UNCHANGED <<I!row, overdue>>
      BY <1>6 DEF I!Evaluate
    <2> QED
      BY <2>1, <2>2 DEF I!Breach, I!Met
  <1>7. ASSUME NEW k \in I!Targets, I!WriteBreach(k) \/ I!Retry(k)
        PROVE  LateInv'
    <2>1. PICK label \in {"queued", "done", "failed"} :
            evaluation' = [evaluation EXCEPT ![k] = label]
      BY <1>7 DEF I!WriteBreach, I!Retry, I!RunFails
    <2> QED
      BY <1>7, <2>1 DEF I!WriteBreach, I!Retry
  <1>8. CASE UNCHANGED I!vars
    BY <1>8 DEF I!vars
  <1> QED
    BY <1>1, <1>2, <1>3, <1>4, <1>5, <1>6, <1>7, <1>8 DEF I!Next, I!Run

(* The row, the requests and the deferred jobs keep their types.           *)
THEOREM TypeCorrect == I!Spec => []I!TypeOK
  <1>1. IInv => I!TypeOK
    BY DEF IInv
  <1> QED
    BY <1>1, Inductive, PTL

(* A resolved incident has a root cause and a closed one lessons learned,  *)
(* whatever races transition(): the version the client sent ties the row   *)
(* it is written to with the row the policy judged.                        *)
THEOREM AnalysedWhenClosed == I!Spec => []ClosedIsAnalysed
  <1>1. IInv => ClosedIsAnalysed
    BY DEF IInv, ClosedIsAnalysed
  <1> QED
    BY <1>1, Inductive, PTL

(* resolved_at and closed_at agree with the status, however often an       *)
(* incident is reopened.                                                   *)
THEOREM StampsFollowStatus == I!Spec => []StampsAgree
  <1>1. IInv => StampsAgree
    BY DEF IInv, StampsAgree
  <1> QED
    BY <1>1, Inductive, PTL

(* The status moves along the edges of the policy only, although the       *)
(* repository writes what another transaction has judged.                  *)
THEOREM MovesAreListed == I!Spec => I!OnlyListedTransitions
  <1>1. IInv /\ [I!Next]_I!vars =>
          [incidentStatus' # incidentStatus =>
             incidentStatus' \in I!Transitions[incidentStatus]]_I!vars
    BY Step
  <1> QED
    BY <1>1, Inductive, PTL DEF I!Spec, I!OnlyListedTransitions

(* No breach is recorded against a response that was committed before its  *)
(* deadline, although the evaluation reads the row without locking it and  *)
(* writes afterwards, and may run again.                                   *)
THEOREM BreachIsReal == I!Spec => []ResponseBreachIsReal
  <1>1. LateInv => ResponseBreachIsReal
    BY DEF LateInv, ResponseBreachIsReal, I!ResponseBreachIsReal
  <1> QED
    BY <1>1, LateInit, LateStep, TypeCorrect, PTL DEF I!Spec
=============================================================================
