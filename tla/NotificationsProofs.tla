------------------------ MODULE NotificationsProofs ------------------------
(***************************************************************************)
(* Proofs about Notifications, for any notifications, workers, attempts    *)
(* and stalls.  What the queue does with a job is of no importance to the  *)
(* books: an attempt that has lost its job, and even one that never had    *)
(* it, writes under the condition of the UPDATE only.                      *)
(***************************************************************************)
EXTENDS MCLive, TLAPS

(* The variables the argument is about.                                    *)
BookTypeOK ==
    /\ channel \in [Jobs -> {"EMAIL", "INTERNAL"}]
    /\ status \in [Jobs -> {"none", "PENDING", "SENT"}]
    /\ run \in [Workers -> [job : Jobs \cup {None}, pc : {"idle", "read", "send", "update", "commit", "throw"}]]
    /\ delivered \in [Jobs -> Nat]
    /\ entries \in [Jobs -> Nat]
    /\ mailed \in [Jobs -> BOOLEAN]

(* An attempt has a notification.                                          *)
AttemptInv == \A w \in Workers : run[w].pc # "idle" => run[w].job \in Jobs

(* Nothing is counted before the status is SENT.                           *)
CountInv == \A n \in Jobs : status[n] # "SENT" => delivered[n] = 0

(* Whoever is about to write has sent, if there is an e-mail to send.       *)
MailInv ==
    \A w \in Workers :
        run[w].pc \in {"update", "commit"} /\ channel[run[w].job] = "EMAIL" => mailed[run[w].job]

(* Nobody sends an INTERNAL notification.                                  *)
InternalInv ==
    /\ \A w \in Workers : run[w].pc = "send" => channel[run[w].job] = "EMAIL"
    /\ \A n \in Jobs : mailed[n] => channel[n] = "EMAIL"

IInv == BookTypeOK /\ AttemptInv /\ CountInv /\ MailInv /\ InternalInv /\ DeliveryBookedOnce

books == <<channel, status, run, delivered, entries, mailed>>

LEMMA NInit == Init => IInv
  BY DEF Init, IInv, BookTypeOK, AttemptInv, CountInv, MailInv, InternalInv, DeliveryBookedOnce, Idle

(* A step that leaves the books and the attempts alone.                    *)
LEMMA Elsewhere == IInv /\ UNCHANGED books => IInv'
  BY DEF books, IInv, BookTypeOK, AttemptInv, CountInv, MailInv, InternalInv, DeliveryBookedOnce

(* A step that only moves one attempt, which does not claim to have sent   *)
(* unless it had or need not, and does not set out to send unless it must. *)
LEMMA Moves ==
    ASSUME IInv, NEW w \in Workers, UNCHANGED <<channel, status, delivered, entries, mailed>>,
           NEW new \in [job : Jobs \cup {None}, pc : {"idle", "read", "send", "update", "commit", "throw"}],
           run' = [run EXCEPT ![w] = new],
           new.pc # "idle" => new.job \in Jobs,
           new.pc \in {"update", "commit"} =>
               \/ new.job = run[w].job /\ run[w].pc \in {"update", "commit"}
               \/ channel[new.job] = "INTERNAL",
           new.pc = "send" => channel[new.job] = "EMAIL"
    PROVE  IInv'
  <1> USE DEF IInv, BookTypeOK, AttemptInv, CountInv, MailInv, InternalInv, DeliveryBookedOnce
  <1>1. BookTypeOK'
    OBVIOUS
  <1>2. AttemptInv'
    OBVIOUS
  <1>3. MailInv'
    OBVIOUS
  <1>4. CountInv' /\ DeliveryBookedOnce'
    OBVIOUS
  <1>5. InternalInv'
    OBVIOUS
  <1> QED
    BY <1>1, <1>2, <1>3, <1>4, <1>5

(* Request: a new notification is PENDING, an old one stays as it is.      *)
LEMMA RequestStep == ASSUME IInv, NEW n \in Jobs, Request(n) PROVE IInv'
  BY DEF Request, IInv, BookTypeOK, AttemptInv, CountInv, MailInv, InternalInv, DeliveryBookedOnce

(* The e-mail goes out, or not, and the attempt goes on or fails.          *)
LEMMA SendStep == ASSUME IInv, NEW w \in Workers, Send(w) PROVE IInv'
  <1> DEFINE n == run[w].job
  <1> USE DEF IInv, BookTypeOK, AttemptInv, CountInv, MailInv, InternalInv, DeliveryBookedOnce
  <1>1. n \in Jobs /\ UNCHANGED <<channel, status, delivered, entries>>
    BY DEF Send
  <1>2. mailed' \in [Jobs -> BOOLEAN] /\ \A j \in Jobs : mailed[j] => mailed'[j]
    BY DEF Send
  <1>3. PICK pc \in {"update", "throw"} : run' = [run EXCEPT ![w].pc = pc] /\ (pc = "update" => mailed'[n])
    BY DEF Send, Goto
  <1>4. BookTypeOK' /\ AttemptInv'
    BY <1>1, <1>2, <1>3
  <1>5. MailInv'
    BY <1>1, <1>2, <1>3
  <1>6. channel[n] = "EMAIL" /\ \A j \in Jobs : mailed'[j] => mailed[j] \/ j = n
    BY DEF Send
  <1>7. CountInv' /\ DeliveryBookedOnce'
    BY <1>1, <1>2, <1>6
  <1>8. InternalInv'
    BY <1>1, <1>2, <1>3, <1>6
  <1> QED
    BY <1>4, <1>5, <1>7, <1>8

(* The UPDATE finds the notification SENT, and counts nothing, or counts   *)
(* the first delivery.                                                     *)
LEMMA CommitStep == ASSUME IInv, NEW w \in Workers, CommitDelivery(w) PROVE IInv'
  <1> DEFINE n == run[w].job
  <1> USE DEF IInv, BookTypeOK, AttemptInv, CountInv, MailInv, InternalInv, DeliveryBookedOnce
  <1>1. /\ run[w].pc = "commit"
        /\ delivered' = [delivered EXCEPT ![n] = IF status[n] = "SENT" THEN @ ELSE @ + 1]
        /\ status' = [status EXCEPT ![n] = "SENT"]
        /\ entries' = [entries EXCEPT ![n] = 1]
        /\ run' = [run EXCEPT ![w] = Idle]
        /\ mailed' = mailed /\ channel' = channel
    BY DEF CommitDelivery, Settle
  <1>2. n \in Jobs /\ (mailed[n] <=> channel[n] = "EMAIL")
    BY <1>1
  <1>3. BookTypeOK' /\ AttemptInv' /\ MailInv' /\ InternalInv'
    BY <1>1, <1>2 DEF Idle
  <1>4. CountInv'
    BY <1>1, <1>2
  <1>5. DeliveryBookedOnce'
    BY <1>1, <1>2
  <1> QED
    BY <1>3, <1>4, <1>5

(* Every other step of an attempt.                                         *)
LEMMA AttemptStep ==
    ASSUME IInv, NEW w \in Workers, Read(w) \/ Update(w) \/ Fail(w) \/ Break(w) \/ Lose(w)
    PROVE  IInv'
  <1> DEFINE Record == [job : Jobs \cup {None}, pc : {"idle", "read", "send", "update", "commit", "throw"}]
  <1>1. run[w] \in Record /\ (run[w].pc # "idle" => run[w].job \in Jobs)
    BY DEF IInv, BookTypeOK, AttemptInv
  <1>2. UNCHANGED <<channel, status, delivered, entries, mailed>>
    BY DEF Read, Update, Fail, Break, Lose
  <1>3. CASE UNCHANGED run
    BY <1>2, <1>3, Elsewhere DEF books
  <1>4. CASE run' = [run EXCEPT ![w] = Idle]
    <2>1. Idle \in Record /\ Idle.pc = "idle"
      BY DEF Idle
    <2> QED
      BY <1>2, <1>4, <2>1, Moves
  <1>5. CASE Read(w) /\ Goto(w, IF channel[run[w].job] = "EMAIL" THEN "send" ELSE "update")
    <2> DEFINE new == [run[w] EXCEPT !.pc = IF channel[run[w].job] = "EMAIL" THEN "send" ELSE "update"]
    <2>1. /\ new \in Record /\ new.job = run[w].job /\ new.job \in Jobs
          /\ new.pc = IF channel[run[w].job] = "EMAIL" THEN "send" ELSE "update"
          /\ run' = [run EXCEPT ![w] = new]
      BY <1>1, <1>5 DEF Goto, Read, IInv, BookTypeOK
    <2>2. channel[new.job] \in {"EMAIL", "INTERNAL"}
      BY <2>1 DEF IInv, BookTypeOK
    <2> QED
      BY <1>2, <2>1, <2>2, Moves
  <1>6. CASE Update(w)
    <2> DEFINE new == [run[w] EXCEPT !.pc = "commit"]
    <2>1. /\ new \in Record /\ new.pc = "commit" /\ new.job = run[w].job /\ new.job \in Jobs
          /\ run' = [run EXCEPT ![w] = new]
          /\ run[w].pc = "update"
      BY <1>1, <1>6 DEF Goto, Update, IInv, BookTypeOK
    <2> QED
      BY <1>2, <2>1, Moves
  <1>7. CASE Break(w)
    <2> DEFINE new == [run[w] EXCEPT !.pc = "throw"]
    <2>1. new \in Record /\ new.pc = "throw" /\ new.job \in Jobs /\ run' = [run EXCEPT ![w] = new]
      BY <1>1, <1>7 DEF Goto, Break, IInv, BookTypeOK
    <2> QED
      BY <1>2, <2>1, Moves
  <1>8. \/ UNCHANGED run
        \/ run' = [run EXCEPT ![w] = Idle]
        \/ Read(w) /\ Goto(w, IF channel[run[w].job] = "EMAIL" THEN "send" ELSE "update")
        \/ Update(w) \/ Break(w)
    BY DEF Read, Fail, Lose
  <1> QED
    BY <1>3, <1>4, <1>5, <1>6, <1>7, <1>8

LEMMA TakeStep == ASSUME IInv, NEW w \in Workers, NEW n \in Jobs, Take(w, n) PROVE IInv'
  <1> DEFINE new == [job |-> n, pc |-> "read"]
  <1>1. /\ new \in [job : Jobs \cup {None}, pc : {"idle", "read", "send", "update", "commit", "throw"}]
        /\ new.pc = "read" /\ new.job \in Jobs
        /\ run' = [run EXCEPT ![w] = new]
        /\ UNCHANGED <<channel, status, delivered, entries, mailed>>
    BY DEF Take
  <1> QED
    BY <1>1, Moves

LEMMA NNext == IInv /\ [Next]_vars => IInv'
  <1> SUFFICES ASSUME IInv, [Next]_vars PROVE IInv'
    OBVIOUS
  <1>1. CASE \E n \in Jobs : Request(n)
    BY <1>1, RequestStep
  <1>2. CASE \E n \in Jobs : MarkRead(n) \/ Dispatch(n) \/ LoseCommitted(n) \/ Complete1(n) \/ Forget1(n)
    BY <1>2, Elsewhere DEF books, MarkRead, Dispatch, LoseCommitted, Complete1, Forget1, notificationVars
  <1>3. CASE \E w \in Workers, n \in Jobs : Take(w, n)
    BY <1>3, TakeStep
  <1>4. CASE \E w \in Workers : Deliver(w) \/ Break(w) \/ Lose(w)
    BY <1>4, SendStep, CommitStep, AttemptStep DEF Deliver
  <1>5. CASE UNCHANGED vars
    BY <1>5, Elsewhere DEF books, vars, notificationVars
  <1> QED
    BY <1>1, <1>2, <1>3, <1>4, <1>5 DEF Next

(* However many attempts overlap, stall or are repeated, a notification    *)
(* that is SENT was counted once, is in the timeline once, and an e-mail   *)
(* has gone out for it if that is its channel, and none if it is not       *)
(* (DeliveryBookedOnce): the attempts' condition status <> 'SENT' and the  *)
(* order of sending and writing suffice.                                   *)
THEOREM BookedOnce == Spec => []DeliveryBookedOnce
  <1>1. IInv => DeliveryBookedOnce
    BY DEF IInv
  <1> QED
    BY NInit, NNext, <1>1, PTL DEF Spec

(* The run's behaviours are those of Notifications, as long as its scene   *)
(* lasts, so its invariants are the run's.                                 *)
LEMMA Scenes == SceneFairSpec => Spec
  <1>1. SceneInit => Init
    BY DEF SceneInit
  <1>2. [SceneNext]_<<scene, vars, outboxVars, incidentVars, documentVars>> => [Next]_vars
    BY DEF SceneNext
  <1> QED
    BY <1>1, <1>2, PTL DEF SceneFairSpec, Spec

----------------------------------------------------------------------------
(* A job that can still run has an attempt left.                           *)
AttemptsLeft == \A n \in Jobs : jobState[n] \in Queued => attempts[n] < MaxAttempts

QueueInv == QueueTypeOK /\ AttemptsLeft

(* The variables that IInv leaves out; no more rows wait than were asked.  *)
RestOK ==
    /\ asked \in [Jobs -> 0..MaxRequests]
    /\ rows \in [Jobs -> 0..MaxRequests]
    /\ \A n \in Jobs : rows[n] <= asked[n]
    /\ owner \in [Jobs -> Workers \cup {None}]
    /\ readAt \in [Jobs -> BOOLEAN]

LEMMA QueueKept == ASSUME QueueInv, UNCHANGED queueVars PROVE QueueInv'
  BY DEF QueueInv, QueueTypeOK, AttemptsLeft, queueVars

LEMMA QueueOperations ==
    ASSUME QueueInv, NEW n \in Jobs,
           \/ Enqueue(n) \/ Start(n) \/ Commit(n) \/ Complete(n)
           \/ Throw(n) \/ Stall(n) \/ Forget(n)
    PROVE  QueueInv'
  <1> USE QueueAssumption DEF QueueInv, QueueTypeOK, AttemptsLeft, JobStates, Queued, Forgettable
  <1>1. CASE Enqueue(n)
    BY <1>1 DEF Enqueue
  <1>2. CASE Start(n) \/ Commit(n) \/ Complete(n) \/ Forget(n)
    BY <1>2 DEF Start, Commit, Complete, Forget
  <1>3. CASE Throw(n)
    BY <1>3 DEF Throw, EndFailed
  <1>4. CASE Stall(n)
    BY <1>4 DEF Stall, EndFailed
  <1> QED
    BY <1>1, <1>2, <1>3, <1>4

(* What the queue hears of an attempt, if it listens to it.                *)
LEMMA HeardStep ==
    ASSUME QueueInv, IInv, RestOK, NEW w \in Workers, run[w].pc # "idle", NEW end, Heard(w, end)
    PROVE  QueueInv' /\ owner' \in [Jobs -> Workers \cup {None}]
  <1> DEFINE n == run[w].job
  <1>1. n \in Jobs
    BY DEF IInv, AttemptInv
  <1>2. CASE owner[n] = w
    <2>1. (Commit(n) \/ Throw(n)) /\ owner' = [owner EXCEPT ![n] = None]
      BY <1>2 DEF Heard
    <2> QED
      BY <1>1, <2>1, QueueOperations DEF RestOK
  <1>3. CASE owner[n] # w
    BY <1>3, QueueKept DEF Heard, RestOK
  <1> QED
    BY <1>2, <1>3

LEMMA QueueNext == IInv /\ RestOK /\ QueueInv /\ [Next]_vars => QueueInv'
  <1> SUFFICES ASSUME IInv, RestOK, QueueInv, [Next]_vars PROVE QueueInv'
    OBVIOUS
  <1>1. ASSUME NEW n \in Jobs,
               \/ Request(n) \/ MarkRead(n) \/ Dispatch(n) \/ LoseCommitted(n) \/ Complete1(n) \/ Forget1(n)
        PROVE  QueueInv'
    BY <1>1, QueueKept, QueueOperations DEF Request, MarkRead, Dispatch, LoseCommitted, Complete1, Forget1
  <1>2. ASSUME NEW w \in Workers, NEW n \in Jobs, Take(w, n) PROVE QueueInv'
    BY <1>2, QueueOperations DEF Take
  <1>3. ASSUME NEW w \in Workers, Read(w) \/ CommitDelivery(w) \/ Fail(w) PROVE QueueInv'
    <2>1. run[w].pc # "idle"
      BY <1>3 DEF Read, CommitDelivery, Fail
    <2>2. UNCHANGED queueVars \/ \E end \in {"committed", "thrown"} : Heard(w, end)
      BY <1>3 DEF Read, CommitDelivery, Fail
    <2> QED
      BY <2>1, <2>2, HeardStep, QueueKept
  <1>4. ASSUME NEW w \in Workers, Send(w) \/ Update(w) \/ Break(w) PROVE QueueInv'
    BY <1>4, QueueKept DEF Send, Update, Break
  <1>5. ASSUME NEW w \in Workers, Lose(w) PROVE QueueInv'
    <2>1. run[w].job \in Jobs /\ Stall(run[w].job)
      BY <1>5 DEF Lose, IInv, AttemptInv
    <2> QED
      BY <2>1, QueueOperations
  <1>6. CASE UNCHANGED vars
    BY <1>6, QueueKept DEF vars
  <1> QED
    BY <1>1, <1>2, <1>3, <1>4, <1>5, <1>6 DEF Next, Deliver

LEMMA RestNext == IInv /\ RestOK /\ QueueInv /\ [Next]_vars => RestOK'
  <1> SUFFICES ASSUME IInv, RestOK, QueueInv, [Next]_vars PROVE RestOK'
    OBVIOUS
  <1> USE NotificationsAssumption DEF RestOK
  <1>1. ASSUME NEW n \in Jobs, Request(n) PROVE RestOK'
    BY <1>1 DEF Request
  <1>2. ASSUME NEW n \in Jobs, Dispatch(n) PROVE RestOK'
    BY <1>2 DEF Dispatch
  <1>3. ASSUME NEW n \in Jobs, MarkRead(n) \/ LoseCommitted(n) \/ Complete1(n) \/ Forget1(n) PROVE RestOK'
    BY <1>3 DEF MarkRead, LoseCommitted, Complete1, Forget1, notificationVars
  <1>4. ASSUME NEW w \in Workers, NEW n \in Jobs, Take(w, n) PROVE RestOK'
    BY <1>4 DEF Take
  <1>5. ASSUME NEW w \in Workers, Deliver(w) PROVE RestOK'
    <2>1. UNCHANGED <<asked, rows, readAt>>
      BY <1>5 DEF Deliver, Read, Send, Update, CommitDelivery, Fail
    <2>2. run[w].pc # "idle"
      BY <1>5 DEF Deliver, Read, Send, Update, CommitDelivery, Fail
    <2>3. UNCHANGED owner \/ \E end \in {"committed", "thrown"} : Heard(w, end)
      BY <1>5 DEF Deliver, Read, Send, Update, CommitDelivery, Fail
    <2>4. owner' \in [Jobs -> Workers \cup {None}]
      BY <2>2, <2>3, HeardStep
    <2> QED
      BY <2>1, <2>4
  <1>6. ASSUME NEW w \in Workers, Break(w) \/ Lose(w) PROVE RestOK'
    BY <1>6 DEF Break, Lose
  <1>7. CASE UNCHANGED vars
    BY <1>7 DEF vars, notificationVars
  <1> QED
    BY <1>1, <1>2, <1>3, <1>4, <1>5, <1>6, <1>7 DEF Next

(* Notifications, their attempts and their jobs keep their types: no job   *)
(* fails more often than it may, and no more rows wait than were asked for.*)
THEOREM TypeCorrect == Spec => []TypeOK
  <1>1. Init => QueueInv /\ RestOK
    BY QueueAssumption, NotificationsAssumption
    DEF Init, QueueInit, QueueInv, QueueTypeOK, AttemptsLeft, JobStates, Queued, RestOK
  <1>2. IInv /\ QueueInv /\ RestOK => TypeOK
    BY DEF IInv, BookTypeOK, QueueInv, RestOK, TypeOK
  <1> QED
    BY NInit, NNext, QueueNext, RestNext, <1>1, <1>2, PTL DEF Spec
=============================================================================
