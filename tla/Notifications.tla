--------------------------- MODULE Notifications ---------------------------
(***************************************************************************)
(* Notifications about one incident, from the command that asks for one to *)
(* the e-mail, or to the page that lists the INTERNAL ones                 *)
(* (createNotification and markNotificationRead of                         *)
(* prisma-incident.repository.ts, createNotification of                    *)
(* incident.processor.ts, and notification.processor.ts).                  *)
(*                                                                         *)
(* A command upserts the notification by its idempotency key and writes an *)
(* outbox row in any case; the dispatcher turns rows into the job of the   *)
(* notification, at least once.  The processor is one READ COMMITTED       *)
(* transaction: it reads the row without a lock, sends, then updates; what *)
(* its catch block writes is rolled back when it throws again, so FAILED   *)
(* is never seen.  A job whose worker is slow to renew its lock is given   *)
(* to another one, and the first goes on.                                  *)
(***************************************************************************)
EXTENDS JobQueue, FiniteSets

CONSTANTS
    Workers,
    MaxRequests,   \* bound on the commands that ask for a notification
    None

ASSUME NotificationsAssumption == MaxRequests \in Nat

VARIABLES
    channel,       \* EMAIL or INTERNAL, for good
    status,        \* notifications.status, "none" before the insertion
    asked,         \* outbox rows written for it
    rows,          \* those that have not become PUBLISHED
    run,           \* the attempts in progress
    owner,         \* the worker whose attempt the queue listens to
    delivered,     \* attempt_count
    entries,       \* NOTIFICATION_SENT entries of the timeline
    mailed,        \* has an e-mail gone out?
    readAt         \* has a responder read it?

notificationVars == <<channel, status, asked, rows, run, owner, delivered, entries, mailed, readAt>>

vars == <<queueVars, notificationVars>>

Idle == [job |-> None, pc |-> "idle"]

TypeOK ==
    /\ QueueTypeOK
    /\ channel \in [Jobs -> {"EMAIL", "INTERNAL"}]
    /\ status \in [Jobs -> {"none", "PENDING", "SENT"}]
    /\ asked \in [Jobs -> 0..MaxRequests]
    /\ rows \in [Jobs -> 0..MaxRequests]
    /\ run \in [Workers -> [job : Jobs \cup {None}, pc : {"idle", "read", "send", "update", "commit", "throw"}]]
    /\ owner \in [Jobs -> Workers \cup {None}]
    /\ delivered \in [Jobs -> Nat]
    /\ entries \in [Jobs -> Nat]
    /\ mailed \in [Jobs -> BOOLEAN]
    /\ readAt \in [Jobs -> BOOLEAN]

Init ==
    /\ QueueInit
    /\ channel \in [Jobs -> {"EMAIL", "INTERNAL"}]
    /\ status = [n \in Jobs |-> "none"]
    /\ asked = [n \in Jobs |-> 0]
    /\ rows = [n \in Jobs |-> 0]
    /\ run = [w \in Workers |-> Idle]
    /\ owner = [n \in Jobs |-> None]
    /\ delivered = [n \in Jobs |-> 0]
    /\ entries = [n \in Jobs |-> 0]
    /\ mailed = [n \in Jobs |-> FALSE]
    /\ readAt = [n \in Jobs |-> FALSE]

----------------------------------------------------------------------------
\* An assignment or a transition, and again one with the same words.
Request(n) ==
    /\ asked[n] < MaxRequests
    /\ status' = [status EXCEPT ![n] = IF @ = "none" THEN "PENDING" ELSE @]
    /\ asked' = [asked EXCEPT ![n] = @ + 1]
    /\ rows' = [rows EXCEPT ![n] = @ + 1]
    /\ UNCHANGED <<queueVars, run, owner, delivered, entries, mailed, channel, readAt>>

\* The dispatcher adds the job and confirms the row, or is to repeat it.
Dispatch(n) ==
    /\ rows[n] > 0
    /\ Enqueue(n)
    /\ rows' \in {rows, [rows EXCEPT ![n] = @ - 1]}
    /\ UNCHANGED <<status, asked, run, owner, delivered, entries, mailed, channel, readAt>>

\* A responder reads an INTERNAL notification: it is listed from its
\* insertion on, whether its job has run or not.
MarkRead(n) ==
    /\ status[n] # "none" /\ channel[n] = "INTERNAL"
    /\ readAt' = [readAt EXCEPT ![n] = TRUE]
    /\ UNCHANGED <<queueVars, channel, status, asked, rows, run, owner, delivered, entries, mailed>>

----------------------------------------------------------------------------
Goto(w, pc) == run' = [run EXCEPT ![w].pc = pc]

Take(w, n) ==
    /\ run[w].pc = "idle"
    /\ Start(n)
    /\ run' = [run EXCEPT ![w] = [job |-> n, pc |-> "read"]]
    /\ owner' = [owner EXCEPT ![n] = w]
    /\ UNCHANGED <<status, asked, rows, delivered, entries, mailed, channel, readAt>>

\* The queue hears of an attempt's end, "committed" or "thrown", if the
\* attempt still has the job.
Heard(w, end) ==
    LET n == run[w].job IN
    IF owner[n] = w
    THEN /\ IF end = "committed" THEN Commit(n) ELSE Throw(n)
         /\ owner' = [owner EXCEPT ![n] = None]
    ELSE UNCHANGED <<queueVars, owner>>

\* The row is read; one that is SENT needs nothing more, and an INTERNAL one
\* no e-mail.
Read(w) ==
    LET n == run[w].job IN
    /\ run[w].pc = "read"
    /\ \/ status[n] = "SENT" /\ Heard(w, "committed") /\ run' = [run EXCEPT ![w] = Idle]
       \/ /\ status[n] # "SENT"
          /\ Goto(w, IF channel[n] = "EMAIL" THEN "send" ELSE "update")
          /\ UNCHANGED <<queueVars, owner>>
    /\ UNCHANGED <<status, asked, rows, delivered, entries, mailed, channel, readAt>>

\* email.send() has an effect no transaction can take back; it may fail
\* before or after that effect.
Send(w) ==
    LET n == run[w].job IN
    /\ run[w].pc = "send"
    /\ \/ mailed' = [mailed EXCEPT ![n] = TRUE] /\ Goto(w, "update")
       \/ mailed' \in {mailed, [mailed EXCEPT ![n] = TRUE]} /\ Goto(w, "throw")
    /\ UNCHANGED <<queueVars, status, asked, rows, owner, delivered, entries, channel, readAt>>

\* The UPDATE waits for one of another attempt.
Update(w) ==
    /\ run[w].pc = "update"
    /\ \A v \in Workers : run[v].job = run[w].job => run[v].pc # "commit"
    /\ Goto(w, "commit")
    /\ UNCHANGED <<queueVars, status, asked, rows, owner, delivered, entries, mailed, channel, readAt>>

\* A plausible defect: the update has lost its status <> 'SENT'.
SettleAgain(n) ==
    /\ delivered' = [delivered EXCEPT ![n] = @ + 1]
    /\ status' = [status EXCEPT ![n] = "SENT"]
    /\ entries' = [entries EXCEPT ![n] = 1]

\* UPDATE ... WHERE status <> 'SENT'; the timeline's key is unique.
Settle(n) ==
    /\ delivered' = [delivered EXCEPT ![n] = IF status[n] = "SENT" THEN @ ELSE @ + 1]
    /\ status' = [status EXCEPT ![n] = "SENT"]
    /\ entries' = [entries EXCEPT ![n] = 1]

CommitDelivery(w) ==
    /\ run[w].pc = "commit"
    /\ Settle(run[w].job)
    /\ Heard(w, "committed")
    /\ run' = [run EXCEPT ![w] = Idle]
    /\ UNCHANGED <<asked, rows, mailed, channel, readAt>>

\* A plausible defect: the error is swallowed, and the job ends as completed.
SwallowError(w) ==
    /\ run[w].pc = "throw"
    /\ Heard(w, "committed")
    /\ run' = [run EXCEPT ![w] = Idle]
    /\ UNCHANGED <<status, asked, rows, delivered, entries, mailed, channel, readAt>>

\* The error leaves the processor, and everything is rolled back.
Fail(w) ==
    /\ run[w].pc = "throw"
    /\ Heard(w, "thrown")
    /\ run' = [run EXCEPT ![w] = Idle]
    /\ UNCHANGED <<status, asked, rows, delivered, entries, mailed, channel, readAt>>

\* A statement or the COMMIT fails.
Break(w) ==
    /\ run[w].pc \in {"read", "update", "commit"}
    /\ Goto(w, "throw")
    /\ UNCHANGED <<queueVars, status, asked, rows, owner, delivered, entries, mailed, channel, readAt>>

\* The queue takes the job from its worker, which is dead or only slow.
Lose(w) ==
    /\ run[w].pc # "idle" /\ owner[run[w].job] = w
    /\ Stall(run[w].job)
    /\ owner' = [owner EXCEPT ![run[w].job] = None]
    /\ run' \in {run, [run EXCEPT ![w] = Idle]}
    /\ UNCHANGED <<status, asked, rows, delivered, entries, mailed, channel, readAt>>

\* Or after the commit, before the queue has heard of it.
LoseCommitted(n) ==
    /\ jobState[n] = "committed"
    /\ Stall(n)
    /\ UNCHANGED notificationVars

Complete1(n) == Complete(n) /\ UNCHANGED notificationVars

Forget1(n) == Forget(n) /\ UNCHANGED notificationVars

Deliver(w) == Read(w) \/ Send(w) \/ Update(w) \/ CommitDelivery(w) \/ Fail(w)

Next ==
    \/ \E n \in Jobs : Request(n) \/ MarkRead(n) \/ Dispatch(n) \/ LoseCommitted(n) \/ Complete1(n) \/ Forget1(n)
    \/ \E w \in Workers, n \in Jobs : Take(w, n)
    \/ \E w \in Workers : Deliver(w) \/ Break(w) \/ Lose(w)

Spec == Init /\ [][Next]_vars

\* The dispatcher and the workers go on as long as the process runs.
Fairness ==
    /\ \A n \in Jobs : WF_vars(Dispatch(n)) /\ WF_vars(\E w \in Workers : Take(w, n)) /\ WF_vars(Complete1(n))
    /\ \A w \in Workers : WF_vars(Deliver(w))

FairSpec == Spec /\ Fairness

----------------------------------------------------------------------------
\* However many attempts overlap or are repeated, the books have one
\* delivery, counted once and in the timeline once, and an e-mail has gone
\* out for it exactly if that is its channel.  (Several may have: what
\* follows the sending can fail.)
DeliveryBookedOnce ==
    \A n \in Jobs : status[n] = "SENT" =>
        /\ delivered[n] = 1
        /\ entries[n] = 1
        /\ mailed[n] <=> channel[n] = "EMAIL"

\* A notification that was asked for is sent, unless its job has used up
\* all its attempts.
RequestedIsSent ==
    \A n \in Jobs : status[n] = "PENDING" ~> status[n] = "SENT" \/ n \in exhausted

=============================================================================
