------------------------------- MODULE MCLive -------------------------------
(***************************************************************************)
(* What must eventually happen: small instances of Notifications, Outbox,  *)
(* Incident and Knowledge under their fairness, checked one after the      *)
(* other.  An initial state chooses the scene; the components that are not *)
(* in it wait in an initial state of theirs.  Notifications is extended,   *)
(* the others have copies of their variables here.                         *)
(*                                                                         *)
(* The jobs of the outbox have one attempt; those of the notifications and *)
(* the document are retried.  Of the incident, whose evaluations write a   *)
(* column each, only that of the response runs.  A document is followed    *)
(* until it is deleted.                                                    *)
(***************************************************************************)
EXTENDS Notifications, TLC

CONSTANTS
    j1, e1, e3, Events, OutboxJobs, Dispatchers, Unroutable, JobOf, Age, MaxRetry, Limit,
    Clients, MaxIncidentVersion, MaxLag, MaxRuns, Skewed,
    Documents, MaxDocumentVersion, Mismatched, Recommenders

VARIABLES
    scene,
    rowStatus, retry, due, held, phase, cur, added,
    outboxJob, outboxAttempts, outboxStalls, outboxHandled, outboxExhausted,
    incidentStatus, version, root, lessons, responded, punctual, resolved, closed, overdue,
    breached, evaluation, runs, request,
    document, current, chunks, cited, objects, lock, indexPc, upload, deleter, keys, scrubbed,
    source, indexJob, indexAttempts, indexStalls, indexHandled, indexExhausted

dispatchVars == <<rowStatus, retry, due, held, phase, cur, added>>
outboxVars   == <<dispatchVars, outboxJob, outboxAttempts, outboxStalls, outboxHandled, outboxExhausted>>
incidentVars ==
    <<incidentStatus, version, root, lessons, responded, punctual, resolved, closed, overdue,
      breached, evaluation, runs, request>>
documentVars ==
    <<document, current, chunks, cited, objects, lock, indexPc, upload, deleter, keys, scrubbed,
      source, indexJob, indexAttempts, indexStalls, indexHandled, indexExhausted>>

O == INSTANCE Outbox WITH Jobs <- OutboxJobs, MaxAttempts <- 1, MaxStalls <- 0,
       status <- rowStatus, jobState <- outboxJob, attempts <- outboxAttempts,
       stalls <- outboxStalls, handled <- outboxHandled, exhausted <- outboxExhausted

I == INSTANCE Incident WITH MaxVersion <- MaxIncidentVersion, status <- incidentStatus,
       job <- evaluation

K == INSTANCE Knowledge WITH Jobs <- Documents, MaxVersion <- MaxDocumentVersion, MaxStalls <- 0,
       status <- document, pc <- indexPc, jobState <- indexJob, attempts <- indexAttempts,
       stalls <- indexStalls, handled <- indexHandled, exhausted <- indexExhausted

MCJobOf == [e \in Events |-> j1]
MCAge   == e1 :> 1 @@ e3 :> 3

SceneInit ==
    /\ scene \in {"notifications", "outbox", "incident", "knowledge"}
    /\ Init /\ (scene # "notifications" => channel = [n \in Jobs |-> "EMAIL"])
    /\ O!Init
    /\ I!Init /\ overdue = [k \in I!Targets |-> FALSE]
    /\ K!Init

\* A deleted document has nothing left to index.
Kept == document # "DELETED"

SceneNext ==
    \/ /\ scene = "notifications"
       /\ Next
       /\ UNCHANGED <<scene, outboxVars, incidentVars, documentVars>>
    \/ /\ scene = "outbox"
       /\ O!Next
       /\ UNCHANGED <<scene, vars, incidentVars, documentVars>>
    \/ /\ scene = "incident"
       /\ I!Next
       /\ overdue'["RESOLUTION"] = FALSE /\ evaluation'["RESOLUTION"] = "deferred"
       /\ UNCHANGED <<scene, vars, outboxVars, documentVars>>
    \/ /\ scene = "knowledge"
       /\ Kept
       /\ K!Next
       /\ UNCHANGED <<scene, vars, outboxVars, incidentVars>>

\* The fairness of each component, in its scene.
NotificationsFair ==
    /\ \A n \in Jobs :
          /\ WF_vars(scene = "notifications" /\ Dispatch(n))
          /\ WF_vars(scene = "notifications" /\ \E w \in Workers : Take(w, n))
          /\ WF_vars(scene = "notifications" /\ Complete1(n))
    /\ \A w \in Workers : WF_vars(scene = "notifications" /\ Deliver(w))

OutboxFair ==
    /\ \A e \in Events : WF_outboxVars(scene = "outbox" /\ O!Elapse(e))
    /\ \A d \in Dispatchers :
          /\ WF_outboxVars(scene = "outbox" /\ O!Claim(d))
          /\ WF_outboxVars(scene = "outbox" /\ (O!DispatcherStep(d) \/ O!Abandon(d)))
    /\ \A j \in OutboxJobs : WF_outboxVars(scene = "outbox" /\ O!WorkerStep(j) /\ UNCHANGED dispatchVars)

IncidentFair ==
    /\ WF_incidentVars(/\ scene = "incident"
                       /\ evaluation["RESPONSE"] = "deferred"
                       /\ I!Deliver("RESPONSE"))
    /\ WF_incidentVars(scene = "incident" /\ I!Run("RESPONSE"))

KnowledgeFair ==
    /\ \A v \in Documents : SF_documentVars(scene = "knowledge" /\ Kept /\ K!Proceed(v))
    /\ WF_documentVars(scene = "knowledge" /\ Kept /\ (K!Scrub \/ K!MarkDeleted \/ K!DeleteFails))

SceneFairSpec ==
    /\ SceneInit
    /\ [][SceneNext]_<<scene, vars, outboxVars, incidentVars, documentVars>>
    /\ NotificationsFair
    /\ OutboxFair
    /\ IncidentFair
    /\ KnowledgeFair

----------------------------------------------------------------------------
\* Outbox: under fair polling every row settles or uses up its claims.
RowSettlesOrRunsOut == O!RowSettlesOrRunsOut

\* Outbox: what is published is processed, or ends in the failed set.
PublishedIsProcessed == O!PublishedIsProcessed

\* Incident: a missing response is marked once its deadline is over, unless
\* the evaluation ends in the failed set.
OverdueResponseMarked == I!OverdueResponseMarked

\* Knowledge: a queued version is indexed, overtaken, or out of attempts.
VersionGetsIndexed == K!VersionGetsIndexed
=============================================================================
