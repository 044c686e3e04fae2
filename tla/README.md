# TLA+ models of AegisFlow

AegisFlow (this repository) receives events from tenants' connectors, normalizes them, detects
alerts, opens incidents with deadlines, and answers questions from a knowledge base. The modules
here model the parts whose correctness depends on order: transactions that race, jobs delivered
more than once, replies that are lost, processes that die. TLC checks them on small instances;
TLAPS proves most of the safety properties for every value of the constants.

## The system

One PostgreSQL database is shared by an API (`src/apps/api`, NestJS and Prisma) and any number of
workers (`src/apps/worker`, BullMQ on Redis). A command writes its tables and a row of
`outbox_events` in one transaction; a dispatcher in every worker claims due rows, adds a BullMQ job
for each, and confirms the row; a processor runs the job in transactions of its own, perhaps
writing further outbox rows. All transactions are READ COMMITTED.

    request -> API transaction -> outbox row -> dispatcher -> BullMQ job -> processor transaction
                                     ^                                            |
                                     +--------------------------------------------+

| Component | State | Operations | What is hard | Correct when |
|---|---|---|---|---|
| Outbox dispatcher | `outbox_events`: status, retry_count, available_at | claim, publish, confirm, fail | leases that expire under a slow holder, lost replies, crashes | outcomes are final, nothing is published undelivered, nothing is forgotten |
| BullMQ | jobs by jobId | add, attempt, stall, finish, forget | at-least-once, jobIds that are still known | (external) |
| Event ingress | `raw_events`, `idempotency_records`, `connectors` | receiveIngress | reused keys, equal events under other keys, retries, authentication in a transaction of its own | one receipt per event, each client its own |
| Ingestion worker | `raw_events.status`, `normalized_events` | process, markFailed, markRejected | redelivery, failures recorded late | normalized and announced once; decisions final |
| Detection | `rule_executions`, `alerts`, `alert_events` | process, triage, suppress | stale counts, late events, redelivery | a burst raises an alert; occurrences are counted once; people's decisions stay |
| Rules, SLA policies, assets | rows with a version, `detection_rule_versions` | create, edit, switch, archive | edits of what was read long ago | no edit is lost, a rule's history is complete |
| Incident creation | `incidents`, `incident_alerts` | fromAlert, createIncident | two creators with different locks | one incident per alert; severe alerts get one |
| Incident lifecycle and SLA | status, version, analysis, time stamps, breaches | transition, assign, updateAnalysis, evaluateSla | read and write in different transactions, deadlines against late answers | only listed transitions, closed means analysed, breaches are real |
| Notifications | `notifications`, the timeline, e-mail | request, deliver, read | the e-mail is sent before COMMIT; attempts overlap | booked once, sent unless the job gives up |
| Evidence | `incident_evidence`, objects | request, PUT, inspect, finalize | upload and inspection outside transactions | one verdict, about bytes that were seen |
| Knowledge base | documents, versions, chunks, objects in MinIO | createVersion, deleteDocument, index job, retrieve, cite | indexing outlives versions and deletion | an indexed document has its current text; deletion is final and complete |
| Recommendations | a counter per process, `ai_recommendations` | requestRecommendation | a model that answers anything, errors at every step | grounded or silent; slots come back |
| Sessions | `sessions`, `refresh_tokens` | login, refresh, logout, logout-all | rotation against reuse and revocation | one live token; revoked is dead; answers are true |
| Login and MFA | `credentials`, `mfa_methods`, `mfa_challenges`, `recovery_codes`, Redis | password, challenge, enrolment | factors presented twice at once | a factor and a challenge are used once; the lock is set at the limit |
| Organizations | memberships, roles, invitations | register, invite, accept, replace roles | unique keys and snapshots decide | invitation and membership go together; the owner stays |
| Connectors | `connectors`, `api_keys`, `webhook_secrets` | issue, rotate, revoke, patch, DELETE, ingress | secrets that overlap, sweeps by statement | one credential per key; a disabled connector is cut off |

`PROJECT.json` lists every component, the source lines of every definition, and the hazards.

## The modules

**JobQueue** is BullMQ as the code relies on it: a function from jobId to the state of its job.
Adding a jobId that is known is a no-op; a job has five attempts and one stall; finished jobs are
forgotten at some time. `committed` is between the processor's COMMIT and BullMQ's hearing of it.
Outbox, Knowledge and Notifications extend it. Incident, Alerts and Ingestion need only that a job
may run again and overlap with itself, and say so with actions of their own (`Deliver`,
`Redeliver`, several workers).

**Outbox** models `outbox-dispatcher.ts`: `Claim` is `claim()`, `Publish`, `PublishFails` and
`HandOver` are `publish()` with `route()`, `Confirm` and `ConfirmFails` are `updatePublished()`,
`Fail` is `updateFailed()`, `Abandon` is the death of the process or a cycle that ends early.
`held[d][e]` is the `retry_count` that `RETURNING` gave dispatcher `d`, the value `updateFailed`
compares. Time is the Boolean `due`, which `Elapse` may set at any moment, so a dispatcher may be
slower than its lease.

**OutboxContract** is what producers are promised: pending, then published after delivery or
abandoned, for ever. Outbox refines it through `OutcomeOf` (property `ImplementsContract`).

**Notifications** goes from a command that asks for a notification to the e-mail. `Request` is
`createNotification()` (an upsert and an outbox row), `Dispatch` the dispatcher, and `Read`,
`Send`, `Update`, `CommitDelivery` are the processor's transaction, with `Fail` for its catch
block: the FAILED status is rolled back with the error it throws, so nobody sees it. `owner` is the
worker whose attempt BullMQ listens to: after `Lose` the old attempt may go on (`Heard`). `channel`
is EMAIL or INTERNAL: an INTERNAL notification goes through the same job without an e-mail, and
`MarkRead` is a responder reading it, whatever its job has done.

**Knowledge** models one document. An attempt of the index job of a version goes `Begin` (first
transaction), `Embed`, `Lock`, `Replace`, `CommitIndex` (second transaction, three steps because
its row locks and uncommitted rows matter), and on errors `Fail` (the catch block). The deletion is
`ReadForDelete`, `Scrub`, `MarkDeleted`, `Purge`: its statements are steps because they see
different states. `lock` is the document row's lock between two of the indexer's statements.

**Recommendation** models `requestRecommendation()` at one API process: `Enter` (the capacity
check), `Retrieve`, `Generate` (any output of the model, judged by `Valid`), `Unavailable` (the
inner catch), `Save`, and `Fail` for an error that leaves the function. `Store` is
`saveRecommendation()`, whose foreign keys need the cited chunks; `Replace` is the indexer
replacing them, which ON DELETE RESTRICT stops once one is cited.

**Incident** models one incident. `Submit` is the use case (read, ask the policy), `Transit` or
`Refuse` the repository's transaction. Assignment and analysis read and write in one transaction
guarded by the version it read, and are one step. `Evaluate` and `WriteBreach` are the two
statements of `evaluateSla()`. Deadlines are the Booleans `overdue`; `Skewed` allows the worker's
clock to be behind the database's.

**Evidence** models the files of one incident. A file is named by its hash and stands for its row
and its object. `Request` is `requestEvidenceUpload()`, `Put` the browser's upload under a signed
URL that may be used again, `Begin`, `Inspect`, `Finalize` are `completeEvidenceUpload()`: two
transactions with the storage between them.

**Alerts** models detection, alert commands and both ways to create an incident, for one rule, one
correlation key and one deduplication bucket; a rule's versions and their alerts share numbers.
`Count` is everything a detection job reads, `Execute` everything it writes. `Judge` and
`AutoCreate` are `fromAlert()`, `Draft` and `Create` are `createIncident()`.

**Catalog** models what is maintained under optimistic versions: assets, detection rules with
their history, SLA policies. `Open` is a user's reading, `Save` the PATCH with the version that was
read, `Archive` the DELETE of an asset, which needs none.

**Ingestion** models one connector from the HTTP request to the normalized event. `Check`, `Lock`,
`Enter`, `Store` are `receiveIngress()` with its three locks; the record of a key and the raw event
become visible in `Store`. `Normalize` and `Fail` are an attempt of the worker, `Mark` its catch
block. Requests have one content type.

**Connectors** models one connector and its credentials. `BeginIssue`, `Expire`, `Insert` are
`createApiKey()` and `rotateWebhookSecret()` inside their idempotency record; `BeginDisable`,
`SweepKeys`, `SweepSecrets`, `Disable` are the three statements of `disableConnector()` and its
COMMIT; `Check`, `Enter`, `Store` are the transactions of an ingress as far as the connector is
concerned. An update reads the rows its statement sees when it starts and gets them when nobody
holds them, which is why reading and getting are two steps.

**Session** models the sessions of one user. A refresh is `Find`, `Judge`, `Consume`, `Touch`,
`Commit`, one step per statement of `rotateRefreshToken()`; `revokeSessionGraph()` and
`revokeAllSessions()` are `RevokeSessions`, `Sweep`, `Kill`, `Seal`. Writes stay in the request
until COMMIT; `HoldsToken` and `HoldsSession` derive the row locks from what each open transaction
has written.

**Login** models the password, the lock and the Redis throttle (`BeginLogin`, `Refuse`, `Accept`,
`Proceed`), the MFA challenge (`BeginMfa`, `Read`, `Use`, `Miss`, `Close`, `Commit`, `Open`) and
the enrolment (`BeginEnrolment`, `Save`, `BeginConfirm`, `Activate`). The clock counts TOTP
periods, and a code is named by its secret and period.

**Membership** models one organization: registration and founding, roles, invitations
(`BeginAccept`, `Find`, `Claim`, `Join`, `Accept`) and `replaceMembershipRoles()` (`BeginReplace`,
`Read`, `Delete`, `Wait`, `Insert`, `Replace`).

In every module the operators whose comment begins "A plausible defect" are variants used to show
that the properties can fail; no specification uses them.

### How the modules are instantiated

`MCOutbox`, `MCIncident` and `MCAlerts` extend one module each. The other `MC` modules check
several components one after the other, in *scenes*: the variable `scene` is chosen in the initial
state and never changes, the component of the scene takes its steps, and the others wait in their
initial states. One component is extended, the others are instances on variables of the `MC`
module. The state graph is the disjoint union of the components' graphs, so a scene shows exactly
what a run of its own would; the components of one run are independent of each other. Fairness is
conjoined to each component's own actions.

| Module | Scenes |
|---|---|
| MCKnowledge | Knowledge, Recommendation |
| MCIdentity | Session, Login, Membership |
| MCApi | Ingestion, Connectors, Evidence, Catalog |
| MCDelivery | Notifications, Outbox |
| MCWork | Incident, Knowledge |

## The runs

| Run | Shows | Bounds, and why they are enough |
|---|---|---|
| outbox | nothing published undelivered, given up only at the limit, `ImplementsContract` | two dispatchers (a holder and one that overtakes it), two rows for one job, batches of two, two claims instead of ten, two attempts, one stall |
| outbox_stuck | **violated**: an unconfirmed row becomes eligible again | one row that can be routed and one that cannot, batches of one |
| knowledge | the attempt that writes is the current one; INDEXED has its text; deletion is final. Recommendations are grounded or silent, slots come back | two versions (one to be overtaken), two attempts, one citation; three requests for two slots, one chunk that may vanish, one invented source |
| knowledge_old | **violated**: jobs of old versions are harmless | as above |
| knowledge_text | **violated**: a deleted document has no text | as above |
| incident | closed means analysed; stamps agree; breaches are real | two clients, versions up to five, which resolves, reopens and resolves again |
| alerts | bursts raise alerts, occurrences are events, one incident, decisions stay | three events in any order of arrival, two jobs, one analyst, a rule whose risk passes 90 with the third event and which can be switched off |
| alerts_rising | **violated**: every severe alert gets an incident | as above |
| identity | one live token, revoked is dead, answers are true; factors and challenges used once; the lock is set at the limit; invitations and roles | two sessions, four tokens (two rotations after the log-ins), three requests (two refreshes and a revocation); two handlers, one challenge, two secrets, one recovery code, a limit of one, two clock ticks; two users, two invitations, two requests |
| api | receipts, announcements; credentials and DELETE; evidence; versions and histories | a request and its retry under one key, the same event under another key, another event under the first key, two workers, one malformed payload; one API key, three secrets (two rotations), two administrators, one event; a harmless and a harmful file, two keys, two inspections; one item of each kind, two authors, three versions |
| delivery_live | notifications are sent and booked once; rows settle or use up their claims; published events are processed or end in the failed set | one notification of either channel asked for twice, two workers, two attempts, one stall; one row that can be routed and one that cannot, two dispatchers |
| work_live | overdue responses are marked; queued versions get indexed | one client, exact clocks; two versions, the second under another provider |

Deadlock checking is off in all of them: producers, clients and analysts may stop, and the bounds
end every history.

Symmetry is used for interchangeable clients, dispatchers and rows, in runs without liveness only.

### Where the code and its documents disagree

- **outbox_stuck.** The claim counts itself: a dispatcher that dies in its tenth claim leaves the
  row `PROCESSING` with `retry_count = 10`, which no claim selects
  (`outbox-dispatcher.ts:112`). `docs/architecture/event-ingestion.md:27-28` says that unconfirmed
  rows become eligible again. `RowSettlesOrRunsOut` is what does hold.
- **knowledge_old.** The catch block of an old version's job takes the newer, indexed document back
  to `PENDING` (`knowledge-index.processor.ts:170`), and no job is left to index it; compare
  `docs/threat-model/phase-6.md:15`.
- **knowledge_text.** `deleteDocument` overwrites chunks before it waits for the document's lock;
  chunks the indexer commits in between keep text and vectors
  (`prisma-knowledge.repository.ts:145`), against `docs/architecture/secure-rag.md:59-60`.
- **alerts_rising.** An alert is judged once, when it is created (`detection.processor.ts:292`);
  when its risk reaches 90 later no incident is created, against ADR 0008, lines 14-15.

Behaviour the models reach that no document speaks of: an enrolment begun before another is
confirmed replaces the verified method and forgets the counter of its last code (`overwritten` in
Login); a role replacement that overtakes another may leave the union of both (`disturbed` in
Membership); a recovery code or a TOTP period is spent although the challenge was closed by another
request (`Close` in Login); a credential issued while its connector is being disabled survives
(`owed` in Connectors says which are promised to go); an e-mail may be sent more than once.

### Fairness

- Outbox: time passes (`Elapse`); every dispatcher polls each 250 ms and finishes or drops its
  batch; a worker continues a job it has. Nothing is assumed of producers, of the success of a
  call, or of BullMQ's forgetting jobs.
- Notifications: weak fairness of the dispatcher, of the workers' taking a waiting job and of the
  steps of an attempt. `Deliver` lets an attempt's statement fail or succeed as it likes; sending
  may fail at every attempt, which is why `RequestedIsSent` has the failed set as an alternative.
- Knowledge: strong fairness of an attempt's steps: a worker takes waiting jobs and every attempt
  ends, though deletions and other versions disable it again and again; row locks are released
  because the deletion's statements end too.
- Incident and Alerts: the outbox releases what is due (Incident in `work_live` only), the worker
  runs its jobs, and a write that is tried again and again succeeds in the end (strong fairness).
  This is weaker than the code's five attempts allow to promise: when all five fail the job ends in
  the failed set and nothing else evaluates it. The runs show that the logic needs nothing more
  than a success.
- Ingestion has no liveness property: an event whose attempts are exhausted stays FAILED. Requests
  of users may be abandoned at any step, so nothing is promised of Session, Login, Membership,
  Connectors, Evidence, Catalog and Recommendation either.

## The proofs

The `...Proofs` modules prove every invariant and every action property of the passing runs, the
types of every module, and the refinement of `OutboxContract`, for all values of the constants.
They use the named assumptions on the constants only, which TLC evaluates in the runs:

| Assumption | Says |
|---|---|
| `OutboxAssumption`, `QueueAssumption`, `NotificationsAssumption`, `IncidentAssumption` | the limits are natural numbers, positive where zero makes no sense |
| `KnowledgeAssumption` | versions are 1 to a positive bound, and each has its job |
| `AlertsAssumption` | events are finitely many numbers, a rule has a version, anomaly scores are at most 10 |
| `IngestionAssumption`, `ConnectorAssumption`, `CatalogAssumption` | each request has a body and a key; API keys are no webhook secrets, the kinds of items are apart; versions have positive bounds |
| `SessionAssumption`, `LoginAssumption`, `MembershipAssumption`, `NoneAssumption` | `None` is none of the values it stands beside; a recovery code is neither a TOTP code nor a wrong one; the roles a request names are roles |
| stated by `SlotsHeld` and `ScenesTyped` | the requests are a finite set, the capacity is a natural number |

Components that a run checks in scenes are proved about through the instance the run uses (`L!Spec`
is Login's specification), and a lemma `Scenes` of the proof module says that each behaviour of the
run (`SceneSpec`, in `MCDelivery` `SceneFairSpec`) is a behaviour of every component it stands for,
so that the theorems hold of the runs' specifications as well.

- **OutboxProofs.** Types need more than types: `retry[e]` never passes `MaxRetry` because a claim
  demands less, and `held` carries a count no greater than the row's. `FailedOnlyAtLimit` then
  follows because `updateFailed` compares the count of its own claim, which no later claim can have
  exceeded once it equals the bound. For `PublishedNotLost` a row that is being confirmed has been
  added, and a job that was added is queued, committed or exhausted. The refinement is proved step
  by step: a step of the dispatchers is one of the contract or leaves the outcomes and the
  delivered events alone; `Claim`, which changes many rows, is invisible. That no outcome is
  revised (`SettledIsFinal`) is a theorem and part of the refinement, and has no run of its own.
- **NotificationsProofs.** The queue is irrelevant to the books: the invariant says that whoever is
  about to write has sent if the channel is EMAIL, that nobody sends an INTERNAL notification, and
  that nothing is counted before the status is SENT. The condition
  `status <> 'SENT'` does the rest, for any number of overlapping attempts. The types need
  `AttemptsLeft`, as in KnowledgeProofs, and that no more rows wait than were asked for.
- **KnowledgeProofs.** The inductive invariant is the lock: exactly the attempt inside the second
  transaction holds it, so neither a version nor a deletion can commit in between, and what the
  second check saw is still true at COMMIT. An attempt is in progress only while the queue has its
  job active, and a job that can still run has an attempt left (`AttemptsLeft`): without that the
  count of failed attempts would leave its type. For Recommendation, a draft is `Sound` for what
  its request retrieved from the moment it is written, since only validated output becomes
  GENERATED; the foreign keys keep the sources from then on. Slots are the cardinality of the set
  of requests in flight.
- **IncidentProofs.** `ClosedIsAnalysed` is not inductive: a transition in flight carries texts
  and a version. The strengthening says of each request whose version is still the row's that its
  status is too only if the policy allowed the step with the texts the row has now. `BreachIsReal`
  has its own invariant: once overdue, nobody becomes punctual. `OnlyListedTransitions` is proved
  here and has no run of its own.
- **AlertsProofs.** `BurstRaisesAlert` needs that what a job has counted is at least what had
  arrived when its event did, since arrivals are never removed; `DecidedAsSeen` needs that two
  states of a row with one version are equal. `AutoIncidentIsSevere` is proved here only.
- **ApiProofs.** *Ingestion*: raw events are unique by semantic key, and every lookup, record and
  reply names a stored event with the key of its own payload. `DecidedIsFinal` is proved here only.
  *Connectors*: a request that issues has a key without an answer, which no other has; a request
  that disables is alone, and of what it owes it has, as far as it has got, everything in its
  sights that is not revoked (`RequestOK`, `AloneInv`). That a rotation leaves a secret is inductive
  beside it, and `DisabledIsCutOff` follows from it. *Evidence*: the versions tell the
  states of a row apart, an inspection carries the version that quarantine set, and what it calls
  safe was sound when inspected; so the second transaction, which demands that version, settles
  exactly what the first one began. *Catalog*: a form that was opened at the row's version
  shows the row; `EditedAsSeen` and `HistoryIsComplete` follow.
- **IdentityProofs.** *Login*: row locks are derived from what an open transaction has written, so
  the invariant relates requests. Whoever has written a factor holds its row until COMMIT
  (`FactorHeld`, `FactorApart`); a code that was accepted is off the list or behind the counter
  (`Counted`); a challenge that led to a session is consumed, and the request that is about to open
  one is alone with it (`Consumed`, `Carried`, `ChallengeApart`). `Counted` speaks of the TOTP
  counter only while no enrolment has replaced a verified method (`overwritten`), as does the
  property. *Membership*: whoever accepts is the invited and no member while its membership is
  being inserted, which one transaction at a time does for a user (`AcceptingOK`, `JoinApart`).
  As long as no other replacement has committed, what a replacement has read of a member's
  roles is what they are, and whoever replaces the roles of their own keeps an ownership they
  have (`ReplacingOK`).
- **SessionProofs.** The invariant is about the locks. A token that is being exchanged is live and
  held by one request; a request between `Touch` and `Commit` holds the session's row as well, so a
  revocation that has the row sees, when its sweep starts, every token that will ever exist in the
  session; and whoever waits for a row looks at it again. `OneLiveToken` follows because a
  successor is inserted in the step that uses up its parent, `RevokedIsDead` and `AnswersAreTrue`
  because what a revocation has swept it kills.

Only model-checked are the six liveness properties (`RequestedIsSent`, `RowSettlesOrRunsOut`,
`PublishedIsProcessed`, `OverdueResponseMarked`, `VersionGetsIndexed`,
`AnnouncedSevereGetsIncident`), since arguments from fairness and ENABLED are out of the prover's
reach, and what the four runs refute. `SettledIsFinal`, `OnlyListedTransitions`,
`AutoIncidentIsSevere` and `DecidedIsFinal` are proved without a run of their own.

## What is abstracted

Tenants (row level security separates them; every module is about one), rate limits of HTTP, text,
formats, hashing and encryption, anomaly statistics (an input of `Count`), correlation edges, audit
records, comments and tags, ranking and the context budget of retrieval, object contents up to
whether they are what was declared. Idempotency records that are found again change nothing and are
modelled where their absence, expiry or reuse has a consequence. Batches of events are single
events in Alerts and a whole in Ingestion. A transaction is one step unless the order of its
statements against others can be observed. A statement's failure, a deadlock broken by PostgreSQL
and a lost reply are steps that may happen at any time.

## Not modelled

- Dependencies between assets: added if both ends are active when they are counted, removed by
  identifier; no decision reads them.
- Event queries, receipts, lists and searches: they read.
- AI providers, SMTP, MinIO and Redis beyond their effect on the callers: external services.
- Health checks, metrics and telemetry, the web interface, the event simulator, the shared UI and
  testing packages: no state that the properties are about.
- The contracts and the schema appear as guards (unique keys, foreign keys, limits).

## Plan

1. A composition of Outbox with one processor, so that at-least-once delivery and idempotent
   processing meet in one specification, and the proofs of both are used together.
2. Pure algorithms: normalization limits, anomaly statistics and risk scores, the context budget of
   the RAG policy, each against a reference definition on bounded inputs.
3. Asset dependencies, once something decides by them.
