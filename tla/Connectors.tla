----------------------------- MODULE Connectors -----------------------------
(***************************************************************************)
(* One connector: its status, its API keys and webhook secrets, and the    *)
(* requests that authenticate with them (resource.use-cases.ts and         *)
(* prisma-resource.repository.ts).                                         *)
(*                                                                         *)
(* Every administrator's request is one READ COMMITTED transaction.  Those *)
(* of several statements are split where another request may come between; *)
(* what they write is kept in the request until COMMIT.  The last update   *)
(* that has to wait for a row and the COMMIT are one step, since nobody    *)
(* else gets the row in between.  Inserting a credential takes no lock     *)
(* that an update of the connector's row would wait for.                   *)
(***************************************************************************)
EXTENDS Naturals

CONSTANTS
    ApiKeys,
    Secrets,       \* webhook secrets
    IssueKeys, RotationKeys,   \* Idempotency-Keys sent to issue one or the other
    Requests,      \* requests of administrators
    Events,        \* ingress requests
    MaxVersion,    \* bound on connectors.version
    None

Credentials == ApiKeys \cup Secrets

Keys == IssueKeys \cup RotationKeys

VARIABLES
    status, version,   \* the connector
    cred,              \* the credentials
    record,            \* idempotency_records: what was issued under a key
    req,
    event

vars == <<status, version, cred, record, req, event>>

\* A request that is about to take this step.
Begun(pc, key, seen, owed) == [pc |-> pc, key |-> key, seen |-> seen, targets |-> {}, owed |-> owed]

Idle == Begun("idle", None, 0, {})

TypeOK ==
    /\ status \in {"none", "ACTIVE", "DISABLED"}
    /\ version \in 0..MaxVersion
    /\ cred \in [Credentials -> {"none", "valid", "expiring", "lapsed", "revoked"}]
    /\ record \in [Keys -> SUBSET Credentials]
    /\ req \in [Requests ->
          [pc : {"idle", "expire", "insert", "patch", "keys", "secrets", "disable"},
           key : Keys \cup {None}, seen : 0..MaxVersion,
           targets : SUBSET Credentials, owed : SUBSET Credentials]]
    /\ event \in [Events -> {"new", "checked", "entered", "stored"}]

Init ==
    /\ status = "none" /\ version = 0
    /\ cred = [c \in Credentials |-> "none"]
    /\ record = [k \in Keys |-> {}]
    /\ req = [r \in Requests |-> Idle]
    /\ event = [e \in Events |-> "new"]

----------------------------------------------------------------------------
Usable(c) == cred[c] \in {"valid", "expiring"}

Step(r, pc) == req' = [req EXCEPT ![r].pc = pc]

Finish(r) == req' = [req EXCEPT ![r] = Idle]

\* The row of the connector, locked by an ingress or by another disable.
RowFree(r) ==
    /\ \A e \in Events : event[e] # "entered"
    /\ \A q \in Requests \ {r} : req[q].pc \notin {"keys", "secrets", "disable"}

----------------------------------------------------------------------------
\* createConnector.
Create ==
    /\ status = "none"
    /\ status' = "ACTIVE" /\ version' = 1
    /\ UNCHANGED <<cred, record, req, event>>

\* createApiKey and rotateWebhookSecret enter idempotent(): one transaction
\* at a time has the key, and a known one is answered from its record, which
\* changes nothing.  (The unique index of the records would hold up a second
\* insert of the key as the lock does; it is left out.)  Neither operation asks
\* whether the connector is active.
BeginIssue(r, k) ==
    /\ req[r].pc = "idle"
    /\ status # "none"
    /\ \A q \in Requests : req[q].key # k
    /\ record[k] = {}
    /\ req' = [req EXCEPT ![r] = Begun(IF k \in IssueKeys THEN "insert" ELSE "expire", k, 0, {})]
    /\ UNCHANGED <<status, version, cred, record, event>>

\* A plausible defect: the end of the old secrets is not in the transaction that
\* inserts the new one.
ExpireApart(r) ==
    /\ req[r].pc = "expire"
    /\ req' = [req EXCEPT ![r].pc = "insert"]
    /\ cred' = [c \in Credentials |-> IF c \in Secrets /\ cred[c] = "valid" THEN "expiring" ELSE cred[c]]
    /\ UNCHANGED <<status, version, record, event>>

\* A rotation ends the life of the secrets without an end: those that its
\* update sees when it starts ...
Expire(r) ==
    /\ req[r].pc = "expire"
    /\ req' = [req EXCEPT ![r].pc = "insert", ![r].targets = {c \in Secrets : cred[c] = "valid"}]
    /\ UNCHANGED <<status, version, cred, record, event>>

\* Credentials are random, so it is all one which of the unused is next.
Fresh(S) == LET unused == {c \in S : cred[c] = "none"} IN {c \in unused : c = CHOOSE d \in unused : TRUE}

Issue(r, c, state) ==
    /\ req[r].pc = "insert"
    /\ req[r].key \in IF c \in ApiKeys THEN IssueKeys ELSE RotationKeys
    /\ cred' = [d \in Credentials |->
          IF d = c THEN state
          ELSE IF d \in req[r].targets /\ cred[d] = "valid" THEN "expiring" ELSE cred[d]]
    /\ record' = [record EXCEPT ![req[r].key] = @ \cup {c}]
    /\ Finish(r)
    /\ UNCHANGED <<status, version, event>>

\* ... and that are still without one when it gets their rows, which it holds
\* until the new credential and the record are committed with them.  An API
\* key may have an expiry of its own.
Insert(r) ==
    \/ \E c \in Fresh(ApiKeys), state \in {"valid", "expiring"} : Issue(r, c, state)
    \/ \E c \in Fresh(Secrets) : Issue(r, c, "valid")

----------------------------------------------------------------------------
\* PATCH: the client has read the connector; its version is compared by the
\* update.
BeginPatch(r) ==
    /\ req[r].pc = "idle"
    /\ status # "none"
    /\ req' = [req EXCEPT ![r] = Begun("patch", None, version, {})]
    /\ UNCHANGED <<status, version, cred, record, event>>

Patch(r) ==
    /\ req[r].pc = "patch"
    /\ RowFree(r)
    /\ \/ req[r].seen # version /\ UNCHANGED <<status, version>>
       \/ /\ req[r].seen = version /\ version < MaxVersion
          /\ status' \in {"ACTIVE", "DISABLED"}
          /\ version' = version + 1
    /\ Finish(r)
    /\ UNCHANGED <<cred, record, event>>

\* DELETE: the connector's row ...  owed: what had been issued by then.
BeginDisable(r) ==
    /\ req[r].pc = "idle"
    /\ RowFree(r)
    /\ status # "none" /\ version < MaxVersion
    /\ req' = [req EXCEPT ![r] = Begun("keys", None, 0, {c \in Credentials : Usable(c)})]
    /\ UNCHANGED <<status, version, cred, record, event>>

Unrevoked(S) == {c \in S : cred[c] \notin {"none", "revoked"}}

\* ... the API keys ...
SweepKeys(r) ==
    /\ req[r].pc = "keys"
    /\ req' = [req EXCEPT ![r].pc = "secrets", ![r].targets = Unrevoked(ApiKeys)]
    /\ UNCHANGED <<status, version, cred, record, event>>

\* A plausible defect: a secret in its grace period is taken for gone.
SweepCurrent(r) ==
    /\ req[r].pc = "secrets"
    /\ req' = [req EXCEPT ![r].pc = "disable", ![r].targets = @ \cup {c \in Secrets : cred[c] = "valid"}]
    /\ UNCHANGED <<status, version, cred, record, event>>

\* ... and the secrets that its update sees when it starts ...
SweepSecrets(r) ==
    /\ req[r].pc = "secrets"
    /\ req' = [req EXCEPT ![r].pc = "disable", ![r].targets = @ \cup Unrevoked(Secrets)]
    /\ UNCHANGED <<status, version, cred, record, event>>

\* ... and gets when no rotation holds them.
Disable(r) ==
    /\ req[r].pc = "disable"
    /\ status' = "DISABLED" /\ version' = version + 1
    /\ cred' = [c \in Credentials |-> IF c \in req[r].targets THEN "revoked" ELSE cred[c]]
    /\ Finish(r)
    /\ UNCHANGED <<record, event>>

\* revokeApiKey: one statement.
Revoke(c) ==
    /\ c \in Unrevoked(ApiKeys)
    /\ \A q \in Requests : req[q].pc \in {"secrets", "disable"} => c \notin req[q].targets
    /\ cred' = [cred EXCEPT ![c] = "revoked"]
    /\ UNCHANGED <<status, version, record, req, event>>

\* A statement fails, or the transaction times out.
Abort(r) ==
    /\ req[r].pc # "idle"
    /\ Finish(r)
    /\ UNCHANGED <<status, version, cred, record, event>>

----------------------------------------------------------------------------
\* receiveIngress: verifyApiKey or verifyWebhookSignature against what
\* findIngressConnector has read, in a transaction of its own.
Check(e) ==
    /\ event[e] = "new"
    /\ status = "ACTIVE"
    /\ \E c \in Credentials : Usable(c)
    /\ event' = [event EXCEPT ![e] = "checked"]
    /\ UNCHANGED <<status, version, cred, record, req>>

\* recordIngress: last_seen_at of the connector, if it is active still.
Enter(e) ==
    /\ event[e] = "checked"
    /\ RowFree(None)
    /\ event' = [event EXCEPT ![e] = IF status = "ACTIVE" THEN "entered" ELSE "new"]
    /\ UNCHANGED <<status, version, cred, record, req>>

Store(e) ==
    /\ event[e] = "entered"
    /\ event' = [event EXCEPT ![e] = "stored"]
    /\ UNCHANGED <<status, version, cred, record, req>>

Drop(e) ==
    /\ event[e] \in {"checked", "entered"}
    /\ event' = [event EXCEPT ![e] = "new"]
    /\ UNCHANGED <<status, version, cred, record, req>>

----------------------------------------------------------------------------
Lapse(c) ==
    /\ cred[c] = "expiring"
    /\ cred' = [cred EXCEPT ![c] = "lapsed"]
    /\ UNCHANGED <<status, version, record, req, event>>

\* After 24 hours a record counts as none.
Forget(k) ==
    /\ record[k] # {}
    /\ record' = [record EXCEPT ![k] = {}]
    /\ UNCHANGED <<status, version, cred, req, event>>

Administer(r) ==
    \/ \E k \in Keys : BeginIssue(r, k)
    \/ Expire(r) \/ Insert(r)
    \/ BeginPatch(r) \/ Patch(r)
    \/ BeginDisable(r) \/ SweepKeys(r) \/ SweepSecrets(r) \/ Disable(r)
    \/ Abort(r)

Ingest(e) == Check(e) \/ Enter(e) \/ Store(e) \/ Drop(e)

Next ==
    \/ Create
    \/ \E r \in Requests : Administer(r)
    \/ \E e \in Events : Ingest(e)
    \/ \E c \in Credentials : Revoke(c) \/ Lapse(c)
    \/ \E k \in Keys : Forget(k)

Spec == Init /\ [][Next]_vars

----------------------------------------------------------------------------
\* However often a request is repeated under its Idempotency-Key, at once or
\* later, it issues one credential while its record is kept.
OneCredentialPerKey == \A k \in Keys : \A c, d \in record[k] : c = d

\* Rotations, however they overlap, fail half-way, or meet the revocation of
\* what they replace, never leave the connector with nothing but secrets that
\* run out.
RotationLeavesASecret ==
    (\E c \in Secrets : cred[c] \in {"expiring", "lapsed"}) => \E c \in Secrets : cred[c] = "valid"

\* DELETE revokes what authenticated when it was asked for, whatever rotations
\* are under way, secrets in their grace period included.  (What is issued from
\* then on it may leave alone; see DisabledHasNoCredential.)
DisableRevokesAll ==
    [][\A r \in Requests :
          req[r].pc = "disable" /\ status' = "DISABLED" /\ version' # version
              => \A c \in req[r].owed : cred'[c] \in {"revoked", "lapsed"}]_vars

\* What the threat model says: disabling a connector revokes its credentials,
\* all of them.  The code breaks it in three ways: PATCH sets the status and
\* revokes nothing, a credential issued while DELETE runs escapes its updates,
\* and issuing does not ask whether the connector is active.
DisabledHasNoCredential == status = "DISABLED" => \A c \in Credentials : ~Usable(c)

\* An event that was authenticated before is not stored once the connector
\* is disabled.
StoredWhileActive ==
    [][\A e \in Events : event'[e] = "stored" /\ event[e] # "stored" => status = "ACTIVE"]_vars
=============================================================================
