------------------------------ MODULE Ingestion ------------------------------
(***************************************************************************)
(* From a connector's HTTP request to normalized events: receiveIngress()  *)
(* (resource.use-cases.ts), the idempotent transaction that records it     *)
(* (prisma-resource.repository.ts), and the ingestion worker               *)
(* (event-ingestion.processor.ts), for one connector.                      *)
(*                                                                         *)
(* Recording is one READ COMMITTED transaction that takes three locks in   *)
(* turn: an advisory lock on the idempotency key, the connector's row, and *)
(* an advisory lock on the semantic key.  All are held until it ends, and  *)
(* what it writes is invisible until then.                                 *)
(*                                                                         *)
(* The worker's transaction holds the row of the raw event, and is one     *)
(* step; the catch block that follows a failure is another one.  BullMQ    *)
(* delivers an event at least once, possibly to two workers at a time.     *)
(***************************************************************************)
EXTENDS Naturals

CONSTANTS
    Requests,   \* HTTP requests, retries of a client included
    KeyOf,      \* their Idempotency-Key
    BodyOf,     \* their payload, always sent with the same content type
    SourceOf,   \* the sourceEventId a payload carries, or None
    Malformed,  \* payloads that normalization rejects
    Workers,    \* ingestion jobs running at a time
    None        \* nothing

Keys   == {KeyOf[r] : r \in Requests}
Bodies == {BodyOf[r] : r \in Requests}

VARIABLES
    active,     \* connectors.status = ACTIVE
    pc,         \* per request: where it is
    found,      \* per request: the raw event its lookup returned
    answer,     \* per request: the receipt the client has got
    record,     \* per key: idempotency_records, unless expired
    raw,        \* raw_events.status of the event that a request created
    normalized, \* raw events that have their normalized_events
    announced,  \* per raw event: its normalized_event.batch_created rows
    attempt     \* per worker: the failed attempt it has still to record

apiVars    == <<active, pc, found, answer, record>>
workerVars == <<normalized, announced, attempt>>
vars       == <<apiVars, raw, workerVars>>

Undecided == {"RECEIVED", "FAILED"}
Decided   == {"NORMALIZED", "REJECTED"}

Receipts == [receipt: Requests, duplicate: BOOLEAN]
Records  == [body: Bodies, answer: Receipts]
Failures == [event: Requests, verdict: {"rejected", "failed"}]

TypeOK ==
    /\ active \in BOOLEAN
    /\ pc \in [Requests -> {"new", "checked", "keyed", "entered", "done"}]
    /\ found \in [Requests -> Requests \cup {None}]
    /\ answer \in [Requests -> Receipts \cup {None}]
    /\ record \in [Keys -> Records \cup {None}]
    /\ raw \in [Requests -> Undecided \cup Decided \cup {None}]
    /\ normalized \subseteq Requests
    /\ announced \in [Requests -> Nat]
    /\ attempt \in [Workers -> Failures \cup {None}]

Init ==
    /\ active = TRUE
    /\ pc = [r \in Requests |-> "new"]
    /\ found = [r \in Requests |-> None]
    /\ answer = [r \in Requests |-> None]
    /\ record = [k \in Keys |-> None]
    /\ raw = [r \in Requests |-> None]
    /\ normalized = {}
    /\ announced = [r \in Requests |-> 0]
    /\ attempt = [w \in Workers |-> None]

----------------------------------------------------------------------------
(* The API.                                                                *)

\* A plausible defect: the semantic key ignores the source's identifier.
DedupKeyOfPayload(body) == <<"payload", body>>

(* The semantic key: the sourceEventId, or else the payload's hash.        *)
DedupKey(body) ==
    IF SourceOf[body] = None THEN <<"payload", body>> ELSE <<"source-event", SourceOf[body]>>

Goto(r, label) == pc' = [pc EXCEPT ![r] = label]

(* The request ends, with a receipt or with None: an error, or a reply     *)
(* that is lost on its way.                                                *)
Reply(r, receipt) == Goto(r, "done") /\ answer' = [answer EXCEPT ![r] = receipt]

(* receiveIngress(): it reads the connector in a transaction of its own.   *)
Check(r) ==
    /\ pc[r] = "new"
    /\ IF active THEN Goto(r, "checked") /\ UNCHANGED answer ELSE Reply(r, None)
    /\ UNCHANGED <<active, found, record, raw, workerVars>>

KeyHolders(k) == {q \in Requests : KeyOf[q] = k /\ pc[q] \in {"keyed", "entered"}}

\* A plausible defect: a known key is replayed whatever the request says.
LockUncompared(r) ==
    LET known == record[KeyOf[r]] IN
    /\ pc[r] = "checked"
    /\ KeyHolders(KeyOf[r]) = {}
    /\ IF known = None THEN Goto(r, "keyed") /\ UNCHANGED answer ELSE Reply(r, known.answer)
    /\ UNCHANGED <<active, found, record, raw, workerVars>>

(* idempotent(): under the key's lock, a known key replays its answer, or  *)
(* is a conflict if the request is another one.                            *)
Lock(r) ==
    LET known == record[KeyOf[r]] IN
    /\ pc[r] = "checked"
    /\ KeyHolders(KeyOf[r]) = {}
    /\ \/ known = None /\ Goto(r, "keyed") /\ UNCHANGED answer
       \/ known # None /\ Reply(r, IF known.body = BodyOf[r] THEN known.answer ELSE None)
    /\ UNCHANGED <<active, found, record, raw, workerVars>>

Entered == {q \in Requests : pc[q] = "entered"}

(* The raw events with the semantic key of r: none or one.                 *)
Same(r) == {q \in Requests : raw[q] # None /\ DedupKey(BodyOf[q]) = DedupKey(BodyOf[r])}

(* recordIngress(): it locks the connector, if that is still active, and   *)
(* the semantic key, and looks for an event with it.                       *)
Enter(r) ==
    /\ pc[r] = "keyed"
    /\ Entered = {}
    /\ IF active
       THEN /\ Goto(r, "entered")
            /\ \E q \in IF Same(r) = {} THEN {None} ELSE Same(r) : found' = [found EXCEPT ![r] = q]
            /\ UNCHANGED answer
       ELSE Reply(r, None) /\ UNCHANGED found
    /\ UNCHANGED <<active, record, raw, workerVars>>

(* It stores a new event with its outbox row, which the unique index       *)
(* raw_events_org_connector_dedup_key must admit, completes the record of  *)
(* the key, and commits.  The reply may be lost.                           *)
Store(r) ==
    LET receipt == IF found[r] = None THEN [receipt |-> r, duplicate |-> FALSE]
                                      ELSE [receipt |-> found[r], duplicate |-> TRUE]
    IN  /\ pc[r] = "entered"
        /\ IF found[r] = None
           THEN Same(r) = {} /\ raw' = [raw EXCEPT ![r] = "RECEIVED"]
           ELSE UNCHANGED raw
        /\ record' = [record EXCEPT ![KeyOf[r]] = [body |-> BodyOf[r], answer |-> receipt]]
        /\ Reply(r, receipt) \/ Reply(r, None)
        /\ UNCHANGED <<active, found, workerVars>>

(* A statement fails, or the transaction times out waiting for a lock.     *)
Abort(r) ==
    /\ pc[r] \in {"checked", "keyed", "entered"}
    /\ Reply(r, None)
    /\ UNCHANGED <<active, found, record, raw, workerVars>>

(* A record is forgotten after 24 hours.  (The code deletes it when the    *)
(* key is used again.)                                                     *)
Expire(k) ==
    /\ record[k] # None
    /\ record' = [record EXCEPT ![k] = None]
    /\ UNCHANGED <<active, pc, found, answer, raw, workerVars>>

(* disableConnector(), or updateConnector() with a status: it waits for    *)
(* the connector's row.                                                    *)
Switch ==
    /\ Entered = {}
    /\ active' = ~active
    /\ UNCHANGED <<pc, found, answer, record, raw, workerVars>>

----------------------------------------------------------------------------
(* The worker.                                                             *)

Give(w, e, verdict) == attempt' = [attempt EXCEPT ![w] = [event |-> e, verdict |-> verdict]]

\* A plausible defect: an event that is decided is normalized once more.
NormalizableAlways(e) == raw[e] # None /\ BodyOf[e] \notin Malformed

(* A decided event is left alone, as is one that cannot be normalized.     *)
Normalizable(e) == raw[e] \in Undecided /\ BodyOf[e] \notin Malformed

(* process(): the events, the status and the outbox row are committed      *)
(* together.  If the reply is lost the attempt is taken for failed.        *)
Normalize(w, e) ==
    /\ attempt[w] = None
    /\ Normalizable(e)
    /\ raw' = [raw EXCEPT ![e] = "NORMALIZED"]
    /\ normalized' = normalized \cup {e}
    /\ announced' = [announced EXCEPT ![e] = @ + 1]
    /\ UNCHANGED attempt \/ Give(w, e, "failed")
    /\ UNCHANGED apiVars

(* The payload is malformed, or the attempt fails otherwise: everything is *)
(* rolled back, the status PROCESSING and the retry_count included.        *)
Fail(w, e) ==
    /\ attempt[w] = None
    /\ raw[e] # None
    /\ \/ Give(w, e, "failed")
       \/ raw[e] \in Undecided /\ BodyOf[e] \in Malformed /\ Give(w, e, "rejected")
    /\ UNCHANGED <<apiVars, raw, normalized, announced>>

\* A plausible defect: the status PROCESSING outlives the attempt.
MarkFailedNot(status) == IF status \in Decided THEN status ELSE "PROCESSING"

(* markFailed() and markRejected(): UPDATE ... WHERE status.               *)
MarkFailed(status)   == IF status \in Decided THEN status ELSE "FAILED"
MarkRejected(status) == IF status = "NORMALIZED" THEN status ELSE "REJECTED"

(* The catch block.                                                        *)
Mark(w) ==
    LET e == attempt[w].event IN
    /\ attempt[w] # None
    /\ raw' = [raw EXCEPT ![e] =
         IF attempt[w].verdict = "failed" THEN MarkFailed(raw[e]) ELSE MarkRejected(raw[e])]
    /\ attempt' = [attempt EXCEPT ![w] = None]
    /\ UNCHANGED <<apiVars, normalized, announced>>

(* It fails as well, or the worker dies.                                   *)
Drop(w) ==
    /\ attempt[w] # None
    /\ attempt' = [attempt EXCEPT ![w] = None]
    /\ UNCHANGED <<apiVars, raw, normalized, announced>>

----------------------------------------------------------------------------
Next ==
    \/ \E r \in Requests : Check(r) \/ Lock(r) \/ Enter(r) \/ Store(r) \/ Abort(r)
    \/ \E k \in Keys : Expire(k)
    \/ Switch
    \/ \E w \in Workers, e \in Requests : Normalize(w, e) \/ Fail(w, e)
    \/ \E w \in Workers : Mark(w) \/ Drop(w)

Spec == Init /\ [][Next]_vars

----------------------------------------------------------------------------
SameEvent(b, c) == b = c \/ (SourceOf[b] # None /\ SourceOf[b] = SourceOf[c])

(* The receipt a client gets is that of its own event, stored: never that  *)
(* of another request under the same key, nor one that was rolled back.    *)
ReceiptIsTheirs ==
    \A r \in Requests : answer[r] # None =>
      /\ raw[answer[r].receipt] # None
      /\ SameEvent(BodyOf[answer[r].receipt], BodyOf[r])

(* An event sent several times, under one key or several, at once or after *)
(* the key has expired, has one receipt.                                   *)
OneReceiptPerEvent ==
    \A q, r \in Requests :
      answer[q] # None /\ answer[r] # None /\ SameEvent(BodyOf[q], BodyOf[r]) =>
        answer[q].receipt = answer[r].receipt

(* Detection hears of an event exactly when it is normalized, and once,    *)
(* however often its job is delivered or its commit taken for failed.      *)
AnnouncedOnce ==
    \A e \in Requests :
      /\ announced[e] = IF raw[e] = "NORMALIZED" THEN 1 ELSE 0
      /\ e \in normalized <=> raw[e] = "NORMALIZED"

(* No late attempt revises a decision.                                     *)
DecidedIsFinal ==
    [][\A e \in Requests : raw[e] \in Decided => raw'[e] = raw[e]]_vars
=============================================================================
