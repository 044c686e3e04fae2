----------------------------- MODULE Knowledge -----------------------------
(***************************************************************************)
(* One document of the knowledge base: the API that creates versions and   *)
(* deletes it (knowledge.use-cases.ts, prisma-knowledge.repository.ts),    *)
(* the recommendations that cite it, and the worker that indexes it        *)
(* (knowledge-index.processor.ts).                                         *)
(*                                                                         *)
(* The index job of a version is one job of JobQueue: its jobId is         *)
(* knowledge-{versionId}.  An attempt is two transactions with the reading *)
(* and embedding of the object between them, and a third one for failures. *)
(* PostgreSQL runs them READ COMMITTED: what keeps them apart is the row   *)
(* lock of the document (FOR UPDATE, or its UPDATE) and the locks of the   *)
(* chunk rows a transaction deleted or updated.  A transaction whose       *)
(* interleaving with others cannot be seen is one step.                    *)
(***************************************************************************)
EXTENDS JobQueue

CONSTANTS
    MaxVersion,   \* bound on current_version
    Mismatched,   \* versions created under another embedding provider or model
    Recommenders  \* recommendation requests in flight

Versions == 1..MaxVersion

ASSUME KnowledgeAssumption ==
    /\ MaxVersion \in Nat \ {0}
    /\ Jobs = Versions
    /\ Mismatched \subseteq Versions

VARIABLES
    status,    \* knowledge_documents.status; deleted_at is set iff DELETED
    current,   \* knowledge_documents.current_version
    chunks,    \* what each version's rows of knowledge_chunks hold
    cited,     \* versions whose chunk rows ai_recommendation_sources refers to
    objects,   \* versions whose text is in object storage
    lock,      \* the version whose index job holds the document row's lock
    pc,        \* where the running attempt of each version's job is
    upload,    \* createVersion: "put" between the upload and the transaction,
               \* "lost" if it does not hear that the transaction committed
    deleter,   \* deleteDocument: where it is
    keys,      \* object keys its read returned
    scrubbed,  \* versions whose chunk rows it overwrote, uncommitted
    source     \* per request: the version whose chunks it retrieved, or 0

docVars == <<status, current, chunks, cited, objects>>
apiVars == <<upload, deleter, keys, scrubbed, source>>
vars == <<docVars, lock, pc, apiVars, queueVars>>

Unlocked == 0
Nothing  == 0

DocStatuses == {"PENDING", "INDEXING", "INDEXED", "DELETED"}
Phases == {"idle", "begin", "reading", "embedded", "locked", "replaced", "failing"}
Writing == {"locked", "replaced"}   \* inside the second transaction

Created == 1..current

TypeOK ==
    /\ QueueTypeOK
    /\ status \in DocStatuses
    /\ current \in Versions
    /\ chunks \in [Versions -> {"none", "text", "scrubbed"}]
    /\ cited \subseteq Versions
    /\ objects \subseteq Versions
    /\ lock \in Versions \cup {Unlocked}
    /\ pc \in [Versions -> Phases]
    /\ upload \in {"none", "put", "lost"}
    /\ deleter \in {"idle", "read", "scrubbed", "purging"}
    /\ keys \subseteq Versions
    /\ scrubbed \subseteq Versions
    /\ source \in [Recommenders -> Versions \cup {Nothing}]

(* The document after createDocument: its first version waits in the       *)
(* outbox.                                                                 *)
Init ==
    /\ QueueInit
    /\ status = "PENDING"
    /\ current = 1
    /\ chunks = [v \in Versions |-> "none"]
    /\ cited = {}
    /\ objects = {1}
    /\ lock = Unlocked
    /\ pc = [v \in Versions |-> "idle"]
    /\ upload = "none"
    /\ deleter = "idle"
    /\ keys = {}
    /\ scrubbed = {}
    /\ source = [r \in Recommenders |-> Nothing]

----------------------------------------------------------------------------
(* The index job.                                                          *)

Goto(v, label) == pc' = [pc EXCEPT ![v] = label]

(* The attempt ends: process() returns, or it throws.                      *)
Return(v) == Commit(v) /\ Goto(v, "idle")
Raise(v)  == Throw(v) /\ Goto(v, "idle")

(* The outbox hands the job over, at least once.                           *)
Deliver(v) ==
    /\ v \in Created
    /\ Enqueue(v)
    /\ UNCHANGED <<docVars, lock, pc, apiVars>>

Take(v) ==
    /\ Start(v)
    /\ Goto(v, "begin")
    /\ UNCHANGED <<docVars, lock, apiVars>>

Superseded(v) == current # v \/ status = "DELETED"

(* The first transaction: stale and deleted are done, the wrong embedding  *)
(* provider throws and so rolls its REJECTED back, else INDEXING.          *)
Begin(v) ==
    /\ pc[v] = "begin"
    /\ lock = Unlocked
    /\ \/ /\ Superseded(v)
          /\ Return(v)
          /\ UNCHANGED status
       \/ /\ ~Superseded(v)
          /\ v \in Mismatched
          /\ Raise(v)
          /\ UNCHANGED status
       \/ /\ ~Superseded(v)
          /\ v \notin Mismatched
          /\ status' = "INDEXING"
          /\ Goto(v, "reading")
          /\ UNCHANGED queueVars
    /\ UNCHANGED <<current, chunks, cited, objects, lock, apiVars>>

(* It fails: nothing was written, or INDEXING was and the reply of the     *)
(* COMMIT is lost.  Nothing catches the error, so INDEXING stays.          *)
BeginFails(v) ==
    /\ pc[v] = "begin"
    /\ \/ UNCHANGED status
       \/ /\ lock = Unlocked
          /\ ~Superseded(v)
          /\ v \notin Mismatched
          /\ status' = "INDEXING"
    /\ Raise(v)
    /\ UNCHANGED <<current, chunks, cited, objects, lock, apiVars>>

(* The object is read, verified, chunked and embedded.                     *)
Embed(v) ==
    /\ pc[v] = "reading"
    /\ v \in objects
    /\ Goto(v, "embedded")
    /\ UNCHANGED <<docVars, lock, apiVars, queueVars>>

(* Any of that fails, or the second transaction does before it has the     *)
(* lock, or at the COMMIT of its early return.                             *)
EmbedFails(v) ==
    /\ pc[v] \in {"reading", "embedded"}
    /\ Goto(v, "failing")
    /\ UNCHANGED <<docVars, lock, apiVars, queueVars>>

\* A plausible defect: the check of the first transaction is not repeated.
LockUnchecked(v) ==
    /\ pc[v] = "embedded"
    /\ lock = Unlocked
    /\ lock' = v
    /\ Goto(v, "locked")
    /\ UNCHANGED <<docVars, apiVars, queueVars>>

(* The second transaction locks the document and checks again.             *)
Lock(v) ==
    /\ pc[v] = "embedded"
    /\ lock = Unlocked
    /\ IF Superseded(v)
       THEN Return(v) /\ UNCHANGED lock
       ELSE lock' = v /\ Goto(v, "locked") /\ UNCHANGED queueVars
    /\ UNCHANGED <<docVars, apiVars>>

(* DELETE and INSERT of the version's chunks.  Rows the deleter overwrote  *)
(* are locked until it ends.  A cited chunk cannot be deleted: the foreign *)
(* key of ai_recommendation_sources restricts it.                          *)
Replace(v) ==
    /\ pc[v] = "locked"
    /\ v \notin scrubbed
    /\ IF v \in cited
       THEN Goto(v, "failing") /\ lock' = Unlocked
       ELSE Goto(v, "replaced") /\ UNCHANGED lock
    /\ UNCHANGED <<docVars, apiVars, queueVars>>

(* A statement of the second transaction fails, or PostgreSQL breaks a     *)
(* deadlock with the deleter: everything rolls back.                       *)
WriteFails(v) ==
    /\ pc[v] \in Writing
    /\ lock' = Unlocked
    /\ Goto(v, "failing")
    /\ UNCHANGED <<docVars, apiVars, queueVars>>

(* The new rows have new ids: who retrieved the old ones cannot cite them. *)
Forgotten(v) == [r \in Recommenders |-> IF source[r] = v THEN Nothing ELSE source[r]]

(* COMMIT: the rows, indexed_at and INDEXED become visible.  If its reply  *)
(* is lost the attempt is taken for failed.                                *)
CommitIndex(v) ==
    /\ pc[v] = "replaced"
    /\ chunks' = [chunks EXCEPT ![v] = "text"]
    /\ status' = "INDEXED"
    /\ lock' = Unlocked
    /\ source' = Forgotten(v)
    /\ \/ Return(v)
       \/ Goto(v, "failing") /\ UNCHANGED queueVars
    /\ UNCHANGED <<current, cited, objects, upload, deleter, keys, scrubbed>>

\* A plausible defect: the failure is recorded without looking at the status.
FailAnyStatus(v) ==
    /\ pc[v] = "failing"
    /\ lock = Unlocked
    /\ status' = "PENDING"
    /\ Raise(v)
    /\ UNCHANGED <<current, chunks, cited, objects, lock, apiVars>>

\* A plausible defect: the error is recorded and not thrown again.
FailSwallowed(v) ==
    /\ pc[v] = "failing"
    /\ lock = Unlocked
    /\ status' = IF status = "DELETED" THEN status ELSE "PENDING"
    /\ Return(v)
    /\ UNCHANGED <<current, chunks, cited, objects, lock, apiVars>>

(* The catch block: the document goes back to PENDING, whichever version   *)
(* it is at by now, and the error is thrown again.  The update may fail.   *)
Fail(v) ==
    /\ pc[v] = "failing"
    /\ \/ /\ lock = Unlocked
          /\ status' = IF status = "DELETED" THEN status ELSE "PENDING"
       \/ UNCHANGED status
    /\ Raise(v)
    /\ UNCHANGED <<current, chunks, cited, objects, lock, apiVars>>

(* The worker dies: its open transaction is rolled back.                   *)
Die(v) ==
    /\ Stall(v)
    /\ Goto(v, "idle")
    /\ lock' = IF lock = v THEN Unlocked ELSE lock
    /\ UNCHANGED <<docVars, apiVars>>

(* BullMQ hears of the completion, or forgets a finished job.              *)
Settle(v) ==
    /\ Complete(v) \/ Forget(v)
    /\ UNCHANGED <<docVars, lock, pc, apiVars>>

----------------------------------------------------------------------------
(* The API.                                                                *)

(* createVersion: the object is stored before its row exists.              *)
PutObject ==
    /\ upload = "none"
    /\ current < MaxVersion
    /\ upload' = "put"
    /\ objects' = objects \cup {current + 1}
    /\ UNCHANGED <<status, current, chunks, cited, lock, pc, deleter, keys, scrubbed,
                   source, queueVars>>

\* A plausible defect: the document is not locked before its version is read.
InsertUnlocked ==
    /\ upload = "put"
    /\ status # "DELETED"
    /\ upload' = "none"
    /\ current' = current + 1
    /\ status' = "PENDING"
    /\ UNCHANGED <<chunks, cited, objects, lock, pc, deleter, keys, scrubbed, source, queueVars>>

(* The transaction: under the document's lock the next version becomes     *)
(* current and PENDING, with its outbox row.  The reply of its COMMIT may  *)
(* be lost.                                                                *)
InsertVersion ==
    /\ upload = "put"
    /\ lock = Unlocked
    /\ status # "DELETED"
    /\ upload' \in {"none", "lost"}
    /\ current' = current + 1
    /\ status' = "PENDING"
    /\ UNCHANGED <<chunks, cited, objects, lock, pc, deleter, keys, scrubbed, source, queueVars>>

(* The document is gone, the text is the same as an earlier version's, or  *)
(* the database fails: the object is deleted, if that works.               *)
InsertFails ==
    /\ upload = "put"
    /\ upload' = "none"
    /\ \/ objects' = objects \ {current + 1}
       \/ UNCHANGED objects
    /\ UNCHANGED <<status, current, chunks, cited, lock, pc, deleter, keys, scrubbed,
                   source, queueVars>>

(* createVersion takes a lost reply for a failure: it deletes the object   *)
(* of the version that exists, if that works.                              *)
RemoveObject ==
    /\ upload = "lost"
    /\ upload' = "none"
    /\ \/ objects' = objects \ {current}
       \/ UNCHANGED objects
    /\ UNCHANGED <<status, current, chunks, cited, lock, pc, deleter, keys, scrubbed,
                   source, queueVars>>

(* deleteDocument reads the document and its versions, without a lock.     *)
ReadForDelete ==
    /\ deleter = "idle"
    /\ status # "DELETED"
    /\ deleter' = "read"
    /\ keys' = Created
    /\ UNCHANGED <<docVars, lock, pc, upload, scrubbed, source, queueVars>>

(* UPDATE knowledge_chunks: it sees the committed rows only, and waits for *)
(* a row another transaction has deleted.                                  *)
Scrub ==
    /\ deleter = "read"
    /\ \A v \in Versions : pc[v] = "replaced" => chunks[v] = "none"
    /\ deleter' = "scrubbed"
    /\ scrubbed' = {v \in Versions : chunks[v] # "none"}
    /\ UNCHANGED <<docVars, lock, pc, upload, keys, source, queueVars>>

(* UPDATE knowledge_documents, once nobody holds the row, and COMMIT.      *)
MarkDeleted ==
    /\ deleter = "scrubbed"
    /\ lock = Unlocked
    /\ status' = "DELETED"
    /\ chunks' = [v \in Versions |-> IF v \in scrubbed THEN "scrubbed" ELSE chunks[v]]
    /\ deleter' = "purging"
    /\ scrubbed' = {}
    /\ UNCHANGED <<current, cited, objects, lock, pc, upload, keys, source, queueVars>>

(* The transaction fails or is the victim of a deadlock.                   *)
DeleteFails ==
    /\ deleter \in {"read", "scrubbed"}
    /\ deleter' = "idle"
    /\ keys' = {}
    /\ scrubbed' = {}
    /\ UNCHANGED <<docVars, lock, pc, upload, source, queueVars>>

(* storage.delete of every key at once: the requests that fail, all of     *)
(* them if the process dies, leave their objects, and nobody tries again.  *)
Purge ==
    /\ deleter = "purging"
    /\ \E gone \in SUBSET keys : objects' = objects \ gone
    /\ deleter' = "idle"
    /\ keys' = {}
    /\ UNCHANGED <<status, current, chunks, cited, lock, pc, upload, scrubbed, source, queueVars>>

(* retrieve() returns chunks of an indexed document's current version.     *)
Retrieve(r) ==
    /\ source[r] = Nothing
    /\ status = "INDEXED"
    /\ chunks[current] # "none"
    /\ source' = [source EXCEPT ![r] = current]
    /\ UNCHANGED <<docVars, lock, pc, upload, deleter, keys, scrubbed, queueVars>>

(* saveRecommendation(), after the model has answered: the cited rows must *)
(* still exist, and a row another transaction has deleted is waited for.   *)
Cite(r) ==
    /\ source[r] # Nothing
    /\ pc[source[r]] # "replaced"
    /\ cited' = cited \cup {source[r]}
    /\ source' = [source EXCEPT ![r] = Nothing]
    /\ UNCHANGED <<status, current, chunks, objects, lock, pc, upload, deleter, keys,
                   scrubbed, queueVars>>

(* The model fails or cites nothing: the recommendation has no sources.    *)
CiteNothing(r) ==
    /\ source[r] # Nothing
    /\ source' = [source EXCEPT ![r] = Nothing]
    /\ UNCHANGED <<docVars, lock, pc, upload, deleter, keys, scrubbed, queueVars>>

----------------------------------------------------------------------------
Proceed(v) ==
    \/ Take(v) \/ Begin(v) \/ BeginFails(v) \/ Embed(v) \/ EmbedFails(v) \/ Lock(v)
    \/ Replace(v) \/ WriteFails(v) \/ CommitIndex(v) \/ Fail(v)

IndexJob(v) == Deliver(v) \/ Proceed(v) \/ Die(v) \/ Settle(v)

Delete == ReadForDelete \/ Scrub \/ MarkDeleted \/ DeleteFails \/ Purge

Next ==
    \/ \E v \in Versions : IndexJob(v)
    \/ PutObject \/ InsertVersion \/ InsertFails \/ RemoveObject
    \/ Delete
    \/ \E r \in Recommenders : Retrieve(r) \/ Cite(r) \/ CiteNothing(r)

Spec == Init /\ [][Next]_vars

(* The worker takes waiting jobs and each attempt ends, by success or by   *)
(* failure; a request that holds chunk rows ends too.                      *)
Fairness ==
    /\ \A v \in Versions : SF_vars(Proceed(v))
    /\ WF_vars(Scrub \/ MarkDeleted \/ DeleteFails)

FairSpec == Spec /\ Fairness

----------------------------------------------------------------------------
(* The second check holds until COMMIT: whatever versions and deletions    *)
(* the API commits meanwhile, the attempt that is writing chunks writes    *)
(* those of the document's current version, and the document exists.       *)
WriterIsCurrent ==
    \A v \in Versions : pc[v] \in Writing => ~Superseded(v)

(* An indexed document has the chunks of its current version, readable.    *)
IndexedHasText == status = "INDEXED" => chunks[current] = "text"

(* Deletion is final: no attempt that outlives it brings the document      *)
(* back, neither by indexing nor by recording its failure.                 *)
DeletedIsFinal == [][status = "DELETED" => status' = "DELETED"]_vars

(* A version whose job is queued gets its chunks, unless a newer version   *)
(* or a deletion overtakes it or its job uses up its attempts.             *)
VersionGetsIndexed ==
    \A v \in Versions :
      jobState[v] = "waiting" ~>
        (chunks[v] # "none" \/ Superseded(v) \/ v \in exhausted)

(* What docs/adr/0009-secure-multi-provider-rag.md and the threat model    *)
(* say of versions, that the worker checks the version again: the end of   *)
(* an attempt for an old version leaves the document as the completed job  *)
(* of the current version has left it.  The code breaks it: the catch      *)
(* block does not look at the version, so a late failure of version 1      *)
(* takes the indexed version 2 back to PENDING, where no job is left to    *)
(* index it again.                                                         *)
OldVersionHarmless ==
    [][\A v \in Versions :
         /\ pc[v] # "idle" /\ pc'[v] = "idle" /\ current # v
         /\ status = "INDEXED" /\ jobState[current] = "completed"
         => status' = "INDEXED"]_vars

(* What docs/architecture/secure-rag.md says of deletion: no chunk of a    *)
(* deleted document keeps its text.  The code breaks it: the overwriting   *)
(* UPDATE does not see the rows an open indexing transaction has inserted, *)
(* and the deletion only waits for that transaction afterwards.            *)
DeletedHasNoText ==
    status = "DELETED" => \A v \in Versions : chunks[v] # "text"
=============================================================================
