------------------------------ MODULE Evidence ------------------------------
(***************************************************************************)
(* Evidence attached to one incident: upload by a signed URL, quarantine,  *)
(* inspection and download (incident.use-cases.ts,                         *)
(* prisma-incident.repository.ts and minio-evidence-storage.adapter.ts).   *)
(*                                                                         *)
(* A file is named by its SHA-256, which is unique in the incident, so it  *)
(* stands for its row and for the object key too.  The database and the    *)
(* bucket are written by different parties: the API's transactions, and    *)
(* the browser that holds an upload URL.  A request may die between its    *)
(* transactions and the calls to the storage.                              *)
(***************************************************************************)
EXTENDS Naturals, FiniteSets

CONSTANTS
    Files,
    Harmful,      \* files whose own content scan() rejects
    Keys,         \* Idempotency-Keys of upload requests
    Inspectors,   \* completeEvidenceUpload requests
    None

VARIABLES
    row,          \* incident_evidence
    record,       \* idempotency_records: the file whose row is the answer
    url,          \* files with an upload URL that has not expired
    object,       \* the bucket: "declared" bytes, "other" bytes, or None
    inspector,
    entries       \* EVIDENCE_ADDED entries of the timeline

vars == <<row, record, url, object, inspector, entries>>

Idle == [pc |-> "idle", file |-> None, version |-> 0, safe |-> FALSE]

TypeOK ==
    /\ row \in [Files -> [status : {"none", "PENDING_UPLOAD", "QUARANTINED", "AVAILABLE", "REJECTED"},
                          version : 0..3]]
    /\ record \in [Keys -> Files \cup {None}]
    /\ url \subseteq Files
    /\ object \in [Files -> {"declared", "other", None}]
    /\ inspector \in [Inspectors -> [pc : {"idle", "inspect", "finalize"}, file : Files \cup {None},
                                     version : 0..3, safe : BOOLEAN]]
    /\ entries \in [Files -> Nat]

Init ==
    /\ row = [f \in Files |-> [status |-> "none", version |-> 0]]
    /\ record = [k \in Keys |-> None]
    /\ url = {}
    /\ object = [f \in Files |-> None]
    /\ inspector = [i \in Inspectors |-> Idle]
    /\ entries = [f \in Files |-> 0]

----------------------------------------------------------------------------
\* requestEvidenceUpload: a key that is known is answered with its row and a
\* new URL, whatever became of the row; a file that has a row is a conflict
\* under any other key.  The URL is signed after the commit, or not at all.
Request(k, f) ==
    /\ \/ record[k] = f /\ UNCHANGED <<row, record>>
       \/ /\ record[k] = None
          /\ row[f].status = "none"
          /\ row' = [row EXCEPT ![f] = [status |-> "PENDING_UPLOAD", version |-> 1]]
          /\ record' = [record EXCEPT ![k] = f]
    /\ url' \in {url, url \cup {f}}
    /\ UNCHANGED <<object, inspector, entries>>

\* The browser's PUT.  The payload is not signed, only its declared type,
\* size and hash; the URL may be used again until it expires, whatever has
\* become of the row.
Put(f) ==
    /\ f \in url
    /\ \E bytes \in {"declared", "other"} : object' = [object EXCEPT ![f] = bytes]
    /\ UNCHANGED <<row, record, url, inspector, entries>>

UrlExpires(f) ==
    /\ f \in url
    /\ url' = url \ {f}
    /\ UNCHANGED <<row, record, object, inspector, entries>>

Forget(k) ==
    /\ record[k] # None
    /\ record' = [record EXCEPT ![k] = None]
    /\ UNCHANGED <<row, url, object, inspector, entries>>

----------------------------------------------------------------------------
\* completeEvidenceUpload, with a version the client has got:
\* beginEvidenceInspection puts the row into quarantine, or finds it there.
Begin(i, f, version) ==
    /\ inspector[i].pc = "idle"
    /\ row[f].version = version
    /\ \/ row[f].status = "PENDING_UPLOAD" /\ row' = [row EXCEPT ![f] = [status |-> "QUARANTINED", version |-> version + 1]]
       \/ row[f].status = "QUARANTINED" /\ UNCHANGED row
    /\ inspector' = [inspector EXCEPT ![i] = [pc |-> "inspect", file |-> f, version |-> row'[f].version, safe |-> FALSE]]
    /\ UNCHANGED <<record, url, object, entries>>

\* Size and hash of the bytes, then scan().
Passes(f) == object[f] = "declared" /\ f \notin Harmful

\* The object is fetched and judged; without one the row stays in quarantine.
Inspect(i) ==
    LET f == inspector[i].file IN
    /\ inspector[i].pc = "inspect"
    /\ object[f] # None
    /\ inspector' = [inspector EXCEPT ![i].pc = "finalize", ![i].safe = Passes(f)]
    /\ UNCHANGED <<row, record, url, object, entries>>

\* A plausible defect: neither status nor version is compared.
UndecidedAlways(i) == TRUE

\* What finalizeEvidence compares, before the update and in it.
Undecided(i) ==
    LET f == inspector[i].file IN row[f].status = "QUARANTINED" /\ row[f].version = inspector[i].version

Finalize(i) ==
    LET f == inspector[i].file IN
    /\ inspector[i].pc = "finalize"
    /\ \/ /\ Undecided(i)
          /\ row' = [row EXCEPT ![f] = [status |-> IF inspector[i].safe THEN "AVAILABLE" ELSE "REJECTED",
                                        version |-> inspector[i].version + 1]]
          /\ entries' = IF inspector[i].safe THEN [entries EXCEPT ![f] = @ + 1] ELSE entries
       \/ ~Undecided(i) /\ UNCHANGED <<row, entries>>
    /\ inspector' = [inspector EXCEPT ![i] = Idle]
    /\ UNCHANGED <<record, url, object>>

\* The storage fails or does not answer in time, or the process dies.
Die(i) ==
    /\ inspector[i].pc # "idle"
    /\ inspector' = [inspector EXCEPT ![i] = Idle]
    /\ UNCHANGED <<row, record, url, object, entries>>

----------------------------------------------------------------------------
Next ==
    \/ \E k \in Keys, f \in Files : Request(k, f)
    \/ \E f \in Files : Put(f) \/ UrlExpires(f)
    \/ \E k \in Keys : Forget(k)
    \/ \E i \in Inspectors, f \in Files, version \in 1..2 : Begin(i, f, version)
    \/ \E i \in Inspectors : Inspect(i) \/ Finalize(i) \/ Die(i)

Spec == Init /\ [][Next]_vars

----------------------------------------------------------------------------
\* Inspections of one file that overlap, and may have seen different bytes,
\* decide once: the timeline announces a file exactly when it is available.
AttachedOnce == \A f \in Files : entries[f] = IF row[f].status = "AVAILABLE" THEN 1 ELSE 0

\* A file that scan() rejects never becomes available, whatever was uploaded
\* under its name before, in between and after its inspections.
HarmfulIsRefused == \A f \in Files : row[f].status = "AVAILABLE" => f \notin Harmful

\* What the API says of a download: only verified evidence is handed out.  The
\* code breaks it: the row is what is verified, and the bytes under its key may
\* be replaced through an upload URL that outlives the inspection.
AvailableIsSound ==
    \A f \in Files : row[f].status = "AVAILABLE" => object[f] = "declared" /\ f \notin Harmful
=============================================================================
