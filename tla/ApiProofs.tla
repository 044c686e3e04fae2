----------------------------- MODULE ApiProofs -----------------------------
(***************************************************************************)
(* Proofs about the components that MCApi puts together, through its       *)
(* instances Ingestion (G), Connectors (C), Evidence (E) and Catalog (I).  *)
(* They are for any requests, keys, files, items and authors; the bounds   *)
(* of the model are parameters too.  IdentityProofs has those about the    *)
(* scenes of MCIdentity.                                                   *)
(***************************************************************************)
EXTENDS MCApi, TLAPS

----------------------------------------------------------------------------
(* Ingestion.  Raw events are never removed and no two of them share a     *)
(* semantic key (the unique index); a lookup, a record of a key and a      *)
(* reply each name a raw event that is stored and has the semantic key of  *)
(* the payload they stand for.                                             *)

(* No two raw events have one semantic key.                                *)
UniqueRaw ==
    \A q, r \in Deliveries :
      raw[q] # None /\ raw[r] # None /\ G!DedupKey(BodyOf[q]) = G!DedupKey(BodyOf[r]) => q = r

(* The event e is stored, and is what the payload body describes.          *)
Stands(e, body) == raw[e] # None /\ G!DedupKey(BodyOf[e]) = G!DedupKey(body)

FoundOK   == \A r \in Deliveries : pc[r] = "entered" /\ found[r] # None => Stands(found[r], BodyOf[r])
RecordOK  == \A k \in G!Keys : record[k] # None => Stands(record[k].answer.receipt, record[k].body)
AnswerOK  == \A r \in Deliveries : answer[r] # None => Stands(answer[r].receipt, BodyOf[r])
AttemptOK == \A w \in Workers : attempt[w] # None => raw[attempt[w].event] # None

IInv ==
    /\ G!TypeOK
    /\ UniqueRaw
    /\ FoundOK
    /\ RecordOK
    /\ AnswerOK
    /\ AttemptOK
    /\ G!AnnouncedOnce

(* The semantic key tells apart exactly the events the properties do.      *)
LEMMA KeyIsEvent == \A b, c : G!DedupKey(b) = G!DedupKey(c) <=> G!SameEvent(b, c)
  BY DEF G!DedupKey, G!SameEvent

LEMMA InitInv == G!Init => IInv
  BY IngestionAssumption
  DEF G!Init, IInv, G!TypeOK, UniqueRaw, FoundOK, RecordOK, AnswerOK, AttemptOK, G!AnnouncedOnce, G!Decided

----------------------------------------------------------------------------
(* The steps that store no event.                                          *)

(* A step that leaves raw alone moves no event under those who name it.    *)
LEMMA SameRaw ==
    ASSUME UniqueRaw, UNCHANGED raw
    PROVE  UniqueRaw' /\ \A e, b : Stands(e, b)' <=> Stands(e, b)
  BY DEF UniqueRaw, Stands, G!DedupKey

LEMMA CheckStep ==
    ASSUME IInv, NEW r \in Deliveries, G!Check(r) \/ G!Abort(r)
    PROVE  IInv'
  <1>1. UNCHANGED raw
    BY DEF G!Check, G!Abort
  <1>2. G!TypeOK'
    BY DEF IInv, G!Check, G!Abort, G!TypeOK, G!Goto, G!Reply, G!workerVars
  <1>3. FoundOK' /\ AnswerOK'
    BY <1>1, SameRaw DEF IInv, G!TypeOK, FoundOK, AnswerOK, G!Check, G!Abort, G!Goto, G!Reply
  <1>4. RecordOK' /\ AttemptOK' /\ G!AnnouncedOnce'
    BY <1>1, SameRaw DEF IInv, RecordOK, AttemptOK, G!AnnouncedOnce, G!Check, G!Abort, G!workerVars
  <1> QED
    BY <1>1, <1>2, <1>3, <1>4, SameRaw DEF IInv

LEMMA LockStep ==
    ASSUME IInv, NEW r \in Deliveries, G!Lock(r)
    PROVE  IInv'
  <1>1. UNCHANGED raw
    BY DEF G!Lock
  <1>2. KeyOf[r] \in G!Keys /\ record[KeyOf[r]] \in G!Records \cup {None}
    BY IngestionAssumption DEF IInv, G!TypeOK
  <1>3. G!TypeOK'
    BY <1>2 DEF IInv, G!TypeOK, G!Lock, G!Goto, G!Reply, G!Records, G!workerVars
  <1>4. record[KeyOf[r]] # None /\ record[KeyOf[r]].body = BodyOf[r] =>
          Stands(record[KeyOf[r]].answer.receipt, BodyOf[r])
    BY <1>2 DEF IInv, RecordOK
  <1>5. AnswerOK'
    BY <1>1, <1>4, SameRaw DEF IInv, G!TypeOK, AnswerOK, G!Lock, G!Goto, G!Reply
  <1>6. FoundOK'
    BY <1>1, SameRaw DEF IInv, G!TypeOK, FoundOK, G!Lock, G!Goto, G!Reply
  <1>7. RecordOK' /\ AttemptOK' /\ G!AnnouncedOnce'
    BY <1>1, SameRaw DEF IInv, RecordOK, AttemptOK, G!AnnouncedOnce, G!Lock, G!workerVars
  <1> QED
    BY <1>1, <1>3, <1>5, <1>6, <1>7, SameRaw DEF IInv

LEMMA EnterStep ==
    ASSUME IInv, NEW r \in Deliveries, G!Enter(r)
    PROVE  IInv'
  <1>1. UNCHANGED raw
    BY DEF G!Enter
  <1>2. CASE active
    <2>1. PICK q \in IF G!Same(r) = {} THEN {None} ELSE G!Same(r) : found' = [found EXCEPT ![r] = q]
      BY <1>2 DEF G!Enter
    <2>2. q = None \/ (q \in Deliveries /\ Stands(q, BodyOf[r]))
      BY <2>1 DEF G!Same, Stands
    <2>3. pc' = [pc EXCEPT ![r] = "entered"] /\ UNCHANGED answer
      BY <1>2 DEF G!Enter, G!Goto
    <2>4. G!TypeOK'
      BY <2>1, <2>2, <2>3 DEF IInv, G!TypeOK, G!Enter, G!workerVars
    <2>5. FoundOK'
      BY <1>1, <2>1, <2>2, <2>3, SameRaw DEF IInv, G!TypeOK, FoundOK
    <2>6. AnswerOK'
      BY <1>1, <2>3, SameRaw DEF IInv, AnswerOK
    <2> QED
      BY <1>1, <2>4, <2>5, <2>6, SameRaw
      DEF IInv, RecordOK, AttemptOK, G!AnnouncedOnce, G!Enter, G!workerVars
  <1>3. CASE ~active
    <2>1. G!Reply(r, None) /\ UNCHANGED found
      BY <1>3 DEF G!Enter
    <2>2. G!TypeOK'
      BY <2>1 DEF IInv, G!TypeOK, G!Enter, G!Reply, G!Goto, G!workerVars
    <2>3. FoundOK' /\ AnswerOK'
      BY <1>1, <2>1, SameRaw DEF IInv, G!TypeOK, FoundOK, AnswerOK, G!Reply, G!Goto
    <2> QED
      BY <1>1, <2>2, <2>3, SameRaw
      DEF IInv, RecordOK, AttemptOK, G!AnnouncedOnce, G!Enter, G!workerVars
  <1> QED
    BY <1>2, <1>3

LEMMA AsideStep ==
    ASSUME IInv, G!Switch \/ UNCHANGED G!vars \/ \E k \in G!Keys : G!Expire(k)
    PROVE  IInv'
  <1>1. UNCHANGED raw
    BY DEF G!Switch, G!Expire, G!vars
  <1>2. G!TypeOK' /\ RecordOK'
    BY <1>1, SameRaw DEF IInv, G!TypeOK, RecordOK, G!Switch, G!Expire, G!vars, G!apiVars, G!workerVars
  <1> QED
    BY <1>1, <1>2, SameRaw
    DEF IInv, FoundOK, AnswerOK, AttemptOK, G!AnnouncedOnce, G!Switch, G!Expire, G!vars, G!apiVars, G!workerVars

LEMMA FailStep ==
    ASSUME IInv, NEW w \in Workers, G!Drop(w) \/ \E e \in Deliveries : G!Fail(w, e)
    PROVE  IInv'
  <1>1. UNCHANGED raw
    BY DEF G!Fail, G!Drop
  <1>2. G!TypeOK' /\ AttemptOK'
    BY IngestionAssumption DEF IInv, G!TypeOK, AttemptOK, G!Fail, G!Drop, G!Give, G!Failures, G!apiVars
  <1> QED
    BY <1>1, <1>2, SameRaw
    DEF IInv, FoundOK, AnswerOK, RecordOK, G!AnnouncedOnce, G!Fail, G!Drop, G!apiVars

----------------------------------------------------------------------------
(* The steps that change the events.                                       *)

LEMMA StoreStep ==
    ASSUME IInv, NEW r \in Deliveries, G!Store(r)
    PROVE  IInv'
  <1>1. PICK receipt \in G!Receipts :
               receipt = IF found[r] = None THEN [receipt |-> r, duplicate |-> FALSE]
                                            ELSE [receipt |-> found[r], duplicate |-> TRUE]
    BY DEF G!Store, IInv, G!TypeOK, G!Receipts
  <1>2. pc' = [pc EXCEPT ![r] = "done"]
    BY DEF G!Store, G!Reply, G!Goto
  <1>3. PICK told \in {receipt, None} : answer' = [answer EXCEPT ![r] = told]
    BY <1>1 DEF G!Store, G!Reply
  <1>4. record' = [record EXCEPT ![KeyOf[r]] = [body |-> BodyOf[r], answer |-> receipt]]
    BY <1>1 DEF G!Store
  <1>5. KeyOf[r] \in G!Keys /\ BodyOf[r] \in G!Bodies
    BY IngestionAssumption DEF G!Keys
  <1>6. \/ found[r] = None /\ G!Same(r) = {} /\ raw' = [raw EXCEPT ![r] = "RECEIVED"]
        \/ found[r] # None /\ UNCHANGED raw
    BY DEF G!Store
  <1>7. found[r] = None => raw[r] = None
    BY <1>6 DEF G!Same
  <1>8. G!TypeOK'
    <2>1. raw' \in [Deliveries -> G!Undecided \cup G!Decided \cup {None}]
      BY <1>6 DEF IInv, G!TypeOK, G!Undecided
    <2>2. record' \in [G!Keys -> G!Records \cup {None}]
      BY <1>1, <1>4, <1>5 DEF IInv, G!TypeOK, G!Records
    <2>3. answer' \in [Deliveries -> G!Receipts \cup {None}]
      BY <1>1, <1>3 DEF IInv, G!TypeOK
    <2> QED
      BY <1>2, <2>1, <2>2, <2>3 DEF IInv, G!TypeOK, G!Store, G!workerVars
  <1>9. \A e \in Deliveries : \A b : Stands(e, b) => Stands(e, b)'
    BY <1>6, IngestionAssumption DEF IInv, G!TypeOK, Stands, G!Undecided, G!DedupKey
  <1>10. Stands(receipt.receipt, BodyOf[r])' /\ receipt.receipt \in Deliveries
    <2>1. CASE found[r] = None
      BY <2>1, <1>1, <1>6, IngestionAssumption DEF IInv, G!TypeOK, Stands, G!Undecided, G!DedupKey
    <2>2. CASE found[r] # None
      BY <2>2, <1>1, <1>6, <1>9 DEF IInv, G!TypeOK, FoundOK, G!Store
    <2> QED
      BY <2>1, <2>2
  <1>11. UniqueRaw'
    <2>1. CASE UNCHANGED raw
      BY <2>1, SameRaw DEF IInv
    <2>2. CASE G!Same(r) = {} /\ raw' = [raw EXCEPT ![r] = "RECEIVED"]
      <3>1. \A q \in Deliveries \ {r} :
               /\ raw'[q] = raw[q]
               /\ raw[q] # None => G!DedupKey(BodyOf[q]) # G!DedupKey(BodyOf[r])
        BY <2>2 DEF IInv, G!TypeOK, G!Same
      <3> QED
        BY <3>1 DEF IInv, UniqueRaw, G!DedupKey
    <2> QED
      BY <1>6, <2>1, <2>2
  <1>12. FoundOK'
    BY <1>2, <1>9 DEF IInv, G!TypeOK, FoundOK, G!Store
  <1>13. AnswerOK'
    BY <1>1, <1>3, <1>9, <1>10 DEF IInv, G!TypeOK, AnswerOK, G!Receipts
  <1>14. RecordOK'
    <2> SUFFICES ASSUME NEW k \in G!Keys, record'[k] # None
                 PROVE  Stands(record[k].answer.receipt, record[k].body)'
      BY DEF RecordOK
    <2>1. CASE k = KeyOf[r]
      <3>1. record'[k] = [body |-> BodyOf[r], answer |-> receipt]
        BY <2>1, <1>4 DEF IInv, G!TypeOK
      <3> QED
        BY <3>1, <1>10 DEF Stands
    <2>2. CASE k # KeyOf[r]
      <3>1. record'[k] = record[k] /\ record[k] \in G!Records
        BY <2>2, <1>4 DEF IInv, G!TypeOK
      <3>2. record[k].answer.receipt \in Deliveries
        BY <3>1 DEF G!Records, G!Receipts
      <3>3. Stands(record[k].answer.receipt, record[k].body)
        BY <3>1 DEF IInv, RecordOK
      <3> QED
        BY <3>1, <3>2, <3>3, <1>9 DEF Stands
    <2> QED
      BY <2>1, <2>2
  <1>15. AttemptOK' /\ G!AnnouncedOnce'
    <2>1. AttemptOK'
      BY <1>6, IngestionAssumption
      DEF IInv, G!TypeOK, AttemptOK, G!Store, G!workerVars, G!Failures, G!Undecided
    <2>2. G!AnnouncedOnce'
      BY <1>6, <1>7, IngestionAssumption
      DEF IInv, G!TypeOK, G!AnnouncedOnce, G!Store, G!workerVars, G!Decided
    <2> QED
      BY <2>1, <2>2
  <1> QED
    BY <1>8, <1>11, <1>12, <1>13, <1>14, <1>15 DEF IInv

(* A worker only ever restates the status of an event that is stored.    *)
LEMMA Restated ==
    ASSUME IInv, UNCHANGED G!apiVars, NEW e \in Deliveries, raw[e] # None,
           NEW verdict \in G!Undecided \cup G!Decided, raw' = [raw EXCEPT ![e] = verdict]
    PROVE  UniqueRaw' /\ FoundOK' /\ RecordOK' /\ AnswerOK'
  <1>1. \A q \in Deliveries : raw'[q] # None <=> raw[q] # None
    BY IngestionAssumption DEF IInv, G!TypeOK
  <1>2. UniqueRaw'
    BY <1>1 DEF IInv, UniqueRaw, G!DedupKey
  <1>3. \A q \in Deliveries : \A b : Stands(q, b)' <=> Stands(q, b)
    BY <1>1 DEF Stands, G!DedupKey
  <1>4. FoundOK'
    BY <1>3 DEF IInv, G!TypeOK, FoundOK, G!apiVars
  <1>5. AnswerOK'
    BY <1>3 DEF IInv, G!TypeOK, AnswerOK, G!apiVars, G!Receipts
  <1>6. RecordOK'
    <2> SUFFICES ASSUME NEW k \in G!Keys, record[k] # None
                 PROVE  Stands(record[k].answer.receipt, record[k].body)'
      BY DEF RecordOK, G!apiVars, Stands
    <2>1. record[k].answer.receipt \in Deliveries
      BY DEF IInv, G!TypeOK, G!Records, G!Receipts
    <2>2. Stands(record[k].answer.receipt, record[k].body)
      BY DEF IInv, RecordOK
    <2> QED
      BY <2>1, <2>2, <1>3 DEF Stands, G!apiVars
  <1> QED
    BY <1>2, <1>4, <1>5, <1>6

LEMMA NormalizeStep ==
    ASSUME IInv, NEW w \in Workers, NEW e \in Deliveries, G!Normalize(w, e)
    PROVE  IInv'
  <1>1. raw[e] \in G!Undecided /\ raw[e] # None
    BY IngestionAssumption DEF G!Normalize, G!Normalizable
  <1>2. raw' = [raw EXCEPT ![e] = "NORMALIZED"] /\ "NORMALIZED" \in G!Undecided \cup G!Decided
    BY DEF G!Normalize, G!Decided
  <1>3. UniqueRaw' /\ FoundOK' /\ RecordOK' /\ AnswerOK'
    BY <1>1, <1>2, Restated DEF G!Normalize
  <1>4. G!TypeOK'
    BY <1>2 DEF IInv, G!TypeOK, G!Normalize, G!Give, G!Failures, G!apiVars
  <1>5. AttemptOK'
    BY <1>1, <1>2, IngestionAssumption DEF IInv, G!TypeOK, AttemptOK, G!Normalize, G!Give, G!Failures, G!Decided
  <1>6. G!AnnouncedOnce'
    BY <1>1, <1>2 DEF IInv, G!TypeOK, G!AnnouncedOnce, G!Normalize, G!Undecided
  <1> QED
    BY <1>3, <1>4, <1>5, <1>6 DEF IInv

(* What the catch block writes: a status that keeps a decision.          *)
LEMMA MarkKeeps ==
    ASSUME NEW verdict \in G!Undecided \cup G!Decided
    PROVE  /\ G!MarkFailed(verdict) \in G!Undecided \cup G!Decided
           /\ G!MarkRejected(verdict) \in G!Undecided \cup G!Decided
           /\ G!MarkFailed(verdict) = "NORMALIZED" <=> verdict = "NORMALIZED"
           /\ G!MarkRejected(verdict) = "NORMALIZED" <=> verdict = "NORMALIZED"
           /\ verdict \in G!Decided => G!MarkFailed(verdict) = verdict /\ G!MarkRejected(verdict) = verdict
  BY DEF G!MarkFailed, G!MarkRejected, G!Undecided, G!Decided

LEMMA MarkStep ==
    ASSUME IInv, NEW w \in Workers, G!Mark(w)
    PROVE  IInv'
  <1>1. attempt[w] \in G!Failures /\ raw[attempt[w].event] # None
    BY DEF G!Mark, IInv, G!TypeOK, AttemptOK
  <1>2. PICK e \in Deliveries : e = attempt[w].event
    BY <1>1 DEF G!Failures
  <1>3. raw[e] \in G!Undecided \cup G!Decided
    BY <1>1, <1>2 DEF IInv, G!TypeOK
  <1>4. PICK verdict \in {G!MarkFailed(raw[e]), G!MarkRejected(raw[e])} : raw' = [raw EXCEPT ![e] = verdict]
    BY <1>2 DEF G!Mark
  <1>5. verdict \in G!Undecided \cup G!Decided /\ (verdict = "NORMALIZED" <=> raw[e] = "NORMALIZED")
    BY <1>3, <1>4, MarkKeeps
  <1>6. UniqueRaw' /\ FoundOK' /\ RecordOK' /\ AnswerOK'
    BY <1>1, <1>2, <1>4, <1>5, Restated DEF G!Mark
  <1>7. G!TypeOK'
    BY <1>4, <1>5 DEF IInv, G!TypeOK, G!Mark, G!apiVars
  <1>8. AttemptOK'
    BY <1>4, <1>5, IngestionAssumption DEF IInv, G!TypeOK, AttemptOK, G!Mark, G!Failures
  <1>9. G!AnnouncedOnce'
    BY <1>4, <1>5 DEF IInv, G!TypeOK, G!AnnouncedOnce, G!Mark
  <1> QED
    BY <1>6, <1>7, <1>8, <1>9 DEF IInv

----------------------------------------------------------------------------
(* Every event and every receipt stay as described, from the start on.     *)
THEOREM Inductive == G!Spec => []IInv
  <1>1. IInv /\ [G!Next]_(G!vars) => IInv'
    <2> SUFFICES ASSUME IInv, [G!Next]_(G!vars)
                 PROVE  IInv'
      OBVIOUS
    <2> QED
      BY CheckStep, LockStep, EnterStep, AsideStep, FailStep, StoreStep, NormalizeStep, MarkStep
      DEF G!Next
  <1> QED
    BY <1>1, InitInv, PTL DEF G!Spec

(* The type invariant of the model.                                        *)
THEOREM TypeCorrect == G!Spec => []G!TypeOK
  <1>1. IInv => G!TypeOK
    BY DEF IInv
  <1> QED
    BY <1>1, Inductive, PTL

(* A client's receipt is that of its own event, which is stored: whatever  *)
(* keys were reused, records expired and transactions rolled back.         *)
THEOREM ReceiptsAreTheirs == G!Spec => []ReceiptIsTheirs
  <1>1. IInv => ReceiptIsTheirs
    BY KeyIsEvent DEF IInv, AnswerOK, Stands, ReceiptIsTheirs, G!ReceiptIsTheirs
  <1> QED
    BY <1>1, Inductive, PTL

(* Requests for one event that get a receipt get the same one.             *)
THEOREM OneReceipt == G!Spec => []OneReceiptPerEvent
  <1>1. ASSUME IInv
        PROVE  OneReceiptPerEvent
    <2> SUFFICES ASSUME NEW q \in Deliveries, NEW r \in Deliveries, answer[q] # None, answer[r] # None,
                        G!SameEvent(BodyOf[q], BodyOf[r])
                 PROVE  answer[q].receipt = answer[r].receipt
      BY DEF OneReceiptPerEvent, G!OneReceiptPerEvent
    <2>1. answer[q].receipt \in Deliveries /\ answer[r].receipt \in Deliveries
      BY <1>1 DEF IInv, G!TypeOK, G!Receipts
    <2>2. Stands(answer[q].receipt, BodyOf[q]) /\ Stands(answer[r].receipt, BodyOf[r])
      BY <1>1 DEF IInv, AnswerOK
    <2>3. G!DedupKey(BodyOf[q]) = G!DedupKey(BodyOf[r])
      BY KeyIsEvent
    <2> QED
      BY <1>1, <2>1, <2>2, <2>3 DEF IInv, UniqueRaw, Stands
  <1> QED
    BY <1>1, Inductive, PTL

(* Detection hears of an event exactly when it is normalized, once.        *)
THEOREM HeardOnce == G!Spec => []AnnouncedOnce
  <1>1. IInv => AnnouncedOnce
    BY DEF IInv, AnnouncedOnce
  <1> QED
    BY <1>1, Inductive, PTL

(* No step changes the status of a decided event.                        *)
LEMMA DecidedStep ==
    ASSUME IInv, [G!Next]_(G!vars), NEW e \in Deliveries, raw[e] \in G!Decided
    PROVE  raw'[e] = raw[e]
  <1> USE IngestionAssumption DEF IInv, G!TypeOK
  <1>1. CASE UNCHANGED raw
    BY <1>1
  <1>2. ASSUME NEW r \in Deliveries, G!Store(r)
        PROVE  raw'[e] = raw[e]
    <2>1. G!Same(r) = {} => raw[r] = None
      BY DEF G!Same
    <2> QED
      BY <1>2, <2>1 DEF G!Store
  <1>3. ASSUME NEW w \in Workers, NEW f \in Deliveries, G!Normalize(w, f)
        PROVE  raw'[e] = raw[e]
    BY <1>3 DEF G!Normalize, G!Normalizable, G!Undecided, G!Decided
  <1>4. ASSUME NEW w \in Workers, G!Mark(w)
        PROVE  raw'[e] = raw[e]
    BY <1>4, MarkKeeps DEF G!Mark, G!Failures
  <1> QED
    BY <1>1, <1>2, <1>3, <1>4
    DEF G!Next, G!vars, G!Check, G!Lock, G!Enter, G!Abort, G!Expire, G!Switch, G!Fail, G!Drop

(* No step revises the decision of an event: not a redelivered job, nor    *)
(* the catch block of an attempt that was overtaken.                       *)
THEOREM DecisionsStay == G!Spec => G!DecidedIsFinal
  <1>1. IInv /\ [G!Next]_(G!vars) =>
          [\A e \in Deliveries : raw[e] \in G!Decided => raw'[e] = raw[e]]_(G!vars)
    BY DecidedStep
  <1> QED
    BY <1>1, Inductive, PTL DEF G!Spec, G!DecidedIsFinal

----------------------------------------------------------------------------
(* Evidence.  A row's version tells its state, so that of the inspections  *)
(* which saw it in quarantine only the first to finish decides.            *)

(* The versions tell the states of a row apart.                            *)
EvidenceVersions ==
    \A f \in Files :
        /\ evidence[f].status = "none" <=> evidence[f].version = 0
        /\ evidence[f].status = "PENDING_UPLOAD" <=> evidence[f].version = 1
        /\ evidence[f].status = "QUARANTINED" <=> evidence[f].version = 2

(* An inspection has a file in quarantine's version, and calls nothing     *)
(* harmful safe.                                                           *)
InspectorInv ==
    \A i \in Inspectors :
        inspector[i].pc # "idle" =>
            /\ inspector[i].file \in Files
            /\ inspector[i].version = 2
            /\ inspector[i].pc = "finalize" /\ inspector[i].safe => inspector[i].file \notin Harmful

EvidenceInv == E!TypeOK /\ EvidenceVersions /\ InspectorInv /\ EvidenceIsDecidedOnce

LEMMA EvidenceInit == E!Init => EvidenceInv
  BY DEF E!Init, E!Idle, EvidenceInv, E!TypeOK, EvidenceVersions, InspectorInv, EvidenceIsDecidedOnce,
         E!AttachedOnce, E!HarmfulIsRefused

(* What happens to the URLs, the bucket and the records is of no           *)
(* importance to the rows.                                                 *)
LEMMA BucketStep ==
    ASSUME EvidenceInv,
           \/ \E f \in Files : E!Put(f) \/ E!UrlExpires(f)
           \/ \E k \in UploadKeys : E!Forget(k)
    PROVE  EvidenceInv'
  <1>1. UNCHANGED <<evidence, inspector, entries>>
    BY DEF E!Put, E!UrlExpires, E!Forget
  <1>2. E!TypeOK'
    BY <1>1 DEF E!Put, E!UrlExpires, E!Forget, E!TypeOK, EvidenceInv
  <1> QED
    BY <1>1, <1>2 DEF EvidenceInv, EvidenceVersions, InspectorInv, EvidenceIsDecidedOnce,
         E!AttachedOnce, E!HarmfulIsRefused

(* A new row, or none.                                                     *)
LEMMA RequestStep ==
    ASSUME EvidenceInv, NEW k \in UploadKeys, NEW f \in Files, E!Request(k, f)
    PROVE  EvidenceInv'
  <1> USE DEF EvidenceInv, E!TypeOK, EvidenceVersions, InspectorInv, EvidenceIsDecidedOnce, E!AttachedOnce,
              E!HarmfulIsRefused
  <1>1. url' \subseteq Files /\ UNCHANGED <<object, inspector, entries>>
    BY DEF E!Request
  <1>2. CASE UNCHANGED <<evidence, upload>>
    BY <1>1, <1>2
  <1>3. CASE /\ evidence[f].status = "none"
             /\ evidence' = [evidence EXCEPT ![f] = [status |-> "PENDING_UPLOAD", version |-> 1]]
             /\ upload' = [upload EXCEPT ![k] = f]
    <2>1. E!TypeOK'
      BY <1>1, <1>3
    <2>2. EvidenceVersions' /\ InspectorInv'
      BY <1>1, <1>3
    <2>3. EvidenceIsDecidedOnce'
      BY <1>1, <1>3
    <2> QED
      BY <2>1, <2>2, <2>3
  <1> QED
    BY <1>2, <1>3 DEF E!Request

(* The row is put into quarantine, or was there.                           *)
LEMMA BeginStep ==
    ASSUME EvidenceInv, NEW i \in Inspectors, NEW f \in Files, NEW v \in 1..2, E!Begin(i, f, v)
    PROVE  EvidenceInv'
  <1> DEFINE new == [status |-> "QUARANTINED", version |-> 2]
  <1> USE DEF EvidenceInv, E!TypeOK, EvidenceVersions, InspectorInv, EvidenceIsDecidedOnce, E!AttachedOnce,
              E!HarmfulIsRefused
  <1>1. UNCHANGED <<upload, url, object, entries>>
    BY DEF E!Begin
  <1>2. /\ evidence[f].status \in {"PENDING_UPLOAD", "QUARANTINED"}
        /\ evidence' = [evidence EXCEPT ![f] = new]
    BY DEF E!Begin
  <1>3. inspector' = [inspector EXCEPT ![i] = [pc |-> "inspect", file |-> f, version |-> 2, safe |-> FALSE]]
    BY <1>2 DEF E!Begin
  <1>4. E!TypeOK'
    BY <1>1, <1>2, <1>3
  <1>5. EvidenceVersions' /\ EvidenceIsDecidedOnce'
    BY <1>1, <1>2
  <1>6. InspectorInv'
    BY <1>1, <1>3
  <1> QED
    BY <1>4, <1>5, <1>6

(* An inspection judges what it finds, or is given up.                     *)
LEMMA InspectStep ==
    ASSUME EvidenceInv, NEW i \in Inspectors, E!Inspect(i) \/ E!Die(i)
    PROVE  EvidenceInv'
  <1> USE DEF EvidenceInv, E!TypeOK, EvidenceVersions, InspectorInv, EvidenceIsDecidedOnce, E!AttachedOnce,
              E!HarmfulIsRefused
  <1>1. UNCHANGED <<evidence, upload, url, object, entries>>
    BY DEF E!Inspect, E!Die
  <1>3. EvidenceVersions' /\ EvidenceIsDecidedOnce'
    BY <1>1
  <1>4. CASE E!Die(i)
    BY <1>1, <1>3, <1>4 DEF E!Die, E!Idle
  <1>5. CASE E!Inspect(i)
    <2> DEFINE f == inspector[i].file
               safe == object[f] = "declared" /\ f \notin Harmful
    <2>1. /\ inspector[i].pc = "inspect" /\ f \in Files
          /\ inspector' = [inspector EXCEPT ![i].pc = "finalize", ![i].safe = safe]
          /\ safe => f \notin Harmful
      BY <1>5 DEF E!Inspect, E!Passes
    <2>2. /\ inspector' \in [Inspectors -> [pc : {"idle", "inspect", "finalize"}, file : Files \cup {None},
                                            version : 0..3, safe : BOOLEAN]]
          /\ inspector'[i].pc = "finalize" /\ inspector'[i].file = f /\ inspector'[i].version = inspector[i].version
          /\ inspector'[i].safe => safe
          /\ \A j \in Inspectors \ {i} : inspector'[j] = inspector[j]
      BY <2>1
    <2>3. InspectorInv'
      BY <2>1, <2>2
    <2> QED
      BY <1>1, <1>3, <2>2, <2>3
  <1> QED
    BY <1>4, <1>5

(* Only the first inspection to finish finds the row undecided.            *)
LEMMA FinalizeStep ==
    ASSUME EvidenceInv, NEW i \in Inspectors, E!Finalize(i)
    PROVE  EvidenceInv'
  <1> DEFINE f == inspector[i].file
             safe == inspector[i].safe
             new == [status |-> IF safe THEN "AVAILABLE" ELSE "REJECTED", version |-> 3]
  <1> USE DEF EvidenceInv, E!TypeOK, EvidenceVersions, InspectorInv, EvidenceIsDecidedOnce, E!AttachedOnce,
              E!HarmfulIsRefused
  <1>1. /\ UNCHANGED <<upload, url, object>>
        /\ inspector' = [inspector EXCEPT ![i] = E!Idle]
        /\ f \in Files /\ inspector[i].version = 2 /\ (safe => f \notin Harmful)
    BY DEF E!Finalize
  <1>2. InspectorInv' /\ inspector' \in [Inspectors -> [pc : {"idle", "inspect", "finalize"}, file : Files \cup {None},
                                                       version : 0..3, safe : BOOLEAN]]
    BY <1>1 DEF E!Idle
  <1>3. CASE UNCHANGED <<evidence, entries>>
    BY <1>1, <1>2, <1>3
  <1>4. CASE E!Undecided(i) /\ ~UNCHANGED <<evidence, entries>>
    <2>1. /\ evidence[f].status = "QUARANTINED"
          /\ evidence' = [evidence EXCEPT ![f] = new]
          /\ entries' = IF safe THEN [entries EXCEPT ![f] = @ + 1] ELSE entries
      BY <1>1, <1>4 DEF E!Finalize, E!Undecided
    <2>2. E!TypeOK'
      BY <1>1, <1>2, <2>1
    <2>3. EvidenceVersions'
      BY <1>1, <2>1
    <2>4. E!AttachedOnce'
      BY <1>1, <2>1
    <2>5. E!HarmfulIsRefused'
      BY <1>1, <2>1
    <2> QED
      BY <1>2, <2>2, <2>3, <2>4, <2>5
  <1> QED
    BY <1>3, <1>4 DEF E!Finalize

LEMMA EvidenceNext == EvidenceInv /\ [E!Next]_(E!vars) => EvidenceInv'
  <1> SUFFICES ASSUME EvidenceInv, [E!Next]_(E!vars) PROVE EvidenceInv'
    OBVIOUS
  <1>1. CASE UNCHANGED E!vars
    BY <1>1 DEF E!vars, EvidenceInv, E!TypeOK, EvidenceVersions, InspectorInv, EvidenceIsDecidedOnce,
         E!AttachedOnce, E!HarmfulIsRefused
  <1> QED
    BY <1>1, BucketStep, RequestStep, BeginStep, InspectStep, FinalizeStep DEF E!Next

(* However uploads and inspections of a file overlap, and whatever bytes    *)
(* each of them has seen, it is announced exactly when it is available,    *)
(* and a harmful file never is (EvidenceIsDecidedOnce).                    *)
THEOREM EvidenceDecided == E!Spec => []EvidenceIsDecidedOnce
  <1>1. EvidenceInv => EvidenceIsDecidedOnce
    BY DEF EvidenceInv
  <1> QED
    BY EvidenceInit, EvidenceNext, <1>1, PTL DEF E!Spec

----------------------------------------------------------------------------
(* Catalog.  Every change of a row is its next version, so equal versions  *)
(* are equal rows, and the history grows by one version at a time.         *)

(* An author has read an older version of the row, or the row.             *)
PatchInv ==
    \A p \in Authors :
        patch[p].on # None =>
            LET now == item[patch[p].on] IN
            /\ patch[p].on \in I!Items
            /\ patch[p].seen.version <= now.version
            /\ patch[p].seen.version = now.version => patch[p].seen = now

CatalogInv == I!TypeOK /\ PatchInv /\ HistoryIsComplete

(* One more version at the end of a history.                               *)
LEMMA OneMoreVersion ==
    ASSUME NEW old, NEW n \in Nat, NEW new, {v.version : v \in old} = 1..n, new.version = n + 1
    PROVE  {v.version : v \in old \cup {new}} = 1..(n + 1)
  <1>1. {v.version : v \in old \cup {new}} = (1..n) \cup {n + 1}
    OBVIOUS
  <1>2. (1..n) \cup {n + 1} = 1..(n + 1)
    OBVIOUS
  <1> QED
    BY <1>1, <1>2

LEMMA CatalogInit == I!Init => CatalogInv
  <1> SUFFICES ASSUME I!Init PROVE CatalogInv
    OBVIOUS
  <1> USE CatalogAssumption DEF I!Init
  <1>1. I!Missing \in I!Rows /\ [version |-> 1, content |-> None, active |-> TRUE] \in I!Rows
    BY DEF I!Missing, I!Rows
  <1>2. I!TypeOK /\ PatchInv
    BY <1>1 DEF I!TypeOK, I!Idle, I!Missing, I!Items, PatchInv
  <1>3. \A r \in Rules : item[r] = I!Missing /\ history[r] = {}
    BY DEF I!Items
  <1>4. HistoryIsComplete
    BY <1>3 DEF HistoryIsComplete, I!HistoryIsComplete, I!Missing
  <1> QED
    BY <1>2, <1>4 DEF CatalogInv

(* A row gets its next version, and a rule with it one more in its         *)
(* history; an author may have closed the item by that.                    *)
LEMMA NextVersion ==
    ASSUME CatalogInv, NEW i \in I!Items, NEW row \in I!Rows, row.version = item[i].version + 1,
           item' = [item EXCEPT ![i] = row],
           IF i \in Rules THEN history' = [history EXCEPT ![i] = @ \cup {I!VersionOf(row)}] ELSE UNCHANGED history,
           created' \in [CatalogKeys -> I!Items \cup {None}],
           patch' \in [Authors -> [on : I!Items \cup {None}, seen : I!Rows]],
           \A p \in Authors : patch'[p] = patch[p] \/ patch'[p] = I!Idle
    PROVE  CatalogInv'
  <1> USE DEF CatalogInv
  <1>1. item \in [I!Items -> I!Rows] /\ item' \in [I!Items -> I!Rows] /\ item[i].version \in Nat
    BY DEF I!TypeOK, I!Rows
  <1>2. history' \in [Rules -> SUBSET {I!VersionOf(r) : r \in I!Rows}]
    BY DEF I!TypeOK
  <1>3. I!TypeOK'
    BY <1>1, <1>2 DEF I!TypeOK, I!Items, I!Rows, I!VersionOf
  <1>4. PatchInv'
    <2> SUFFICES ASSUME NEW p \in Authors, patch'[p].on # None
                 PROVE  /\ patch'[p].on \in I!Items
                        /\ patch'[p].seen.version <= item'[patch'[p].on].version
                        /\ patch'[p].seen.version = item'[patch'[p].on].version => patch'[p].seen = item'[patch'[p].on]
      BY DEF PatchInv, I!Items
    <2>1. patch'[p] = patch[p]
      BY DEF I!Idle
    <2>2. patch[p].on \in I!Items /\ patch[p].seen.version \in Nat /\ patch[p].seen.version <= item[patch[p].on].version
      BY <2>1 DEF PatchInv, I!TypeOK, I!Rows
    <2>3. CASE patch[p].on = i
      BY <1>1, <2>1, <2>2, <2>3
    <2>4. CASE patch[p].on # i
      BY <1>1, <2>1, <2>2, <2>4 DEF PatchInv
    <2> QED
      BY <2>3, <2>4
  <1>5. HistoryIsComplete'
    <2> SUFFICES ASSUME NEW r \in Rules
                 PROVE  /\ {old.version : old \in history'[r]} = 1..item'[r].version
                        /\ \A old, other \in history'[r] : old.version = other.version => old = other
                        /\ item'[r].version > 0 => I!VersionOf(item'[r]) \in history'[r]
      BY DEF HistoryIsComplete, I!HistoryIsComplete, I!VersionOf
    <2>1. /\ {old.version : old \in history[r]} = 1..item[r].version
          /\ \A old, other \in history[r] : old.version = other.version => old = other
          /\ item[r].version > 0 => I!VersionOf(item[r]) \in history[r]
          /\ r \in I!Items
      BY DEF HistoryIsComplete, I!HistoryIsComplete, I!Items
    <2>2. CASE r # i
      <3>1. item'[r] = item[r] /\ history'[r] = history[r]
        BY <1>1, <2>1, <2>2 DEF I!TypeOK
      <3> QED
        BY <2>1, <3>1
    <2>3. CASE r = i
      <3> DEFINE new == I!VersionOf(row)
                 n == item[r].version
      <3>1. item'[r] = row /\ history'[r] = history[r] \cup {new} /\ new.version = n + 1 /\ n \in Nat
        BY <1>1, <2>1, <2>3 DEF I!TypeOK, I!VersionOf
      <3> HIDE DEF new, n
      <3>2. {old.version : old \in history'[r]} = 1..(n + 1)
        <4>1. {old.version : old \in history[r]} = 1..n
          BY <2>1 DEF n
        <4>2. {old.version : old \in history[r] \cup {new}} = 1..(n + 1)
          BY <3>1, <4>1, OneMoreVersion
        <4> QED
          BY <3>1, <4>2
      <3>3. \A old \in history[r] : old.version \in 1..n
        BY <2>1 DEF n
      <3>4. \A old, other \in history'[r] : old.version = other.version => old = other
        BY <2>1, <3>1, <3>3
      <3> QED
        <4>1. item'[r].version = n + 1
          BY <3>1 DEF new, I!VersionOf
        <4>2. I!VersionOf(item'[r]) \in history'[r]
          BY <3>1 DEF new
        <4> QED
          BY <3>2, <3>4, <4>1, <4>2
    <2> QED
      BY <2>2, <2>3
  <1> QED
    BY <1>3, <1>4, <1>5

LEMMA CreateItem ==
    ASSUME CatalogInv, NEW k \in CatalogKeys, NEW i \in Assets \cup Rules, I!Create(k, i)
    PROVE  CatalogInv'
  <1> DEFINE row == [version |-> 1, content |-> None, active |-> i \in Assets]
  <1>1. i \in I!Items /\ row \in I!Rows /\ row.version = item[i].version + 1
    BY CatalogAssumption DEF I!Create, I!Items, I!Rows
  <1>2. /\ item' = [item EXCEPT ![i] = row]
        /\ IF i \in Rules THEN history' = [history EXCEPT ![i] = @ \cup {I!VersionOf(row)}] ELSE UNCHANGED history
        /\ created' = [created EXCEPT ![k] = i]
        /\ UNCHANGED patch
    BY DEF I!Create, I!Write
  <1>3. /\ created' \in [CatalogKeys -> I!Items \cup {None}]
        /\ patch' \in [Authors -> [on : I!Items \cup {None}, seen : I!Rows]]
    BY <1>1, <1>2 DEF CatalogInv, I!TypeOK
  <1> HIDE DEF row
  <1> QED
    BY <1>1, <1>2, <1>3, NextVersion

(* What a PATCH makes of a row it finds at the version it names.           *)
LEMMA ChangedRow ==
    ASSUME NEW p \in Authors, NEW now \in I!Rows, now.version < MaxItemVersion, NEW row \in I!Changed(p, now)
    PROVE  row \in I!Rows /\ row.version = now.version + 1
  <1>1. row \in {[now EXCEPT !.version = @ + 1, !.content = p], [now EXCEPT !.version = @ + 1, !.active = ~@]}
    BY DEF I!Changed
  <1>2. now = [version |-> now.version, content |-> now.content, active |-> now.active]
    BY DEF I!Rows
  <1>3. \/ row = [version |-> now.version + 1, content |-> p, active |-> now.active]
        \/ row = [version |-> now.version + 1, content |-> now.content, active |-> ~now.active]
    BY <1>1, <1>2
  <1>4. now.version + 1 \in 0..MaxItemVersion
    BY CatalogAssumption DEF I!Rows
  <1>5. now.active \in BOOLEAN /\ (~now.active) \in BOOLEAN
    BY Zenon DEF I!Rows
  <1>6. PICK content \in Authors \cup {None}, on \in BOOLEAN :
           row = [version |-> now.version + 1, content |-> content, active |-> on]
    BY <1>3, <1>5, Zenon DEF I!Rows
  <1> QED
    BY <1>4, <1>6 DEF I!Rows

LEMMA SaveItem == ASSUME CatalogInv, NEW p \in Authors, I!Save(p) PROVE CatalogInv'
  <1> DEFINE i == patch[p].on
  <1> USE DEF CatalogInv
  <1>1. i \in I!Items /\ UNCHANGED created /\ patch' = [patch EXCEPT ![p] = I!Idle]
    BY DEF I!Save, PatchInv
  <1>2. patch' \in [Authors -> [on : I!Items \cup {None}, seen : I!Rows]]
    BY <1>1, CatalogAssumption DEF I!TypeOK, I!Idle, I!Missing, I!Rows
  <1>3. \A q \in Authors : patch'[q] = patch[q] \/ patch'[q] = I!Idle
    BY <1>1 DEF I!TypeOK
  <1>4. CASE UNCHANGED <<item, history>>
    <2>1. I!TypeOK' /\ HistoryIsComplete'
      BY <1>1, <1>2, <1>4 DEF I!TypeOK, HistoryIsComplete, I!HistoryIsComplete
    <2>2. PatchInv'
      BY <1>3, <1>4 DEF PatchInv, I!Idle
    <2> QED
      BY <2>1, <2>2
  <1>5. CASE item[i].version < MaxItemVersion /\ \E row \in I!Changed(p, item[i]) : I!Write(i, row)
    <2>1. PICK row \in I!Changed(p, item[i]) : I!Write(i, row)
      BY <1>5
    <2>2. row \in I!Rows /\ row.version = item[i].version + 1
      BY <1>1, <1>5, ChangedRow DEF I!TypeOK
    <2>3. created' \in [CatalogKeys -> I!Items \cup {None}]
      BY <1>1 DEF I!TypeOK
    <2> QED
      BY <1>1, <1>2, <1>3, <2>1, <2>2, <2>3, NextVersion DEF I!Write
  <1> QED
    BY <1>4, <1>5 DEF I!Save

LEMMA ArchiveItem == ASSUME CatalogInv, NEW a \in Assets, I!Archive(a) PROVE CatalogInv'
  <1> DEFINE row == [item[a] EXCEPT !.active = FALSE, !.version = @ + 1]
  <1>1. a \in I!Items /\ a \notin Rules /\ item \in [I!Items -> I!Rows]
    BY CatalogAssumption DEF I!Items, CatalogInv, I!TypeOK
  <1>2. row \in I!Rows /\ row.version = item[a].version + 1 /\ item' = [item EXCEPT ![a] = row]
    BY <1>1, CatalogAssumption DEF I!Archive, I!Rows
  <1>3. UNCHANGED <<history, created, patch>>
    BY DEF I!Archive
  <1>4. /\ created' \in [CatalogKeys -> I!Items \cup {None}]
        /\ patch' \in [Authors -> [on : I!Items \cup {None}, seen : I!Rows]]
    BY <1>3 DEF CatalogInv, I!TypeOK
  <1> HIDE DEF row
  <1> QED
    BY <1>1, <1>2, <1>3, <1>4, NextVersion

(* Opening an item, and the end of an idempotency record.                  *)
LEMMA OpenItem ==
    ASSUME CatalogInv,
           \/ \E p \in Authors, i \in I!Items : I!Open(p, i)
           \/ \E k \in CatalogKeys : I!Forget(k)
    PROVE  CatalogInv'
  <1> USE DEF CatalogInv
  <1>1. UNCHANGED <<item, history>>
    BY DEF I!Open, I!Forget
  <1>2. HistoryIsComplete'
    BY <1>1 DEF HistoryIsComplete, I!HistoryIsComplete
  <1>3. ASSUME NEW k \in CatalogKeys, I!Forget(k) PROVE CatalogInv'
    BY <1>2, <1>3 DEF I!Forget, I!TypeOK, PatchInv
  <1>4. ASSUME NEW p \in Authors, NEW i \in I!Items, I!Open(p, i) PROVE CatalogInv'
    <2>1. UNCHANGED created /\ patch' = [patch EXCEPT ![p] = [on |-> i, seen |-> item[i]]] /\ item[i] \in I!Rows
      BY <1>4 DEF I!Open, I!TypeOK
    <2>2. I!TypeOK'
      BY <1>1, <2>1 DEF I!TypeOK
    <2>3. item[i].version <= item[i].version
      BY <2>1 DEF I!Rows
    <2>4. PatchInv'
      BY <1>1, <2>1, <2>3 DEF PatchInv, I!TypeOK
    <2> QED
      BY <1>2, <2>2, <2>4
  <1> QED
    BY <1>3, <1>4

LEMMA CatalogNext == CatalogInv /\ [I!Next]_(I!vars) => CatalogInv'
  <1> SUFFICES ASSUME CatalogInv, [I!Next]_(I!vars) PROVE CatalogInv'
    OBVIOUS
  <1>1. CASE UNCHANGED I!vars
    BY <1>1 DEF I!vars, CatalogInv, I!TypeOK, PatchInv, HistoryIsComplete, I!HistoryIsComplete
  <1> QED
    BY <1>1, CreateItem, SaveItem, ArchiveItem, OpenItem DEF I!Next

(* The versions of a rule are a history without gaps or doubles that ends  *)
(* with the rule itself, however many edit it at once (HistoryIsComplete). *)
THEOREM HistoryComplete == I!Spec => []HistoryIsComplete
  <1>1. CatalogInv => HistoryIsComplete
    BY DEF CatalogInv
  <1> QED
    BY CatalogInit, CatalogNext, <1>1, PTL DEF I!Spec

(* No edit is lost (EditedAsSeen): a PATCH changes what its author had     *)
(* read, since every change of a row is a new version of it.               *)
THEOREM EditsAreSeen == I!Spec => EditedAsSeen
  <1> DEFINE Seen ==
        \A p \in Authors :
            patch[p] # I!Idle /\ patch'[p] = I!Idle /\ item' # item => item[patch[p].on] = patch[p].seen
  <1>1. CatalogInv /\ [I!Next]_(I!vars) => [Seen]_(I!vars)
    <2> SUFFICES ASSUME CatalogInv, I!Next, NEW p \in Authors,
                        patch[p] # I!Idle, patch'[p] = I!Idle, item' # item
                 PROVE  item[patch[p].on] = patch[p].seen
      OBVIOUS
    <2>1. PICK q \in Authors : I!Save(q)
      BY DEF I!Next, I!Create, I!Forget, I!Open, I!Archive
    <2>2. q = p
      BY <2>1 DEF I!Save, CatalogInv, I!TypeOK
    <2>3. I!UpToDate(p) /\ patch[p].on # None
      BY <2>1, <2>2 DEF I!Save
    <2> QED
      BY <2>3 DEF I!UpToDate, CatalogInv, PatchInv
  <1> QED
    BY CatalogInit, CatalogNext, <1>1, PTL DEF I!Spec, EditedAsSeen, I!EditedAsSeen

----------------------------------------------------------------------------
(* Connectors.  What a request of several statements may rely on: its      *)
(* Idempotency-Key, or the connector's row, is its own until it ends.      *)

Issuing == {"expire", "insert"}

Disabling == {"keys", "secrets", "disable"}

Administration ==
    [pc : {"idle", "expire", "insert", "patch", "keys", "secrets", "disable"},
     key : C!Keys \cup {None}, seen : 0..MaxVersion,
     targets : SUBSET C!Credentials, owed : SUBSET C!Credentials]

(* Of these secrets, one does not run out if any does.                     *)
Lasting(S) == (\E c \in S : cred[c] \in {"expiring", "lapsed"}) => \E c \in S : cred[c] = "valid"

(* What an administrator's request may be: one that issues has a key with  *)
(* no answer yet, and a rotation ends only secrets; one that disables has  *)
(* the connector's row, and has in its sights, as far as it has got, all   *)
(* that it owes and that is not revoked; the secrets it spares will last.  *)
RequestOK(x) ==
    /\ x.pc \in Issuing => x.key \in C!Keys /\ issued[x.key] = {}
    /\ x.pc \notin Issuing => x.key = None
    /\ x.pc = "expire" => x.key \notin IssueKeys
    /\ x.pc = "insert" => x.targets \subseteq WebhookSecrets /\ (x.key \in IssueKeys => x.targets = {})
    /\ x.pc \in Disabling =>
          /\ status # "none" /\ version < MaxVersion
          /\ \A e \in Events : event[e] # "entered"
          /\ \A c \in x.owed \cup x.targets : cred[c] # "none"
    /\ x.pc = "secrets" => \A c \in x.owed \cap ApiKeys : c \in x.targets \/ cred[c] = "revoked"
    /\ x.pc = "disable" => \A c \in x.owed : c \in x.targets \/ cred[c] = "revoked"
    /\ x.pc = "disable" => Lasting(WebhookSecrets \ x.targets)

(* No two have one key, and no two the connector's row.                    *)
AloneInv ==
    \A r, q \in Administrators :
        r # q => /\ ~(admin[r].pc \in Disabling /\ admin[q].pc \in Disabling)
                 /\ admin[r].pc \in Issuing => admin[q].key # admin[r].key

RowInv ==
    /\ status = "none" <=> version = 0
    /\ \A e \in Events : event[e] = "entered" => status = "ACTIVE"

IssuedInv == \A k \in C!Keys : issued[k] = {} \/ \E c : issued[k] = {c}

ConnectorInv ==
    /\ C!TypeOK
    /\ \A r \in Administrators : RequestOK(admin[r])
    /\ AloneInv
    /\ RowInv
    /\ IssuedInv
    /\ C!RotationLeavesASecret

LEMMA ConnectorInit == C!Init => ConnectorInv
  BY ConnectorAssumption
  DEF C!Init, C!Idle, C!Begun, C!Credentials, C!Keys, ConnectorInv, C!TypeOK, RequestOK, AloneInv, RowInv, IssuedInv,
      C!RotationLeavesASecret, Lasting, Issuing, Disabling

(* A step that only moves one request, to a point where it may be.         *)
LEMMA MoveRequest ==
    ASSUME ConnectorInv, NEW r \in Administrators, NEW new \in Administration,
           admin' \in [Administrators -> Administration],
           admin'[r] = new, \A q \in Administrators \ {r} : admin'[q] = admin[q],
           RequestOK(new),
           new.pc \in Disabling => \A q \in Administrators \ {r} : admin[q].pc \notin Disabling,
           new.pc \in Issuing => \A q \in Administrators \ {r} : admin[q].key # new.key,
           UNCHANGED <<status, version, cred, issued, event>>
    PROVE  ConnectorInv'
  <1> USE DEF ConnectorInv
  <1>1. admin \in [Administrators -> Administration]
    BY DEF C!TypeOK, Administration
  <1>2. C!TypeOK'
    BY <1>1 DEF C!TypeOK, Administration
  <1>3. \A q \in Administrators : RequestOK(admin'[q])
    BY <1>1
  <1>4. (\A q \in Administrators : RequestOK(admin[q]))'
    BY <1>3 DEF RequestOK, Lasting
  <1>5. AloneInv'
    <2> SUFFICES ASSUME NEW p \in Administrators, NEW q \in Administrators, p # q
                 PROVE  /\ ~(admin'[p].pc \in Disabling /\ admin'[q].pc \in Disabling)
                        /\ admin'[p].pc \in Issuing => admin'[q].key # admin'[p].key
      BY DEF AloneInv
    <2>1. CASE p = r
      BY <1>1, <2>1 DEF AloneInv
    <2>2. CASE q = r
      <3>1. admin'[q] = new /\ admin'[p] = admin[p]
        BY <1>1, <2>2
      <3>2. admin[p].pc \in Issuing => admin[p].key \in C!Keys
        BY DEF RequestOK
      <3>3. new.pc \notin Issuing => new.key = None
        BY DEF RequestOK
      <3>4. None \notin C!Keys
        BY ConnectorAssumption DEF C!Keys
      <3> QED
        BY <2>2, <3>1, <3>2, <3>3, <3>4
    <2>3. CASE p # r /\ q # r
      BY <1>1, <2>3 DEF AloneInv
    <2> QED
      BY <2>1, <2>2, <2>3
  <1>6. RowInv' /\ IssuedInv' /\ C!RotationLeavesASecret'
    BY DEF RowInv, IssuedInv, C!RotationLeavesASecret
  <1> QED
    BY <1>2, <1>4, <1>5, <1>6

LEMMA PutRequest ==
    ASSUME ConnectorInv, NEW r \in Administrators, NEW new \in Administration, admin' = [admin EXCEPT ![r] = new]
    PROVE  /\ admin' \in [Administrators -> Administration]
           /\ admin'[r] = new
           /\ \A q \in Administrators \ {r} : admin'[q] = admin[q]
  BY DEF ConnectorInv, C!TypeOK, Administration

LEMMA IdleRequest ==
    /\ C!Idle \in Administration /\ C!Idle.pc = "idle" /\ C!Idle.key = None
    /\ RequestOK(C!Idle)
  BY ConnectorAssumption DEF C!Idle, C!Begun, Administration, RequestOK, Issuing, Disabling

LEMMA AbortRequest == ASSUME ConnectorInv, NEW r \in Administrators, C!Abort(r) PROVE ConnectorInv'
  BY IdleRequest, PutRequest, MoveRequest DEF C!Abort, C!Finish, Issuing, Disabling

LEMMA BeginIssueRequest ==
    ASSUME ConnectorInv, NEW r \in Administrators, NEW k \in C!Keys, C!BeginIssue(r, k)
    PROVE  ConnectorInv'
  <1> DEFINE new == [pc |-> IF k \in IssueKeys THEN "insert" ELSE "expire", key |-> k, seen |-> 0,
                     targets |-> {}, owed |-> {}]
  <1>1. /\ admin' = [admin EXCEPT ![r] = new]
        /\ issued[k] = {} /\ \A q \in Administrators : admin[q].key # k
        /\ UNCHANGED <<status, version, cred, issued, event>>
    BY DEF C!BeginIssue, C!Begun
  <1>2. new \in Administration
    BY ConnectorAssumption DEF Administration
  <1>3. RequestOK(new) /\ new.pc \notin Disabling
    BY <1>1 DEF RequestOK, Issuing, Disabling
  <1>4. new.key = k
    OBVIOUS
  <1> HIDE DEF new
  <1> QED
    BY <1>1, <1>2, <1>3, <1>4, PutRequest, MoveRequest

LEMMA ExpireRequest == ASSUME ConnectorInv, NEW r \in Administrators, C!Expire(r) PROVE ConnectorInv'
  <1> DEFINE ends == {c \in WebhookSecrets : cred[c] = "valid"}
             new == admin'[r]
  <1>1. admin[r] \in Administration /\ RequestOK(admin[r]) /\ admin[r].pc = "expire"
    BY DEF C!Expire, ConnectorInv, C!TypeOK, Administration
  <1>2. /\ admin' = [admin EXCEPT ![r].pc = "insert", ![r].targets = ends]
        /\ UNCHANGED <<status, version, cred, issued, event>>
    BY DEF C!Expire
  <1>3. ends \in SUBSET C!Credentials /\ ends \subseteq WebhookSecrets
    BY DEF C!Credentials
  <1>4. /\ admin' \in [Administrators -> Administration]
        /\ \A q \in Administrators \ {r} : admin'[q] = admin[q]
        /\ new.pc = "insert" /\ new.key = admin[r].key /\ new.targets = ends
    BY <1>1, <1>2, <1>3 DEF Administration, ConnectorInv, C!TypeOK
  <1>5. RequestOK(new)
    BY <1>1, <1>3, <1>4 DEF RequestOK, Issuing, Disabling
  <1>6. \A q \in Administrators \ {r} : admin[q].key # admin[r].key
    BY <1>1 DEF ConnectorInv, AloneInv, Issuing
  <1> QED
    BY <1>2, <1>4, <1>5, <1>6, MoveRequest DEF Disabling

LEMMA BeginPatchRequest == ASSUME ConnectorInv, NEW r \in Administrators, C!BeginPatch(r) PROVE ConnectorInv'
  <1> DEFINE new == [pc |-> "patch", key |-> None, seen |-> version, targets |-> {}, owed |-> {}]
  <1>1. admin' = [admin EXCEPT ![r] = new] /\ UNCHANGED <<status, version, cred, issued, event>>
    BY DEF C!BeginPatch, C!Begun
  <1>2. new \in Administration
    BY DEF Administration, ConnectorInv, C!TypeOK
  <1>3. RequestOK(new) /\ new.pc \notin Disabling /\ new.pc \notin Issuing
    BY DEF RequestOK, Issuing, Disabling
  <1> HIDE DEF new
  <1> QED
    BY <1>1, <1>2, <1>3, PutRequest, MoveRequest

(* Who disables has taken the row from everybody else.                     *)
LEMMA BeginDisableRequest == ASSUME ConnectorInv, NEW r \in Administrators, C!BeginDisable(r) PROVE ConnectorInv'
  <1> DEFINE due == {c \in C!Credentials : C!Usable(c)}
             new == [pc |-> "keys", key |-> None, seen |-> 0, targets |-> {}, owed |-> due]
  <1>1. admin' = [admin EXCEPT ![r] = new] /\ UNCHANGED <<status, version, cred, issued, event>>
    BY DEF C!BeginDisable, C!Begun
  <1>2. new \in Administration
    BY ConnectorAssumption DEF Administration
  <1>3. \A c \in due : cred[c] # "none"
    BY DEF C!Usable
  <1>4. /\ status # "none" /\ version < MaxVersion
        /\ \A e \in Events : event[e] # "entered"
        /\ \A q \in Administrators \ {r} : admin[q].pc \notin Disabling
    BY DEF C!BeginDisable, C!RowFree, Disabling
  <1>5. RequestOK(new) /\ new.pc \notin Issuing
    BY <1>3, <1>4 DEF RequestOK, Issuing, Disabling
  <1> HIDE DEF new
  <1> QED
    BY <1>1, <1>2, <1>4, <1>5, PutRequest, MoveRequest

(* The two sweeps: what is owed and not revoked is in the targets of the   *)
(* first if it is an API key, and of the second if it is a secret.         *)
LEMMA SweepRequest ==
    ASSUME ConnectorInv, NEW r \in Administrators, C!SweepKeys(r) \/ C!SweepSecrets(r)
    PROVE  ConnectorInv'
  <1>1. admin[r] \in Administration /\ RequestOK(admin[r]) /\ admin[r].pc \in {"keys", "secrets"}
    BY DEF C!SweepKeys, C!SweepSecrets, ConnectorInv, C!TypeOK, Administration
  <1>2. UNCHANGED <<status, version, cred, issued, event>>
    BY DEF C!SweepKeys, C!SweepSecrets
  <1>3. \A q \in Administrators \ {r} : admin[q].pc \notin Disabling
    BY <1>1 DEF ConnectorInv, AloneInv, Disabling
  <1>4. \A c \in admin[r].owed : c \in C!Credentials /\ cred[c] # "none"
    BY <1>1 DEF RequestOK, Disabling, Administration
  <1>5. CASE C!SweepKeys(r)
    <2> DEFINE more == C!Unrevoked(ApiKeys)
               new == admin'[r]
    <2>1. /\ more \in SUBSET C!Credentials /\ \A c \in more : cred[c] # "none"
          /\ \A c \in admin[r].owed \cap ApiKeys : c \in more \/ cred[c] = "revoked"
      BY <1>4 DEF C!Unrevoked, C!Credentials
    <2>2. admin[r].pc = "keys" /\ admin' = [admin EXCEPT ![r].pc = "secrets", ![r].targets = more]
      BY <1>5 DEF C!SweepKeys
    <2>3. /\ admin' \in [Administrators -> Administration]
          /\ \A q \in Administrators \ {r} : admin'[q] = admin[q]
          /\ new.pc = "secrets" /\ new.key = admin[r].key /\ new.targets = more /\ new.owed = admin[r].owed
      BY <1>1, <2>1, <2>2 DEF Administration, ConnectorInv, C!TypeOK
    <2>4. RequestOK(new)
      BY <1>1, <2>1, <2>2, <2>3 DEF RequestOK, Issuing, Disabling
    <2> QED
      BY <1>2, <1>3, <2>2, <2>3, <2>4, MoveRequest DEF Issuing
  <1>6. CASE C!SweepSecrets(r)
    <2> DEFINE more == admin[r].targets \cup C!Unrevoked(WebhookSecrets)
               new == admin'[r]
    <2>1. admin[r].pc = "secrets" /\ admin' = [admin EXCEPT ![r].pc = "disable", ![r].targets = more]
      BY <1>6 DEF C!SweepSecrets
    <2>2. more \in SUBSET C!Credentials /\ \A c \in more : cred[c] # "none"
      BY <1>1 DEF C!Unrevoked, C!Credentials, Administration, RequestOK, Disabling
    <2>3. \A c \in admin[r].owed : c \in more \/ cred[c] = "revoked"
      BY <1>1, <1>4, <2>1 DEF C!Unrevoked, C!Credentials, RequestOK
    <2>4. /\ admin' \in [Administrators -> Administration]
          /\ \A q \in Administrators \ {r} : admin'[q] = admin[q]
          /\ new.pc = "disable" /\ new.key = admin[r].key /\ new.targets = more /\ new.owed = admin[r].owed
      BY <1>1, <2>1, <2>2 DEF Administration, ConnectorInv, C!TypeOK
    <2>5. \A c \in WebhookSecrets \ more : cred[c] \notin {"expiring", "lapsed"}
      BY DEF C!Unrevoked
    <2>6. RequestOK(new)
      BY <1>1, <2>1, <2>2, <2>3, <2>4, <2>5 DEF RequestOK, Lasting, Issuing, Disabling
    <2> QED
      BY <1>2, <1>3, <2>1, <2>4, <2>6, MoveRequest DEF Issuing
  <1> QED
    BY <1>5, <1>6

(* The credentials age, and a request may end with that: what was issued   *)
(* stays issued, what was revoked stays revoked, and where a secret was    *)
(* left that does not run out, one is.                                     *)
LEMMA AgeCredentials ==
    ASSUME ConnectorInv,
           cred' \in [C!Credentials -> {"none", "valid", "expiring", "lapsed", "revoked"}],
           \A c \in C!Credentials : /\ cred[c] # "none" => cred'[c] # "none"
                                    /\ cred[c] = "revoked" => cred'[c] = "revoked",
           \A S \in SUBSET WebhookSecrets : Lasting(S) => Lasting(S)',
           UNCHANGED <<status, version, issued, admin, event>>
    PROVE  ConnectorInv'
  <1> USE DEF ConnectorInv
  <1>1. C!TypeOK'
    BY DEF C!TypeOK
  <1>2. \A r \in Administrators : admin[r] \in Administration
    BY DEF C!TypeOK, Administration
  <1>3. ASSUME NEW r \in Administrators PROVE RequestOK(admin[r])'
    <2>1. /\ admin[r].owed \subseteq C!Credentials /\ admin[r].targets \subseteq C!Credentials
          /\ RequestOK(admin[r])
      BY <1>2 DEF Administration
    <2>2. Lasting(WebhookSecrets \ admin[r].targets) => Lasting(WebhookSecrets \ admin[r].targets)'
      <3>1. WebhookSecrets \ admin[r].targets \in SUBSET WebhookSecrets
        OBVIOUS
      <3>2. PICK S \in SUBSET WebhookSecrets : S = WebhookSecrets \ admin[r].targets
        BY <3>1
      <3> QED
        BY <3>2 DEF Lasting
    <2> QED
      BY <2>1, <2>2 DEF RequestOK
  <1>4. AloneInv' /\ RowInv' /\ IssuedInv'
    BY DEF AloneInv, RowInv, IssuedInv
  <1>5. C!RotationLeavesASecret'
    BY DEF C!RotationLeavesASecret, Lasting
  <1> QED
    BY <1>1, <1>3, <1>4, <1>5

LEMMA RevokeOrLapse ==
    ASSUME ConnectorInv, NEW c \in C!Credentials, C!Revoke(c) \/ C!Lapse(c)
    PROVE  ConnectorInv'
  <1>1. cred \in [C!Credentials -> {"none", "valid", "expiring", "lapsed", "revoked"}]
    BY DEF ConnectorInv, C!TypeOK
  <1>2. \/ C!Revoke(c) /\ c \notin WebhookSecrets /\ cred' = [cred EXCEPT ![c] = "revoked"]
        \/ cred[c] = "expiring" /\ cred' = [cred EXCEPT ![c] = "lapsed"]
    BY ConnectorAssumption DEF C!Revoke, C!Lapse, C!Unrevoked
  <1>3. UNCHANGED <<status, version, issued, admin, event>>
    BY DEF C!Revoke, C!Lapse
  <1>4. ASSUME NEW S \in SUBSET WebhookSecrets, Lasting(S) PROVE Lasting(S)'
    BY <1>1, <1>2, <1>4 DEF Lasting, C!Credentials
  <1> QED
    BY <1>1, <1>2, <1>3, <1>4, AgeCredentials DEF C!Revoke, C!Unrevoked

(* A request ends, and with it the credentials may have aged and the key   *)
(* it holds may have got its answer.                                       *)
LEMMA IssueCredential ==
    ASSUME ConnectorInv, NEW r \in Administrators, NEW c \in C!Credentials, NEW state \in {"valid", "expiring"},
           cred[c] = "none", c \in WebhookSecrets => state = "valid", C!Issue(r, c, state)
    PROVE  ConnectorInv'
  <1> DEFINE k == admin[r].key
  <1> USE DEF ConnectorInv
  <1>1. /\ admin[r] \in Administration /\ RequestOK(admin[r]) /\ admin[r].pc = "insert"
        /\ k \in C!Keys /\ issued[k] = {} /\ admin[r].targets \subseteq WebhookSecrets
        /\ k \in IssueKeys => admin[r].targets = {}
    BY DEF C!Issue, C!TypeOK, Administration, RequestOK, Issuing
  <1>2. /\ cred \in [C!Credentials -> {"none", "valid", "expiring", "lapsed", "revoked"}]
        /\ admin \in [Administrators -> Administration]
        /\ issued \in [C!Keys -> SUBSET C!Credentials]
    BY DEF C!TypeOK, Administration
  <1>3. /\ cred' = [d \in C!Credentials |->
                        IF d = c THEN state
                        ELSE IF d \in admin[r].targets /\ cred[d] = "valid" THEN "expiring" ELSE cred[d]]
        /\ issued' = [issued EXCEPT ![k] = @ \cup {c}]
        /\ admin' = [admin EXCEPT ![r] = C!Idle]
        /\ UNCHANGED <<status, version, event>>
        /\ c \in ApiKeys => k \in IssueKeys
    BY DEF C!Issue, C!Finish
  <1>4. /\ cred' \in [C!Credentials -> {"none", "valid", "expiring", "lapsed", "revoked"}]
        /\ \A d \in C!Credentials : /\ cred[d] # "none" => cred'[d] # "none"
                                    /\ cred[d] = "revoked" => cred'[d] = "revoked"
    BY <1>2, <1>3
  <1>5. issued' \in [C!Keys -> SUBSET C!Credentials] /\ IssuedInv'
    BY <1>1, <1>2, <1>3 DEF IssuedInv
  <1>6. /\ admin' \in [Administrators -> Administration] /\ admin'[r] = C!Idle
        /\ \A q \in Administrators \ {r} : admin'[q] = admin[q]
    BY <1>2, <1>3, IdleRequest
  <1>7. C!TypeOK'
    BY <1>3, <1>4, <1>5, <1>6 DEF C!TypeOK, Administration
  <1>8. ASSUME NEW q \in Administrators PROVE RequestOK(admin[q])'
    <2>1. CASE q = r
      BY <1>6, <2>1, ConnectorAssumption DEF RequestOK, C!Idle, C!Begun, Issuing, Disabling
    <2>2. CASE q # r
      <3>1. /\ admin'[q] = admin[q] /\ RequestOK(admin[q])
            /\ admin[q].owed \subseteq C!Credentials /\ admin[q].targets \subseteq C!Credentials
        BY <1>2, <1>6, <2>2 DEF Administration
      <3>2. admin[q].pc \in Issuing => admin[q].key \in C!Keys /\ admin[q].key # k
        BY <1>1, <2>2, <3>1 DEF AloneInv, RequestOK, Issuing
      <3>3. admin[q].pc \in Issuing => issued'[admin[q].key] = {}
        BY <1>2, <1>3, <3>1, <3>2 DEF RequestOK
      <3>4. ASSUME admin[q].pc = "disable" PROVE Lasting(WebhookSecrets \ admin[q].targets)'
        <4> DEFINE S == WebhookSecrets \ admin[q].targets
        <4>1. Lasting(S) /\ c \notin admin[q].targets /\ S \subseteq WebhookSecrets /\ S' = S
          BY <3>1, <3>4 DEF RequestOK, Disabling
        <4>2. CASE c \in WebhookSecrets
          BY <1>3, <3>1, <4>1, <4>2 DEF Lasting, C!Credentials
        <4>3. CASE c \notin WebhookSecrets
          BY <1>1, <1>3, <3>1, <4>1, <4>3 DEF Lasting, C!Credentials
        <4> QED
          BY <4>2, <4>3
      <3> QED
        BY <1>3, <1>4, <3>1, <3>3, <3>4 DEF RequestOK
    <2> QED
      BY <2>1, <2>2
  <1>9. AloneInv'
    <2>1. \A q \in Administrators : admin[q].pc \in Issuing => admin[q].key # None
      BY ConnectorAssumption DEF RequestOK, C!Keys
    <2> QED
      BY <1>6, <2>1, IdleRequest DEF AloneInv, Issuing, Disabling
  <1>10. C!RotationLeavesASecret'
    <2>1. CASE c \in WebhookSecrets
      BY <1>3, <2>1 DEF C!RotationLeavesASecret, C!Credentials
    <2>2. CASE c \notin WebhookSecrets
      <3>1. admin[r].targets = {}
        BY <1>1, <1>3, <2>2 DEF C!Credentials
      <3>2. \A d \in WebhookSecrets : cred'[d] = cred[d]
        BY <1>3, <2>2, <3>1 DEF C!Credentials
      <3> QED
        BY <3>2 DEF C!RotationLeavesASecret
    <2> QED
      BY <2>1, <2>2
  <1>11. RowInv'
    BY <1>3 DEF RowInv
  <1> QED
    BY <1>5, <1>7, <1>8, <1>9, <1>10, <1>11

LEMMA InsertRequest == ASSUME ConnectorInv, NEW r \in Administrators, C!Insert(r) PROVE ConnectorInv'
  <1>1. ASSUME NEW c \in C!Fresh(ApiKeys), NEW state \in {"valid", "expiring"}, C!Issue(r, c, state)
        PROVE  ConnectorInv'
    <2>1. c \in C!Credentials /\ c \notin WebhookSecrets /\ cred[c] = "none"
      BY ConnectorAssumption DEF C!Fresh, C!Credentials
    <2> QED
      BY <1>1, <2>1, IssueCredential
  <1>2. ASSUME NEW c \in C!Fresh(WebhookSecrets), C!Issue(r, c, "valid") PROVE ConnectorInv'
    <2>1. c \in C!Credentials /\ cred[c] = "none"
      BY DEF C!Fresh, C!Credentials
    <2> QED
      BY <1>2, <2>1, IssueCredential
  <1> QED
    BY <1>1, <1>2 DEF C!Insert

(* A PATCH gets the row from nobody else, and ends.                        *)
LEMMA PatchRequest == ASSUME ConnectorInv, NEW r \in Administrators, C!Patch(r) PROVE ConnectorInv'
  <1> USE DEF ConnectorInv
  <1>1. /\ admin' = [admin EXCEPT ![r] = C!Idle] /\ admin[r].pc = "patch"
        /\ UNCHANGED <<cred, issued, event>>
        /\ \A e \in Events : event[e] # "entered"
        /\ \A q \in Administrators : admin[q].pc \notin Disabling
    BY DEF C!Patch, C!Finish, C!RowFree, Disabling
  <1>2. /\ admin' \in [Administrators -> Administration] /\ admin'[r] = C!Idle
        /\ \A q \in Administrators \ {r} : admin'[q] = admin[q]
    BY <1>1, PutRequest, IdleRequest
  <1>3. \/ UNCHANGED <<status, version>>
        \/ status' \in {"ACTIVE", "DISABLED"} /\ version' \in 1..MaxVersion
    BY ConnectorAssumption DEF C!Patch, C!TypeOK
  <1>4. C!TypeOK' /\ RowInv'
    BY <1>1, <1>2, <1>3 DEF C!TypeOK, RowInv, Administration
  <1>5. ASSUME NEW q \in Administrators PROVE RequestOK(admin[q])'
    <2>1. CASE q = r
      BY <1>2, <2>1, ConnectorAssumption DEF RequestOK, C!Idle, C!Begun, Issuing, Disabling
    <2>2. CASE q # r
      BY <1>1, <1>2, <2>2 DEF RequestOK, Disabling, Lasting
    <2> QED
      BY <2>1, <2>2
  <1>6. AloneInv'
    <2>1. \A q \in Administrators : admin[q].pc \in Issuing => admin[q].key # None
      BY ConnectorAssumption DEF RequestOK, C!Keys
    <2> QED
      BY <1>2, <2>1, IdleRequest DEF AloneInv, Issuing, Disabling
  <1>7. IssuedInv' /\ C!RotationLeavesASecret'
    BY <1>1 DEF IssuedInv, C!RotationLeavesASecret
  <1> QED
    BY <1>4, <1>5, <1>6, <1>7

(* DELETE ends: the row was its own all the time, so nobody else is        *)
(* disturbed.                                                              *)
LEMMA DisableRequest == ASSUME ConnectorInv, NEW r \in Administrators, C!Disable(r) PROVE ConnectorInv'
  <1> USE DEF ConnectorInv
  <1>1. /\ admin' = [admin EXCEPT ![r] = C!Idle] /\ admin[r].pc = "disable"
        /\ status' = "DISABLED" /\ version' = version + 1
        /\ cred' = [c \in C!Credentials |-> IF c \in admin[r].targets THEN "revoked" ELSE cred[c]]
        /\ UNCHANGED <<issued, event>>
    BY DEF C!Disable, C!Finish
  <1>2. /\ admin' \in [Administrators -> Administration] /\ admin'[r] = C!Idle
        /\ \A q \in Administrators \ {r} : admin'[q] = admin[q]
    BY <1>1, PutRequest, IdleRequest
  <1>3. /\ version \in 0..MaxVersion /\ version < MaxVersion
        /\ \A e \in Events : event[e] # "entered"
        /\ \A q \in Administrators \ {r} : admin[q].pc \notin Disabling
    BY <1>1 DEF RequestOK, C!TypeOK, AloneInv, Disabling
  <1>4. version' \in 1..MaxVersion
    BY <1>1, <1>3, ConnectorAssumption
  <1>5. /\ cred' \in [C!Credentials -> {"none", "valid", "expiring", "lapsed", "revoked"}]
        /\ \A d \in C!Credentials : cred'[d] = cred[d] \/ cred'[d] = "revoked"
    BY <1>1 DEF C!TypeOK
  <1>6. C!TypeOK' /\ RowInv'
    BY <1>1, <1>2, <1>3, <1>4, <1>5 DEF C!TypeOK, RowInv, Administration
  <1>7. ASSUME NEW q \in Administrators PROVE RequestOK(admin[q])'
    <2>1. CASE q = r
      BY <1>2, <2>1, ConnectorAssumption DEF RequestOK, C!Idle, C!Begun, Issuing, Disabling
    <2>2. CASE q # r
      <3>1. admin'[q] = admin[q] /\ admin[q].pc \notin Disabling
        BY <1>2, <1>3, <2>2
      <3> QED
        BY <1>1, <3>1 DEF RequestOK, Disabling
    <2> QED
      BY <2>1, <2>2
  <1>8. AloneInv'
    <2>1. \A q \in Administrators : admin[q].pc \in Issuing => admin[q].key # None
      BY ConnectorAssumption DEF RequestOK, C!Keys
    <2> QED
      BY <1>2, <2>1, IdleRequest DEF AloneInv, Issuing, Disabling
  <1>9. IssuedInv' /\ C!RotationLeavesASecret'
    <2>1. Lasting(WebhookSecrets \ admin[r].targets)
      BY <1>1 DEF RequestOK
    <2>2. \A c \in WebhookSecrets : cred'[c] = IF c \in admin[r].targets THEN "revoked" ELSE cred[c]
      BY <1>1 DEF C!Credentials
    <2>3. C!RotationLeavesASecret'
      <3> SUFFICES ASSUME NEW c \in WebhookSecrets, cred'[c] \in {"expiring", "lapsed"}
                   PROVE  \E d \in WebhookSecrets : cred'[d] = "valid"
        BY DEF C!RotationLeavesASecret
      <3>1. c \in WebhookSecrets \ admin[r].targets /\ cred[c] \in {"expiring", "lapsed"}
        BY <2>2
      <3>2. PICK d \in WebhookSecrets \ admin[r].targets : cred[d] = "valid"
        BY <2>1, <3>1 DEF Lasting
      <3> QED
        BY <2>2, <3>2
    <2> QED
      BY <1>1, <2>3 DEF IssuedInv
  <1> QED
    BY <1>6, <1>7, <1>8, <1>9

(* The connector is created while nobody has anything to do with it, and   *)
(* an event passes by.                                                     *)
LEMMA CreateConnector == ASSUME ConnectorInv, C!Create PROVE ConnectorInv'
  <1> USE DEF ConnectorInv
  <1>1. status = "none" /\ status' = "ACTIVE" /\ version' = 1 /\ UNCHANGED <<cred, issued, admin, event>>
    BY DEF C!Create
  <1>2. C!TypeOK' /\ RowInv'
    BY <1>1, ConnectorAssumption DEF C!TypeOK, RowInv
  <1>3. ASSUME NEW q \in Administrators PROVE RequestOK(admin[q])'
    BY <1>1 DEF RequestOK, Lasting
  <1> QED
    BY <1>1, <1>2, <1>3 DEF AloneInv, IssuedInv, C!RotationLeavesASecret

LEMMA IngestEvent == ASSUME ConnectorInv, NEW e \in Events, C!Ingest(e) PROVE ConnectorInv'
  <1> USE DEF ConnectorInv
  <1>1. UNCHANGED <<status, version, cred, issued, admin>>
    BY DEF C!Ingest, C!Check, C!Enter, C!Store, C!Drop
  <1>2. PICK next \in {"new", "checked", "entered", "stored"} : event' = [event EXCEPT ![e] = next]
    BY DEF C!Ingest, C!Check, C!Enter, C!Store, C!Drop
  <1>3. next = "entered" => status = "ACTIVE" /\ \A q \in Administrators : admin[q].pc \notin Disabling
    BY <1>2, ConnectorAssumption
    DEF C!Ingest, C!Check, C!Enter, C!Store, C!Drop, C!RowFree, C!TypeOK, Disabling
  <1>4. event' \in [Events -> {"new", "checked", "entered", "stored"}]
        /\ \A d \in Events : event'[d] = event[d] \/ event'[d] = next
    BY <1>2 DEF C!TypeOK
  <1>5. C!TypeOK' /\ RowInv'
    BY <1>1, <1>3, <1>4 DEF C!TypeOK, RowInv
  <1>6. ASSUME NEW q \in Administrators PROVE RequestOK(admin[q])'
    BY <1>1, <1>3, <1>4 DEF RequestOK, Lasting
  <1> QED
    BY <1>1, <1>5, <1>6 DEF AloneInv, IssuedInv, C!RotationLeavesASecret

(* A record that is dropped lets its key be used again.                    *)
LEMMA ForgetRecord == ASSUME ConnectorInv, NEW k \in C!Keys, C!Forget(k) PROVE ConnectorInv'
  <1> USE DEF ConnectorInv
  <1>1. issued' = [issued EXCEPT ![k] = {}] /\ UNCHANGED <<status, version, cred, admin, event>>
    BY DEF C!Forget
  <1>2. issued' \in [C!Keys -> SUBSET C!Credentials] /\ \A j \in C!Keys : issued'[j] = issued[j] \/ issued'[j] = {}
    BY <1>1 DEF C!TypeOK
  <1>3. C!TypeOK' /\ IssuedInv'
    BY <1>1, <1>2 DEF C!TypeOK, IssuedInv
  <1>4. ASSUME NEW q \in Administrators PROVE RequestOK(admin[q])'
    BY <1>1, <1>2 DEF RequestOK, Lasting
  <1> QED
    BY <1>1, <1>3, <1>4 DEF AloneInv, RowInv, C!RotationLeavesASecret

LEMMA ConnectorNext == ConnectorInv /\ [C!Next]_(C!vars) => ConnectorInv'
  <1> SUFFICES ASSUME ConnectorInv, [C!Next]_(C!vars) PROVE ConnectorInv'
    OBVIOUS
  <1>1. CASE UNCHANGED C!vars
    <2>1. ASSUME NEW q \in Administrators PROVE RequestOK(admin[q])'
      BY <1>1 DEF C!vars, RequestOK, Lasting, ConnectorInv
    <2> QED
      BY <1>1, <2>1 DEF C!vars, ConnectorInv, C!TypeOK, AloneInv, RowInv, IssuedInv, C!RotationLeavesASecret
  <1>2. CASE \E r \in Administrators : C!Administer(r)
    BY <1>2, BeginIssueRequest, ExpireRequest, InsertRequest, BeginPatchRequest, PatchRequest,
       BeginDisableRequest, SweepRequest, DisableRequest, AbortRequest
    DEF C!Administer
  <1> QED
    BY <1>1, <1>2, CreateConnector, IngestEvent, RevokeOrLapse, ForgetRecord DEF C!Next

(* However often a request to issue a credential is repeated under its     *)
(* key, and however rotations overlap with each other and with DELETE: one *)
(* credential for a key, and never nothing but secrets that run out        *)
(* (CredentialsAreSound).                                                  *)
THEOREM CredentialsSound == C!Spec => []CredentialsAreSound
  <1>1. ConnectorInv => CredentialsAreSound
    BY DEF ConnectorInv, IssuedInv, CredentialsAreSound, C!OneCredentialPerKey
  <1> QED
    BY ConnectorInit, ConnectorNext, <1>1, PTL DEF C!Spec

(* DELETE cuts off all that could authenticate when it was asked for, and  *)
(* nothing is stored for a connector that is not active (DisabledIsCutOff):*)
(* whoever disables and whoever stores an event have the connector's row   *)
(* to themselves.  It says nothing of what is issued from then on, nor of  *)
(* a PATCH that disables: DisabledHasNoCredential, which would, is false.  *)
THEOREM DisabledCutOff == C!Spec => DisabledIsCutOff
  <1> DEFINE Revokes ==
               \A r \in Administrators :
                  admin[r].pc = "disable" /\ status' = "DISABLED" /\ version' # version
                      => \A c \in admin[r].owed : cred'[c] \in {"revoked", "lapsed"}
             Stores ==
               \A e \in Events : event'[e] = "stored" /\ event[e] # "stored" => status = "ACTIVE"
  <1>1. ConnectorInv /\ [C!Next]_(C!vars) => [Revokes]_(C!vars)
    <2> SUFFICES ASSUME ConnectorInv, C!Next, NEW r \in Administrators,
                        admin[r].pc = "disable", version' # version, NEW c \in admin[r].owed
                 PROVE  cred'[c] \in {"revoked", "lapsed"}
      OBVIOUS
    <2>1. /\ RequestOK(admin[r]) /\ admin[r].owed \subseteq C!Credentials
          /\ \A q \in Administrators \ {r} : admin[q].pc \notin Disabling
      BY DEF ConnectorInv, C!TypeOK, AloneInv, Disabling
    <2>2. C!Disable(r)
      <3>1. \A q \in Administrators : ~C!Patch(q)
        BY DEF C!Patch, C!RowFree
      <3>2. ~C!Create
        BY <2>1 DEF C!Create, RequestOK, Disabling
      <3>3. PICK q \in Administrators : C!Disable(q)
        BY <3>1, <3>2
        DEF C!Next, C!Administer, C!BeginIssue, C!Expire, C!Insert, C!Issue, C!BeginPatch, C!BeginDisable,
            C!SweepKeys, C!SweepSecrets, C!Abort, C!Ingest, C!Check, C!Enter, C!Store, C!Drop, C!Revoke, C!Lapse,
            C!Forget
      <3> QED
        BY <2>1, <3>3 DEF C!Disable, Disabling
    <2> QED
      BY <2>1, <2>2 DEF C!Disable, RequestOK
  <1>2. ConnectorInv /\ [C!Next]_(C!vars) => [Stores]_(C!vars)
    <2> SUFFICES ASSUME ConnectorInv, C!Next, NEW e \in Events, event'[e] = "stored", event[e] # "stored"
                 PROVE  status = "ACTIVE"
      OBVIOUS
    <2>1. C!Store(e)
      <3>1. PICK d \in Events : C!Ingest(d)
        BY DEF C!Next, C!Create, C!Administer, C!BeginIssue, C!Expire, C!Insert, C!Issue, C!BeginPatch, C!Patch,
               C!BeginDisable, C!SweepKeys, C!SweepSecrets, C!Disable, C!Abort, C!Revoke, C!Lapse, C!Forget
      <3> QED
        BY <3>1 DEF C!Ingest, C!Check, C!Enter, C!Store, C!Drop, ConnectorInv, C!TypeOK
    <2> QED
      BY <2>1 DEF C!Store, ConnectorInv, RowInv
  <1> QED
    BY ConnectorInit, ConnectorNext, <1>1, <1>2, PTL
    DEF C!Spec, DisabledIsCutOff, C!DisableRevokesAll, C!StoredWhileActive

----------------------------------------------------------------------------(* Every behaviour of the scenes is one of each component, which the       *)
(* others leave alone: what is proved of a component holds in the scenes.  *)
LEMMA Scenes == SceneSpec => G!Spec /\ C!Spec /\ E!Spec /\ I!Spec
  <1>1. SceneInit => G!Init /\ C!Init /\ E!Init /\ I!Init
    BY DEF SceneInit
  <1>2. [SceneNext]_<<identityVars, ingestionVars, connectorVars, evidenceVars, catalogVars>>
           => [G!Next]_(G!vars) /\ [C!Next]_(C!vars) /\ [E!Next]_(E!vars) /\ [I!Next]_(I!vars)
    BY DEF SceneNext, ingestionVars, connectorVars, evidenceVars, catalogVars,
           G!vars, G!apiVars, G!workerVars, C!vars, E!vars, I!vars
  <1> QED
    BY <1>1, <1>2, PTL DEF SceneSpec, G!Spec, C!Spec, E!Spec, I!Spec

(* Rows, requests and objects keep their types in every scene (ApiTypesOK).*)
THEOREM TypesCorrect == SceneSpec => []ApiTypesOK
  <1>1. C!Spec => []ConnectorInv
    BY ConnectorInit, ConnectorNext, PTL DEF C!Spec
  <1>2. E!Spec => []EvidenceInv
    BY EvidenceInit, EvidenceNext, PTL DEF E!Spec
  <1>3. I!Spec => []CatalogInv
    BY CatalogInit, CatalogNext, PTL DEF I!Spec
  <1>4. G!TypeOK /\ ConnectorInv /\ EvidenceInv /\ CatalogInv => ApiTypesOK
    BY DEF ConnectorInv, EvidenceInv, CatalogInv, ApiTypesOK
  <1> QED
    BY <1>1, <1>2, <1>3, <1>4, Scenes, TypeCorrect, PTL
=============================================================================
