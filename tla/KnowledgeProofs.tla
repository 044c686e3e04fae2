-------------------------- MODULE KnowledgeProofs --------------------------
(***************************************************************************)
(* Proofs about Knowledge, for any number of versions, requests, attempts  *)
(* and stalls, and about Recommendation, through its instance in           *)
(* MCKnowledge.  For Knowledge the argument is the document row's lock:    *)
(* exactly the attempt that writes holds it, so what its second check saw  *)
(* is still true when it commits, and INDEXED is only ever written next to *)
(* the chunks of the current version.                                      *)
(***************************************************************************)
EXTENDS MCKnowledge, FiniteSetTheorems, TLAPS

(* The lock is held exactly by the attempt inside the second transaction.  *)
LockInv == \A v \in Versions : pc[v] \in Writing <=> lock = v

(* The variables the argument is about.                                    *)
DocTypeOK ==
    /\ status \in DocStatuses
    /\ current \in Versions
    /\ chunks \in [Versions -> {"none", "text", "scrubbed"}]
    /\ lock \in Versions \cup {Unlocked}
    /\ pc \in [Versions -> Phases]

(* There is room for the version being uploaded: the bound of the model.   *)
RoomInv == upload = "put" => current < MaxVersion

(* An attempt is running only while the queue has the job active.          *)
ActiveInv ==
    /\ jobState \in [Versions -> JobStates]
    /\ \A v \in Versions : pc[v] # "idle" => jobState[v] = "active"

IInv == ActiveInv /\ DocTypeOK /\ RoomInv /\ LockInv /\ WriterIsCurrent /\ IndexedHasText

USE KnowledgeAssumption DEF Unlocked, Nothing

LEMMA VersionsPositive == 1 \in Versions /\ \A v \in Versions : v # 0
  BY DEF Versions

LEMMA KInit == Init => IInv
  BY VersionsPositive
  DEF Init, QueueInit, JobStates, IInv, ActiveInv, DocTypeOK, RoomInv, LockInv, WriterIsCurrent, IndexedHasText, DocStatuses,
      Phases, Writing

(* Every step of the index job of v keeps the invariant.                   *)
LEMMA JobStep ==
    ASSUME IInv, NEW v \in Versions, IndexJob(v)
    PROVE  IInv'
  <1> USE VersionsPositive
      DEF IInv, ActiveInv, DocTypeOK, RoomInv, LockInv, WriterIsCurrent, IndexedHasText, DocStatuses, Phases,
          Writing, docVars, apiVars, Goto, Superseded
  <1>1. CASE Deliver(v) \/ Settle(v)
    BY <1>1 DEF Deliver, Settle, Enqueue, Complete, Forget, JobStates, Queued, Forgettable
  <1>2. CASE Take(v)
    <2>1. pc[v] = "idle"
      BY <1>2 DEF Take, Start
    <2> QED
      BY <1>2, <2>1 DEF Take, Start, JobStates, Queued
  <1>3. CASE Begin(v) \/ BeginFails(v)
    BY <1>3 DEF Begin, BeginFails, Return, Raise, Commit, Throw, EndFailed, JobStates, Queued,
                Forgettable, queueVars
  <1>4. CASE Embed(v) \/ EmbedFails(v)
    BY <1>4 DEF Embed, EmbedFails, queueVars
  <1>5. CASE Lock(v)
    BY <1>5 DEF Lock, Return, Commit, JobStates, Queued, queueVars
  <1>6. CASE Replace(v) \/ WriteFails(v)
    BY <1>6 DEF Replace, WriteFails, queueVars
  <1>7. CASE CommitIndex(v)
    BY <1>7 DEF CommitIndex, Return, Commit, JobStates, Queued, queueVars
  <1>8. CASE Fail(v)
    BY <1>8 DEF Fail, Raise, Throw, EndFailed, JobStates, Queued, Forgettable
  <1>9. CASE Die(v)
    BY <1>9 DEF Die, Stall, EndFailed, JobStates, Queued, Forgettable
  <1> QED
    BY <1>1, <1>2, <1>3, <1>4, <1>5, <1>6, <1>7, <1>8, <1>9 DEF IndexJob, Proceed

LEMMA KNext == IInv /\ [Next]_vars => IInv'
  <1> SUFFICES ASSUME IInv, [Next]_vars
               PROVE  IInv'
    OBVIOUS
  <1> USE VersionsPositive
      DEF IInv, ActiveInv, DocTypeOK, RoomInv, LockInv, WriterIsCurrent, IndexedHasText, DocStatuses, Phases,
          Writing, docVars, apiVars, queueVars, Superseded
  <1>1. ASSUME NEW v \in Versions, IndexJob(v)
        PROVE  IInv'
    BY <1>1, JobStep
  <1>2. CASE PutObject \/ InsertFails \/ RemoveObject
    BY <1>2 DEF PutObject, InsertFails, RemoveObject
  <1>3. CASE InsertVersion
    BY <1>3 DEF Versions, InsertVersion
  <1>4. CASE ReadForDelete \/ Scrub \/ DeleteFails \/ Purge
    BY <1>4 DEF ReadForDelete, Scrub, DeleteFails, Purge
  <1>5. CASE MarkDeleted
    BY <1>5 DEF MarkDeleted
  <1>6. ASSUME NEW r \in Recommenders, Retrieve(r) \/ Cite(r) \/ CiteNothing(r)
        PROVE  IInv'
    BY <1>6 DEF Retrieve, Cite, CiteNothing
  <1>7. CASE UNCHANGED vars
    BY <1>7 DEF vars
  <1> QED
    BY <1>1, <1>2, <1>3, <1>4, <1>5, <1>6, <1>7 DEF Next, Delete

LEMMA KSpecIInv == Spec => []IInv
  BY KInit, KNext, PTL DEF Spec

(* A job that can still run has an attempt left.                           *)
AttemptsLeft == \A v \in Versions : jobState[v] \in Queued => attempts[v] < MaxAttempts

QueueInv == QueueTypeOK /\ AttemptsLeft

(* The variables that IInv leaves out.                                     *)
RestOK ==
    /\ cited \subseteq Versions /\ objects \subseteq Versions
    /\ upload \in {"none", "put", "lost"}
    /\ deleter \in {"idle", "read", "scrubbed", "purging"}
    /\ keys \subseteq Versions /\ scrubbed \subseteq Versions
    /\ source \in [Recommenders -> Versions \cup {Nothing}]

LEMMA QueueKept == ASSUME QueueInv, UNCHANGED queueVars PROVE QueueInv'
  BY DEF QueueInv, QueueTypeOK, AttemptsLeft, queueVars

LEMMA QueueOperations ==
    ASSUME QueueInv, NEW v \in Versions,
           \/ Enqueue(v) \/ Start(v) \/ Commit(v) \/ Complete(v)
           \/ Throw(v) \/ Stall(v) \/ Forget(v)
    PROVE  QueueInv'
  <1> USE QueueAssumption DEF QueueInv, QueueTypeOK, AttemptsLeft, JobStates, Queued, Forgettable
  <1>1. CASE Enqueue(v)
    BY <1>1 DEF Enqueue
  <1>2. CASE Start(v) \/ Commit(v) \/ Complete(v) \/ Forget(v)
    BY <1>2 DEF Start, Commit, Complete, Forget
  <1>3. CASE Throw(v)
    BY <1>3 DEF Throw, EndFailed
  <1>4. CASE Stall(v)
    BY <1>4 DEF Stall, EndFailed
  <1> QED
    BY <1>1, <1>2, <1>3, <1>4

LEMMA JobQueueStep == ASSUME QueueInv, NEW v \in Versions, IndexJob(v) PROVE QueueInv'
  <1>1. CASE Deliver(v) \/ Take(v) \/ Die(v) \/ Settle(v)
    BY <1>1, QueueOperations DEF Deliver, Take, Die, Settle
  <1>2. CASE Begin(v) \/ BeginFails(v) \/ Lock(v) \/ CommitIndex(v) \/ Fail(v)
    BY <1>2, QueueOperations, QueueKept DEF Begin, BeginFails, Lock, CommitIndex, Fail, Return, Raise
  <1>3. CASE Embed(v) \/ EmbedFails(v) \/ Replace(v) \/ WriteFails(v)
    BY <1>3, QueueKept DEF Embed, EmbedFails, Replace, WriteFails
  <1> QED
    BY <1>1, <1>2, <1>3 DEF IndexJob, Proceed

LEMMA RestStep == ASSUME IInv, RestOK, [Next]_vars PROVE RestOK'
  <1> USE VersionsPositive DEF RestOK
  <1>1. ASSUME NEW v \in Versions, IndexJob(v) PROVE RestOK'
    <2>1. CASE CommitIndex(v)
      BY <2>1 DEF CommitIndex, Forgotten
    <2>2. CASE ~CommitIndex(v)
      BY <1>1, <2>2
      DEF IndexJob, Proceed, Deliver, Settle, Take, Begin, BeginFails, Embed, EmbedFails, Lock, Replace, WriteFails,
          Fail, Die, docVars, apiVars
    <2> QED
      BY <2>1, <2>2
  <1>2. CASE PutObject \/ InsertVersion \/ InsertFails \/ RemoveObject
    <2>0. current < MaxVersion => current + 1 \in Versions
      BY DEF IInv, DocTypeOK, Versions
    <2>1. objects' \subseteq Versions
      BY <1>2, <2>0 DEF PutObject, InsertVersion, InsertFails, RemoveObject
    <2> QED
      BY <1>2, <2>1 DEF PutObject, InsertVersion, InsertFails, RemoveObject
  <1>3. CASE Delete
    <2>0. Created \subseteq Versions
      BY DEF IInv, DocTypeOK, Versions, Created
    <2>1. keys' \subseteq Versions /\ scrubbed' \subseteq Versions
      BY <1>3, <2>0 DEF Delete, ReadForDelete, Scrub, MarkDeleted, DeleteFails, Purge
    <2> QED
      BY <1>3, <2>1 DEF Delete, ReadForDelete, Scrub, MarkDeleted, DeleteFails, Purge, docVars
  <1>4. ASSUME NEW r \in Recommenders, Retrieve(r) \/ Cite(r) \/ CiteNothing(r) PROVE RestOK'
    BY <1>4 DEF Retrieve, Cite, CiteNothing, docVars, IInv, DocTypeOK
  <1>5. CASE UNCHANGED vars
    BY <1>5 DEF vars, docVars, apiVars
  <1> QED
    BY <1>1, <1>2, <1>3, <1>4, <1>5 DEF Next

(* The document, its versions, their jobs and the requests keep their      *)
(* types.                                                                  *)
THEOREM TypeCorrect == Spec => []TypeOK
  <1>1. Init => QueueInv /\ RestOK
    <2>1. QueueInit => QueueInv
      BY QueueAssumption DEF QueueInit, QueueInv, QueueTypeOK, AttemptsLeft, JobStates, Queued
    <2> QED
      BY <2>1, VersionsPositive DEF Init, RestOK
  <1>2. QueueInv /\ [Next]_vars => QueueInv'
    <2> SUFFICES ASSUME QueueInv, [Next]_vars PROVE QueueInv'
      OBVIOUS
    <2>1. ASSUME NEW v \in Versions, IndexJob(v) PROVE QueueInv'
      BY <2>1, JobQueueStep
    <2>2. CASE ~\E v \in Versions : IndexJob(v)
      <3>1. UNCHANGED queueVars
        BY <2>2
        DEF Next, PutObject, InsertVersion, InsertFails, RemoveObject, Delete, ReadForDelete, Scrub, MarkDeleted,
            DeleteFails, Purge, Retrieve, Cite, CiteNothing, vars
      <3> QED
        BY <3>1, QueueKept
    <2> QED
      BY <2>1, <2>2
  <1>3. IInv /\ QueueInv /\ RestOK => TypeOK
    BY DEF IInv, DocTypeOK, QueueInv, RestOK, TypeOK
  <1>4. IInv /\ RestOK /\ [Next]_vars => RestOK'
    BY RestStep
  <1> QED
    BY <1>1, <1>2, <1>3, <1>4, KSpecIInv, PTL DEF Spec

(* Whatever the API commits while an attempt writes its chunks, the        *)
(* attempt still writes those of the current version of a live document.   *)
THEOREM WriterCurrent == Spec => []WriterIsCurrent
  <1>1. IInv => WriterIsCurrent
    BY DEF IInv
  <1> QED
    BY <1>1, KSpecIInv, PTL

(* An indexed document always has the readable chunks of its current       *)
(* version: replays, lost replies and old versions included.               *)
THEOREM IndexedComplete == Spec => []IndexedHasText
  <1>1. IInv => IndexedHasText
    BY DEF IInv
  <1> QED
    BY <1>1, KSpecIInv, PTL

LEMMA DeletedStep ==
    ASSUME IInv, [Next]_vars, status = "DELETED"
    PROVE  status' = "DELETED"
  <1> USE DEF docVars, apiVars, Superseded, IInv
  <1>1. ASSUME NEW v \in Versions, IndexJob(v)
        PROVE  status' = "DELETED"
    <2>1. pc[v] # "replaced"
      BY DEF WriterIsCurrent, Writing
    <2> QED
      BY <1>1, <2>1
      DEF IndexJob, Proceed, Deliver, Settle, Take, Begin, BeginFails, Embed, EmbedFails,
          Lock, Replace, WriteFails, CommitIndex, Fail, Die
  <1>2. CASE PutObject \/ InsertFails \/ InsertVersion \/ RemoveObject \/ Delete
    BY <1>2
    DEF PutObject, InsertFails, InsertVersion, RemoveObject, Delete, ReadForDelete, Scrub, MarkDeleted,
        DeleteFails, Purge
  <1>3. ASSUME NEW r \in Recommenders, Retrieve(r) \/ Cite(r) \/ CiteNothing(r)
        PROVE  status' = "DELETED"
    BY <1>3 DEF Retrieve, Cite, CiteNothing
  <1>4. CASE UNCHANGED vars
    BY <1>4 DEF vars
  <1> QED
    BY <1>1, <1>2, <1>3, <1>4 DEF Next

(* No step of a job, a version or a recommendation revives a deleted       *)
(* document.                                                               *)
THEOREM DeletedStays == Spec => DeletedIsFinal
  <1>1. IInv /\ [Next]_vars => [status = "DELETED" => status' = "DELETED"]_vars
    BY DeletedStep
  <1> QED
    BY <1>1, KSpecIInv, PTL DEF Spec, DeletedIsFinal

----------------------------------------------------------------------------
(* Recommendations, for any requests, chunks and inventions of the         *)
(* language model, and any number of slots.                                *)
HIDE KnowledgeAssumption DEF Unlocked, Nothing

AdviceSteps == {"new", "retrieve", "generate", "save", "fallback", "abstain", "done"}

(* All of R!TypeOK but the slots.                                          *)
DataTypeOK ==
    /\ request \in [Askers -> AdviceSteps]
    /\ retrieved \in [Askers -> SUBSET Chunks]
    /\ draft \in [Askers -> R!Results]
    /\ rows \in SUBSET Chunks
    /\ saved \in [Askers -> SUBSET R!Results]

(* A result that may be saved by a request which retrieved these chunks.   *)
Sound(result, found) ==
    IF result.status = "GENERATED"
    THEN result.sources # {} /\ result.sources \subseteq found
    ELSE result = R!Silent(result.status)

(* What a request is about to save.                                        *)
DraftInv == \A r \in Askers : Sound(draft[r], retrieved[r])

(* Nothing is drafted or saved before something is retrieved.              *)
FreshInv ==
    \A r \in Askers :
        request[r] \in {"new", "retrieve"} => saved[r] = {} /\ draft[r] = R!Silent("ABSTAINED")

GInv == DataTypeOK /\ DraftInv /\ FreshInv /\ GroundedOrSilent

LEMMA SilentIsSound ==
    \A outcome \in {"ABSTAINED", "INVALID_OUTPUT", "PROVIDER_UNAVAILABLE"} :
        /\ R!Silent(outcome) \in R!Results
        /\ \A found : Sound(R!Silent(outcome), found)
  BY DEF R!Silent, R!Result, R!Results, Sound

LEMMA CitedIsSound ==
    ASSUME NEW found \in SUBSET Chunks, NEW cites \in SUBSET found, cites # {}
    PROVE  /\ R!Result("GENERATED", cites \cap Chunks, TRUE) \in R!Results
           /\ Sound(R!Result("GENERATED", cites \cap Chunks, TRUE), found)
  BY DEF R!Result, R!Results, Sound

LEMMA GInit == R!Init => GInv
  BY SilentIsSound DEF R!Init, GInv, DataTypeOK, AdviceSteps, DraftInv, FreshInv, GroundedOrSilent, R!GroundedOrSilent

(* A request goes on with a sound draft, having saved the old one or not.  *)
LEMMA Advance ==
    ASSUME GInv, NEW r \in Askers, NEW next \in AdviceSteps \ {"new", "retrieve"}, NEW new \in R!Results,
           Sound(new, retrieved[r]),
           request' = [request EXCEPT ![r] = next], draft' = [draft EXCEPT ![r] = new],
           UNCHANGED saved \/ R!Store(r),
           UNCHANGED <<retrieved, rows>>
    PROVE  GInv'
  <1> USE DEF GInv, DataTypeOK, DraftInv, FreshInv, GroundedOrSilent, R!GroundedOrSilent
  <1>1. saved' \in [Askers -> SUBSET R!Results]
    BY DEF R!Store
  <1>2. DataTypeOK'
    BY <1>1
  <1>3. DraftInv'
    OBVIOUS
  <1>4. \A q \in Askers : q # r => saved'[q] = saved[q]
    BY DEF R!Store
  <1>5. FreshInv'
    BY <1>4
  <1>6. \A result \in saved'[r] : result \in saved[r] \/ (result = draft[r] /\ draft[r].sources \subseteq rows)
    BY DEF R!Store
  <1>7. GroundedOrSilent'
    BY <1>4, <1>6 DEF Sound
  <1> QED
    BY <1>2, <1>3, <1>5, <1>7

LEMMA EnterData == ASSUME GInv, NEW r \in Askers, R!Enter(r) PROVE GInv'
  <1>1. request' \in [Askers -> AdviceSteps] /\ \A q \in Askers : request'[q] \in {"new", "retrieve"} => request[q] \in {"new", "retrieve"}
    BY DEF R!Enter, R!Goto, GInv, DataTypeOK, AdviceSteps
  <1> QED
    BY <1>1 DEF R!Enter, GInv, DataTypeOK, DraftInv, FreshInv, GroundedOrSilent, R!GroundedOrSilent

(* What is retrieved is only looked up while nothing refers to it.         *)
LEMMA RetrieveData == ASSUME GInv, NEW r \in Askers, R!Retrieve(r) PROVE GInv'
  <1> USE DEF GInv, DataTypeOK
  <1>1. PICK found \in SUBSET rows, next \in {"abstain", "generate"} :
           retrieved' = [retrieved EXCEPT ![r] = found] /\ request' = [request EXCEPT ![r] = next]
    BY DEF R!Retrieve, R!Goto
  <1>2. saved[r] = {} /\ draft[r] = R!Silent("ABSTAINED") /\ UNCHANGED <<draft, rows, saved>>
    BY DEF R!Retrieve, FreshInv
  <1>3. DataTypeOK'
    BY <1>1, <1>2 DEF AdviceSteps
  <1>4. DraftInv'
    BY <1>1, <1>2, SilentIsSound DEF DraftInv
  <1>5. FreshInv' /\ GroundedOrSilent'
    BY <1>1, <1>2 DEF FreshInv, GroundedOrSilent, R!GroundedOrSilent
  <1> QED
    BY <1>3, <1>4, <1>5

(* Whatever the model answers, the draft is sound.                         *)
LEMMA GenerateData == ASSUME GInv, NEW r \in Askers, R!Generate(r) PROVE GInv'
  <1>1. PICK cites \in SUBSET (Chunks \cup Invented), abstains \in BOOLEAN, safe \in BOOLEAN :
           IF R!Valid(cites, abstains, safe, r)
           THEN /\ draft' = [draft EXCEPT ![r] =
                       IF abstains THEN R!Silent("ABSTAINED") ELSE R!Result("GENERATED", cites \cap Chunks, TRUE)]
                /\ R!Goto(r, "save")
           ELSE /\ draft' = [draft EXCEPT ![r] = R!Silent("INVALID_OUTPUT")]
                /\ R!Goto(r, "fallback")
    BY DEF R!Generate
  <1>2. UNCHANGED <<retrieved, rows, saved>>
    BY DEF R!Generate
  <1>3. CASE ~R!Valid(cites, abstains, safe, r)
    BY <1>1, <1>2, <1>3, SilentIsSound, Advance DEF R!Goto, AdviceSteps
  <1>4. CASE R!Valid(cites, abstains, safe, r) /\ abstains
    BY <1>1, <1>2, <1>4, SilentIsSound, Advance DEF R!Goto, AdviceSteps
  <1>5. CASE R!Valid(cites, abstains, safe, r) /\ ~abstains
    <2> DEFINE new == R!Result("GENERATED", cites \cap Chunks, TRUE)
    <2>1. cites \in SUBSET retrieved[r] /\ cites # {} /\ retrieved[r] \in SUBSET Chunks
      BY <1>5 DEF R!Valid, GInv, DataTypeOK
    <2>2. new \in R!Results /\ Sound(new, retrieved[r])
      BY <2>1, CitedIsSound
    <2>3. draft' = [draft EXCEPT ![r] = new] /\ request' = [request EXCEPT ![r] = "save"]
      BY <1>1, <1>5 DEF R!Goto
    <2> HIDE DEF new
    <2> QED
      BY <1>2, <2>2, <2>3, Advance DEF AdviceSteps
  <1> QED
    BY <1>3, <1>4, <1>5

LEMMA UnavailableData == ASSUME GInv, NEW r \in Askers, R!Unavailable(r) PROVE GInv'
  BY SilentIsSound, Advance DEF R!Unavailable, R!Goto, AdviceSteps

(* The draft is saved, or not, and the request is over.                    *)
LEMMA EndData == ASSUME GInv, NEW r \in Askers, R!Save(r) \/ R!Fail(r) PROVE GInv'
  <1>1. draft[r] \in R!Results /\ Sound(draft[r], retrieved[r]) /\ draft = [draft EXCEPT ![r] = draft[r]]
    BY DEF GInv, DataTypeOK, DraftInv
  <1>2. request' = [request EXCEPT ![r] = "done"] /\ UNCHANGED <<retrieved, draft, rows>>
    BY DEF R!Save, R!Fail, R!Leave, R!Goto
  <1>3. UNCHANGED saved \/ R!Store(r)
    BY DEF R!Save, R!Fail, R!Error
  <1> QED
    BY <1>1, <1>2, <1>3, Advance DEF AdviceSteps

(* Only chunks that no saved recommendation cites are replaced.            *)
LEMMA ReplaceData == ASSUME GInv, NEW c \in Chunks, R!Replace(c) PROVE GInv'
  <1> USE DEF GInv, DataTypeOK, DraftInv, FreshInv, GroundedOrSilent, R!GroundedOrSilent
  <1>1. DataTypeOK' /\ DraftInv' /\ FreshInv'
    BY DEF R!Replace
  <1>2. GroundedOrSilent'
    BY DEF R!Replace
  <1> QED
    BY <1>1, <1>2

LEMMA GNext == GInv /\ [R!Next]_(R!vars) => GInv'
  <1> SUFFICES ASSUME GInv, [R!Next]_(R!vars) PROVE GInv'
    OBVIOUS
  <1>1. CASE UNCHANGED R!vars
    BY <1>1 DEF R!vars, GInv, DataTypeOK, DraftInv, FreshInv, GroundedOrSilent, R!GroundedOrSilent
  <1>2. CASE R!Next
    BY <1>2, EnterData, RetrieveData, GenerateData, UnavailableData, EndData, ReplaceData DEF R!Next
  <1> QED
    BY <1>1, <1>2

(* A recommendation that is GENERATED has sources, retrieved for it and    *)
(* still there; any other proposes nothing (GroundedOrSilent).  The        *)
(* validation makes the draft sound, the foreign key keeps its sources.    *)
THEOREM Grounded == R!Spec => []GroundedOrSilent
  <1>1. GInv => GroundedOrSilent
    BY DEF GInv
  <1> QED
    BY GInit, GNext, <1>1, PTL DEF R!Spec

----------------------------------------------------------------------------
(* SlotsAreHeld, with the types it needs.                                  *)
SlotInv ==
    /\ request \in [Askers -> AdviceSteps]
    /\ active \in Nat
    /\ active = Cardinality(R!InFlight)
    /\ active <= Capacity

(* The instance counts as the library does.                                *)
LEMMA SameCount == \A S : R!Cardinality(S) = Cardinality(S)
  BY DEF Cardinality, R!Cardinality

LEMMA InFlightFinite == IsFiniteSet(Askers) => IsFiniteSet(R!InFlight)
  BY FS_Subset DEF R!InFlight

LEMMA SInit == Capacity \in Nat /\ R!Init => SlotInv
  <1> SUFFICES ASSUME Capacity \in Nat, R!Init PROVE SlotInv
    OBVIOUS
  <1>1. R!InFlight = {}
    BY DEF R!Init, R!InFlight
  <1> QED
    BY <1>1, FS_EmptySet DEF R!Init, SlotInv, AdviceSteps

(* A request that takes its next step keeps its slot.                      *)
LEMMA Keeps ==
    ASSUME SlotInv, NEW r \in Askers, request[r] \notin {"new", "done"},
           NEW next \in AdviceSteps \ {"new", "done"},
           request' = [request EXCEPT ![r] = next], UNCHANGED active
    PROVE  SlotInv'
  <1>1. R!InFlight' = R!InFlight
    BY DEF R!InFlight, SlotInv
  <1> QED
    BY <1>1 DEF SlotInv

(* A request that ends gives its slot back.                                *)
LEMMA Releases ==
    ASSUME IsFiniteSet(Askers), Capacity \in Nat, SlotInv, NEW r \in Askers,
           request[r] \notin {"new", "done"}, R!Leave(r)
    PROVE  SlotInv'
  <1>1. r \in R!InFlight /\ R!InFlight' = R!InFlight \ {r} /\ request' \in [Askers -> AdviceSteps]
    BY DEF R!InFlight, SlotInv, R!Leave, R!Goto, AdviceSteps
  <1>2. Cardinality(R!InFlight') = Cardinality(R!InFlight) - 1 /\ Cardinality(R!InFlight) \in Nat \ {0}
    BY <1>1, InFlightFinite, FS_RemoveElement, FS_CardinalityType, FS_EmptySet
  <1> QED
    BY <1>1, <1>2 DEF R!Leave, SlotInv

(* A request that is admitted takes a slot that was free.                  *)
LEMMA Takes ==
    ASSUME IsFiniteSet(Askers), Capacity \in Nat, SlotInv, NEW r \in Askers, R!Enter(r)
    PROVE  SlotInv'
  <1>1. CASE active >= Capacity
    <2>1. R!InFlight' = R!InFlight /\ request' \in [Askers -> AdviceSteps] /\ UNCHANGED active
      BY <1>1 DEF R!InFlight, SlotInv, R!Enter, R!Goto, AdviceSteps
    <2> QED
      BY <2>1 DEF SlotInv
  <1>2. CASE ~(active >= Capacity)
    <2>1. /\ r \notin R!InFlight /\ R!InFlight' = R!InFlight \cup {r}
          /\ request' \in [Askers -> AdviceSteps] /\ active' = active + 1
      BY <1>2 DEF R!InFlight, SlotInv, R!Enter, R!Goto, AdviceSteps
    <2>2. Cardinality(R!InFlight') = Cardinality(R!InFlight) + 1
      BY <2>1, InFlightFinite, FS_AddElement
    <2> QED
      BY <1>2, <2>1, <2>2 DEF SlotInv
  <1> QED
    BY <1>1, <1>2

LEMMA SNext == IsFiniteSet(Askers) /\ Capacity \in Nat /\ SlotInv /\ [R!Next]_(R!vars) => SlotInv'
  <1> SUFFICES ASSUME IsFiniteSet(Askers), Capacity \in Nat, SlotInv, [R!Next]_(R!vars) PROVE SlotInv'
    OBVIOUS
  <1>1. CASE UNCHANGED R!vars \/ \E c \in Chunks : R!Replace(c)
    BY <1>1 DEF R!vars, R!Replace, SlotInv, R!InFlight
  <1>2. ASSUME NEW r \in Askers, R!Enter(r) PROVE SlotInv'
    BY <1>2, Takes
  <1>3. ASSUME NEW r \in Askers, R!Retrieve(r) \/ R!Generate(r) \/ R!Unavailable(r) PROVE SlotInv'
    <2>1. /\ request[r] \notin {"new", "done"} /\ UNCHANGED active
          /\ \E next \in {"abstain", "generate", "save", "fallback"} : request' = [request EXCEPT ![r] = next]
      BY <1>3 DEF R!Retrieve, R!Generate, R!Unavailable, R!Goto
    <2> QED
      BY <2>1, Keeps DEF AdviceSteps
  <1>4. ASSUME NEW r \in Askers, R!Save(r) \/ R!Fail(r) PROVE SlotInv'
    BY <1>4, Releases DEF R!Save, R!Fail, R!Error
  <1> QED
    BY <1>1, <1>2, <1>3, <1>4 DEF R!Next

LEMMA SlotInvariant == ASSUME IsFiniteSet(Askers), Capacity \in Nat PROVE R!Spec => []SlotInv
  <1>1. R!Init => SlotInv
    BY SInit
  <1>2. SlotInv /\ [R!Next]_(R!vars) => SlotInv'
    BY SNext
  <1> QED
    BY <1>1, <1>2, PTL DEF R!Spec

(* However requests end, the slots taken are those of the requests in      *)
(* flight, and never more than the limit (SlotsAreHeld).                   *)
THEOREM SlotsHeld == ASSUME IsFiniteSet(Askers), Capacity \in Nat PROVE R!Spec => []SlotsAreHeld
  <1>1. SlotInv => SlotsAreHeld
    BY SameCount DEF SlotInv, SlotsAreHeld, R!SlotsAreHeld
  <1> QED
    BY <1>1, SlotInvariant, PTL

----------------------------------------------------------------------------
(* Every behaviour of the scenes is one of each component, which the other *)
(* leaves alone: what is proved of a component holds in the scenes.        *)
LEMMA Scenes == SceneSpec => Spec /\ R!Spec
  <1>1. SceneInit => Init /\ R!Init
    BY DEF SceneInit
  <1>2. [SceneNext]_<<scene, documentVars, adviceVars>> => [Next]_vars /\ [R!Next]_(R!vars)
    BY DEF SceneNext, documentVars, adviceVars, vars, R!vars
  <1> QED
    BY <1>1, <1>2, PTL DEF SceneSpec, Spec, R!Spec

(* Documents, jobs and recommendations keep their types in both scenes.    *)
THEOREM ScenesTyped == ASSUME IsFiniteSet(Askers), Capacity \in Nat PROVE SceneSpec => [](TypeOK /\ R!TypeOK)
  <1>1. R!Spec => []GInv
    BY GInit, GNext, PTL DEF R!Spec
  <1>2. GInv /\ SlotInv => R!TypeOK
    BY DEF GInv, DataTypeOK, SlotInv, R!TypeOK, AdviceSteps
  <1> QED
    BY <1>1, <1>2, Scenes, SlotInvariant, TypeCorrect, PTL
=============================================================================
