--------------------------- MODULE Recommendation ---------------------------
(***************************************************************************)
(* Recommendations asked for at one API process: retrieval, the language   *)
(* model and the row that is saved (knowledge.use-cases.ts,                *)
(* rag-policy.ts, prisma-knowledge.repository.ts).                         *)
(*                                                                         *)
(* The model may answer anything.  Similarities are abstracted to whether  *)
(* what was retrieved is enough; texts to what they cite, whether they     *)
(* propose actions and whether the output guard lets them pass.  Rows of   *)
(* chunks disappear when their document is indexed again, unless a saved   *)
(* recommendation refers to them (ON DELETE RESTRICT).                     *)
(***************************************************************************)
EXTENDS Naturals, FiniteSets

CONSTANTS
    Requests,
    Chunks,        \* rows of knowledge_chunks
    Invented,      \* citations of what was never retrieved
    Limit          \* simultaneous requests of a process

VARIABLES
    active,        \* activeRecommendations
    pc, retrieved, draft,   \* the requests
    rows,          \* the chunks that exist
    saved          \* ai_recommendations, by request

vars == <<active, pc, retrieved, draft, rows, saved>>

Result(status, sources, actions) == [status |-> status, sources |-> sources, actions |-> actions]

Silent(status) == Result(status, {}, FALSE)

Results ==
    [status : {"GENERATED", "ABSTAINED", "INVALID_OUTPUT", "PROVIDER_UNAVAILABLE"},
     sources : SUBSET Chunks, actions : BOOLEAN]

InFlight == {r \in Requests : pc[r] \notin {"new", "done"}}

TypeOK ==
    /\ active \in Nat
    /\ pc \in [Requests -> {"new", "retrieve", "generate", "save", "fallback", "abstain", "done"}]
    /\ retrieved \in [Requests -> SUBSET Chunks]
    /\ draft \in [Requests -> Results]
    /\ rows \in SUBSET Chunks
    /\ saved \in [Requests -> SUBSET Results]

Init ==
    /\ active = 0
    /\ pc = [r \in Requests |-> "new"]
    /\ retrieved = [r \in Requests |-> {}]
    /\ draft = [r \in Requests |-> Silent("ABSTAINED")]
    /\ rows = Chunks
    /\ saved = [r \in Requests |-> {}]

----------------------------------------------------------------------------
Goto(r, next) == pc' = [pc EXCEPT ![r] = next]

\* The check and the increment are one turn of the event loop.
Enter(r) ==
    /\ pc[r] = "new"
    /\ IF active >= Limit
       THEN Goto(r, "done") /\ UNCHANGED active
       ELSE Goto(r, "retrieve") /\ active' = active + 1
    /\ UNCHANGED <<retrieved, draft, rows, saved>>

\* The question is embedded and the best chunks are fetched.  None are never
\* enough, and some may not be.
Retrieve(r) ==
    /\ pc[r] = "retrieve"
    /\ \E found \in SUBSET rows :
          /\ retrieved' = [retrieved EXCEPT ![r] = found]
          /\ \/ Goto(r, "abstain")
             \/ found # {} /\ Goto(r, "generate")
    /\ UNCHANGED <<active, draft, rows, saved>>

\* A plausible defect: citations are not compared with what was retrieved.
ValidUnlisted(cites, abstains, safe, r) == (abstains \/ cites # {}) /\ safe

\* The output cites what it was given, and something unless it abstains, and
\* passes the guard.
Valid(cites, abstains, safe, r) ==
    /\ cites \subseteq retrieved[r]
    /\ abstains \/ cites # {}
    /\ safe

\* The model answers.
Generate(r) ==
    /\ pc[r] = "generate"
    /\ \E cites \in SUBSET (Chunks \cup Invented), abstains, safe \in BOOLEAN :
          IF Valid(cites, abstains, safe, r)
          THEN /\ draft' = [draft EXCEPT ![r] =
                      IF abstains THEN Silent("ABSTAINED") ELSE Result("GENERATED", cites \cap Chunks, TRUE)]
               /\ Goto(r, "save")
          ELSE /\ draft' = [draft EXCEPT ![r] = Silent("INVALID_OUTPUT")]
               /\ Goto(r, "fallback")
    /\ UNCHANGED <<active, retrieved, rows, saved>>

\* saveRecommendation: the cited chunks have to be there.
Store(r) ==
    /\ draft[r].sources \subseteq rows
    /\ saved' = [saved EXCEPT ![r] = @ \cup {draft[r]}]

\* It does not answer, or what it answered could not be saved: the chunk is
\* gone, the incident is not of this tenant, or the database fails, perhaps
\* after the COMMIT.
Unavailable(r) ==
    /\ \/ pc[r] = "generate" /\ UNCHANGED saved
       \/ pc[r] = "save" /\ (UNCHANGED saved \/ Store(r))
    /\ draft' = [draft EXCEPT ![r] = Silent("PROVIDER_UNAVAILABLE")]
    /\ Goto(r, "fallback")
    /\ UNCHANGED <<active, retrieved, rows>>

\* Every way out passes the finally block.
Leave(r) == Goto(r, "done") /\ active' = active - 1

\* The row is committed and the request is answered.
Save(r) ==
    /\ pc[r] \in {"save", "fallback", "abstain"}
    /\ Store(r)
    /\ Leave(r)
    /\ UNCHANGED <<retrieved, draft, rows>>

\* An error nobody catches: before the model is asked, or of the last save.
Error(r) ==
    \/ pc[r] = "retrieve" /\ UNCHANGED saved
    \/ pc[r] \in {"fallback", "abstain"} /\ (UNCHANGED saved \/ Store(r))

\* A plausible defect: the slot is given back only by a request that is answered.
FailKeepingSlot(r) ==
    /\ Error(r)
    /\ Goto(r, "done")
    /\ UNCHANGED <<active, retrieved, draft, rows>>

Fail(r) ==
    /\ Error(r)
    /\ Leave(r)
    /\ UNCHANGED <<retrieved, draft, rows>>

\* The worker replaces the chunks of a document.
Replace(c) ==
    /\ \A r \in Requests : \A result \in saved[r] : c \notin result.sources
    /\ rows' = rows \ {c}
    /\ UNCHANGED <<active, pc, retrieved, draft, saved>>

Next ==
    \/ \E r \in Requests : Enter(r) \/ Retrieve(r) \/ Generate(r) \/ Unavailable(r) \/ Save(r) \/ Fail(r)
    \/ \E c \in Chunks : Replace(c)

Spec == Init /\ [][Next]_vars

----------------------------------------------------------------------------
\* Whatever the model answers and whichever step fails, a recommendation
\* that is GENERATED has sources, which were retrieved for it and are still
\* there to be read; any other has neither sources nor proposed actions.
GroundedOrSilent ==
    \A r \in Requests : \A result \in saved[r] :
        IF result.status = "GENERATED"
        THEN result.sources # {} /\ result.sources \subseteq retrieved[r] \cap rows
        ELSE result = Silent(result.status)

\* The slots taken are those of the requests in flight, and never more than
\* the limit, however requests end.
SlotsAreHeld == active = Cardinality(InFlight) /\ active <= Limit
=============================================================================
