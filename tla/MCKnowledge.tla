---------------------------- MODULE MCKnowledge ----------------------------
(***************************************************************************)
(* Small instances of Knowledge, a document with two versions and one      *)
(* recommendation request in flight, and of Recommendation: an initial     *)
(* state chooses the scene, and the other waits in its initial state.      *)
(***************************************************************************)
EXTENDS Knowledge

CONSTANTS Askers, Chunks, Invented, Capacity

VARIABLES scene, active, request, retrieved, draft, rows, saved

documentVars == vars
adviceVars   == <<active, request, retrieved, draft, rows, saved>>

R == INSTANCE Recommendation WITH Requests <- Askers, Limit <- Capacity, pc <- request

MCJobs == 1..MaxVersion

SceneInit ==
    /\ scene \in {"document", "advice"}
    /\ Init
    /\ R!Init

SceneNext ==
    \/ scene = "document" /\ Next /\ UNCHANGED <<scene, adviceVars>>
    \/ scene = "advice" /\ R!Next /\ UNCHANGED <<scene, documentVars>>

SceneSpec == SceneInit /\ [][SceneNext]_<<scene, documentVars, adviceVars>>

----------------------------------------------------------------------------
\* Recommendation: what is proposed has sources that can be read; anything
\* else proposes nothing.
GroundedOrSilent == R!GroundedOrSilent

\* Recommendation: a slot is held exactly as long as its request runs.
SlotsAreHeld == R!SlotsAreHeld
=============================================================================
