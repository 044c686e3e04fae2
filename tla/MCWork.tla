------------------------------- MODULE MCWork -------------------------------
(***************************************************************************)
(* Small instances of Outbox and Incident, checked one after the other: an *)
(* initial state chooses the scene, and the component that is not in it    *)
(* waits in an initial state of its own.  Outbox is extended, Incident has *)
(* copies of its variables here.                                           *)
(*                                                                         *)
(* Incident: two transitions in flight, and enough versions to resolve,    *)
(* reopen and close.  The evaluations of the two targets, which write a    *)
(* column each, run in a scene each.  No version comes back, so a request  *)
(* that is out of date can only be refused: whatever it asks for, View     *)
(* takes it for the same.                                                  *)
(***************************************************************************)
EXTENDS MCOutbox

CONSTANTS Clients, MaxVersion, MaxLag, MaxRuns, Skewed

VARIABLES
    scene,
    incidentStatus, version, root, lessons, responded, punctual, resolved, closed, overdue,
    breached, evaluation, runs, request

outboxVars   == vars
incidentVars ==
    <<incidentStatus, version, root, lessons, responded, punctual, resolved, closed, overdue,
      breached, evaluation, runs, request>>

I == INSTANCE Incident WITH status <- incidentStatus, job <- evaluation

ASSUME IncidentAssumption ==
    /\ MaxVersion \in Nat \ {0}
    /\ MaxLag \in Nat
    /\ MaxRuns \in Nat \ {0}
    /\ Skewed \in BOOLEAN
    /\ None \notin I!Requests

Symmetries == Symmetry \cup Permutations(Clients)

Doomed ==
    [version |-> 0, from |-> "OPEN", to |-> "OPEN", root |-> FALSE, lessons |-> FALSE,
     now |-> "untaken"]

View ==
    IF scene = "outbox" THEN <<scene, outboxVars>>
    ELSE <<scene, I!row, overdue, I!work,
           [c \in Clients |-> IF request[c] # None /\ ~I!StillCurrent(request[c])
                              THEN Doomed ELSE request[c]]>>

SceneInit ==
    /\ scene \in {"outbox"} \cup I!Targets
    /\ Init
    /\ I!Init /\ (scene = "outbox" => overdue = [k \in I!Targets |-> FALSE])

SceneNext ==
    \/ scene = "outbox" /\ Next /\ UNCHANGED <<scene, incidentVars>>
    \/ /\ scene \in I!Targets
       /\ I!Next
       /\ \A k \in I!Targets \ {scene} : evaluation'[k] = "deferred"
       /\ UNCHANGED <<scene, outboxVars>>

SceneSpec == SceneInit /\ [][SceneNext]_<<scene, outboxVars, incidentVars>>

----------------------------------------------------------------------------
\* Incident: a resolved one has its root cause, a closed one its lessons.
ClosedIsAnalysed == I!ClosedIsAnalysed

\* Incident: resolved_at and closed_at go with the status.
StampsAgree == I!StampsAgree

\* Incident: no breach is recorded against a response that was committed
\* before its deadline.
ResponseBreachIsReal == I!ResponseBreachIsReal
=============================================================================
