------------------------------ MODULE MCAlerts ------------------------------
(***************************************************************************)
(* Small instances of Alerts.  An initial state chooses the scene:         *)
(*                                                                         *)
(* detection: two jobs at a time, three events of which one does not match *)
(* and a rule sees two, and all versions of the rule; nobody sends a       *)
(* command, and an incident job runs once and well.                        *)
(*                                                                         *)
(* incidents: one detection job, the two events that match, which arrive   *)
(* in their order, the versions of the rule that are enabled, and the      *)
(* analysts.                                                               *)
(*                                                                         *)
(* rising: as incidents, with all events.                                  *)
(*                                                                         *)
(* The rules are a CRITICAL one that asks for two events, a HIGH version   *)
(* of it that asks for one and whose risk climbs over 90 with the third    *)
(* (75 + 6 + 10), and a version that is switched off.                      *)
(***************************************************************************)
EXTENDS Alerts

CONSTANTS Scenes, FirstWorker, Enabled

VARIABLE scene

Burst    == [severity |-> "CRITICAL", threshold |-> 2, enabled |-> TRUE]
Single   == [severity |-> "HIGH", threshold |-> 1, enabled |-> TRUE]
Disabled == [severity |-> "HIGH", threshold |-> 1, enabled |-> FALSE]

MCRules       == <<Burst, Single, Disabled>>
MCRisingRules == <<Single, Disabled>>

SceneInit == scene \in Scenes /\ Init

\* What stays out of each scene.
InScene ==
    CASE scene = "detection" -> /\ draft' = draft /\ decision' = decision /\ runs' = runs
                                /\ \A a \in Alerts : job[a] = "done" => job'[a] = "done"
      [] scene = "incidents" -> /\ \A i \in 1..Len(arrived') :
                                     /\ arrived'[i] \in Matching
                                     /\ \A j \in 1..i : arrived'[j] <= arrived'[i]
                                /\ current' <= Enabled
                                /\ \A w \in Workers \ {FirstWorker} : worker'[w] = None
      [] scene = "rising"    -> \A w \in Workers \ {FirstWorker} : worker'[w] = None

SceneNext == Next /\ InScene /\ scene' = scene

SceneSpec == SceneInit /\ [][SceneNext]_<<scene, vars>> /\ Fairness
=============================================================================
