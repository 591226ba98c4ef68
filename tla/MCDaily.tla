------------------------------ MODULE MCDaily ------------------------------
(* Two scenes of the daily jobs: in the first the user has one task and    *)
(* the preferences stay as they are, in the second there is no task and    *)
(* the user switches the rollover.                                         *)
EXTENDS MCDailyJobs

VARIABLE scene

MCSwitches == { [enabled |-> FALSE, trigger |-> "9am"], [enabled |-> TRUE, trigger |-> "9am"],
                [enabled |-> TRUE, trigger |-> "manual"] }

SceneInit == Init /\ scene \in {"tasks", "switching"}

SceneNext ==
    /\ Next /\ UNCHANGED scene
    /\ IF scene = "tasks" THEN UNCHANGED prefs ELSE UNCHANGED tasks

SceneSpec == SceneInit /\ [][SceneNext]_<<scene, vars>>

(* The chain of purges never ends, that of the rollovers not while the     *)
(* rollover is on.                                                         *)
ChainsHold == PurgeChain /\ (scene = "tasks" => RolloverChain)

(* Neither leaves more in the queue than it needs.                         *)
JobsDoNotPileUp == OneRolloverPerDate /\ PurgesDoNotPileUp
=============================================================================
