---------------------------- MODULE MCDailyJobs ----------------------------
(* Two or three days, one task; the runs differ in the preferences.        *)
EXTENDS DailyJobs

CONSTANTS t1

MCTasks     == {t1}
MCMidnight  == {[enabled |-> TRUE, trigger |-> "midnight"]}
MCNine      == {[enabled |-> TRUE, trigger |-> "9am"]}
MCRolls     == {TRUE}
MCNone      == {}
=============================================================================
