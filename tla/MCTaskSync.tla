---------------------------- MODULE MCTaskSync ----------------------------
(* Two tabs a and b, two tasks; the runs differ in who edits and in what   *)
(* goes wrong.                                                             *)
EXTENDS TaskSync, TLC

CONSTANTS a, b

MCTabs     == {a, b}
MCOne      == {a}
MCNone     == {}
MCOrphans  == [t \in Tasks |-> 0]
MCFamily   == [t \in Tasks |-> IF t = 2 THEN 1 ELSE 0]
=============================================================================
