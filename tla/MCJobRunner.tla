---------------------------- MODULE MCJobRunner ----------------------------
(* Two rows of two types, both with a handler.                             *)
EXTENDS JobRunner, TLC

CONSTANTS j1, j2, rollover, purge

MCJobIds  == {j1, j2}
MCTypes   == {rollover, purge}
MCJobType == (j1 :> rollover) @@ (j2 :> purge)
=============================================================================
