-------------------------- MODULE MCTuningActive --------------------------
(* One tool and two channels, so that the operator's is not the one a      *)
(* reload returns to.                                                      *)
EXTENDS Tuning

MCTunerBudgets == {[operations |-> 2, starts |-> 1, crashes |-> 0]}
=============================================================================
