---------------------------- MODULE MCAppearance ----------------------------
(* Instance for TLC of the appearance managers by themselves.               *)
EXTENDS Appearance

OneChange == {[jobs |-> 1, starts |-> 1, mishaps |-> 2]}
=============================================================================
