---------------------------- MODULE MCIdleBridge ----------------------------
(* Instances of IdleBridge for TLC. *)
EXTENDS IdleBridge, TLC

CallerSymmetry == Permutations(Clients)
=============================================================================
