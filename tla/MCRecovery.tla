------------------------------ MODULE MCRecovery ------------------------------
(* Instances of Recovery for TLC. *)
EXTENDS Recovery

OneJob == {"j"}
FourProofs == {"p1", "p2", "p3", "p4"}
OneDrain == {"d"}
=============================================================================
