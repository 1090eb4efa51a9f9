----------------------------- MODULE MCResources ------------------------------
(* Instances of Resources for TLC. *)
EXTENDS Resources

AllContracts == {m \in [Names -> {"off", "best", "required"}] : Contract(m)}
=============================================================================
