---------------------------- MODULE MCChildLeases ----------------------------
(* Instances of ChildLeases for TLC. *)
EXTENDS ChildLeases

Ask(requested, minimum) == [requested |-> requested, minimum |-> minimum]

\* One request that needs the whole budget, and would take more, beside small elastic
\* ones, of which two share it.
StreamRequests == {Ask(4, 3), Ask(2, 1)}
=============================================================================
