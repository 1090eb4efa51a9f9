----------------------------- MODULE MCCgroupLeaf -----------------------------
(* Instances of CgroupLeaf for TLC. *)
EXTENDS CgroupLeaf

CONSTANTS a, b, c

ThreeRuns == {a, b, c}
=============================================================================
