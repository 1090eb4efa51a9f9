---------------------------- MODULE MCProjectQuota ----------------------------
(* Instances of ProjectQuota for TLC. *)
EXTENDS ProjectQuota

TwoSpools == {"s1", "s2"}
ThreeRuns == {"a", "b", "c"}
Owners == [r \in ThreeRuns |-> IF r = "c" THEN "s2" ELSE "s1"]
Limits == [r \in ThreeRuns |-> IF r = "b" THEN 2 ELSE 1]
=============================================================================
