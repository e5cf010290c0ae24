----------------------------- MODULE MCRDMAEngine -----------------------------
(* Two engines; one has two accesses, so that they may overtake each other *)
(* in the L2 cache, and both have accesses for each other.                 *)
EXTENDS RDMAEngine

MCEngine == {"e1", "e2"}
MCId == {"a1", "a2", "b1"}
MCFrom == [id \in MCId |-> IF id = "b1" THEN "e2" ELSE "e1"]
MCTo == [id \in MCId |-> IF id = "b1" THEN "e1" ELSE "e2"]
=============================================================================
