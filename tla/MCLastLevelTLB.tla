---------------------------- MODULE MCLastLevelTLB ----------------------------
(* Two requests for a page and one for a page of another process, at an    *)
(* address so near that the first nodes of the walks are cached under the  *)
(* same addresses. The pages are in one set; a flush finds only one there. *)
EXTENDS LastLevelTLB

MCReq == {"a1", "a2", "b1"}
MCPage == {"a", "b"}
MCPageOf == [r \in MCReq |-> IF r = "b1" THEN "b" ELSE "a"]
MCPidOf == [p \in MCPage |-> IF p = "b" THEN 2 ELSE 1]
MCMasked == [p \in MCPage |-> [l \in 0..2 |-> IF l = 2 THEN <<l, p>> ELSE <<l>>]]
MCSetOf == [p \in MCPage |-> 1]
MCFlushSetOf == [p \in MCPage |-> IF p = "b" THEN 2 ELSE 1]
=============================================================================
