----------------------------- MODULE MCGPUDriver -----------------------------
(* Two GPUs, one part of every kind on each (two caches, so that a phase   *)
(* waits for more than one answer), two pages of GPU g1.                   *)
EXTENDS GPUDriver

MCGPU == {"g1", "g2"}
MCPage == {"p1", "p2"}
MCOnePage == {"p1"}
MCHome == [p \in MCPage |-> "g1"]
MCHomeOne == [p \in MCOnePage |-> "g1"]
MCProgram == << [type |-> "launch", page |-> "p1"],
                [type |-> "flush", page |-> "p1"],
                [type |-> "copy", page |-> "p1"] >>
=============================================================================
