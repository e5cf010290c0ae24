---------------------------- MODULE MCNBWalkerMMU ----------------------------
(* Three requests: two pages of one last-level page table, one of another. *)
EXTENDS NBWalkerMMU

ThreeReqs == 1..3

Paths == << <<0, 0, 0, 0>>, <<0, 0, 0, 1>>, <<0, 1, 0, 0>> >>
==============================================================================
