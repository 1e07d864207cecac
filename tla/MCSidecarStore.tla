--------------------------- MODULE MCSidecarStore ---------------------------
(* Two models, one whose .pte takes one write and one whose takes two, and   *)
(* processes that compile and load them.                                     *)
EXTENDS SidecarStore

TwoModels == {"small", "large"}
TwoBlocks == [m \in TwoModels |-> IF m = "small" THEN 1 ELSE 2]
=============================================================================
