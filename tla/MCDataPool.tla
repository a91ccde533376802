----------------------------- MODULE MCDataPool -----------------------------
(* Two sensors of up to two points with counts of none, of one and of more  *)
(* than the arrays hold; addresses reach one register past the largest map. *)
EXTENDS DataPool

MCCounts == {0, 1, 3}
MCAddrs == 0 .. MaxRegs
=============================================================================
