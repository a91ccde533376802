--------------------------- MODULE MCModbusMaster ---------------------------
(* A sensor without points and one with two; late answers and frames read   *)
(* in two parts in every combination, and a bus with noise but neither.     *)
EXTENDS ModbusMaster

MCDpCount == [s \in Sensors |-> IF s = 0 THEN 0 ELSE 2]
MCBuses == (BOOLEAN \X BOOLEAN \X {FALSE}) \cup {<<FALSE, FALSE, TRUE>>}
=============================================================================
