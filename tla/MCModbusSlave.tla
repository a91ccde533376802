--------------------------- MODULE MCModbusSlave ---------------------------
(* The instance that is checked; its constant is given in the .cfg files.   *)
EXTENDS ModbusSlave
=============================================================================
