---------------------------- MODULE MCRs485Ring ----------------------------
(* A ring of four slots, which holds three bytes, read with a buffer that   *)
(* is smaller (as the master's 64 bytes are to 256 slots) and with one that *)
(* is larger (as the slave's 256 bytes are to the 255 the ring can hold).   *)
EXTENDS Rs485Ring

MCMaxLens == {1, 5}
=============================================================================
