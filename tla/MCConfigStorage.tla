-------------------------- MODULE MCConfigStorage --------------------------
(* An EEPROM of which the configuration fills two pages and a part of the   *)
(* third, and two words of Flash; the sizes are in the .cfg files.          *)
EXTENDS ConfigStorage

\* A device whose Flash has not been used yet.
UnusedFlashSpec ==
    /\ Init
    /\ flash = [w \in FlashCells |-> Blank]
    /\ [][Next]_vars
=============================================================================
