----------------------------- MODULE ModbusCrc -----------------------------
(***************************************************************************)
(* utils.c: the CRC of the frames on both Modbus buses.                    *)
(***************************************************************************)
EXTENDS Integers, Sequences, Bitwise

\* One round of the inner loop
CrcBit(crc) == IF crc % 2 = 1 THEN (crc \div 2) ^^ 40961 ELSE crc \div 2

CrcByte[crc \in Nat, bits \in Nat] ==
    IF bits = 0 THEN crc ELSE CrcByte[CrcBit(crc), bits - 1]

\* The CRC of the first n bytes
Crc16Modbus(data) ==
    LET crc[n \in Nat] == IF n = 0 THEN 65535 ELSE CrcByte[crc[n - 1] ^^ data[n], 8]
    IN  crc[Len(data)]
-----------------------------------------------------------------------------
(* Checks over bounded inputs                                              *)

\* What the models of the two Modbus buses take for granted: a frame of which a byte
\* has changed, whichever it is and to whatever, fails its CRC.
ASSUME GarbledFails ==
    \A data \in {<<3, 3, 0, 2, 0, 1>>, <<1, 6, 0, 7, 255, 255>>}, error \in 1 .. 255 :
        \A i \in 1 .. Len(data) :
            Crc16Modbus([data EXCEPT ![i] = @ ^^ error]) # Crc16Modbus(data)

\* The CRC that the Modbus specification gives for 02 07.
ASSUME KnownCrc == Crc16Modbus(<<2, 7>>) = 18 * 256 + 65
=============================================================================
