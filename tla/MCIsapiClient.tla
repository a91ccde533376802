--------------------------- MODULE MCIsapiClient ---------------------------
(* Three cameras, the second without an address; a sensor counts and measures *)
(* tenths, below zero in one of its values.                                   *)
EXTENDS IsapiRequest, ModbusCrc

MCUnset == {1}
MCName == <<"smoke", "temp">>
MCDivisor == <<0, 10>>
MCZero == <<0, 0>>
MCValue == {MCZero, <<-305, 233>>}
=============================================================================
