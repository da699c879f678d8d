------------------------------ MODULE MCSocBus ------------------------------
(* The bus with the RAM, the debug module and the device of *)
(* the security level, at their numbers, and an address of no device.         *)
EXTENDS SocBus

MCAddr == {"ram", "debug", "sec", "unmapped"}
MCDevice == {0, 6, 7}
MCWindow == [d \in MCDevice |-> CASE d = 0 -> {"ram"} [] d = 6 -> {"debug"} [] d = 7 -> {"sec"}]
\* The idle address lines stay off the debug module ...
MCQuiet == MCAddr \ {"debug"}
\* ... or show its addresses, as the auipc of an abstract command makes them.
MCFromDebugRom == {"unmapped", "debug"}
=============================================================================
