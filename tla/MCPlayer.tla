------------------------------ MODULE MCPlayer ------------------------------
(* The player, with the driver at the interrupt that can be called, at the  *)
(* next one, at both or at none.                                            *)
EXTENDS Player

MC_Interrupts == {128, 129}
MC_Commands   == FmpdrvCalls \cup {"status"}
=============================================================================
