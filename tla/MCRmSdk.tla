------------------------------ MODULE MCRmSdk ------------------------------
(* A small instance of RmSdk: the driver at the interrupt that can be      *)
(* called, at the next one, at both or at none; two callback functions, so *)
(* that one can replace the other; callbacks that call the driver only, as *)
(* the streamer's does.                                                    *)
EXTENDS RmSdk

MC_Interrupts    == {128, 129}
MC_Commands      == {"register", "open", "play", "status", "close"}
MC_Functions     == {"f", "g"}
MC_CallbackCalls == {"fmpdrv"}
=============================================================================
