----------------------------- MODULE MCRmprobe -----------------------------
(* Scripts of up to five lines: enough to open, register, play, mute and   *)
(* wait with callbacks coming, or to store a mode, change it and load it   *)
(* twice.  Two slots; results that are nothing, a handle, and no handle    *)
(* although not 0; a text mode and the one the test scripts set (13h).     *)
EXTENDS Rmprobe

MC_Results == {0, 2, 256, 257}
MC_Modes   == {0, 19}
=============================================================================
