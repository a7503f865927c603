----------------------------- MODULE MCStreamer -----------------------------
(* A small instance of Streamer: buffers of two bytes, so that the files    *)
(* below take no, one, three and four buffers, the last one partly filled,  *)
(* positions past every file but the last, and a file that ends where a     *)
(* uint32_t does.                                                           *)
EXTENDS Streamer

MC_FileSizes == {0, 2, 5, 7}
MC_Handles   == {1, 2}
=============================================================================
