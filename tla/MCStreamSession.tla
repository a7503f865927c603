-------------------------- MODULE MCStreamSession --------------------------
(* A small instance of StreamSession: an empty file, one that ends with a  *)
(* full buffer and one that ends with a partly filled third buffer, in an  *)
(* address space with positions past the end of each.                      *)
EXTENDS StreamSession

MC_FileSizes == {0, 4, 5}
MC_Handles   == {1}
=============================================================================
