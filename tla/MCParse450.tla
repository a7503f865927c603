---------------------------- MODULE MCParse450 ----------------------------
(* A DRAM of three instructions and a window of two, at each place where    *)
(* it fits, overlaps the end, or lies past it, aligned or not.  Segments of *)
(* no, one and two instructions, one that is too long, one that is not      *)
(* whole, at every address; up to three of them, so that they overlap, and  *)
(* ends that wrap.                                                          *)
EXTENDS Parse450

MC_Lengths    == {0, 4, 6, 8, 12}
MC_ImemStarts == {0, 2, 4, 8, 12}
=============================================================================
