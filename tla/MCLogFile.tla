---------------------------- MODULE MCLogFile ----------------------------
(* Records of three bytes (a tag of two and one more) and of six, any of    *)
(* them torn anywhere, up to four in a recording.                           *)
EXTENDS LogFile
=============================================================================
