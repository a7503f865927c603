---------------------------- MODULE StreamSource ----------------------------
(***************************************************************************)
(* What a stream source promises the ReelMagic driver, whatever buffers it *)
(* uses: a request for a file position is answered either by nothing or by *)
(* the very bytes of the file at that position, a whole chunk or the end   *)
(* of the file, and those bytes stay put until the driver's next request.  *)
(*                                                                         *)
(* The streamer's double-buffered callback (module Streamer) implements    *)
(* this specification.                                                     *)
(***************************************************************************)
EXTENDS Integers

CONSTANTS
  Chunk,      \* the most bytes one answer holds, a positive number
  Sizes       \* the lengths a streamed file may have, a set of naturals

VARIABLES
  size,       \* length of the open file, NoStream when none is open
  asked,      \* the position the driver takes what it sees to start at
  served      \* the bytes the driver can see: [from, len], Nothing when none

NoStream == -1
Nothing  == [from |-> 0, len |-> 0]

sourceVars == <<size, asked, served>>

\* The number of bytes an answer to a request for position p holds.
ChunkAt(p) == IF size - p < Chunk THEN size - p ELSE Chunk

Init == /\ size = NoStream
        /\ asked = 0 /\ served = Nothing

Open == /\ size = NoStream
        /\ size' \in Sizes
        /\ asked' = 0 /\ served' = Nothing

Serve == /\ \E p \in 0 .. size - 1 :
              /\ asked'  = p
              /\ served' = [from |-> p, len |-> ChunkAt(p)]
         /\ UNCHANGED size

\* Past the end of the file, or when the file cannot be read.
Withhold == /\ size # NoStream
            /\ asked' = 0 /\ served' = Nothing
            /\ UNCHANGED size

Close == /\ size # NoStream
         /\ size' = NoStream
         /\ asked' = 0 /\ served' = Nothing

Next == Open \/ Serve \/ Withhold \/ Close

Spec == Init /\ [][Next]_sourceVars
=============================================================================
