------------------------------ MODULE Parse450 ------------------------------
(***************************************************************************)
(* parse450/parse450.c: a firmware file is loaded, segment by segment,     *)
(* into an image of the card's DRAM and of its instruction memory (IMEM),  *)
(* which shows a window of the DRAM; both are written to files.            *)
(*                                                                         *)
(* A byte of a memory is named by where it came from: the segment's number *)
(* and its offset in the segment's data.  Addresses are 32 bits wide; what *)
(* the program does after a write outside its memories is undefined.       *)
(***************************************************************************)
EXTENDS Sequences, Integers

CONSTANTS
  DRAM,        \* sizeof(dram)
  IMEM,        \* sizeof(imem)
  BUF,         \* sizeof(seg_buf)
  UINT32,      \* the number of values of a uint32_t
  Lengths,     \* the lengths segments have in files
  ImemStarts,  \* imem_dram: where the window begins
  MaxSegments  \* bound: num_segments

ASSUME Parse450Assumption ==
  /\ DRAM \in Nat /\ IMEM \in Nat /\ BUF \in Nat
  /\ UINT32 \in Nat /\ DRAM < UINT32 /\ BUF < UINT32
  /\ IMEM % 4 = 0
  /\ Lengths \subseteq 0 .. UINT32 - 1
  /\ ImemStarts \subseteq Nat
  /\ MaxSegments \in Nat

VARIABLES
  pc,            \* what main does next, "undefined" after a stray write
  num_segments,  \* the file's header
  imem_dram,
  segments,      \* the segments that were read, as sequence of their headers
  trailing,      \* whether the file goes on after its last segment
  dram,
  imem,
  files,         \* the images written
  status         \* what main returns

parseVars == <<pc, num_segments, imem_dram, segments, trailing, dram, imem,
               files, status>>

Segment == [addr : 0 .. UINT32 - 1, len : Lengths]
Blank   == <<0, 0>>

ParseTypeOK ==
  /\ pc \in {"header", "segments", "trailer", "dram.bin", "imem.bin", "exit",
             "undefined"}
  /\ num_segments \in 0 .. MaxSegments
  /\ imem_dram \in ImemStarts \cup {0}
  /\ segments \in Seq(Segment) /\ Len(segments) <= num_segments
  /\ trailing \in BOOLEAN
  /\ DOMAIN dram = 0 .. DRAM - 1 /\ DOMAIN imem = 0 .. IMEM - 1
  /\ \A i \in DOMAIN dram :
       dram[i] = Blank \/ dram[i] \in (1 .. Len(segments)) \X (0 .. BUF - 1)
  /\ \A j \in DOMAIN imem :
       imem[j] = Blank \/ imem[j] \in (1 .. Len(segments)) \X (0 .. BUF - 1)
  /\ files \subseteq {"dram.bin", "imem.bin"}
  /\ status \in {-1, 0, 1}

ParseInit ==
  /\ pc = "header"
  /\ num_segments = 0 /\ imem_dram = 0
  /\ segments = <<>>
  /\ trailing \in BOOLEAN
  /\ dram = [i \in 0 .. DRAM - 1 |-> Blank]
  /\ imem = [j \in 0 .. IMEM - 1 |-> Blank]
  /\ files = {}
  /\ status = -1

-----------------------------------------------------------------------------
(* Writing one segment: main's inner loop, over all its instructions.      *)

\* The file holds an instruction as two little-endian halves, the DRAM holds
\* them big-endian: the bytes of each half change places.
Swapped(o) == IF o % 2 = 0 THEN o + 1 ELSE o - 1

\* Mutant of WriteDram: the bytes are copied as they are in the file.
WriteDramCopied(s, n) ==
  [i \in DOMAIN dram |-> IF s.addr <= i /\ i < s.addr + s.len
                         THEN <<n, i - s.addr>>
                         ELSE dram[i]]

\* write_instruction_to_dram, for the instructions of the n-th segment.
WriteDram(s, n) ==
  [i \in DOMAIN dram |-> IF s.addr <= i /\ i < s.addr + s.len
                         THEN <<n, Swapped(i - s.addr)>>
                         ELSE dram[i]]

\* The instruction at offset o is in the window.
InWindow(s, o) == /\ imem_dram <= s.addr + o
                  /\ s.addr + o < imem_dram + IMEM

\* Mutant of WriteImem: the first segment in the window stays.
WriteImemOnce(s, n) ==
  [j \in DOMAIN imem |->
     LET o == imem_dram + j - s.addr
     IN  IF o \in 0 .. s.len - 1 /\ InWindow(s, o - (o % 4)) /\ imem[j] = Blank
         THEN <<n, o>>
         ELSE imem[j]]

\* write_instruction_to_imem: the bytes stay as they are in the file.
WriteImem(s, n) ==
  [j \in DOMAIN imem |->
     LET o == imem_dram + j - s.addr
     IN  IF o \in 0 .. s.len - 1 /\ InWindow(s, o - (o % 4))
         THEN <<n, o>>
         ELSE imem[j]]

\* A write outside the memories: a segment past the DRAM, or an instruction that
\* begins in the window and ends after it.
Stray(s) ==
  \/ s.addr + s.len > DRAM
  \/ \E o \in 0 .. s.len - 1 : /\ o % 4 = 0 /\ InWindow(s, o)
                               /\ s.addr + o + 4 > imem_dram + IMEM

-----------------------------------------------------------------------------
(* main.                                                                   *)

Fail == /\ pc' = "exit" /\ status' = 1
        /\ UNCHANGED <<num_segments, imem_dram, segments, trailing, dram, imem, files>>

\* The arguments, the file and its magic number.
Refuse == pc = "header" /\ Fail

ReadFileHeader ==
  /\ pc = "header"
  /\ num_segments' \in 0 .. MaxSegments
  /\ imem_dram' \in ImemStarts
  /\ pc' = IF num_segments' = 0 THEN "trailer" ELSE "segments"
  /\ UNCHANGED <<segments, trailing, dram, imem, files, status>>

\* Mutant of Acceptable: a segment may be longer than its buffer.
AcceptableUnbuffered(s) ==
  /\ s.len % 4 = 0 /\ s.len > 0
  /\ (s.addr + s.len) % UINT32 <= DRAM

\* The checks of a segment; reading no bytes counts as a failed read, and the
\* end of the segment is computed in 32 bits.
Acceptable(s) ==
  /\ s.len % 4 = 0 /\ s.len <= BUF /\ s.len > 0
  /\ (s.addr + s.len) % UINT32 <= DRAM

ReadSegment(s) ==
  /\ pc = "segments" /\ Acceptable(s)
  /\ segments' = Append(segments, s)
  /\ IF Stray(s)
     THEN pc' = "undefined" /\ UNCHANGED <<dram, imem>>
     ELSE /\ dram' = WriteDram(s, Len(segments'))
          /\ imem' = WriteImem(s, Len(segments'))
          /\ pc' = IF Len(segments') = num_segments THEN "trailer" ELSE "segments"
  /\ UNCHANGED <<num_segments, imem_dram, trailing, files, status>>

\* A segment that is not acceptable, or that the file does not hold.
RefuseSegment(s) == pc = "segments" /\ ~Acceptable(s) /\ Fail
Truncated        == pc = "segments" /\ Fail

\* Mutant of Trailer: what follows the last segment is left unread.
TrailerUnread ==
  /\ pc = "trailer"
  /\ pc' = "dram.bin"
  /\ UNCHANGED <<num_segments, imem_dram, segments, trailing, dram, imem, files, status>>

Trailer ==
  /\ pc = "trailer"
  /\ IF trailing THEN Fail
     ELSE /\ pc' = "dram.bin"
          /\ UNCHANGED <<num_segments, imem_dram, segments, trailing, dram,
                         imem, files, status>>

\* The images are written one after the other, unless one cannot be opened.
Dump(name) ==
  /\ pc = name
  /\ files' = files \cup {name}
  /\ IF name = "dram.bin"
     THEN pc' = "imem.bin" /\ UNCHANGED status
     ELSE pc' = "exit" /\ status' = 0
  /\ UNCHANGED <<num_segments, imem_dram, segments, trailing, dram, imem>>

DumpFails(name) == pc = name /\ Fail

Ended == pc \in {"exit", "undefined"} /\ UNCHANGED parseVars

ParseNext ==
  \/ Refuse \/ ReadFileHeader
  \/ \E s \in Segment : ReadSegment(s) \/ RefuseSegment(s)
  \/ Truncated \/ Trailer
  \/ \E name \in {"dram.bin", "imem.bin"} : Dump(name) \/ DumpFails(name)
  \/ Ended

ParseSpec == ParseInit /\ [][ParseNext]_parseVars

-----------------------------------------------------------------------------
(* Properties.                                                             *)

\* The segments of the file are on the window's grid.
Regular(s)  == (s.addr - imem_dram) % 4 = 0
RegularFile == \A n \in DOMAIN segments : Regular(segments[n])

\* The segments that hold an address; the last of them to be loaded is seen.
Covering(a) == {n \in DOMAIN segments : /\ segments[n].addr <= a
                                        /\ a < segments[n].addr + segments[n].len}
LastOf(ns)  == CHOOSE n \in ns : \A m \in ns : m <= n

\* The DRAM image is what the file says, however its segments overlap: each
\* byte is that of the last segment that covers it, at its place in its half.
DramIsFile ==
  pc # "undefined" =>
    \A i \in DOMAIN dram :
      dram[i] = IF Covering(i) = {} THEN Blank
                ELSE LET n == LastOf(Covering(i))
                     IN  <<n, Swapped(i - segments[n].addr)>>

\* IMEM shows the DRAM under its window: the same instructions, in the order of
\* the file where the DRAM has them in the card's.
ImemMirrorsDram ==
  RegularFile /\ pc # "undefined" =>
    \A j \in DOMAIN imem :
      imem_dram + j \in DOMAIN dram =>
        LET d == dram[imem_dram + j]
        IN  imem[j] = IF d = Blank THEN Blank ELSE <<d[1], Swapped(d[2])>>

\* No image is written of a file that was not read to its very end, segment for
\* segment.
ImagesAreWhole ==
  files # {} => Len(segments) = num_segments /\ ~trailing
=============================================================================
