--------------------------- MODULE Parse450Proofs ---------------------------
(***************************************************************************)
(* Proofs about the firmware loader, for every size of the memories and    *)
(* the buffer, every width of an address and every file.                   *)
(*                                                                         *)
(* ParseInv is inductive.  The images are compared with the file after     *)
(* each segment: writing one more makes it the last to cover its           *)
(* addresses, and leaves what covers the others alone (CoveredByNew,       *)
(* NotCoveredByNew).                                                       *)
(***************************************************************************)
EXTENDS Parse450, SequenceTheorems, TLAPS

\* How far main is tells how many segments were read, and what was written.
Progress ==
  /\ pc = "header" => /\ segments = <<>>
                      /\ \A i \in DOMAIN dram : dram[i] = Blank
                      /\ \A j \in DOMAIN imem : imem[j] = Blank
  /\ pc = "segments" => Len(segments) < num_segments
  /\ pc \in {"trailer", "dram.bin", "imem.bin"} => Len(segments) = num_segments
  /\ pc \in {"dram.bin", "imem.bin"} => ~trailing
  /\ pc \in {"header", "segments", "trailer", "undefined"} => files = {}

\* Where segments cover an address, one of them is the last.
LastCovers ==
  \A i \in DOMAIN dram :
    Covering(i) # {} => LastOf(Covering(i)) \in Covering(i)

ParseInv == ParseTypeOK /\ Progress /\ ImagesAreWhole
              /\ LastCovers /\ DramIsFile /\ ImemMirrorsDram

-----------------------------------------------------------------------------
(* Facts about a segment.                                                  *)

\* The bytes of a half change places, and change back; a byte stays in a
\* segment of whole halves.
LEMMA SwappedFacts ==
  ASSUME NEW o \in Nat
  PROVE  /\ Swapped(o) \in Nat /\ Swapped(Swapped(o)) = o
         /\ \A len \in Nat : len % 4 = 0 /\ o < len => Swapped(o) < len
<1>1. CASE o % 2 = 0
  <2>1. Swapped(o) = o + 1 /\ (o + 1) % 2 = 1
    BY <1>1 DEF Swapped
  <2>2. Swapped(o + 1) = o
    BY <2>1 DEF Swapped
  <2>3. ASSUME NEW len \in Nat, len % 4 = 0, o < len PROVE o + 1 < len
    BY <1>1, <2>3
  <2>4. QED
    BY <2>1, <2>2, <2>3
<1>2. CASE o % 2 # 0
  <2>1. Swapped(o) = o - 1 /\ (o - 1) % 2 = 0 /\ o - 1 \in Nat
    BY <1>2 DEF Swapped
  <2>2. Swapped(o - 1) = o
    BY <2>1 DEF Swapped
  <2>3. QED
    BY <2>1, <2>2
<1>3. QED
  BY <1>1, <1>2

LEMMA Multiple ==
  ASSUME NEW x \in Int, x % 4 = 0
  PROVE  \E k \in Int : x = 4 * k
<1>1. x = 4 * (x \div 4)
  OBVIOUS
<1>2. x \div 4 \in Int
  OBVIOUS
<1>3. QED
  BY <1>1, <1>2

\* An acceptable segment fits its buffer.
LEMMA SegmentFacts ==
  ASSUME NEW s \in Segment
  PROVE  /\ s.addr \in Nat /\ s.len \in Nat
         /\ s.addr < UINT32 /\ s.len < UINT32
         /\ Acceptable(s) => s.len % 4 = 0 /\ s.len <= BUF
<1>1. /\ s.addr \in 0 .. UINT32 - 1 /\ s.len \in Lengths
  BY DEF Segment
<1>2. /\ UINT32 \in Nat /\ s.len \in 0 .. UINT32 - 1
  BY <1>1, Parse450Assumption
<1>3. Acceptable(s) => s.len % 4 = 0 /\ s.len <= BUF
  BY DEF Acceptable
<1>4. QED
  BY <1>1, <1>2, <1>3

\* Where a byte of a regular segment is in the window, the instruction it is part
\* of begins in the window.
LEMMA RegularInWindow ==
  ASSUME NEW s \in Segment, imem_dram \in Nat, Regular(s), s.addr \in Nat,
         NEW j \in 0 .. IMEM - 1, IMEM \in Nat,
         NEW o \in Nat, o = imem_dram + j - s.addr
  PROVE  InWindow(s, o - (o % 4))
<1>1. (s.addr - imem_dram) % 4 = 0
  BY DEF Regular
<1>2. PICK c \in Int : s.addr - imem_dram = 4 * c
  BY <1>1, Multiple
<1>3. o = j - 4 * c
  BY <1>2
<1>4. o % 4 = j % 4
  <2>1. PICK q \in Int, m \in 0 .. 3 : j = 4 * q + m
    <3>1. j = 4 * (j \div 4) + (j % 4) /\ j \div 4 \in Int /\ j % 4 \in 0 .. 3
      OBVIOUS
    <3>2. QED
      BY <3>1
  <2>2. j % 4 = m
    BY <2>1
  <2>3. q - c \in Int /\ o = 4 * (q - c) + m
    BY <1>3, <2>1
  <2>4. \A k \in Int : (4 * k + m) % 4 = m
    BY <2>1
  <2>5. QED
    BY <2>2, <2>3, <2>4
<1>5. j - (j % 4) >= 0 /\ j - (j % 4) < IMEM /\ j % 4 \in Nat
  OBVIOUS
<1>6. s.addr + (o - (o % 4)) = imem_dram + (j - (j % 4))
  <2>1. \A m \in Nat : s.addr + (o - m) = imem_dram + (j - m)
    OBVIOUS
  <2>2. QED
    BY <1>4, <1>5, <2>1
<1>7. QED
  BY <1>5, <1>6 DEF InWindow

\* A file is regular after a segment only if it was before and the segment is.
LEMMA RegularBefore ==
  ASSUME segments \in Seq(Segment), NEW s \in Segment,
         segments' = Append(segments, s), imem_dram' = imem_dram,
         RegularFile'
  PROVE  RegularFile /\ Regular(s)
<1>1. /\ Len(segments) \in Nat
      /\ Len(segments') = Len(segments) + 1
      /\ segments'[Len(segments) + 1] = s
      /\ \A n \in 1 .. Len(segments) : segments'[n] = segments[n]
      /\ DOMAIN segments = 1 .. Len(segments)
      /\ DOMAIN segments' = 1 .. Len(segments) + 1
  OBVIOUS
<1>2. \A n \in DOMAIN segments' : (segments'[n].addr - imem_dram) % 4 = 0
  BY DEF RegularFile, Regular
<1>3. Regular(s)
  BY <1>1, <1>2 DEF Regular
<1>4. RegularFile
  BY <1>1, <1>2 DEF RegularFile, Regular
<1>5. QED
  BY <1>3, <1>4

\* What a segment that is appended leaves as it was.
LEMMA Appended ==
  ASSUME segments \in Seq(Segment), NEW s \in Segment,
         segments' = Append(segments, s)
  PROVE  /\ segments' \in Seq(Segment)
         /\ Len(segments) \in Nat /\ Len(segments') = Len(segments) + 1
         /\ DOMAIN segments = 1 .. Len(segments)
         /\ DOMAIN segments' = 1 .. Len(segments) + 1
         /\ segments'[Len(segments) + 1] = s
         /\ \A n \in 1 .. Len(segments) : segments'[n] = segments[n]
OBVIOUS

\* A new segment is the last that covers its addresses.
LEMMA CoveredByNew ==
  ASSUME segments \in Seq(Segment), NEW s \in Segment,
         segments' = Append(segments, s), NEW a,
         s.addr <= a, a < s.addr + s.len
  PROVE  /\ Len(segments) + 1 \in Covering(a)'
         /\ LastOf(Covering(a)') = Len(segments) + 1
<1> DEFINE N == Len(segments) + 1
<1>1. N \in Covering(a)'
  BY Appended DEF Covering
<1>2. \A m \in Covering(a)' : m \in Nat /\ m <= N
  BY Appended DEF Covering
<1>3. N \in Nat
  BY Appended
<1>4. \A n \in Covering(a)' : (\A m \in Covering(a)' : m <= n) => n = N
  BY <1>1, <1>2, <1>3
<1>5. LastOf(Covering(a)') = N
  BY <1>1, <1>2, <1>4 DEF LastOf
<1>6. QED
  BY <1>1, <1>5

\* It leaves what covers other addresses alone.
LEMMA NotCoveredByNew ==
  ASSUME segments \in Seq(Segment), NEW s \in Segment,
         segments' = Append(segments, s), NEW a,
         ~(s.addr <= a /\ a < s.addr + s.len)
  PROVE  /\ Covering(a)' = Covering(a)
         /\ \A n \in Covering(a) : segments'[n] = segments[n]
BY Appended DEF Covering

-----------------------------------------------------------------------------
(* One segment is read and written.                                        *)

LEMMA ReadSegmentType ==
  ASSUME ParseInv, NEW s \in Segment, ReadSegment(s)
  PROVE  ParseTypeOK' /\ Progress' /\ ImagesAreWhole'
<1> USE DEF ParseInv, ReadSegment
<1> DEFINE N == Len(segments) + 1
<1>1. /\ segments \in Seq(Segment) /\ segments' = Append(segments, s)
      /\ Len(segments) \in Nat /\ num_segments \in Nat
      /\ Len(segments) < num_segments
  BY Parse450Assumption DEF ParseTypeOK, Progress
<1>2. segments' \in Seq(Segment) /\ Len(segments') = N
  BY <1>1, Appended
<1>3. /\ s.addr \in Nat /\ s.len \in Nat /\ s.len % 4 = 0 /\ s.len <= BUF
      /\ BUF \in Nat
  BY SegmentFacts, Parse450Assumption
<1>4. /\ pc' \in {"trailer", "segments", "undefined"}
      /\ pc' = "trailer" => Len(segments') = num_segments
      /\ pc' = "segments" => Len(segments') < num_segments
      /\ files' = {} /\ UNCHANGED <<num_segments, imem_dram, trailing, status>>
  <2>1. files' = {} /\ UNCHANGED <<num_segments, imem_dram, trailing, status>>
    BY DEF Progress
  <2>2. pc' \in {"trailer", "segments", "undefined"}
    OBVIOUS
  <2>3. Len(segments') # num_segments => Len(segments') < num_segments
    BY <1>1, <1>2
  <2>4. QED
    BY <2>1, <2>2, <2>3
<1>5. /\ DOMAIN dram' = 0 .. DRAM - 1
      /\ \A i \in DOMAIN dram' :
           dram'[i] = Blank \/ dram'[i] \in (1 .. N) \X (0 .. BUF - 1)
  <2>1. /\ DOMAIN dram = 0 .. DRAM - 1
        /\ \A i \in DOMAIN dram :
             dram[i] = Blank \/ dram[i] \in (1 .. N) \X (0 .. BUF - 1)
    BY <1>1 DEF ParseTypeOK
  <2>2. CASE Stray(s)
    BY <2>1, <2>2
  <2>3. CASE ~Stray(s)
    <3>1. dram' = WriteDram(s, N)
      BY <1>2, <2>3
    <3>2. /\ DOMAIN dram' = 0 .. DRAM - 1
          /\ \A i \in 0 .. DRAM - 1 :
               dram'[i] = IF s.addr <= i /\ i < s.addr + s.len
                          THEN <<N, Swapped(i - s.addr)>> ELSE dram[i]
      BY <2>1, <3>1 DEF WriteDram
    <3>3. ASSUME NEW i \in 0 .. DRAM - 1, s.addr <= i, i < s.addr + s.len
          PROVE  <<N, Swapped(i - s.addr)>> \in (1 .. N) \X (0 .. BUF - 1)
      <4>1. i - s.addr \in Nat /\ i - s.addr < s.len
        BY <1>3, <3>3
      <4> HIDE DEF ParseInv, ReadSegment
      <4>2. Swapped(i - s.addr) \in Nat /\ Swapped(i - s.addr) < s.len
        BY <1>3, <4>1, SwappedFacts
      <4>3. Swapped(i - s.addr) \in 0 .. BUF - 1
        BY <1>3, <4>2
      <4>4. QED
        BY <1>1, <4>3
    <3>4. QED
      BY <2>1, <3>2, <3>3
  <2>4. QED
    BY <2>2, <2>3
<1>6. /\ DOMAIN imem' = 0 .. IMEM - 1
      /\ \A j \in DOMAIN imem' :
           imem'[j] = Blank \/ imem'[j] \in (1 .. N) \X (0 .. BUF - 1)
  <2>1. /\ DOMAIN imem = 0 .. IMEM - 1
        /\ \A j \in DOMAIN imem :
             imem[j] = Blank \/ imem[j] \in (1 .. N) \X (0 .. BUF - 1)
    BY <1>1 DEF ParseTypeOK
  <2>2. CASE Stray(s)
    BY <2>1, <2>2
  <2>3. CASE ~Stray(s)
    <3>1. imem' = WriteImem(s, N)
      BY <1>2, <2>3
    <3>2. ASSUME NEW j \in 0 .. IMEM - 1
          PROVE  \/ imem'[j] = imem[j]
                 \/ \E o \in 0 .. s.len - 1 : imem'[j] = <<N, o>>
      BY <2>1, <3>1 DEF WriteImem
    <3>3. \A o \in 0 .. s.len - 1 : <<N, o>> \in (1 .. N) \X (0 .. BUF - 1)
      BY <1>1, <1>3
    <3>4. DOMAIN imem' = 0 .. IMEM - 1
      BY <2>1, <3>1 DEF WriteImem
    <3>5. QED
      BY <2>1, <3>2, <3>3, <3>4
  <2>4. QED
    BY <2>2, <2>3
<1>7. ParseTypeOK'
  BY <1>1, <1>2, <1>4, <1>5, <1>6 DEF ParseTypeOK
<1>8. Progress'
  BY <1>4 DEF Progress
<1>9. ImagesAreWhole'
  BY <1>4 DEF ImagesAreWhole
<1>10. QED
  BY <1>7, <1>8, <1>9

LEMMA ReadSegmentDram ==
  ASSUME ParseInv, NEW s \in Segment, ReadSegment(s)
  PROVE  LastCovers' /\ DramIsFile'
<1> DEFINE N == Len(segments) + 1
           In(i) == s.addr <= i /\ i < s.addr + s.len
<1>1. /\ segments \in Seq(Segment) /\ segments' = Append(segments, s)
      /\ DOMAIN dram = 0 .. DRAM - 1 /\ Len(segments') = N
      /\ segments'[N] = s
  BY Appended DEF ParseInv, ParseTypeOK, ReadSegment
<1>2. DOMAIN dram' = DOMAIN dram
  BY DEF ReadSegment, WriteDram
<1>3. ASSUME NEW i \in DOMAIN dram, In(i)
      PROVE  Covering(i)' # {} /\ LastOf(Covering(i)') = N /\ N \in Covering(i)'
  BY <1>1, <1>3, CoveredByNew
<1>4. ASSUME NEW i \in DOMAIN dram, ~In(i)
      PROVE  /\ Covering(i)' = Covering(i)
             /\ \A n \in Covering(i) : segments'[n] = segments[n]
  BY <1>1, <1>4, NotCoveredByNew
<1>5. LastCovers'
  <2>1. SUFFICES ASSUME NEW i \in DOMAIN dram, Covering(i)' # {}
                 PROVE  LastOf(Covering(i)') \in Covering(i)'
    BY <1>2 DEF LastCovers
  <2>2. CASE In(i)
    BY <1>3, <2>2
  <2>3. CASE ~In(i)
    <3>1. Covering(i)' = Covering(i)
      BY <1>4, <2>3
    <3>2. QED
      BY <2>1, <3>1 DEF ParseInv, LastCovers
  <2>4. QED
    BY <2>2, <2>3
<1>6. DramIsFile'
  <2>1. SUFFICES ASSUME pc' # "undefined", NEW i \in DOMAIN dram
                 PROVE  dram'[i] =
                          IF Covering(i)' = {} THEN Blank
                          ELSE LET n == LastOf(Covering(i)')
                               IN  <<n, Swapped(i - segments'[n].addr)>>
    BY <1>2 DEF DramIsFile
  <2>2. dram'[i] = IF In(i) THEN <<N, Swapped(i - s.addr)>> ELSE dram[i]
    BY <1>1, <2>1 DEF ReadSegment, WriteDram
  <2>3. CASE In(i)
    BY <1>1, <1>3, <2>2, <2>3
  <2>4. CASE ~In(i)
    <3>1. dram[i] = IF Covering(i) = {} THEN Blank
                    ELSE LET n == LastOf(Covering(i))
                         IN  <<n, Swapped(i - segments[n].addr)>>
      BY DEF ParseInv, DramIsFile, ReadSegment
    <3>2. /\ Covering(i)' = Covering(i)
          /\ \A n \in Covering(i) : segments'[n] = segments[n]
      BY <1>4, <2>4
    <3>3. Covering(i) # {} => LastOf(Covering(i)) \in Covering(i)
      BY DEF ParseInv, LastCovers
    <3>4. QED
      BY <2>2, <2>4, <3>1, <3>2, <3>3
  <2>5. QED
    BY <2>3, <2>4
<1>7. QED
  BY <1>5, <1>6

LEMMA ReadSegmentImem ==
  ASSUME ParseInv, NEW s \in Segment, ReadSegment(s)
  PROVE  ImemMirrorsDram'
<1> DEFINE N == Len(segments) + 1
           In(i) == s.addr <= i /\ i < s.addr + s.len
<1>1. SUFFICES ASSUME RegularFile', pc' # "undefined", NEW j \in DOMAIN imem,
                      imem_dram + j \in DOMAIN dram
               PROVE  LET d == dram'[imem_dram + j]
                      IN  imem'[j] = IF d = Blank THEN Blank
                                     ELSE <<d[1], Swapped(d[2])>>
  BY DEF ReadSegment, WriteDram, WriteImem, ImemMirrorsDram
<1>2. /\ segments \in Seq(Segment) /\ imem_dram \in Nat
      /\ j \in 0 .. IMEM - 1 /\ IMEM \in Nat /\ IMEM % 4 = 0
      /\ Len(segments) \in Nat
  <2>1. IMEM \in Nat /\ IMEM % 4 = 0 /\ ImemStarts \cup {0} \subseteq Nat
    BY Parse450Assumption
  <2>2. /\ segments \in Seq(Segment) /\ imem_dram \in ImemStarts \cup {0}
        /\ DOMAIN imem = 0 .. IMEM - 1
    BY DEF ParseInv, ParseTypeOK
  <2>3. Len(segments) \in Nat
    BY <2>2
  <2>4. QED
    BY <1>1, <2>1, <2>2, <2>3
<1>3. RegularFile /\ Regular(s)
  BY <1>1, <1>2, RegularBefore DEF ReadSegment
<1>4. s.addr \in Nat /\ s.len \in Nat
  BY SegmentFacts
<1>5. /\ Len(segments') = N
      /\ dram' = WriteDram(s, N) /\ imem' = WriteImem(s, N)
  BY <1>1, <1>2, Appended DEF ReadSegment
<1> DEFINE i == imem_dram + j
           o == imem_dram + j - s.addr
<1>6. imem'[j] = IF o \in 0 .. s.len - 1 /\ InWindow(s, o - (o % 4))
                 THEN <<N, o>> ELSE imem[j]
  BY <1>1, <1>5 DEF WriteImem
<1>7. o = i - s.addr
  BY <1>2, <1>4
<1>8. CASE In(i)
  <2>1. o \in 0 .. s.len - 1 /\ o \in Nat
    BY <1>2, <1>4, <1>7, <1>8
  <2>2. InWindow(s, o - (o % 4))
    BY <1>2, <1>3, <1>4, <2>1, RegularInWindow
  <2>3. dram'[i] = <<N, Swapped(o)>>
    BY <1>1, <1>5, <1>7, <1>8 DEF WriteDram
  <2>4. imem'[j] = <<N, o>>
    BY <1>6, <2>1, <2>2
  <2>5. dram'[i] # Blank
    BY <1>2, <2>3 DEF Blank
  <2>6. Swapped(Swapped(o)) = o
    BY <2>1, SwappedFacts
  <2>7. QED
    BY <2>3, <2>4, <2>5, <2>6
<1>9. CASE ~In(i)
  <2>1. o \notin 0 .. s.len - 1
    BY <1>2, <1>4, <1>7, <1>9
  <2>2. dram'[i] = dram[i] /\ imem'[j] = imem[j]
    BY <1>1, <1>5, <1>6, <1>9, <2>1 DEF WriteDram
  <2>3. pc # "undefined"
    BY DEF ReadSegment
  <2>4. QED
    BY <1>1, <1>3, <2>2, <2>3 DEF ParseInv, ImemMirrorsDram
<1>10. QED
  BY <1>8, <1>9

-----------------------------------------------------------------------------
(* ParseInv is inductive.                                                  *)

LEMMA ParseInvInit == ParseInit => ParseInv
<1>1. SUFFICES ASSUME ParseInit PROVE ParseInv
  OBVIOUS
<1> USE Parse450Assumption DEF ParseInit
<1>2. segments = <<>> /\ segments \in Seq(Segment) /\ Len(segments) = 0
  BY <1>1, EmptySeq
<1>3. ParseTypeOK
  BY <1>1, <1>2 DEF ParseTypeOK
<1>4. Progress /\ ImagesAreWhole
  BY <1>1 DEF Progress, ImagesAreWhole
<1>5. \A a : Covering(a) = {}
  BY <1>2 DEF Covering
<1>6. LastCovers /\ DramIsFile
  BY <1>1, <1>5 DEF LastCovers, DramIsFile
<1>7. ImemMirrorsDram
  BY <1>1 DEF ImemMirrorsDram
<1>8. QED
  BY <1>3, <1>4, <1>6, <1>7 DEF ParseInv

LEMMA ReadFileHeaderInv ==
  ASSUME ParseInv, ReadFileHeader
  PROVE  ParseInv'
<1> USE DEF ReadFileHeader
<1>1. /\ segments = <<>> /\ Len(segments) = 0 /\ segments \in Seq(Segment)
      /\ UNCHANGED <<segments, trailing, dram, imem, files, status>>
      /\ files = {} /\ pc' \in {"trailer", "segments"}
      /\ num_segments' \in Nat /\ num_segments' \in 0 .. MaxSegments
      /\ imem_dram' \in ImemStarts
  BY Parse450Assumption, EmptySeq DEF ParseInv, Progress
<1>2. ParseTypeOK'
  BY <1>1 DEF ParseInv, ParseTypeOK
<1>3. Progress' /\ ImagesAreWhole'
  BY <1>1 DEF Progress, ImagesAreWhole
<1>4. LastCovers' /\ DramIsFile'
  BY <1>1 DEF ParseInv, LastCovers, DramIsFile, Covering
<1>5. /\ \A i \in DOMAIN dram : dram[i] = Blank
      /\ \A j \in DOMAIN imem : imem[j] = Blank
  BY DEF ParseInv, Progress
<1>6. ImemMirrorsDram'
  BY <1>1, <1>5 DEF ImemMirrorsDram
<1>7. QED
  BY <1>2, <1>3, <1>4, <1>6 DEF ParseInv

\* Steps that leave the memories and the file alone.
LEMMA KeepsImages ==
  ASSUME ParseInv, pc # "undefined", pc' # "undefined",
         UNCHANGED <<imem_dram, segments, dram, imem>>
  PROVE  LastCovers' /\ DramIsFile' /\ ImemMirrorsDram'
<1>1. \A a : Covering(a)' = Covering(a)
  BY DEF Covering
<1>2. LastCovers' /\ DramIsFile'
  BY <1>1 DEF ParseInv, LastCovers, DramIsFile
<1>3. RegularFile' = RegularFile
  BY DEF RegularFile, Regular
<1>4. ImemMirrorsDram'
  BY <1>3 DEF ParseInv, ImemMirrorsDram
<1>5. QED
  BY <1>2, <1>4

LEMMA FailInv ==
  ASSUME ParseInv, pc # "undefined", Fail
  PROVE  ParseInv'
<1>1. LastCovers' /\ DramIsFile' /\ ImemMirrorsDram'
  BY KeepsImages DEF Fail
<1>2. ParseTypeOK'
  BY DEF ParseInv, ParseTypeOK, Fail
<1>3. Progress' /\ ImagesAreWhole'
  BY DEF ParseInv, Progress, ImagesAreWhole, Fail
<1>4. QED
  BY <1>1, <1>2, <1>3 DEF ParseInv

LEMMA TrailerInv ==
  ASSUME ParseInv, Trailer
  PROVE  ParseInv'
<1>1. CASE trailing
  BY <1>1, FailInv DEF Trailer
<1>2. CASE ~trailing
  <2>1. LastCovers' /\ DramIsFile' /\ ImemMirrorsDram'
    BY <1>2, KeepsImages DEF Trailer
  <2>2. ParseTypeOK'
    BY <1>2 DEF ParseInv, ParseTypeOK, Trailer
  <2>3. Progress' /\ ImagesAreWhole'
    BY <1>2 DEF ParseInv, Progress, ImagesAreWhole, Trailer
  <2>4. QED
    BY <2>1, <2>2, <2>3 DEF ParseInv
<1>3. QED
  BY <1>1, <1>2 DEF ParseInv, ParseTypeOK

LEMMA DumpInv ==
  ASSUME ParseInv, NEW name \in {"dram.bin", "imem.bin"}, Dump(name)
  PROVE  ParseInv'
<1>1. LastCovers' /\ DramIsFile' /\ ImemMirrorsDram'
  BY KeepsImages DEF Dump
<1>2. ParseTypeOK'
  BY DEF ParseInv, ParseTypeOK, Dump
<1>3. Progress' /\ ImagesAreWhole'
  BY DEF ParseInv, Progress, ImagesAreWhole, Dump
<1>4. QED
  BY <1>1, <1>2, <1>3 DEF ParseInv

\* ParseInv is an invariant: one step per action of main.
THEOREM ParseInvariance == ParseSpec => []ParseInv
<1>1. ParseInit => ParseInv
  BY ParseInvInit
<1>2. ParseInv /\ [ParseNext]_parseVars => ParseInv'
  <2>1. SUFFICES ASSUME ParseInv, [ParseNext]_parseVars PROVE ParseInv'
    OBVIOUS
  <2>2. ASSUME Refuse PROVE ParseInv'
    BY <2>1, <2>2, FailInv DEF Refuse
  <2>3. ASSUME ReadFileHeader PROVE ParseInv'
    BY <2>1, <2>3, ReadFileHeaderInv
  <2>4. ASSUME NEW s \in Segment, ReadSegment(s) PROVE ParseInv'
    BY <2>1, <2>4, ReadSegmentType, ReadSegmentDram,
       ReadSegmentImem DEF ParseInv
  <2>5. ASSUME NEW s \in Segment, RefuseSegment(s) PROVE ParseInv'
    BY <2>1, <2>5, FailInv DEF RefuseSegment
  <2>6. ASSUME Truncated PROVE ParseInv'
    BY <2>1, <2>6, FailInv DEF Truncated
  <2>7. ASSUME Trailer PROVE ParseInv'
    BY <2>1, <2>7, TrailerInv
  <2>8. ASSUME NEW name \in {"dram.bin", "imem.bin"}, Dump(name) PROVE ParseInv'
    BY <2>1, <2>8, DumpInv
  <2>9. ASSUME NEW name \in {"dram.bin", "imem.bin"}, DumpFails(name)
        PROVE  ParseInv'
    BY <2>1, <2>9, FailInv DEF DumpFails
  <2>10. ASSUME UNCHANGED parseVars PROVE ParseInv'
    <3>1. \A a : Covering(a)' = Covering(a)
      BY <2>10 DEF parseVars, Covering
    <3>2. RegularFile' = RegularFile
      BY <2>10 DEF parseVars, RegularFile, Regular
    <3>3. ParseTypeOK' /\ Progress' /\ ImagesAreWhole'
      BY <2>1, <2>10 DEF parseVars, ParseInv, ParseTypeOK, Progress, ImagesAreWhole
    <3>4. LastCovers' /\ DramIsFile'
      BY <2>1, <2>10, <3>1 DEF parseVars, ParseInv, LastCovers, DramIsFile
    <3>5. ImemMirrorsDram'
      BY <2>1, <2>10, <3>2 DEF parseVars, ParseInv, ImemMirrorsDram
    <3>6. QED
      BY <3>3, <3>4, <3>5 DEF ParseInv
  <2>11. QED
    BY <2>1, <2>2, <2>3, <2>4, <2>5, <2>6, <2>7, <2>8, <2>9, <2>10
       DEF ParseNext, Ended
<1>3. QED
  BY <1>1, <1>2, PTL DEF ParseSpec

-----------------------------------------------------------------------------
(* The theorems.                                                           *)

\* The variables of main keep their types, the memories their size, and every
\* byte in them names one of a segment that was read and of its buffer.
THEOREM ParseTypeCorrect == ParseSpec => []ParseTypeOK
BY ParseInvariance, PTL DEF ParseInv

\* The DRAM image shows the last segment that covers an address, for every file.
THEOREM DramHoldsFile == ParseSpec => []DramIsFile
BY ParseInvariance, PTL DEF ParseInv

\* The instruction memory shows what the DRAM has under the window.
THEOREM ImemIsWindow == ParseSpec => []ImemMirrorsDram
BY ParseInvariance, PTL DEF ParseInv

\* Images are written of files that were read from the first byte to the last.
THEOREM WholeImages == ParseSpec => []ImagesAreWhole
BY ParseInvariance, PTL DEF ParseInv
=============================================================================
