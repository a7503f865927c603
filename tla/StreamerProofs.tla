--------------------------- MODULE StreamerProofs ---------------------------
(***************************************************************************)
(* Proofs about the stream callback, for every buffer size, file length,   *)
(* set of handles and order of the driver's commands.                      *)
(*                                                                         *)
(* StreamerInv is inductive: the chain of the two buffers (BufferChain) is *)
(* what keeps the labels of the buffers true, the labels are what makes    *)
(* the submitted bytes the requested ones, and the position arithmetic     *)
(* stays inside a uint32_t because a filled buffer ends inside the file.   *)
(***************************************************************************)
EXTENDS Streamer, TLAPS

-----------------------------------------------------------------------------
(* Facts about the helpers.                                                *)

\* A read fits in a buffer, and what it returns ends inside the file.
LEMMA AvailableBounds ==
  ASSUME dos.size \in Nat, NEW pos \in Nat
  PROVE  /\ Available(pos) \in 0 .. DMA_BUF_SIZE
         /\ Available(pos) > 0 => pos + Available(pos) <= dos.size
BY StreamerAssumption DEF Available

\* Two buffers that together are buf1 and buf2 are each the other's opposite.
LEMMA TwoBuffers ==
  ASSUME NEW a, NEW b, {a, b} = Bufs
  PROVE  /\ a \in Bufs /\ b \in Bufs /\ a # b
         /\ \A c \in Bufs : c = a \/ c = b
BY DEF Bufs

\* What read_into_buf leaves behind when it reads n bytes into b while DOS's
\* offset and the position kept for the file are both p.
ReadResult(n, b, sizes, p) ==
  /\ n = 0 \/ n = Available(p)
  /\ p + n \in Positions
  /\ read_size' = [sizes EXCEPT ![b] = n]
  /\ file_position' = [file_position EXCEPT ![b] = p]
  /\ current_file_position' = p + n
  /\ dma' = IF n = 0 THEN dma ELSE [dma EXCEPT ![b] = [from |-> p, len |-> n]]
  /\ dos' = [dos EXCEPT !.pos = p + n, !.failed = @ \/ n # Available(p)]

\* The uint32_t addition of read_into_buf does not wrap, since a read ends
\* inside the file.
LEMMA ReadEffect ==
  ASSUME TypeOK, NEW b \in Bufs, NEW sizes \in [Bufs -> 0 .. DMA_BUF_SIZE],
         NEW p \in Positions, ReadIntoBuf(b, sizes, p, p)
  PROVE  \E n \in 0 .. DMA_BUF_SIZE : ReadResult(n, b, sizes, p)
<1>1. PICK n \in {0, Available(p)} :
        /\ read_size' = [sizes EXCEPT ![b] = n]
        /\ file_position' = [file_position EXCEPT ![b] = p]
        /\ current_file_position' = Add32(p, n)
        /\ dma' = IF n = 0 THEN dma
                  ELSE [dma EXCEPT ![b] = [from |-> p, len |-> n]]
        /\ dos' = [dos EXCEPT !.pos = p + n, !.failed = @ \/ n # Available(p)]
  BY DEF ReadIntoBuf
<1>2. dos.size \in Nat /\ dos.size < UINT32 /\ p \in Nat /\ p < UINT32
  BY StreamerAssumption DEF TypeOK, Positions
<1>3. /\ Available(p) \in 0 .. DMA_BUF_SIZE
      /\ Available(p) > 0 => p + Available(p) <= dos.size
  BY <1>2, AvailableBounds
<1>4. n \in 0 .. DMA_BUF_SIZE /\ p + n \in Positions
  BY <1>2, <1>3, StreamerAssumption DEF Positions
<1>5. Add32(p, n) = p + n
  BY <1>2, <1>4, StreamerAssumption DEF Add32, Positions
<1>6. QED
  BY <1>1, <1>4, <1>5 DEF ReadResult

-----------------------------------------------------------------------------
(* StreamerInv is inductive: one lemma per command of the callback.        *)

LEMMA InvInit == Init => StreamerInv
BY StreamerAssumption
   DEF Init, StreamerInv, TypeOK, NoHandleLeak, BufferChain, LentIsCurrent,
       Bufs, Positions, NotLent

LEMMA InvOpenHandle ==
  ASSUME StreamerInv, NEW h \in Handles, OpenHandle(h)
  PROVE  StreamerInv'
<1> USE StreamerAssumption DEF StreamerInv, OpenHandle, SetUpHd, ZeroBuffers
<1>1. TypeOK'
  BY DEF TypeOK, Bufs, Positions, NoHandleLeak
<1>2. NoHandleLeak'
  BY DEF TypeOK, NoHandleLeak, CheckHd, NoFile, FileHandle
<1>3. BufferChain'
  BY DEF BufferChain, Bufs, Available
<1>4. LentIsCurrent'
  BY DEF LentIsCurrent, TypeOK, NoHandleLeak
<1>5. QED
  BY <1>1, <1>2, <1>3, <1>4

LEMMA InvOpenFails ==
  ASSUME StreamerInv, NEW h \in Handles, OpenFails(h)
  PROVE  StreamerInv'
<1> USE StreamerAssumption DEF StreamerInv, OpenFails, SetUpHd, ZeroBuffers
<1>1. TypeOK'
  BY DEF TypeOK, Bufs, Positions
<1>2. NoHandleLeak'
  BY DEF NoHandleLeak
<1>3. BufferChain'
  BY DEF BufferChain
<1>4. LentIsCurrent'
  BY DEF LentIsCurrent, TypeOK
<1>5. QED
  BY <1>1, <1>2, <1>3, <1>4

LEMMA InvCloseHandle ==
  ASSUME StreamerInv, NEW h \in Handles, CloseHandle(h)
  PROVE  StreamerInv'
<1> USE StreamerAssumption
   DEF StreamerInv, CloseHandle, CloseFile, ZeroBuffers, CheckHd
<1>1. h = 1 /\ dos.files = 1
  BY DEF NoHandleLeak
<1>2. TypeOK'
  BY <1>1 DEF TypeOK, Bufs, Positions, NotLent
<1>3. NoHandleLeak'
  BY <1>1 DEF TypeOK, NoHandleLeak
<1>4. BufferChain'
  BY <1>1 DEF BufferChain, TypeOK
<1>5. LentIsCurrent'
  BY DEF LentIsCurrent, NotLent
<1>6. QED
  BY <1>2, <1>3, <1>4, <1>5

\* What StreamerInv says of the handle data once CHECK_HD has let a command in.
LEMMA OpenStream ==
  ASSUME StreamerInv, NEW h \in Handles, CheckHd(h)
  PROVE  /\ h = 1 /\ user_data[1]
         /\ current_buf \in Bufs /\ next_buf \in Bufs /\ current_buf # next_buf
         /\ \A b \in Bufs : b = current_buf \/ b = next_buf
         /\ dos.pos = current_file_position /\ current_file_position \in Positions
<1>1. h = 1 /\ user_data[1]
  BY DEF StreamerInv, NoHandleLeak, CheckHd
<1>2. {current_buf, next_buf} = Bufs /\ dos.pos = current_file_position
  BY <1>1 DEF StreamerInv, BufferChain
<1>3. QED
  BY <1>1, <1>2, TwoBuffers DEF StreamerInv, TypeOK

LEMMA InvFillCurrent ==
  ASSUME StreamerInv, NEW h \in Handles, FillCurrent(h)
  PROVE  StreamerInv'
<1> DEFINE p == current_file_position
<1>1. CheckHd(h) /\ read_size[current_buf] = 0
  BY OpenStream DEF FillCurrent, StreamerInv, TypeOK
<1>2. /\ user_data[1]
      /\ current_buf \in Bufs /\ next_buf \in Bufs /\ current_buf # next_buf
      /\ \A b \in Bufs : b = current_buf \/ b = next_buf
      /\ dos.pos = p /\ p \in Positions
  BY <1>1, OpenStream
<1>3. read_size[next_buf] = 0
  BY <1>1, <1>2 DEF StreamerInv, BufferChain, TypeOK
<1>4. /\ ReadIntoBuf(current_buf, read_size, p, p)
      /\ UNCHANGED <<rm_handle, dos_file_handle, current_buf, next_buf,
                     user_data, lent>>
      /\ TypeOK /\ read_size \in [Bufs -> 0 .. DMA_BUF_SIZE]
  BY <1>2 DEF StreamerInv, TypeOK, FillCurrent, Fill, hdVars
<1>5. PICK n \in 0 .. DMA_BUF_SIZE : ReadResult(n, current_buf, read_size, p)
  BY <1>2, <1>4, ReadEffect
<1>6. TypeOK'
  BY <1>2, <1>4, <1>5 DEF StreamerInv, TypeOK, ReadResult
<1>7. NoHandleLeak'
  BY <1>4, <1>5 DEF StreamerInv, NoHandleLeak, CheckHd, TypeOK, ReadResult
<1>8. BufferChain'
  BY <1>2, <1>3, <1>4, <1>5, StreamerAssumption
     DEF StreamerInv, BufferChain, TypeOK, Available, Positions,
         ReadResult
<1>9. LentIsCurrent'
  BY <1>1, <1>4 DEF StreamerInv, LentIsCurrent, TypeOK
<1>10. QED
  BY <1>6, <1>7, <1>8, <1>9 DEF StreamerInv

LEMMA InvFillNext ==
  ASSUME StreamerInv, NEW h \in Handles, FillNext(h)
  PROVE  StreamerInv'
<1> DEFINE p == current_file_position
<1>1. CheckHd(h) /\ read_size[current_buf] > 0 /\ read_size[next_buf] = 0
  BY OpenStream DEF FillNext, StreamerInv, TypeOK
<1>2. /\ user_data[1]
      /\ current_buf \in Bufs /\ next_buf \in Bufs /\ current_buf # next_buf
      /\ \A b \in Bufs : b = current_buf \/ b = next_buf
      /\ dos.pos = p /\ p \in Positions
  BY <1>1, OpenStream
<1>3. p = file_position[current_buf] + read_size[current_buf]
  BY <1>1, <1>2 DEF StreamerInv, BufferChain
<1>4. /\ ReadIntoBuf(next_buf, read_size, p, p)
      /\ UNCHANGED <<rm_handle, dos_file_handle, current_buf, next_buf,
                     user_data, lent>>
      /\ TypeOK /\ read_size \in [Bufs -> 0 .. DMA_BUF_SIZE]
  BY <1>2 DEF StreamerInv, TypeOK, FillNext, Fill, hdVars
<1>5. PICK n \in 0 .. DMA_BUF_SIZE : ReadResult(n, next_buf, read_size, p)
  BY <1>2, <1>4, ReadEffect
<1>6. TypeOK'
  BY <1>2, <1>4, <1>5 DEF StreamerInv, TypeOK, ReadResult
<1>7. NoHandleLeak'
  BY <1>4, <1>5 DEF StreamerInv, NoHandleLeak, CheckHd, TypeOK, ReadResult
<1>8. BufferChain'
  BY <1>1, <1>2, <1>3, <1>4, <1>5, StreamerAssumption
     DEF StreamerInv, BufferChain, TypeOK, Available, Positions,
         ReadResult
<1>9. LentIsCurrent'
  BY <1>2, <1>4, <1>5 DEF StreamerInv, LentIsCurrent, TypeOK, ReadResult
<1>10. QED
  BY <1>6, <1>7, <1>8, <1>9 DEF StreamerInv

LEMMA InvReportCurrent ==
  ASSUME StreamerInv, NEW h \in Handles, NEW p \in Positions,
         ReportCurrent(h, p)
  PROVE  StreamerInv'
<1>1. user_data[1] /\ current_buf \in Bufs
  BY OpenStream DEF ReportCurrent
<1>2. TypeOK'
  BY <1>1, StreamerAssumption
        DEF StreamerInv, TypeOK, ReportCurrent, hdVars, Submission, NotLent, Positions
<1>3. NoHandleLeak' /\ BufferChain'
  BY DEF StreamerInv, NoHandleLeak, CheckHd, BufferChain, Available,
         ReportCurrent, hdVars
<1>4. LentIsCurrent'
  BY <1>1 DEF StreamerInv, TypeOK, LentIsCurrent, ReportCurrent, hdVars,
              Submission, NotLent
<1>5. QED
  BY <1>2, <1>3, <1>4 DEF StreamerInv

LEMMA InvReportNext ==
  ASSUME StreamerInv, NEW h \in Handles, NEW p \in Positions,
         ReportNext(h, p)
  PROVE  StreamerInv'
<1>1. /\ user_data[1]
      /\ current_buf \in Bufs /\ next_buf \in Bufs /\ current_buf # next_buf
      /\ \A b \in Bufs : b = current_buf \/ b = next_buf
  BY OpenStream DEF ReportNext
<1>2. TypeOK'
  BY <1>1, StreamerAssumption
     DEF StreamerInv, TypeOK, ReportNext, Submission, NotLent
<1>3. NoHandleLeak'
  BY DEF StreamerInv, NoHandleLeak, CheckHd, ReportNext
<1>4. BufferChain'
  BY <1>1, StreamerAssumption
     DEF StreamerInv, TypeOK, BufferChain, Available, ReportNext, Positions
<1>5. LentIsCurrent'
  BY <1>1
     DEF StreamerInv, TypeOK, LentIsCurrent, ReportNext, Submission, NotLent
<1>6. QED
  BY <1>2, <1>3, <1>4, <1>5 DEF StreamerInv

LEMMA InvReportReset ==
  ASSUME StreamerInv, NEW h \in Handles, NEW p \in Positions,
         ReportReset(h, p)
  PROVE  StreamerInv'
<1> DEFINE empty == [b \in Bufs |-> 0]
<1>1. /\ user_data[1]
      /\ current_buf \in Bufs /\ next_buf \in Bufs /\ current_buf # next_buf
      /\ \A b \in Bufs : b = current_buf \/ b = next_buf
  BY OpenStream DEF ReportReset, SeekAndRead
<1>2. /\ ReadIntoBuf(current_buf, empty, p, p)
      /\ lent' = Submission(current_buf, p, read_size'[current_buf])
      /\ UNCHANGED <<rm_handle, dos_file_handle, current_buf, next_buf, user_data>>
      /\ TypeOK /\ empty \in [Bufs -> 0 .. DMA_BUF_SIZE]
  BY StreamerAssumption DEF StreamerInv, ReportReset, SeekAndRead, hdVars
<1>3. PICK n \in 0 .. DMA_BUF_SIZE : ReadResult(n, current_buf, empty, p)
  BY <1>1, <1>2, ReadEffect
<1>4. lent' = Submission(current_buf, p, n)
  BY <1>1, <1>2, <1>3 DEF ReadResult
<1>5. TypeOK'
  <2>1. lent' \in [buf : Bufs \cup {0}, pos : Positions, size : 0 .. DMA_BUF_SIZE]
    BY <1>1, <1>4, StreamerAssumption DEF Submission, NotLent, Positions
  <2>2. QED
    BY <1>1, <1>2, <1>3, <2>1, StreamerAssumption DEF TypeOK, ReadResult
<1>6. NoHandleLeak'
  BY <1>2, <1>3 DEF StreamerInv, TypeOK, NoHandleLeak, CheckHd, ReadResult
<1>7. BufferChain'
  BY <1>1, <1>2, <1>3, StreamerAssumption
     DEF TypeOK, BufferChain, Available, ReadResult, Positions
<1>8. LentIsCurrent'
  BY <1>1, <1>2, <1>3, <1>4
     DEF TypeOK, LentIsCurrent, ReadResult, Submission, NotLent
<1>9. QED
  BY <1>5, <1>6, <1>7, <1>8 DEF StreamerInv

LEMMA InvStep == StreamerInv /\ [Next]_vars => StreamerInv'
<1> SUFFICES ASSUME StreamerInv, [Next]_vars PROVE StreamerInv'
  OBVIOUS
<1>1. CASE UNCHANGED vars
  BY <1>1 DEF vars, StreamerInv, TypeOK, NoHandleLeak, CheckHd, BufferChain,
              Available, LentIsCurrent
<1>2. ASSUME NEW h \in Handles, OpenHandle(h) PROVE StreamerInv'
  BY <1>2, InvOpenHandle
<1>3. ASSUME NEW h \in Handles, OpenFails(h) PROVE StreamerInv'
  BY <1>3, InvOpenFails
<1>4. ASSUME NEW h \in Handles, FillCurrent(h) PROVE StreamerInv'
  BY <1>4, InvFillCurrent
<1>5. ASSUME NEW h \in Handles, FillNext(h) PROVE StreamerInv'
  BY <1>5, InvFillNext
<1>6. ASSUME NEW h \in Handles, NEW p \in Positions, ReportCurrent(h, p)
      PROVE  StreamerInv'
  BY <1>6, InvReportCurrent
<1>7. ASSUME NEW h \in Handles, NEW p \in Positions, ReportNext(h, p)
      PROVE  StreamerInv'
  BY <1>7, InvReportNext
<1>8. ASSUME NEW h \in Handles, NEW p \in Positions, ReportReset(h, p)
      PROVE  StreamerInv'
  BY <1>8, InvReportReset
<1>9. ASSUME NEW h \in Handles, CloseHandle(h) PROVE StreamerInv'
  BY <1>9, InvCloseHandle
<1>10. QED
  BY <1>1, <1>2, <1>3, <1>4, <1>5, <1>6, <1>7, <1>8, <1>9 DEF Next

-----------------------------------------------------------------------------
(* The theorems.                                                           *)

\* StreamerInv holds in every state the callback can be left in.
THEOREM Invariance == Spec => []StreamerInv
<1>1. Init => StreamerInv
  BY InvInit
<1>2. StreamerInv /\ [Next]_vars => StreamerInv'
  BY InvStep
<1>3. QED
  BY <1>1, <1>2, PTL DEF Spec

\* Every variable keeps its type; in particular current_file_position and
\* DOS's offset never leave the range of a uint32_t.
THEOREM TypeCorrect == Spec => []TypeOK
<1>1. StreamerInv => TypeOK
  BY DEF StreamerInv
<1>2. QED
  BY <1>1, Invariance, PTL

\* No DOS file handle is lost by the open and close commands (cases 4 and 5).
THEOREM HandlesKept == Spec => []NoHandleLeak
<1>1. StreamerInv => NoHandleLeak
  BY DEF StreamerInv
<1>2. QED
  BY <1>1, Invariance, PTL

\* The labels of the two buffers are true after every command.
THEOREM ChainKept == Spec => []BufferChain
<1>1. StreamerInv => BufferChain
  BY DEF StreamerInv
<1>2. QED
  BY <1>1, Invariance, PTL

LEMMA InvLentDataIntact == StreamerInv => LentDataIntact
BY DEF StreamerInv, TypeOK, BufferChain, LentIsCurrent, LentDataIntact, Bufs

\* What the driver was lent is, until its next request, all it asked for.
THEOREM DataIntact == Spec => []LentDataIntact
<1>1. QED
  BY InvLentDataIntact, Invariance, PTL

\* A sequential driver is served from the buffer that was filled ahead.
THEOREM ReadAhead == Spec => ReadAheadServes
<1> DEFINE Served(h, p) ==
      /\ Report(h, p)
      /\ read_size[next_buf] > 0
      /\ p = file_position[current_buf] + read_size[current_buf]
      => UNCHANGED dos /\ lent'.size > 0
<1>1. ASSUME StreamerInv, NEW h \in Handles, NEW p \in Positions
      PROVE  Served(h, p)
  <2>1. SUFFICES ASSUME Report(h, p), read_size[next_buf] > 0,
                        p = file_position[current_buf] + read_size[current_buf]
                 PROVE  UNCHANGED dos /\ lent'.size > 0
    OBVIOUS
  <2>2. user_data[1] /\ current_buf \in Bufs /\ next_buf \in Bufs
    BY <1>1, <2>1, OpenStream
       DEF Report, ReportCurrent, ReportNext, ReportReset,
       SeekAndRead
  <2>3. /\ p = file_position[next_buf]
        /\ p # file_position[current_buf]
    BY <1>1, <2>1, <2>2 DEF StreamerInv, BufferChain, TypeOK, Positions
  <2>4. ReportNext(h, p)
    BY <2>1, <2>2, <2>3
       DEF Report, ReportCurrent, ReportReset, StreamerInv, TypeOK
  <2>5. QED
    BY <2>1, <2>4 DEF ReportNext, Submission
<1>2. StreamerInv => [\A h \in Handles, p \in Positions : Served(h, p)]_vars
  BY <1>1
<1>3. QED
  BY <1>2, Invariance, PTL DEF ReadAheadServes

-----------------------------------------------------------------------------
(* The callback implements StreamSource.                                   *)

LEMMA SourceInit == Init => Source!Init
BY StreamerAssumption
   DEF Init, NotLent, Source!Init, Source!NoStream, Source!Nothing

\* What a submission shows the driver is a chunk of the file.
LEMMA SubmissionServes ==
  ASSUME StreamerInv, StreamerInv', NEW p \in Positions,
         user_data[1], user_data'[1], dos'.size = dos.size,
         lent'.size > 0 => lent'.pos = p
  PROVE  Source!Serve \/ Source!Withhold
<1>1. CASE lent'.size > 0
  <2>1. LentDataIntact'
    BY DEF StreamerInv, TypeOK, BufferChain, LentIsCurrent, LentDataIntact, Bufs
  <2>2. /\ dma'[lent'.buf] = [from |-> p, len |-> lent'.size]
        /\ lent'.size = IF dos.size <= p THEN 0
                        ELSE IF dos.size - p < DMA_BUF_SIZE THEN dos.size - p
                        ELSE DMA_BUF_SIZE
    BY <1>1, <2>1 DEF LentDataIntact, Available
  <2>3. p \in Nat /\ dos.size \in Nat
    BY StreamerAssumption DEF StreamerInv, TypeOK, Positions
  <2>4. p \in 0 .. dos.size - 1
    BY <1>1, <2>2, <2>3
  <2>5. lent'.size = Source!ChunkAt(p)
    BY <1>1, <2>2, <2>3, <2>4 DEF Source!ChunkAt
  <2>6. QED
    BY <1>1, <2>2, <2>4, <2>5 DEF Source!Serve
<1>2. CASE ~(lent'.size > 0)
  BY <1>2, StreamerAssumption
        DEF Source!Withhold, Source!NoStream, Source!Nothing, StreamerInv, TypeOK, Positions
<1>3. QED
  BY <1>1, <1>2

\* The driver sees nothing while the current buffer is empty, and a fill never
\* writes into the current buffer otherwise.
LEMMA FillStutters ==
  ASSUME StreamerInv, NEW h \in Handles, FillCurrent(h) \/ FillNext(h)
  PROVE  UNCHANGED Source!sourceVars
<1>1. user_data[1]
  BY OpenStream DEF FillCurrent, FillNext
<1>2. /\ UNCHANGED <<user_data, lent>>
      /\ dos'.size = dos.size
  BY DEF FillCurrent, FillNext, Fill, ReadIntoBuf, StreamerInv, TypeOK
<1>3. CASE lent.size > 0
  <2>1. lent.buf = current_buf /\ read_size[current_buf] >= 1
    BY <1>3 DEF StreamerInv, LentIsCurrent, TypeOK
  <2>2. FillNext(h) /\ {current_buf, next_buf} = Bufs
    BY <1>1, <2>1 DEF FillCurrent, StreamerInv, BufferChain, TypeOK
  <2>3. \E r : dma' = dma \/ dma' = [dma EXCEPT ![next_buf] = r]
    BY <2>2 DEF FillNext, Fill, ReadIntoBuf
  <2>4. dma'[lent.buf] = dma[lent.buf]
    BY <2>1, <2>2, <2>3, TwoBuffers DEF StreamerInv, TypeOK
  <2>5. QED
    BY <1>2, <2>4 DEF Source!sourceVars
<1>4. CASE ~(lent.size > 0)
  BY <1>2, <1>4 DEF Source!sourceVars
<1>5. QED
  BY <1>3, <1>4

LEMMA SourceStep ==
  ASSUME StreamerInv, StreamerInv', [Next]_vars
  PROVE  [Source!Next]_Source!sourceVars
<1>1. CASE UNCHANGED vars
  BY <1>1 DEF vars, Source!sourceVars
<1>2. ASSUME NEW h \in Handles, OpenHandle(h) PROVE Source!Open
  <2>1. h = 1 /\ ~user_data[1] /\ user_data'[1] /\ UNCHANGED lent
    BY <1>2 DEF OpenHandle, SetUpHd, StreamerInv, TypeOK
  <2>2. ~(lent.size > 0)
    BY <2>1 DEF StreamerInv, LentIsCurrent
  <2>3. dos'.size \in FileSizes
    BY <1>2 DEF OpenHandle
  <2>4. QED
    BY <2>1, <2>2, <2>3 DEF Source!Open, Source!NoStream, Source!Nothing
<1>3. ASSUME NEW h \in Handles, OpenFails(h) PROVE UNCHANGED Source!sourceVars
  BY <1>3 DEF OpenFails, SetUpHd, Source!sourceVars
<1>4. ASSUME NEW h \in Handles, FillCurrent(h) \/ FillNext(h)
      PROVE  UNCHANGED Source!sourceVars
  BY <1>4, FillStutters
<1>5. ASSUME NEW h \in Handles, NEW p \in Positions, Report(h, p)
      PROVE  Source!Serve \/ Source!Withhold
  <2>1. user_data[1] /\ UNCHANGED user_data
    BY <1>5, OpenStream DEF Report, ReportCurrent, ReportNext, ReportReset
  <2>2. dos'.size = dos.size
    BY <1>5
       DEF Report, ReportCurrent, ReportNext, ReportReset, SeekAndRead, ReadIntoBuf,
                StreamerInv, TypeOK
  <2>3. lent'.size > 0 => lent'.pos = p
    BY <1>5
       DEF Report, ReportCurrent, ReportNext, ReportReset, Submission, NotLent
  <2>4. QED
    BY <2>1, <2>2, <2>3, SubmissionServes
<1>6. ASSUME NEW h \in Handles, CloseHandle(h) PROVE Source!Close
  <2>1. h = 1 /\ user_data[1] /\ ~user_data'[1] /\ lent' = NotLent
    BY <1>6, OpenStream
       DEF CloseHandle, CloseFile, StreamerInv, TypeOK, NoHandleLeak, CheckHd
  <2>2. QED
    BY <2>1, StreamerAssumption
       DEF Source!Close, Source!NoStream, Source!Nothing, NotLent, StreamerInv,
           TypeOK, Positions
<1>7. QED
  BY <1>1, <1>2, <1>3, <1>4, <1>5, <1>6 DEF Next, Report, Source!Next

\* Whatever the driver asks for, in whatever order, my_callback answers it as
\* a StreamSource does.
THEOREM Refinement == Spec => SourceSpec
<1>1. Init => Source!Init
  BY SourceInit
<1>2. StreamerInv /\ StreamerInv' /\ [Next]_vars => [Source!Next]_Source!sourceVars
  BY SourceStep
<1>3. QED
  BY <1>1, <1>2, Invariance, PTL DEF Spec, SourceSpec, Source!Spec
=============================================================================
