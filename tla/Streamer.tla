------------------------------ MODULE Streamer ------------------------------
(***************************************************************************)
(* The stream callback of rmsdk/streamer.c: the driver calls my_callback   *)
(* with a command, and the callback feeds it a file through two DMA        *)
(* buffers.  One action is one invocation of the callback, from CHECK_HD   *)
(* to its return; an invocation that CHECK_HD rejects changes nothing and  *)
(* has no action.                                                          *)
(*                                                                         *)
(* The driver and DOS are outside the repository.  The driver may send any *)
(* command for any handle in any order, with two exceptions the calls of   *)
(* the SDK justify: it opens a handle only while it holds no stream for    *)
(* it, and it reads the lent buffer only until its next request.  A DOS    *)
(* read returns as much of the file as fits, or fails.                     *)
(***************************************************************************)
EXTENDS Integers

CONSTANTS
  DMA_BUF_SIZE,   \* bytes of one DMA buffer (4096)
  UINT32,         \* number of values of a uint32_t (2^32)
  FileSizes,      \* the lengths the opened file may have
  Handles         \* the driver's media handles

ASSUME StreamerAssumption ==
  /\ DMA_BUF_SIZE \in Nat \ {0}
  /\ UINT32 \in Nat
  /\ DMA_BUF_SIZE < UINT32
  /\ FileSizes \subseteq 0 .. UINT32 - 1
  /\ Handles \subseteq Nat \ {0}
  /\ 1 \in Handles

VARIABLES
  (* struct my_handle_data _hds[0] *)
  rm_handle,
  dos_file_handle,
  current_file_position,
  current_buf, next_buf,        \* 0 stands for NULL
  read_size, file_position,     \* of buf1 and buf2
  (* the memory the buffers point to *)
  dma,                          \* dma[b]: which bytes of the file b holds
  (* the driver *)
  user_data,                    \* user_data[h]: 0x208 of h points to the hd
  lent,                         \* the buffer submitted to it (0x303, 0x304,
                                \* 0x307) and the position it had asked for
  (* DOS *)
  dos                           \* open files; length, offset and whether a
                                \* read failed, of the streamed one

hdVars == <<rm_handle, dos_file_handle, current_buf, next_buf>>
vars   == <<rm_handle, dos_file_handle, current_file_position, current_buf,
            next_buf, read_size, file_position, dma, user_data, lent, dos>>

Bufs       == {1, 2}
Positions  == 0 .. UINT32 - 1
NoFile     == -1                \* what a failed open returns
FileHandle == 5                 \* the first one after DOS's standard handles
NotLent    == [buf |-> 0, pos |-> 0, size |-> 0]

TypeOK ==
  /\ rm_handle \in Handles \cup {0}
  /\ dos_file_handle \in {NoFile, 0, FileHandle}
  /\ current_file_position \in Positions
  /\ current_buf \in Bufs \cup {0}
  /\ next_buf \in Bufs \cup {0}
  /\ read_size \in [Bufs -> 0 .. DMA_BUF_SIZE]
  /\ file_position \in [Bufs -> Positions]
  /\ dma \in [Bufs -> [from : Positions, len : 0 .. DMA_BUF_SIZE]]
  /\ user_data \in [Handles -> BOOLEAN]
  /\ lent \in [buf : Bufs \cup {0}, pos : Positions, size : 0 .. DMA_BUF_SIZE]
  /\ dos \in [files : Nat, size : Positions, pos : Positions, failed : BOOLEAN]

Init ==
  /\ rm_handle = 0 /\ dos_file_handle = 0 /\ current_file_position = 0
  /\ current_buf = 0 /\ next_buf = 0
  /\ read_size     = [b \in Bufs |-> 0]
  /\ file_position = [b \in Bufs |-> 0]
  /\ dma           = [b \in Bufs |-> [from |-> 0, len |-> 0]]
  /\ user_data     = [h \in Handles |-> FALSE]
  /\ lent = NotLent
  /\ dos = [files |-> 0, size |-> 0, pos |-> 0, failed |-> FALSE]

-----------------------------------------------------------------------------
(* Helpers of the callback.                                                *)

\* The tests of CHECK_HD, on the hd the driver returns for h.
CheckHd(h) == /\ user_data[h]
              /\ rm_handle = h
              /\ dos_file_handle # NoFile

\* Addition of uint32_t values, for b < UINT32.
Add32(a, b) == IF a + b < UINT32 THEN a + b ELSE a + b - UINT32

\* Mutant of Available: the read is not limited to one buffer.
AvailableUnlimited(pos) == IF dos.size <= pos THEN 0 ELSE dos.size - pos

\* What a read at offset pos of the streamed file can return.
Available(pos) == IF dos.size <= pos THEN 0
                  ELSE IF dos.size - pos < DMA_BUF_SIZE THEN dos.size - pos
                  ELSE DMA_BUF_SIZE

\* Mutant of ReadIntoBuf: the position is advanced before the buffer is labelled.
ReadIntoBufLabelledLate(b, sizes, cfp, pos) ==
  \E n \in {0, Available(pos)} :
    /\ read_size' = [sizes EXCEPT ![b] = n]
    /\ current_file_position' = Add32(cfp, n)
    /\ file_position' = [file_position EXCEPT ![b] = Add32(cfp, n)]
    /\ dma' = IF n = 0 THEN dma
              ELSE [dma EXCEPT ![b] = [from |-> pos, len |-> n]]
    /\ dos' = [dos EXCEPT !.pos = pos + n,
                          !.failed = @ \/ n # Available(pos)]

\* Mutant of ReadIntoBuf: a read of nothing leaves the old size.
ReadIntoBufStaleSize(b, sizes, cfp, pos) ==
  \E n \in {0, Available(pos)} :
    /\ read_size' = [sizes EXCEPT ![b] = IF n = 0 THEN read_size[b] ELSE n]
    /\ file_position' = [file_position EXCEPT ![b] = cfp]
    /\ current_file_position' = Add32(cfp, n)
    /\ dma' = IF n = 0 THEN dma
              ELSE [dma EXCEPT ![b] = [from |-> pos, len |-> n]]
    /\ dos' = [dos EXCEPT !.pos = pos + n,
                          !.failed = @ \/ n # Available(pos)]

\* read_into_buf with current_file_position = cfp, the sizes the callback has
\* left in the buffers, and DOS's offset at pos.  It returns 0 on an error.
ReadIntoBuf(b, sizes, cfp, pos) ==
  \E n \in {0, Available(pos)} :
    /\ read_size' = [sizes EXCEPT ![b] = n]
    /\ file_position' = [file_position EXCEPT ![b] = cfp]
    /\ current_file_position' = Add32(cfp, n)
    /\ dma' = IF n = 0 THEN dma
              ELSE [dma EXCEPT ![b] = [from |-> pos, len |-> n]]
    /\ dos' = [dos EXCEPT !.pos = pos + n,
                          !.failed = @ \/ n # Available(pos)]

\* set_dos_file_handle_position, then read_into_buf.
SeekAndRead(b, sizes, p) == ReadIntoBuf(b, sizes, p, p)

\* close_dos_file_handle: what DOS is left with.
CloseFile == [dos EXCEPT !.files = @ - 1]

\* The registers of rm_submit_buffer after a request for position p answered
\* from buffer b, which holds n bytes; an empty buffer is not submitted.
Submission(b, p, n) == IF n > 0 THEN [buf |-> b, pos |-> p, size |-> n]
                       ELSE NotLent

\* memset of the handle data.
ZeroBuffers == /\ read_size' = [b \in Bufs |-> 0]
               /\ file_position' = [b \in Bufs |-> 0]
               /\ current_file_position' = 0

-----------------------------------------------------------------------------
(* case 4: opening a handle.                                               *)

\* Mutant of SetUpHd: the one handle data is shared by every handle.
SetUpHdShared(h) == /\ ~user_data[h]
                    /\ ZeroBuffers
                    /\ rm_handle' = h
                    /\ current_buf' = 2
                    /\ next_buf' = 1
                    /\ UNCHANGED <<dma, lent>>

SetUpHd(h) == /\ h = 1
              /\ ~user_data[h]
              /\ ZeroBuffers
              /\ rm_handle' = h
              /\ current_buf' = 2
              /\ next_buf' = 1
              /\ UNCHANGED <<dma, lent>>

OpenHandle(h) ==
  /\ SetUpHd(h)
  /\ dos_file_handle' = FileHandle
  /\ user_data' = [user_data EXCEPT ![h] = TRUE]
  /\ \E n \in FileSizes :
       dos' = [files |-> dos.files + 1, size |-> n, pos |-> 0, failed |-> FALSE]

OpenFails(h) ==
  /\ SetUpHd(h)
  /\ dos_file_handle' = NoFile
  /\ UNCHANGED <<user_data, dos>>

(* case 1: filling a buffer.  A call with both buffers full does nothing.  *)

Fill(b) ==
  /\ ReadIntoBuf(b, read_size, current_file_position, dos.pos)
  /\ UNCHANGED <<hdVars, user_data, lent>>

FillCurrent(h) == /\ CheckHd(h)
                  /\ read_size[current_buf] < 1
                  /\ Fill(current_buf)

\* Mutant of FillNext: the buffer to fill is always the current one.
FillNextIntoCurrent(h) == /\ CheckHd(h)
                          /\ read_size[current_buf] >= 1
                          /\ read_size[next_buf] < 1
                          /\ Fill(current_buf)

FillNext(h) == /\ CheckHd(h)
               /\ read_size[current_buf] >= 1
               /\ read_size[next_buf] < 1
               /\ Fill(next_buf)

(* case 2: reporting the buffer that holds position p.                     *)

ReportCurrent(h, p) ==
  /\ CheckHd(h)
  /\ p = file_position[current_buf]
  /\ lent' = Submission(current_buf, p, read_size[current_buf])
  /\ UNCHANGED <<hdVars, current_file_position, read_size, file_position, dma,
                 user_data, dos>>

\* Mutant of ReportNext: the buffer rotated out keeps its size.
ReportNextUndisposed(h, p) ==
  /\ CheckHd(h)
  /\ p # file_position[current_buf]
  /\ p = file_position[next_buf]
  /\ read_size[next_buf] # 0
  /\ current_buf' = next_buf
  /\ next_buf' = current_buf
  /\ lent' = Submission(next_buf, p, read_size[next_buf])
  /\ UNCHANGED <<rm_handle, dos_file_handle, current_file_position, read_size,
                 file_position, dma, user_data, dos>>

ReportNext(h, p) ==
  /\ CheckHd(h)
  /\ p # file_position[current_buf]
  /\ p = file_position[next_buf]
  /\ read_size[next_buf] # 0
  /\ current_buf' = next_buf
  /\ next_buf' = current_buf
  /\ read_size' = [read_size EXCEPT ![current_buf] = 0]
  /\ lent' = Submission(next_buf, p, read_size[next_buf])
  /\ UNCHANGED <<rm_handle, dos_file_handle, current_file_position,
                 file_position, dma, user_data, dos>>

\* Mutant of ReportReset: the next buffer is not looked at.
ReportResetAlways(h, p) ==
  /\ CheckHd(h)
  /\ p # file_position[current_buf]
  /\ SeekAndRead(current_buf, [b \in Bufs |-> 0], p)
  /\ lent' = Submission(current_buf, p, read_size'[current_buf])
  /\ UNCHANGED <<hdVars, user_data>>

\* Mutant of ReportReset: the file is not sought.
ReportResetUnsought(h, p) ==
  /\ CheckHd(h)
  /\ p # file_position[current_buf]
  /\ ~(p = file_position[next_buf] /\ read_size[next_buf] # 0)
  /\ ReadIntoBuf(current_buf, [b \in Bufs |-> 0], p, dos.pos)
  /\ lent' = Submission(current_buf, p, read_size'[current_buf])
  /\ UNCHANGED <<hdVars, user_data>>

ReportReset(h, p) ==
  /\ CheckHd(h)
  /\ p # file_position[current_buf]
  /\ ~(p = file_position[next_buf] /\ read_size[next_buf] # 0)
  /\ SeekAndRead(current_buf, [b \in Bufs |-> 0], p)
  /\ lent' = Submission(current_buf, p, read_size'[current_buf])
  /\ UNCHANGED <<hdVars, user_data>>

Report(h, p) == ReportCurrent(h, p) \/ ReportNext(h, p) \/ ReportReset(h, p)

(* case 5: closing the handle.                                             *)

CloseHandle(h) ==
  /\ CheckHd(h)
  /\ ZeroBuffers
  /\ rm_handle' = 0
  /\ current_buf' = 0
  /\ next_buf' = 0
  /\ dos_file_handle' = NoFile
  /\ user_data' = [user_data EXCEPT ![h] = FALSE]
  /\ lent' = NotLent
  /\ dos' = CloseFile
  /\ UNCHANGED dma

Next == \E h \in Handles :
          \/ OpenHandle(h)
          \/ OpenFails(h)
          \/ FillCurrent(h)
          \/ FillNext(h)
          \/ \E p \in Positions : \/ ReportCurrent(h, p)
                                  \/ ReportNext(h, p)
                                  \/ ReportReset(h, p)
          \/ CloseHandle(h)

Spec == Init /\ [][Next]_vars

-----------------------------------------------------------------------------
(* Properties.                                                             *)

\* The buffer the driver has been lent holds, for as long as it is lent, all
\* the bytes of the file that were asked for: fills that run ahead of the
\* driver (case 1) never land in it, and a swap or a seek (case 2) never
\* mislabels what it holds.
LentDataIntact ==
  lent.size > 0 =>
    /\ lent.size = Available(lent.pos)
    /\ dma[lent.buf] = [from |-> lent.pos, len |-> lent.size]

\* Every file the callback opened is either that of the one stream the driver
\* knows, or closed again: neither a refused second handle nor a failed open
\* loses the DOS handle kept in _hds[0].
NoHandleLeak ==
  /\ \A h \in Handles : user_data[h] => h = 1 /\ CheckHd(h)
  /\ dos.files = IF user_data[1] THEN 1 ELSE 0

\* The labels of the buffers never lie, in any order of fills, swaps and
\* seeks: a filled buffer holds what its file_position and read_size say, the
\* next buffer continues the current one (and is empty when that one is), and
\* the position kept for the file is the end of the last filled buffer and
\* DOS's own offset.
BufferChain ==
  user_data[1] =>
    LET end(b) == file_position[b] + read_size[b]
    IN  /\ {current_buf, next_buf} = Bufs
        /\ \A b \in Bufs : read_size[b] > 0 =>
             /\ read_size[b] = Available(file_position[b])
             /\ dma[b] = [from |-> file_position[b], len |-> read_size[b]]
        /\ read_size[next_buf] > 0 => /\ read_size[current_buf] > 0
                                      /\ file_position[next_buf] = end(current_buf)
        /\ current_file_position = end(IF read_size[next_buf] > 0 THEN next_buf
                                       ELSE current_buf)
        /\ dos.pos = current_file_position

\* The driver holds the current buffer or none, and none without a stream.
LentIsCurrent ==
  lent.size > 0 => /\ user_data[1]
                   /\ lent = [buf  |-> current_buf,
                              pos  |-> file_position[current_buf],
                              size |-> read_size[current_buf]]

\* The inductive invariant.
StreamerInv == TypeOK /\ NoHandleLeak /\ BufferChain /\ LentIsCurrent

\* Reading ahead pays off: when the driver goes on to the position that
\* follows the current buffer and a fill has loaded the next one, the answer
\* is served from memory, with no DOS call.
ReadAheadServes ==
  [][\A h \in Handles, p \in Positions :
       /\ Report(h, p)
       /\ read_size[next_buf] > 0
       /\ p = file_position[current_buf] + read_size[current_buf]
       => UNCHANGED dos /\ lent'.size > 0]_vars

\* Seen from the driver, through the memory of the lent buffer, the callback
\* is a StreamSource.
Source == INSTANCE StreamSource
            WITH Chunk  <- DMA_BUF_SIZE,
                 Sizes  <- FileSizes,
                 size   <- IF user_data[1] THEN dos.size ELSE -1,
                 asked  <- IF lent.size > 0 THEN lent.pos ELSE 0,
                 served <- IF lent.size > 0 THEN dma[lent.buf]
                           ELSE [from |-> 0, len |-> 0]

SourceSpec == Source!Spec
=============================================================================
