------------------------ MODULE StreamSessionProofs ------------------------
(***************************************************************************)
(* Proofs about a run of the streamer, for every buffer size, file length  *)
(* and way of probing and playing.                                         *)
(*                                                                         *)
(* Every step of a run is a command of the callback or leaves its state    *)
(* alone, so all that StreamerProofs shows of the callback holds in a run. *)
(* SessionInv adds where the main thread can be while the stream plays,    *)
(* and that the driver's cursor stays in the file.                         *)
(***************************************************************************)
EXTENDS StreamSession, StreamerProofs

LEMMA SessionInvInit == SessionInit => SessionInv
<1> SUFFICES ASSUME SessionInit PROVE SessionInv
  OBVIOUS
<1>1. StreamerInv
  BY InvInit DEF SessionInit
<1>2. SessionTypeOK
  <2>1. 0 \in Positions
    BY StreamerAssumption DEF Positions
  <2>2. QED
    BY <2>1 DEF SessionInit, SessionTypeOK, Calls
<1>3. MainWhilePlaying /\ PlaybackInFile /\ PlayedWhole
  BY DEF SessionInit, MainWhilePlaying, PlaybackInFile, PlayedWhole, Playing
<1>4. QED
  BY <1>1, <1>2, <1>3 DEF SessionInv

-----------------------------------------------------------------------------
(* A step of the session is one invocation of the callback, or none.       *)

LEMMA SessionStep ==
  ASSUME SessionTypeOK, [SessionNext]_sessionVars
  PROVE  [Next]_vars
<1> USE StreamerAssumption DEF Next, Report
<1>1. CASE UNCHANGED sessionVars
  BY <1>1 DEF sessionVars, vars
<1>2. CASE NoDriver \/ LogEnter \/ LogExit \/ SimpleCall \/ OpenReturns \/ TypesCall
           \/ PlayCall \/ PollCall \/ PlayDecode \/ Terminated
  BY <1>2 DEF NoDriver, LogEnter, LogExit, SimpleCall, OpenReturns, TypesCall, PlayCall,
              PollCall, PlayDecode, Terminated, sessionVars, vars
<1>3. CASE OpenStreamCall \/ CloseCall
  BY <1>3 DEF OpenStreamCall, CloseCall
<1>4. CASE PlayFill \/ PlayAhead
  BY <1>4 DEF PlayFill, PlayAhead, FillRequest, vars
<1>5. CASE Probe
  BY <1>5 DEF Probe
<1>6. CASE PlayReport
  BY <1>6 DEF PlayReport, SessionTypeOK
<1>7. QED
  BY <1>1, <1>2, <1>3, <1>4, <1>5, <1>6 DEF SessionNext

-----------------------------------------------------------------------------
(* SessionInv is inductive, conjunct by conjunct.                          *)

LEMMA TypeStep ==
  ASSUME SessionInv, [SessionNext]_sessionVars
  PROVE  SessionTypeOK'
<1> USE DEF SessionInv, SessionTypeOK, Calls, Ended, Simple
<1>1. CASE UNCHANGED sessionVars \/ Terminated
  BY <1>1 DEF sessionVars, mainVars, Terminated
<1>2. CASE NoDriver \/ LogEnter
  BY <1>2 DEF NoDriver, LogEnter
<1>3. CASE LogExit
  <2>1. After(stmt) \in Calls \cup Ended
    BY <1>3 DEF LogExit, After
  <2>2. stmt' \in Calls \cup Ended
    BY <1>3, <2>1 DEF LogExit, Continue
  <2>3. QED
    BY <1>3, <2>2 DEF LogExit
<1>4. CASE SimpleCall \/ OpenReturns \/ TypesCall \/ PlayCall \/ PollCall
  BY <1>4 DEF SimpleCall, OpenReturns, TypesCall, PlayCall, PollCall, Return
<1>5. CASE OpenStreamCall
  <2>1. 0 \in Positions
    BY StreamerAssumption DEF Positions
  <2>2. QED
    BY <1>5, <2>1 DEF OpenStreamCall, Return, mainVars
<1>6. CASE CloseCall \/ Probe \/ PlayFill \/ PlayReport \/ PlayAhead
  BY <1>6
     DEF CloseCall, Return, Probe, PlayFill, PlayReport, PlayAhead, mainVars
<1>7. CASE PlayDecode
  <2>1. /\ lent.size > 0 /\ lent.pos = driver.cursor
        /\ lent.size = Available(lent.pos)
    BY <1>7, InvLentDataIntact DEF PlayDecode, PlaybackInFile, LentDataIntact
  <2>2. driver.cursor \in Nat /\ dos.size \in Positions
    BY StreamerAssumption DEF StreamerInv, TypeOK, Positions
  <2>3. driver.cursor + lent.size <= dos.size
    BY <2>1, <2>2, AvailableBounds, StreamerAssumption DEF Positions
  <2>4. driver.cursor + lent.size \in Positions
    BY <2>1, <2>2, <2>3, StreamerAssumption DEF StreamerInv, TypeOK, Positions
  <2>5. QED
    BY <1>7, <2>4 DEF PlayDecode, mainVars
<1>8. QED
  BY <1>1, <1>2, <1>3, <1>4, <1>5, <1>6, <1>7 DEF SessionNext

LEMMA MainStepInv ==
  ASSUME SessionInv, [SessionNext]_sessionVars
  PROVE  MainWhilePlaying'
<1> USE DEF SessionInv, MainWhilePlaying
<1>1. CASE UNCHANGED sessionVars \/ Terminated
  BY <1>1 DEF sessionVars, mainVars, Terminated
<1>2. CASE NoDriver \/ LogEnter
  BY <1>2 DEF NoDriver, LogEnter
<1>3. CASE LogExit
  BY <1>3 DEF LogExit, Continue, After, Calls, SessionTypeOK
<1>4. CASE SimpleCall \/ OpenReturns \/ TypesCall \/ PlayCall \/ PollCall
  BY <1>4 DEF SimpleCall, OpenReturns, TypesCall, PlayCall, PollCall, Return,
              InCall, Simple, SessionTypeOK
<1>5. CASE OpenStreamCall \/ CloseCall
  BY <1>5 DEF OpenStreamCall, CloseCall, Return, InCall, mainVars, SessionTypeOK
<1>6. CASE Probe \/ PlayFill \/ PlayReport \/ PlayAhead \/ PlayDecode
  BY <1>6 DEF Probe, PlayFill, PlayReport, PlayAhead, PlayDecode, Playing,
              mainVars, SessionTypeOK
<1>7. QED
  BY <1>1, <1>2, <1>3, <1>4, <1>5, <1>6 DEF SessionNext

\* No fill and no report touches the length of the file; a fill leaves the
\* lent registers alone.
LEMMA SameFile ==
  ASSUME SessionInv, SessionTypeOK,
         FillRequest \/ \E p \in Positions : Report(1, p)
  PROVE  /\ dos'.size = dos.size
         /\ FillRequest => UNCHANGED lent
BY DEF FillRequest, FillCurrent, FillNext, Fill, Report, ReportCurrent,
       ReportNext, ReportReset, SeekAndRead, ReadIntoBuf, vars, SessionInv,
       StreamerInv, TypeOK

\* A fill leaves the current buffer filled, or its position past the end.
LEMMA FilledCurrent ==
  ASSUME SessionInv, FillRequest, ~dos'.failed, user_data[1]
  PROVE  read_size'[current_buf'] > 0 \/ dos'.size <= file_position'[current_buf']
<1> USE DEF SessionInv, StreamerInv
<1>1. CASE FillCurrent(1)
  <2>1. PICK n \in {0, Available(dos.pos)} :
          /\ read_size' = [read_size EXCEPT ![current_buf] = n]
          /\ file_position' = [file_position EXCEPT ![current_buf] = current_file_position]
          /\ dos' = [dos EXCEPT !.pos = dos.pos + n,
                                !.failed = @ \/ n # Available(dos.pos)]
    BY <1>1 DEF FillCurrent, Fill, ReadIntoBuf
  <2>2. /\ current_buf \in Bufs /\ dos.pos = current_file_position
        /\ current_buf' = current_buf
    BY <1>1, OpenStream, StreamerAssumption DEF FillCurrent, Fill, hdVars
  <2>3. n = Available(dos.pos)
    BY <2>1 DEF TypeOK
  <2>4. /\ read_size'[current_buf'] = n /\ file_position'[current_buf'] = dos.pos
        /\ dos'.size = dos.size
    BY <2>1, <2>2 DEF TypeOK
  <2>5. QED
    BY <2>3, <2>4, StreamerAssumption DEF Available, TypeOK, Positions
<1>2. CASE FillNext(1)
  <2>1. PICK n : read_size' = [read_size EXCEPT ![next_buf] = n]
    BY <1>2 DEF FillNext, Fill, ReadIntoBuf
  <2>2. /\ current_buf \in Bufs /\ current_buf # next_buf
        /\ current_buf' = current_buf /\ read_size[current_buf] >= 1
    BY <1>2, OpenStream, StreamerAssumption DEF FillNext, Fill, hdVars
  <2>3. read_size'[current_buf'] = read_size[current_buf]
    BY <2>1, <2>2 DEF TypeOK
  <2>4. QED
    BY <2>2, <2>3 DEF TypeOK
<1>3. CASE UNCHANGED vars /\ \A b \in Bufs : read_size[b] > 0
  BY <1>3, TwoBuffers DEF vars, BufferChain
<1>4. QED
  BY <1>1, <1>2, <1>3 DEF FillRequest

\* A request answered by nothing, after a fill and with no failed read, is one
\* for a position past the end; what is lent was asked for.
LEMMA ReportAtCursor ==
  ASSUME SessionInv, Playing("report"), Report(1, driver.cursor)
  PROVE  /\ lent'.size > 0 => lent'.pos = driver.cursor
         /\ ~(lent'.size > 0) /\ ~dos'.failed => dos.size <= driver.cursor
<1> USE DEF SessionInv, StreamerInv
<1>1. lent'.size > 0 => lent'.pos = driver.cursor
  BY DEF Report, ReportCurrent, ReportNext, ReportReset, Submission, NotLent
<1>2. SUFFICES ASSUME ~(lent'.size > 0), ~dos'.failed
               PROVE  dos.size <= driver.cursor
  BY <1>1
<1>3. driver.cursor \in Positions /\ driver.cursor \in Nat
  BY StreamerAssumption DEF SessionTypeOK, Positions
<1>4. /\ current_buf \in Bufs /\ next_buf \in Bufs
      /\ read_size[current_buf] \in Nat /\ read_size[next_buf] \in Nat
  BY OpenStream, StreamerAssumption
     DEF Report, ReportCurrent, ReportNext, ReportReset, TypeOK
<1>5. CASE ReportCurrent(1, driver.cursor)
  <2>1. ~(read_size[current_buf] > 0)
    BY <1>2, <1>4, <1>5 DEF ReportCurrent, Submission
  <2>2. ~dos.failed
    BY <1>2, <1>5 DEF ReportCurrent
  <2>3. QED
    BY <1>5, <2>1, <2>2 DEF ReportCurrent, PlaybackInFile
<1>6. CASE ReportNext(1, driver.cursor)
  BY <1>2, <1>4, <1>6 DEF ReportNext, Submission
<1>7. CASE ReportReset(1, driver.cursor)
  <2>1. PICK n \in {0, Available(driver.cursor)} :
          /\ read_size' = [[b \in Bufs |-> 0] EXCEPT ![current_buf] = n]
          /\ dos' = [dos EXCEPT !.pos = driver.cursor + n,
                                !.failed = @ \/ n # Available(driver.cursor)]
    BY <1>7 DEF ReportReset, SeekAndRead, ReadIntoBuf
  <2>2. n = Available(driver.cursor)
    BY <1>2, <2>1 DEF TypeOK
  <2>3. ~(n > 0)
    BY <1>2, <1>4, <1>7, <2>1 DEF ReportReset, Submission
  <2>4. QED
    BY <1>3, <2>2, <2>3, StreamerAssumption DEF Available, TypeOK, Positions
<1>8. QED
  BY <1>5, <1>6, <1>7 DEF Report

\* No fill and no report opens or closes the stream.
LEMMA SameStream ==
  ASSUME FillRequest \/ \E p \in Positions : Report(1, p)
  PROVE  UNCHANGED user_data
BY DEF FillRequest, FillCurrent, FillNext, Fill, Report, ReportCurrent,
       ReportNext, ReportReset, vars

LEMMA PlaybackStep ==
  ASSUME SessionInv, [SessionNext]_sessionVars
  PROVE  PlaybackInFile' /\ PlayedWhole'
<1> USE DEF SessionInv, PlaybackInFile, PlayedWhole, Playing, SessionTypeOK
<1>1. CASE UNCHANGED sessionVars \/ Terminated
  BY <1>1 DEF sessionVars, vars, Terminated
<1>2. CASE NoDriver \/ LogEnter \/ LogExit \/ TypesCall \/ PollCall
  BY <1>2 DEF NoDriver, LogEnter, LogExit, TypesCall, PollCall, vars
<1>3. CASE SimpleCall \/ OpenReturns \/ PlayCall
  BY <1>3 DEF SimpleCall, OpenReturns, PlayCall, vars
<1>4. CASE OpenStreamCall
  <2>1. CASE OpenHandle(1) /\ driver' = [driver EXCEPT !.stream = "probing", !.cursor = 0]
    <3>1. user_data'[1] /\ dos'.size \in FileSizes
      BY <2>1, StreamerAssumption DEF OpenHandle, StreamerInv, TypeOK
    <3>2. 0 <= dos'.size
      <4>1. PICK n \in FileSizes : dos'.size = n
        BY <3>1
      <4>2. n \in 0 .. UINT32 - 1 /\ UINT32 - 1 \in Int
        BY StreamerAssumption
      <4>3. QED
        BY <4>1, <4>2
    <3>3. QED
      BY <2>1, <3>1, <3>2
  <2>2. CASE driver.stream = "none" /\ UNCHANGED driver
    BY <2>2
  <2>3. QED
    BY <1>4, <2>1, <2>2 DEF OpenStreamCall
<1>5. CASE CloseCall
  BY <1>5 DEF CloseCall
<1>6. CASE Probe
  <2>1. driver.stream = "probing" /\ UNCHANGED driver
    BY <1>6 DEF Probe
  <2>2. dos'.size = dos.size /\ UNCHANGED user_data
    BY <1>6, SameFile, SameStream DEF Probe, FillRequest
  <2>3. QED
    BY <2>1, <2>2
<1>7. CASE PlayFill
  <2>1. /\ FillRequest /\ user_data[1] /\ driver.stream = "playing"
        /\ driver' = [driver EXCEPT !.next = "report"]
    BY <1>7 DEF PlayFill
  <2>2. dos'.size = dos.size /\ UNCHANGED user_data
    BY <2>1, SameFile, SameStream
  <2>3. ~dos'.failed => read_size'[current_buf'] > 0
                        \/ dos'.size <= file_position'[current_buf']
    BY <2>1, FilledCurrent
  <2>4. QED
    BY <2>1, <2>2, <2>3
<1>8. CASE PlayReport
  <2>1. /\ Playing("report") /\ Report(1, driver.cursor) /\ user_data[1]
        /\ driver.cursor \in Positions /\ driver.cursor <= dos.size
        /\ driver' = IF lent'.size > 0 THEN [driver EXCEPT !.next = "decode"]
                     ELSE [driver EXCEPT !.stream = "paused"]
    BY <1>8 DEF PlayReport
  <2>2. dos'.size = dos.size /\ UNCHANGED user_data
    BY <2>1, SameFile, SameStream
  <2>3. /\ lent'.size > 0 => lent'.pos = driver.cursor
        /\ ~(lent'.size > 0) /\ ~dos'.failed => dos.size <= driver.cursor
    BY <2>1, ReportAtCursor
  <2>4. driver.cursor \in Int /\ dos.size \in Int
    BY <2>1, StreamerAssumption DEF Positions, StreamerInv, TypeOK
  <2>5. QED
    BY <2>1, <2>2, <2>3, <2>4
<1>9. CASE PlayAhead
  <2>1. driver.stream = "playing" /\ driver.next = "decode" /\ UNCHANGED driver
    BY <1>9 DEF PlayAhead
  <2>2. dos'.size = dos.size /\ UNCHANGED <<user_data, lent>>
    BY <1>9, SameFile, SameStream DEF PlayAhead
  <2>3. QED
    BY <2>1, <2>2
<1>10. CASE PlayDecode
  <2>1. /\ lent.size > 0 /\ lent.pos = driver.cursor
        /\ lent.size = Available(lent.pos)
    BY <1>10, InvLentDataIntact DEF PlayDecode, LentDataIntact
  <2>2. driver.cursor \in Nat /\ dos.size \in Nat
    BY StreamerAssumption DEF StreamerInv, TypeOK, Positions
  <2>3. driver.cursor + lent.size <= dos.size
    BY <2>1, <2>2, AvailableBounds
  <2>4. /\ driver' = [driver EXCEPT !.next = "fill", !.cursor = @ + lent.size]
        /\ UNCHANGED vars /\ driver.stream = "playing"
    BY <1>10 DEF PlayDecode
  <2>5. QED
    BY <2>3, <2>4 DEF vars
<1>11. QED
  BY <1>1, <1>2, <1>3, <1>4, <1>5, <1>6, <1>7, <1>8, <1>9, <1>10 DEF SessionNext

-----------------------------------------------------------------------------
(* The theorems.                                                           *)

\* SessionInv holds throughout every run.
THEOREM SessionInvariance == SessionSpec => []SessionInv
<1>1. SessionInit => SessionInv
  BY SessionInvInit
<1>2. SessionInv /\ [SessionNext]_sessionVars => SessionInv'
  <2> SUFFICES ASSUME SessionInv, [SessionNext]_sessionVars PROVE SessionInv'
    OBVIOUS
  <2>1. StreamerInv'
    BY SessionStep, InvStep DEF SessionInv
  <2>2. QED
    BY <2>1, TypeStep, MainStepInv, PlaybackStep DEF SessionInv
<1>3. QED
  BY <1>1, <1>2, PTL DEF SessionSpec

\* A run uses the callback only as module Streamer allows, so that every
\* theorem about Spec is one about the run.
THEOREM SessionIsStreamer == SessionSpec => Spec
<1>1. SessionInit => Init
  BY DEF SessionInit
<1>2. SessionInv /\ [SessionNext]_sessionVars => [Next]_vars
  BY SessionStep DEF SessionInv
<1>3. QED
  BY <1>1, <1>2, SessionInvariance, PTL DEF SessionSpec, Spec

\* The interrupt of the playback never comes while the main thread is in DOS.
THEOREM NoReentry == SessionSpec => []DosNotReentered
<1>1. SessionInv => DosNotReentered
  BY DEF SessionInv, MainWhilePlaying, DosNotReentered, InDOS, SessionTypeOK,
         Calls, Ended
<1>2. QED
  BY <1>1, SessionInvariance, PTL

\* A playback that was not cut short by DOS has played the file to its end.
THEOREM WholeFile == SessionSpec => []PlayedWhole
<1>1. SessionInv => PlayedWhole
  BY DEF SessionInv
<1>2. QED
  BY <1>1, SessionInvariance, PTL

\* Every variable of a run keeps its type.
THEOREM SessionTypeCorrect == SessionSpec => []SessionTypeOK
<1>1. SessionInv => SessionTypeOK
  BY DEF SessionInv
<1>2. QED
  BY <1>1, SessionInvariance, PTL

-----------------------------------------------------------------------------
(* How a run ends.  An abort follows an answer no playback was started on,  *)
(* and from the return of rm_close on nothing is open any more.             *)

Closed == ~user_data[1] /\ rm_handle = 0 /\ driver.stream = "none"

\* The inductive invariant of the end of a run, relative to SessionInv.
EndInv == /\ answer = "failed" => driver.stream # "playing"
          /\ stmt = "aborted" => answer = "failed"
          /\ stmt = "close" /\ phase = "exit" => Closed
          /\ stmt = "end" => Closed /\ ~muted

\* Once the stream is closed the driver and the callback rest.
LEMMA ClosedRests ==
  ASSUME SessionInv, Closed, stmt = "end" \/ (stmt = "close" /\ phase = "exit"),
         [SessionNext]_sessionVars
  PROVE  UNCHANGED <<vars, driver>>
<1> USE DEF SessionInv, SessionTypeOK, Closed, Calls, Ended, Simple
<1>1. CASE UNCHANGED sessionVars \/ Terminated \/ NoDriver \/ LogEnter \/ LogExit
  BY <1>1 DEF sessionVars, Terminated, NoDriver, LogEnter, LogExit
<1>2. CASE \/ SimpleCall \/ OpenStreamCall \/ Probe \/ OpenReturns \/ TypesCall
           \/ PlayCall \/ PollCall \/ CloseCall
  BY <1>2 DEF SimpleCall, OpenStreamCall, Probe, OpenReturns, TypesCall,
              PlayCall, PollCall, CloseCall, InCall
<1>3. CASE PlayFill \/ PlayReport \/ PlayAhead \/ PlayDecode
  BY <1>3 DEF PlayFill, PlayReport, PlayAhead, PlayDecode, Playing
<1>4. QED
  BY <1>1, <1>2, <1>3 DEF SessionNext

LEMMA EndStep ==
  ASSUME SessionInv, EndInv, [SessionNext]_sessionVars
  PROVE  EndInv'
<1> USE DEF SessionInv, EndInv, SessionTypeOK
<1>1. CASE UNCHANGED sessionVars \/ Terminated \/ LogEnter
  <2>1. UNCHANGED <<user_data, rm_handle, driver, stmt, answer, muted>>
    BY <1>1 DEF sessionVars, mainVars, vars, hdVars, Terminated, LogEnter
  <2>2. phase' = phase \/ phase' = "int80"
    BY <1>1 DEF sessionVars, mainVars, Terminated, LogEnter
  <2>3. QED
    BY <2>1, <2>2 DEF Closed
<1>2. CASE LogExit
  <2>1. /\ stmt \in Calls /\ phase = "exit" /\ stmt' = Continue
        /\ phase' = "enter" /\ muted' = (stmt' # "end" /\ (stmt' = "play" \/ muted))
        /\ UNCHANGED <<answer, driver, user_data, rm_handle>>
    BY <1>2 DEF LogExit, vars, hdVars
  <2>2. stmt' = "aborted" => answer = "failed"
    BY <2>1 DEF Continue, After, Calls
  <2>3. stmt' = "end" => stmt = "close"
    BY <2>1 DEF Continue, After, Calls
  <2>4. stmt' = "end" => ~muted'
    BY <2>1
  <2>5. QED
    BY <2>1, <2>2, <2>3, <2>4 DEF Closed
<1>3. CASE SimpleCall \/ OpenStreamCall \/ OpenReturns \/ TypesCall \/ PlayCall
           \/ PollCall
  <2>1. stmt \notin {"close", "end", "aborted"} /\ stmt' = stmt
    BY <1>3 DEF SimpleCall, OpenStreamCall, OpenReturns, TypesCall, PlayCall,
                PollCall, InCall, Return, Simple, mainVars
  <2>2. answer' = "failed" => driver'.stream # "playing"
    BY <1>3 DEF SimpleCall, OpenStreamCall, OpenReturns, TypesCall, PlayCall,
                PollCall, InCall, Return, mainVars, MainWhilePlaying
  <2>3. QED
    BY <2>1, <2>2
<1>4. CASE CloseCall
  <2>1. user_data'[1] = FALSE /\ rm_handle' = 0
    BY <1>4, StreamerAssumption
       DEF CloseCall, CloseHandle, StreamerInv, TypeOK
  <2>2. /\ driver'.stream = "none" /\ stmt' = "close" /\ answer' = "ok"
    BY <1>4 DEF CloseCall, Return, InCall
  <2>3. QED
    BY <2>1, <2>2 DEF Closed
<1>5. CASE Probe \/ PlayFill \/ PlayReport \/ PlayAhead \/ PlayDecode
  <2>1. UNCHANGED mainVars
    BY <1>5 DEF Probe, PlayFill, PlayReport, PlayAhead, PlayDecode
  <2>2. driver'.stream = "playing" => driver.stream = "playing"
    BY <1>5 DEF Probe, PlayFill, PlayReport, PlayAhead, PlayDecode, Playing
  <2>3. CASE stmt = "end" \/ (stmt = "close" /\ phase = "exit")
    BY <2>1, <2>3, ClosedRests DEF Closed, mainVars, vars, hdVars
  <2>4. CASE ~(stmt = "end" \/ (stmt = "close" /\ phase = "exit"))
    BY <2>1, <2>2, <2>4 DEF mainVars
  <2>5. QED
    BY <2>3, <2>4
<1>6. CASE NoDriver
  BY <1>6 DEF NoDriver, MainWhilePlaying
<1>7. QED
  BY <1>1, <1>2, <1>3, <1>4, <1>5, <1>6 DEF SessionNext

LEMMA EndInvariance == SessionSpec => []EndInv
<1>1. SessionInit => EndInv
  BY DEF SessionInit, EndInv
<1>2. SessionInv /\ EndInv /\ [SessionNext]_sessionVars => EndInv'
  BY EndStep
<1>3. QED
  BY <1>1, <1>2, SessionInvariance, PTL DEF SessionSpec

\* A run that comes to its end leaves no stream, no handle and no DOS file
\* open, and its last log line is heard.
THEOREM EndsClean == SessionSpec => []CleanEnd
<1>1. SessionInv /\ EndInv => CleanEnd
  BY DEF SessionInv, StreamerInv, NoHandleLeak, EndInv, Closed, CleanEnd
<1>2. QED
  BY <1>1, SessionInvariance, EndInvariance, PTL

\* However a run ends, the driver plays no stream when it has ended.
THEOREM NothingOutlives == SessionSpec => []NoPlaybackOutlives
<1>1. EndInv => NoPlaybackOutlives
  BY DEF EndInv, Closed, NoPlaybackOutlives, Ended
<1>2. QED
  BY <1>1, EndInvariance, PTL
=============================================================================
