---------------------------- MODULE StreamSession ----------------------------
(***************************************************************************)
(* A whole run of rmsdk/streamer.c: run_test's main thread, the driver it  *)
(* calls through INT 80h, and the callback (module Streamer) the driver    *)
(* calls back, synchronously while it opens or closes the stream and from  *)
(* an interrupt while it plays.                                            *)
(*                                                                         *)
(* The main thread is in DOS whenever it logs, so every driver call takes  *)
(* three steps: the ENTER line, the INT 80h, the EXIT line.  The callback  *)
(* calls DOS itself (AH=2, and AH=3Fh to read the file), and DOS cannot be *)
(* entered twice.                                                          *)
(*                                                                         *)
(* The driver is outside the repository.  It probes the stream it opens at *)
(* any positions; it plays by asking for a fill, then for the bytes at its *)
(* cursor, until a request is answered by nothing.                         *)
(***************************************************************************)
EXTENDS Streamer

VARIABLES
  stmt,      \* the driver call run_test is at, or how it ended
  phase,     \* where in rm_call_fmpdrv it is
  answer,    \* what the last INT 80h returned
  muted,     \* logf.c's _muted
  driver     \* what the driver does with the stream, the position it has
             \* played up to and, while it plays, what it does next

mainVars    == <<stmt, phase, answer, muted>>
sessionVars == <<vars, mainVars, driver>>

\* The calls of run_test, and the order they are made in.
Calls == {"reset", "register", "magic", "open", "types", "zorder", "getptr",
          "play", "poll", "close"}

\* Mutant of After: the stream is checked only once it plays.
AfterPlayFirst(c) == CASE c = "reset"    -> "register"
                       [] c = "register" -> "magic"
                       [] c = "magic"    -> "open"
                       [] c = "open"     -> "zorder"
                       [] c = "zorder"   -> "getptr"
                       [] c = "getptr"   -> "play"
                       [] c = "play"     -> "types"
                       [] c = "types"    -> "poll"
                       [] c = "poll"     -> "close"
                       [] c = "close"    -> "end"

\* Mutant of After: the stream is left open.
AfterUnclosed(c) == CASE c = "reset"    -> "register"
                      [] c = "register" -> "magic"
                      [] c = "magic"    -> "open"
                      [] c = "open"     -> "types"
                      [] c = "types"    -> "zorder"
                      [] c = "zorder"   -> "getptr"
                      [] c = "getptr"   -> "play"
                      [] c = "play"     -> "poll"
                      [] c = "poll"     -> "end"

After(c) == CASE c = "reset"    -> "register"
              [] c = "register" -> "magic"
              [] c = "magic"    -> "open"
              [] c = "open"     -> "types"
              [] c = "types"    -> "zorder"
              [] c = "zorder"   -> "getptr"
              [] c = "getptr"   -> "play"
              [] c = "play"     -> "poll"
              [] c = "poll"     -> "close"
              [] c = "close"    -> "end"

Simple == {"reset", "register", "magic", "zorder", "getptr"}
Ended  == {"end", "aborted"}

SessionTypeOK ==
  /\ stmt \in Calls \cup Ended
  /\ phase \in {"enter", "int80", "exit"}
  /\ answer \in {"ok", "failed", "playing"}
  /\ muted \in BOOLEAN
  /\ driver \in [registered : BOOLEAN,
                 stream : {"none", "probing", "open", "playing", "paused"},
                 cursor : Positions,
                 next   : {"fill", "report", "decode"}]

SessionInit ==
  /\ Init
  /\ stmt = "reset" /\ phase = "enter" /\ answer = "ok" /\ muted = FALSE
  /\ driver = [registered |-> FALSE, stream |-> "none", cursor |-> 0,
               next |-> "fill"]

-----------------------------------------------------------------------------
(* The main thread, outside INT 80h.                                       *)

\* main aborts before run_test's first call reaches a driver: rm_init finds none,
\* or the call finds it elsewhere than at INT 80h.
NoDriver == /\ stmt = "reset" /\ phase = "enter"
            /\ stmt' = "aborted" /\ answer' = "failed"
            /\ UNCHANGED <<vars, phase, muted, driver>>

LogEnter == /\ stmt \in Calls /\ phase = "enter"
            /\ phase' = "int80"
            /\ UNCHANGED <<vars, stmt, answer, muted, driver>>

\* Mutant of Continue: the wait never sees the end of the playback.
ContinueForever == CASE answer = "failed" -> "aborted"
                     [] stmt = "poll"     -> "poll"
                     [] OTHER             -> After(stmt)

\* Where run_test goes when a call has returned.
Continue == CASE answer = "failed"  -> "aborted"
              [] answer = "playing" -> "poll"
              [] OTHER              -> After(stmt)

\* Mutant of LogExit: logging is muted only once the playback has started.
LogExitMutesLate == /\ stmt \in Calls /\ phase = "exit"
                    /\ stmt' = Continue
                    /\ phase' = "enter"
                    /\ muted' = (stmt' # "end" /\ (stmt' = "poll" \/ muted))
                    /\ UNCHANGED <<vars, answer, driver>>

\* The EXIT line, run_test's test of the answer, and the calls of logf_setmute
\* around the playback.
LogExit == /\ stmt \in Calls /\ phase = "exit"
           /\ stmt' = Continue
           /\ phase' = "enter"
           /\ muted' = (stmt' # "end" /\ (stmt' = "play" \/ muted))
           /\ UNCHANGED <<vars, answer, driver>>

MainStep == NoDriver \/ LogEnter \/ LogExit

-----------------------------------------------------------------------------
(* The driver, inside INT 80h.                                             *)

Return(a) == /\ phase' = "exit"
             /\ answer' = a
             /\ UNCHANGED <<stmt, muted>>

InCall(c) == stmt = c /\ phase = "int80"

SimpleCall == /\ stmt \in Simple /\ phase = "int80"
              /\ driver' = [driver EXCEPT !.registered = @ \/ stmt = "register"]
              /\ Return("ok")
              /\ UNCHANGED vars

\* rm_open: the callback is told to open the file (case 4)...
OpenStreamCall == /\ InCall("open") /\ driver.registered /\ driver.stream = "none"
                  /\ \/ /\ OpenHandle(1)
                        /\ driver' = [driver EXCEPT !.stream = "probing", !.cursor = 0]
                        /\ UNCHANGED mainVars
                     \/ /\ OpenFails(1)
                        /\ Return("failed")
                        /\ UNCHANGED driver

\* ... and asked for whatever the driver wants to look at, before rm_open returns.
Probe == /\ InCall("open") /\ driver.stream = "probing"
         /\ \/ FillCurrent(1) \/ FillNext(1)
            \/ \E p \in Positions : Report(1, p)
         /\ UNCHANGED <<mainVars, driver>>

OpenReturns == /\ InCall("open") /\ driver.stream = "probing"
               /\ driver' = [driver EXCEPT !.stream = "open"]
               /\ Return("ok")
               /\ UNCHANGED vars

\* rm_get_stream_types: none, when the driver made no sense of what it read.
TypesCall == /\ InCall("types")
             /\ \E a \in {"ok", "failed"} : Return(a)
             /\ UNCHANGED <<vars, driver>>

PlayCall == /\ InCall("play") /\ driver.stream = "open"
            /\ driver' = [driver EXCEPT !.stream = "playing", !.next = "fill"]
            /\ Return("ok")
            /\ UNCHANGED vars

PollCall == /\ InCall("poll")
            /\ Return(IF driver.stream = "playing" THEN "playing" ELSE "ok")
            /\ UNCHANGED <<vars, driver>>

\* rm_close: the playback stops and the callback is told (case 5).
CloseCall == /\ InCall("close")
             /\ CloseHandle(1)
             /\ driver' = [driver EXCEPT !.stream = "none"]
             /\ Return("ok")

CallStep == \/ SimpleCall \/ OpenStreamCall \/ OpenReturns \/ TypesCall
            \/ PlayCall \/ PollCall \/ CloseCall

-----------------------------------------------------------------------------
(* The driver, playing from an interrupt.                                  *)

Playing(next) == driver.stream = "playing" /\ driver.next = next

\* A fill request; the callback does nothing when both buffers are full.
FillRequest == \/ FillCurrent(1) \/ FillNext(1)
               \/ (\A b \in Bufs : read_size[b] > 0) /\ UNCHANGED vars

PlayFill == /\ Playing("fill")
            /\ FillRequest
            /\ driver' = [driver EXCEPT !.next = "report"]
            /\ UNCHANGED mainVars

\* The playback pauses when it is answered by nothing (RMPLAY_PAUSE_ON_FINISH).
PlayReport == /\ Playing("report")
              /\ Report(1, driver.cursor)
              /\ driver' = IF lent'.size > 0
                           THEN [driver EXCEPT !.next = "decode"]
                           ELSE [driver EXCEPT !.stream = "paused"]
              /\ UNCHANGED mainVars

PlayAhead == /\ Playing("decode")
             /\ FillRequest
             /\ UNCHANGED <<mainVars, driver>>

PlayDecode == /\ Playing("decode")
              /\ driver' = [driver EXCEPT !.next = "fill", !.cursor = @ + lent.size]
              /\ UNCHANGED <<vars, mainVars>>

PlayStep == PlayFill \/ PlayReport \/ PlayDecode

-----------------------------------------------------------------------------
Terminated == stmt \in Ended /\ UNCHANGED sessionVars

SessionNext == \/ NoDriver \/ LogEnter \/ LogExit
               \/ SimpleCall \/ OpenStreamCall \/ Probe \/ OpenReturns \/ TypesCall
               \/ PlayCall \/ PollCall \/ CloseCall
               \/ PlayFill \/ PlayReport \/ PlayAhead \/ PlayDecode
               \/ Terminated

\* The program runs, the driver returns from a call, and its interrupt comes.
Fairness == /\ WF_sessionVars(MainStep)
            /\ WF_sessionVars(CallStep)
            /\ WF_sessionVars(PlayStep)

SessionSpec == SessionInit /\ [][SessionNext]_sessionVars /\ Fairness

-----------------------------------------------------------------------------
(* Properties.                                                             *)

\* The main thread is in DOS: it writes a log line.
InDOS == /\ \/ stmt \in Calls /\ phase # "int80"
            \/ stmt = "end"
         /\ ~muted

\* The interrupt that calls the callback, which calls DOS, never comes while
\* the main thread is in DOS: logging is muted before the playback starts
\* (streamer.c:360) and until the stream is closed (379), whatever the polls
\* see in between.
DosNotReentered == driver.stream = "playing" => ~InDOS

\* The playback ends at the end of the file and nowhere before it, whatever
\* the driver probed while opening and however far the fills ran ahead, unless
\* DOS failed to read.
PlayedWhole == driver.stream = "paused" /\ ~dos.failed => driver.cursor = dos.size

\* Where the main thread can be while the stream plays, and what it has muted.
MainWhilePlaying ==
  /\ stmt \in {"play", "poll", "close"} => muted
  /\ driver.stream = "playing" => \/ stmt = "play" /\ phase = "exit"
                                  \/ stmt \in {"poll", "aborted"}
                                  \/ stmt = "close" /\ phase # "exit"
  /\ phase = "exit" /\ answer = "playing" => stmt = "poll"

\* What the driver decodes was lent for its cursor; what it asks for next has
\* been filled, or lies past the end; its cursor never passes the end, and the
\* callback knows of its stream.
PlaybackInFile ==
  /\ Playing("decode") => lent.size > 0 /\ lent.pos = driver.cursor
  /\ Playing("report") /\ ~dos.failed =>
       read_size[current_buf] > 0 \/ dos.size <= file_position[current_buf]
  /\ driver.stream # "none" => user_data[1] /\ driver.cursor <= dos.size

\* The inductive invariant of a run.
SessionInv == /\ StreamerInv /\ SessionTypeOK
              /\ MainWhilePlaying /\ PlaybackInFile /\ PlayedWhole

\* When run_test is done the stream is closed on both sides and the log is
\* audible again for the last line.
CleanEnd == stmt = "end" => /\ ~user_data[1] /\ rm_handle = 0 /\ dos.files = 0
                            /\ driver.stream = "none"
                            /\ ~muted

\* No abort leaves the driver playing, with an interrupt that calls a callback
\* that is gone: run_test tests what it opened (349, 351) before it plays.
NoPlaybackOutlives == stmt \in Ended => driver.stream # "playing"

\* run_test ends, even though its wait for the playback is a busy loop: a
\* playback that is answered by nothing does not go on forever.
Termination == <>(stmt \in Ended)
=============================================================================
