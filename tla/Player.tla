------------------------------- MODULE Player -------------------------------
(***************************************************************************)
(* rmsdk/player.c over the SDK (module RmSdk): main opens its log, checks  *)
(* its argument, initialises the SDK, and plays one file the driver opens  *)
(* by name.  It registers no callback, and every failure aborts it.        *)
(***************************************************************************)
EXTENDS RmSdk

VARIABLES
  pc,       \* the statement main or play_file is at
  logout    \* logf.c's _logout: whether the log file is open

playerVars == <<sdkVars, pc, logout>>

\* Mutant of After: the stream is checked only once it plays.
AfterPlayFirst(c) == CASE c = "present" -> "version" [] c = "version" -> "path"
                       [] c = "path"    -> "probe"   [] c = "probe"   -> "reset"
                       [] c = "reset"   -> "zorder"  [] c = "zorder"  -> "open"
                       [] c = "open"    -> "play"    [] c = "play"    -> "types"
                       [] c = "types"   -> "wait"    [] c = "wait"    -> "close"
                       [] c = "close"   -> "end"

\* Mutant of After: the handle is not closed.
AfterUnclosed(c) == CASE c = "present" -> "version" [] c = "version" -> "path"
                      [] c = "path"    -> "probe"   [] c = "probe"   -> "reset"
                      [] c = "reset"   -> "zorder"  [] c = "zorder"  -> "open"
                      [] c = "open"    -> "types"   [] c = "types"   -> "play"
                      [] c = "play"    -> "wait"    [] c = "wait"    -> "end"

\* The calls of rm_init and play_file, and the order they are made in.
After(c) == CASE c = "present" -> "version" [] c = "version" -> "path"
              [] c = "path"    -> "probe"   [] c = "probe"   -> "reset"
              [] c = "reset"   -> "zorder"  [] c = "zorder"  -> "open"
              [] c = "open"    -> "types"   [] c = "types"   -> "play"
              [] c = "play"    -> "wait"    [] c = "wait"    -> "close"
              [] c = "close"   -> "end"

RmdevsysCalls == {"present", "version", "path"}
FmpdrvCalls   == {"reset", "zorder", "open", "types", "play", "close"}
Checked       == {"present", "open", "types"}   \* 0 is a failure

PlayerInit == SdkInit /\ pc = "openlog" /\ logout = FALSE

-----------------------------------------------------------------------------
OpenLogFile ==
  /\ ProgramRuns /\ pc = "openlog"
  /\ \/ pc' = "args"  /\ logout' = TRUE
     \/ pc' = "abort" /\ UNCHANGED logout
  /\ UNCHANGED sdkVars

Args ==
  /\ ProgramRuns /\ pc = "args"
  /\ \/ pc' = "present" /\ UNCHANGED ended
     \/ pc' = "usage"   /\ ended' = "usage"
  /\ UNCHANGED <<stack, fmpdrv_int, driver_cb_func, muted, indent_count, r,
                 resident, driver, logout>>

\* A call that finds no driver at INT 80h aborts, and closes the log.
Begin ==
  /\ ProgramRuns
  /\ \/ pc \in RmdevsysCalls /\ Call("rmdevsys", "any")
     \/ pc \in FmpdrvCalls   /\ Call("fmpdrv", pc)
  /\ logout' = (logout /\ ended' = "no")
  /\ UNCHANGED pc

ProbeDriver ==
  /\ ProgramRuns /\ pc = "probe"
  /\ Probe
  /\ pc' = IF fmpdrv_int' = 0 THEN "abort" ELSE After(pc)
  /\ UNCHANGED logout

Wait == /\ ProgramRuns /\ pc = "wait"
        /\ Waitplay(TRUE)
        /\ UNCHANGED <<pc, logout>>

\* A call returns, to a wait or to main and play_file.
Return ==
  /\ CallExit
  /\ pc' = IF Front(stack) # <<>> THEN pc
           ELSE IF pc \in Checked /\ Result(Top) = 0 THEN "abort"
           ELSE After(pc)
  /\ UNCHANGED logout

Waited == /\ WaitReturns
          /\ pc' = After(pc)
          /\ UNCHANGED logout

\* logf_abort.
Abort == /\ ProgramRuns /\ pc = "abort"
         /\ ended' = "failed"
         /\ logout' = FALSE
         /\ UNCHANGED <<stack, fmpdrv_int, driver_cb_func, muted, indent_count,
                        r, resident, driver, pc>>

CloseLogFile == /\ ProgramRuns /\ pc = "end"
                /\ ended' = "played"
                /\ logout' = FALSE
                /\ UNCHANGED <<stack, fmpdrv_int, driver_cb_func, muted,
                               indent_count, r, resident, driver, pc>>

MainStep == \/ OpenLogFile \/ Args \/ Begin \/ ProbeDriver \/ Wait \/ Return
            \/ Waited \/ Abort \/ CloseLogFile
            \/ WaitPoll /\ UNCHANGED <<pc, logout>>

DriverReturns == IntReturns   /\ UNCHANGED <<pc, logout>>
DriverEnds    == PlaybackEnds /\ UNCHANGED <<pc, logout>>

Terminated == ended # "no" /\ UNCHANGED playerVars

PlayerNext == MainStep \/ DriverReturns \/ DriverEnds \/ Terminated

\* The program runs, calls return, and a file that plays comes to its end.
PlayerSpec == /\ PlayerInit /\ [][PlayerNext]_playerVars
              /\ WF_playerVars(MainStep)
              /\ WF_playerVars(DriverReturns)
              /\ WF_playerVars(DriverEnds)

-----------------------------------------------------------------------------
(* Properties.                                                             *)

\* A file that was played is closed, nothing is left muted or indented, and
\* the log file is closed.
PlayedCleanly ==
  ended = "played" => /\ driver.stream = "none"
                      /\ ~muted /\ indent_count = 0 /\ ~logout

\* No abort leaves the driver playing: the stream is checked before it plays,
\* and nothing aborts from there to the close.
NoPlaybackOutlives == ended # "no" => driver.stream # "playing"

\* The busy wait for the playback ends, and so does the program.
Termination == <>(ended # "no")

\* A driver at INT 80h, the only one that can be called, is the one that is
\* found, whatever else shows its signature; the probe goes up to FFh, and one
\* found elsewhere only is accepted by rm_init and aborts the first call.
DriverAt80Called == 128 \in resident => ended # "unreachable"
=============================================================================
