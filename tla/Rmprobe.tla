------------------------------ MODULE Rmprobe ------------------------------
(***************************************************************************)
(* rmprobe/rmprobe.c: an interpreter of scripts that call the driver, the  *)
(* device driver and the video BIOS, keep what they return, and wait for a *)
(* playback.  A line is one step, but for a wait, which polls while the    *)
(* playback goes on and the driver calls the program back.                 *)
(*                                                                         *)
(* Left out: the text of lines and of the log, and _strbuf, whose contents *)
(* reach only the driver and the log.  A script names slots that exist,    *)
(* or is told that it does not (STORHAND).                                 *)
(***************************************************************************)
EXTENDS Integers

CONSTANTS
  Slots,     \* sizeof(_hand): 5 in the code
  Results,   \* what calls return, of 32 bits
  Modes,     \* video modes
  MaxLines   \* bound: the lines of a script

ASSUME RmprobeAssumption ==
  /\ Slots \in Nat \ {0}
  /\ Results \subseteq Nat /\ 0 \in Results
  /\ Modes \subseteq 0 .. 255 /\ 0 \in Modes
  /\ MaxLines \in Nat

VARIABLES
  pc,            \* where main is: "start", "drivers", "script", "wait", "exit"
  at,            \* where a wait is: its first line ("begin"), a call's ENTER
                 \* line, interrupt or EXIT line, or its end ("restore")
  line,          \* the line read last: its command and, for a wait, its handle
  lines,         \* how many lines have been read
  outcome,       \* of the last line: 1, 0 or -1, as process_script_line returns
  status,        \* what main returns
  logout,        \* _logout
  stdouton,      \* _stdouton
  orig,          \* waitplay's locals orig_logout, orig_stdouton; and how it waits
  last_call_rv,  \* _last_call_rv
  last_vga_mode, \* _last_vga_mode
  hand,          \* _hand
  bios_mode,     \* the video mode
  streams,       \* what the driver does with each handle
  cbfunc,        \* whether it was given CBFUNC, the shim of driver_callback
  dos,           \* who is in DOS to write a line: main in a wait, the callback
  asked          \* what the script asked for: the mode stored last and how often
                 \* it was loaded since, a log file, and stdout on or off

calls     == <<last_call_rv, hand, streams, cbfunc>>
video     == <<last_vga_mode, bios_mode>>
logging   == <<logout, stdouton, orig>>
waiting   == <<at, dos>>
probeVars == <<pc, line, lines, outcome, status, logging, calls, video, waiting, asked>>

Handles   == {v % 256 : v \in Results} \ {0}
Unset     == -1
Line(cmd) == [cmd |-> cmd, handle |-> 0]

LineCommands == {"none", "CALLRM", "CALLRMS", "CALLVBIOS", "STORVGAMODE", "LOADVGAMODE",
                 "STORHAND", "MUTESTDOUT", "WAITPLAY", "EXIT", "other", "bad"}

\* An EXIT line is that of a poll that found the handle playing, or not.
WaitPoints == {"begin", "enter", "int", "exit playing", "exit ready", "restore"}

ProbeTypeOK ==
  /\ pc \in {"start", "drivers", "script", "wait", "exit"}
  /\ at \in WaitPoints
  /\ line \in [cmd : LineCommands, handle : 0 .. 255]
  /\ lines \in 0 .. MaxLines
  /\ outcome \in {-1, 0, 1} /\ status \in {Unset, 0, 1}
  /\ logout \in BOOLEAN /\ stdouton \in BOOLEAN
  /\ orig \in [logout : BOOLEAN, stdouton : BOOLEAN, busy : BOOLEAN]
  /\ last_call_rv \in Results
  /\ last_vga_mode \in Modes /\ bios_mode \in Modes
  /\ hand \in [0 .. Slots - 1 -> Handles \cup {0}]
  /\ streams \in [Handles -> {"none", "open", "playing", "paused"}]
  /\ cbfunc \in BOOLEAN /\ dos \subseteq {"main", "callback"}
  /\ asked \in [mode : Modes \cup {Unset}, loads : 0 .. 2,
               log : BOOLEAN, stdouton : BOOLEAN]

ProbeInit ==
  /\ pc = "start" /\ at = "begin" /\ line = Line("none") /\ lines = 0
  /\ outcome = 1 /\ status = Unset
  /\ logout = FALSE /\ stdouton = TRUE
  /\ orig = [logout |-> FALSE, stdouton |-> FALSE, busy |-> FALSE]
  /\ last_call_rv = 0
  /\ last_vga_mode = 0
  /\ hand = [s \in 0 .. Slots - 1 |-> 0]
  /\ bios_mode \in Modes
  /\ streams = [h \in Handles |-> "none"]
  /\ cbfunc = FALSE /\ dos = {}
  /\ asked = [mode |-> Unset, loads |-> 0, log |-> FALSE,
              stdouton |-> TRUE]

-----------------------------------------------------------------------------
(* main, up to the script: the script, the log and the drivers.            *)

\* The script and the log; a log that cannot be opened is done without.
OpenFiles ==
  /\ pc = "start"
  /\ \/ pc' = "exit" /\ status' = 1 /\ UNCHANGED logout
     \/ pc' = "drivers" /\ logout' \in BOOLEAN /\ UNCHANGED status
  /\ asked' = [asked EXCEPT !.log = logout']
  /\ UNCHANGED <<line, lines, outcome, stdouton, orig, calls, video, waiting>>

\* RMDEV.SYS and FMPDRV.EXE must both be there.
FindDrivers ==
  /\ pc = "drivers"
  /\ \/ pc' = "exit" /\ status' = 1
     \/ pc' = "script" /\ UNCHANGED status
  /\ UNCHANGED <<line, lines, outcome, logging, calls, video, waiting, asked>>

-----------------------------------------------------------------------------
(* process_script_line, a command each.                                    *)

\* main runs where the driver has not interrupted it to call back.
MainRuns == "callback" \notin dos

\* fgets has read a line, and what comes of it.
Reads(l, rv) ==
  /\ pc = "script" /\ outcome = 1 /\ lines < MaxLines /\ MainRuns
  /\ lines' = lines + 1
  /\ line' = l
  /\ outcome' = rv
  /\ UNCHANGED status

\* The handle a line names is a number, or a slot's.
CallHandles == Handles \cup {0} \cup {hand[s] : s \in 0 .. Slots - 1}

\* What the driver does with handle h for a command, and answers.
DriverActs(cmd, h, a) ==
  LET becomes(s) == streams' = [streams EXCEPT ![h] = s]
  IN  CASE cmd = "reset" -> streams' = [i \in Handles |-> "none"]
        [] cmd = "open"  -> \/ /\ a % 256 \in Handles /\ streams[a % 256] = "none"
                               /\ streams' = [streams EXCEPT ![a % 256] = "open"]
                            \/ a = 0 /\ UNCHANGED streams
        [] cmd = "play" /\ h \in Handles ->
             becomes(IF streams[h] = "none" THEN "none" ELSE "playing")
        [] cmd = "close" /\ h \in Handles -> becomes("none")
        [] OTHER -> UNCHANGED streams

\* call_fmpdriver and call_fmpdriver_ptr: a result of 32 bits is kept.
CallFmpdriver(cmd, h) ==
  /\ last_call_rv' \in Results
  /\ DriverActs(cmd, h, last_call_rv')
  /\ cbfunc' = (cbfunc \/ cmd = "register")

CallRm ==
  /\ Reads(Line("CALLRM"), 1)
  /\ \E cmd \in {"reset", "open", "play", "close", "register", "other"},
        h \in CallHandles :
       CallFmpdriver(cmd, h)
  /\ UNCHANGED <<pc, logging, hand, video, waiting, asked>>

CallRms ==
  /\ Reads(Line("CALLRMS"), 1)
  /\ last_call_rv' \in Results
  /\ UNCHANGED <<pc, logging, hand, streams, cbfunc, video, waiting, asked>>

\* call_vbios: function 0 sets the mode, the others leave it.
Vbios(function, mode) == bios_mode' = IF function = 0 THEN mode ELSE bios_mode

CallVbios ==
  /\ Reads(Line("CALLVBIOS"), 1)
  /\ \E function \in {0, 15}, mode \in Modes : Vbios(function, mode)
  /\ last_call_rv' \in Results
  /\ UNCHANGED <<pc, logging, hand, streams, cbfunc, last_vga_mode, waiting, asked>>

\* Mutant of StorVgaMode: the mode is printed only.
StorVgaModePrinted ==
  /\ Reads(Line("STORVGAMODE"), 1)
  /\ asked' = [asked EXCEPT !.mode = bios_mode, !.loads = 0]
  /\ UNCHANGED <<pc, logging, calls, video, waiting>>

StorVgaMode ==
  /\ Reads(Line("STORVGAMODE"), 1)
  /\ last_vga_mode' = bios_mode
  /\ asked' = [asked EXCEPT !.mode = bios_mode, !.loads = 0]
  /\ Vbios(15, 0)
  /\ UNCHANGED <<pc, logging, calls, waiting>>

\* What the BIOS returns for a mode that is set replaces the one stored.
LoadVgaMode ==
  /\ Reads(Line("LOADVGAMODE"), 1)
  /\ Vbios(0, last_vga_mode)
  /\ last_vga_mode' \in Modes
  /\ asked' = [asked EXCEPT !.loads = IF @ < 2 THEN @ + 1 ELSE 2]
  /\ UNCHANGED <<pc, logging, calls, waiting>>

\* Mutant of StorHand: the slot is as wide as the result.
StorHandWide(s) ==
  LET h == last_call_rv % 256 IN
  /\ Reads(Line("STORHAND"), IF h = 0 THEN -1 ELSE 1)
  /\ hand' = IF h = 0 THEN hand ELSE [hand EXCEPT ![s] = last_call_rv]
  /\ UNCHANGED <<pc, logging, last_call_rv, streams, cbfunc, video, waiting, asked>>

\* The low byte of the last result, whatever call it was; 0 is no handle.
StorHand(s) ==
  LET h == last_call_rv % 256 IN
  /\ Reads(Line("STORHAND"), IF h = 0 THEN -1 ELSE 1)
  /\ hand' = IF h = 0 THEN hand ELSE [hand EXCEPT ![s] = h]
  /\ UNCHANGED <<pc, logging, last_call_rv, streams, cbfunc, video, waiting, asked>>

MuteStdout ==
  /\ Reads(Line("MUTESTDOUT"), 1)
  /\ \E on \in BOOLEAN : /\ stdouton' = on
                         /\ asked' = [asked EXCEPT !.stdouton = on]
  /\ UNCHANGED <<pc, logout, orig, calls, video, waiting>>

\* Comments, empty lines, SLEEP and the commands for _strbuf.
Other ==
  /\ Reads(Line("other"), 1)
  /\ UNCHANGED <<pc, logging, calls, video, waiting, asked>>

ExitQuit ==
  /\ Reads(Line("EXIT"), 0)
  /\ UNCHANGED <<pc, logging, calls, video, waiting, asked>>

\* No command, or one whose arguments are missing or out of range.
BadCommand ==
  /\ Reads(Line("bad"), -1)
  /\ UNCHANGED <<pc, logging, calls, video, waiting, asked>>

-----------------------------------------------------------------------------
(* WAITPLAY and waitplay.                                                  *)

\* logf is done with the line before, and enters DOS to write the next one,
\* unless there is nowhere to write it to.
Logf(who) == dos' = IF logout \/ stdouton THEN dos \cup {who} ELSE dos \ {who}

\* A step of a wait.
InWait(points) == pc = "wait" /\ at \in points /\ MainRuns

\* waitplay, up to its first line.
WaitPlay(h, busy) ==
  /\ Reads([cmd |-> "WAITPLAY", handle |-> h], 1)
  /\ pc' = "wait" /\ at' = "begin"
  /\ orig' = [logout |-> logout, stdouton |-> stdouton, busy |-> busy]
  /\ Logf("main")
  /\ UNCHANGED <<logout, stdouton, calls, video, asked>>

\* Mutant of WaitBegins: the log is remembered after it was shut off.
WaitBeginsLate ==
  /\ InWait({"begin"})
  /\ at' = "enter"
  /\ logout' = (~orig.busy /\ logout) /\ stdouton' = (~orig.busy /\ stdouton)
  /\ orig' = [orig EXCEPT !.logout = logout', !.stdouton = stdouton']
  /\ dos' = dos \ {"main"}
  /\ UNCHANGED <<pc, line, lines, outcome, status, calls, video, asked>>

\* The line is written; all logging is shut off for a busy wait.
WaitBegins ==
  /\ InWait({"begin"})
  /\ at' = "enter"
  /\ logout' = (~orig.busy /\ logout) /\ stdouton' = (~orig.busy /\ stdouton)
  /\ dos' = dos \ {"main"}
  /\ UNCHANGED <<pc, line, lines, outcome, status, orig, calls, video, asked>>

\* The play status is 0 for a handle that plays; one bit means paused, the
\* other stopped.
PlayStatus(h) == CASE h \in Handles /\ streams[h] = "playing" -> 0
                   [] h \in Handles /\ streams[h] = "paused"  -> 1
                   [] OTHER                                   -> 2

\* Mutant of Ready: only a playback that is stopped is over.
ReadyStopped(a) == a % 4 >= 2

\* A poll whose answer ends the wait.
Ready(a) == a % 4 # 0

\* A poll's ENTER line, its interrupt, and its EXIT line.
PollEnters ==
  /\ InWait({"enter"})
  /\ at' = "int"
  /\ Logf("main")
  /\ UNCHANGED <<pc, line, lines, outcome, status, logging, calls, video, asked>>

PollCalls ==
  /\ InWait({"int"})
  /\ at' = IF Ready(PlayStatus(line.handle)) THEN "exit ready" ELSE "exit playing"
  /\ dos' = dos \ {"main"}
  /\ UNCHANGED <<pc, line, lines, outcome, status, logging, calls, video, asked>>

\* Mutant of PollExits: the log is given back before the last poll's EXIT line.
PollExitsAloud ==
  /\ InWait({"exit playing", "exit ready"})
  /\ at' = IF at = "exit ready" THEN "restore" ELSE "enter"
  /\ IF at = "exit ready" THEN logout' = orig.logout /\ stdouton' = orig.stdouton
     ELSE UNCHANGED <<logout, stdouton>>
  /\ dos' = IF logout' \/ stdouton' THEN dos \cup {"main"} ELSE dos \ {"main"}
  /\ UNCHANGED <<pc, line, lines, outcome, status, orig, calls, video, asked>>

PollExits ==
  /\ InWait({"exit playing", "exit ready"})
  /\ at' = IF at = "exit ready" THEN "restore" ELSE "enter"
  /\ Logf("main")
  /\ UNCHANGED <<pc, line, lines, outcome, status, logging, calls, video, asked>>

\* The log is as it was again, for the last line of the wait and the script's.
WaitReturns ==
  /\ InWait({"restore"})
  /\ pc' = "script" /\ at' = "begin"
  /\ logout' = orig.logout /\ stdouton' = orig.stdouton
  /\ dos' = dos \ {"main"}
  /\ UNCHANGED <<line, lines, outcome, status, orig, calls, video, asked>>

-----------------------------------------------------------------------------
(* The driver's own steps, and driver_callback.                            *)

\* While a stream plays the driver calls back from its interrupt, wherever main
\* is, and driver_callback logs the call.
DriverCallback ==
  /\ pc \in {"script", "wait"} /\ MainRuns
  /\ cbfunc /\ \E h \in Handles : streams[h] = "playing"
  /\ Logf("callback")
  /\ UNCHANGED <<pc, at, line, lines, outcome, status, logging, calls, video, asked>>

CallbackReturns ==
  /\ "callback" \in dos
  /\ dos' = dos \ {"callback"}
  /\ UNCHANGED <<pc, at, line, lines, outcome, status, logging, calls, video, asked>>

\* The playback ends by itself, whatever the program does.
PlaybackEnds ==
  /\ \E h \in Handles : /\ streams[h] = "playing"
                        /\ streams' = [streams EXCEPT ![h] = "paused"]
  /\ UNCHANGED <<pc, line, lines, outcome, status, logging, last_call_rv, hand,
                 cbfunc, video, waiting, asked>>

-----------------------------------------------------------------------------
\* run_script is over, by its last line or by the end of the script (-1), and
\* main returns.
Finish ==
  /\ pc = "script" /\ MainRuns
  /\ pc' = "exit"
  /\ status' = IF outcome # 0 THEN 0 ELSE 1
  /\ logout' = FALSE
  /\ UNCHANGED <<line, lines, outcome, stdouton, orig, calls, video, waiting, asked>>

Done == pc = "exit" /\ UNCHANGED probeVars

WaitStep == WaitBegins \/ PollEnters \/ PollCalls \/ PollExits \/ WaitReturns

ProbeNext ==
  \/ OpenFiles \/ FindDrivers
  \/ CallRm \/ CallRms \/ CallVbios \/ StorVgaMode \/ LoadVgaMode
  \/ \E s \in 0 .. Slots - 1 : StorHand(s)
  \/ MuteStdout \/ Other \/ ExitQuit \/ BadCommand
  \/ \E h \in CallHandles, busy \in BOOLEAN : WaitPlay(h, busy)
  \/ WaitStep \/ PlaybackEnds \/ DriverCallback \/ CallbackReturns \/ Finish \/ Done

\* The program runs, a callback returns, and a file that plays comes to its end.
ProbeSpec == /\ ProbeInit /\ [][ProbeNext]_probeVars
             /\ WF_probeVars(OpenFiles \/ FindDrivers \/ WaitStep \/ Finish)
             /\ WF_probeVars(CallbackReturns)
             /\ WF_probeVars(PlaybackEnds)

-----------------------------------------------------------------------------
(* Properties.                                                             *)

\* From the moment a busy wait has shut off all logging to the moment it gives it
\* back nobody enters DOS: not main for the lines of its polls, and not
\* driver_callback (rmprobe.c:70), which the driver calls from an interrupt at any
\* point of the wait.
BusyWaitSilent == pc = "wait" /\ orig.busy /\ at # "begin" => dos = {}

\* Whatever waits and MUTESTDOUTs a script mixes, the log file is open if it
\* could be opened, and stdout is as the script last asked for, whenever no busy
\* wait has shut them off.
LoggingAsAsked ==
  pc = "script" \/ (pc = "wait" /\ (~orig.busy \/ at = "begin")) =>
    logout = asked.log /\ stdouton = asked.stdouton

\* The first LOADVGAMODE after a STORVGAMODE brings the stored mode back,
\* whatever the script did to the video in between.
FirstLoadRestores ==
  line.cmd = "LOADVGAMODE" /\ asked.mode # Unset /\ asked.loads = 1 =>
    bios_mode = asked.mode

\* Every script of finitely many lines comes to its end, its waits included.
ScriptEnds == <>(pc = "exit")

\* LOADVGAMODE "loads the previously stored VGA mode" (rmprobe/README.md).
LoadsStoredMode ==
  line.cmd = "LOADVGAMODE" /\ asked.mode # Unset => bios_mode = asked.mode

\* The program tells its caller of a command that failed ("failure",
\* rmprobe.c:444), as it does of a driver that is missing (519).
FailureReported == pc = "exit" /\ outcome = -1 => status # 0
=============================================================================
