--------------------------- MODULE RmprobeProofs ---------------------------
(***************************************************************************)
(* Proofs about the interpreter of scripts, for scripts of any length, any *)
(* number of slots, and every result and video mode.                       *)
(*                                                                         *)
(* ProbeInv says in addition to the properties what a wait remembers of    *)
(* the two ways to write a log, and what the mode stored last is before it *)
(* is loaded.                                                              *)
(***************************************************************************)
EXTENDS Rmprobe, TLAPS

\* Where no wait is in progress, what is written goes where the script wants it.
Undisturbed ==
  /\ pc \in {"start", "drivers", "script"} => stdouton = asked.stdouton
  /\ pc \in {"drivers", "script"} => logout = asked.log

\* A busy wait that has shut off the log.
ShutOff == orig.busy /\ at # "begin"

\* A wait remembers what the script wants, and suspends it when it is busy.
Suspended ==
  pc = "wait" =>
    /\ orig.logout = asked.log /\ orig.stdouton = asked.stdouton
    /\ logout = (~ShutOff /\ orig.logout)
    /\ stdouton = (~ShutOff /\ orig.stdouton)

\* The mode stored last is at hand until it is loaded.
StoredKept == asked.mode # Unset /\ asked.loads = 0 => last_vga_mode = asked.mode

\* The inductive invariant.
ProbeInv == /\ ProbeTypeOK
            /\ Undisturbed /\ Suspended /\ BusyWaitSilent
            /\ StoredKept /\ FirstLoadRestores

-----------------------------------------------------------------------------
(* Facts about handles.                                                    *)

\* A handle is a byte, and the low byte of a result is one unless it is 0.
LEMMA HandleBytes ==
  /\ Handles \subseteq 0 .. 255
  /\ \A v \in Results : v % 256 # 0 => v % 256 \in Handles
<1>1. \A v \in Results : v % 256 \in 0 .. 255
  BY RmprobeAssumption
<1>2. QED
  BY <1>1 DEF Handles

LEMMA CallHandleBytes == ProbeTypeOK => CallHandles \subseteq 0 .. 255
<1> SUFFICES ASSUME ProbeTypeOK PROVE CallHandles \subseteq 0 .. 255
  OBVIOUS
<1>1. \A s \in 0 .. Slots - 1 : hand[s] \in Handles \cup {0}
  BY DEF ProbeTypeOK
<1>2. Handles \cup {0} \subseteq 0 .. 255
  BY HandleBytes
<1>3. CallHandles \subseteq Handles \cup {0}
  <2> SUFFICES ASSUME NEW h \in CallHandles PROVE h \in Handles \cup {0}
    OBVIOUS
  <2>1. CASE h \in Handles
    BY <2>1
  <2>2. CASE h \in {hand[s] : s \in 0 .. Slots - 1}
    <3>1. PICK s \in 0 .. Slots - 1 : h = hand[s]
      BY <2>2
    <3>2. QED
      BY <1>1, <3>1
  <2>3. QED
    BY <2>1, <2>2 DEF CallHandles
<1>4. QED
  BY <1>2, <1>3

\* Whatever the driver does, every handle has a stream.
LEMMA StreamsType ==
  ASSUME ProbeTypeOK, NEW cmd, NEW h, NEW a, DriverActs(cmd, h, a)
  PROVE  streams' \in [Handles -> {"none", "open", "playing", "paused"}]
<1>1. streams \in [Handles -> {"none", "open", "playing", "paused"}]
  BY DEF ProbeTypeOK
<1>2. QED
  BY <1>1 DEF DriverActs

-----------------------------------------------------------------------------
(* ProbeInv is inductive.                                                  *)

LEMMA ProbeInitInv == ProbeInit => ProbeInv
<1> SUFFICES ASSUME ProbeInit PROVE ProbeInv
  OBVIOUS
<1>1. line \in [cmd : LineCommands, handle : 0 .. 255]
  BY DEF ProbeInit, Line, LineCommands
<1>2. asked \in [mode : Modes \cup {Unset}, loads : 0 .. 2,
                log : BOOLEAN, stdouton : BOOLEAN]
  BY DEF ProbeInit
<1>3. lines \in 0 .. MaxLines
  BY RmprobeAssumption DEF ProbeInit
<1>4. hand \in [0 .. Slots - 1 -> Handles \cup {0}]
  BY DEF ProbeInit
<1>5. ProbeTypeOK
  BY <1>1, <1>2, <1>3, <1>4, RmprobeAssumption DEF ProbeInit, ProbeTypeOK, WaitPoints
<1>6. QED
  BY <1>5 DEF ProbeInit, ProbeInv, Undisturbed, Suspended, BusyWaitSilent, StoredKept,
              FirstLoadRestores, Line

\* The types of the variables that a line is read into.
LEMMA ReadsType ==
  ASSUME ProbeTypeOK, NEW l, NEW rv, Reads(l, rv)
  PROVE  /\ pc = "script" /\ line' = l /\ outcome' = rv /\ status' = status
         /\ lines' \in 0 .. MaxLines
BY RmprobeAssumption DEF ProbeTypeOK, Reads

\* A line that is neither a wait, nor about the video, nor about stdout.
LEMMA PlainLine ==
  ASSUME ProbeInv,
         NEW cmd \in LineCommands \ {"LOADVGAMODE"}, NEW rv \in {-1, 0, 1},
         Reads(Line(cmd), rv),
         UNCHANGED <<pc, logging, last_vga_mode, waiting, asked>>,
         cbfunc' \in BOOLEAN, bios_mode' \in Modes, last_call_rv' \in Results,
         hand' \in [0 .. Slots - 1 -> Handles \cup {0}],
         streams' \in [Handles -> {"none", "open", "playing", "paused"}]
  PROVE  ProbeInv'
<1>1. /\ ProbeTypeOK /\ pc = "script" /\ line' = Line(cmd) /\ outcome' = rv
      /\ status' = status /\ lines' \in 0 .. MaxLines
  BY ReadsType DEF ProbeInv
<1>2. line' \in [cmd : LineCommands, handle : 0 .. 255] /\ line'.cmd # "LOADVGAMODE"
  BY <1>1 DEF Line
<1>3. ProbeTypeOK'
  BY <1>1, <1>2 DEF ProbeTypeOK, logging, waiting
<1>4. QED
  BY <1>1, <1>2, <1>3
     DEF ProbeInv, Undisturbed, Suspended, BusyWaitSilent, StoredKept,
         FirstLoadRestores, logging

LEMMA CallRmInv ==
  ASSUME ProbeInv, CallRm
  PROVE  ProbeInv'
<1>1. /\ Reads(Line("CALLRM"), 1)
      /\ UNCHANGED <<pc, logging, hand, last_vga_mode, bios_mode, waiting, asked>>
  BY DEF CallRm, video
<1>2. PICK cmd \in {"reset", "open", "play", "close", "register", "other"},
           h \in CallHandles :
        /\ last_call_rv' \in Results /\ DriverActs(cmd, h, last_call_rv')
        /\ cbfunc' = (cbfunc \/ cmd = "register")
  BY DEF CallRm, CallFmpdriver
<1>3. streams' \in [Handles -> {"none", "open", "playing", "paused"}]
  BY <1>2, StreamsType DEF ProbeInv
<1>4. "CALLRM" \in LineCommands \ {"LOADVGAMODE"} /\ ProbeTypeOK
  BY DEF LineCommands, ProbeInv
<1>5. QED
  BY <1>1, <1>2, <1>3, <1>4, PlainLine DEF ProbeTypeOK

LEMMA StorHandInv ==
  ASSUME ProbeInv, NEW s \in 0 .. Slots - 1, StorHand(s)
  PROVE  ProbeInv'
<1> DEFINE h == last_call_rv % 256
           rv == IF h = 0 THEN -1 ELSE 1
<1>1. /\ Reads(Line("STORHAND"), rv) /\ ProbeTypeOK
      /\ UNCHANGED <<pc, logging, last_call_rv, streams, cbfunc, last_vga_mode,
                     bios_mode, waiting, asked>>
      /\ hand' = IF h = 0 THEN hand ELSE [hand EXCEPT ![s] = h]
  BY DEF StorHand, video, ProbeInv
<1>2. h # 0 => h \in Handles
  BY <1>1, HandleBytes DEF ProbeTypeOK
<1>3. rv \in {-1, 0, 1}
  OBVIOUS
<1> HIDE DEF h, rv
<1>4. hand' \in [0 .. Slots - 1 -> Handles \cup {0}]
  BY <1>1, <1>2 DEF ProbeTypeOK
<1>5. "STORHAND" \in LineCommands \ {"LOADVGAMODE"}
  BY DEF LineCommands
<1>6. QED
  BY <1>1, <1>3, <1>4, <1>5, PlainLine DEF ProbeTypeOK

LEMMA StorVgaModeInv ==
  ASSUME ProbeInv, StorVgaMode
  PROVE  ProbeInv'
<1>1. /\ Reads(Line("STORVGAMODE"), 1) /\ ProbeTypeOK
      /\ last_vga_mode' = bios_mode /\ bios_mode' = bios_mode
      /\ asked' = [asked EXCEPT !.mode = bios_mode, !.loads = 0]
      /\ UNCHANGED <<pc, at, dos, logout, stdouton, orig, last_call_rv, hand,
                     streams, cbfunc>>
  BY DEF StorVgaMode, Vbios, logging, calls, waiting, ProbeInv
<1>2. /\ pc = "script" /\ line' = Line("STORVGAMODE") /\ outcome' = 1
      /\ status' = status /\ lines' \in 0 .. MaxLines
  BY <1>1, ReadsType
<1>3. line' \in [cmd : LineCommands, handle : 0 .. 255] /\ line'.cmd # "LOADVGAMODE"
  BY <1>2 DEF Line, LineCommands
<1>4. /\ asked'.mode = bios_mode
      /\ asked'.log = asked.log /\ asked'.stdouton = asked.stdouton
      /\ asked' \in [mode : Modes \cup {Unset}, loads : 0 .. 2,
                     log : BOOLEAN, stdouton : BOOLEAN]
  <2>1. bios_mode \in Modes \cup {Unset} /\ 0 \in 0 .. 2
    BY <1>1 DEF ProbeTypeOK
  <2>2. asked \in [mode : Modes \cup {Unset}, loads : 0 .. 2,
                  log : BOOLEAN, stdouton : BOOLEAN]
    BY <1>1 DEF ProbeTypeOK
  <2>3. QED
    BY <1>1, <2>1, <2>2
<1>5. ProbeTypeOK'
  BY <1>1, <1>2, <1>3, <1>4 DEF ProbeTypeOK
<1>6. QED
  BY <1>1, <1>2, <1>3, <1>4, <1>5
     DEF ProbeInv, Undisturbed, Suspended, BusyWaitSilent, StoredKept,
         FirstLoadRestores

\* The first load finds the mode that was stored.
LEMMA LoadVgaModeInv ==
  ASSUME ProbeInv, LoadVgaMode
  PROVE  ProbeInv'
<1>1. /\ Reads(Line("LOADVGAMODE"), 1) /\ ProbeTypeOK
      /\ bios_mode' = last_vga_mode /\ last_vga_mode' \in Modes
      /\ asked' = [asked EXCEPT !.loads = IF @ < 2 THEN @ + 1 ELSE 2]
      /\ UNCHANGED <<pc, at, dos, logout, stdouton, orig, last_call_rv, hand,
                     streams, cbfunc>>
  BY DEF LoadVgaMode, Vbios, logging, calls, waiting, ProbeInv
<1>2. /\ pc = "script" /\ line' = Line("LOADVGAMODE") /\ outcome' = 1
      /\ status' = status /\ lines' \in 0 .. MaxLines
  BY <1>1, ReadsType
<1>3. line' \in [cmd : LineCommands, handle : 0 .. 255]
  BY <1>2 DEF Line, LineCommands
<1>4. /\ asked'.mode = asked.mode
      /\ asked'.log = asked.log /\ asked'.stdouton = asked.stdouton
      /\ asked'.loads \in 1 .. 2 /\ (asked'.loads = 1 => asked.loads = 0)
      /\ asked' \in [mode : Modes \cup {Unset}, loads : 0 .. 2,
                     log : BOOLEAN, stdouton : BOOLEAN]
  BY <1>1 DEF ProbeTypeOK
<1>5. ProbeTypeOK'
  BY <1>1, <1>2, <1>3, <1>4 DEF ProbeTypeOK
<1>6. StoredKept' /\ FirstLoadRestores'
  BY <1>1, <1>4 DEF ProbeInv, StoredKept, FirstLoadRestores
<1>7. QED
  BY <1>1, <1>2, <1>4, <1>5, <1>6
     DEF ProbeInv, Undisturbed, Suspended, BusyWaitSilent

LEMMA MuteStdoutInv ==
  ASSUME ProbeInv, MuteStdout
  PROVE  ProbeInv'
<1>1. PICK on \in BOOLEAN :
        stdouton' = on /\ asked' = [asked EXCEPT !.stdouton = on]
  BY DEF MuteStdout
<1>2. /\ Reads(Line("MUTESTDOUT"), 1) /\ ProbeTypeOK
      /\ UNCHANGED <<pc, at, dos, logout, orig, last_call_rv, hand, streams, cbfunc,
                     last_vga_mode, bios_mode>>
  BY DEF MuteStdout, calls, video, waiting, ProbeInv
<1>3. /\ pc = "script" /\ line' = Line("MUTESTDOUT") /\ outcome' = 1
      /\ status' = status /\ lines' \in 0 .. MaxLines
  BY <1>2, ReadsType
<1>4. line' \in [cmd : LineCommands, handle : 0 .. 255] /\ line'.cmd # "LOADVGAMODE"
  BY <1>3 DEF Line, LineCommands
<1>5. /\ asked'.mode = asked.mode /\ asked'.loads = asked.loads
      /\ asked'.log = asked.log /\ asked'.stdouton = on
      /\ asked' \in [mode : Modes \cup {Unset}, loads : 0 .. 2,
                     log : BOOLEAN, stdouton : BOOLEAN]
  BY <1>1, <1>2 DEF ProbeTypeOK
<1>6. ProbeTypeOK'
  BY <1>1, <1>2, <1>3, <1>4, <1>5 DEF ProbeTypeOK
<1>7. QED
  BY <1>1, <1>2, <1>3, <1>4, <1>5, <1>6
     DEF ProbeInv, Undisturbed, Suspended, BusyWaitSilent, StoredKept,
         FirstLoadRestores

\* Logf keeps the type of dos, and enters DOS only where there is a log.
LEMMA LogfType ==
  ASSUME ProbeTypeOK, NEW who \in {"main", "callback"}, Logf(who)
  PROVE  /\ dos' \subseteq {"main", "callback"}
         /\ ~logout /\ ~stdouton /\ dos = {} => dos' = {}
BY DEF ProbeTypeOK, Logf

\* A wait starts where the script has what it asked for.
LEMMA WaitPlayInv ==
  ASSUME ProbeInv, NEW h \in CallHandles, NEW busy \in BOOLEAN, WaitPlay(h, busy)
  PROVE  ProbeInv'
<1> DEFINE l == [cmd |-> "WAITPLAY", handle |-> h]
<1>1. /\ Reads(l, 1) /\ ProbeTypeOK /\ pc' = "wait" /\ at' = "begin"
      /\ orig' = [logout |-> logout, stdouton |-> stdouton, busy |-> busy]
      /\ Logf("main")
      /\ UNCHANGED <<logout, stdouton, last_call_rv, hand, streams, cbfunc,
                     last_vga_mode, bios_mode, asked>>
  BY DEF WaitPlay, calls, video, ProbeInv
<1>2. /\ line' = l /\ outcome' = 1 /\ status' = status /\ lines' \in 0 .. MaxLines
      /\ pc = "script"
  BY <1>1, ReadsType
<1>3. line' \in [cmd : LineCommands, handle : 0 .. 255] /\ line'.cmd # "LOADVGAMODE"
  BY <1>1, <1>2, CallHandleBytes DEF LineCommands
<1>4. orig' \in [logout : BOOLEAN, stdouton : BOOLEAN, busy : BOOLEAN]
  BY <1>1 DEF ProbeTypeOK
<1>5. ProbeTypeOK'
  BY <1>1, <1>2, <1>3, <1>4, LogfType DEF ProbeTypeOK, WaitPoints
<1>6. logout = asked.log /\ stdouton = asked.stdouton
  BY <1>2 DEF ProbeInv, Undisturbed
<1>7. Undisturbed' /\ BusyWaitSilent'
  BY <1>1 DEF Undisturbed, BusyWaitSilent
<1>8. Suspended'
  <2>1. ~ShutOff'
    BY <1>1 DEF ShutOff
  <2>2. logout \in BOOLEAN /\ stdouton \in BOOLEAN
    BY <1>1 DEF ProbeTypeOK
  <2>3. QED
    BY <1>1, <1>6, <2>1, <2>2 DEF Suspended
<1>9. QED
  BY <1>1, <1>3, <1>5, <1>7, <1>8 DEF ProbeInv, StoredKept, FirstLoadRestores

\* A step that reads no line.
LEMMA NoLine ==
  ASSUME ProbeInv,
         pc' \in {"start", "drivers", "script", "wait", "exit"},
         at' \in WaitPoints, dos' \subseteq {"main", "callback"},
         status' \in {Unset, 0, 1}, logout' \in BOOLEAN, stdouton' \in BOOLEAN,
         UNCHANGED <<line, lines, outcome, orig, last_call_rv, hand, cbfunc,
                     last_vga_mode, bios_mode>>,
         streams' \in [Handles -> {"none", "open", "playing", "paused"}],
         asked' \in [mode : Modes \cup {Unset}, loads : 0 .. 2,
                     log : BOOLEAN, stdouton : BOOLEAN],
         asked'.mode = asked.mode, asked'.loads = asked.loads,
         Undisturbed', Suspended', BusyWaitSilent'
  PROVE  ProbeInv'
<1>1. ProbeTypeOK'
  BY DEF ProbeInv, ProbeTypeOK
<1>2. QED
  BY <1>1 DEF ProbeInv, StoredKept, FirstLoadRestores

\* The steps of a wait, from its first line to its end: one that is busy begins
\* with main and the callback out of DOS, and has neither write a line; the end
\* restores what the wait remembers.
LEMMA WaitStepInv ==
  ASSUME ProbeInv, WaitStep
  PROVE  ProbeInv'
<1>1. /\ pc = "wait" /\ ProbeTypeOK /\ "callback" \notin dos /\ Suspended
      /\ UNCHANGED <<line, lines, outcome, status, orig, last_call_rv, hand, streams,
                     cbfunc, last_vga_mode, bios_mode, asked>>
  BY DEF WaitStep, WaitBegins, PollEnters, PollCalls, PollExits, WaitReturns,
         InWait, MainRuns, logging, calls, video, ProbeInv
<1>2. orig.busy /\ at # "begin" => dos = {} /\ ~logout /\ ~stdouton
  BY <1>1 DEF ProbeInv, BusyWaitSilent, Suspended, ShutOff
<1>3. CASE WaitBegins
  <2>1. /\ at = "begin" /\ at' = "enter" /\ pc' = "wait" /\ dos' = dos \ {"main"}
        /\ logout' = (~orig.busy /\ logout) /\ stdouton' = (~orig.busy /\ stdouton)
    BY <1>1, <1>3 DEF WaitBegins, InWait
  <2>2. dos' = {}
    BY <1>1, <2>1 DEF ProbeTypeOK
  <2>3. Undisturbed' /\ Suspended' /\ BusyWaitSilent'
    BY <1>1, <2>1, <2>2 DEF Undisturbed, Suspended, ShutOff, BusyWaitSilent
  <2>4. at' \in WaitPoints /\ logout' \in BOOLEAN /\ stdouton' \in BOOLEAN
    BY <1>1, <2>1 DEF ProbeTypeOK, WaitPoints
  <2>5. QED
    BY <1>1, <2>1, <2>2, <2>3, <2>4, NoLine DEF ProbeTypeOK
<1>4. CASE PollEnters \/ PollCalls \/ PollExits
  <2>1. /\ at # "begin" /\ at' # "begin" /\ at' \in WaitPoints /\ pc' = "wait"
        /\ UNCHANGED <<logout, stdouton>>
        /\ Logf("main") \/ dos' = dos \ {"main"}
    BY <1>1, <1>4 DEF PollEnters, PollCalls, PollExits, InWait, logging, WaitPoints
  <2>2. /\ dos' \subseteq {"main", "callback"}
        /\ ~logout /\ ~stdouton /\ dos = {} => dos' = {}
    BY <1>1, <2>1, LogfType DEF ProbeTypeOK
  <2>3. Undisturbed' /\ Suspended' /\ BusyWaitSilent'
    BY <1>1, <1>2, <2>1, <2>2 DEF Undisturbed, Suspended, ShutOff, BusyWaitSilent
  <2>4. QED
    BY <1>1, <2>1, <2>2, <2>3, NoLine DEF ProbeTypeOK
<1>5. CASE WaitReturns
  <2>1. /\ pc' = "script" /\ at' = "begin" /\ dos' = dos \ {"main"}
        /\ logout' = orig.logout /\ stdouton' = orig.stdouton
    BY <1>5 DEF WaitReturns
  <2>2. Undisturbed' /\ Suspended' /\ BusyWaitSilent'
    BY <1>1, <2>1 DEF Undisturbed, Suspended, BusyWaitSilent
  <2>3. QED
    BY <1>1, <2>1, <2>2, NoLine DEF ProbeTypeOK, WaitPoints
<1>6. QED
  BY <1>3, <1>4, <1>5 DEF WaitStep

\* driver_callback is called at any point, and finds the log shut off where it
\* must not enter DOS.
LEMMA CallbackInv ==
  ASSUME ProbeInv, DriverCallback \/ CallbackReturns
  PROVE  ProbeInv'
<1>1. /\ ProbeTypeOK
      /\ UNCHANGED <<pc, at, line, lines, outcome, status, logout, stdouton, orig,
                     last_call_rv, hand, streams, cbfunc, last_vga_mode, bios_mode,
                     asked>>
      /\ Logf("callback") \/ dos' = dos \ {"callback"}
  BY DEF DriverCallback, CallbackReturns, logging, calls, video, ProbeInv
<1>2. /\ dos' \subseteq {"main", "callback"}
      /\ ~logout /\ ~stdouton /\ dos = {} => dos' = {}
  BY <1>1, LogfType DEF ProbeTypeOK
<1>3. Undisturbed' /\ Suspended'
  BY <1>1 DEF ProbeInv, Undisturbed, Suspended, ShutOff
<1>4. BusyWaitSilent'
  BY <1>1, <1>2 DEF ProbeInv, Suspended, ShutOff, BusyWaitSilent
<1>5. QED
  BY <1>1, <1>2, <1>3, <1>4, NoLine DEF ProbeTypeOK

LEMMA OpenFilesInv ==
  ASSUME ProbeInv, OpenFiles
  PROVE  ProbeInv'
<1>1. /\ pc = "start" /\ pc' \in {"exit", "drivers"} /\ status' \in {Unset, 0, 1}
      /\ logout' \in BOOLEAN /\ asked' = [asked EXCEPT !.log = logout']
      /\ ProbeTypeOK
      /\ UNCHANGED <<at, dos, line, lines, outcome, stdouton, orig, last_call_rv, hand,
                     streams, cbfunc, last_vga_mode, bios_mode>>
  BY DEF OpenFiles, calls, video, waiting, ProbeInv, ProbeTypeOK
<1>2. /\ asked'.mode = asked.mode /\ asked'.loads = asked.loads
      /\ asked'.log = logout' /\ asked'.stdouton = asked.stdouton
      /\ asked' \in [mode : Modes \cup {Unset}, loads : 0 .. 2,
                     log : BOOLEAN, stdouton : BOOLEAN]
  BY <1>1 DEF ProbeTypeOK
<1>3. Undisturbed' /\ Suspended' /\ BusyWaitSilent'
  BY <1>1, <1>2 DEF ProbeInv, Undisturbed, Suspended, ShutOff,
                                 BusyWaitSilent
<1>4. QED
  BY <1>1, <1>2, <1>3, NoLine DEF ProbeTypeOK

LEMMA ProbeInvStep ==
  ASSUME ProbeInv, [ProbeNext]_probeVars
  PROVE  ProbeInv'
<1> USE DEF logging, calls, video, waiting
<1>1. ProbeTypeOK
  BY DEF ProbeInv
<1>2. CASE FindDrivers
  <2>1. Undisturbed' /\ Suspended' /\ BusyWaitSilent'
    BY <1>2 DEF FindDrivers, ProbeInv, Undisturbed, Suspended, ShutOff,
                                 BusyWaitSilent
  <2>2. QED
    BY <1>1, <1>2, <2>1, NoLine DEF FindDrivers, ProbeTypeOK
<1>3. CASE Finish
  <2>1. Undisturbed' /\ Suspended' /\ BusyWaitSilent'
    BY <1>3 DEF Finish, Undisturbed, Suspended, BusyWaitSilent
  <2>2. QED
    BY <1>1, <1>3, <2>1, NoLine DEF Finish, ProbeTypeOK
<1>4. CASE PlaybackEnds
  <2>1. streams' \in [Handles -> {"none", "open", "playing", "paused"}]
    BY <1>1, <1>4 DEF PlaybackEnds, ProbeTypeOK
  <2>2. Undisturbed' /\ Suspended' /\ BusyWaitSilent'
    BY <1>4 DEF PlaybackEnds, ProbeInv, Undisturbed, Suspended, ShutOff,
                                 BusyWaitSilent
  <2>3. QED
    BY <1>1, <1>4, <2>1, <2>2, NoLine DEF PlaybackEnds, ProbeTypeOK
<1>5. CASE Done \/ UNCHANGED probeVars
  <2>1. UNCHANGED probeVars
    BY <1>5 DEF Done
  <2>2. Undisturbed' /\ Suspended' /\ BusyWaitSilent'
    BY <2>1 DEF probeVars, ProbeInv, Undisturbed, Suspended, ShutOff,
                                 BusyWaitSilent
  <2>3. QED
    BY <1>1, <2>1, <2>2, NoLine DEF probeVars, ProbeTypeOK
<1>6. CASE CallRms \/ CallVbios
  <2>1. PICK cmd \in {"CALLRMS", "CALLVBIOS"} : Reads(Line(cmd), 1)
    BY <1>6 DEF CallRms, CallVbios
  <2>2. bios_mode' \in Modes
    BY <1>1, <1>6 DEF CallRms, CallVbios, Vbios, ProbeTypeOK
  <2>3. cmd \in LineCommands \ {"LOADVGAMODE"}
    BY <2>1 DEF LineCommands
  <2>4. QED
    BY <1>1, <1>6, <2>1, <2>2, <2>3, PlainLine DEF CallRms, CallVbios, ProbeTypeOK
<1>7. CASE Other \/ ExitQuit \/ BadCommand
  <2>1. PICK cmd \in {"other", "EXIT", "bad"}, rv \in {-1, 0, 1} : Reads(Line(cmd), rv)
    BY <1>7 DEF Other, ExitQuit, BadCommand
  <2>2. cmd \in LineCommands \ {"LOADVGAMODE"}
    BY <2>1 DEF LineCommands
  <2>3. QED
    BY <1>1, <1>7, <2>1, <2>2, PlainLine DEF Other, ExitQuit, BadCommand, ProbeTypeOK
<1>8. QED
  BY <1>2, <1>3, <1>4, <1>5, <1>6, <1>7, OpenFilesInv, CallRmInv, StorVgaModeInv,
     LoadVgaModeInv, StorHandInv, MuteStdoutInv, WaitPlayInv, WaitStepInv, CallbackInv
     DEF ProbeNext

-----------------------------------------------------------------------------
(* The theorems.                                                           *)

\* ProbeInv holds throughout every script.
THEOREM ProbeInvariance == ProbeSpec => []ProbeInv
<1>1. ProbeInit => ProbeInv
  BY ProbeInitInv
<1>2. ProbeInv /\ [ProbeNext]_probeVars => ProbeInv'
  BY ProbeInvStep
<1>3. QED
  BY <1>1, <1>2, PTL DEF ProbeSpec

\* Every slot keeps a byte that is a handle or 0, and every variable its type.
THEOREM ProbeTypeCorrect == ProbeSpec => []ProbeTypeOK
<1>1. ProbeInv => ProbeTypeOK
  BY DEF ProbeInv
<1>2. QED
  BY <1>1, ProbeInvariance, PTL

\* Neither the polls of a busy wait nor the callbacks that interrupt it enter DOS
\* to write a line.
THEOREM BusyWaitsSilently == ProbeSpec => []BusyWaitSilent
<1>1. ProbeInv => BusyWaitSilent
  BY DEF ProbeInv
<1>2. QED
  BY <1>1, ProbeInvariance, PTL

\* No wait changes where the script's own lines are logged.
THEOREM LogsAsAsked == ProbeSpec => []LoggingAsAsked
<1>1. ProbeInv => LoggingAsAsked
  BY DEF ProbeInv, ProbeTypeOK, Undisturbed, Suspended, ShutOff, LoggingAsAsked
<1>2. QED
  BY <1>1, ProbeInvariance, PTL

\* The first load brings the stored mode back, whatever comes in between.
THEOREM FirstLoadBrings == ProbeSpec => []FirstLoadRestores
<1>1. ProbeInv => FirstLoadRestores
  BY DEF ProbeInv
<1>2. QED
  BY <1>1, ProbeInvariance, PTL
=============================================================================
