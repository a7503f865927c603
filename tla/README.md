# A verification project for rmprobe

The repository holds DOS programs that talk to the resident driver of the
ReelMagic MPEG card (`FMPDRV.EXE`, behind INT 80h): a small SDK with two example
players (`src/rmsdk`), a recorder of the calls other programs make and an
analyzer of its log (`src/recorder`), an interpreter of probing scripts
(`src/rmprobe`) and a loader of the card's firmware (`src/parse450`). The driver
is not part of the repository; it calls back into these programs, in the middle
of their calls and from interrupts, and that is where most of what is hard about
them comes from.

The project models them in TLA+. TLC checks the models on small instances, and
TLAPS proves all of their safety properties and both refinements for every value
of the constants.

    tlc -config MCStreamer.cfg MCStreamer     # and the other MC*.cfg
    tlapm StreamerProofs.tla                  # and the other *Proofs.tla

## 1. Inventory

| Component | State | Operations | Talks to |
|---|---|---|---|
| Stream callback (`rmsdk/streamer.c:32-326`) | `_hds[0]`: handle, DOS file, position, two buffers with a label (`file_position`) and a fill (`read_size`) each, which is current and which next | callback commands 4 open, 1 fill, 2 report, 5 close | called by the driver, in its calls and from its interrupt; calls DOS and INT 80h (`rm_submit_buffer`) |
| Main program of the streamer (`streamer.c:328-396`) | where `run_test` is, the handle | a fixed sequence of driver calls, a busy wait, the abort paths | SDK, log |
| Driver SDK (`rmsdk/reelmagc.c`) | the driver's interrupt, the user's callback function, the static registers of two of the call functions | `rm_init`, `rm_call_fmpdrv` (log, INT 80h, log), the callback marshaller, `rm_waitplay`, `rm_call_vbios` | driver, BIOS, log |
| Log (`rmsdk/logf.c`) | `_muted`, file, indentation | `logf`, `logf_setmute`, `logf_addindent`, `logf_delindent`, `logf_flushabort` | DOS |
| Player (`rmsdk/player.c`) | where `main` is | open, play, wait, close, by file name | SDK |
| Recorder (`recorder/recorder.c`) | the flag, the callback and the jump of the last registration, the count of failed opens | hooks of INT 80h and INT 2Fh, a shim in place of the application's callback, one appended record per event | sits between an application and the driver; DOS |
| Analyzer (`recorder/analyze.c`) | the indentation, the read position | one line or block per record | the recorder's log |
| Interpreter (`rmprobe/rmprobe.c`) | five handle slots, stored video mode, last return value, where the log goes | a script of about fifteen commands, one of which waits | SDK-like calls of its own |
| Firmware loader (`parse450/parse450.c`) | an image of the DRAM and one of the instruction memory | check and load segments, write the images | files |
| Reset program (`recorder/hit80.c`) | none | one INT 80h | driver |

What makes them correct, and what is hard about it:

- **Stream callback.** It reads ahead into one buffer while the driver decodes
  the other, and finds buffers by the position they are labelled with. The
  driver decides the order of fills, sequential requests and seeks, and a read
  may fail at any time. It must never overwrite what it has lent, never answer
  with bytes other than those asked for, and never lose a DOS file handle.
- **Main program of the streamer.** Three activities interleave: the main
  thread, the driver's calls it is in, and the driver's interrupt. The callback
  and the log both use DOS, which is not reentrant, so logging is muted around
  the playback. The wait has to end, and the end must leave nothing open.
- **SDK, log, player.** The driver calls the program's callback in the middle of
  a call and, while it plays, from an interrupt anywhere, and the callback calls
  the SDK: its static variables (the function the marshaller calls, the mute
  flag, the indentation, the registers of two call functions) are shared by all
  the calls in progress. The driver may be found at any of 128 interrupts and can
  be called at one. The busy wait ends only with the playback.
- **Recorder.** Calls nest (an application calls the driver from its callback),
  while what the recorder knows of a registration is static. It must not change
  what the application sees, must miss no callback, and log records may be lost.
- **Analyzer.** The log is a file of records of two sizes with nothing to mark
  where one begins; the recorder does not notice when DOS writes only part of one.
- **Interpreter.** What a command leaves behind (a result, a slot, a video mode,
  logging switched off) is used many lines later, after commands that may have
  overwritten it; a wait switches logging off and has to give it back; and a
  script's failure has to reach the exit code.
- **Firmware loader.** Segments overlap and are written to two memories in two
  byte orders, guarded by one test of the segment's end in 32 bits.

The hazards, each at its line and with the properties that cover it, are listed
in `PROJECT.json`.

## 2. Modules

| Module | What it is |
|---|---|
| `StreamSource` | abstract: what a driver may rely on, a file served in chunks by position |
| `Streamer` | the stream callback, one action per invocation |
| `StreamerProofs` | its theorems |
| `StreamSession` | the main program, the driver calls it is in, and the playback, composed with `Streamer` |
| `StreamSessionProofs` | its theorems |
| `FmpDrv` | abstract: the driver as an application sees it, with nested calls and callbacks |
| `Analyze` | the indentation of the analyzer, as an operator on one record |
| `Recorder` | the recorder between the application and the driver |
| `RecorderProofs` | its theorems |
| `RmSdk` | the SDK and its log, as a program and its callbacks use them in any order |
| `RmSdkProofs` | its theorems |
| `Player` | the player over `RmSdk` |
| `PlayerProofs` | its theorems, over those of `RmSdkProofs` |
| `Rmprobe` | the script interpreter |
| `RmprobeProofs` | its theorems |
| `Parse450` | the firmware loader |
| `Parse450Proofs` | its theorems |
| `LogFile` | the recorder's log as a file, written by the recorder and read by the analyzer |
| `LogFileProofs` | its theorems |
| `MCStreamer`, `MCStreamSession`, `MCRecorder`, `MCRmSdk`, `MCPlayer`, `MCRmprobe`, `MCParse450`, `MCLogFile` | the instances TLC checks |

Definitions whose comment says *Mutant of X* are X with a plausible mistake in
it. No specification uses them; they show that the properties can fail.

### Streamer

An action is one invocation of `my_callback`, from the test `CHECK_HD`
(`CheckHd`) to its return. `OpenHandle` and `OpenFails` are case 4,
`FillCurrent` and `FillNext` case 1, `ReportCurrent`, `ReportNext` and
`ReportReset` the three ways of case 2 (already there; swap; seek and read),
`CloseHandle` case 5. Case 3, unknown commands and invocations that `CHECK_HD`
rejects change nothing and have no action. The variables are the fields of
`_hds[0]`; `dma` is what the buffers' memory holds, as a range of the file,
which is what tells true data from wrong data. `lent` is the driver's side of
`rm_submit_buffer`: the buffer it was given, with the position it had asked for.
`dos` is the offset DOS keeps for the file, its length, how many files are open,
and whether a read has failed. The registers of a submission and the values the
callback returns are left out; so are the log lines.

A read of DOS returns what the file has up to the size of a buffer, or fails,
at the model's choice (`ReadIntoBuf`). A seek succeeds: a DOS seek from the
start of an open file has no other way out within 32 bits. `UINT32` is the
number of values of a `uint32_t`, and the position kept for the file wraps at it.

The driver sends any command, for any handle and position, in any order. Two
things are asked of it. It opens a handle it holds no stream for; and it reads
the buffer it was lent only until its next request is answered, as the call
`rm_submit_buffer` implies.

`StreamSource` says what this amounts to: with a file open, each request for a
position is answered by the whole chunk of the file that starts there, or by
nothing, and what was served stays readable until the next request. `Source` in
`Streamer` is the refinement mapping: `asked` is the position of the request that
was answered, `served` is not what the callback says it lent but what the lent
buffer's *memory* holds, and the specification ties the one to the other.

### StreamSession

`stmt` is the driver call `run_test` is at and `phase` where it is in
`rm_call_fmpdrv`: the log line at the entry (`LogEnter`), the INT 80h, the log
line at the exit (`LogExit`). `LogExit` also carries the tests `run_test` makes
of the answer, its two abort paths, and the calls of `logf_setmute` (streamer.c
360 and 379). `NoDriver` is the way out before the first call: `rm_init` finds no
driver (streamer.c 388), or the call finds it elsewhere than at INT 80h (reelmagc.c
163). While a call is in INT 80h the driver runs: `OpenStreamCall` calls
the callback with command 4, `Probe` lets it look anywhere in the file before
the open returns, `CloseCall` calls it with command 5. While the stream plays,
the interrupt may come between any two steps of the main thread: it asks for a
fill (`PlayFill`), then for the bytes at its cursor (`PlayReport`), perhaps for
more fills while it decodes (`PlayAhead`), and moves its cursor (`PlayDecode`).
A request that is answered by nothing pauses the playback.

The driver's part is external: it is read off the calls the program makes and
the comments on them, not from the driver.

### FmpDrv, Recorder, Analyze

`stack` holds the calls and callbacks in progress. A call is pushed by its entry
hook, carried out by the driver, and popped by its exit hook; a callback is
pushed by the shim (`CallbackShim`) or, when the driver knows the application's
own callback, without the recorder's knowledge (`CallbackDirect`). The flag, the
callback and the target of the patched jump are the recorder's static variables.
An action runs from one transfer of control to the next: the recorder's own code
runs with interrupts off, but for its DOS calls, and the driver is taken not to
call back in the middle of DOS. The exit of a registration is three actions, since
it calls the driver: `FmpdrvCallExit` logs, consumes the flag, patches the jump and
makes the call (recorder.c 224-235), `DriverTakesShim` is the driver doing what it
was called for, `ShimInstalled` the return to the recorder and from it to the
application. `shim` tells at which of them the exit of each call is. A driver that
calls back while it registers a callback may call back between them, too. (A driver that did would enter DOS twice before
it could harm the recorder.) The records' contents are abstracted to their tag,
and a record is logged or, when DOS cannot open the log, lost.

`indentation` is a function of the log: where `analyze.c` stands after reading
what has been written so far. Keeping that number rather than the log relates
the two programs and keeps the model finite.

`Reentrant` is the set of calls in which the driver may call back. That a
registration is not among them is what the recorder silently relies on; nothing
in the repository says so, and the runs below look at both cases.

An application may register NULL, `None` here. The recorder does not look at the
pointer: it installs its shim over NULL as over any callback, and a driver that
would not have called NULL calls the shim, whose jump leads to 0000:0000
(`Reached`), from where nothing returns. The run `recorder_reentrant` has such
applications; `DriverSpec` is about those that register no NULL.

`FmpDrv` is the same without a recorder: calls nest, and a callback goes to the
function registered last. `Drv` in `Recorder` maps its `callback` to the target
of the jump when the driver knows the shim, and to what the driver knows
otherwise.

### RmSdk, Player

`stack` holds what is in progress: calls, waits, and callbacks of the driver, in
the order they were entered. `rm_call_fmpdrv`, `rm_call_rmdevsys` and
`rm_call_vbios` have the same shape and share `CallEnter` (the ENTER line and the
indentation), `IntReturns` (the interrupt has been carried out and its answer
stored) and `CallExit` (the EXIT line and the result). Between these points others
run: `CallBack` is the driver calling a marshaller, inside a driver call or, while
a stream plays, at any point of the program. What differs is where the answer is
kept: in the automatic `rv_l` and `rv_h`, or in a `static union REGS r`, one per
function (`Static`, `r`). `Result` is what a call returns, `answer` in its frame
what its own interrupt said.

`Waitplay`, `WaitPoll` and `WaitReturns` are `rm_waitplay`: its polls are calls
like any other. It leaves the log audible, also when its caller had muted it.
`RegisterDriverCallback` sets the function and then calls the
driver. It does so for NULL as well: NULL is stored, and the marshaller is
registered all the same (reelmagc.c 219-229), so that the next callback calls
through NULL and the program has `crashed`. `driver.asked` keeps what the program
registered last; it serves `NeverThroughNull` only. `Probe` is `rm_probe_fmpdrv_int` with `set_fmpdrv_int`; `resident` says at
which interrupts the vector table shows the driver's signature. The wrappers
(`rm_reset`, `rm_open`, `rm_get` and so on) make one call each and are that call
(`Commands`). A call while the driver is not at INT 80h aborts the program: `rm_init`
accepts a driver at any of the interrupts, and `rm_call_fmpdrv` is compiled for 80h.

`ProgramStep` lets a program do all this in any order. `Player` restricts it:
`pc` is the statement `main`, `rm_init` or `play_file` is at, each of its calls is
one of `RmSdk`'s, and `After` is their order. The tests of the results are in
`Return`, `logf_flushabort` is `Abort`.

`CallbackCalls` is what callbacks call of the SDK; the one callback there is
(`streamer.c`) calls the driver only. With `rmdevsys` or `vbios` among them
`OwnResult` would not hold, since their registers are static.

### Rmprobe

A line of the script is one step, an action per command; which commands a script
has, and with what arguments, is left to TLC. `outcome` is what
`process_script_line` returned. The lines of a script are steps of their own, but a
wait is taken apart, since others run in the middle of it. `WaitPlay` saves how logging
stands and writes the wait's first line, `WaitBegins` switches logging off for a busy
wait, `PollEnters`, `PollCalls` and `PollExits` are the ENTER line, the interrupt and
the EXIT line of `call_fmpdriver`, repeated until the driver says that the handle does
not play, and `WaitReturns` gives logging back. `at` is where a wait is. Meanwhile
`PlaybackEnds` may happen, and `DriverCallback`: once a script has registered
`CBFUNC` (`cbfunc`), the driver may call `driver_callback` while a stream plays,
wherever main is, and main goes on after `CallbackReturns`. `Logf` is `logf`: with a
file or stdout to write to, it enters DOS. `dos` says who is in it: main for a line of
a wait, the callback for its own. With logging on the callback does interrupt main in
DOS, in a wait that sleeps and between the lines of a script; nothing in the
repository excludes that, so nothing is claimed of it. `logout` says whether `_logout` is a file.
`asked` keeps what the script has asked for: the mode it stored last and how often
it was loaded since, stdout, a log file. It serves the properties only. `STORHAND`
stores what the last call of any kind returned (`StorHand`): `CALLRMS` and
`CALLVBIOS` set `last_call_rv` as `CALLRM` does, though the documentation speaks of
the previous `CALLRM` only.

The driver's part is as far as a script can see it: handles that open, play,
pause at the end and close; a handle that plays nothing has a play status that is
not 0. `CBFUNC` stays registered, and no callback comes after main has
returned. The text of lines, the parsing of numbers, and `_strbuf` are left out: what
`_strbuf` holds reaches the driver and the log only.

### Parse450

A segment is read, checked and written in one step (`ReadSegment`). A byte of
memory is named by where it came from, the segment's number and the offset in its
data, so that a memory is a function from addresses to names and the order of the
bytes can be told. `Acceptable` is the checks of `main`, with the end of the
segment computed modulo `UINT32`, as the code does; `Stray` is a write outside the
memories, which the checks let happen: for a segment whose end wraps, and for one off
the four-byte grid that the end of the window cuts. What the program does then is
undefined, the model stops (`undefined`), and nothing is claimed. The file's header is the number of its segments and `imem_dram`, where the
window of the instruction memory begins.

### LogFile

The bytes of the file are named by record and offset. `WriteEntry` appends as much
of a record as DOS writes, from nothing (the log could not be opened, the disk was
full) to all. `ReadRecord` is a round of the analyzer's loop: the next two bytes
are a tag; if they are not the beginning of a record, the analyzer takes data for
a tag, which may stand for either size. `shown` lists the records it shows, 0 for
anything else. The analyzer runs when the recording is over. `Whole` and `Torn` say
what became of a record; `Intact(n)` that none before record n is torn, and
`ShowsWhole(k, n)` that the first k shown are the whole records before n.

## 3. Runs

| Run | What it asks | Distinct states |
|---|---|---|
| `streamer` | is the callback a `StreamSource`, with true labels and no lost handle, for a driver that does anything in any order | 22 815 |
| `session` | with main thread, calls and interrupt interleaved: DOS entered once at a time, the file played whole, a clean end, and an end at all | 113 476 |
| `recorder` | is the recorder transparent and complete, and its log shown at the right depth, when registrations are not reentered | 90 169 |
| `recorder_reentrant` | what is left when they are, NULL among the callbacks: where does the shim lead from the moment the driver knows it | 92 144 |
| `recorder_reentered` | is "every callback recorded" left? It is not: TLC shows the lost callback | stops at the violation |
| `sdk` | with calls, waits and callbacks nested in any order: indentation, results, silence in a busy wait, and a marshaller that goes where the program said last | 634 816 |
| `player` | does the player call a driver that is at INT 80h, end cleanly, and never abort while the driver plays | 262 |
| `rmprobe` | do scripts end, are busy waits silent with callbacks anywhere in them and do they give logging back, is a stored mode restored | 864 410 |
| `rmprobe_vga` | does a second LOADVGAMODE set the stored mode? It does not | stops at the violation |
| `rmprobe_exit` | does a failed script exit with a failure? It does not | stops at the violation |
| `parse450` | are the images what the file says, and only written when it was read to its end | 111 306 |
| `logfile` | what of a log is shown when records are cut short | 117 130 |

What the properties say:

- `LentDataIntact`, `BufferChain`, `NoHandleLeak`: see the three obligations of
  the callback above. `ReadAheadServes` is an action property: a sequential
  request after a read-ahead makes no DOS call, which is the reason for having
  two buffers. `SourceSpec` is the refinement of `StreamSource`.
- `DosNotReentered`: while the driver's interrupt may call the callback, the main
  thread is not in DOS. It depends on muting before the play call, on staying
  muted through the wait, and on closing before unmuting.
- `PlayedWhole`: a playback that has paused has reached the end of the file, if
  no read failed: neither what was probed before nor fills that ran ahead make
  it stop short. `CleanEnd`: a run that gets to the end of `run_test` leaves no
  stream, no file and no muted log. `Termination`: it gets to an end.
- `DriverSpec`: the refinement of `FmpDrv`. `EveryCallbackRecorded`: when no
  registration is in progress the driver knows the shim or nothing.
  `ShimReachesLatest`: from the moment the driver knows the shim, the jump leads to
  the callback registered last, unless a registration has yet to come to its exit,
  whichever call's exit consumed the flag and whatever comes in the middle of the call
  that registers the shim. It rests on patching the jump before that call. `AnalyzedDepth`: the indentation is the number of calls in
  progress, off by at most one for each record lost.
- `NoPlaybackOutlives` (both players): a program that ends, by whatever way, does
  not leave the driver playing. It rests on the order of the calls: what can fail
  is tested before the play call.
- `IndentIsDepth`: the counter of the indentation is the number of calls in
  progress, although interrupts nest calls at any point and the log is muted and
  unmuted in between. `OwnResult`: no call returns what another's interrupt
  answered. `NeverThroughNull`: a marshaller finds no function to call only
  if NULL is what the program registered last, and never because the driver called
  before the function was stored. `BusyWaitSilent`: the log is muted for as long as
  a busy wait is in progress, callbacks in it included.
- `PlayedCleanly`, `Termination` (player): a file that was played is closed and the
  log is whole again; the busy wait comes to an end. `DriverAt80Called`: with the
  driver at INT 80h, whatever else answers like one, no call aborts for not
  finding it there. It rests on the probe's looking at 80h first.
- `BusyWaitSilent` (rmprobe): between a busy wait's switching logging off and giving it
  back nobody enters DOS: neither main for the lines of its polls, nor
  `driver_callback`, called from an interrupt at any point of them. `LoggingAsAsked`: outside a busy
  wait, logging is as the script asked for. `FirstLoadRestores`: the first load after
  a store sets the stored mode; `LoadsStoredMode`, for every load, fails.
  `ScriptEnds`: whatever handle a script waits for, its wait comes to an end.
- `DramIsFile` compares the memory with a
  definition over all the segments: the last that covers an address is seen.
  `ImemMirrorsDram` relates the two memories, up to the byte order, for files whose
  segments lie on the window's grid.
  `ImagesAreWhole`: no image is written of a file that was cut or goes on.
- `ShownUpToTear`: up to the first record of which a part was written, the analyzer
  shows what was recorded. `TornTailDropped`: when nothing was written after it,
  such a record costs itself only. `AnalyzerEnds`.

**Bounds.** A buffer of 2 bytes is the smallest that can be partly filled.
Files of 0, 2, 5 and 7 bytes are none, one and three and a half buffers, and one
that ends on the last position of the 3-bit `uint32_t` of `streamer`
(`UINT32 = 8`), where the position wraps if it ever does; `session` has 0, 4 (a
whole number of buffers) and 5 with `UINT32 = 7`. Two handles are enough to tell
the one that is served from the ones that are refused. Neither model has other
bounds: positions, labels and fills are finite as they are. The recorder is
bounded by `MaxDepth` (calls and callbacks in progress: 5 allows a call within a
callback within a call, twice; 4 in the reentrant runs, where three suffice to
lose a registration) and `MaxLost` (log records lost).

`sdk` has at most five calls, waits and callbacks in progress: a call in a callback
in a call in a callback in a call. Two callback functions are enough for one to
replace the other, and two interrupts for the driver to be at the right one, the
wrong one, both or none. `player` needs two (a call in the wait) and has no other
bound. A script of five lines can register, open, play, mute and wait, or store,
change and load a mode twice; the results are nothing, two handles, and a number
that is not 0 but no handle; there are two slots of the five. In `parse450` three
segments of at most two instructions overlap in all ways in a DRAM of three, under
a window of two at every position from the beginning to past the end, on and off
the grid, and `UINT32` is small enough for ends to wrap. In `logfile` the records
have three and six bytes, the smallest with more than a tag and a multiple of each
other as in the code (10 and 130); four of them let a torn record be followed by
whole ones.

**Fairness.** `SessionSpec` assumes three things: the main thread runs when it is
not inside a driver call (`MainStep`; DOS programs are not preempted for good), a
driver call is carried out (`CallStep`; the program does not return from INT 80h
otherwise), and the playback interrupt comes (`PlayStep`; a timer or the card
raises it). `Probe` and `PlayAhead` have none: the driver need not look or read
ahead. `CallStep` includes the driver's return from an open, so probing ends.

`PlayerSpec` and `ProbeSpec` assume that the program runs, that a driver call
and a callback return, and that a file that plays comes to its end (the player plays with
`RMPLAY_PAUSE_ON_FINISH`; a script that plays in a loop and waits does not end).
`LogSpec` assumes that the analyzer is run, and runs. `RmSdk` alone has no fairness.

Deadlock is checked in every run but `recorder_reentrant`: the models stop only where
they say so (`Terminated`, `Ended`, `Done`). The recorder never stops, unless an
application registers NULL; then the jump to nowhere is the end, and that run does not
check for it.

## 4. Theorems

All are proved for every value of the constants that satisfies the named
assumptions, which TLC evaluates in the runs:

- `StreamerAssumption`: buffers are not empty and shorter than the range of a
  position, files fit in that range, handle 1 exists.
- `RecorderAssumption`: the shim is no callback of an application, and the mark of no
  call no call.
- `RmSdkAssumption`: the interrupts are from 128 to 255, as `reelmagc.c` probes, the
  mark of no registration yet is no function, and callbacks make the three kinds of calls the SDK has.
- `RmprobeAssumption`: there is a slot, results are numbers and 0 is one, video modes
  are bytes.
- `Parse450Assumption`: DRAM and buffer are smaller than the range of an address, and
  the window is a whole number of instructions.
- `LogFileAssumption`: the shorter record holds a tag, the longer is longer.

Four theorems have a hypothesis besides: `RegistrationInvariance`, `CallbacksRecorded`
and `Transparent` that the driver does not call back while it registers
(`"register" \notin Reentrant`), `Transparent` also that the application registers no
NULL (`None \notin Callbacks`), and `ResultsKept` that callbacks keep off the functions
whose registers are static. The instances of TLC satisfy them, except those of the two
reentrant runs, whose property is not that of one of the four or is violated.

Every safety property of a passing run is the statement of a theorem. Each proof has
the same form: an invariant that contains the properties and what they rest on, one
lemma for each action that it preserves it, and the properties as consequences.

**Streamer.** `Invariance` shows `StreamerInv` to be inductive: `TypeOK`,
`NoHandleLeak`, `BufferChain` and `LentIsCurrent`. The first three are checked
properties; the fourth is needed because `LentDataIntact` speaks of whatever
buffer was lent, and an induction has to know that it is the current one: fills
never go to the current buffer when it is full, and only a request (which ends
the loan) swaps. `BufferChain` needs in turn that the next buffer is empty
whenever the current one is, or a fill of the current buffer would read the wrong
part of the file. `DataIntact`, `HandlesKept`, `ChainKept`, `TypeCorrect` and
`ReadAhead` follow from it; `Refinement` shows that each action is a step of
`StreamSource` or leaves its variables alone.

**StreamSession.** `SessionIsStreamer`: every step of a run is a step of
`Streamer` or leaves it alone, so the invariant above holds in a run.
`SessionInvariance` adds to it where the main thread can be while the stream
plays (`MainWhilePlaying`), and what the playback has in hand (`PlaybackInFile`):
what is decoded was lent for the cursor, and what is requested next has been
filled or is past the end. `NoReentry`, `WholeFile` and `SessionTypeCorrect` follow.
The second conjunct is what the fill before each request is for: without it a request that
matches an empty current buffer is answered by nothing in the middle of a file.
`EndInv`, proved over it, says that the close call leaves nothing open, that nothing is
muted at the end, and that a run is aborted only with the stream not playing;
`EndsClean` and `NothingOutlives` come from it.

**Recorder.** `RegistrationInvariance`: if the driver does not call back while it
registers (`"register" \notin Reentrant`), a registration in progress is always
the innermost call, the flag is up exactly from its entry to its exit, the
callback kept is the one it names, and the jump leads to it when the exit calls the
driver. From it, `CallbacksRecorded` and
`Transparent`, the refinement of `FmpDrv`. The assumption cannot be dropped, as
`recorder_reentered` shows. `RecorderTypeCorrect`, `ShimJumps` and `ShownAtDepth` do
without it and for NULL too, from `RecorderInv`: the flag is up, or the jump leads to
the callback kept. An entry that changes the callback raises the flag, an exit that
lowers it patches the jump, and both happen before the driver gets control. An exit
may be in the middle of registering the shim at several depths at once. `ShownAtDepth` follows the
distance between indentation and depth (`DepthInv`): an entry or an exit that is logged
moves both the same way, except that the analyzer does not outdent past the margin,
which can only bring them closer; one whose record is lost moves the depth and the
count of lost records; callbacks move neither.

**Parse450.** `ParseInvariance`: `ParseInv` joins the four checked properties with
how far `main` is (`Progress`) and with `LastCovers`: where segments cover an
address, one of them is the last. That a non-empty finite set of numbers has a
greatest one would need an induction; that it stays so when a segment is appended
does not. Appending a segment makes it the last at its addresses and changes nothing
elsewhere (`CoveredByNew`, `NotCoveredByNew`), which is what writing it does to the
memory. `RegularInWindow` says why the window cuts no instruction of a segment on the
grid. The four properties follow.

**RmSdk.** `SdkInvariance`: `SdkInv` joins the types, `IndentIsDepth`, `BusyWaitSilent`
and `NeverThroughNull` with the discipline of the stack (`StackOK`: there is one
wait at most, and it is the outermost) and with `AsAsked`: when the driver has a
marshaller, or a registration that will give it one is in progress, the function kept
is the one the program asked for last, which may be NULL. Without it,
`NeverThroughNull` is not inductive: the driver learns of the marshaller a step after
the function was set. `ResultsKept` has an
invariant of its own, that a call with static registers is the outermost; a second one
could only come from a callback, which the hypothesis excludes. The lemmas about the
actions are stated for the actions, not for `SdkNext`, and the player's proof uses them.

**Player.** `PlayerInvariance`: `PlayerInv` contains `SdkInv` and says which calls can be
in progress at each statement of `main` (`FrameOf`), that the driver is at INT 80h from
its first answer on, and when the log is muted and the stream plays or is closed.
`PlaysCleanly`, `NothingPlaysOn` and `FoundAt80` follow.

**Rmprobe.** `ProbeInvariance`: outside a wait the two ways of logging are as the script
wants them (`Undisturbed`), a wait remembers them and a busy one has them off
(`Suspended`), nobody is in DOS in it (`BusyWaitSilent` is a part of the invariant: each
step of a wait and each callback asks where logging goes at that moment, `ShutOff`
answers), and the mode that was
stored last is at hand until it is loaded (`StoredKept`). `BusyWaitsSilently`,
`LogsAsAsked` and `FirstLoadBrings` follow, for scripts of any length.

**LogFile.** `LogInvariance`: there is a layout of the file, a position for each record,
such that the bytes after it are that record's (`Layout`); and either the analyzer is
where a record starts and has shown exactly the whole ones before it (`InStep`), or a
record before its position is torn (`Lost`), and then nothing is claimed but what
had been shown before. The two properties alone say nothing of the position and are not
inductive. `RoundsAdvance` is an action property no run checks: every round takes bytes, in step
or not, which is why the analysis ends. It is the safety half of `AnalyzerEnds`.

**Model-checked only.** `Termination` (of the session and of the player), `ScriptEnds`
and `AnalyzerEnds`: liveness under fairness is out of the prover's reach. The
three violations of section 5 are TLC's as well.

## 5. Findings

- *A registration that is reentered loses its shim* (`recorder.c:105`, run
  `recorder_reentered`). If the driver calls back during a registration and the
  callback calls the driver, the exit of the inner call consumes the flag. The
  outer registration then replaces the shim by the application's callback, and
  no callback is recorded from there on. The comments at `recorder.c:116` and
  `363` provide for recursion. The trace needs a callback to be registered
  already.
- *A stored video mode can be loaded once* (`rmprobe.c:376`, run `rmprobe_vga`).
- *A failed script exits with 0* (`rmprobe.c:535`, run `rmprobe_exit`), as does one
  that comes to its end; one that says EXIT exits with 1.

## 6. Not modelled

- Formatting: log lines, the text of records and reports, error messages.
- The driver, DOS and the BIOS, other than as the environment described above.
- `recorder.c`'s residency and command line, and its code under `#if 0`.
- The registers of calls and callbacks, and the assembly of the interpreter's
  callback shim (`rmprobe.c:86-170`), which saves and restores them.
- What happens after a call through NULL, the jump of the shim to 0000:0000, and a write
  outside the loader's memories: the models stop there. Nothing in the repository says
  that a program registers NULL or that such a file is refused.
- Files whose image cannot be written to the end (`parse450.c:206`).
- An analyzer that runs while the recorder writes.
- The streamer's abort paths leave a callback registered with the driver when the
  program has gone; nothing in the repository says what the driver does then, so
  the model ends there.
- `hit80.c` (no state), the build files and the scripts under `rmprobe/tests`
  (their results depend on the card).

## 7. Plan

The order is by how much can go wrong between two actors.

1. *Done:* the stream callback, the streamer's run, the recorder with the
   analyzer's indentation; their abstract specifications and main theorems.
2. *Done:* the SDK with reentrant callbacks and the player over it; the
   interpreter; the firmware loader with its theorems; the framing of the
   recorder's log.
3. *Done:* the theorems about the SDK, the player, the interpreter and the log file,
   and those about the session's end and the recorder's depth. No safety property is
   left to TLC alone.
4. Open: what an unproved liveness property rests on, as action properties that bound
   the steps of a wait and of a script; a model of the analyzer reading while the
   recorder writes.
