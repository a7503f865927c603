------------------------------- MODULE RmSdk -------------------------------
(***************************************************************************)
(* rmsdk/reelmagc.c and what it uses of rmsdk/logf.c: the SDK as a program *)
(* and its callback use it, in any order.  The driver calls the callback   *)
(* in the middle of a driver call and, while it plays, from an interrupt   *)
(* at any point of the program, so the SDK's functions are entered again   *)
(* while they run: every variable of theirs that is static is shared by    *)
(* all the calls in progress.                                              *)
(*                                                                         *)
(* A call has two points where others run: the interrupt it makes ("int")  *)
(* and the EXIT line after it ("exit").  The driver, RMDEV.SYS and the     *)
(* video BIOS are outside the repository.                                  *)
(***************************************************************************)
EXTENDS SequencesExt, FiniteSets, Integers

CONSTANTS
  Interrupts,     \* where FMPDRV.EXE may be resident: 80h to FFh
  Commands,       \* the driver calls the program makes
  Functions,      \* the callback functions it registers
  CallbackCalls,  \* the functions of the SDK that callbacks call
  MaxDepth        \* bound: the calls, callbacks and waits in progress

ASSUME RmSdkAssumption ==
  /\ Interrupts \subseteq 128 .. 255
  /\ "never" \notin Functions
  /\ CallbackCalls \subseteq {"fmpdrv", "rmdevsys", "vbios"}
  /\ MaxDepth \in Nat

VARIABLES
  stack,          \* the calls, callbacks and waits in progress
  fmpdrv_int,     \* _fmpdrv_int
  driver_cb_func, \* _driver_cb_func
  muted,          \* logf.c's _muted
  indent_count,   \* logf.c's _indent_count
  r,              \* the static union REGS r of each function that has one
  ended,          \* how the program ended, "no" while it runs
  resident,       \* the interrupts with the signature of FMPDRV.EXE
  driver          \* the marshaller the driver knows, the function that the
                  \* program last asked it to call, and its stream

sdkVars == <<stack, fmpdrv_int, driver_cb_func, muted, indent_count, r, ended,
             resident, driver>>

Ops     == {"fmpdrv", "rmdevsys", "vbios"}

\* Mutant of Static: the version of rm_call_fmpdrv under #if 0.
StaticAll == Ops

Static  == {"rmdevsys", "vbios"}  \* those with a static union REGS r
Answers == {0, 1}                 \* of a status: playing, not playing

Callable == Functions \cup {"NULL"}  \* what may be registered

\* A frame of the stack.  A call keeps its arguments, what its own interrupt
\* answered, and the automatic rv_l and rv_h; a wait whether it is a busy one;
\* a callback the function called.
CallFrame(op, cmd, cb) == [op |-> op, cmd |-> cmd, cb |-> cb, phase |-> "int",
                           answer |-> 0, rv |-> 0]
WaitFrame(busy)        == [op |-> "wait", busy |-> busy, phase |-> "poll"]
CallbackFrame(f)       == [op |-> "callback", cmd |-> f]

Top == Last(stack)
Running(ops, phase) == /\ ended = "no" /\ stack # <<>>
                       /\ Top.op \in ops /\ Top.phase = phase
ProgramRuns  == ended = "no" /\ stack = <<>>
CallbackRuns == ended = "no" /\ stack # <<>> /\ Top.op = "callback"

Push(f) == /\ Len(stack) < MaxDepth
           /\ stack' = Append(stack, f)

SdkTypeOK ==
  /\ Len(stack) <= MaxDepth
  /\ \A i \in DOMAIN stack :
       stack[i].op \in Ops \cup {"wait", "callback"}
  /\ fmpdrv_int \in Interrupts \cup {0}
  /\ driver_cb_func \in Callable
  /\ muted \in BOOLEAN
  /\ indent_count \in Nat
  /\ r \in [Ops -> Answers]
  /\ resident \subseteq Interrupts
  /\ driver \in [cb     : {"none", "register", "stack"},
                 asked  : Callable \cup {"never"},
                 stream : {"none", "open", "playing", "paused"}]

SdkInit ==
  /\ stack = <<>>
  /\ fmpdrv_int = 0
  /\ driver_cb_func = "NULL"
  /\ muted = FALSE
  /\ indent_count = 0
  /\ r = [op \in Ops |-> 0]
  /\ ended = "no"
  /\ resident \in SUBSET Interrupts
  /\ driver = [cb |-> "none", asked |-> "never", stream |-> "none"]

-----------------------------------------------------------------------------
(* Calls: rm_call_fmpdrv, rm_call_rmdevsys, rm_call_vbios.                 *)

\* Mutant of AddIndent: a call that is not logged is not indented.
AddIndentAudible == indent_count' = IF muted THEN indent_count
                                    ELSE indent_count + 1

AddIndent == indent_count' = indent_count + 1
DelIndent == indent_count' = IF indent_count = 0 THEN 0 ELSE indent_count - 1

\* The ENTER line; a driver elsewhere than at INT 80h cannot be called.
CallEnter(op, cmd, cb) ==
  IF op = "fmpdrv" /\ fmpdrv_int # 128
  THEN /\ ended' = "unreachable"
       /\ UNCHANGED <<stack, indent_count>>
  ELSE /\ Push(CallFrame(op, cmd, cb))
       /\ AddIndent
       /\ UNCHANGED ended

\* What the driver does for a call, and answers.
DriverActs(cmd, cb, a) ==
  LET stream == driver.stream
      now(s) == driver' = [driver EXCEPT !.stream = s]
  IN  CASE cmd = "register" -> driver' = [driver EXCEPT !.cb = cb]
        [] cmd = "reset"    -> now("none")
        [] cmd = "open"     -> IF stream = "none" /\ a = 1 THEN now("open")
                               ELSE a = 0 /\ UNCHANGED driver
        [] cmd = "play"     -> now(IF stream = "none" THEN "none" ELSE "playing")
        [] cmd = "pause"    -> now(IF stream = "playing" THEN "paused" ELSE stream)
        [] cmd = "close"    -> now("none")
        [] cmd = "status"   -> /\ a = IF stream = "playing" THEN 0 ELSE 1
                               /\ UNCHANGED driver
        [] OTHER            -> UNCHANGED driver

\* The interrupt has returned and its answer is stored.
IntReturns ==
  /\ Running(Ops, "int")
  /\ \E a \in Answers :
       /\ IF Top.op = "fmpdrv" THEN DriverActs(Top.cmd, Top.cb, a)
          ELSE UNCHANGED driver
       /\ stack' = [stack EXCEPT ![Len(stack)] =
                      [Top EXCEPT !.phase = "exit", !.answer = a,
                                  !.rv = IF Top.op \in Static THEN @ ELSE a]]
       /\ r' = IF Top.op \in Static THEN [r EXCEPT ![Top.op] = a] ELSE r
  /\ UNCHANGED <<fmpdrv_int, driver_cb_func, muted, indent_count, ended, resident>>

\* What a call is about to return.
Result(f) == IF f.op \in Static THEN r[f.op] ELSE f.rv

\* Mutant of CallExit: a wait goes on until the stream plays.
CallExitInverted ==
  /\ Running(Ops, "exit")
  /\ DelIndent
  /\ LET below == Front(stack)
     IN  stack' = IF below # <<>> /\ Last(below).op = "wait" /\ Result(Top) = 0
                  THEN [below EXCEPT ![Len(below)].phase = "done"]
                  ELSE below
  /\ UNCHANGED <<fmpdrv_int, driver_cb_func, muted, r, ended, resident, driver>>

\* The EXIT line.  A wait that made the call learns whether the stream plays.
CallExit ==
  /\ Running(Ops, "exit")
  /\ DelIndent
  /\ LET below == Front(stack)
     IN  stack' = IF below # <<>> /\ Last(below).op = "wait" /\ Result(Top) # 0
                  THEN [below EXCEPT ![Len(below)].phase = "done"]
                  ELSE below
  /\ UNCHANGED <<fmpdrv_int, driver_cb_func, muted, r, ended, resident, driver>>

-----------------------------------------------------------------------------
(* The rest of the SDK, called by the program.                             *)

\* Mutant of Probe: the index is returned after it was advanced.
ProbeAdvanced ==
  /\ fmpdrv_int' = IF resident = {} THEN 0
                   ELSE 1 + CHOOSE i \in resident : \A j \in resident : i <= j
  /\ UNCHANGED <<stack, driver_cb_func, muted, indent_count, r, ended, resident,
                 driver>>

\* Mutant of Probe: the interrupts are searched from the top.
ProbeDown ==
  /\ fmpdrv_int' = IF resident = {} THEN 0
                   ELSE CHOOSE i \in resident : \A j \in resident : i >= j
  /\ UNCHANGED <<stack, driver_cb_func, muted, indent_count, r, ended, resident,
                 driver>>

\* rm_probe_fmpdrv_int and set_fmpdrv_int: the lowest interrupt that matches.
Probe ==
  /\ fmpdrv_int' = IF resident = {} THEN 0
                   ELSE CHOOSE i \in resident : \A j \in resident : i <= j
  /\ UNCHANGED <<stack, driver_cb_func, muted, indent_count, r, ended, resident,
                 driver>>

SetMute(val) ==
  /\ muted' = val
  /\ UNCHANGED <<stack, fmpdrv_int, driver_cb_func, indent_count, r, ended,
                 resident, driver>>

Call(op, cmd) ==
  /\ CallEnter(op, cmd, "none")
  /\ UNCHANGED <<fmpdrv_int, driver_cb_func, muted, r, resident, driver>>

\* Mutant of RegisterDriverCallback: the function is set in one mode only.
RegisterDriverCallbackStack(f, marshaller) ==
  /\ driver_cb_func' = IF marshaller = "stack" THEN f ELSE driver_cb_func
  /\ driver' = [driver EXCEPT !.asked = f]
  /\ f = "NULL" => marshaller = "register"
  /\ CallEnter("fmpdrv", "register", marshaller)
  /\ UNCHANGED <<fmpdrv_int, muted, r, resident>>

\* rm_register_driver_callback; any mode but RMCBMODE_STACK gets the marshaller
\* for registers.  So does NULL, which is stored and registered like a function.
RegisterDriverCallback(f, marshaller) ==
  /\ driver_cb_func' = f
  /\ driver' = [driver EXCEPT !.asked = f]
  /\ f = "NULL" => marshaller = "register"
  /\ CallEnter("fmpdrv", "register", marshaller)
  /\ UNCHANGED <<fmpdrv_int, muted, r, resident>>

\* Mutant of Waitplay: the log is muted for the wait that sleeps.
WaitplaySwapped(busy) ==
  /\ Push(WaitFrame(busy))
  /\ muted' = IF busy THEN muted ELSE TRUE
  /\ UNCHANGED <<fmpdrv_int, driver_cb_func, indent_count, r, ended, resident,
                 driver>>

\* rm_waitplay, up to the first poll.
Waitplay(busy) ==
  /\ Push(WaitFrame(busy))
  /\ muted' = IF busy THEN TRUE ELSE muted
  /\ UNCHANGED <<fmpdrv_int, driver_cb_func, indent_count, r, ended, resident,
                 driver>>

WaitPoll ==
  /\ Running({"wait"}, "poll")
  /\ Call("fmpdrv", "status")

WaitReturns ==
  /\ Running({"wait"}, "done")
  /\ muted' = FALSE
  /\ stack' = Front(stack)
  /\ UNCHANGED <<fmpdrv_int, driver_cb_func, indent_count, r, ended, resident,
                 driver>>

-----------------------------------------------------------------------------
(* The driver's own steps, and the callback.                               *)

PlaybackEnds ==
  /\ driver.stream = "playing"
  /\ driver' = [driver EXCEPT !.stream = "paused"]
  /\ UNCHANGED <<stack, fmpdrv_int, driver_cb_func, muted, indent_count, r,
                 ended, resident>>

\* The driver calls a marshaller, in a call or from its interrupt; the
\* marshaller calls the function, or jumps to nowhere when it is NULL.
CallBack ==
  /\ ended = "no" /\ driver.cb # "none"
  /\ driver.stream = "playing" \/ Running({"fmpdrv"}, "int")
  /\ IF driver_cb_func = "NULL"
     THEN ended' = "crashed" /\ UNCHANGED stack
     ELSE Push(CallbackFrame(driver_cb_func)) /\ UNCHANGED ended
  /\ UNCHANGED <<fmpdrv_int, driver_cb_func, muted, indent_count, r, resident,
                 driver>>

CallbackReturns ==
  /\ CallbackRuns
  /\ stack' = Front(stack)
  /\ UNCHANGED <<fmpdrv_int, driver_cb_func, muted, indent_count, r, ended,
                 resident, driver>>

Ended == ended # "no" /\ UNCHANGED sdkVars

CallsOf(op) == IF op = "fmpdrv" THEN Commands \ {"register"} ELSE {"any"}

ProgramStep ==
  /\ ProgramRuns
  /\ \/ Probe
     \/ \E val \in BOOLEAN : SetMute(val)
     \/ \E op \in Ops : \E cmd \in CallsOf(op) : Call(op, cmd)
     \/ \E f \in Callable, m \in {"register", "stack"} : RegisterDriverCallback(f, m)
     \/ \E busy \in BOOLEAN : Waitplay(busy)

CallbackStep == /\ CallbackRuns
                /\ \E op \in CallbackCalls : \E cmd \in CallsOf(op) : Call(op, cmd)

SdkNext == \/ ProgramStep \/ CallbackStep
           \/ IntReturns \/ CallExit \/ WaitPoll \/ WaitReturns
           \/ PlaybackEnds \/ CallBack \/ CallbackReturns
           \/ Ended

SdkSpec == SdkInit /\ [][SdkNext]_sdkVars

-----------------------------------------------------------------------------
(* Properties.                                                             *)

\* A line of the log is indented by the calls in progress where it is written,
\* however the program's calls and those of the interrupts nest and whatever is
\* muted in between.
IndentIsDepth ==
  ended = "no" =>
    indent_count = Cardinality({i \in DOMAIN stack : stack[i].op \in Ops})

\* A call returns what its own interrupt answered, although callbacks that come
\* before it has returned make calls of their own: none of theirs has a static
\* result.
OwnResult ==
  \A i \in DOMAIN stack :
    stack[i].op \in Ops /\ stack[i].phase = "exit" =>
      Result(stack[i]) = stack[i].answer

\* A marshaller that has no function to call was given none: reelmagc.c:220 sets
\* the function before the driver can call the marshaller, so that only a program
\* that registers NULL, and so has the driver call nothing, is brought down.
NeverThroughNull == ended = "crashed" => driver.asked = "NULL"

\* A busy wait is silent for as long as it lasts (reelmagc.c:287).
BusyWaitSilent ==
  (\E i \in DOMAIN stack : stack[i].op = "wait" /\ stack[i].busy) => muted
=============================================================================
