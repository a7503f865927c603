---------------------------- MODULE PlayerProofs ----------------------------
(***************************************************************************)
(* Proofs about the player, for every set of interrupts the driver may be  *)
(* found at, and every answer of the driver and of RMDEV.SYS.              *)
(*                                                                         *)
(* What the player does to the SDK are the actions of RmSdk, so that       *)
(* SdkInv holds; PlayerInv adds where the player is while each of its      *)
(* calls is in progress, and what is open and audible there.               *)
(***************************************************************************)
EXTENDS Player, RmSdkProofs

\* The statements from the first on that the driver at INT 80h has returned to.
Driven     == {"zorder", "open", "types", "play", "wait", "close", "end"}
Statements == {"openlog", "args", "usage", "abort", "probe", "reset"}
                \cup RmdevsysCalls \cup Driven

\* The calls in progress are those of the statement the player is at; only the
\* wait makes a call of its own.
FrameOf(i) ==
  \/ stack[i].op = "rmdevsys" /\ i = 1 /\ pc \in RmdevsysCalls
  \/ stack[i].op = "wait" /\ i = 1 /\ pc = "wait"
  \/ /\ stack[i].op = "fmpdrv" /\ fmpdrv_int = 128
     /\ \/ i = 1 /\ pc \in FmpdrvCalls /\ stack[i].cmd = pc
        \/ i = 2 /\ pc = "wait" /\ stack[i].cmd = "status"

\* The driver has closed the stream.
Closed == \/ pc = "end"
          \/ \E i \in DOMAIN stack : /\ stack[i].op = "fmpdrv" /\ stack[i].cmd = "close"
                                     /\ stack[i].phase = "exit"

\* The inductive invariant of the player.
PlayerInv ==
  /\ SdkInv
  /\ pc \in Statements /\ logout \in BOOLEAN
  /\ \A i \in DOMAIN stack : FrameOf(i)
  /\ pc \in Driven => fmpdrv_int = 128
  /\ 128 \in resident /\ pc = "reset" => fmpdrv_int = 128
  /\ driver.stream = "playing" => pc \in {"play", "wait", "close"} /\ ended = "no"
  /\ Closed => driver.stream = "none"
  /\ muted => pc = "wait" /\ stack # <<>>
  /\ PlayedCleanly
  /\ DriverAt80Called

-----------------------------------------------------------------------------
(* Facts about the player.                                                 *)

\* Where main and play_file run, no call is in progress.
LEMMA Outside ==
  ASSUME PlayerInv, stack = <<>>
  PROVE  /\ ~muted /\ DOMAIN stack = {} /\ (Closed <=> pc = "end")
         /\ ended = "no" => indent_count = 0
<1>1. DOMAIN stack = {}
  BY EmptySeq
<1>2. Depth(stack) = 0
  BY <1>1, FS_EmptySet DEF Depth, InProgress
<1>3. QED
  BY <1>1, <1>2, Facts DEF PlayerInv, Closed

\* A step that leaves no call in progress.
LEMMA Rests ==
  ASSUME SdkInv', stack' = <<>>,
         pc' \in Statements, logout' \in BOOLEAN,
         pc' \in Driven => fmpdrv_int' = 128,
         128 \in resident' /\ pc' = "reset" => fmpdrv_int' = 128,
         driver'.stream = "playing" =>
           pc' \in {"play", "wait", "close"} /\ ended' = "no",
         pc' = "end" => driver'.stream = "none",
         ~muted', PlayedCleanly', DriverAt80Called'
  PROVE  PlayerInv'
<1>1. DOMAIN stack' = {}
  BY EmptySeq
<1>2. QED
  BY <1>1 DEF PlayerInv, Closed

\* The innermost call, and the wait or the statement that made it.
LEMMA Inside ==
  ASSUME PlayerInv, stack # <<>>
  PROVE  /\ stack \in Seq(Frames) /\ DOMAIN stack = 1 .. Len(stack)
         /\ Len(stack) \in {1, 2} /\ Len(stack) \in DOMAIN stack
         /\ Top = stack[Len(stack)]
         /\ \A i \in DOMAIN stack : FrameOf(i)
         /\ pc # "end"
<1>1. stack \in Seq(Frames) /\ \A i \in DOMAIN stack : FrameOf(i)
  BY DEF PlayerInv, SdkInv, StackOK
<1>2. DOMAIN stack = 1 .. Len(stack) /\ Len(stack) \in Nat \ {0}
  BY <1>1, EmptySeq, LenProperties
<1>3. Len(stack) \in DOMAIN stack /\ Top = stack[Len(stack)]
  BY <1>2 DEF Top, Last
<1>4. FrameOf(Len(stack))
  BY <1>1, <1>3
<1>5. QED
  BY <1>1, <1>2, <1>3, <1>4 DEF FrameOf, RmdevsysCalls, FmpdrvCalls

-----------------------------------------------------------------------------
(* PlayerInv is inductive, action by action.                               *)

LEMMA PlayerInitInv == PlayerInit => PlayerInv
<1> SUFFICES ASSUME PlayerInit PROVE PlayerInv
  OBVIOUS
<1>1. DOMAIN stack = {}
  BY EmptySeq DEF PlayerInit, SdkInit
<1>2. QED
  BY <1>1, SdkInitInv
     DEF PlayerInit, SdkInit, PlayerInv, Statements, Driven, Closed, PlayedCleanly,
         DriverAt80Called

LEMMA OpenLogFileInv ==
  ASSUME PlayerInv, OpenLogFile
  PROVE  PlayerInv'
<1>1. SdkInv'
  BY StutterInv DEF PlayerInv, OpenLogFile
<1>2. stack = <<>> /\ pc' \in {"args", "abort"} /\ logout' \in BOOLEAN /\ ended = "no"
  BY DEF OpenLogFile, ProgramRuns, PlayerInv
<1>3. QED
  BY <1>1, <1>2, Outside, Rests
     DEF PlayerInv, OpenLogFile, sdkVars, Statements, Driven, PlayedCleanly,
         DriverAt80Called

LEMMA ArgsInv ==
  ASSUME PlayerInv, Args
  PROVE  PlayerInv'
<1>1. /\ stack = <<>> /\ ended = "no" /\ ended' \in {"no", "usage"}
      /\ pc = "args" /\ pc' \in {"present", "usage"}
  BY DEF Args, ProgramRuns
<1>2. SdkInv'
  BY <1>1, EndsInv, StutterInv DEF PlayerInv, Args, sdkVars
<1>3. QED
  BY <1>1, <1>2, Outside, Rests
     DEF PlayerInv, Args, Statements, RmdevsysCalls, Driven, PlayedCleanly,
         DriverAt80Called

\* A step that pushes a call of the statement or of its wait.
LEMMA BeginInv ==
  ASSUME PlayerInv, Begin
  PROVE  PlayerInv'
<1>1. /\ stack = <<>> /\ ended = "no" /\ SdkInv /\ UNCHANGED pc
      /\ logout' = (logout /\ ended' = "no")
  BY DEF Begin, ProgramRuns, PlayerInv
<1>2. PICK op \in {"rmdevsys", "fmpdrv"}, cmd \in Names :
        /\ Call(op, cmd)
        /\ op = "rmdevsys" => pc \in RmdevsysCalls /\ cmd = "any"
        /\ op = "fmpdrv" => pc \in FmpdrvCalls /\ cmd = pc
  <2>1. "any" \in Names /\ FmpdrvCalls \subseteq Names
    BY DEF Names, FmpdrvCalls
  <2>2. QED
    BY <2>1 DEF Begin
<1>3. /\ CallEnter(op, cmd, "none")
      /\ UNCHANGED <<fmpdrv_int, driver_cb_func, muted, r, resident, driver>>
  BY <1>2 DEF Call
<1>4. SdkInv'
  <2>1. op \in Ops /\ driver_cb_func \in Callable
    BY <1>1, Facts DEF Ops
  <2>2. cmd # "register"
    BY <1>2 DEF FmpdrvCalls
  <2>3. QED
    BY <1>1, <1>3, <2>1, <2>2, EnterInv
<1>5. CASE op = "fmpdrv" /\ fmpdrv_int # 128
  <2>1. ended' = "unreachable" /\ stack' = <<>>
    BY <1>1, <1>3, <1>5 DEF CallEnter
  <2>2. pc = "reset" /\ 128 \notin resident
    BY <1>2, <1>5 DEF PlayerInv, FmpdrvCalls, Driven
  <2>3. QED
    BY <1>1, <1>3, <1>4, <2>1, <2>2, Outside, Rests
       DEF PlayerInv, Driven, PlayedCleanly, DriverAt80Called
<1>6. CASE ~(op = "fmpdrv" /\ fmpdrv_int # 128)
  <2> DEFINE f == CallFrame(op, cmd, "none")
  <2>1. stack' = Append(stack, f) /\ ended' = ended
    BY <1>3, <1>6 DEF CallEnter, Push
  <2>2. f \in Frames /\ f.op = op /\ f.cmd = cmd /\ f.phase = "int"
    BY <1>2 DEF CallFrame, Frames, CallFrames, Ops, Answers
  <2> HIDE DEF f
  <2>3. DOMAIN stack' = {1} /\ stack'[1] = f
    BY <1>1, <2>1
  <2>4. \A i \in DOMAIN stack' : FrameOf(i)'
    BY <1>1, <1>2, <1>3, <1>6, <2>2, <2>3 DEF FrameOf
  <2>5. ~Closed'
    BY <1>1, <1>2, <2>2, <2>3 DEF Closed, RmdevsysCalls, FmpdrvCalls
  <2>6. QED
    BY <1>1, <1>3, <1>4, <2>1, <2>4, <2>5, Outside
       DEF PlayerInv, PlayedCleanly, DriverAt80Called
<1>7. QED
  BY <1>5, <1>6

\* A driver at INT 80h is found there: no interrupt below it is looked at.
LEMMA ProbeDriverInv ==
  ASSUME PlayerInv, ProbeDriver
  PROVE  PlayerInv'
<1>1. /\ stack = <<>> /\ ended = "no" /\ SdkInv /\ Probe /\ pc = "probe"
      /\ pc' \in {"abort", "reset"} /\ UNCHANGED logout
  BY DEF ProbeDriver, ProgramRuns, PlayerInv, After
<1>2. SdkInv'
  BY <1>1, ProbeInv
<1>3. 128 \in resident => fmpdrv_int' = 128
  <2>1. ASSUME 128 \in resident PROVE fmpdrv_int' = 128
    <3> DEFINE low == CHOOSE i \in resident : \A j \in resident : i <= j
    <3>1. low \in resident /\ \A j \in resident : low <= j
      BY <2>1, <1>1, Lowest, TypesOf DEF TypesBut
    <3>2. resident \subseteq 128 .. 255
      BY <1>1, TypesOf, RmSdkAssumption DEF TypesBut
    <3>3. fmpdrv_int' = low
      BY <1>1, <2>1 DEF Probe
    <3> HIDE DEF low
    <3>4. QED
      BY <2>1, <3>1, <3>2, <3>3
  <2>2. QED
    BY <2>1
<1>4. QED
  BY <1>1, <1>2, <1>3, Outside, Rests
     DEF Probe, PlayerInv, Statements, Driven, PlayedCleanly, DriverAt80Called

LEMMA WaitInv ==
  ASSUME PlayerInv, Wait
  PROVE  PlayerInv'
<1>1. /\ stack = <<>> /\ ended = "no" /\ SdkInv /\ Waitplay(TRUE) /\ pc = "wait"
      /\ UNCHANGED <<pc, logout>>
  BY DEF Wait, ProgramRuns, PlayerInv
<1>2. SdkInv'
  BY <1>1, WaitplayInv
<1> DEFINE f == WaitFrame(TRUE)
<1>3. f.op = "wait" /\ stack' = Append(stack, f)
  BY <1>1 DEF WaitFrame, Waitplay, Push
<1> HIDE DEF f
<1>4. DOMAIN stack' = {1} /\ stack'[1] = f /\ stack' # <<>>
  BY <1>1, <1>3
<1>5. (\A i \in DOMAIN stack' : FrameOf(i)') /\ ~Closed'
  BY <1>1, <1>3, <1>4 DEF FrameOf, Closed
<1>6. QED
  BY <1>1, <1>2, <1>4, <1>5
     DEF Waitplay, PlayerInv, PlayedCleanly, DriverAt80Called

LEMMA WaitPollInv ==
  ASSUME PlayerInv, WaitPoll, UNCHANGED <<pc, logout>>
  PROVE  PlayerInv'
<1>1. /\ stack # <<>> /\ ended = "no" /\ Top.op = "wait" /\ SdkInv
      /\ CallEnter("fmpdrv", "status", "none")
      /\ UNCHANGED <<fmpdrv_int, driver_cb_func, muted, r, resident, driver>>
  BY DEF WaitPoll, Running, Call, PlayerInv
<1>2. /\ stack \in Seq(Frames) /\ DOMAIN stack = 1 .. Len(stack)
      /\ \A i \in DOMAIN stack : FrameOf(i)
      /\ Len(stack) = 1 /\ pc = "wait" /\ fmpdrv_int = 128
  BY <1>1, Inside DEF FrameOf, PlayerInv, Driven
<1> DEFINE f == CallFrame("fmpdrv", "status", "none")
<1>3. stack' = Append(stack, f) /\ UNCHANGED ended
  BY <1>1, <1>2 DEF CallEnter, Push
<1>4. f \in Frames /\ f.op = "fmpdrv" /\ f.cmd = "status"
  BY DEF CallFrame, Frames, CallFrames, Ops, Names, Answers
<1>5. SdkInv'
  BY <1>1, Facts, EnterInv DEF Ops, Names
<1> HIDE DEF f
<1>6. /\ stack' # <<>> /\ DOMAIN stack' = {1, 2} /\ stack'[2] = f
      /\ stack'[1] = stack[1]
  <2>1. /\ stack' # <<>> /\ Len(stack') = Len(stack) + 1
        /\ DOMAIN stack' = DOMAIN stack \cup {Len(stack')}
        /\ stack'[Len(stack')] = f /\ \A i \in DOMAIN stack : stack'[i] = stack[i]
    <3>1. stack \in Seq(Frames)
      BY <1>2
    <3>2. QED
      BY <1>3, <1>4, <3>1, Appended
  <2>2. Len(stack') = 2 /\ DOMAIN stack = {1}
    BY <1>2, <2>1
  <2>3. QED
    BY <2>1, <2>2
<1>7. \A i \in DOMAIN stack' : FrameOf(i)'
  BY <1>1, <1>2, <1>4, <1>6 DEF FrameOf
<1>8. ~Closed'
  BY <1>1, <1>2, <1>4, <1>6, Inside DEF Closed
<1>9. QED
  BY <1>1, <1>2, <1>3, <1>5, <1>6, <1>7, <1>8
     DEF PlayerInv, PlayedCleanly, DriverAt80Called
LEMMA OneLess == \A n \in Nat : \A m : m = n + 1 => n = m - 1
OBVIOUS

\* A call of the statement goes on to the next one, or to the abort.
LEMMA ReturnInv ==
  ASSUME PlayerInv, Return
  PROVE  PlayerInv'
<1> DEFINE below == Front(stack)
<1>1. /\ stack # <<>> /\ ended = "no" /\ SdkInv
      /\ Top.op \in Ops /\ Top.phase = "exit" /\ CallExit
      /\ pc' = IF below # <<>> THEN pc
               ELSE IF pc \in Checked /\ Result(Top) = 0 THEN "abort" ELSE After(pc)
      /\ stack' = IF below # <<>> /\ Last(below).op = "wait" /\ Result(Top) # 0
                  THEN [below EXCEPT ![Len(below)].phase = "done"]
                  ELSE below
      /\ UNCHANGED <<fmpdrv_int, driver_cb_func, muted, r, ended, resident, driver,
                     logout>>
  BY DEF Return, CallExit, Running, PlayerInv
<1>2. SdkInv'
  BY <1>1, CallExitInv
<1>3. /\ stack \in Seq(Frames) /\ DOMAIN stack = 1 .. Len(stack)
      /\ Len(stack) \in {1, 2} /\ Top = stack[Len(stack)]
      /\ \A i \in DOMAIN stack : FrameOf(i)
  BY <1>1, Inside
<1>4. /\ stack' \in Seq(Frames) /\ Len(stack) = Len(stack') + 1
      /\ DOMAIN stack' = 1 .. Len(stack') /\ Len(stack') \in Nat
      /\ \A i \in 1 .. Len(stack') :
           \/ stack'[i] = stack[i]
           \/ stack[i].op = "wait" /\ stack'[i] = [stack[i] EXCEPT !.phase = "done"]
  BY <1>1, ExitStack
<1>5. below \in Seq(Frames) /\ Len(below) = Len(stack) - 1
  <2>1. stack \in Seq(Frames)
    BY <1>3
  <2>2. below \in Seq(Frames) /\ Len(stack) = Len(below) + 1 /\ Len(below) \in Nat
    BY <1>1, <2>1, WithoutLast
  <2>3. QED
    BY <2>2, OneLess
<1> HIDE DEF below
<1>6. CASE Len(stack) = 1
  <2>1. below = <<>> /\ stack' = <<>>
    <3>1. Len(below) = 0
      BY <1>5, <1>6
    <3>2. Len(stack') = 0
      <4>1. Len(stack') \in Nat /\ Len(stack) = Len(stack') + 1
        BY <1>4
      <4>2. Len(stack') = Len(stack) - 1
        BY <4>1, OneLess
      <4>3. QED
        BY <1>6, <4>2
    <3>3. QED
      BY <1>4, <1>5, <3>1, <3>2, EmptySeq
  <2>2. \/ Top.op = "rmdevsys" /\ pc \in RmdevsysCalls
        \/ /\ Top.op = "fmpdrv" /\ pc \in FmpdrvCalls /\ Top.cmd = pc
           /\ fmpdrv_int = 128
    BY <1>1, <1>3, <1>6 DEF FrameOf, Ops
  <2>3. pc = "close" => driver.stream = "none"
    BY <1>1, <1>3, <1>6, <2>2 DEF PlayerInv, Closed, RmdevsysCalls
  <2>4. pc' = IF pc \in Checked /\ Result(Top) = 0 THEN "abort" ELSE After(pc)
    BY <1>1, <2>1
  <2>5. CASE pc \in RmdevsysCalls
    <3>1. pc' \in {"abort", "version", "path", "probe"}
      BY <2>4, <2>5 DEF RmdevsysCalls, After
    <3>2. QED
      BY <1>1, <1>2, <2>1, <2>5, <3>1, Rests
         DEF PlayerInv, Statements, RmdevsysCalls, Driven, PlayedCleanly,
             DriverAt80Called
  <2>6. CASE pc \in FmpdrvCalls /\ fmpdrv_int = 128
    <3>1. /\ pc' \in {"abort", "zorder", "open", "types", "play", "wait", "end"}
          /\ pc = "play" => pc' = "wait"
          /\ pc' = "end" <=> pc = "close"
      BY <2>4, <2>6 DEF FmpdrvCalls, After, Checked
    <3>2. driver.stream = "playing" => pc = "play"
      BY <2>3, <2>6 DEF PlayerInv, FmpdrvCalls
    <3>3. ~muted
      BY <2>6 DEF PlayerInv, FmpdrvCalls
    <3>4. QED
      BY <1>1, <1>2, <2>1, <2>3, <2>6, <3>1, <3>2, <3>3, Rests
         DEF PlayerInv, Statements, RmdevsysCalls, Driven, PlayedCleanly,
             DriverAt80Called
  <2>7. QED
    BY <2>2, <2>5, <2>6
<1>7. CASE Len(stack) = 2
  <2>1. pc = "wait" /\ stack[1].op = "wait"
    BY <1>1, <1>3, <1>7 DEF FrameOf, RmdevsysCalls, FmpdrvCalls
  <2>2. below # <<>> /\ pc' = pc
    <3>1. Len(below) = 1
      BY <1>5, <1>7
    <3>2. QED
      BY <1>1, <3>1
  <2>3. DOMAIN stack' = {1} /\ stack'[1].op = "wait" /\ stack' # <<>>
    <3>1. DOMAIN stack' = {1} /\ 1 \in 1 .. Len(stack') /\ Len(stack') = 1
      BY <1>4, <1>7
    <3>2. stack[1] \in WaitFrames
      BY <1>3, <1>7, <2>1, StackOps, FrameOps
    <3>3. stack'[1].op = "wait"
      BY <1>4, <2>1, <3>1, <3>2 DEF WaitFrames
    <3>4. QED
      BY <3>1, <3>3
  <2>4. (\A i \in DOMAIN stack' : FrameOf(i)') /\ ~Closed'
    BY <2>1, <2>2, <2>3 DEF FrameOf, Closed
  <2>5. QED
    BY <1>1, <1>2, <2>1, <2>2, <2>3, <2>4
       DEF PlayerInv, PlayedCleanly, DriverAt80Called
<1>8. QED
  BY <1>3, <1>6, <1>7

LEMMA WaitedInv ==
  ASSUME PlayerInv, Waited
  PROVE  PlayerInv'
<1>1. /\ stack # <<>> /\ ended = "no" /\ SdkInv /\ WaitReturns
      /\ Top.op = "wait" /\ stack' = Front(stack) /\ muted' = FALSE
      /\ pc' = After(pc)
      /\ UNCHANGED <<fmpdrv_int, driver_cb_func, indent_count, r, ended, resident,
                     driver, logout>>
  BY DEF Waited, WaitReturns, Running, PlayerInv
<1>2. SdkInv'
  BY <1>1, WaitReturnsInv
<1>3. stack' = <<>>
  BY <1>1, Pops DEF Top
<1>4. pc = "wait" /\ pc' = "close"
  BY <1>1, Inside DEF FrameOf, After
<1>5. QED
  BY <1>1, <1>2, <1>3, <1>4, Rests
     DEF PlayerInv, Statements, Driven, PlayedCleanly, DriverAt80Called

LEMMA AbortInv ==
  ASSUME PlayerInv, Abort
  PROVE  PlayerInv'
<1>1. /\ stack = <<>> /\ ended' = "failed" /\ pc = "abort" /\ logout' = FALSE
      /\ UNCHANGED <<stack, fmpdrv_int, driver_cb_func, muted, indent_count, r,
                     resident, driver, pc>>
  BY DEF Abort, ProgramRuns
<1>2. SdkInv'
  BY <1>1, EndsInv DEF PlayerInv
<1>3. QED
  BY <1>1, <1>2, Outside, Rests DEF PlayerInv, PlayedCleanly, DriverAt80Called

LEMMA CloseLogFileInv ==
  ASSUME PlayerInv, CloseLogFile
  PROVE  PlayerInv'
<1>1. /\ stack = <<>> /\ ended = "no" /\ ended' = "played" /\ pc = "end"
      /\ logout' = FALSE
      /\ UNCHANGED <<stack, fmpdrv_int, driver_cb_func, muted, indent_count, r,
                     resident, driver, pc>>
  BY DEF CloseLogFile, ProgramRuns
<1>2. SdkInv'
  BY <1>1, EndsInv DEF PlayerInv
<1>3. driver.stream = "none"
  BY <1>1 DEF PlayerInv, Closed
<1>4. QED
  BY <1>1, <1>2, <1>3, Outside, Rests DEF PlayerInv, PlayedCleanly, DriverAt80Called
\* What the driver does to the stream for a call of the player.
LEMMA StreamActs ==
  ASSUME TypesBut, NEW cmd \in FmpdrvCalls \cup {"status"}, NEW cb, NEW a \in Answers,
         DriverActs(cmd, cb, a)
  PROVE  /\ driver'.stream = "playing" => driver.stream = "playing" \/ cmd = "play"
         /\ cmd = "close" => driver'.stream = "none"
BY DEF TypesBut, DriverActs, FmpdrvCalls

LEMMA DriverReturnsInv ==
  ASSUME PlayerInv, DriverReturns
  PROVE  PlayerInv'
<1>1. /\ SdkInv /\ IntReturns /\ ended = "no" /\ stack # <<>>
      /\ UNCHANGED <<fmpdrv_int, driver_cb_func, muted, indent_count, ended, resident,
                     pc, logout>>
  BY DEF DriverReturns, IntReturns, Running, PlayerInv
<1>2. SdkInv'
  BY <1>1, IntReturnsInv
<1>3. /\ stack \in Seq(Frames) /\ DOMAIN stack = 1 .. Len(stack)
      /\ Len(stack) \in {1, 2} /\ Len(stack) \in DOMAIN stack
      /\ Top = stack[Len(stack)] /\ pc # "end"
      /\ \A i \in DOMAIN stack : FrameOf(i)
  BY <1>1, Inside
<1>4. PICK a \in Answers, f \in Frames :
        /\ IF Top.op = "fmpdrv" THEN DriverActs(Top.cmd, Top.cb, a)
           ELSE UNCHANGED driver
        /\ stack' = [stack EXCEPT ![Len(stack)] = f]
        /\ f.op = Top.op /\ f.cmd = Top.cmd
  BY <1>1, Answered
<1>5. Top.op \in Ops
  BY <1>1, Answered
<1>6. /\ stack' # <<>> /\ DOMAIN stack' = DOMAIN stack /\ stack'[Len(stack)] = f
      /\ \A i \in DOMAIN stack : i # Len(stack) => stack'[i] = stack[i]
  BY <1>1, <1>3, <1>4, LastReplaced
<1>7. \A i \in DOMAIN stack' : FrameOf(i)'
  BY <1>1, <1>3, <1>4, <1>5, <1>6 DEF FrameOf, Ops
<1>8. \/ Top.op = "rmdevsys" /\ pc \in RmdevsysCalls /\ UNCHANGED driver
      \/ /\ Top.op = "fmpdrv" /\ DriverActs(Top.cmd, Top.cb, a)
         /\ \/ pc \in FmpdrvCalls /\ Top.cmd = pc
            \/ pc = "wait" /\ Top.cmd = "status"
  <2>1. FrameOf(Len(stack))
    BY <1>3
  <2>2. QED
    BY <1>3, <1>4, <1>5, <2>1 DEF FrameOf, Ops
<1>9. /\ driver'.stream = "playing" => driver.stream = "playing" \/ pc = "play"
      /\ Top.op = "fmpdrv" /\ Top.cmd = "close" => driver'.stream = "none"
  BY <1>1, <1>8, TypesOf, StreamActs DEF RmdevsysCalls
<1>10. Closed' => driver'.stream = "none"
  <2>1. ASSUME Closed' PROVE Top.op = "fmpdrv" /\ Top.cmd = "close"
    <3>1. PICK i \in DOMAIN stack' :
            stack'[i].op = "fmpdrv" /\ stack'[i].cmd = "close"
      BY <1>1, <1>3, <2>1 DEF Closed
    <3>2. FrameOf(i)'
      BY <1>7, <3>1
    <3>3. i = 1 /\ pc = "close"
      BY <1>1, <3>1, <3>2 DEF FrameOf
    <3>4. Len(stack) = 1
      BY <1>3, <1>8, <3>3 DEF FrameOf, RmdevsysCalls
    <3>5. QED
      BY <1>4, <1>6, <3>1, <3>3, <3>4
  <2>2. QED
    BY <1>9, <2>1
<1>11. QED
  BY <1>1, <1>2, <1>6, <1>7, <1>9, <1>10
     DEF PlayerInv, PlayedCleanly, DriverAt80Called

LEMMA DriverEndsInv ==
  ASSUME PlayerInv, DriverEnds
  PROVE  PlayerInv'
<1>1. /\ SdkInv /\ PlaybackEnds /\ driver.stream = "playing" /\ ended = "no"
      /\ UNCHANGED <<stack, fmpdrv_int, muted, indent_count, ended, resident, pc, logout>>
  BY DEF DriverEnds, PlaybackEnds, PlayerInv
<1>2. SdkInv'
  BY <1>1, PlaybackEndsInv
<1>3. driver'.stream # "playing"
  BY <1>1, TypesOf DEF PlaybackEnds, TypesBut
<1>4. (\A i \in DOMAIN stack' : FrameOf(i)') /\ ~Closed'
  BY <1>1 DEF PlayerInv, FrameOf, Closed
<1>5. QED
  BY <1>1, <1>2, <1>3, <1>4 DEF PlayerInv, PlayedCleanly, DriverAt80Called

LEMMA PlayerInvStep ==
  ASSUME PlayerInv, [PlayerNext]_playerVars
  PROVE  PlayerInv'
<1>1. CASE UNCHANGED playerVars
  <2>1. SdkInv'
    BY <1>1, StutterInv DEF PlayerInv, playerVars
  <2>2. QED
    BY <1>1, <2>1
       DEF PlayerInv, playerVars, sdkVars, FrameOf, Closed, PlayedCleanly,
           DriverAt80Called
<1>2. CASE PlayerNext
  BY <1>1, <1>2, OpenLogFileInv, ArgsInv, BeginInv, ProbeDriverInv, WaitInv,
     WaitPollInv, ReturnInv, WaitedInv, AbortInv, CloseLogFileInv,
     DriverReturnsInv, DriverEndsInv
     DEF PlayerNext, MainStep, Terminated
<1>3. QED
  BY <1>1, <1>2

-----------------------------------------------------------------------------
(* The theorems.                                                           *)

\* PlayerInv holds throughout every run.
THEOREM PlayerInvariance == PlayerSpec => []PlayerInv
<1>1. PlayerInit => PlayerInv
  BY PlayerInitInv
<1>2. PlayerInv /\ [PlayerNext]_playerVars => PlayerInv'
  BY PlayerInvStep
<1>3. QED
  BY <1>1, <1>2, PTL DEF PlayerSpec

\* The SDK's invariant holds of it as the player uses it.
THEOREM PlayerKeepsSdk == PlayerSpec => []SdkInv
<1>1. PlayerInv => SdkInv
  BY DEF PlayerInv
<1>2. QED
  BY <1>1, PlayerInvariance, PTL

\* A run of the player that succeeds leaves nothing open, muted or indented.
THEOREM PlaysCleanly == PlayerSpec => []PlayedCleanly
<1>1. PlayerInv => PlayedCleanly
  BY DEF PlayerInv
<1>2. QED
  BY <1>1, PlayerInvariance, PTL

\* However the player ends, the driver is not left playing.
THEOREM NothingPlaysOn == PlayerSpec => []NoPlaybackOutlives
<1>1. PlayerInv => NoPlaybackOutlives
  BY DEF PlayerInv, NoPlaybackOutlives
<1>2. QED
  BY <1>1, PlayerInvariance, PTL

\* A driver at INT 80h is always found, and the player can call it.
THEOREM FoundAt80 == PlayerSpec => []DriverAt80Called
<1>1. PlayerInv => DriverAt80Called
  BY DEF PlayerInv
<1>2. QED
  BY <1>1, PlayerInvariance, PTL
=============================================================================
