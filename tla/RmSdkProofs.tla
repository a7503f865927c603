---------------------------- MODULE RmSdkProofs ----------------------------
(***************************************************************************)
(* Proofs about the SDK, for every set of interrupts, commands and         *)
(* callback functions, and every nesting of calls, callbacks and waits.    *)
(*                                                                         *)
(* Every action of RmSdk preserves SdkInv, one lemma each; module          *)
(* PlayerProofs uses the same lemmas for the player's calls of the SDK.    *)
(***************************************************************************)
EXTENDS RmSdk, SequenceTheorems, FiniteSetTheorems, WellFoundedInduction, TLAPS

\* The calls by name: those of the program, of the SDK and of the player.
Names          == Commands \cup {"any", "register", "status", "reset", "zorder",
                                 "open", "types", "play", "close"}

\* The frames of the stack.
CallFrames     == [op : Ops, cmd : Names, cb : {"none", "register", "stack"},
                   phase : {"int", "exit"}, answer : Answers, rv : Answers]
WaitFrames     == [op : {"wait"}, busy : BOOLEAN, phase : {"poll", "done"}]
CallbackFrames == [op : {"callback"}, cmd : Functions]
Frames         == CallFrames \cup WaitFrames \cup CallbackFrames

\* The calls in progress, on a stack.
InProgress(s) == {i \in DOMAIN s : s[i].op \in Ops}
Depth(s)      == Cardinality(InProgress(s))

\* A busy wait is in progress.
BusyWait(s) == \E i \in DOMAIN s : s[i].op = "wait" /\ s[i].busy

\* A registration is in progress.
Registers(s) == \E i \in DOMAIN s : s[i].op = "fmpdrv" /\ s[i].cmd = "register"

\* Before any registration no marshaller is known, and after it the marshallers
\* call what was registered last.
AsAsked ==
  /\ driver.cb # "none" \/ Registers(stack) => driver.asked # "never"
  /\ driver.asked # "never" => driver_cb_func = driver.asked

\* The stack: only the program waits, so that a wait is the outermost frame.
StackOK == /\ stack \in Seq(Frames)
           /\ Len(stack) <= MaxDepth
           /\ \A i \in DOMAIN stack : stack[i].op = "wait" => i = 1

\* The inductive invariant of the SDK: the function the marshaller calls is the
\* one the program asked for, and a driver that knows a marshaller, or is about
\* to, was asked.
SdkInv ==
  /\ SdkTypeOK /\ StackOK
  /\ BusyWaitSilent
  /\ AsAsked
  /\ NeverThroughNull
  /\ IndentIsDepth

-----------------------------------------------------------------------------
(* Facts about sequences.                                                  *)

LEMMA Appended ==
  ASSUME NEW S, NEW s \in Seq(S), NEW f \in S, NEW t, t = Append(s, f)
  PROVE  /\ t \in Seq(S) /\ t # <<>> /\ Len(t) = Len(s) + 1
         /\ DOMAIN s = 1 .. Len(s) /\ DOMAIN t = DOMAIN s \cup {Len(t)}
         /\ Len(s) \in Nat /\ t[Len(t)] = f
         /\ \A i \in DOMAIN s : t[i] = s[i]
<1>1. /\ t \in Seq(S) /\ t # <<>> /\ Len(t) = Len(s) + 1 /\ t[Len(s) + 1] = f
      /\ \A i \in 1 .. Len(s) : t[i] = s[i]
  BY AppendProperties
<1>2. DOMAIN s = 1 .. Len(s) /\ DOMAIN t = 1 .. Len(t) /\ Len(s) \in Nat
  BY <1>1, LenProperties
<1>3. QED
  BY <1>1, <1>2

LEMMA WithoutLast ==
  ASSUME NEW S, NEW s \in Seq(S), s # <<>>, NEW t, t = Front(s)
  PROVE  /\ t \in Seq(S) /\ Len(s) = Len(t) + 1
         /\ DOMAIN t = 1 .. Len(t) /\ DOMAIN s = DOMAIN t \cup {Len(s)}
         /\ Len(t) \in Nat /\ Last(s) = s[Len(s)] /\ Last(s) \in S
         /\ \A i \in 1 .. Len(t) : t[i] = s[i]
<1>1. Len(s) \in Nat \ {0} /\ DOMAIN s = 1 .. Len(s)
  BY EmptySeq, LenProperties
<1>2. \A i \in 1 .. Len(s) - 1 : s[i] \in S
  BY <1>1, ElementOfSeq
<1>3. /\ t \in Seq(S) /\ Len(t) = Len(s) - 1
      /\ \A i \in 1 .. Len(s) - 1 : t[i] = s[i]
  BY <1>1, <1>2, SubSeqProperties DEF Front
<1>4. DOMAIN t = 1 .. Len(t)
  BY <1>3, LenProperties
<1>5. s[Len(s)] \in S
  BY <1>1, ElementOfSeq
<1>6. QED
  BY <1>1, <1>3, <1>4, <1>5 DEF Last

LEMMA LastReplaced ==
  ASSUME NEW S, NEW s \in Seq(S), s # <<>>, NEW f \in S, NEW t,
         t = [s EXCEPT ![Len(s)] = f]
  PROVE  /\ t \in Seq(S) /\ t # <<>> /\ Len(t) = Len(s)
         /\ DOMAIN t = DOMAIN s /\ DOMAIN s = 1 .. Len(s) /\ Len(s) \in DOMAIN s
         /\ t[Len(s)] = f
         /\ \A i \in DOMAIN s : i # Len(s) => t[i] = s[i]
<1>1. /\ Len(s) \in Nat \ {0} /\ DOMAIN s = 1 .. Len(s) /\ Len(s) \in 1 .. Len(s)
  BY EmptySeq, LenProperties
<1>2. /\ t \in Seq(S) /\ Len(t) = Len(s)
      /\ \A i \in 1 .. Len(s) : t[i] = IF i = Len(s) THEN f ELSE s[i]
  BY <1>1, ExceptSeq
<1>3. t # <<>> /\ DOMAIN t = 1 .. Len(t)
  BY <1>1, <1>2, EmptySeq, LenProperties
<1>4. QED
  BY <1>1, <1>2, <1>3

\* The lowest of the interrupts with the driver's signature is one of them.
LEMMA Lowest ==
  ASSUME resident \subseteq Interrupts, resident # {}
  PROVE  LET low == CHOOSE i \in resident : \A j \in resident : i <= j
         IN  low \in resident /\ \A j \in resident : low <= j
<1>1. resident \subseteq Nat
  BY RmSdkAssumption
<1>2. PICK i \in resident : \A j \in resident : ~(<<j, i>> \in OpToRel(<, Nat))
  BY <1>1, NatLessThanWellFounded, WFMin
<1>3. \A j \in resident : i <= j
  <2> SUFFICES ASSUME NEW j \in resident, j < i PROVE FALSE
    BY <1>1
  <2>1. <<j, i>> \in Nat \X Nat /\ <<j, i>>[1] < <<j, i>>[2]
    BY <1>1
  <2>2. <<j, i>> \in OpToRel(<, Nat)
    BY <2>1 DEF OpToRel
  <2>3. QED
    BY <1>2, <2>2
<1>4. QED
  BY <1>3

-----------------------------------------------------------------------------
(* Facts about the frames and the depth.                                   *)

LEMMA FrameOps ==
  ASSUME NEW f \in Frames
  PROVE  /\ f.op \in Ops \cup {"wait", "callback"}
         /\ f.op \in Ops => f \in CallFrames
         /\ f.op = "wait" => f \in WaitFrames
BY DEF Frames, CallFrames, WaitFrames, CallbackFrames, Ops

LEMMA StackOps ==
  ASSUME NEW s \in Seq(Frames)
  PROVE  \A i \in DOMAIN s : s[i] \in Frames
                             /\ s[i].op \in Ops \cup {"wait", "callback"}
BY LenProperties, ElementOfSeq, FrameOps

LEMMA DepthType ==
  ASSUME NEW s \in Seq(Frames)
  PROVE  IsFiniteSet(InProgress(s)) /\ Depth(s) \in Nat
<1>1. IsFiniteSet(1 .. Len(s)) /\ DOMAIN s = 1 .. Len(s)
  BY LenProperties, FS_Interval
<1>2. QED
  BY <1>1, FS_Subset, FS_CardinalityType DEF InProgress, Depth

\* A frame on top is one call more, when it is a call.
LEMMA OneMore ==
  ASSUME NEW s \in Seq(Frames), NEW t \in Seq(Frames), Len(t) = Len(s) + 1,
         \A i \in DOMAIN s : t[i].op = s[i].op
  PROVE  Depth(t) = IF t[Len(t)].op \in Ops THEN Depth(s) + 1 ELSE Depth(s)
<1>1. /\ DOMAIN s = 1 .. Len(s) /\ DOMAIN t = 1 .. Len(t) /\ Len(s) \in Nat
  BY LenProperties
<1>2. DOMAIN t = DOMAIN s \cup {Len(t)} /\ Len(t) \notin DOMAIN s
  BY <1>1
<1>3. InProgress(t) = IF t[Len(t)].op \in Ops THEN InProgress(s) \cup {Len(t)}
                      ELSE InProgress(s)
  BY <1>2 DEF InProgress
<1>4. IsFiniteSet(InProgress(s)) /\ Len(t) \notin InProgress(s)
  BY <1>2, DepthType DEF InProgress
<1>5. QED
  BY <1>3, <1>4, FS_AddElement DEF Depth

LEMMA AsMany ==
  ASSUME NEW s \in Seq(Frames), NEW t \in Seq(Frames), DOMAIN t = DOMAIN s,
         \A i \in DOMAIN s : t[i].op = s[i].op
  PROVE  Depth(t) = Depth(s)
BY DEF Depth, InProgress

-----------------------------------------------------------------------------
(* What the actions do to the stack.                                       *)

LEMMA Pushes ==
  ASSUME SdkInv, NEW f \in Frames, Push(f), f.op = "wait" => stack = <<>>
  PROVE  /\ StackOK'
         /\ Depth(stack') = IF f.op \in Ops THEN Depth(stack) + 1 ELSE Depth(stack)
         /\ BusyWait(stack') => BusyWait(stack) \/ (f.op = "wait" /\ f.busy)
         /\ Registers(stack') =>
              Registers(stack) \/ (f.op = "fmpdrv" /\ f.cmd = "register")
<1>1. /\ stack \in Seq(Frames) /\ stack' = Append(stack, f)
      /\ Len(stack) < MaxDepth /\ MaxDepth \in Nat
      /\ \A i \in DOMAIN stack : stack[i].op = "wait" => i = 1
  BY RmSdkAssumption DEF SdkInv, StackOK, Push
<1>2. /\ stack' \in Seq(Frames) /\ Len(stack') = Len(stack) + 1
      /\ DOMAIN stack' = DOMAIN stack \cup {Len(stack')}
      /\ Len(stack) \in Nat /\ stack'[Len(stack')] = f
      /\ \A i \in DOMAIN stack : stack'[i] = stack[i]
  BY <1>1, Appended
<1>3. Len(stack') <= MaxDepth
  BY <1>1, <1>2
<1>4. f.op = "wait" => Len(stack') = 1
  BY <1>2, EmptySeq
<1>5. \A i \in DOMAIN stack' : stack'[i].op = "wait" => i = 1
  BY <1>1, <1>2, <1>4
<1>6. Depth(stack') = IF f.op \in Ops THEN Depth(stack) + 1 ELSE Depth(stack)
  BY <1>1, <1>2, OneMore
<1>7. QED
  BY <1>2, <1>3, <1>5, <1>6 DEF StackOK, BusyWait, Registers

LEMMA Pops ==
  ASSUME SdkInv, stack # <<>>, stack' = Front(stack)
  PROVE  /\ StackOK'
         /\ Last(stack) \in Frames
         /\ Depth(stack) = IF Last(stack).op \in Ops THEN Depth(stack') + 1
                           ELSE Depth(stack')
         /\ BusyWait(stack') => BusyWait(stack)
         /\ Registers(stack') => Registers(stack)
         /\ Last(stack).op = "wait" => stack' = <<>>
         /\ Depth(stack') \in Nat
         /\ Len(stack) = Len(stack') + 1
         /\ \A i \in 1 .. Len(stack') : stack'[i] = stack[i]
<1>1. /\ stack \in Seq(Frames) /\ Len(stack) <= MaxDepth
      /\ \A i \in DOMAIN stack : stack[i].op = "wait" => i = 1
  BY DEF SdkInv, StackOK
<1>2. /\ stack' \in Seq(Frames) /\ Len(stack) = Len(stack') + 1
      /\ DOMAIN stack' = 1 .. Len(stack')
      /\ DOMAIN stack = DOMAIN stack' \cup {Len(stack)}
      /\ Len(stack') \in Nat /\ Last(stack) = stack[Len(stack)]
      /\ Last(stack) \in Frames
      /\ \A i \in 1 .. Len(stack') : stack'[i] = stack[i]
  <2>1. stack \in Seq(Frames)
    BY <1>1
  <2>2. QED
    BY <2>1, WithoutLast
<1>3. Len(stack') <= MaxDepth
  BY <1>1, <1>2, RmSdkAssumption
<1>4. Depth(stack) = IF Last(stack).op \in Ops THEN Depth(stack') + 1
                     ELSE Depth(stack')
  BY <1>1, <1>2, OneMore
<1>5. Last(stack).op = "wait" => stack' = <<>>
  <2>1. Last(stack).op = "wait" => Len(stack') = 0
    BY <1>1, <1>2
  <2>2. QED
    BY <1>2, <2>1, EmptySeq
<1>6. QED
  BY <1>1, <1>2, <1>3, <1>4, <1>5, DepthType DEF StackOK, BusyWait, Registers

\* A frame that is replaced by one of the same kind.
LEMMA Replaces ==
  ASSUME SdkInv, stack # <<>>, NEW f \in Frames,
         stack' = [stack EXCEPT ![Len(stack)] = f], f.op = Last(stack).op,
         f.op = "wait" => f.busy = Last(stack).busy,
         f.op = "fmpdrv" => f.cmd = Last(stack).cmd
  PROVE  /\ StackOK' /\ Depth(stack') = Depth(stack)
         /\ BusyWait(stack') => BusyWait(stack)
         /\ Registers(stack') => Registers(stack)
<1>1. /\ stack \in Seq(Frames) /\ Len(stack) <= MaxDepth
      /\ \A i \in DOMAIN stack : stack[i].op = "wait" => i = 1
  BY DEF SdkInv, StackOK
<1>2. /\ stack' \in Seq(Frames) /\ Len(stack') = Len(stack)
      /\ DOMAIN stack' = DOMAIN stack /\ Len(stack) \in DOMAIN stack
      /\ stack'[Len(stack)] = f
      /\ \A i \in DOMAIN stack : i # Len(stack) => stack'[i] = stack[i]
  BY <1>1, LastReplaced
<1>3. \A i \in DOMAIN stack :
        /\ stack'[i].op = stack[i].op
        /\ stack[i].op = "wait" => stack'[i].busy = stack[i].busy
        /\ stack[i].op = "fmpdrv" => stack'[i].cmd = stack[i].cmd
  BY <1>2 DEF Last
<1>4. Depth(stack') = Depth(stack)
  BY <1>1, <1>2, <1>3, AsMany
<1>5. QED
  BY <1>1, <1>2, <1>3, <1>4 DEF StackOK, BusyWait, Registers

-----------------------------------------------------------------------------
(* SdkInv is inductive, action by action.                                  *)

\* The conjuncts of SdkInv that are not about the stack.
LEMMA Facts ==
  ASSUME SdkInv
  PROVE  /\ stack \in Seq(Frames) /\ Depth(stack) \in Nat
         /\ driver_cb_func \in Callable /\ indent_count \in Nat
         /\ BusyWait(stack) => muted
         /\ driver.cb # "none" \/ Registers(stack) => driver.asked # "never"
         /\ driver.asked # "never" => driver_cb_func = driver.asked
         /\ ended = "crashed" => driver.asked = "NULL"
         /\ ended = "no" => indent_count = Depth(stack)
BY DepthType DEF SdkInv, StackOK, SdkTypeOK, BusyWaitSilent, BusyWait,
                 AsAsked, NeverThroughNull, IndentIsDepth, Depth, InProgress

\* What has to be shown of a step, in these terms.
TypesBut == /\ fmpdrv_int \in Interrupts \cup {0}
            /\ driver_cb_func \in Callable
            /\ muted \in BOOLEAN
            /\ indent_count \in Nat
            /\ r \in [Ops -> Answers]
            /\ resident \subseteq Interrupts
            /\ driver \in [cb     : {"none", "register", "stack"},
                           asked  : Callable \cup {"never"},
                           stream : {"none", "open", "playing", "paused"}]

LEMMA TypesOf == ASSUME SdkInv PROVE TypesBut
BY DEF SdkInv, SdkTypeOK, TypesBut

LEMMA Inductive ==
  ASSUME StackOK', TypesBut', BusyWait(stack') => muted',
         driver'.cb # "none" \/ Registers(stack') => driver'.asked # "never",
         driver'.asked # "never" => driver_cb_func' = driver'.asked,
         ended' = "crashed" => driver'.asked = "NULL",
         ended' = "no" => indent_count' = Depth(stack')
  PROVE  SdkInv'
<1>1. stack' \in Seq(Frames) /\ Len(stack') <= MaxDepth
  BY DEF StackOK
<1>2. \A i \in DOMAIN stack' : stack'[i].op \in Ops \cup {"wait", "callback"}
  BY <1>1, StackOps
<1>3. SdkTypeOK'
  BY <1>1, <1>2 DEF TypesBut, SdkTypeOK
<1>4. BusyWaitSilent' /\ AsAsked' /\ NeverThroughNull' /\ IndentIsDepth'
  BY DEF BusyWaitSilent, BusyWait, AsAsked, NeverThroughNull, IndentIsDepth, Depth,
         InProgress
<1>5. QED
  BY <1>3, <1>4 DEF SdkInv

LEMMA SdkInitInv == SdkInit => SdkInv
<1> SUFFICES ASSUME SdkInit PROVE SdkInv
  OBVIOUS
<1>1. stack = <<>> /\ stack \in Seq(Frames) /\ DOMAIN stack = {} /\ Len(stack) = 0
  BY EmptySeq DEF SdkInit
<1>2. {i \in DOMAIN stack : stack[i].op \in Ops} = {}
  BY <1>1
<1>3. IndentIsDepth
  BY <1>2, FS_EmptySet DEF SdkInit, IndentIsDepth
<1>4. 0 <= MaxDepth
  BY RmSdkAssumption
<1>5. SdkTypeOK
  BY <1>1, <1>4 DEF SdkInit, SdkTypeOK, Answers, Callable
<1>6. QED
  BY <1>1, <1>3, <1>4, <1>5
     DEF SdkInit, SdkInv, StackOK, BusyWaitSilent, Registers, AsAsked, NeverThroughNull

\* A call is entered, or finds no driver.
LEMMA EnterInv ==
  ASSUME SdkInv, ended = "no",
         NEW op \in Ops, NEW cmd \in Names, NEW cb \in {"none", "register", "stack"},
         CallEnter(op, cmd, cb),
         \/ cmd # "register" /\ UNCHANGED <<driver_cb_func, driver>>
         \/ \E g \in Callable : /\ driver_cb_func' = g
                               /\ driver' = [driver EXCEPT !.asked = g],
         UNCHANGED <<fmpdrv_int, muted, r, resident>>
  PROVE  SdkInv'
<1> DEFINE f == CallFrame(op, cmd, cb)
<1>0. /\ driver' \in [cb     : {"none", "register", "stack"},
                      asked  : Callable \cup {"never"},
                      stream : {"none", "open", "playing", "paused"}]
      /\ driver_cb_func' \in Callable /\ driver'.cb = driver.cb
      /\ driver.asked # "never" \/ cmd = "register" => driver'.asked # "never"
      /\ driver'.asked # "never" => driver_cb_func' = driver'.asked
  <2>1. CASE cmd # "register" /\ UNCHANGED <<driver_cb_func, driver>>
    BY <2>1, TypesOf, Facts DEF TypesBut
  <2>2. CASE \E g \in Callable : /\ driver_cb_func' = g
                                /\ driver' = [driver EXCEPT !.asked = g]
    BY <2>2, TypesOf, RmSdkAssumption DEF TypesBut, Callable
  <2>3. QED
    BY <2>1, <2>2
<1>1. CASE op = "fmpdrv" /\ fmpdrv_int # 128
  <2>1. ended' = "unreachable" /\ UNCHANGED <<stack, indent_count>>
    BY <1>1 DEF CallEnter
  <2>2. StackOK' /\ TypesBut'
    BY <1>0, <2>1, TypesOf DEF SdkInv, StackOK, TypesBut
  <2>3. QED
    BY <1>0, <2>1, <2>2, Facts, Inductive
<1>2. CASE ~(op = "fmpdrv" /\ fmpdrv_int # 128)
  <2>1. Push(f) /\ indent_count' = indent_count + 1 /\ ended' = ended
    BY <1>2 DEF CallEnter, AddIndent
  <2>2. f \in Frames /\ f.op = op /\ f.op \in Ops /\ f.op # "wait" /\ f.cmd = cmd
    BY DEF CallFrame, Frames, CallFrames, Answers, Ops
  <2> HIDE DEF f
  <2>3. /\ StackOK' /\ Depth(stack') = Depth(stack) + 1
        /\ BusyWait(stack') => BusyWait(stack)
        /\ Registers(stack') => Registers(stack) \/ cmd = "register"
    BY <2>1, <2>2, Pushes
  <2>4. TypesBut'
    BY <1>0, <2>1, TypesOf DEF TypesBut
  <2>5. indent_count' = Depth(stack')
    BY <2>1, <2>3, Facts
  <2>6. QED
    BY <1>0, <2>1, <2>3, <2>4, <2>5, Facts, Inductive
<1>3. QED
  BY <1>1, <1>2

LEMMA DriverActsType ==
  ASSUME TypesBut, NEW cmd, NEW cb \in {"none", "register", "stack"},
         NEW a, DriverActs(cmd, cb, a)
  PROVE  /\ driver' \in [cb     : {"none", "register", "stack"},
                         asked  : Callable \cup {"never"},
                         stream : {"none", "open", "playing", "paused"}]
         /\ driver'.cb # driver.cb => cmd = "register"
         /\ driver'.asked = driver.asked
BY DEF TypesBut, DriverActs

\* The interrupt's answer goes to the frame on top.
LEMMA Answered ==
  ASSUME SdkInv, IntReturns
  PROVE  /\ stack # <<>> /\ stack \in Seq(Frames) /\ Len(stack) \in DOMAIN stack
         /\ Top = stack[Len(stack)] /\ Top \in CallFrames /\ Top.op \in Ops
         /\ \E a \in Answers : \E f \in Frames :
              /\ IF Top.op = "fmpdrv" THEN DriverActs(Top.cmd, Top.cb, a)
                 ELSE UNCHANGED driver
              /\ r' = IF Top.op \in Static THEN [r EXCEPT ![Top.op] = a] ELSE r
              /\ stack' = [stack EXCEPT ![Len(stack)] = f]
              /\ f.op = Top.op /\ f.cmd = Top.cmd /\ f.answer = a
              /\ Top.op \notin Static => f.rv = a
<1>1. stack # <<>> /\ Top.op \in Ops /\ stack \in Seq(Frames)
  BY DEF IntReturns, Running, SdkInv, StackOK
<1>2. Len(stack) \in DOMAIN stack /\ Top = stack[Len(stack)]
  BY <1>1, EmptySeq, LenProperties DEF Top, Last
<1>3. Top \in CallFrames
  BY <1>1, <1>2, StackOps, FrameOps
<1>4. PICK a \in Answers :
        /\ IF Top.op = "fmpdrv" THEN DriverActs(Top.cmd, Top.cb, a)
           ELSE UNCHANGED driver
        /\ stack' = [stack EXCEPT ![Len(stack)] =
                       [Top EXCEPT !.phase = "exit", !.answer = a,
                                   !.rv = IF Top.op \in Static THEN @ ELSE a]]
        /\ r' = IF Top.op \in Static THEN [r EXCEPT ![Top.op] = a] ELSE r
  BY DEF IntReturns
<1> DEFINE f == [Top EXCEPT !.phase = "exit", !.answer = a,
                            !.rv = IF Top.op \in Static THEN @ ELSE a]
<1>5. /\ f \in Frames /\ f.op = Top.op /\ f.cmd = Top.cmd /\ f.answer = a
      /\ Top.op \notin Static => f.rv = a
  BY <1>1, <1>3 DEF Frames, CallFrames, Ops
<1>6. stack' = [stack EXCEPT ![Len(stack)] = f]
  BY <1>4
<1> HIDE DEF f
<1>7. QED
  BY <1>1, <1>2, <1>3, <1>4, <1>5, <1>6

LEMMA IntReturnsInv ==
  ASSUME SdkInv, IntReturns
  PROVE  SdkInv'
<1>1. /\ stack # <<>> /\ stack \in Seq(Frames) /\ Len(stack) \in DOMAIN stack
      /\ Top = stack[Len(stack)] /\ Top \in CallFrames /\ Top.op \in Ops
  BY Answered
<1>2. PICK a \in Answers, f \in Frames :
        /\ IF Top.op = "fmpdrv" THEN DriverActs(Top.cmd, Top.cb, a)
           ELSE UNCHANGED driver
        /\ r' = IF Top.op \in Static THEN [r EXCEPT ![Top.op] = a] ELSE r
        /\ stack' = [stack EXCEPT ![Len(stack)] = f]
        /\ f.op = Top.op /\ f.cmd = Top.cmd
  BY Answered
<1>3. /\ ended = "no"
      /\ UNCHANGED <<fmpdrv_int, driver_cb_func, muted, indent_count, ended, resident>>
  BY DEF IntReturns, Running
<1>4. f.op # "wait"
  BY <1>1, <1>2 DEF Ops
<1>5. /\ StackOK' /\ Depth(stack') = Depth(stack)
      /\ BusyWait(stack') => BusyWait(stack)
      /\ Registers(stack') => Registers(stack)
  BY <1>1, <1>2, <1>4, Replaces DEF Top
<1>6. Top.op = "fmpdrv" /\ Top.cmd = "register" => Registers(stack)
  BY <1>1 DEF Registers
<1>7. /\ driver' \in [cb     : {"none", "register", "stack"},
                      asked  : Callable \cup {"never"},
                      stream : {"none", "open", "playing", "paused"}]
      /\ driver'.cb # driver.cb => Registers(stack)
      /\ driver'.asked = driver.asked
  <2>1. CASE Top.op = "fmpdrv"
    <3>1. DriverActs(Top.cmd, Top.cb, a) /\ Top.cb \in {"none", "register", "stack"}
      BY <1>1, <1>2, <2>1 DEF CallFrames
    <3>2. QED
      BY <1>6, <2>1, <3>1, TypesOf, DriverActsType
  <2>2. CASE Top.op # "fmpdrv"
    BY <1>2, <2>2, TypesOf DEF TypesBut
  <2>3. QED
    BY <2>1, <2>2
<1>8. r' \in [Ops -> Answers]
  BY <1>1, <1>2, TypesOf DEF TypesBut
<1>9. TypesBut'
  BY <1>3, <1>7, <1>8, TypesOf DEF TypesBut
<1>10. QED
  BY <1>3, <1>5, <1>7, <1>9, Facts, Inductive

\* A call that returns takes its frame off the stack; a wait below it may learn
\* from it that it is done.
LEMMA ExitStack ==
  ASSUME SdkInv, CallExit
  PROVE  /\ stack' \in Seq(Frames) /\ Len(stack) = Len(stack') + 1
         /\ DOMAIN stack' = 1 .. Len(stack') /\ Len(stack') \in Nat
         /\ \A i \in 1 .. Len(stack') :
              \/ stack'[i] = stack[i]
              \/ stack[i].op = "wait" /\ stack'[i] = [stack[i] EXCEPT !.phase = "done"]
<1> DEFINE b == Front(stack)
<1>1. stack # <<>> /\ stack \in Seq(Frames)
  BY DEF CallExit, Running, SdkInv, StackOK
<1>2. /\ b \in Seq(Frames) /\ Len(stack) = Len(b) + 1 /\ Len(b) \in Nat
      /\ DOMAIN b = 1 .. Len(b) /\ \A i \in 1 .. Len(b) : b[i] = stack[i]
  BY <1>1, WithoutLast
<1>3. stack' = IF b # <<>> /\ Last(b).op = "wait" /\ Result(Top) # 0
               THEN [b EXCEPT ![Len(b)].phase = "done"] ELSE b
  BY DEF CallExit
<1> HIDE DEF b
<1>4. CASE stack' = b
  BY <1>2, <1>4
<1>5. CASE /\ b # <<>> /\ Last(b).op = "wait"
           /\ stack' = [b EXCEPT ![Len(b)].phase = "done"]
  <2> DEFINE w == [Last(b) EXCEPT !.phase = "done"]
  <2>1. Len(b) \in 1 .. Len(b)
    BY <1>2, <1>5, EmptySeq
  <2>2. Last(b) \in Frames
    BY <1>2, <2>1, ElementOfSeq DEF Last
  <2>3. w \in Frames
    BY <1>5, <2>2, FrameOps DEF Frames, WaitFrames
  <2>4. stack' = [b EXCEPT ![Len(b)] = w]
    BY <1>2, <1>5, <2>1 DEF Last
  <2> HIDE DEF w
  <2>5. /\ stack' \in Seq(Frames) /\ Len(stack') = Len(b) /\ DOMAIN stack' = DOMAIN b
        /\ stack'[Len(b)] = w
        /\ \A i \in DOMAIN b : i # Len(b) => stack'[i] = b[i]
    BY <1>2, <1>5, <2>3, <2>4, LastReplaced
  <2>6. stack[Len(b)] = Last(b)
    BY <1>2, <2>1 DEF Last
  <2>7. QED
    BY <1>2, <1>5, <2>1, <2>5, <2>6 DEF w
<1>6. QED
  BY <1>3, <1>4, <1>5

LEMMA CallExitInv ==
  ASSUME SdkInv, CallExit
  PROVE  SdkInv'
<1>1. /\ stack # <<>> /\ stack \in Seq(Frames) /\ Len(stack) <= MaxDepth
      /\ \A i \in DOMAIN stack : stack[i].op = "wait" => i = 1
      /\ Last(stack).op \in Ops /\ ended = "no"
      /\ UNCHANGED <<fmpdrv_int, driver_cb_func, muted, r, ended, resident, driver>>
  BY DEF CallExit, Running, Top, SdkInv, StackOK
<1>2. /\ stack' \in Seq(Frames) /\ Len(stack) = Len(stack') + 1
      /\ DOMAIN stack' = 1 .. Len(stack') /\ Len(stack') \in Nat
      /\ \A i \in 1 .. Len(stack') :
           \/ stack'[i] = stack[i]
           \/ stack[i].op = "wait" /\ stack'[i] = [stack[i] EXCEPT !.phase = "done"]
  BY ExitStack
<1>3. DOMAIN stack = 1 .. Len(stack) /\ Last(stack) = stack[Len(stack)]
  BY <1>1, LenProperties DEF Last
<1>4. \A i \in DOMAIN stack' : /\ i \in DOMAIN stack /\ stack'[i].op = stack[i].op
                               /\ stack[i].op = "wait" => stack'[i].busy = stack[i].busy
                               /\ stack[i].op = "fmpdrv" => stack'[i] = stack[i]
  <2> TAKE i \in DOMAIN stack'
  <2>1. i \in DOMAIN stack /\ i \in 1 .. Len(stack')
    BY <1>2, <1>3
  <2>2. stack[i].op = "wait" => stack[i] \in WaitFrames
    BY <1>1, <2>1, StackOps, FrameOps
  <2>3. CASE stack'[i] = stack[i]
    BY <2>1, <2>3
  <2>4. CASE stack[i].op = "wait" /\ stack'[i] = [stack[i] EXCEPT !.phase = "done"]
    BY <2>1, <2>2, <2>4 DEF WaitFrames
  <2>5. QED
    BY <1>2, <2>1, <2>3, <2>4
<1>5. StackOK'
  <2>1. Len(stack') <= MaxDepth
    BY <1>1, <1>2, RmSdkAssumption
  <2>2. QED
    BY <1>1, <1>2, <1>4, <2>1 DEF StackOK
<1>6. Depth(stack) = Depth(stack') + 1
  BY <1>1, <1>2, <1>3, <1>4, OneMore
<1>7. /\ BusyWait(stack') => BusyWait(stack)
      /\ Registers(stack') => Registers(stack)
  BY <1>4 DEF BusyWait, Registers
<1>8. indent_count' = Depth(stack') /\ indent_count' \in Nat
  <2>1. Depth(stack') \in Nat
    BY <1>2, DepthType
  <2>2. indent_count = Depth(stack') + 1
    BY <1>1, <1>6, Facts
  <2>3. indent_count' = IF indent_count = 0 THEN 0 ELSE indent_count - 1
    BY DEF CallExit, DelIndent
  <2> DEFINE d == Depth(stack')
  <2> HIDE DEF d
  <2>4. d \in Nat /\ indent_count = d + 1 => indent_count' = d
    BY <2>3
  <2>5. QED
    BY <2>1, <2>2, <2>4 DEF d
<1>9. TypesBut'
  BY <1>1, <1>8, TypesOf DEF TypesBut
<1>10. QED
  BY <1>1, <1>5, <1>7, <1>8, <1>9, Facts, Inductive

\* A step that leaves the stack alone.
LEMMA SameStack ==
  ASSUME SdkInv, UNCHANGED stack
  PROVE  StackOK' /\ Depth(stack') = Depth(stack)
BY DEF SdkInv, StackOK

LEMMA ProbeInv ==
  ASSUME SdkInv, Probe
  PROVE  SdkInv'
<1>1. fmpdrv_int' \in Interrupts \cup {0}
  BY TypesOf, Lowest DEF TypesBut, Probe
<1>2. TypesBut'
  BY <1>1, TypesOf DEF TypesBut, Probe
<1>3. QED
  BY <1>2, Facts, SameStack, Inductive DEF Probe

LEMMA SetMuteInv ==
  ASSUME SdkInv, stack = <<>>, NEW val \in BOOLEAN, SetMute(val)
  PROVE  SdkInv'
<1>1. ~BusyWait(stack')
  BY EmptySeq DEF SetMute, BusyWait
<1>2. TypesBut'
  BY TypesOf DEF TypesBut, SetMute
<1>3. QED
  BY <1>1, <1>2, Facts, SameStack, Inductive DEF SetMute

LEMMA WaitplayInv ==
  ASSUME SdkInv, stack = <<>>, NEW busy \in BOOLEAN, Waitplay(busy)
  PROVE  SdkInv'
<1> DEFINE f == WaitFrame(busy)
<1>1. /\ f \in Frames /\ f.op = "wait" /\ f.busy = busy /\ f.op \notin Ops
  BY DEF WaitFrame, Frames, WaitFrames, Ops
<1>2. Push(f)
  BY DEF Waitplay
<1> HIDE DEF f
<1>3. /\ StackOK' /\ Depth(stack') = Depth(stack)
      /\ BusyWait(stack') => BusyWait(stack) \/ busy
      /\ Registers(stack') => Registers(stack)
  BY <1>1, <1>2, Pushes
<1>4. muted' \in BOOLEAN /\ (muted \/ busy => muted')
  BY TypesOf DEF TypesBut, Waitplay
<1>5. TypesBut'
  BY <1>4, TypesOf DEF TypesBut, Waitplay
<1>6. QED
  BY <1>3, <1>4, <1>5, Facts, Inductive DEF Waitplay

LEMMA WaitReturnsInv ==
  ASSUME SdkInv, WaitReturns
  PROVE  SdkInv'
<1>1. stack # <<>> /\ stack' = Front(stack) /\ Last(stack).op = "wait"
  BY DEF WaitReturns, Running, Top
<1>2. /\ StackOK' /\ stack' = <<>> /\ Depth(stack) = Depth(stack')
  BY <1>1, Pops DEF Ops
<1>3. ~BusyWait(stack') /\ ~Registers(stack')
  BY <1>2, EmptySeq DEF BusyWait, Registers
<1>4. TypesBut'
  BY TypesOf DEF TypesBut, WaitReturns
<1>5. QED
  BY <1>2, <1>3, <1>4, Facts, Inductive DEF WaitReturns

LEMMA PlaybackEndsInv ==
  ASSUME SdkInv, PlaybackEnds
  PROVE  SdkInv'
<1>1. TypesBut' /\ driver'.cb = driver.cb /\ driver'.asked = driver.asked
  BY TypesOf DEF TypesBut, PlaybackEnds
<1>2. QED
  BY <1>1, Facts, SameStack, Inductive DEF PlaybackEnds

LEMMA CallBackInv ==
  ASSUME SdkInv, CallBack
  PROVE  SdkInv'
<1>1. TypesBut' /\ UNCHANGED <<driver_cb_func, muted, indent_count, driver>>
  BY TypesOf DEF TypesBut, CallBack
<1>2. CASE driver_cb_func = "NULL"
  <2>1. ended' = "crashed" /\ UNCHANGED stack
    BY <1>2 DEF CallBack
  <2>2. driver.asked = "NULL"
    BY <1>2, Facts DEF CallBack
  <2>3. QED
    BY <1>1, <2>1, <2>2, Facts, SameStack, Inductive
<1>3. CASE driver_cb_func # "NULL"
  <2> DEFINE f == CallbackFrame(driver_cb_func)
  <2>1. driver_cb_func \in Functions
    BY <1>3, Facts DEF Callable
  <2>2. f \in Frames /\ f.op = "callback" /\ f.op \notin Ops
    BY <2>1 DEF CallbackFrame, Frames, CallbackFrames, Ops
  <2>3. Push(f) /\ UNCHANGED ended
    BY <1>3 DEF CallBack
  <2> HIDE DEF f
  <2>4. /\ StackOK' /\ Depth(stack') = Depth(stack)
        /\ BusyWait(stack') => BusyWait(stack)
        /\ Registers(stack') => Registers(stack)
    BY <2>2, <2>3, Pushes
  <2>5. QED
    BY <1>1, <2>3, <2>4, Facts, Inductive
<1>4. QED
  BY <1>2, <1>3

LEMMA CallbackReturnsInv ==
  ASSUME SdkInv, CallbackReturns
  PROVE  SdkInv'
<1>1. stack # <<>> /\ stack' = Front(stack) /\ Last(stack).op \notin Ops
  BY DEF CallbackReturns, CallbackRuns, Top, Ops
<1>2. TypesBut'
  BY TypesOf DEF TypesBut, CallbackReturns
<1>3. QED
  BY <1>1, <1>2, Pops, Facts, Inductive DEF CallbackReturns

\* The program ends, other than by a crash.
LEMMA EndsInv ==
  ASSUME SdkInv, ended' \notin {"no", "crashed"},
         UNCHANGED <<stack, fmpdrv_int, driver_cb_func, muted, indent_count, r,
                     resident, driver>>
  PROVE  SdkInv'
<1>1. TypesBut'
  BY TypesOf DEF TypesBut
<1>2. QED
  BY <1>1, Facts, SameStack, Inductive

LEMMA StutterInv ==
  ASSUME SdkInv, UNCHANGED sdkVars
  PROVE  SdkInv'
<1>1. TypesBut'
  BY TypesOf DEF TypesBut, sdkVars
<1>2. QED
  BY <1>1, Facts, SameStack, Inductive DEF sdkVars

LEMMA SdkInvStep ==
  ASSUME SdkInv, [SdkNext]_sdkVars
  PROVE  SdkInv'
<1>1. \A op \in Ops : \A cmd \in CallsOf(op) : cmd \in Names /\ cmd # "register"
  BY DEF CallsOf, Names
<1>2. ASSUME ended = "no", NEW op \in Ops, NEW cmd \in Names, Call(op, cmd),
             cmd # "register"
      PROVE  SdkInv'
  BY <1>2, Facts, EnterInv DEF Call
<1>3. CASE ProgramStep
  <2>1. ended = "no" /\ stack = <<>>
    BY <1>3 DEF ProgramStep, ProgramRuns
  <2>2. CASE \E f \in Callable, m \in {"register", "stack"} : RegisterDriverCallback(f, m)
    <3>1. PICK f \in Callable, m \in {"register", "stack"} : RegisterDriverCallback(f, m)
      BY <2>2
    <3>2. "fmpdrv" \in Ops /\ "register" \in Names
      BY DEF Ops, Names
    <3>3. QED
      BY <2>1, <3>1, <3>2, EnterInv DEF RegisterDriverCallback
  <2>3. CASE \E op \in Ops : \E cmd \in CallsOf(op) : Call(op, cmd)
    BY <1>1, <1>2, <2>1, <2>3
  <2>4. QED
    BY <1>3, <2>1, <2>2, <2>3, ProbeInv, SetMuteInv, WaitplayInv DEF ProgramStep
<1>4. CASE CallbackStep
  <2>1. CallbackCalls \subseteq Ops
    BY RmSdkAssumption DEF Ops
  <2>2. QED
    BY <1>1, <1>2, <1>4, <2>1 DEF CallbackStep, CallbackRuns
<1>5. CASE WaitPoll
  <2>1. "status" \in Names /\ "fmpdrv" \in Ops /\ ended = "no"
    BY <1>5 DEF Names, Ops, WaitPoll, Running
  <2>2. QED
    BY <1>2, <1>5, <2>1 DEF WaitPoll
<1>6. CASE Ended \/ UNCHANGED sdkVars
  BY <1>6, StutterInv DEF Ended
<1>7. QED
  BY <1>3, <1>4, <1>5, <1>6, IntReturnsInv, CallExitInv, WaitReturnsInv,
     PlaybackEndsInv, CallBackInv, CallbackReturnsInv DEF SdkNext

-----------------------------------------------------------------------------
(* Results: a static one belongs to the outermost call.                    *)

OwnInv ==
  /\ \A i \in DOMAIN stack : stack[i].op \in Static => i = 1
  /\ OwnResult

\* A new frame keeps the results: it has none yet.
LEMMA OwnPush ==
  ASSUME SdkInv, OwnInv, NEW f \in Frames, Push(f), r' = r,
         f.op \in Static => stack = <<>>,
         f.op \in Ops => f.phase # "exit"
  PROVE  OwnInv'
<1>1. stack \in Seq(Frames) /\ stack' = Append(stack, f)
  BY DEF SdkInv, StackOK, Push
<1>2. /\ Len(stack') = Len(stack) + 1 /\ Len(stack) \in Nat
      /\ DOMAIN stack' = DOMAIN stack \cup {Len(stack')}
      /\ stack'[Len(stack')] = f
      /\ \A i \in DOMAIN stack : stack'[i] = stack[i]
  BY <1>1, Appended
<1>3. f.op \in Static => Len(stack') = 1
  BY <1>2, EmptySeq
<1>4. \A i \in DOMAIN stack' : stack'[i].op \in Static => i = 1
  BY <1>2, <1>3 DEF OwnInv
<1>5. OwnResult'
  BY <1>2 DEF OwnInv, OwnResult, Result
<1>6. QED
  BY <1>4, <1>5 DEF OwnInv

\* Nor does it matter when a frame goes, or a wait learns that it is done.
LEMMA OwnPop ==
  ASSUME SdkInv, OwnInv, r' = r,
         stack' \in Seq(Frames), Len(stack) = Len(stack') + 1,
         \A i \in 1 .. Len(stack') :
           \/ stack'[i] = stack[i]
           \/ stack[i].op = "wait" /\ stack'[i] = [stack[i] EXCEPT !.phase = "done"]
  PROVE  OwnInv'
<1>1. /\ stack \in Seq(Frames) /\ DOMAIN stack = 1 .. Len(stack)
      /\ DOMAIN stack' = 1 .. Len(stack') /\ Len(stack') \in Nat
  BY LenProperties DEF SdkInv, StackOK
<1>2. \A i \in DOMAIN stack' : /\ i \in DOMAIN stack
                               /\ stack'[i] = stack[i] \/ stack'[i].op = "wait"
  <2> TAKE i \in DOMAIN stack'
  <2>1. i \in DOMAIN stack /\ i \in 1 .. Len(stack')
    BY <1>1
  <2>2. stack[i].op = "wait" => stack[i] \in WaitFrames
    BY <1>1, <2>1, StackOps, FrameOps
  <2>3. QED
    BY <2>1, <2>2 DEF WaitFrames
<1>3. "wait" \notin Ops /\ Static \subseteq Ops
  BY DEF Ops, Static
<1>4. QED
  BY <1>2, <1>3 DEF OwnInv, OwnResult, Result

\* The answer of an interrupt goes to the call that made it.
LEMMA OwnAnswer ==
  ASSUME SdkInv, OwnInv, IntReturns
  PROVE  OwnInv'
<1>1. /\ stack # <<>> /\ stack \in Seq(Frames) /\ Len(stack) \in DOMAIN stack
      /\ Top = stack[Len(stack)] /\ Top.op \in Ops
  BY Answered
<1>2. PICK a \in Answers, f \in Frames :
        /\ r' = IF Top.op \in Static THEN [r EXCEPT ![Top.op] = a] ELSE r
        /\ stack' = [stack EXCEPT ![Len(stack)] = f]
        /\ f.op = Top.op /\ f.answer = a
        /\ Top.op \notin Static => f.rv = a
  BY Answered
<1>3. /\ DOMAIN stack' = DOMAIN stack /\ stack'[Len(stack)] = f
      /\ \A i \in DOMAIN stack : i # Len(stack) => stack'[i] = stack[i]
  BY <1>1, <1>2, LastReplaced
<1>4. \A i \in DOMAIN stack' : stack'[i].op \in Static => i = 1
  BY <1>1, <1>2, <1>3 DEF OwnInv
<1>5. ASSUME NEW i \in DOMAIN stack', stack'[i].op \in Ops, stack'[i].phase = "exit"
      PROVE  Result(stack[i])' = stack'[i].answer
  <2>1. CASE i = Len(stack)
    <3>1. CASE Top.op \in Static
      <4>1. r'[Top.op] = a
        BY <1>1, <1>2, <3>1, TypesOf DEF TypesBut
      <4>2. QED
        BY <1>2, <1>3, <2>1, <3>1, <4>1 DEF Result
    <3>2. CASE Top.op \notin Static
      BY <1>2, <1>3, <2>1, <3>2 DEF Result
    <3>3. QED
      BY <3>1, <3>2
  <2>2. CASE i # Len(stack)
    <3>1. stack'[i] = stack[i] /\ Result(stack[i]) = stack[i].answer
      BY <1>3, <1>5, <2>2 DEF OwnInv, OwnResult
    <3>2. CASE stack[i].op \notin Static
      BY <3>1, <3>2 DEF Result
    <3>3. CASE stack[i].op \in Static
      <4>1. i = 1 /\ Top.op \notin Static
        BY <1>1, <1>3, <1>5, <2>2, <3>3 DEF OwnInv
      <4>2. QED
        BY <1>2, <3>1, <4>1 DEF Result
    <3>4. QED
      BY <3>2, <3>3
  <2>3. QED
    BY <2>1, <2>2
<1>6. QED
  BY <1>4, <1>5 DEF OwnInv, OwnResult

LEMMA OwnInvStep ==
  ASSUME CallbackCalls \cap Static = {}, SdkInv, OwnInv, [SdkNext]_sdkVars
  PROVE  OwnInv'
<1>1. ASSUME NEW op \in Ops, NEW cmd \in Names, NEW cb \in {"none", "register", "stack"},
             CallEnter(op, cmd, cb), op \in Static => stack = <<>>, r' = r
      PROVE  OwnInv'
  <2>1. CASE UNCHANGED stack
    BY <1>1, <2>1 DEF OwnInv, OwnResult, Result
  <2>2. CASE Push(CallFrame(op, cmd, cb))
    <3> DEFINE f == CallFrame(op, cmd, cb)
    <3>1. f \in Frames /\ f.op = op /\ f.phase # "exit"
      BY <1>1 DEF CallFrame, Frames, CallFrames, Answers
    <3>2. Push(f)
      BY <2>2
    <3> HIDE DEF f
    <3>3. QED
      BY <1>1, <3>1, <3>2, OwnPush
  <2>3. QED
    BY <1>1, <2>1, <2>2 DEF CallEnter
<1>2. \A op \in Ops : \A cmd \in CallsOf(op) : cmd \in Names
  BY DEF CallsOf, Names
<1>3. CASE ProgramStep
  <2>1. stack = <<>>
    BY <1>3 DEF ProgramStep, ProgramRuns
  <2>2. CASE \E f \in Callable, m \in {"register", "stack"} : RegisterDriverCallback(f, m)
    <3>1. "fmpdrv" \in Ops /\ "register" \in Names
      BY DEF Ops, Names
    <3>2. QED
      BY <1>1, <2>1, <2>2, <3>1 DEF RegisterDriverCallback
  <2>3. CASE \E op \in Ops : \E cmd \in CallsOf(op) : Call(op, cmd)
    BY <1>1, <1>2, <2>1, <2>3 DEF Call
  <2>4. CASE Probe \/ \E val \in BOOLEAN : SetMute(val)
    BY <2>4 DEF Probe, SetMute, OwnInv, OwnResult, Result
  <2>5. CASE \E busy \in BOOLEAN : Waitplay(busy)
    <3>1. PICK busy \in BOOLEAN : Push(WaitFrame(busy)) /\ r' = r
      BY <2>5 DEF Waitplay
    <3> DEFINE f == WaitFrame(busy)
    <3>2. f \in Frames /\ f.op = "wait" /\ f.op \notin Ops
      BY DEF WaitFrame, Frames, WaitFrames, Ops
    <3>3. Push(f)
      BY <3>1
    <3> HIDE DEF f
    <3>4. QED
      BY <2>1, <3>1, <3>2, <3>3, OwnPush
  <2>6. QED
    BY <1>3, <2>2, <2>3, <2>4, <2>5 DEF ProgramStep
<1>4. CASE CallbackStep
  <2>1. CallbackCalls \subseteq Ops \ Static
    BY RmSdkAssumption DEF Ops, Static
  <2>2. QED
    BY <1>1, <1>2, <1>4, <2>1 DEF CallbackStep, Call
<1>5. CASE WaitPoll
  <2>1. "status" \in Names /\ "fmpdrv" \in Ops /\ "fmpdrv" \notin Static
    BY DEF Names, Ops, Static
  <2>2. QED
    BY <1>1, <1>5, <2>1 DEF WaitPoll, Call
<1>6. CASE CallExit
  BY <1>6, ExitStack, OwnPop DEF CallExit
<1>7. CASE WaitReturns \/ CallbackReturns
  <2>1. stack # <<>> /\ stack \in Seq(Frames) /\ stack' = Front(stack) /\ r' = r
    BY <1>7 DEF WaitReturns, CallbackReturns, Running, CallbackRuns, SdkInv, StackOK
  <2>2. /\ stack' \in Seq(Frames) /\ Len(stack) = Len(stack') + 1
        /\ \A i \in 1 .. Len(stack') : stack'[i] = stack[i]
    BY <2>1, Pops DEF StackOK
  <2>3. QED
    BY <2>1, <2>2, OwnPop
<1>8. CASE PlaybackEnds \/ Ended \/ UNCHANGED sdkVars
  BY <1>8 DEF PlaybackEnds, Ended, sdkVars, OwnInv, OwnResult, Result
<1>9. CASE CallBack
  <2>1. CASE driver_cb_func = "NULL"
    BY <1>9, <2>1 DEF CallBack, OwnInv, OwnResult, Result
  <2>2. CASE driver_cb_func # "NULL"
    <3> DEFINE f == CallbackFrame(driver_cb_func)
    <3>1. driver_cb_func \in Functions /\ Push(f) /\ r' = r
      BY <1>9, <2>2, Facts DEF CallBack, Callable
    <3>2. f \in Frames /\ f.op = "callback" /\ f.op \notin Ops /\ f.op \notin Static
      BY <3>1 DEF CallbackFrame, Frames, CallbackFrames, Ops, Static
    <3>3. Push(f)
      BY <3>1
    <3> HIDE DEF f
    <3>4. QED
      BY <3>1, <3>2, <3>3, OwnPush
  <2>3. QED
    BY <2>1, <2>2
<1>10. QED
  BY <1>3, <1>4, <1>5, <1>6, <1>7, <1>8, <1>9, OwnAnswer DEF SdkNext

-----------------------------------------------------------------------------
(* The theorems.                                                           *)

\* SdkInv holds throughout every run.
THEOREM SdkInvariance == SdkSpec => []SdkInv
<1>1. SdkInit => SdkInv
  BY SdkInitInv
<1>2. SdkInv /\ [SdkNext]_sdkVars => SdkInv'
  BY SdkInvStep
<1>3. QED
  BY <1>1, <1>2, PTL DEF SdkSpec

\* Every variable of the SDK keeps its type, and the probe finds an interrupt
\* that it looked at.
THEOREM SdkTypeCorrect == SdkSpec => []SdkTypeOK
<1>1. SdkInv => SdkTypeOK
  BY DEF SdkInv
<1>2. QED
  BY <1>1, SdkInvariance, PTL

\* The indentation of the log is the depth of the calls at every point.
THEOREM IndentedByDepth == SdkSpec => []IndentIsDepth
<1>1. SdkInv => IndentIsDepth
  BY DEF SdkInv
<1>2. QED
  BY <1>1, SdkInvariance, PTL

\* A marshaller is without a function to call only when the program registered
\* NULL; before the first registration, and while one is made, none is called so.
THEOREM MarshallerKnows == SdkSpec => []NeverThroughNull
<1>1. SdkInv => NeverThroughNull
  BY DEF SdkInv
<1>2. QED
  BY <1>1, SdkInvariance, PTL

\* Nothing is logged while a busy wait lasts, its own polls included.
THEOREM WaitsSilently == SdkSpec => []BusyWaitSilent
<1>1. SdkInv => BusyWaitSilent
  BY DEF SdkInv
<1>2. QED
  BY <1>1, SdkInvariance, PTL

\* Every call returns what its own interrupt answered, as long as callbacks
\* keep off the two functions whose result is static.
THEOREM ResultsKept ==
  ASSUME CallbackCalls \cap Static = {}
  PROVE  SdkSpec => []OwnResult
<1>1. SdkInit => OwnInv
  <2>1. ASSUME SdkInit PROVE DOMAIN stack = {}
    BY <2>1, EmptySeq DEF SdkInit
  <2>2. QED
    BY <2>1 DEF OwnInv, OwnResult
<1>2. SdkInv /\ OwnInv /\ [SdkNext]_sdkVars => OwnInv'
  BY OwnInvStep
<1>3. OwnInv => OwnResult
  BY DEF OwnInv
<1>4. QED
  BY <1>1, <1>2, <1>3, SdkInvariance, PTL DEF SdkSpec
=============================================================================
