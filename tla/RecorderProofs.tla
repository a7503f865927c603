--------------------------- MODULE RecorderProofs ---------------------------
(***************************************************************************)
(* Proofs about the recorder, for every set of callbacks and commands and  *)
(* every nesting of calls and callbacks.                                   *)
(*                                                                         *)
(* EveryCallbackRecorded and the refinement need an assumption beyond      *)
(* those on the constants: that the driver does not call back while it     *)
(* registers a callback.  Without it they fail (run recorder_reentered).   *)
(* The refinement also needs callbacks that are not NULL.  The types, where *)
(* the shim leads and the depth that the analyzer shows need neither.      *)
(***************************************************************************)
EXTENDS Recorder, SequenceTheorems, FiniteSetTheorems, TLAPS

-----------------------------------------------------------------------------
(* Facts about the stack.                                                  *)

LEMMA Pushed ==
  ASSUME NEW f \in Frame, stack \in Seq(Frame), stack' = Append(stack, f)
  PROVE  /\ stack' \in Seq(Frame) /\ stack' # <<>>
         /\ Len(stack') = Len(stack) + 1
         /\ Last(stack') = f
         /\ \A i \in DOMAIN stack : stack'[i] = stack[i]
         /\ DOMAIN stack' = DOMAIN stack \cup {Len(stack')}
         /\ Len(stack) \in Nat /\ DOMAIN stack = 1 .. Len(stack)
<1>1. /\ stack' \in Seq(Frame) /\ stack' # <<>> /\ Len(stack') = Len(stack) + 1
      /\ \A i \in 1 .. Len(stack) : stack'[i] = stack[i]
      /\ stack'[Len(stack) + 1] = f
  BY AppendProperties
<1>2. DOMAIN stack = 1 .. Len(stack) /\ DOMAIN stack' = 1 .. Len(stack')
      /\ Len(stack) \in Nat
  BY <1>1, LenProperties
<1>3. QED
  BY <1>1, <1>2 DEF Last

LEMMA Popped ==
  ASSUME stack \in Seq(Frame), stack # <<>>, stack' = Front(stack)
  PROVE  /\ stack' \in Seq(Frame)
         /\ Len(stack') = Len(stack) - 1
         /\ DOMAIN stack' = 1 .. Len(stack) - 1
         /\ \A i \in DOMAIN stack' : i \in DOMAIN stack /\ stack'[i] = stack[i]
         /\ stack' # <<>> => Len(stack') \in DOMAIN stack'
<1>1. Len(stack) \in Nat \ {0} /\ DOMAIN stack = 1 .. Len(stack)
  BY EmptySeq, LenProperties
<1>2. \A i \in 1 .. Len(stack) - 1 : stack[i] \in Frame
  BY <1>1, ElementOfSeq
<1>3. /\ stack' \in Seq(Frame) /\ Len(stack') = Len(stack) - 1
      /\ \A i \in 1 .. Len(stack) - 1 : stack'[i] = stack[i]
  BY <1>1, <1>2, SubSeqProperties DEF Front
<1>4. /\ DOMAIN stack' = 1 .. Len(stack')
      /\ stack' # <<>> => Len(stack') \in Nat \ {0}
  BY <1>3, LenProperties, EmptySeq
<1>5. QED
  BY <1>1, <1>3, <1>4

LEMMA Finished ==
  ASSUME stack \in Seq(Frame), stack # <<>>,
         stack' = [stack EXCEPT ![Len(stack)].done = TRUE]
  PROVE  /\ stack' \in Seq(Frame) /\ stack' # <<>>
         /\ Len(stack') = Len(stack) /\ DOMAIN stack' = DOMAIN stack
         /\ Last(stack') = [Last(stack) EXCEPT !.done = TRUE]
         /\ \A i \in DOMAIN stack : i # Len(stack) => stack'[i] = stack[i]
<1>1. Len(stack) \in Nat \ {0} /\ DOMAIN stack = 1 .. Len(stack)
  BY EmptySeq, LenProperties
<1> DEFINE f == [Last(stack) EXCEPT !.done = TRUE]
<1>2. Last(stack) \in Frame
  BY <1>1, ElementOfSeq DEF Last
<1>3. f \in Frame
  BY <1>2 DEF Frame
<1>4. stack' = [stack EXCEPT ![Len(stack)] = f]
  BY <1>1 DEF Last
<1> HIDE DEF f
<1>5. /\ stack' \in Seq(Frame) /\ Len(stack') = Len(stack)
      /\ \A i \in 1 .. Len(stack) : stack'[i] = IF i = Len(stack) THEN f ELSE stack[i]
  <2>1. Len(stack) \in 1 .. Len(stack)
    BY <1>1
  <2>2. stack \in [1 .. Len(stack) -> Frame]
    BY LenProperties
  <2>3. stack' \in [1 .. Len(stack) -> Frame]
    BY <1>3, <1>4, <2>1, <2>2
  <2>4. stack' \in Seq(Frame)
    BY <1>1, <2>3, SeqDef
  <2>5. Len(stack') \in Nat /\ 1 .. Len(stack') = 1 .. Len(stack)
    BY <2>3, <2>4, LenProperties
  <2>6. Len(stack') = Len(stack)
    BY <1>1, <2>5
  <2>7. QED
    BY <1>4, <2>1, <2>2, <2>4, <2>6
<1>6. stack'[Len(stack')] = f
  BY <1>1, <1>5
<1>7. stack' # <<>> /\ DOMAIN stack' = DOMAIN stack
  BY <1>1, <1>5, EmptySeq, LenProperties
<1>8. QED
  BY <1>1, <1>5, <1>6, <1>7 DEF Last, f

LEMMA Inside ==
  ASSUME NEW s \in Seq(Frame), s # <<>>, Len(s) <= MaxDepth
  PROVE  Len(s) \in 1 .. MaxDepth /\ Len(s) \in DOMAIN s
BY EmptySeq, LenProperties, RecorderAssumption

-----------------------------------------------------------------------------
(* What holds whenever the driver calls back, while it registers a callback *)
(* or the shim included: types, a jump that is patched unless the flag is   *)
(* up, and a shim that is registered at the exit of calls only.             *)

\* The part that is about the stack.
StackOK == /\ stack \in Seq(Frame) /\ Len(stack) <= MaxDepth
           /\ \A i \in DOMAIN stack : stack[i] \in Frame
           /\ shim \in [1 .. MaxDepth -> {"no", "called", "known"}]
           /\ \A i \in 1 .. MaxDepth : shim[i] # "no" =>
                i \in DOMAIN stack /\ stack[i].kind = "call"

RecorderInv ==
  /\ TypeOK
  /\ StackOK
  /\ install_cb_recorder_on_next_exit \/ forwardcb = actual_cb

LEMMA InnermostFrame ==
  ASSUME RecorderInv, stack # <<>>
  PROVE  /\ Len(stack) \in DOMAIN stack /\ Last(stack) = stack[Len(stack)]
         /\ Last(stack) \in Frame /\ Len(stack) \in 1 .. MaxDepth
         /\ shim[Len(stack)] # "no" => Last(stack).kind = "call"
<1>1. Len(stack) \in DOMAIN stack /\ Len(stack) \in 1 .. MaxDepth
  BY Inside DEF RecorderInv, StackOK
<1>2. QED
  BY <1>1 DEF RecorderInv, StackOK, Last

\* Every place a frame can be in has a phase of the shim.
LEMMA ShimAt ==
  ASSUME RecorderInv, NEW i \in DOMAIN stack
  PROVE  i \in 1 .. MaxDepth
BY LenProperties, RecorderAssumption DEF RecorderInv, StackOK

LEMMA StackPush ==
  ASSUME RecorderInv, NEW f \in Frame, Drv!Push(f), UNCHANGED shim
  PROVE  StackOK'
<1>1. /\ stack \in Seq(Frame) /\ stack' = Append(stack, f)
      /\ Len(stack) < MaxDepth /\ MaxDepth \in Nat
  BY RecorderAssumption DEF RecorderInv, StackOK, Drv!Push
<1>2. /\ stack' \in Seq(Frame) /\ Len(stack') = Len(stack) + 1 /\ Len(stack) \in Nat
      /\ DOMAIN stack' = DOMAIN stack \cup {Len(stack')}
      /\ \A i \in DOMAIN stack : stack'[i] = stack[i]
      /\ stack'[Len(stack')] = f
  BY <1>1, Pushed DEF Last
<1>3. Len(stack') <= MaxDepth
  BY <1>1, <1>2
<1>4. \A i \in DOMAIN stack' : stack'[i] \in Frame
  BY <1>2 DEF RecorderInv, StackOK
<1>5. \A i \in 1 .. MaxDepth : shim'[i] # "no" =>
        i \in DOMAIN stack' /\ stack'[i].kind = "call"
  BY <1>2 DEF RecorderInv, StackOK
<1>6. QED
  BY <1>2, <1>3, <1>4, <1>5 DEF StackOK, RecorderInv

LEMMA StackPop ==
  ASSUME RecorderInv, stack # <<>>, Drv!Pop,
         \/ UNCHANGED shim /\ shim[Len(stack)] = "no"
         \/ shim' = [shim EXCEPT ![Len(stack)] = "no"]
  PROVE  StackOK'
<1>1. stack \in Seq(Frame) /\ stack' = Front(stack)
  BY DEF RecorderInv, StackOK, Drv!Pop, Drv!Front, Front
<1>2. /\ stack' \in Seq(Frame) /\ Len(stack') = Len(stack) - 1
      /\ DOMAIN stack' = 1 .. Len(stack) - 1
      /\ \A i \in DOMAIN stack' : i \in DOMAIN stack /\ stack'[i] = stack[i]
  BY <1>1, Popped
<1>3. Len(stack') <= MaxDepth
  BY <1>1, <1>2, LenProperties, RecorderAssumption DEF RecorderInv, StackOK
<1>4. \A i \in DOMAIN stack' : stack'[i] \in Frame
  BY <1>2 DEF RecorderInv, StackOK
<1>5. /\ shim' \in [1 .. MaxDepth -> {"no", "called", "known"}]
      /\ \A i \in 1 .. MaxDepth : shim'[i] # "no" => shim[i] # "no" /\ i # Len(stack)
  BY InnermostFrame DEF RecorderInv, StackOK
<1>6. \A i \in DOMAIN stack : i # Len(stack) => i \in DOMAIN stack'
  BY <1>1, <1>2, LenProperties
<1>7. \A i \in 1 .. MaxDepth : shim'[i] # "no" =>
        i \in DOMAIN stack' /\ stack'[i].kind = "call"
  BY <1>2, <1>5, <1>6 DEF RecorderInv, StackOK
<1>8. QED
  BY <1>2, <1>3, <1>4, <1>5, <1>7 DEF StackOK

LEMMA StackFinish ==
  ASSUME RecorderInv, stack # <<>>, UNCHANGED shim,
         stack' = [stack EXCEPT ![Len(stack)].done = TRUE]
  PROVE  StackOK'
<1>1. /\ stack' \in Seq(Frame) /\ stack' # <<>> /\ Len(stack') = Len(stack)
      /\ DOMAIN stack' = DOMAIN stack
      /\ Last(stack') = [Last(stack) EXCEPT !.done = TRUE]
      /\ \A i \in DOMAIN stack : i # Len(stack) => stack'[i] = stack[i]
  BY Finished DEF RecorderInv, StackOK
<1>2. /\ Last(stack) \in Frame /\ Last(stack') = stack'[Len(stack)]
      /\ Last(stack) = stack[Len(stack)]
  BY <1>1, InnermostFrame DEF Last
<1>3. /\ stack'[Len(stack)] \in Frame
      /\ stack'[Len(stack)].kind = stack[Len(stack)].kind
  BY <1>1, <1>2 DEF Frame
<1>4. \A i \in DOMAIN stack' : stack'[i] \in Frame /\ stack'[i].kind = stack[i].kind
  BY <1>1, <1>2, <1>3 DEF RecorderInv, StackOK
<1>5. QED
  BY <1>1, <1>4 DEF StackOK, RecorderInv

\* An exit that registers the shim goes on.
LEMMA StackMark ==
  ASSUME RecorderInv, stack # <<>>, UNCHANGED stack, Last(stack).kind = "call",
         NEW p \in {"called", "known"}, shim' = [shim EXCEPT ![Len(stack)] = p]
  PROVE  StackOK'
<1>1. /\ Len(stack) \in DOMAIN stack /\ Len(stack) \in 1 .. MaxDepth
      /\ stack[Len(stack)].kind = "call"
  BY InnermostFrame
<1>2. shim' \in [1 .. MaxDepth -> {"no", "called", "known"}]
  BY DEF RecorderInv, StackOK
<1>3. \A i \in 1 .. MaxDepth : shim'[i] # "no" =>
        i \in DOMAIN stack /\ stack[i].kind = "call"
  BY <1>1 DEF RecorderInv, StackOK
<1>4. QED
  BY <1>2, <1>3 DEF RecorderInv, StackOK

-----------------------------------------------------------------------------
(* What is written to the log.                                             *)

LEMMA ReindentNat ==
  ASSUME NEW n \in Nat, NEW tag
  PROVE  Reindent(n, tag) \in Nat
BY DEF Reindent

\* The entries of a call or a callback, of which only the first can change the
\* indentation: it does, or it is lost.
Plain == {"filename", "callback_reg", "callback_stk"}

LEMMA Counted ==
  ASSUME NEW lost, lost \in SUBSET {1, 2}
  PROVE  /\ Cardinality(lost) \in 0 .. 2
         /\ 1 \in lost => Cardinality(lost) >= 1
<1>1. /\ IsFiniteSet({1}) /\ IsFiniteSet({2}) /\ IsFiniteSet({1, 2})
      /\ Cardinality({1}) = 1 /\ Cardinality({2}) = 1 /\ Cardinality({}) = 0
  BY FS_EmptySet, FS_Singleton, FS_AddElement
<1>2. Cardinality({1, 2}) = 2
  <2>1. {1, 2} = {1} \cup {2} /\ 2 \notin {1}
    OBVIOUS
  <2>2. Cardinality({1} \cup {2}) = Cardinality({1}) + 1
    BY <1>1, <2>1, FS_AddElement
  <2>3. QED
    BY <1>1, <2>1, <2>2
<1>3. CASE lost = {}
  BY <1>1, <1>3
<1>4. CASE lost = {1}
  BY <1>1, <1>4
<1>5. CASE lost = {2}
  BY <1>1, <1>5
<1>6. CASE lost = {1, 2}
  BY <1>2, <1>6
<1>7. QED
  BY <1>3, <1>4, <1>5, <1>6

LEMMA Written ==
  ASSUME RecorderInv, NEW tags, WriteEntries(tags),
         \/ tags = <<tags[1]>>
         \/ tags = <<tags[1], tags[2]>> /\ tags[2] \in Plain
  PROVE  \E k \in 0 .. 2 :
           /\ open_fail_counter' = open_fail_counter + k
           /\ open_fail_counter' <= MaxLost + 1
           /\ \/ indentation' = Reindent(indentation, tags[1])
              \/ indentation' = indentation /\ k >= 1
<1>1. PICK lost \in SUBSET DOMAIN tags :
        /\ indentation' = IF Len(tags) = 1
                          THEN AfterEntry(indentation, tags[1], 1 \in lost)
                          ELSE AfterEntry(AfterEntry(indentation, tags[1], 1 \in lost),
                                          tags[Len(tags)], Len(tags) \in lost)
        /\ open_fail_counter' = open_fail_counter + Cardinality(lost)
        /\ open_fail_counter' <= MaxLost + 1
  BY DEF WriteEntries
<1>2. /\ lost \in SUBSET {1, 2}
      /\ Len(tags) = 1 \/ (Len(tags) = 2 /\ tags[2] \in Plain)
  OBVIOUS
<1>3. /\ Cardinality(lost) \in 0 .. 2
      /\ 1 \in lost => Cardinality(lost) >= 1
  BY <1>2, Counted
<1> DEFINE n == AfterEntry(indentation, tags[1], 1 \in lost)
<1>4. indentation' = n
  <2>1. tags[2] \in Plain => Reindent(n, tags[2]) = n
    BY DEF Plain, Reindent, Exits
  <2>2. tags[2] \in Plain => AfterEntry(n, tags[2], 2 \in lost) = n
    BY <2>1 DEF AfterEntry
  <2> HIDE DEF n
  <2>3. CASE Len(tags) = 1
    BY <1>1, <2>3 DEF n
  <2>4. CASE Len(tags) = 2 /\ tags[2] \in Plain
    BY <1>1, <2>2, <2>4 DEF n
  <2>5. QED
    BY <1>2, <2>3, <2>4
<1>5. QED
  BY <1>1, <1>3, <1>4 DEF AfterEntry

-----------------------------------------------------------------------------
(* RecorderInv is inductive, action by action.                             *)

LEMMA RecorderInvInit == Init => RecorderInv
<1>1. <<>> \in Seq(Frame) /\ DOMAIN (<<>>) = {} /\ Len(<<>>) = 0
  BY EmptySeq
<1>2. 0 <= MaxDepth /\ 0 \in Nat /\ 1 \in 1 .. MaxLost + 1
  BY RecorderAssumption
<1>3. ASSUME Init PROVE TypeOK /\ StackOK
  BY <1>1, <1>2, <1>3 DEF Init, TypeOK, StackOK
<1>4. QED
  BY <1>3 DEF Init, RecorderInv

\* What every step but a DriverActs leaves of the counters: their types.
LEMMA WrittenType ==
  ASSUME RecorderInv, NEW tags, WriteEntries(tags),
         \/ tags = <<tags[1]>>
         \/ tags = <<tags[1], tags[2]>> /\ tags[2] \in Plain
  PROVE  indentation' \in Nat /\ open_fail_counter' \in 1 .. MaxLost + 1
<1>1. /\ indentation \in Nat /\ open_fail_counter \in 1 .. MaxLost + 1
      /\ MaxLost \in Nat
  BY RecorderAssumption DEF RecorderInv, TypeOK
<1>2. PICK k \in 0 .. 2 :
        /\ open_fail_counter' = open_fail_counter + k
        /\ open_fail_counter' <= MaxLost + 1
        /\ \/ indentation' = Reindent(indentation, tags[1])
           \/ indentation' = indentation /\ k >= 1
  BY Written
<1>3. open_fail_counter' \in 1 .. MaxLost + 1
  BY <1>1, <1>2
<1>4. QED
  BY <1>1, <1>2, <1>3, ReindentNat

\* The entries each of the actions writes.
LEMMA EntriesOf ==
  ASSUME NEW cmd
  PROVE  LET tags == IF cmd = "open" THEN <<"call", "filename">> ELSE <<"call">>
         IN  /\ tags[1] = "call"
             /\ \/ tags = <<tags[1]>>
                \/ tags = <<tags[1], tags[2]>> /\ tags[2] \in Plain
BY DEF Plain

LEMMA StepCallEnter ==
  ASSUME RecorderInv, NEW cmd \in Commands, NEW cb \in Drv!Named(cmd),
         FmpdrvCallEnter(cmd, cb)
  PROVE  RecorderInv'
<1> DEFINE f    == Drv!CallFrame(cmd, cb)
           tags == IF cmd = "open" THEN <<"call", "filename">> ELSE <<"call">>
<1>1. f \in Frame /\ (cmd = "register" => cb \in Callbacks)
  BY DEF Drv!CallFrame, Drv!Named, Drv!None, Frame, None
<1>2. Drv!Push(f) /\ WriteEntries(tags)
  BY DEF FmpdrvCallEnter
<1>3. indentation' \in Nat /\ open_fail_counter' \in 1 .. MaxLost + 1
  <2>1. \/ tags = <<tags[1]>>
        \/ tags = <<tags[1], tags[2]>> /\ tags[2] \in Plain
    BY EntriesOf
  <2> HIDE DEF tags
  <2>2. QED
    BY <1>2, <2>1, WrittenType
<1> HIDE DEF f, tags
<1>4. StackOK'
  BY <1>1, <1>2, StackPush DEF FmpdrvCallEnter
<1>5. /\ install_cb_recorder_on_next_exit' \in BOOLEAN
      /\ actual_cb' \in Callbacks \cup {None}
      /\ install_cb_recorder_on_next_exit' \/ forwardcb' = actual_cb'
      /\ UNCHANGED <<driver_cb, forwardcb>>
  BY <1>1 DEF FmpdrvCallEnter, RecorderInv, TypeOK
<1>6. QED
  BY <1>3, <1>4, <1>5 DEF RecorderInv, TypeOK, StackOK

LEMMA StepDriverActs ==
  ASSUME RecorderInv, DriverActs
  PROVE  RecorderInv'
<1>1. /\ stack # <<>> /\ stack' = [stack EXCEPT ![Len(stack)].done = TRUE]
      /\ driver_cb' = IF Last(stack).cmd = "register" THEN Last(stack).cb ELSE driver_cb
      /\ UNCHANGED <<shim, cbVars, indentation, open_fail_counter>>
  BY DEF DriverActs, Drv!Running
<1>2. StackOK'
  BY <1>1, StackFinish
<1>3. Last(stack).cb \in Callbacks \cup {None}
  BY <1>1, InnermostFrame DEF Frame
<1>4. driver_cb' \in Callbacks \cup {None, Shim}
  BY <1>1, <1>3 DEF RecorderInv, TypeOK
<1>5. QED
  BY <1>1, <1>2, <1>4 DEF cbVars, RecorderInv, TypeOK, StackOK

\* The exit of a call: it is over, or it has the jump patched and calls the
\* driver.
LEMMA StepCallExit ==
  ASSUME RecorderInv, FmpdrvCallExit
  PROVE  RecorderInv'
<1>1. /\ stack # <<>> /\ WriteEntries(<<"call_exit">>)
      /\ Last(stack).kind = "call" /\ shim[Len(stack)] = "no"
      /\ UNCHANGED <<driver_cb, actual_cb>>
  BY DEF FmpdrvCallExit, Drv!Running, Drv!Last, Last, Installing
<1>2. indentation' \in Nat /\ open_fail_counter' \in 1 .. MaxLost + 1
  BY <1>1, WrittenType
<1>3. CASE install_cb_recorder_on_next_exit
  <2>1. /\ shim' = [shim EXCEPT ![Len(stack)] = "called"] /\ UNCHANGED stack
        /\ forwardcb' = actual_cb /\ install_cb_recorder_on_next_exit' = FALSE
    BY <1>3 DEF FmpdrvCallExit, PatchJump
  <2>2. StackOK'
    BY <1>1, <2>1, StackMark
  <2>3. QED
    BY <1>1, <1>2, <2>1, <2>2 DEF RecorderInv, TypeOK, StackOK
<1>4. CASE ~install_cb_recorder_on_next_exit
  <2>1. Drv!Pop /\ UNCHANGED <<install_cb_recorder_on_next_exit, forwardcb, shim>>
    BY <1>4 DEF FmpdrvCallExit
  <2>2. StackOK'
    BY <1>1, <2>1, StackPop
  <2>3. QED
    BY <1>1, <1>2, <2>1, <2>2 DEF RecorderInv, TypeOK, StackOK
<1>5. QED
  BY <1>3, <1>4

LEMMA StepTakesShim ==
  ASSUME RecorderInv, DriverTakesShim
  PROVE  RecorderInv'
<1>1. /\ stack # <<>> /\ shim[Len(stack)] = "called" /\ driver_cb' = Shim
      /\ shim' = [shim EXCEPT ![Len(stack)] = "known"]
      /\ UNCHANGED <<stack, cbVars, indentation, open_fail_counter>>
  BY DEF DriverTakesShim, Installing
<1>2. Last(stack).kind = "call"
  BY <1>1, InnermostFrame
<1>3. StackOK'
  BY <1>1, <1>2, StackMark
<1>4. QED
  BY <1>1, <1>3 DEF cbVars, RecorderInv, TypeOK, StackOK

LEMMA StepInstalled ==
  ASSUME RecorderInv, ShimInstalled
  PROVE  RecorderInv'
<1>1. /\ stack # <<>> /\ Drv!Pop
      /\ shim' = [shim EXCEPT ![Len(stack)] = "no"]
      /\ UNCHANGED <<driver_cb, cbVars, indentation, open_fail_counter>>
  BY DEF ShimInstalled, Installing, PatchJump, cbVars
<1>2. StackOK'
  BY <1>1, StackPop
<1>3. QED
  BY <1>1, <1>2 DEF cbVars, RecorderInv, TypeOK, StackOK

\* What a callback pushes.
LEMMA CallbackPushes ==
  ASSUME RecorderInv, CallbackShim \/ CallbackDirect
  PROVE  \E f \in Frame : /\ Drv!Push(f) /\ UNCHANGED <<shim, driver_cb, cbVars>>
                         /\ f.kind \in {"callback", "nowhere"}
                         /\ f.cmd = None
<1>1. CASE CallbackShim
  <2> DEFINE f == Reached(forwardcb)
  <2>1. /\ f \in Frame /\ f.cmd = None
        /\ f.kind \in {"callback", "nowhere"}
    BY DEF Reached, Drv!CallbackFrame, Drv!None, Frame, None, RecorderInv, TypeOK
  <2> HIDE DEF f
  <2>2. QED
    BY <1>1, <2>1 DEF CallbackShim, f
<1>2. CASE CallbackDirect
  <2> DEFINE f == Drv!CallbackFrame(driver_cb)
  <2>1. driver_cb \in Callbacks
    BY <1>2 DEF CallbackDirect, RecorderInv, TypeOK
  <2>2. f \in Frame /\ f.cmd = None /\ f.kind = "callback"
    BY <2>1 DEF Drv!CallbackFrame, Drv!None, Frame, None
  <2> HIDE DEF f
  <2>3. QED
    BY <1>2, <2>2 DEF CallbackDirect, f
<1>3. QED
  BY <1>1, <1>2

LEMMA StepCallback ==
  ASSUME RecorderInv, CallbackShim \/ CallbackDirect
  PROVE  RecorderInv'
<1>1. PICK f \in Frame : Drv!Push(f) /\ UNCHANGED <<shim, driver_cb, cbVars>>
  BY CallbackPushes
<1>2. StackOK'
  BY <1>1, StackPush
<1>3. indentation' \in Nat /\ open_fail_counter' \in 1 .. MaxLost + 1
  <2>1. CASE WriteEntries(<<"callback_reg", "callback_stk">>)
    <3> DEFINE tags == <<"callback_reg", "callback_stk">>
    <3>1. tags = <<tags[1], tags[2]>> /\ tags[2] \in Plain
      BY DEF Plain
    <3> HIDE DEF tags
    <3>2. QED
      BY <2>1, <3>1, WrittenType DEF tags
  <2>2. CASE UNCHANGED <<indentation, open_fail_counter>>
    BY <2>2 DEF RecorderInv, TypeOK
  <2>3. QED
    BY <2>1, <2>2 DEF CallbackShim, CallbackDirect
<1>4. QED
  BY <1>1, <1>2, <1>3 DEF cbVars, RecorderInv, TypeOK, StackOK

\* A frame that is no call has no shim.
LEMMA NoShim ==
  ASSUME RecorderInv, CallbackReturns \/ RmdevsysCallExit
  PROVE  /\ stack # <<>> /\ Drv!Pop /\ shim[Len(stack)] = "no"
         /\ Last(stack).kind \in {"callback", "rmdevsys"}
         /\ UNCHANGED <<shim, driver_cb, cbVars>>
<1>1. /\ stack # <<>> /\ Drv!Pop /\ Last(stack).kind \in {"callback", "rmdevsys"}
      /\ UNCHANGED <<shim, driver_cb, cbVars>>
  BY DEF CallbackReturns, RmdevsysCallExit, Drv!Running, Drv!Last, Last
<1>2. QED
  BY <1>1, InnermostFrame

\* A step that takes such a frame off the stack, or puts a call of RMDEV.SYS on
\* it.
LEMMA StepOther ==
  ASSUME RecorderInv, CallbackReturns \/ RmdevsysCallEnter \/ RmdevsysCallExit
  PROVE  RecorderInv'
<1>1. StackOK'
  <2>1. Drv!DevFrame \in Frame
    BY DEF Drv!DevFrame, Drv!None, Frame, None
  <2>2. RmdevsysCallEnter => Drv!Push(Drv!DevFrame) /\ UNCHANGED shim
    BY DEF RmdevsysCallEnter
  <2>3. QED
    BY <2>1, <2>2, NoShim, StackPush, StackPop
<1>2. indentation' \in Nat /\ open_fail_counter' \in 1 .. MaxLost + 1
  <2>1. CASE WriteEntries(<<"rmdevsys">>)
    BY <2>1, WrittenType
  <2>2. CASE WriteEntries(<<"rmdevsys_exit">>)
    BY <2>2, WrittenType
  <2>3. CASE UNCHANGED <<indentation, open_fail_counter>>
    BY <2>3 DEF RecorderInv, TypeOK
  <2>4. QED
    BY <2>1, <2>2, <2>3 DEF CallbackReturns, RmdevsysCallEnter, RmdevsysCallExit
<1>3. UNCHANGED <<driver_cb, cbVars>>
  BY DEF CallbackReturns, RmdevsysCallEnter, RmdevsysCallExit
<1>4. QED
  BY <1>1, <1>2, <1>3 DEF cbVars, RecorderInv, TypeOK, StackOK

LEMMA RecorderInvStep ==
  ASSUME RecorderInv, [Next]_vars
  PROVE  RecorderInv'
<1>1. CASE UNCHANGED vars
  BY <1>1 DEF vars, cbVars, RecorderInv, TypeOK, StackOK
<1>2. CASE \E cmd \in Commands : \E cb \in Drv!Named(cmd) : FmpdrvCallEnter(cmd, cb)
  BY <1>2, StepCallEnter
<1>3. QED
  BY <1>1, <1>2, StepDriverActs, StepCallExit, StepTakesShim, StepInstalled,
     StepCallback, StepOther DEF Next

-----------------------------------------------------------------------------
(* RegistrationInv is inductive, when the driver does not call back while   *)
(* it registers a callback.                                                *)

LEMMA InvInit == Init => RegistrationInv
<1>1. <<>> \in Seq(Frame) /\ DOMAIN (<<>>) = {}
  BY EmptySeq
<1>2. QED
  BY <1>1 DEF Init, RegistrationInv, Registering, Installing, Shim, None

\* The innermost frame, when there is one.
LEMMA Innermost ==
  ASSUME RecorderInv, RegistrationInv, stack # <<>>
  PROVE  /\ Len(stack) \in DOMAIN stack /\ Last(stack) = stack[Len(stack)]
         /\ Last(stack) \in Frame
         /\ Registering => Last(stack).kind = "call" /\ Last(stack).cb \in Callbacks
<1>1. /\ Len(stack) \in DOMAIN stack /\ Last(stack) = stack[Len(stack)]
      /\ Last(stack) \in Frame
  BY InnermostFrame
<1>2. QED
  BY <1>1 DEF RegistrationInv, Registering

\* Outside a registration no frame of the stack is one, nor does an exit register
\* the shim.
LEMMA NoRegistration ==
  ASSUME RecorderInv, RegistrationInv, ~Registering
  PROVE  /\ \A i \in DOMAIN stack : stack[i].cmd # "register"
         /\ \A i \in 1 .. MaxDepth : shim[i] = "no"
         /\ ~Installing
<1>1. \A i \in DOMAIN stack : stack[i].cmd # "register"
  BY LenProperties, EmptySeq DEF RegistrationInv, Registering, Last
<1>2. \A i \in 1 .. MaxDepth : shim[i] = "no"
  BY DEF RegistrationInv
<1>3. QED
  BY <1>1, <1>2, InnermostFrame DEF Installing

\* When the application runs, or the driver may call back, no registration is
\* in progress.
LEMMA NotRegistering ==
  ASSUME RecorderInv, RegistrationInv, "register" \notin Reentrant,
         Drv!AppRuns \/ MayCallBack
  PROVE  ~Registering
<1> SUFFICES ASSUME Registering PROVE FALSE
  OBVIOUS
<1>1. stack # <<>> /\ Last(stack).kind = "call" /\ Last(stack).cmd = "register"
  BY Innermost DEF Registering
<1>2. QED
  BY <1>1 DEF MayCallBack, Drv!AppRuns, Drv!MayCallBack, Drv!Running, Drv!Last, Last

\* Without a registration before and after it, a step that leaves the static
\* variables alone changes nothing the invariant speaks of.
LEMMA InvQuiet ==
  ASSUME RecorderInv, RecorderInv', RegistrationInv, ~Registering,
         \A i \in DOMAIN stack' : stack'[i].cmd # "register",
         UNCHANGED <<shim, driver_cb, cbVars>>
  PROVE  RegistrationInv'
<1>1. ~install_cb_recorder_on_next_exit /\ driver_cb \in {None, Shim}
  BY DEF RegistrationInv
<1>2. stack' \in Seq(Frame) /\ Len(stack') <= MaxDepth
  BY DEF RecorderInv, StackOK
<1>3. stack' # <<>> => Len(stack') \in 1 .. MaxDepth /\ Len(stack') \in DOMAIN stack'
  BY <1>2, Inside
<1>4. ~Registering'
  BY <1>3 DEF Registering, Last
<1>5. \A i \in 1 .. MaxDepth : shim'[i] = "no"
  BY NoRegistration
<1>6. ~Installing'
  BY <1>3, <1>5 DEF Installing
<1>7. driver_cb' = Shim => forwardcb' \in Callbacks
  BY DEF RegistrationInv, cbVars
<1>8. QED
  BY <1>1, <1>2, <1>4, <1>5, <1>6, <1>7 DEF RegistrationInv, cbVars

\* A frame that is no registration is pushed, ...
LEMMA InvPush ==
  ASSUME RecorderInv, RecorderInv', RegistrationInv, ~Registering,
         NEW f \in Frame, f.cmd # "register",
         Drv!Push(f), UNCHANGED <<shim, driver_cb, cbVars>>
  PROVE  RegistrationInv'
<1>1. \A i \in DOMAIN stack : stack[i].cmd # "register"
  BY NoRegistration
<1>2. \A i \in DOMAIN stack' : stack'[i].cmd # "register"
  BY <1>1, Pushed DEF Last, RegistrationInv, Drv!Push
<1>3. QED
  BY <1>2, InvQuiet

\* ... or popped.
LEMMA InvPop ==
  ASSUME RecorderInv, RecorderInv', RegistrationInv, ~Registering,
         stack # <<>>, Drv!Pop, UNCHANGED <<shim, driver_cb, cbVars>>
  PROVE  RegistrationInv'
<1>1. \A i \in DOMAIN stack : stack[i].cmd # "register"
  BY NoRegistration
<1>2. stack \in Seq(Frame) /\ stack' = Front(stack)
  BY DEF RegistrationInv, Drv!Pop, Drv!Front, Front
<1>3. \A i \in DOMAIN stack' : stack'[i].cmd # "register"
  BY <1>1, <1>2, Popped
<1>4. QED
  BY <1>3, InvQuiet

LEMMA InvCallEnter ==
  ASSUME RecorderInv, RecorderInv', RegistrationInv, "register" \notin Reentrant,
         NEW cmd \in Commands, NEW cb \in Drv!Named(cmd), FmpdrvCallEnter(cmd, cb)
  PROVE  RegistrationInv'
<1> DEFINE f == Drv!CallFrame(cmd, cb)
<1>1. f \in Frame /\ f.cmd = cmd /\ f.cb = cb /\ f.kind = "call" /\ ~f.done
  BY DEF Drv!CallFrame, Drv!Named, Drv!None, Frame, None
<1>2. ~Registering /\ Drv!Push(f) /\ UNCHANGED <<shim, driver_cb, forwardcb>>
  BY NotRegistering DEF FmpdrvCallEnter
<1> HIDE DEF f
<1>3. CASE cmd # "register"
  BY <1>1, <1>2, <1>3, InvPush DEF FmpdrvCallEnter, cbVars
<1>4. CASE cmd = "register"
  <2>1. cb \in Callbacks
    BY <1>4 DEF Drv!Named
  <2>2. /\ \A i \in DOMAIN stack : stack[i].cmd # "register"
        /\ \A i \in 1 .. MaxDepth : shim[i] = "no"
    BY <1>2, NoRegistration
  <2>3. /\ stack' \in Seq(Frame) /\ stack' # <<>> /\ Last(stack') = f
        /\ Len(stack') \in 1 .. MaxDepth
        /\ \A i \in DOMAIN stack' : stack'[i].cmd = "register" =>
             i = Len(stack') /\ stack'[i] = f
    <3>1. /\ stack' \in Seq(Frame) /\ stack' # <<>> /\ Last(stack') = f
          /\ \A i \in DOMAIN stack' : stack'[i].cmd = "register" =>
               i = Len(stack') /\ stack'[i] = f
      BY <1>1, <1>2, <2>2, Pushed DEF Last, RegistrationInv, Drv!Push
    <3>2. Len(stack') <= MaxDepth
      BY DEF RecorderInv, StackOK
    <3>3. QED
      BY <3>1, <3>2, Inside
  <2>4. Registering' /\ ~Installing'
    BY <1>1, <1>2, <1>4, <2>2, <2>3 DEF Registering, Installing
  <2>5. install_cb_recorder_on_next_exit' = TRUE /\ actual_cb' = cb
    BY <1>4 DEF FmpdrvCallEnter
  <2>6. /\ driver_cb \in {None, Shim}
        /\ driver_cb = Shim => forwardcb \in Callbacks
    BY <1>2 DEF RegistrationInv
  <2>7. QED
    BY <1>1, <1>2, <2>1, <2>2, <2>3, <2>4, <2>5, <2>6 DEF RegistrationInv
<1>5. QED
  BY <1>3, <1>4

LEMMA InvDriverActs ==
  ASSUME RecorderInv, RegistrationInv, DriverActs
  PROVE  RegistrationInv'
<1>1. /\ stack # <<>> /\ stack \in Seq(Frame) /\ ~Last(stack).done
      /\ stack' = [stack EXCEPT ![Len(stack)].done = TRUE]
      /\ driver_cb' = IF Last(stack).cmd = "register" THEN Last(stack).cb ELSE driver_cb
      /\ UNCHANGED <<shim, cbVars>>
  BY DEF DriverActs, Drv!Running, RegistrationInv
<1>2. /\ stack' \in Seq(Frame) /\ stack' # <<>> /\ Len(stack') = Len(stack)
      /\ DOMAIN stack' = DOMAIN stack
      /\ Last(stack') = [Last(stack) EXCEPT !.done = TRUE]
      /\ \A i \in DOMAIN stack : i # Len(stack) => stack'[i] = stack[i]
  BY <1>1, Finished
<1>3. /\ Last(stack) \in Frame /\ Last(stack) = stack[Len(stack)]
      /\ Last(stack') = stack'[Len(stack)]
      /\ Registering => Last(stack).kind = "call" /\ Last(stack).cb \in Callbacks
  BY <1>1, <1>2, Innermost DEF Last
<1>4. /\ Last(stack').cmd = Last(stack).cmd /\ Last(stack').cb = Last(stack).cb
      /\ Last(stack').kind = Last(stack).kind
  BY <1>2, <1>3 DEF Frame
<1>5. \A i \in DOMAIN stack' : /\ stack'[i].cmd = stack[i].cmd
                               /\ stack'[i].kind = stack[i].kind
                               /\ stack'[i].cb = stack[i].cb
  BY <1>2, <1>3, <1>4
<1>6. Registering' = Registering
  BY <1>1, <1>2, <1>4 DEF Registering
<1>7. ~Installing /\ ~Installing' /\ shim'[Len(stack')] = "no"
  BY <1>1, <1>2 DEF RegistrationInv, Installing
<1>8. CASE Registering
  <2>1. /\ driver_cb' = actual_cb' /\ actual_cb' = Last(stack').cb
        /\ driver_cb' \in Callbacks /\ UNCHANGED cbVars
    BY <1>1, <1>3, <1>4, <1>8 DEF RegistrationInv, Registering, cbVars
  <2>2. driver_cb' # Shim
    BY <2>1, RecorderAssumption DEF Shim
  <2>3. QED
    BY <1>1, <1>2, <1>5, <1>6, <1>7, <1>8, <2>1, <2>2 DEF RegistrationInv, cbVars
<1>9. CASE ~Registering
  <2>1. UNCHANGED <<driver_cb, cbVars>>
    BY <1>1, <1>9 DEF Registering
  <2>2. QED
    BY <1>1, <1>2, <1>5, <1>6, <1>7, <1>9, <2>1 DEF RegistrationInv, cbVars
<1>10. QED
  BY <1>8, <1>9

\* The exit of a registration calls the driver with the jump patched to the
\* callback that the driver knows until then.
LEMMA ExitPatches ==
  ASSUME RecorderInv, RegistrationInv, FmpdrvCallExit, Registering
  PROVE  /\ driver_cb = actual_cb /\ driver_cb \in Callbacks
         /\ forwardcb' = actual_cb /\ install_cb_recorder_on_next_exit' = FALSE
         /\ shim' = [shim EXCEPT ![Len(stack)] = "called"]
         /\ UNCHANGED <<stack, driver_cb, actual_cb>>
<1>1. Last(stack).done /\ stack # <<>> /\ ~Installing /\ shim[Len(stack)] = "no"
  BY DEF FmpdrvCallExit, Drv!Running, Installing
<1>2. Last(stack).cb \in Callbacks
  BY <1>1, Innermost
<1>3. driver_cb = actual_cb /\ actual_cb = Last(stack).cb
  BY <1>1 DEF RegistrationInv
<1>4. install_cb_recorder_on_next_exit
  BY <1>1 DEF RegistrationInv
<1>5. QED
  BY <1>2, <1>3, <1>4 DEF FmpdrvCallExit, PatchJump

LEMMA InvCallExit ==
  ASSUME RecorderInv, RecorderInv', RegistrationInv, FmpdrvCallExit
  PROVE  RegistrationInv'
<1>1. stack # <<>> /\ Last(stack).done
  BY DEF FmpdrvCallExit, Drv!Running
<1>2. CASE ~Registering
  <2>1. Drv!Pop /\ UNCHANGED <<shim, driver_cb, cbVars>>
    BY <1>2 DEF FmpdrvCallExit, RegistrationInv, cbVars
  <2>2. QED
    BY <1>1, <1>2, <2>1, InvPop
<1>3. CASE Registering
  <2>1. /\ driver_cb = actual_cb /\ driver_cb \in Callbacks
        /\ forwardcb' = actual_cb /\ install_cb_recorder_on_next_exit' = FALSE
        /\ shim' = [shim EXCEPT ![Len(stack)] = "called"]
        /\ UNCHANGED <<stack, driver_cb, actual_cb>>
    BY <1>3, ExitPatches
  <2>2. /\ Len(stack) \in 1 .. MaxDepth
        /\ shim \in [1 .. MaxDepth -> {"no", "called", "known"}]
    BY <1>1, InnermostFrame DEF RecorderInv, StackOK
  <2>3. /\ shim'[Len(stack)] = "called"
        /\ \A i \in 1 .. MaxDepth : shim'[i] # "no" => i = Len(stack)
    BY <2>1, <2>2 DEF RegistrationInv
  <2>4. Registering' /\ Installing'
    BY <1>1, <1>3, <2>1, <2>3 DEF Registering, Installing
  <2>5. driver_cb # Shim
    BY <2>1, RecorderAssumption DEF Shim
  <2>6. QED
    BY <1>1, <1>3, <2>1, <2>3, <2>4, <2>5 DEF RegistrationInv
<1>4. QED
  BY <1>2, <1>3

\* Only the exit of a registration registers the shim.
LEMMA InstallingRegisters ==
  ASSUME RecorderInv, RegistrationInv, Installing
  PROVE  /\ stack # <<>> /\ Len(stack) \in 1 .. MaxDepth /\ Registering
         /\ Last(stack).done /\ Last(stack).cb = actual_cb /\ forwardcb = actual_cb
         /\ actual_cb \in Callbacks /\ ~install_cb_recorder_on_next_exit
<1>1. stack # <<>> /\ Len(stack) \in 1 .. MaxDepth
  BY InnermostFrame DEF Installing
<1>2. Registering
  BY <1>1 DEF Installing, RegistrationInv
<1>3. QED
  BY <1>1, <1>2, Innermost DEF RegistrationInv

LEMMA InvTakesShim ==
  ASSUME RecorderInv, RegistrationInv, DriverTakesShim
  PROVE  RegistrationInv'
<1>1. /\ Installing /\ driver_cb' = Shim
      /\ shim' = [shim EXCEPT ![Len(stack)] = "known"]
      /\ UNCHANGED <<stack, cbVars>>
  BY DEF DriverTakesShim
<1>2. /\ stack # <<>> /\ Len(stack) \in 1 .. MaxDepth /\ Registering
      /\ Last(stack).done /\ Last(stack).cb = actual_cb /\ forwardcb = actual_cb
      /\ actual_cb \in Callbacks /\ ~install_cb_recorder_on_next_exit
  BY <1>1, InstallingRegisters
<1>3. /\ shim'[Len(stack)] = "known"
      /\ \A i \in 1 .. MaxDepth : shim'[i] # "no" => i = Len(stack)
  BY <1>1, <1>2 DEF RegistrationInv, RecorderInv, StackOK
<1>4. Registering' /\ Installing'
  BY <1>1, <1>2, <1>3 DEF Registering, Installing
<1>5. QED
  BY <1>1, <1>2, <1>3, <1>4 DEF RegistrationInv, cbVars

LEMMA InvInstalled ==
  ASSUME RecorderInv, RecorderInv', RegistrationInv, ShimInstalled
  PROVE  RegistrationInv'
<1>1. /\ Installing /\ shim[Len(stack)] = "known" /\ Drv!Pop
      /\ shim' = [shim EXCEPT ![Len(stack)] = "no"]
      /\ UNCHANGED <<driver_cb, cbVars>>
  BY DEF ShimInstalled, PatchJump, cbVars
<1>2. /\ stack # <<>> /\ Len(stack) \in 1 .. MaxDepth /\ Registering
      /\ Last(stack).done /\ forwardcb = actual_cb
      /\ actual_cb \in Callbacks /\ ~install_cb_recorder_on_next_exit
  BY <1>1, InstallingRegisters
<1>3. driver_cb = Shim
  BY <1>1, <1>2 DEF RegistrationInv
<1>4. stack \in Seq(Frame) /\ stack' = Front(stack)
  BY <1>1 DEF RegistrationInv, Drv!Pop, Drv!Front, Front
<1>5. /\ stack' \in Seq(Frame)
      /\ \A i \in DOMAIN stack' : /\ i \in DOMAIN stack /\ stack'[i] = stack[i]
                                  /\ i # Len(stack)
      /\ stack' # <<>> => Len(stack') \in DOMAIN stack'
  BY <1>2, <1>4, Popped, LenProperties
<1>6. \A i \in DOMAIN stack' : stack'[i].cmd # "register"
  BY <1>5 DEF RegistrationInv
<1>7. ~Registering'
  BY <1>5, <1>6 DEF Registering, Last
<1>8. \A i \in 1 .. MaxDepth : shim'[i] = "no"
  BY <1>1, <1>2 DEF RegistrationInv, RecorderInv, StackOK
<1>9. ~Installing'
  <2>1. stack' # <<>> => Len(stack') \in 1 .. MaxDepth
    BY <1>5, Inside DEF RecorderInv, StackOK
  <2>2. QED
    BY <1>8, <2>1 DEF Installing
<1>10. QED
  BY <1>1, <1>2, <1>3, <1>5, <1>6, <1>7, <1>8, <1>9 DEF RegistrationInv, cbVars

LEMMA InvStep ==
  ASSUME "register" \notin Reentrant, RecorderInv, RecorderInv', RegistrationInv,
         [Next]_vars
  PROVE  RegistrationInv'
<1>1. CASE UNCHANGED vars
  BY <1>1 DEF vars, cbVars, RegistrationInv, Registering, Installing
<1>2. ASSUME NEW cmd \in Commands, NEW cb \in Drv!Named(cmd), FmpdrvCallEnter(cmd, cb)
      PROVE  RegistrationInv'
  BY <1>2, InvCallEnter
<1>3. CASE DriverActs
  BY <1>3, InvDriverActs
<1>4. CASE FmpdrvCallExit
  BY <1>4, InvCallExit
<1>5. CASE DriverTakesShim
  BY <1>5, InvTakesShim
<1>6. CASE ShimInstalled
  BY <1>6, InvInstalled
<1>7. CASE CallbackShim \/ CallbackDirect
  <2>1. ~Registering
    BY <1>7, NotRegistering DEF CallbackShim, CallbackDirect
  <2>2. PICK f \in Frame : /\ Drv!Push(f) /\ UNCHANGED <<shim, driver_cb, cbVars>>
                          /\ f.cmd = None
    BY <1>7, CallbackPushes
  <2>3. f.cmd # "register"
    BY <2>2 DEF None
  <2>4. QED
    BY <2>1, <2>2, <2>3, InvPush
<1>8. CASE CallbackReturns \/ RmdevsysCallExit
  <2>1. /\ stack # <<>> /\ Last(stack).kind # "call" /\ Drv!Pop
        /\ UNCHANGED <<shim, driver_cb, cbVars>>
    BY <1>8, NoShim
  <2>2. ~Registering
    BY <2>1, Innermost
  <2>3. QED
    BY <2>1, <2>2, InvPop
<1>9. CASE RmdevsysCallEnter
  <2>1. Drv!DevFrame \in Frame /\ Drv!DevFrame.cmd # "register"
    BY DEF Drv!DevFrame, Drv!None, None, Frame
  <2>2. /\ ~Registering /\ Drv!Push(Drv!DevFrame)
        /\ UNCHANGED <<shim, driver_cb, cbVars>>
    BY <1>9, NotRegistering DEF RmdevsysCallEnter
  <2>3. QED
    BY <2>1, <2>2, InvPush
<1>10. QED
  BY <1>1, <1>2, <1>3, <1>4, <1>5, <1>6, <1>7, <1>8, <1>9 DEF Next

-----------------------------------------------------------------------------
(* The recorder implements FmpDrv.                                         *)

LEMMA DrvInit == Init => Drv!Init
BY DEF Init, Drv!Init, Drv!None, None, Shim

LEMMA DrvStep ==
  ASSUME "register" \notin Reentrant, None \notin Callbacks,
         RecorderInv, RegistrationInv, [Next]_vars
  PROVE  [Drv!Next]_Drv!drvVars
<1> DEFINE reached == IF driver_cb = Shim THEN forwardcb ELSE driver_cb
<1> USE DEF Drv!None, None
<1>1. CASE UNCHANGED vars
  BY <1>1 DEF vars, cbVars, Drv!drvVars
<1>2. ASSUME NEW cmd \in Commands, NEW cb \in Drv!Named(cmd), FmpdrvCallEnter(cmd, cb)
      PROVE  Drv!Call(cmd, cb)
  BY <1>2 DEF FmpdrvCallEnter, Drv!Call
<1>3. CASE DriverActs
  <2>1. Drv!Act
    <3>1. /\ Drv!Running("call") /\ ~Drv!Last(stack).done
          /\ stack' = [stack EXCEPT ![Len(stack)].done = TRUE]
          /\ forwardcb' = forwardcb
      BY <1>3 DEF DriverActs, cbVars, Drv!Last, Last
    <3>2. CASE Registering
      <4>1. /\ Last(stack).cb \in Callbacks /\ driver_cb' = Last(stack).cb
            /\ Last(stack).cmd = "register"
        BY <1>3, <3>2, Innermost DEF DriverActs, Registering
      <4>2. driver_cb' # Shim
        BY <4>1, RecorderAssumption DEF Shim
      <4>3. QED
        BY <3>1, <4>1, <4>2 DEF Drv!Act, Drv!Last, Last
    <3>3. CASE ~Registering
      <4>1. Last(stack).cmd # "register" /\ UNCHANGED driver_cb
        BY <1>3, <3>1, <3>3 DEF DriverActs, Registering, Drv!Running
      <4>2. QED
        BY <3>1, <4>1 DEF Drv!Act, Drv!Last, Last
    <3>4. QED
      BY <3>2, <3>3
  <2>2. QED
    BY <2>1 DEF Drv!Next
<1>4. CASE FmpdrvCallExit
  <2>1. CASE Registering
    <3>1. /\ driver_cb = actual_cb /\ driver_cb \in Callbacks
          /\ UNCHANGED <<stack, driver_cb>>
      BY <1>4, <2>1, ExitPatches
    <3>2. driver_cb # Shim
      BY <3>1, RecorderAssumption DEF Shim
    <3>3. QED
      BY <3>1, <3>2 DEF Drv!drvVars
  <2>2. CASE ~Registering
    <3>1. /\ stack # <<>> /\ Drv!Pop /\ Drv!Last(stack).done
          /\ UNCHANGED <<driver_cb, forwardcb>>
      BY <1>4, <2>2
         DEF FmpdrvCallExit, Drv!Running, Drv!Last, Last, RegistrationInv
    <3>2. QED
      BY <3>1 DEF Drv!Return, Drv!Next
  <2>3. QED
    BY <2>1, <2>2
<1>5. CASE DriverTakesShim
  <2>1. Installing /\ driver_cb' = Shim /\ UNCHANGED <<stack, forwardcb>>
    BY <1>5 DEF DriverTakesShim, cbVars
  <2>2. shim[Len(stack)] = "called" /\ forwardcb = actual_cb /\ driver_cb = actual_cb
    BY <1>5, <2>1, InstallingRegisters DEF DriverTakesShim, RegistrationInv
  <2>3. reached' = reached
    BY <2>1, <2>2
  <2>4. QED
    BY <2>1, <2>3 DEF Drv!drvVars
<1>6. CASE ShimInstalled
  <2>1. /\ stack # <<>> /\ Drv!Pop /\ Drv!Last(stack).done
        /\ UNCHANGED <<driver_cb, forwardcb>>
    BY <1>6, InstallingRegisters DEF ShimInstalled, PatchJump, Drv!Last, Last
  <2>2. QED
    BY <2>1 DEF Drv!Return, Drv!Next
<1>7. CASE CallbackShim
  <2>1. /\ driver_cb = Shim /\ forwardcb \in Callbacks
        /\ MayCallBack /\ UNCHANGED <<driver_cb, forwardcb>>
        /\ Drv!Push(Reached(forwardcb))
    BY <1>7 DEF CallbackShim, cbVars, RegistrationInv
  <2>2. Reached(forwardcb) = Drv!CallbackFrame(forwardcb)
    BY <2>1 DEF Reached
  <2>3. Drv!MayCallBack
    <3>1. ~Installing
      BY <2>1 DEF MayCallBack
    <3>2. QED
      BY <2>1, <3>1 DEF MayCallBack
  <2>4. QED
    BY <2>1, <2>2, <2>3 DEF Drv!CallBack, Drv!Next
<1>8. ~CallbackDirect
  BY NotRegistering DEF CallbackDirect, RegistrationInv
<1>9. CASE CallbackReturns \/ RmdevsysCallExit
  <2>1. /\ stack # <<>> /\ ~Drv!Running("call") /\ Drv!Pop
        /\ UNCHANGED <<driver_cb, forwardcb>>
    BY <1>9 DEF CallbackReturns, RmdevsysCallExit, Drv!Running, cbVars
  <2>2. QED
    BY <2>1 DEF Drv!Return, Drv!Next
<1>10. CASE RmdevsysCallEnter
  BY <1>10 DEF RmdevsysCallEnter, cbVars, Drv!CallDev, Drv!Next
<1>11. QED
  BY <1>1, <1>2, <1>3, <1>4, <1>5, <1>6, <1>7, <1>8, <1>9, <1>10 DEF Next, Drv!Next

-----------------------------------------------------------------------------
(* The depth of the calls, and the indentation the analyzer shows them at. *)

CallKinds   == {"call", "rmdevsys"}
Calls(s, h) == {i \in DOMAIN s : s[i].kind \in CallKinds /\ h[i] = "no"}
Depth(s, h) == Cardinality(Calls(s, h))

LEMMA CallsFinite ==
  ASSUME NEW s \in Seq(Frame), NEW h
  PROVE  IsFiniteSet(Calls(s, h)) /\ Depth(s, h) \in Nat
<1>1. IsFiniteSet(1 .. Len(s)) /\ DOMAIN s = 1 .. Len(s)
  BY LenProperties, FS_Interval
<1>2. QED
  BY <1>1, FS_Subset, FS_CardinalityType DEF Calls, Depth

LEMMA DepthPush ==
  ASSUME RecorderInv, RecorderInv', NEW f \in Frame, Drv!Push(f), UNCHANGED shim
  PROVE  Depth(stack', shim') = IF f.kind \in CallKinds THEN Depth(stack, shim) + 1
                                ELSE Depth(stack, shim)
<1>1. /\ Len(stack') = Len(stack) + 1 /\ Len(stack) \in Nat
      /\ DOMAIN stack' = DOMAIN stack \cup {Len(stack')}
      /\ DOMAIN stack = 1 .. Len(stack)
      /\ \A i \in DOMAIN stack : stack'[i] = stack[i]
      /\ stack'[Len(stack')] = f
  BY Pushed DEF RecorderInv, StackOK, Drv!Push, Last
<1>2. Len(stack') \notin DOMAIN stack
  BY <1>1
<1>3. shim[Len(stack')] = "no"
  <2>1. Len(stack') \in 1 .. MaxDepth
    BY <1>1, RecorderAssumption DEF RecorderInv, StackOK
  <2>2. QED
    BY <1>2, <2>1 DEF RecorderInv, StackOK
<1>4. \A i \in DOMAIN stack : i \in Calls(stack', shim') <=> i \in Calls(stack, shim)
  BY <1>1 DEF Calls
<1>5. Len(stack') \in Calls(stack', shim') <=> f.kind \in CallKinds
  BY <1>1, <1>3 DEF Calls
<1>6. /\ Calls(stack, shim) \subseteq DOMAIN stack
      /\ Calls(stack', shim') \subseteq DOMAIN stack \cup {Len(stack')}
  BY <1>1 DEF Calls
<1>7. IsFiniteSet(Calls(stack, shim)) /\ Len(stack') \notin Calls(stack, shim)
  BY <1>2, <1>6, CallsFinite DEF RecorderInv, StackOK
<1>8. CASE f.kind \in CallKinds
  <2>1. Calls(stack', shim') = Calls(stack, shim) \cup {Len(stack')}
    BY <1>4, <1>5, <1>6, <1>8
  <2>2. QED
    BY <1>7, <1>8, <2>1, FS_AddElement DEF Depth
<1>9. CASE f.kind \notin CallKinds
  <2>1. Calls(stack', shim') = Calls(stack, shim)
    BY <1>4, <1>5, <1>6, <1>9
  <2>2. QED
    BY <1>9, <2>1 DEF Depth
<1>10. QED
  BY <1>8, <1>9

LEMMA DepthPop ==
  ASSUME RecorderInv, stack # <<>>, Drv!Pop, UNCHANGED shim, shim[Len(stack)] = "no"
  PROVE  Depth(stack, shim) = IF Last(stack).kind \in CallKinds
                              THEN Depth(stack', shim') + 1 ELSE Depth(stack', shim')
<1>1. stack \in Seq(Frame) /\ stack' = Front(stack)
  BY DEF RecorderInv, StackOK, Drv!Pop, Drv!Front, Front
<1>2. /\ stack' \in Seq(Frame) /\ DOMAIN stack' = 1 .. Len(stack) - 1
      /\ DOMAIN stack = 1 .. Len(stack) /\ Len(stack) \in Nat \ {0}
      /\ \A i \in DOMAIN stack' : stack'[i] = stack[i]
  BY <1>1, Popped, LenProperties, EmptySeq
<1>3. DOMAIN stack = DOMAIN stack' \cup {Len(stack)} /\ Len(stack) \notin DOMAIN stack'
  BY <1>2
<1>4. \A i \in DOMAIN stack' : i \in Calls(stack', shim') <=> i \in Calls(stack, shim)
  BY <1>2, <1>3 DEF Calls
<1>5. Len(stack) \in Calls(stack, shim) <=> Last(stack).kind \in CallKinds
  BY <1>3 DEF Calls, Last
<1>6. /\ Calls(stack', shim') \subseteq DOMAIN stack'
      /\ Calls(stack, shim) \subseteq DOMAIN stack' \cup {Len(stack)}
  BY <1>3 DEF Calls
<1>7. IsFiniteSet(Calls(stack', shim')) /\ Len(stack) \notin Calls(stack', shim')
  BY <1>2, <1>3, <1>6, CallsFinite
<1>8. CASE Last(stack).kind \in CallKinds
  <2>1. Calls(stack, shim) = Calls(stack', shim') \cup {Len(stack)}
    BY <1>4, <1>5, <1>6, <1>8
  <2>2. QED
    BY <1>7, <1>8, <2>1, FS_AddElement DEF Depth
<1>9. CASE Last(stack).kind \notin CallKinds
  <2>1. Calls(stack, shim) = Calls(stack', shim')
    BY <1>4, <1>5, <1>6, <1>9
  <2>2. QED
    BY <1>9, <2>1 DEF Depth
<1>10. QED
  BY <1>8, <1>9

\* An exit that registers the shim has been logged before it calls the driver.
LEMMA DepthExit ==
  ASSUME RecorderInv, stack # <<>>, UNCHANGED stack, Last(stack).kind = "call",
         shim[Len(stack)] = "no", shim' = [shim EXCEPT ![Len(stack)] = "called"]
  PROVE  Depth(stack, shim) = Depth(stack', shim') + 1
<1>1. /\ Len(stack) \in DOMAIN stack /\ Len(stack) \in 1 .. MaxDepth
      /\ stack[Len(stack)].kind = "call"
  BY InnermostFrame
<1>2. /\ shim'[Len(stack)] = "called"
      /\ \A i \in DOMAIN stack : i # Len(stack) => shim'[i] = shim[i]
  BY <1>1, ShimAt DEF RecorderInv, StackOK
<1>3. Calls(stack, shim) = Calls(stack', shim') \cup {Len(stack)}
  BY <1>1, <1>2 DEF Calls, CallKinds
<1>4. Len(stack) \notin Calls(stack', shim')
  BY <1>2 DEF Calls
<1>5. IsFiniteSet(Calls(stack', shim'))
  <2>1. stack' \in Seq(Frame)
    BY DEF RecorderInv, StackOK
  <2>2. QED
    BY <2>1, CallsFinite
<1> DEFINE after == Calls(stack', shim')
<1>6. /\ IsFiniteSet(after) /\ Len(stack) \notin after
      /\ Calls(stack, shim) = after \cup {Len(stack)}
  BY <1>3, <1>4, <1>5
<1> HIDE DEF after
<1>7. Cardinality(Calls(stack, shim)) = Cardinality(after) + 1
  BY <1>6, FS_AddElement
<1>8. QED
  BY <1>7 DEF Depth, after

\* What the driver does, and the rest of that exit, is not logged.
LEMMA DepthSame ==
  ASSUME RecorderInv, DriverActs \/ DriverTakesShim \/ ShimInstalled
  PROVE  Depth(stack', shim') = Depth(stack, shim)
<1>1. CASE DriverActs
  <2>1. /\ stack # <<>> /\ stack' = [stack EXCEPT ![Len(stack)].done = TRUE]
        /\ UNCHANGED shim
    BY <1>1 DEF DriverActs, Drv!Running
  <2>2. /\ DOMAIN stack' = DOMAIN stack
        /\ Last(stack') = [Last(stack) EXCEPT !.done = TRUE]
        /\ Len(stack') = Len(stack)
        /\ \A i \in DOMAIN stack : i # Len(stack) => stack'[i] = stack[i]
    BY <2>1, Finished DEF RecorderInv, StackOK
  <2>3. Last(stack) \in Frame
    BY <2>1, InnermostFrame
  <2>4. stack'[Len(stack)].kind = stack[Len(stack)].kind
    BY <2>2, <2>3 DEF Frame, Last
  <2>5. QED
    BY <2>1, <2>2, <2>4 DEF Depth, Calls
<1>2. CASE DriverTakesShim
  <2>1. /\ stack # <<>> /\ shim[Len(stack)] = "called" /\ UNCHANGED stack
        /\ shim' = [shim EXCEPT ![Len(stack)] = "known"]
    BY <1>2 DEF DriverTakesShim, Installing
  <2>2. Len(stack) \in 1 .. MaxDepth
    BY <2>1, InnermostFrame
  <2>3. \A i \in DOMAIN stack : shim'[i] = "no" <=> shim[i] = "no"
    BY <2>1, <2>2, ShimAt DEF RecorderInv, StackOK
  <2>4. QED
    BY <2>1, <2>3 DEF Depth, Calls
<1>3. CASE ShimInstalled
  <2>1. /\ stack # <<>> /\ shim[Len(stack)] = "known" /\ Drv!Pop
        /\ shim' = [shim EXCEPT ![Len(stack)] = "no"]
    BY <1>3 DEF ShimInstalled, Installing
  <2>2. stack \in Seq(Frame) /\ stack' = Front(stack)
    BY <2>1 DEF RecorderInv, StackOK, Drv!Pop, Drv!Front, Front
  <2>3. /\ DOMAIN stack' = 1 .. Len(stack) - 1
        /\ DOMAIN stack = 1 .. Len(stack) /\ Len(stack) \in Nat \ {0}
        /\ \A i \in DOMAIN stack' : stack'[i] = stack[i]
    BY <2>1, <2>2, Popped, LenProperties, EmptySeq
  <2>4. /\ DOMAIN stack = DOMAIN stack' \cup {Len(stack)}
        /\ Len(stack) \notin DOMAIN stack'
    BY <2>3
  <2>5. \A i \in DOMAIN stack' : shim'[i] = shim[i]
    BY <2>1, <2>4, ShimAt DEF RecorderInv, StackOK
  <2>6. Calls(stack', shim') = Calls(stack, shim)
    BY <2>1, <2>3, <2>4, <2>5 DEF Calls
  <2>7. QED
    BY <2>6 DEF Depth
<1>4. QED
  BY <1>1, <1>2, <1>3

\* How far the indentation may be from the depth.
Near(n, d, lost) == -lost <= n - d /\ n - d <= lost

\* One entry, logged or lost, keeps them near: of a call, ...
LEMMA NearEnter ==
  ASSUME NEW n \in Nat, NEW d \in Nat, NEW lost \in Nat, Near(n, d, lost),
         NEW k \in 0 .. 2, NEW m, m = n + 1 \/ (m = n /\ k >= 1)
  PROVE  Near(m, d + 1, lost + k)
BY DEF Near

\* ... of a return, of which the analyzer may have seen no call, ...
LEMMA NearExit ==
  ASSUME NEW n \in Nat, NEW d \in Nat, NEW lost \in Nat, Near(n, d + 1, lost),
         NEW k \in 0 .. 2, NEW m,
         m = (IF n > 0 THEN n - 1 ELSE n) \/ (m = n /\ k >= 1)
  PROVE  Near(m, d, lost + k)
BY DEF Near

\* ... or of a callback.
LEMMA NearSame ==
  ASSUME NEW n \in Nat, NEW d \in Nat, NEW lost \in Nat, Near(n, d, lost),
         NEW k \in 0 .. 2
  PROVE  Near(n, d, lost + k)
BY DEF Near

DepthInv == Near(indentation, Depth(stack, shim), open_fail_counter - 1)

LEMMA DepthTypes ==
  ASSUME RecorderInv
  PROVE  /\ indentation \in Nat /\ Depth(stack, shim) \in Nat
         /\ open_fail_counter - 1 \in Nat /\ open_fail_counter \in Int
BY CallsFinite, RecorderAssumption DEF RecorderInv, TypeOK, StackOK

LEMMA DepthStep ==
  ASSUME RecorderInv, DepthInv, RecorderInv', [Next]_vars
  PROVE  DepthInv'
<1> DEFINE lost == open_fail_counter - 1
<1>1. /\ indentation \in Nat
      /\ Depth(stack, shim) \in Nat /\ Depth(stack', shim') \in Nat
      /\ lost \in Nat /\ open_fail_counter \in Int
  <2>1. stack' \in Seq(Frame)
    BY DEF RecorderInv, StackOK
  <2>2. QED
    BY <2>1, DepthTypes, CallsFinite
<1>2. Near(indentation, Depth(stack, shim), lost)
  BY DEF DepthInv
<1>3. CASE UNCHANGED vars
  BY <1>3 DEF vars, DepthInv
<1>4. ASSUME NEW cmd \in Commands, NEW cb \in Drv!Named(cmd), FmpdrvCallEnter(cmd, cb)
      PROVE  DepthInv'
  <2> DEFINE f    == Drv!CallFrame(cmd, cb)
             tags == IF cmd = "open" THEN <<"call", "filename">> ELSE <<"call">>
  <2>1. f \in Frame /\ f.kind = "call"
    BY DEF Drv!CallFrame, Drv!Named, Drv!None, Frame, None
  <2>2. Drv!Push(f) /\ WriteEntries(tags)
    BY <1>4 DEF FmpdrvCallEnter
  <2>3. /\ tags[1] = "call"
        /\ tags = <<tags[1]>> \/ (tags = <<tags[1], tags[2]>> /\ tags[2] \in Plain)
    BY EntriesOf
  <2> HIDE DEF f, tags
  <2>4. PICK k \in 0 .. 2 :
          /\ open_fail_counter' = open_fail_counter + k
          /\ indentation' = indentation + 1 \/ (indentation' = indentation /\ k >= 1)
    BY <2>2, <2>3, Written DEF Reindent, Exits
  <2>5. Depth(stack', shim') = Depth(stack, shim) + 1
    BY <1>4, <2>1, <2>2, DepthPush DEF FmpdrvCallEnter, CallKinds
  <2>6. Near(indentation', Depth(stack, shim) + 1, lost + k)
    BY <1>1, <1>2, <2>4, NearEnter
  <2>7. open_fail_counter' - 1 = lost + k
    BY <1>1, <2>4
  <2>8. QED
    BY <2>5, <2>6, <2>7 DEF DepthInv
<1>5. CASE DriverActs \/ DriverTakesShim \/ ShimInstalled
  <2>1. UNCHANGED <<indentation, open_fail_counter>>
    BY <1>5 DEF DriverActs, DriverTakesShim, ShimInstalled
  <2>2. QED
    BY <1>5, <2>1, DepthSame DEF DepthInv
<1>6. CASE FmpdrvCallExit \/ RmdevsysCallExit
  <2>1. WriteEntries(<<"call_exit">>) \/ WriteEntries(<<"rmdevsys_exit">>)
    BY <1>6 DEF FmpdrvCallExit, RmdevsysCallExit
  <2>2. PICK k \in 0 .. 2 :
          /\ open_fail_counter' = open_fail_counter + k
          /\ \/ indentation' = IF indentation > 0 THEN indentation - 1 ELSE indentation
             \/ indentation' = indentation /\ k >= 1
    <3>1. ASSUME NEW tag \in {"call_exit", "rmdevsys_exit"}
          PROVE  Reindent(indentation, tag) = IF indentation > 0 THEN indentation - 1
                                              ELSE indentation
      BY <3>1 DEF Reindent, Exits
    <3>2. CASE WriteEntries(<<"call_exit">>)
      BY <3>1, <3>2, Written
    <3>3. CASE WriteEntries(<<"rmdevsys_exit">>)
      BY <3>1, <3>3, Written
    <3>4. QED
      BY <2>1, <3>2, <3>3
  <2>3. Depth(stack, shim) = Depth(stack', shim') + 1
    <3>1. /\ stack # <<>> /\ shim[Len(stack)] = "no"
          /\ Last(stack).kind \in CallKinds
      <4>1. CASE FmpdrvCallExit
        BY <4>1 DEF FmpdrvCallExit, Drv!Running, Drv!Last, Last, Installing, CallKinds
      <4>2. CASE RmdevsysCallExit
        BY <4>2, NoShim DEF RmdevsysCallExit, Drv!Running, Drv!Last, Last, CallKinds
      <4>3. QED
        BY <1>6, <4>1, <4>2
    <3>2. \/ Drv!Pop /\ UNCHANGED shim
          \/ /\ UNCHANGED stack /\ Last(stack).kind = "call"
             /\ shim' = [shim EXCEPT ![Len(stack)] = "called"]
      BY <1>6 DEF FmpdrvCallExit, RmdevsysCallExit, Drv!Running, Drv!Last, Last
    <3>3. QED
      BY <3>1, <3>2, DepthPop, DepthExit
  <2>4. Near(indentation', Depth(stack', shim'), lost + k)
    BY <1>1, <1>2, <2>2, <2>3, NearExit
  <2>5. open_fail_counter' - 1 = lost + k
    BY <1>1, <2>2
  <2>6. QED
    BY <2>4, <2>5 DEF DepthInv
<1>7. CASE CallbackShim \/ CallbackDirect
  <2>1. PICK f \in Frame : /\ Drv!Push(f) /\ UNCHANGED shim
                          /\ f.kind \in {"callback", "nowhere"}
    BY <1>7, CallbackPushes
  <2>2. f.kind \notin CallKinds
    BY <2>1 DEF CallKinds
  <2>3. Depth(stack', shim') = Depth(stack, shim)
    BY <2>1, <2>2, DepthPush
  <2>4. PICK k \in 0 .. 2 : /\ open_fail_counter' = open_fail_counter + k
                            /\ indentation' = indentation
    <3>1. CASE CallbackShim
      <4> DEFINE tags == <<"callback_reg", "callback_stk">>
      <4>1. /\ tags[1] = "callback_reg"
            /\ tags = <<tags[1], tags[2]>> /\ tags[2] \in Plain
        BY DEF Plain
      <4>2. WriteEntries(tags)
        BY <3>1 DEF CallbackShim
      <4> HIDE DEF tags
      <4>3. QED
        BY <4>1, <4>2, Written DEF Reindent, Exits
    <3>2. CASE CallbackDirect
      <4>1. open_fail_counter' = open_fail_counter + 0 /\ indentation' = indentation
        BY <1>1, <3>2 DEF CallbackDirect
      <4>2. QED
        BY <4>1
    <3>3. QED
      BY <1>7, <3>1, <3>2
  <2>5. Near(indentation, Depth(stack, shim), lost + k)
    BY <1>1, <1>2, NearSame
  <2>6. open_fail_counter' - 1 = lost + k
    BY <1>1, <2>4
  <2>7. QED
    BY <2>3, <2>4, <2>5, <2>6 DEF DepthInv
<1>8. CASE CallbackReturns
  <2>1. /\ Last(stack).kind = "callback"
        /\ UNCHANGED <<indentation, open_fail_counter>>
    BY <1>8 DEF CallbackReturns, Drv!Running, Drv!Last, Last
  <2>2. Last(stack).kind \notin CallKinds
    BY <2>1 DEF CallKinds
  <2>3. Depth(stack', shim') = Depth(stack, shim)
    BY <1>1, <1>8, <2>2, NoShim, DepthPop
  <2>4. QED
    BY <2>1, <2>3 DEF DepthInv
<1>9. CASE RmdevsysCallEnter
  <2>1. Drv!DevFrame \in Frame /\ Drv!DevFrame.kind = "rmdevsys"
    BY DEF Drv!DevFrame, Drv!None, Frame, None
  <2>2. Drv!Push(Drv!DevFrame) /\ WriteEntries(<<"rmdevsys">>) /\ UNCHANGED shim
    BY <1>9 DEF RmdevsysCallEnter
  <2>3. PICK k \in 0 .. 2 :
          /\ open_fail_counter' = open_fail_counter + k
          /\ indentation' = indentation + 1 \/ (indentation' = indentation /\ k >= 1)
    BY <2>2, Written DEF Reindent, Exits
  <2>4. Depth(stack', shim') = Depth(stack, shim) + 1
    BY <2>1, <2>2, DepthPush DEF CallKinds
  <2>5. Near(indentation', Depth(stack, shim) + 1, lost + k)
    BY <1>1, <1>2, <2>3, NearEnter
  <2>6. open_fail_counter' - 1 = lost + k
    BY <1>1, <2>3
  <2>7. QED
    BY <2>4, <2>5, <2>6 DEF DepthInv
<1>10. QED
  BY <1>3, <1>4, <1>5, <1>6, <1>7, <1>8, <1>9 DEF Next

-----------------------------------------------------------------------------
(* The theorems.                                                           *)

LEMMA RecorderInvariance == Spec => []RecorderInv
<1>1. Init => RecorderInv
  BY RecorderInvInit
<1>2. RecorderInv /\ [Next]_vars => RecorderInv'
  BY RecorderInvStep
<1>3. QED
  BY <1>1, <1>2, PTL DEF Spec

\* What the static variables of the recorder say of the calls in progress.
THEOREM RegistrationInvariance ==
  ASSUME "register" \notin Reentrant
  PROVE  Spec => []RegistrationInv
<1>1. Init => RegistrationInv
  BY InvInit
<1>2. RecorderInv /\ RecorderInv' /\ RegistrationInv /\ [Next]_vars => RegistrationInv'
  BY InvStep
<1>3. QED
  BY <1>1, <1>2, RecorderInvariance, PTL DEF Spec

\* Every callback after a registration goes through the shim.
THEOREM CallbacksRecorded ==
  ASSUME "register" \notin Reentrant
  PROVE  Spec => []EveryCallbackRecorded
<1>1. RecorderInv /\ RegistrationInv => EveryCallbackRecorded
  BY Innermost DEF RegistrationInv, EveryCallbackRecorded, Registering
<1>2. QED
  BY <1>1, RecorderInvariance, RegistrationInvariance, PTL

\* The application sees FMPDRV.EXE as if it were not recorded, as long as it
\* registers no NULL.
THEOREM Transparent ==
  ASSUME "register" \notin Reentrant, None \notin Callbacks
  PROVE  Spec => DriverSpec
<1>1. Init => Drv!Init
  BY DrvInit
<1>2. RecorderInv /\ RegistrationInv /\ [Next]_vars => [Drv!Next]_Drv!drvVars
  BY DrvStep
<1>3. QED
  BY <1>1, <1>2, RecorderInvariance, RegistrationInvariance, PTL
     DEF Spec, DriverSpec, Drv!Spec

\* The variables of the recorder keep their types, whatever the driver does.
THEOREM RecorderTypeCorrect == Spec => []TypeOK
<1>1. RecorderInv => TypeOK
  BY DEF RecorderInv
<1>2. QED
  BY <1>1, RecorderInvariance, PTL

\* From the moment the driver knows the shim, its jump leads to the callback of
\* the last registration that has come to its exit, even when the driver calls
\* back while it registers a callback or the shim, and whichever exit installs it.
THEOREM ShimJumps == Spec => []ShimReachesLatest
<1>1. RecorderInv => ShimReachesLatest
  BY DEF RecorderInv, ShimReachesLatest
<1>2. QED
  BY <1>1, RecorderInvariance, PTL

\* The analyzer shows every call at its depth, give or take the entries the
\* recorder could not write: what it loses can neither add up to more than one
\* indentation for each nor be made worse by what follows.
THEOREM ShownAtDepth == Spec => []AnalyzedDepth
<1>1. Init => DepthInv
  <2>1. ASSUME Init PROVE Calls(stack, shim) = {}
    BY <2>1, EmptySeq DEF Init, Calls
  <2>2. ASSUME Init PROVE Depth(stack, shim) = 0
    BY <2>1, <2>2, FS_EmptySet DEF Depth
  <2>3. Near(0, 0, 1 - 1)
    BY DEF Near
  <2>4. QED
    BY <2>2, <2>3 DEF Init, DepthInv
<1>2. RecorderInv /\ DepthInv /\ RecorderInv' /\ [Next]_vars => DepthInv'
  BY DepthStep
<1>3. RecorderInv /\ DepthInv => AnalyzedDepth
  BY DEF DepthInv, Near, Depth, Calls, CallKinds, AnalyzedDepth, Shown
<1>4. QED
  BY <1>1, <1>2, <1>3, RecorderInvariance, PTL DEF Spec
=============================================================================
