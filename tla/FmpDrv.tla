------------------------------- MODULE FmpDrv -------------------------------
(***************************************************************************)
(* FMPDRV.EXE as an application sees it: calls (INT 80h) that may be       *)
(* nested, because the driver may call the application back while a call   *)
(* is in progress, or from an interrupt, and the application may call the  *)
(* driver in its callback.  A call of the driver back always reaches the   *)
(* callback that the application registered last.                          *)
(*                                                                         *)
(* The driver is outside the repository; this is what the SDK and the      *)
(* recorder assume of it, and what an application must still see once      *)
(* recorder/recorder.c has put itself in between (module Recorder).        *)
(***************************************************************************)
EXTENDS SequencesExt, Integers

CONSTANTS
  Commands,    \* the driver calls that matter: "register", "open", others
  Callbacks,   \* the application's callback functions
  Reentrant,   \* the calls in which the driver may call back
  MaxDepth     \* bound: the calls and callbacks in progress

VARIABLES
  stack,       \* the calls and callbacks in progress, the innermost last
  callback     \* the registered callback, None when there is none

None     == "none"
drvVars  == <<stack, callback>>

CallFrame(cmd, cb) == [kind |-> "call", cmd |-> cmd, cb |-> cb, done |-> FALSE]
CallbackFrame(cb)  == [kind |-> "callback", cmd |-> None, cb |-> cb, done |-> FALSE]
DevFrame           == [kind |-> "rmdevsys", cmd |-> None, cb |-> None, done |-> FALSE]

\* The callback a command names; only a registration names one.
Named(cmd) == IF cmd = "register" THEN Callbacks ELSE {None}

Running(kind) == stack # <<>> /\ Last(stack).kind = kind

\* The application executes, as its main program or as its callback.
AppRuns == stack = <<>> \/ Running("callback")

\* The driver may call back: in a call, or from an interrupt.
MayCallBack == AppRuns \/ (Running("call") /\ Last(stack).cmd \in Reentrant)

Push(frame) == Len(stack) < MaxDepth /\ stack' = Append(stack, frame)
Pop         == stack' = Front(stack)

Init == stack = <<>> /\ callback = None

Call(cmd, cb) == /\ AppRuns
                 /\ Push(CallFrame(cmd, cb))
                 /\ UNCHANGED callback

\* The driver does what it was called for.
Act == /\ Running("call") /\ ~Last(stack).done
       /\ stack' = [stack EXCEPT ![Len(stack)].done = TRUE]
       /\ callback' = IF Last(stack).cmd = "register" THEN Last(stack).cb
                      ELSE callback

CallBack == /\ callback # None
            /\ MayCallBack
            /\ Push(CallbackFrame(callback))
            /\ UNCHANGED callback

\* RMDEV.SYS is called through INT 2Fh.
CallDev == /\ AppRuns
           /\ Push(DevFrame)
           /\ UNCHANGED callback

Return == /\ stack # <<>>
          /\ Running("call") => Last(stack).done
          /\ Pop
          /\ UNCHANGED callback

Next == \/ \E cmd \in Commands : \E cb \in Named(cmd) : Call(cmd, cb)
        \/ Act \/ CallBack \/ CallDev \/ Return

Spec == Init /\ [][Next]_drvVars
=============================================================================
