------------------------------ MODULE Recorder ------------------------------
(***************************************************************************)
(* recorder/recorder.c: a resident program between the application and the *)
(* driver.  It hooks INT 80h and INT 2Fh to log each call at its entry and *)
(* exit, and after a registration of a callback it registers a shim of its *)
(* own, which logs the callback and jumps on to the application's.         *)
(*                                                                         *)
(* The calls nest, but the recorder keeps what it knows of a registration  *)
(* (the flag, the callback and the jump it patches) in one set of static   *)
(* variables.  An action runs from one point where the driver or the       *)
(* application gets control to the next, the driver called for the shim    *)
(* included: the recorder runs with interrupts off but for its DOS calls,  *)
(* and the driver is taken not to call back in the middle of DOS.  A log   *)
(* record is lost when DOS cannot open the log.                            *)
(*                                                                         *)
(* An application may register NULL, None here: the driver is taken not to *)
(* call back through it, but the recorder wraps it like any callback.      *)
(***************************************************************************)
EXTENDS SequencesExt, FiniteSets, Integers, Analyze

CONSTANTS
  Commands,    \* the driver calls that matter: "register", "open", others
  Callbacks,   \* the application's callback functions, and NULL as None
  Reentrant,   \* the calls in which the driver may call back
  MaxDepth,    \* bound: the calls and callbacks in progress
  MaxLost      \* bound: the log records lost

ASSUME RecorderAssumption ==
  /\ "cbshim" \notin Callbacks
  /\ "none" \notin Commands
  /\ MaxDepth \in Nat /\ MaxLost \in Nat

VARIABLES
  stack,       \* the calls and callbacks in progress, the innermost last
  shim,        \* by depth: where a call's exit is in registering the shim
  driver_cb,   \* the callback the driver knows
  install_cb_recorder_on_next_exit,
  actual_cb,   \* the callback of the last registration
  forwardcb,   \* the target of the shim's far jump
  indentation, \* the log: where analyze.c stands after reading it so far
  open_fail_counter

None == "none"
Shim == "cbshim"

cbVars == <<install_cb_recorder_on_next_exit, actual_cb, forwardcb>>
vars   == <<stack, shim, driver_cb, cbVars, indentation, open_fail_counter>>

\* The frames of the stack and who executes are those of FmpDrv.
Drv == INSTANCE FmpDrv WITH callback <- IF driver_cb = Shim THEN forwardcb
                                        ELSE driver_cb

Frame == [kind : {"call", "callback", "rmdevsys", "nowhere"},
          cmd  : Commands \cup {None},
          cb   : Callbacks \cup {None},
          done : BOOLEAN]

TypeOK ==
  /\ Len(stack) <= MaxDepth
  /\ \A i \in DOMAIN stack : stack[i] \in Frame
  /\ shim \in [1 .. MaxDepth -> {"no", "called", "known"}]
  /\ driver_cb \in Callbacks \cup {None, Shim}
  /\ install_cb_recorder_on_next_exit \in BOOLEAN
  /\ actual_cb \in Callbacks \cup {None}
  /\ forwardcb \in Callbacks \cup {None}
  /\ indentation \in Nat
  /\ open_fail_counter \in 1 .. MaxLost + 1

\* main has counted a failed open: it opens the log before it knows its name.
Init ==
  /\ stack = <<>>
  /\ shim = [i \in 1 .. MaxDepth |-> "no"]
  /\ driver_cb = None
  /\ install_cb_recorder_on_next_exit = FALSE
  /\ actual_cb = None
  /\ forwardcb = None
  /\ indentation = 0
  /\ open_fail_counter = 1

-----------------------------------------------------------------------------
\* write_entry_buf_to_log, for the one or two entries a call or a callback
\* makes: each is logged or, when the log cannot be opened, lost.
AfterEntry(n, tag, lost) == IF lost THEN n ELSE Reindent(n, tag)

WriteEntries(tags) ==
  \E lost \in SUBSET DOMAIN tags :
    /\ LET n    == AfterEntry(indentation, tags[1], 1 \in lost)
           last == Len(tags)
       IN  indentation' = IF last = 1 THEN n
                          ELSE AfterEntry(n, tags[last], last \in lost)
    /\ open_fail_counter' = open_fail_counter + Cardinality(lost)
    /\ open_fail_counter' <= MaxLost + 1

\* The innermost call is over but for its exit, which has called the driver to
\* register the shim.
Installing == stack # <<>> /\ shim[Len(stack)] # "no"

\* The driver may call back; while the shim is registered, it executes another
\* registration, whatever the call it returns from.
MayCallBack == IF Installing THEN "register" \in Reentrant ELSE Drv!MayCallBack

(* INT 80h.                                                                *)

\* Mutant of FmpdrvCallEnter: only the first registration is followed.
FmpdrvCallEnterOnce(cmd, cb) ==
  /\ Drv!AppRuns
  /\ WriteEntries(IF cmd = "open" THEN <<"call", "filename">> ELSE <<"call">>)
  /\ IF cmd = "register"
     THEN /\ install_cb_recorder_on_next_exit' = (forwardcb = None)
          /\ actual_cb' = cb
     ELSE UNCHANGED <<install_cb_recorder_on_next_exit, actual_cb>>
  /\ Drv!Push(Drv!CallFrame(cmd, cb))
  /\ UNCHANGED <<shim, driver_cb, forwardcb>>

\* record_fmpdrv_call_enter, and the call that is forwarded.
FmpdrvCallEnter(cmd, cb) ==
  /\ Drv!AppRuns
  /\ WriteEntries(IF cmd = "open" THEN <<"call", "filename">> ELSE <<"call">>)
  /\ IF cmd = "register"
     THEN /\ install_cb_recorder_on_next_exit' = TRUE
          /\ actual_cb' = cb
     ELSE UNCHANGED <<install_cb_recorder_on_next_exit, actual_cb>>
  /\ Drv!Push(Drv!CallFrame(cmd, cb))
  /\ UNCHANGED <<shim, driver_cb, forwardcb>>

\* The driver does what it was called for.
DriverActs ==
  /\ Drv!Running("call") /\ ~Last(stack).done
  /\ stack' = [stack EXCEPT ![Len(stack)].done = TRUE]
  /\ driver_cb' = IF Last(stack).cmd = "register" THEN Last(stack).cb ELSE driver_cb
  /\ UNCHANGED <<shim, cbVars, indentation, open_fail_counter>>

\* Mutants of PatchJump: the jump is patched for the first callback only, or
\* when the driver has already been called.
PatchJumpOnce(at) ==
  forwardcb' = IF at = "before" /\ forwardcb = None THEN actual_cb ELSE forwardcb
PatchJumpLate(at) == forwardcb' = IF at = "after" THEN actual_cb ELSE forwardcb

\* The shim's far jump is patched, before the exit calls the driver.
PatchJump(at) == forwardcb' = IF at = "before" THEN actual_cb ELSE forwardcb

\* record_fmpdrv_call_exit, as far as the call by which it registers the shim
\* behind the back of the log; without a shim to register the call is over.
FmpdrvCallExit ==
  /\ Drv!Running("call") /\ Last(stack).done /\ ~Installing
  /\ WriteEntries(<<"call_exit">>)
  /\ IF install_cb_recorder_on_next_exit
     THEN /\ install_cb_recorder_on_next_exit' = FALSE
          /\ PatchJump("before")
          /\ shim' = [shim EXCEPT ![Len(stack)] = "called"]
          /\ UNCHANGED stack
     ELSE /\ Drv!Pop
          /\ UNCHANGED <<install_cb_recorder_on_next_exit, forwardcb, shim>>
  /\ UNCHANGED <<driver_cb, actual_cb>>

\* The driver does what the exit called it for.
DriverTakesShim ==
  /\ Installing /\ shim[Len(stack)] = "called"
  /\ driver_cb' = Shim
  /\ shim' = [shim EXCEPT ![Len(stack)] = "known"]
  /\ UNCHANGED <<stack, cbVars, indentation, open_fail_counter>>

\* The driver returns to record_fmpdrv_call_exit, and that to the application.
ShimInstalled ==
  /\ Installing /\ shim[Len(stack)] = "known"
  /\ PatchJump("after")
  /\ shim' = [shim EXCEPT ![Len(stack)] = "no"]
  /\ Drv!Pop
  /\ UNCHANGED <<driver_cb, install_cb_recorder_on_next_exit, actual_cb,
                 indentation, open_fail_counter>>

(* The callback.                                                           *)

\* Where a far jump leads: to a callback, or to 0000:0000, from where nothing
\* returns.
Reached(cb) ==
  IF cb = None THEN [kind |-> "nowhere", cmd |-> None, cb |-> None, done |-> FALSE]
  ELSE Drv!CallbackFrame(cb)

\* cbshim: the callback is logged, and the jump leaves the shim no exit.
CallbackShim ==
  /\ driver_cb = Shim
  /\ MayCallBack
  /\ WriteEntries(<<"callback_reg", "callback_stk">>)
  /\ Drv!Push(Reached(forwardcb))
  /\ UNCHANGED <<shim, driver_cb, cbVars>>

\* The driver calls the application past the recorder.
CallbackDirect ==
  /\ driver_cb \notin {None, Shim}
  /\ MayCallBack
  /\ Drv!Push(Drv!CallbackFrame(driver_cb))
  /\ UNCHANGED <<shim, driver_cb, cbVars, indentation, open_fail_counter>>

CallbackReturns ==
  /\ Drv!Running("callback")
  /\ Drv!Pop
  /\ UNCHANGED <<shim, driver_cb, cbVars, indentation, open_fail_counter>>

(* INT 2Fh with AH = 98h; other functions are passed on unseen.            *)

RmdevsysCallEnter ==
  /\ Drv!AppRuns
  /\ WriteEntries(<<"rmdevsys">>)
  /\ Drv!Push(Drv!DevFrame)
  /\ UNCHANGED <<shim, driver_cb, cbVars>>

RmdevsysCallExit ==
  /\ Drv!Running("rmdevsys")
  /\ WriteEntries(<<"rmdevsys_exit">>)
  /\ Drv!Pop
  /\ UNCHANGED <<shim, driver_cb, cbVars>>

Next == \/ \E cmd \in Commands : \E cb \in Drv!Named(cmd) : FmpdrvCallEnter(cmd, cb)
        \/ DriverActs
        \/ FmpdrvCallExit
        \/ DriverTakesShim
        \/ ShimInstalled
        \/ CallbackShim
        \/ CallbackDirect
        \/ CallbackReturns
        \/ RmdevsysCallEnter
        \/ RmdevsysCallExit

Spec == Init /\ [][Next]_vars

-----------------------------------------------------------------------------
(* Properties.                                                             *)

\* An application cannot tell that it is recorded: with the shim in place, and
\* while it is being put there, the driver reaches the callback that was
\* registered last.
DriverSpec == Drv!Spec

\* No callback escapes the log: once a registration has returned, the driver
\* knows the shim ("the actual call we give the driver for callback",
\* recorder.c:116) and not the application's callback.
EveryCallbackRecorded ==
  driver_cb \in {None, Shim} \/ \E i \in DOMAIN stack : stack[i].cmd = "register"

\* Whichever exit consumes the flag, and whatever the driver does while that exit
\* registers the shim: from the moment the driver knows the shim, its jump leads
\* to the callback that was registered last, unless a later registration has yet
\* to come to its exit.
ShimReachesLatest ==
  driver_cb = Shim => install_cb_recorder_on_next_exit \/ forwardcb = actual_cb

\* The analyzer shows the calls at their depth, and each log record that is
\* lost puts it off by one indentation at most, for good or for a while.  An
\* exit that registers the shim has been logged.
Shown(i) == stack[i].kind \in {"call", "rmdevsys"} /\ shim[i] = "no"

AnalyzedDepth ==
  LET depth == Cardinality({i \in DOMAIN stack : Shown(i)})
      off   == indentation - depth
      lost  == open_fail_counter - 1
  IN  -lost <= off /\ off <= lost

\* A registration is always the innermost call, for the driver does not call
\* back in it; the flag is up from its entry to its exit, the callback kept is
\* the one it names, and only then may the driver know an application's callback.
\* Its exit alone registers the shim, when the jump has been patched.
Registering == stack # <<>> /\ Last(stack).cmd = "register"

RegistrationInv ==
  /\ stack \in Seq(Frame)
  /\ \A i \in DOMAIN stack : stack[i].cmd = "register" =>
       i = Len(stack) /\ stack[i].kind = "call" /\ stack[i].cb \in Callbacks
  /\ \A i \in 1 .. MaxDepth : shim[i] # "no" => i = Len(stack) /\ Registering
  /\ install_cb_recorder_on_next_exit <=> Registering /\ ~Installing
  /\ Registering => actual_cb = Last(stack).cb
  /\ Registering /\ Last(stack).done =>
       driver_cb = IF shim[Len(stack)] = "known" THEN Shim ELSE actual_cb
  /\ Installing => Last(stack).done /\ forwardcb = actual_cb
  /\ driver_cb \in {None, Shim} \/ (Registering /\ driver_cb = actual_cb)
  /\ driver_cb = Shim => forwardcb \in Callbacks
=============================================================================
