----------------------------- MODULE MCRecorder -----------------------------
(* A small instance of Recorder: two callbacks, so that one can be replaced *)
(* by the other, in the main program or in a callback, and a call of each   *)
(* kind the recorder tells apart.                                           *)
EXTENDS Recorder

MC_Commands  == {"register", "open", "play"}
MC_Callbacks == {"cb1", "cb2"}
MC_Reentrant == {"open", "play"}

\* An application that registers NULL, too.
MC_NullCallbacks == {"cb1", "cb2", "none"}

\* The driver calls back in every call, even while it registers a callback.
MC_AllReentrant == MC_Commands
=============================================================================
