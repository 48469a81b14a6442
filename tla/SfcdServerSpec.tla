--------------------------- MODULE SfcdServerSpec ---------------------------
(***************************************************************************)
(* What the daemon promises to the processes that call it: a method takes  *)
(* effect at once, some time between its call and its answer; a dialog     *)
(* leaves the RUNNING state, and goes away, with a signal to everyone on   *)
(* the bus; and a dialog that went away is not heard of again.             *)
(***************************************************************************)
EXTENDS SfcdMethods

CONSTANTS Dialogs, NoDialog, Callers, Calls

VARIABLES
  mode,   \* mode[d]: the SfcdState of d, or "unborn", or "gone"
  asked,  \* the calls that are not answered
  said    \* said[d]: the last signal about d

vars == <<mode, asked, said>>

Modes   == SfcdState \cup {"unborn", "gone"}
Signals == {"nothing", "response", "destroy"}

Call == [caller : Callers, method : Calls, dialog : Dialogs \cup {NoDialog}]

TypeOK ==
  /\ mode \in [Dialogs -> Modes]
  /\ asked \subseteq Call
  /\ said \in [Dialogs -> Signals]

Init ==
  /\ mode = [d \in Dialogs |-> "unborn"]
  /\ asked = {}
  /\ said = [d \in Dialogs |-> "nothing"]

(* What becomes of a dialog in this state when this method is called.      *)
After(method, state) ==
  IF RefusedIn(method, state) THEN state ELSE LeftBy(method, state)

Signal(d, signal, newMode) ==
  /\ mode' = [mode EXCEPT ![d] = newMode]
  /\ said' = [said EXCEPT ![d] = signal]

-----------------------------------------------------------------------------
Ask(call) ==
  /\ \A other \in asked : other.caller # call.caller
  /\ (call.method = "new") <=> (call.dialog = NoDialog)
  /\ asked' = asked \cup {call}
  /\ UNCHANGED <<mode, said>>

(* Mutant of Create: the ids of dialogs that went away are given out again.*)
CreateRecycled(call, d) ==
  /\ call \in asked /\ call.method = "new"
  /\ mode[d] \in {"unborn", "gone"}
  /\ mode' = [mode EXCEPT ![d] = CONFIGURATION]
  /\ asked' = asked \ {call}
  /\ UNCHANGED said

Create(call, d) ==
  /\ call \in asked /\ call.method = "new"
  /\ mode[d] = "unborn"
  /\ mode' = [mode EXCEPT ![d] = CONFIGURATION]
  /\ asked' = asked \ {call}
  /\ UNCHANGED said

(* Mutant of Fail: a call whose dialog is not there gets no answer.        *)
FailUnserved(call) ==
  /\ call \in asked /\ call.method \in Unserved \cup {"new"}
  /\ asked' = asked \ {call}
  /\ UNCHANGED <<mode, said>>

(* A call that no handler serves, one whose dialog is not there, and one   *)
(* for a dialog that cannot be created.                                    *)
Fail(call) ==
  /\ call \in asked
  /\ \/ call.method \in Unserved \cup {"new"}
     \/ call.dialog \in Dialogs /\ mode[call.dialog] \notin SfcdState
  /\ asked' = asked \ {call}
  /\ UNCHANGED <<mode, said>>

(* Mutant of Perform: a dialog that went away is still found.              *)
PerformOnGone(call) ==
  /\ call \in asked /\ call.method \in DialogMethods \ Unserved
  /\ mode[call.dialog] # "unborn"
  /\ mode' = [mode EXCEPT ![call.dialog] =
                 After(call.method, IF @ = "gone" THEN CONFIGURATION ELSE @)]
  /\ asked' = asked \ {call}
  /\ UNCHANGED said

Perform(call) ==
  /\ call \in asked /\ call.method \in DialogMethods \ Unserved
  /\ mode[call.dialog] \in SfcdState
  /\ mode' = [mode EXCEPT ![call.dialog] = After(call.method, @)]
  /\ asked' = asked \ {call}
  /\ UNCHANGED said

Destroy(call) ==
  /\ call \in asked /\ call.method = "destroy"
  /\ mode[call.dialog] \in SfcdState
  /\ Signal(call.dialog, "destroy", "gone")
  /\ asked' = asked \ {call}

(* A run ends.                                                             *)
Respond(d, verdict) ==
  /\ mode[d] = RUNNING
  /\ verdict \in {CONFIGURATION, DATA_RETRIEVAL}
  /\ Signal(d, "response", verdict)
  /\ UNCHANGED asked

(* The user closes the window of a run.                                    *)
Close(d) ==
  /\ mode[d] = RUNNING
  /\ Signal(d, "destroy", "gone")
  /\ UNCHANGED asked

-----------------------------------------------------------------------------
Serve(call) ==
  \/ \E d \in Dialogs : Create(call, d)
  \/ Fail(call) \/ Perform(call) \/ Destroy(call)

Users(d) == (\E verdict \in SfcdState : Respond(d, verdict)) \/ Close(d)

Next ==
  \/ \E call \in Call : Ask(call)
  \/ \E call \in asked : Serve(call)
  \/ \E d \in Dialogs : Users(d)

Spec == Init /\ [][Next]_vars
=============================================================================
