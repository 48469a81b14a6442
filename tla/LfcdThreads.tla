----------------------------- MODULE LfcdThreads -----------------------------
(***************************************************************************)
(* lib/localfilechooserdialog.c: one dialog that several threads use, whose*)
(* methods do their work with its stateMutex.                              *)
(*                                                                         *)
(* A step is what a thread does between two moments at which another one   *)
(* can see it: it waits for the mutex, reads the state, changes it, gives  *)
(* the mutex back.  What it asks of the toolkit is taken as one step: the  *)
(* class calls the toolkit from whatever thread it is called on.  The main *)
(* thread is that of the main context, where runs have their loop.         *)
(***************************************************************************)
EXTENDS SfcdMethods, Integers

CONSTANTS
  Threads,   \* the threads of the application ...
  Main,      \* ... that of the main context among them ...
  NoThread,  \* ... and none
  Methods,   \* the methods that are called, beside sfcd_destroy
  ThreadsMay \* what applications do (see ThreadLiberties)

(* An application cannot keep its user from closing the window while a     *)
(* thread uses the dialog: this is a liberty of both.                      *)
ThreadLiberties == {"use_closed"}

ASSUME ThreadsAssumption ==
  /\ Main \in Threads
  /\ NoThread \notin Threads
  /\ Methods \subseteq {"run"} \cup RunControls \cup Setters \cup Queries
  /\ ThreadsMay \subseteq ThreadLiberties

VARIABLES
  \* LocalFileChooserDialogPrivate, and the GObject
  state,  \* priv->state
  holder, \* the thread that has stateMutex, or NoThread
  refs,   \* the reference count, 0 when there is no object
  owned,  \* the application has the reference of the creation
  \* the run
  phase,  \* where it stands (see Phases)
  answer, \* response_id
  ending, \* what _lfcd_run_func has left to do after it gave the mutex back
  report, \* the arguments of its response signal
  shown,  \* the window is on the screen
  \* the threads
  at,     \* at[t]: where t is in a method (see Places)
  doing,  \* doing[t]: the method
  seen    \* seen[t]: the state that it has read

dialogVars == <<state, refs, owned>>
runVars    == <<phase, answer, ending, report>>
vars == <<dialogVars, holder, runVars, shown, at, doing, seen>>

Phases  == {"none", "queued", "looping", "quit"}
Answers == {"none", "accept", "reject", "delete"}
Endings == {"none", "reporting", "emitted", "closed"}
Places  == {"out", "entering", "testing", "acting", "handling", "leaving", "releasing", "stuck"}
Tasks   == Methods \cup {"destroy", "end_run"}

NoReport == [answer |-> "none", state |-> RUNNING]

TypeOK ==
  /\ state \in SfcdState
  /\ holder \in Threads \cup {NoThread}
  /\ refs \in Nat
  /\ owned \in BOOLEAN
  /\ phase \in Phases
  /\ answer \in Answers
  /\ ending \in Endings
  /\ report \in [answer : Answers, state : SfcdState]
  /\ shown \in BOOLEAN
  /\ at \in [Threads -> Places]
  /\ doing \in [Threads -> Tasks \cup {"none"}]
  /\ seen \in [Threads -> SfcdState]

Init ==
  /\ state = CONFIGURATION
  /\ holder = NoThread
  /\ refs = 0 /\ owned = FALSE
  /\ phase = "none" /\ answer = "none" /\ ending = "none"
  /\ report = NoReport
  /\ shown = FALSE
  /\ at = [t \in Threads |-> "out"]
  /\ doing = [t \in Threads |-> "none"]
  /\ seen = [t \in Threads |-> CONFIGURATION]

-----------------------------------------------------------------------------
Goto(t, place) == at' = [at EXCEPT ![t] = place]

(* The application has control: on the main thread, between two dispatches *)
(* or in a handler of the response signal.                                 *)
InApplication(t) ==
  /\ at[t] = "out"
  /\ t = Main => ending \in {"none", "emitted"}

New(t) ==
  /\ InApplication(t)
  /\ refs = 0
  /\ refs' = 1 /\ owned' = TRUE
  /\ state' = CONFIGURATION
  /\ shown' = FALSE
  /\ UNCHANGED <<holder, runVars, at, doing, seen>>

Quiet == \A t \in Threads : at[t] = "out" \/ doing[t] = "end_run"

Enter(t, method) ==
  /\ InApplication(t)
  /\ owned
  /\ answer = "delete" => "use_closed" \in ThreadsMay
  /\ Goto(t, "entering")
  /\ doing' = [doing EXCEPT ![t] = method]
  /\ UNCHANGED <<dialogVars, holder, runVars, shown, seen>>

(* "thread-safe so long as you make sure to return from all of an          *)
(* instance's methods before destroying it"                                *)
EnterDestroy(t) ==
  /\ InApplication(t)
  /\ owned
  /\ Quiet
  /\ answer = "delete" => "use_closed" \in ThreadsMay
  /\ owned' = FALSE
  /\ Goto(t, "entering")
  /\ doing' = [doing EXCEPT ![t] = "destroy"]
  /\ UNCHANGED <<state, refs, holder, runVars, shown, seen>>

(* Mutant of Lock: a method does not wait for the mutex.                   *)
LockNot(t) ==
  /\ at[t] = "entering"
  /\ holder' = t
  /\ Goto(t, "testing")
  /\ UNCHANGED <<dialogVars, runVars, shown, doing, seen>>

Lock(t) ==
  /\ at[t] = "entering"
  /\ holder = NoThread
  /\ holder' = t
  /\ Goto(t, "testing")
  /\ UNCHANGED <<dialogVars, runVars, shown, doing, seen>>

Refused(t) ==
  doing[t] \notin {"destroy", "end_run"} /\ RefusedIn(doing[t], state)

Test(t) ==
  /\ at[t] = "testing"
  /\ seen' = [seen EXCEPT ![t] = state]
  /\ Goto(t, IF Refused(t) THEN "leaving" ELSE "acting")
  /\ UNCHANGED <<dialogVars, holder, runVars, shown, doing>>

(* Handlers of "show" and "hide" are called when the window comes or goes, *)
(* before the mutex is given back.                                         *)
Display(t, visible) ==
  /\ shown' = visible
  /\ Goto(t, IF shown # visible THEN "handling" ELSE "leaving")

(* Hiding the window tells the loop of a run to quit.                      *)
Hide(t) ==
  /\ Display(t, FALSE)
  /\ phase' = IF shown /\ phase = "looping" THEN "quit" ELSE phase

Set(t) ==
  /\ at[t] = "acting" /\ doing[t] \in Setters
  /\ state' = LeftBy(doing[t], state)
  /\ Goto(t, "leaving")
  /\ UNCHANGED <<refs, owned, holder, runVars, shown, doing, seen>>

Query(t) ==
  /\ at[t] = "acting" /\ doing[t] \in Queries
  /\ Goto(t, "leaving")
  /\ UNCHANGED <<dialogVars, holder, runVars, shown, doing, seen>>

(* Mutant of Run: the run takes no reference.                              *)
RunUnprotected(t) ==
  /\ at[t] = "acting" /\ doing[t] = "run"
  /\ state' = RUNNING
  /\ phase' = "queued" /\ answer' = "none"
  /\ Display(t, TRUE)
  /\ UNCHANGED <<refs, owned, holder, ending, report, doing, seen>>

Run(t) ==
  /\ at[t] = "acting" /\ doing[t] = "run"
  /\ state' = RUNNING
  /\ refs' = refs + 1
  /\ phase' = "queued" /\ answer' = "none"
  /\ Display(t, TRUE)
  /\ UNCHANGED <<owned, holder, ending, report, doing, seen>>

Present(t) ==
  /\ at[t] = "acting" /\ doing[t] = "present"
  /\ Display(t, TRUE)
  /\ UNCHANGED <<dialogVars, holder, runVars, doing, seen>>

CancelRun(t) ==
  /\ at[t] = "acting" /\ doing[t] = "cancel_run"
  /\ Hide(t)
  /\ UNCHANGED <<dialogVars, holder, answer, ending, report, doing, seen>>

Destroy(t) ==
  /\ at[t] = "acting" /\ doing[t] = "destroy"
  /\ \/ seen[t] = RUNNING /\ Hide(t)
     \/ seen[t] # RUNNING /\ Goto(t, "leaving") /\ UNCHANGED <<shown, phase>>
  /\ UNCHANGED <<dialogVars, holder, answer, ending, report, doing, seen>>

Handled(t) ==
  /\ at[t] = "handling"
  /\ Goto(t, "leaving")
  /\ UNCHANGED <<dialogVars, holder, runVars, shown, doing, seen>>

(* A handler that calls a method waits for the mutex of its own thread.    *)
Reenter(t) ==
  /\ at[t] = "handling"
  /\ Goto(t, "stuck")
  /\ UNCHANGED <<dialogVars, holder, runVars, shown, doing, seen>>

(* What a method knew is gone with its return.                             *)
Return(t, place) ==
  /\ Goto(t, place)
  /\ doing' = [doing EXCEPT ![t] = "none"]
  /\ seen' = [seen EXCEPT ![t] = CONFIGURATION]

(* Mutant of Leave: a method that was refused returns with the mutex.      *)
LeaveLocked(t) ==
  /\ at[t] = "leaving"
  /\ holder' = IF doing[t] \in Methods /\ RefusedIn(doing[t], seen[t]) THEN holder ELSE NoThread
  /\ Return(t, IF doing[t] = "destroy" THEN "releasing" ELSE "out")
  /\ UNCHANGED <<dialogVars, runVars, shown>>

Leave(t) ==
  /\ at[t] = "leaving"
  /\ holder' = NoThread
  /\ Return(t, IF doing[t] = "destroy" THEN "releasing" ELSE "out")
  /\ UNCHANGED <<dialogVars, runVars, shown>>

(* Mutant of Release: two references are given up.                         *)
ReleaseTwice(t) ==
  /\ at[t] = "releasing"
  /\ refs' = refs - 2
  /\ Goto(t, "out")
  /\ UNCHANGED <<state, owned, holder, runVars, shown, doing, seen>>

(* The destroy signal is emitted, and the reference of the creation given  *)
(* up, without the mutex.                                                  *)
Release(t) ==
  /\ at[t] = "releasing"
  /\ refs' = refs - 1
  /\ Goto(t, "out")
  /\ UNCHANGED <<state, owned, holder, runVars, shown, doing, seen>>

-----------------------------------------------------------------------------
(* The user, and the main context                                          *)

(* The response handler goes on listening, and the latest response counts, *)
(* until the run disconnects it with the mutex.                            *)
UserAnswer(response) ==
  /\ phase # "none" /\ shown
  /\ at[Main] = "out" /\ ending = "none"
  /\ response = "delete" => Quiet \/ "use_closed" \in ThreadsMay
  /\ answer' = response
  /\ phase' = IF phase = "looping" THEN "quit" ELSE phase
  /\ UNCHANGED <<dialogVars, holder, ending, report, shown, at, doing, seen>>

StartLoop ==
  /\ phase = "queued"
  /\ at[Main] = "out" /\ ending = "none"
  /\ phase' = "looping"
  /\ UNCHANGED <<dialogVars, holder, answer, ending, report, shown, at, doing, seen>>

LeaveLoop ==
  /\ phase = "quit"
  /\ at[Main] = "out" /\ ending = "none"
  /\ Goto(Main, "entering")
  /\ doing' = [doing EXCEPT ![Main] = "end_run"]
  /\ UNCHANGED <<dialogVars, holder, runVars, shown, seen>>

(* Mutant of Verdict: every answer accepts.                                *)
VerdictYes(response) == DATA_RETRIEVAL

Verdict(response) == IF response = "accept" THEN DATA_RETRIEVAL ELSE CONFIGURATION

EndRun(t) ==
  /\ at[t] = "acting" /\ doing[t] = "end_run" /\ answer # "delete"
  /\ state' = Verdict(answer)
  /\ phase' = "none" /\ answer' = "none"
  /\ ending' = "reporting"
  /\ report' = [report EXCEPT !.answer = answer]
  /\ Display(t, FALSE)
  /\ UNCHANGED <<refs, owned, holder, doing, seen>>

(* _lfcd_destroy on behalf of the application, and the handlers of         *)
(* "destroy", with the mutex.                                              *)
EndClosedRun(t) ==
  /\ at[t] = "acting" /\ doing[t] = "end_run" /\ answer = "delete"
  /\ refs' = refs - 1
  /\ owned' = FALSE
  /\ phase' = "none" /\ answer' = "none"
  /\ ending' = "closed"
  /\ shown' = FALSE
  /\ Goto(t, "handling")
  /\ UNCHANGED <<state, holder, report, doing, seen>>

(* The state is read once more, after the mutex was given back.            *)
Report ==
  /\ ending = "reporting" /\ at[Main] = "out"
  /\ report' = [report EXCEPT !.state = state]
  /\ ending' = "emitted"
  /\ UNCHANGED <<dialogVars, holder, phase, answer, shown, at, doing, seen>>

EndReport ==
  /\ ending \in {"emitted", "closed"} /\ at[Main] = "out"
  /\ refs' = refs - 1
  /\ ending' = "none"
  /\ report' = NoReport
  /\ UNCHANGED <<state, owned, holder, phase, answer, shown, at, doing, seen>>

-----------------------------------------------------------------------------
Act(t) ==
  \/ Set(t) \/ Query(t) \/ Run(t) \/ Present(t) \/ CancelRun(t) \/ Destroy(t)
  \/ EndRun(t) \/ EndClosedRun(t)

Inside(t) ==
  \/ Lock(t) \/ Test(t) \/ Act(t) \/ Handled(t) \/ Reenter(t) \/ Leave(t) \/ Release(t)

MainContext == StartLoop \/ LeaveLoop \/ Report \/ EndReport

Next ==
  \/ \E t \in Threads :
       \/ New(t) \/ EnterDestroy(t) \/ Inside(t)
       \/ \E method \in Methods : Enter(t, method)
  \/ \E response \in {"accept", "reject", "delete"} : UserAnswer(response)
  \/ MainContext

Spec == Init /\ [][Next]_vars

-----------------------------------------------------------------------------
(* Safety                                                                  *)

(* A thread that has tested the state still finds it so when it acts, or   *)
(* it would change a dialog that is before its user, or run one twice.     *)
ActsOnWhatItTested ==
  \A t \in Threads : at[t] = "acting" => state = seen[t]

(* From the moment a run is queued to that at which it is judged its dialog*)
(* is RUNNING, whatever other threads call ("Well, should still be running *)
(* at that point!", _lfcd_run_func), and the object is there.              *)
RunKeepsRunning ==
  /\ phase # "none" => state = RUNNING /\ refs > 0
  /\ \A t \in Threads : at[t] = "acting" /\ doing[t] = "end_run" => state = RUNNING

(* The object is not disposed of, nor its mutex cleared, while a thread is *)
(* in one of its methods ("If no other method is being called, then the    *)
(* object will reach a refcount of 0 and dispose", _lfcd_run_func).        *)
NoUseAfterFree ==
  refs = 0 => ending = "none" /\ \A t \in Threads : at[t] = "out"

(* Whatever other threads do between the end of a run and its report, no   *)
(* response signal reports DATA_RETRIEVAL unless the user accepted.        *)
NoAcceptanceInvented ==
  report.state = DATA_RETRIEVAL => report.answer = "accept"

-----------------------------------------------------------------------------
(* Liveness.  Threads go on, which is all that a mutex needs to come back. *)

FairSpec == Spec /\ \A t \in Threads : WF_vars(Inside(t))

(* No method keeps the mutex, on any of its paths, so that none waits for  *)
(* it for ever, unless a handler of "show", "hide" or "destroy" has called *)
(* a method (g_mutex_unlock in each method).                               *)
MutexComesBack ==
  \A t \in Threads : holder = t ~> (holder # t \/ at[t] = "stuck")
=============================================================================
