----------------------- MODULE LocalFileChooserDialog -----------------------
(***************************************************************************)
(* lib/localfilechooserdialog.c: file chooser dialogs that live in the     *)
(* process of their caller, on one main context and one thread.            *)
(*                                                                         *)
(* A step is what that thread does between two looks at its event sources: *)
(* a call of the API (from an event of the application, or from a handler  *)
(* of the "response" signal), an event of the user, or a piece of the idle *)
(* function of a run.  That function starts a main loop of its own, so the *)
(* loops of the dialogs that run are nested: one returns when it was told  *)
(* to quit and every loop started after it has returned.                   *)
(***************************************************************************)
EXTENDS SfcdMethods, Integers, SequencesExt

CONSTANTS
  Dialogs,         \* the instances, a finite pool: a disposed one may be created again
  NoDialog,        \* no instance
  Selections,      \* what may be selected in a chooser ...
  NoSelection,     \* ... and nothing
  Options,         \* the values of the options of a chooser ...
  DefaultOptions,  \* ... and the initial one
  Widgets,         \* the widgets an application may add
  MaxExtra,        \* bound: references an application takes beside that of the creation
  ClientMay        \* what the application does (see ClientLiberties)

ClientLiberties ==
  { "destroy_running",  \* destroys a dialog while it runs
    "destroy_closed",   \* ... even though the user has just closed it
    "early_hide",       \* cancels or destroys a run whose loop has not started
    "use_destroyed",    \* keeps using a dialog that it holds after its destroy signal
    "parent" }          \* ties a dialog to a parent window, and destroys that window

ASSUME LfcdAssumption ==
  /\ NoDialog \notin Dialogs
  /\ NoSelection \in Selections
  /\ DefaultOptions \in Options
  /\ MaxExtra \in Nat
  /\ ClientMay \subseteq ClientLiberties

VARIABLES
  \* the members of LocalFileChooserDialogPrivate, and the GObject
  state,      \* state[d]: priv->state
  refs,       \* refs[d]: the reference count of the GObject, 0 when there is no object
  \* LfcdRunFuncData
  phase,      \* phase[d]: where the run of d stands (see Phases)
  answer,     \* answer[d]: response_id
  \* the main context
  idles,      \* the idle sources of runs not yet started, the oldest first
  loops,      \* the dialogs whose main loop is on the stack, the innermost last
  reporting,  \* the dialog whose "response" handlers are being called, or NoDialog
  \* the GtkFileChooserDialog
  shown,      \* the dialogs mapped on the screen
  content,    \* content[d]: selection and options
  widget,     \* widget[d]: the extra widgets set
  withParent, \* the dialogs whose destroy-with-parent is set
  \* what the application knows and holds
  owned,      \* the dialogs whose creation gave it a reference that it still holds
  extras,     \* extras[d]: the further references it took and did not give back
  heard,      \* heard[d]: the last signal of d since its creation or last run
  outcome,    \* the last call of the API: what it was for, and its error
  \* history and failure
  presented,  \* presented[d]: content[d] when it was last before the user
  fault       \* why the process is dead, or "none"

objectVars == <<state, refs>>
runVars    == <<phase, answer>>
loopVars   == <<idles, loops, reporting>>
gtkVars    == <<shown, content, widget, withParent>>
clientVars == <<owned, extras, heard, outcome>>
vars == <<objectVars, runVars, loopVars, gtkVars, clientVars, presented, fault>>

(* A run waits for its idle source, runs its loop, or was told to quit it. *)
Phases  == {"none", "queued", "looping", "quit"}
Answers == {"none", "accept", "reject", "delete"}
Signals == {"nothing", "response", "destroy"}
Faults  == {"none", "assertion", "over_unref", "dialog_lost"}
Kinds   == {"change", "query", "control"}

Contents == [selection : Selections, options : Options]
Blank    == [selection |-> NoSelection, options |-> DefaultOptions]

TypeOK ==
  /\ state \in [Dialogs -> SfcdState]
  /\ refs \in [Dialogs -> Nat]
  /\ phase \in [Dialogs -> Phases]
  /\ answer \in [Dialogs -> Answers]
  /\ idles \in Seq(Dialogs)
  /\ loops \in Seq(Dialogs)
  /\ reporting \in Dialogs \cup {NoDialog}
  /\ shown \subseteq Dialogs
  /\ content \in [Dialogs -> Contents]
  /\ widget \in [Dialogs -> SUBSET Widgets]
  /\ withParent \subseteq Dialogs
  /\ owned \subseteq Dialogs
  /\ extras \in [Dialogs -> 0..MaxExtra]
  /\ heard \in [Dialogs -> Signals]
  /\ outcome \in [kind : Kinds, error : ErrorCodes]
  /\ presented \in [Dialogs -> Contents]
  /\ fault \in Faults

Init ==
  /\ state = [d \in Dialogs |-> CONFIGURATION]
  /\ refs = [d \in Dialogs |-> 0]
  /\ phase = [d \in Dialogs |-> "none"]
  /\ answer = [d \in Dialogs |-> "none"]
  /\ idles = <<>>
  /\ loops = <<>>
  /\ reporting = NoDialog
  /\ shown = {}
  /\ content = [d \in Dialogs |-> Blank]
  /\ widget = [d \in Dialogs |-> {}]
  /\ withParent = {}
  /\ owned = {}
  /\ extras = [d \in Dialogs |-> 0]
  /\ heard = [d \in Dialogs |-> "nothing"]
  /\ outcome = [kind |-> "control", error |-> "none"]
  /\ presented = [d \in Dialogs |-> Blank]
  /\ fault = "none"

-----------------------------------------------------------------------------
(* Between two dispatches of the main context.                             *)
Iterating == fault = "none" /\ reporting = NoDialog

(* The application calls methods of d only through a reference of its own. *)
Callable(d) ==
  /\ fault = "none"
  /\ d \in owned \/ (extras[d] > 0 /\ "use_destroyed" \in ClientMay)

Return(kind, error) == outcome' = [kind |-> kind, error |-> error]

(* Mutant of Shutdown: its test is inverted.                               *)
ShutdownInverted(p) == IF p = "looping" THEN p ELSE "quit"

(* shutdown_loop: a loop that does not run yet cannot be told to quit.     *)
Shutdown(p) == IF p = "looping" THEN "quit" ELSE p

(* Mutant of HeardUnmap: a run does not listen to "unmap".                 *)
HeardUnmapDeaf(d) == UNCHANGED phase

(* gtk_widget_hide unmaps a window that is mapped, which its run hears.    *)
HeardUnmap(d) ==
  phase' = [phase EXCEPT ![d] = IF d \in shown THEN Shutdown(@) ELSE @]

(* g_object_unref, with these dialogs on the screen.  Disposal destroys    *)
(* the chooser, and the handler that a run keeps on its "destroy" signal   *)
(* aborts.                                                                 *)
Unref(d, onScreen) ==
  /\ refs' = [refs EXCEPT ![d] = @ - 1]
  /\ shown' = IF refs[d] = 1 THEN onScreen \ {d} ELSE onScreen
  /\ fault' = IF refs[d] = 1 /\ phase[d] # "none" THEN "assertion" ELSE fault

(* Mutant of Protect: a run does not take a reference.                     *)
ProtectNot(d) == UNCHANGED refs

(* "prevent destruction": a run holds a reference of its own.              *)
Protect(d) == refs' = [refs EXCEPT ![d] = @ + 1]

-----------------------------------------------------------------------------
(* Creation and references                                                 *)

New(d) ==
  /\ fault = "none"
  /\ refs[d] = 0
  /\ refs' = [refs EXCEPT ![d] = 1]
  /\ owned' = owned \cup {d}
  /\ extras' = [extras EXCEPT ![d] = 0]
  /\ state' = [state EXCEPT ![d] = CONFIGURATION]
  /\ content' = [content EXCEPT ![d] = Blank]
  /\ presented' = [presented EXCEPT ![d] = Blank]
  /\ widget' = [widget EXCEPT ![d] = {}]
  /\ withParent' = withParent \ {d}
  /\ heard' = [heard EXCEPT ![d] = "nothing"]
  /\ Return("control", "none")
  /\ UNCHANGED <<runVars, loopVars, shown, fault>>

TakeExtra(d) ==
  /\ Callable(d)
  /\ extras[d] < MaxExtra
  /\ extras' = [extras EXCEPT ![d] = @ + 1]
  /\ refs' = [refs EXCEPT ![d] = @ + 1]
  /\ UNCHANGED <<state, runVars, loopVars, gtkVars, owned, heard, outcome,
                 presented, fault>>

DropExtra(d) ==
  /\ fault = "none"
  /\ extras[d] > 0
  /\ extras' = [extras EXCEPT ![d] = @ - 1]
  /\ Unref(d, shown)
  /\ UNCHANGED <<state, runVars, loopVars, content, widget, withParent,
                 owned, heard, outcome, presented>>

MayDestroy(d) ==
  /\ Callable(d)
  /\ state[d] = RUNNING => "destroy_running" \in ClientMay
  /\ answer[d] = "delete" => "destroy_closed" \in ClientMay
  /\ phase[d] = "queued" => "early_hide" \in ClientMay

(* sfcd_destroy: interrupts a run, tells everyone and drops one reference: *)
(* that of the creation, or, after it, one that the application took.  In  *)
(* one step, although the mutex is free again when "destroy" is emitted:   *)
(* LfcdThreads has the steps.                                              *)
Destroy(d) ==
  /\ MayDestroy(d)
  /\ IF state[d] = RUNNING
     THEN HeardUnmap(d) /\ Unref(d, shown \ {d})
     ELSE UNCHANGED phase /\ Unref(d, shown)
  /\ heard' = [heard EXCEPT ![d] = "destroy"]
  /\ owned' = owned \ {d}
  /\ extras' = IF d \in owned THEN extras ELSE [extras EXCEPT ![d] = @ - 1]
  /\ Return("control", "none")
  /\ UNCHANGED <<state, answer, loopVars, content, widget, withParent, presented>>

-----------------------------------------------------------------------------
(* Methods refused by the state, and queries                               *)

Refuse(d, method, kind) ==
  /\ Callable(d)
  /\ RefusedIn(method, state[d])
  /\ Return(kind, RefusalCode(method))
  /\ UNCHANGED <<objectVars, runVars, loopVars, gtkVars, owned, extras, heard,
                 presented, fault>>

Query(d, method) ==
  /\ Callable(d)
  /\ ~RefusedIn(method, state[d])
  /\ Return("query", "none")
  /\ UNCHANGED <<objectVars, runVars, loopVars, gtkVars, owned, extras, heard,
                 presented, fault>>

-----------------------------------------------------------------------------
(* Configuration.  A setter ends DATA_RETRIEVAL whether or not the toolkit *)
(* does what it is asked.  What a chooser makes of a request (a file that  *)
(* does not exist, one file among several) is the toolkit's: a setter of   *)
(* the selection may leave any selection.                                  *)

(* Mutant of Modify: a setter does not end DATA_RETRIEVAL.                 *)
ModifyKeepsState(d, method, c) ==
  /\ content' = [content EXCEPT ![d] = c]
  /\ UNCHANGED <<objectVars, runVars, loopVars, shown, widget, withParent,
                 owned, extras, heard, presented, fault>>

Modify(d, method, c) ==
  /\ state' = [state EXCEPT ![d] = LeftBy(method, @)]
  /\ content' = [content EXCEPT ![d] = c]
  /\ UNCHANGED <<refs, runVars, loopVars, shown, widget, withParent,
                 owned, extras, heard, presented, fault>>

SetSelection(d, method, s) ==
  /\ Callable(d)
  /\ ~RefusedIn(method, state[d])
  /\ Modify(d, method, [content[d] EXCEPT !.selection = s])
  /\ Return("change", "none")

SetOption(d, method, o) ==
  /\ Callable(d)
  /\ ~RefusedIn(method, state[d])
  /\ Modify(d, method, [content[d] EXCEPT !.options = o])
  /\ Return("change", "none")

EditShortcuts(d, method, error) ==
  /\ Callable(d)
  /\ ~RefusedIn(method, state[d])
  /\ Modify(d, method, content[d])
  /\ Return("change", error)

(* These two are accepted in every state and leave it as it is.            *)
SetExtraWidget(d, ws) ==
  /\ Callable(d)
  /\ widget' = [widget EXCEPT ![d] = ws]
  /\ Return("change", "none")
  /\ UNCHANGED <<objectVars, runVars, loopVars, shown, content, withParent,
                 owned, extras, heard, presented, fault>>

SetDestroyWithParent(d, setting) ==
  /\ Callable(d)
  /\ "parent" \in ClientMay
  /\ withParent' = IF setting THEN withParent \cup {d} ELSE withParent \ {d}
  /\ Return("change", "none")
  /\ UNCHANGED <<objectVars, runVars, loopVars, shown, content, widget,
                 owned, extras, heard, presented, fault>>

(* The toolkit destroys a chooser with its parent.  Its LocalFileChooser-  *)
(* Dialog is not told, and an object without a chooser is of no use.       *)
ParentDestroyed(d) ==
  /\ fault = "none"
  /\ refs[d] > 0
  /\ d \in withParent
  /\ fault' = IF phase[d] # "none" THEN "assertion" ELSE "dialog_lost"
  /\ UNCHANGED <<objectVars, runVars, loopVars, gtkVars, clientVars, presented>>

-----------------------------------------------------------------------------
(* A run, as its caller sees it                                            *)

Run(d) ==
  /\ Callable(d)
  /\ ~RefusedIn("run", state[d])
  /\ state' = [state EXCEPT ![d] = RUNNING]
  /\ Protect(d)
  /\ phase' = [phase EXCEPT ![d] = "queued"]
  /\ answer' = [answer EXCEPT ![d] = "none"]
  /\ shown' = shown \cup {d}
  /\ idles' = Append(idles, d)
  /\ presented' = [presented EXCEPT ![d] = content[d]]
  /\ heard' = [heard EXCEPT ![d] = "nothing"]
  /\ Return("control", "none")
  /\ UNCHANGED <<loops, reporting, content, widget, withParent, owned, extras, fault>>

Present(d) ==
  /\ Callable(d)
  /\ ~RefusedIn("present", state[d])
  /\ shown' = shown \cup {d}
  /\ Return("control", "none")
  /\ UNCHANGED <<objectVars, runVars, loopVars, content, widget, withParent,
                 owned, extras, heard, presented, fault>>

CancelRun(d) ==
  /\ Callable(d)
  /\ ~RefusedIn("cancel_run", state[d])
  /\ phase[d] = "queued" => "early_hide" \in ClientMay
  /\ HeardUnmap(d)
  /\ shown' = shown \ {d}
  /\ Return("control", "none")
  /\ UNCHANGED <<objectVars, answer, loopVars, content, widget, withParent,
                 owned, extras, heard, presented, fault>>

-----------------------------------------------------------------------------
(* The user.  A chooser that no run listens to still takes input.          *)

UserEdit(d, c) ==
  /\ Iterating
  /\ d \in shown
  /\ content' = [content EXCEPT ![d] = c]
  /\ presented' = [presented EXCEPT ![d] = c]
  /\ UNCHANGED <<objectVars, runVars, loopVars, shown, widget, withParent,
                 clientVars, fault>>

(* A button of the dialog: the latest response is the one that counts.     *)
UserAnswer(d, r) ==
  /\ Iterating
  /\ d \in shown
  /\ phase[d] # "none"
  /\ answer' = [answer EXCEPT ![d] = r]
  /\ phase' = [phase EXCEPT ![d] = Shutdown(@)]
  /\ UNCHANGED <<objectVars, loopVars, gtkVars, clientVars, presented, fault>>

(* Closing the window is a response too; without a run that holds it back, *)
(* it destroys the window.                                                 *)
UserClose(d) ==
  /\ Iterating
  /\ d \in shown
  /\ \/ /\ phase[d] # "none"
        /\ answer' = [answer EXCEPT ![d] = "delete"]
        /\ phase' = [phase EXCEPT ![d] = Shutdown(@)]
        /\ UNCHANGED fault
     \/ /\ phase[d] = "none"
        /\ fault' = "dialog_lost"
        /\ UNCHANGED runVars
  /\ UNCHANGED <<objectVars, loopVars, gtkVars, clientVars, presented>>

-----------------------------------------------------------------------------
(* The idle function of a run                                              *)

StartLoop(d) ==
  /\ Iterating
  /\ idles # <<>> /\ d = Head(idles)
  /\ idles' = Tail(idles)
  /\ loops' = Append(loops, d)
  /\ phase' = [phase EXCEPT ![d] = "looping"]
  /\ UNCHANGED <<objectVars, answer, reporting, gtkVars, clientVars, presented, fault>>

(* The loop returns; the run stops listening and hides the dialog.         *)
LeaveLoop(d) ==
  /\ Iterating
  /\ loops # <<>> /\ d = Last(loops)
  /\ phase[d] = "quit"
  /\ loops' = Front(loops)
  /\ phase' = [phase EXCEPT ![d] = "none"]
  /\ answer' = [answer EXCEPT ![d] = "none"]
  /\ shown' = shown \ {d}
  /\ UNCHANGED <<idles, content, widget, withParent, extras, outcome, presented>>

(* Mutants of Verdict: a negative answer leaves the state unset, leaves it *)
(* RUNNING, or counts as a positive one.                                   *)
VerdictUnset(r) == IF r = "accept" THEN DATA_RETRIEVAL ELSE "WRONG_STATE"
VerdictKept(r)  == IF r = "accept" THEN DATA_RETRIEVAL ELSE RUNNING
VerdictYes(r)   == DATA_RETRIEVAL

Verdict(r) == IF r = "accept" THEN DATA_RETRIEVAL ELSE CONFIGURATION

EndRun(d) ==
  /\ LeaveLoop(d)
  /\ answer[d] # "delete"
  /\ fault' = IF state[d] = RUNNING THEN fault ELSE "assertion"
  /\ state' = [state EXCEPT ![d] = Verdict(answer[d])]
  /\ heard' = [heard EXCEPT ![d] = "response"]
  /\ reporting' = d
  /\ UNCHANGED <<refs, owned>>

(* A window closed by its user destroys the dialog: _lfcd_destroy gives up *)
(* the reference of the creation, whoever holds it, and the run its own.   *)
EndClosedRun(d) ==
  /\ LeaveLoop(d)
  /\ answer[d] = "delete"
  /\ heard' = [heard EXCEPT ![d] = "destroy"]
  /\ owned' = owned \ {d}
  /\ refs' = [refs EXCEPT ![d] = IF @ > 2 THEN @ - 2 ELSE 0]
  /\ fault' = IF d \in owned THEN fault ELSE "over_unref"
  /\ UNCHANGED <<state, reporting>>

(* Mutant of EndReport: a run does not give its reference up.              *)
EndReportLeaks(d) ==
  /\ fault = "none"
  /\ reporting = d
  /\ reporting' = NoDialog
  /\ UNCHANGED <<objectVars, runVars, idles, loops, gtkVars, clientVars,
                 presented, fault>>

(* Every handler of "response" has returned.                               *)
EndReport(d) ==
  /\ fault = "none"
  /\ reporting = d
  /\ reporting' = NoDialog
  /\ Unref(d, shown)
  /\ UNCHANGED <<state, runVars, idles, loops, content, widget, withParent,
                 clientVars, presented>>

Dead == fault # "none" /\ UNCHANGED vars

-----------------------------------------------------------------------------
Configure(d) ==
  \/ \E m \in SelectionSetters, s \in Selections : SetSelection(d, m, s)
  \/ \E m \in OptionSetters, o \in Options : SetOption(d, m, o)
  \/ \E m \in ShortcutSetters, e \in {"none", "TOOLKIT_CALL_FAILED"} : EditShortcuts(d, m, e)
  \/ \E ws \in {{}} \cup {{w} : w \in Widgets} : SetExtraWidget(d, ws)
  \/ \E setting \in BOOLEAN : SetDestroyWithParent(d, setting)

Ask(d) ==
  \/ \E m \in Queries : Query(d, m) \/ Refuse(d, m, "query")
  \/ \E m \in Setters : Refuse(d, m, "change")
  \/ \E m \in {"run", "present", "cancel_run"} : Refuse(d, m, "control")

Client(d) ==
  \/ New(d) \/ TakeExtra(d) \/ DropExtra(d) \/ Destroy(d)
  \/ Configure(d) \/ Ask(d)
  \/ Run(d) \/ Present(d) \/ CancelRun(d)
  \/ ParentDestroyed(d)

User(d) ==
  \/ \E c \in Contents : UserEdit(d, c)
  \/ \E r \in {"accept", "reject"} : UserAnswer(d, r)
  \/ UserClose(d)

MainLoop(d) == StartLoop(d) \/ EndRun(d) \/ EndClosedRun(d) \/ EndReport(d)

Next == Dead \/ \E d \in Dialogs : Client(d) \/ User(d) \/ MainLoop(d)

Spec == Init /\ [][Next]_vars

-----------------------------------------------------------------------------
(* Safety                                                                  *)

OwnerRef(d)  == IF d \in owned THEN 1 ELSE 0
RunRef(d)    == IF phase[d] # "none" THEN 1 ELSE 0
ReportRef(d) == IF reporting = d THEN 1 ELSE 0

(* A reference of a dialog belongs to its creator, to an application that  *)
(* took one more, to a run in progress or to a run that reports; nothing   *)
(* else keeps a dialog alive, and each of these does (the references that  *)
(* lfcd_run, _lfcd_run_func and _lfcd_destroy take and give up).           *)
RefsAccounted ==
  fault = "none" =>
    \A d \in Dialogs :
      refs[d] = OwnerRef(d) + extras[d] + RunRef(d) + ReportRef(d)

(* Nobody destroys a dialog on behalf of a run (run_destroy_handler), a    *)
(* run ends in the RUNNING state (the g_assert of _lfcd_run_func), and no  *)
(* reference is given up twice.                                            *)
NoFault == fault = "none"

(* A run in progress keeps its dialog in the RUNNING state, and alive.     *)
RunKeepsRunning ==
  fault = "none" =>
    \A d \in Dialogs : phase[d] # "none" => state[d] = RUNNING /\ refs[d] > 0

(* As long as its creator holds it, a dialog is RUNNING only for a run     *)
(* that will end, and on the screen only for a run that listens to it.     *)
RunningHasRun ==
  \A d \in Dialogs :
    d \in owned /\ (state[d] = RUNNING \/ d \in shown) => phase[d] # "none"

(* The runs that wait for their turn and those on the stack are exactly    *)
(* the runs in progress, each once.                                        *)
EachRunOnce ==
  /\ IsInjective(idles) /\ IsInjective(loops)
  /\ \A d \in Dialogs :
       /\ d \in ToSet(idles) <=> phase[d] = "queued"
       /\ d \in ToSet(loops) <=> phase[d] \in {"looping", "quit"}

(* From the moment a dialog runs until it is configured again, its content *)
(* is the one that its user last saw: the application cannot have the user *)
(* accept, or retrieve afterwards, anything else.                          *)
UserChoiceIntact ==
  \A d \in Dialogs :
    refs[d] > 0 /\ state[d] # CONFIGURATION => content[d] = presented[d]

(* A loop that nobody told to quit has its dialog on the screen, where the *)
(* user can answer it.                                                     *)
WaitsOnScreen == \A d \in Dialogs : phase[d] = "looping" => d \in shown

(* A dialog leaves the RUNNING state when, and only when, it emits its     *)
(* "response" signal.                                                      *)
ResponseLeavesRunning ==
  [][\A d \in Dialogs :
       refs[d] > 0 =>
         ((state[d] = RUNNING /\ state'[d] # RUNNING)
            <=> (heard[d] # "response" /\ heard'[d] = "response"))]_vars

-----------------------------------------------------------------------------
(* The promise of the class                                                *)

Protocol ==
  INSTANCE SfcdProtocol
    WITH mode   <- [d \in Dialogs |-> IF refs[d] = 0 THEN "absent" ELSE state[d]],
         agreed <- [d \in Dialogs |-> answer[d] = "accept"]

ImplementsProtocol == Protocol!Spec

-----------------------------------------------------------------------------
(* Liveness.  GLib dispatches every ready source of a priority in turn, a  *)
(* main loop looks at its quit flag between two iterations, and handlers   *)
(* return.  Nothing makes a user answer.                                   *)

MainLoopFairness ==
  \A d \in Dialogs :
    /\ SF_vars(StartLoop(d))
    /\ SF_vars(EndRun(d) \/ EndClosedRun(d))
    /\ WF_vars(EndReport(d))

UserAnswers ==
  \A d \in Dialogs : SF_vars(\E r \in {"accept", "reject"} : UserAnswer(d, r))

LoopSpec == Spec /\ MainLoopFairness
FairSpec == LoopSpec /\ UserAnswers

(* If users answer the dialogs on their screen, every run ends.            *)
RunsEnd ==
  \A d \in Dialogs : phase[d] # "none" ~> phase[d] = "none"

(* "the running loop will catch the unmap signal and emit a response       *)
(* signal" (sfcd_cancel_run): a run whose dialog was hidden ends, unless   *)
(* the dialog is presented again.                                          *)
HiddenRunsEnd ==
  \A d \in Dialogs :
    (phase[d] # "none" /\ d \notin shown) ~> (phase[d] = "none" \/ d \in shown)

(* A dialog whose holders have all let go of it is disposed of, even if it *)
(* was running then (the references of lfcd_run and _lfcd_run_func).       *)
Released ==
  \A d \in Dialogs :
    (refs[d] > 0 /\ d \notin owned /\ extras[d] = 0) ~> refs[d] = 0
=============================================================================
