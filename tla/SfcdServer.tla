----------------------------- MODULE SfcdServer -----------------------------
(***************************************************************************)
(* The daemon: server/sandboxfilechooserdialogdbuswrapper.c with the table *)
(* of server/sandboxutilsclientmanager.c, as the application of            *)
(* LocalFileChooserDialog.                                                 *)
(*                                                                         *)
(* One thread dispatches calls from the bus, in the order in which they    *)
(* came, from whichever main loop is innermost.  A handler is not          *)
(* interrupted: it is a chain of steps, each of at most one call of the    *)
(* library, and while job says that a handler is at work the thread does   *)
(* nothing else.  Other processes go on sending.                           *)
(***************************************************************************)
EXTENDS LocalFileChooserDialog

CONSTANTS
  Callers,   \* who calls: each has one call in flight at a time
  NoCaller,  \* nobody: a signal handler is at work
  Calls      \* the methods that are called

ASSUME ServerAssumption ==
  /\ NoCaller \notin Callers
  /\ Calls \subseteq DialogMethods \cup {"new", "destroy"}
  /\ MaxExtra >= 2
  /\ "use_destroyed" \notin ClientMay  \* callers hold no references

VARIABLES
  issued,    \* the dialogs created so far: an id is never used again
  table,     \* cli->dialogs
  connected, \* the dialogs whose "response" and "destroy" handlers are connected
  inbox,     \* the calls not yet dispatched, the oldest first
  job,       \* the handler at work, where it stands, and for whom
  replies,   \* replies[c]: the answers that c got to its last call
  said,      \* said[d]: the last signal about d on the bus
  told       \* told[d]: how many "destroy" signals about d the bus saw

busVars    == <<inbox, replies, said, told>>
tableVars  == <<issued, table, connected>>
serverVars == <<tableVars, busVars, job>>
allVars    == <<vars, serverVars>>

(* created: not in the table yet.  found: looked up.  removed: looked up   *)
(* and out of the table.  destroyed: the reference of the table is still   *)
(* to be given up.  served: that of the lookup is.                         *)
Steps == {"idle", "created", "found", "removed", "destroyed", "served"}

Call == [caller : Callers, method : Calls, dialog : Dialogs \cup {NoDialog}]

NoJob == [step |-> "idle", caller |-> NoCaller, method |-> "none", dialog |-> NoDialog]
Job(step, call, d) ==
  [step |-> step, caller |-> call.caller, method |-> call.method, dialog |-> d]

(* The types of the variables of the daemon itself.                        *)
ServerTypes ==
  /\ issued \subseteq Dialogs
  /\ table \subseteq Dialogs
  /\ connected \subseteq Dialogs
  /\ inbox \in Seq(Call)
  /\ job \in [step : Steps, caller : Callers \cup {NoCaller},
              method : Calls \cup {"none"}, dialog : Dialogs \cup {NoDialog}]
  /\ replies \in [Callers -> Nat]
  /\ said \in [Dialogs -> Signals]
  /\ told \in [Dialogs -> Nat]

ServerTypeOK == TypeOK /\ ServerTypes

ServerInit ==
  /\ Init
  /\ issued = {} /\ table = {} /\ connected = {}
  /\ inbox = <<>>
  /\ job = NoJob
  /\ replies = [c \in Callers |-> 1]
  /\ said = [d \in Dialogs |-> "nothing"]
  /\ told = [d \in Dialogs |-> 0]

-----------------------------------------------------------------------------
(* The bus                                                                 *)

(* An id may be any that was given out, or one that the daemon never gave. *)
Send(c, m, d) ==
  /\ fault = "none"
  /\ replies[c] > 0
  /\ (m = "new") <=> (d = NoDialog)
  /\ inbox' = Append(inbox, [caller |-> c, method |-> m, dialog |-> d])
  /\ replies' = [replies EXCEPT ![c] = 0]
  /\ UNCHANGED <<vars, tableVars, job, said, told>>

Answer(c) == replies' = [replies EXCEPT ![c] = @ + 1]

(* Mutant of EmitDestroy: the bus is not told.                             *)
EmitDestroyNot(d) == UNCHANGED <<said, told>>

EmitDestroy(d) ==
  /\ said' = [said EXCEPT ![d] = "destroy"]
  /\ told' = [told EXCEPT ![d] = @ + 1]

(* on_handle_response_signal, if it is connected and finds the dialog.     *)
EmitResponse(d) ==
  said' = IF d \in connected \cap table THEN [said EXCEPT ![d] = "response"] ELSE said

(* The callers' discipline, as far as ClientMay says they have one.        *)
Timely(m, d) ==
  d \in table =>
    /\ m = "destroy" => MayDestroy(d)
    /\ m = "cancel_run" /\ phase[d] = "queued" => "early_hide" \in ClientMay

(* Mutant of Dispatch: the loop of a run serves only its own dialog.       *)
DispatchOutermost(call) ==
  /\ Iterating /\ loops = <<>>
  /\ job.step = "idle"
  /\ inbox # <<>> /\ call = Head(inbox)
  /\ Timely(call.method, call.dialog)
  /\ inbox' = Tail(inbox)

Dispatch(call) ==
  /\ Iterating
  /\ job.step = "idle"
  /\ inbox # <<>> /\ call = Head(inbox)
  /\ Timely(call.method, call.dialog)
  /\ inbox' = Tail(inbox)

-----------------------------------------------------------------------------
(* on_handle_new                                                           *)

CreateDialog(call, d) ==
  /\ Dispatch(call)
  /\ call.method = "new"
  /\ d \in Dialogs \ issued
  /\ New(d)
  /\ issued' = issued \cup {d}
  /\ connected' = connected \cup {d}
  /\ job' = Job("created", call, d)
  /\ UNCHANGED <<table, replies, said, told>>

CompleteNew ==
  /\ job.step = "created"
  /\ TakeExtra(job.dialog)
  /\ table' = table \cup {job.dialog}
  /\ Answer(job.caller)
  /\ job' = NoJob
  /\ UNCHANGED <<issued, connected, inbox, said, told>>

(* lfcd_new_variant returned NULL: the call fails with SFCD_ERROR_CREATION.*)
FailNew(call) ==
  /\ Dispatch(call)
  /\ call.method = "new"
  /\ Answer(call.caller)
  /\ UNCHANGED <<vars, tableVars, job, said, told>>

-----------------------------------------------------------------------------
(* The lookups                                                             *)

RejectUnserved(call) ==
  /\ Dispatch(call)
  /\ call.method \in Unserved
  /\ Answer(call.caller)
  /\ UNCHANGED <<vars, tableVars, job, said, told>>

Lookup(call) ==
  /\ Dispatch(call)
  /\ call.method \in DialogMethods \ Unserved
  /\ call.dialog \in table
  /\ TakeExtra(call.dialog)
  /\ job' = Job("found", call, call.dialog)
  /\ UNCHANGED <<tableVars, replies, said, told>>

(* Mutant of Forget: a dialog to be destroyed is only looked up.           *)
ForgetNot(d) == UNCHANGED <<table, connected>>

Forget(d) ==
  /\ table' = table \ {d}
  /\ connected' = connected \ {d}

LookupAndRemove(call) ==
  /\ Dispatch(call)
  /\ call.method = "destroy"
  /\ call.dialog \in table
  /\ TakeExtra(call.dialog)
  /\ Forget(call.dialog)
  /\ job' = Job("removed", call, call.dialog)
  /\ UNCHANGED <<issued, replies, said, told>>

(* Mutant of NotFound: a failed lookup is not reported.                    *)
NotFoundSilent(call) ==
  /\ Dispatch(call)
  /\ call.method \notin Unserved \cup {"new"}
  /\ call.dialog \notin table
  /\ UNCHANGED <<vars, tableVars, job, replies, said, told>>

(* Both lookups leave the error to _sfcd_dbus_wrapper_lookup_finished.     *)
NotFound(call) ==
  /\ Dispatch(call)
  /\ call.method \notin Unserved \cup {"new"}
  /\ call.dialog \notin table
  /\ Answer(call.caller)
  /\ UNCHANGED <<vars, tableVars, job, said, told>>

(* The reference of the lookup is given up.                                *)
LookupFinished ==
  /\ job.step = "served"
  /\ DropExtra(job.dialog)
  /\ job' = NoJob
  /\ UNCHANGED <<tableVars, busVars>>

-----------------------------------------------------------------------------
(* The handlers of methods, between their lookup and its end               *)

PerformControl(d, m) ==
  \/ m = "run" /\ Run(d)
  \/ m = "present" /\ Present(d)
  \/ m = "cancel_run" /\ CancelRun(d)
  \/ m \in RunControls \cup {"run"} /\ Refuse(d, m, "control")

PerformWidget(d, m) ==
  /\ m = "set_extra_widget"
  /\ \E ws \in {{}} \cup {{w} : w \in Widgets} : SetExtraWidget(d, ws)

PerformUnrefused(d, m) == m \in UnrefusedQueries /\ UNCHANGED vars

PerformSelect(d, m) ==
  /\ m \in FilenameSelectors.methods \cup WholeSelectors.methods \cup UriSelectors.methods
  /\ (\E s \in Selections : SetSelection(d, m, s)) \/ Refuse(d, m, "change")

PerformName(d, m) ==
  /\ m \in NameSetters.methods \cup LocationSetters.methods
  /\ (\E s \in Selections : SetSelection(d, m, s)) \/ Refuse(d, m, "change")

PerformSetOption(d, m) ==
  /\ m \in OptionSetters
  /\ (\E o \in Options : SetOption(d, m, o)) \/ Refuse(d, m, "change")

PerformGetOption(d, m) ==
  m \in OptionGetters /\ (Query(d, m) \/ Refuse(d, m, "query"))

PerformShortcut(d, m) ==
  /\ m \in ShortcutSetters
  /\ \/ \E e \in {"none", "TOOLKIT_CALL_FAILED"} : EditShortcuts(d, m, e)
     \/ Refuse(d, m, "change")

PerformList(d, m) ==
  m \in ShortcutLists /\ (Query(d, m) \/ Refuse(d, m, "query"))

PerformRetrieval(d, m) ==
  /\ m \in Retrievals \cup FolderQueries
  /\ Query(d, m) \/ Refuse(d, m, "query")

Perform ==
  /\ job.step = "found"
  /\ \/ PerformControl(job.dialog, job.method)
     \/ PerformWidget(job.dialog, job.method)
     \/ PerformUnrefused(job.dialog, job.method)
     \/ PerformSelect(job.dialog, job.method)
     \/ PerformName(job.dialog, job.method)
     \/ PerformSetOption(job.dialog, job.method)
     \/ PerformGetOption(job.dialog, job.method)
     \/ PerformShortcut(job.dialog, job.method)
     \/ PerformList(job.dialog, job.method)
     \/ PerformRetrieval(job.dialog, job.method)
  /\ Answer(job.caller)
  /\ job' = [job EXCEPT !.step = "served"]
  /\ UNCHANGED <<tableVars, inbox, said, told>>

-----------------------------------------------------------------------------
(* on_handle_destroy, after its lookup                                     *)

PerformDestroy ==
  /\ job.step = "removed"
  /\ Destroy(job.dialog)
  /\ Answer(job.caller)
  /\ EmitDestroy(job.dialog)
  /\ job' = [job EXCEPT !.step = "destroyed"]
  /\ UNCHANGED <<tableVars, inbox>>

(* Mutant of DropTableRef: the reference of the table is forgotten.        *)
DropTableRefNot ==
  /\ job.step = "destroyed"
  /\ job' = [job EXCEPT !.step = "served"]
  /\ UNCHANGED <<vars, tableVars, busVars>>

DropTableRef ==
  /\ job.step = "destroyed"
  /\ DropExtra(job.dialog)
  /\ job' = [job EXCEPT !.step = "served"]
  /\ UNCHANGED <<tableVars, busVars>>

-----------------------------------------------------------------------------
(* The users of the dialogs, and their runs, whose signals have handlers   *)

ServerUser(d) ==
  /\ job.step = "idle"
  /\ User(d)
  /\ UNCHANGED serverVars

ServerStartLoop(d) ==
  /\ job.step = "idle"
  /\ StartLoop(d)
  /\ UNCHANGED serverVars

(* on_handle_response_signal gives up the reference of its own lookup.     *)
ServerEndRun(d) ==
  /\ job.step = "idle"
  /\ EndRun(d)
  /\ EmitResponse(d)
  /\ UNCHANGED <<tableVars, inbox, job, replies, told>>

(* on_handle_destroy_signal takes a reference and gives two up.            *)
ServerEndClosedRun(d) ==
  /\ job.step = "idle"
  /\ EndClosedRun(d)
  /\ IF d \in connected \cap table
     THEN /\ Forget(d)
          /\ EmitDestroy(d)
          /\ job' = Job("served", NoJob, d)
          /\ UNCHANGED <<issued, inbox, replies>>
     ELSE UNCHANGED serverVars

ServerEndReport(d) ==
  /\ job.step = "idle"
  /\ EndReport(d)
  /\ UNCHANGED serverVars

DaemonDead == fault # "none" /\ UNCHANGED allVars

-----------------------------------------------------------------------------
Sender == \E c \in Callers, m \in Calls, d \in Dialogs \cup {NoDialog} : Send(c, m, d)

Accept(call) ==
  \/ \E d \in Dialogs : CreateDialog(call, d)
  \/ FailNew(call) \/ RejectUnserved(call) \/ NotFound(call)
  \/ Lookup(call) \/ LookupAndRemove(call)

Dispatcher == inbox # <<>> /\ Accept(Head(inbox))

Handler == CompleteNew \/ Perform \/ PerformDestroy \/ DropTableRef \/ LookupFinished

ServerMainLoop(d) ==
  ServerStartLoop(d) \/ ServerEndRun(d) \/ ServerEndClosedRun(d) \/ ServerEndReport(d)

ServerNext ==
  \/ Sender
  \/ Dispatcher
  \/ Handler
  \/ \E d \in Dialogs : ServerUser(d) \/ ServerMainLoop(d)
  \/ DaemonDead

ServerSpec == ServerInit /\ [][ServerNext]_allVars

-----------------------------------------------------------------------------
(* Safety                                                                  *)

(* Between two handlers, the daemon holds two references of each dialog in *)
(* its table (of g_object_new and of on_handle_new) and none of any other, *)
(* on both ways in which a dialog leaves the table (on_handle_destroy and  *)
(* on_handle_destroy_signal).                                              *)
TableBalanced ==
  fault = "none" /\ job.step = "idle" =>
    \A d \in Dialogs :
      refs[d] = (IF d \in table THEN 2 ELSE 0) + RunRef(d) + ReportRef(d)

(* The bus is told of the destruction of a dialog once, when the daemon    *)
(* gives up the dialog, whether a caller or its user destroyed it          *)
(* ("Our signal handler [...] will be removed at the same time we remove   *)
(* the dialog from the hash table", on_handle_destroy).                    *)
DestroyToldOnce ==
  \A d \in issued : told[d] = IF d \in owned THEN 0 ELSE 1

Waiting(c) ==
  \/ \E call \in ToSet(inbox) : call.caller = c
  \/ job.caller = c /\ job.step \in {"created", "found", "removed"}

(* A call is answered once, by its handler or by the end of its lookup,    *)
(* whatever became of the dialog that it names: each handler calls its     *)
(* complete_ function, _sfcd_dbus_wrapper_return_error or lookup_finished. *)
EachCallAnswered ==
  \A c \in Callers :
    replies[c] = IF Waiting(c) THEN 0 ELSE 1

(* No "response" follows "destroy" on the bus, although the library emits  *)
(* it when a dialog is destroyed while it runs: on_handle_destroy          *)
(* disconnects on_handle_response_signal first.                            *)
SilentAfterDestroy ==
  [][\A d \in Dialogs : said[d] = "destroy" => said'[d] # "response"]_allVars

-----------------------------------------------------------------------------
(* What the daemon promises its callers.  A dialog is theirs from the time *)
(* on that it is in the table until the bus is told of its destruction,    *)
(* and a call is pending until its handler is through with it.             *)

DialogMode(d) ==
  IF told[d] > 0 THEN "gone"
  ELSE IF d \in owned /\ ~(job.step = "created" /\ job.dialog = d) THEN state[d]
  ELSE "unborn"

CallsAtWork ==
  { [caller |-> job.caller, method |-> job.method,
     dialog |-> IF step = "created" THEN NoDialog ELSE job.dialog] :
      step \in {job.step} \cap {"created", "found", "removed"} }

Promise ==
  INSTANCE SfcdServerSpec
    WITH mode  <- [d \in Dialogs |-> DialogMode(d)],
         asked <- ToSet(inbox) \cup CallsAtWork

ImplementsServerSpec == Promise!Spec

-----------------------------------------------------------------------------
(* Liveness.  The bus library queues a call as an idle source of the same  *)
(* priority as that of a run, and GLib dispatches both in turn; handlers   *)
(* return.                                                                 *)

ServerFairness ==
  /\ SF_allVars(Dispatcher)
  /\ WF_allVars(Handler)
  /\ SF_allVars(\E d \in Dialogs : ServerStartLoop(d))
  /\ WF_allVars(\E d \in Dialogs : ServerEndReport(d))
  /\ \A d \in Dialogs : SF_allVars(ServerEndRun(d) \/ ServerEndClosedRun(d))

ServerUsersAnswer ==
  \A d \in Dialogs :
    SF_allVars(job.step = "idle" /\ (\E r \in {"accept", "reject"} : UserAnswer(d, r))
                 /\ UNCHANGED serverVars)

ServerFairSpec == ServerSpec /\ ServerFairness

(* Every call comes to its end while the daemon lives, whatever loops are  *)
(* on the stack and whether or not users answer: the loop of a run serves  *)
(* the bus as the one below it did (g_main_loop_run in _lfcd_run_func).    *)
CallsComplete ==
  \A c \in Callers : Waiting(c) ~> (~Waiting(c) \/ fault # "none")

(* If users answer, a dialog whose destruction the bus was told of is      *)
(* disposed of, also when it was running under the loops of others         *)
(* (on_handle_destroy, on_handle_destroy_signal).                          *)
DestroyedAreDisposed ==
  ServerUsersAnswer =>
    \A d \in Dialogs : told[d] > 0 ~> (refs[d] = 0 \/ fault # "none")
=============================================================================
