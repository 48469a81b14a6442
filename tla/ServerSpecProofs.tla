-------------------------- MODULE ServerSpecProofs --------------------------
(***************************************************************************)
(* The daemon keeps its promise: SfcdServer implements SfcdServerSpec, on  *)
(* which RemoteFileChooserDialog is built, for any number of dialogs and   *)
(* callers.                                                                *)
(***************************************************************************)
EXTENDS ServerProofs

(* What the refinement needs beside SInv: a call names a dialog unless it  *)
(* is for a new one, and the handler at work is one for its method.        *)
Tidy ==
  /\ \A x \in ToSet(inbox) : (x.method = "new") <=> (x.dialog = NoDialog)
  /\ job.step = "created" => job.method = "new" /\ state[job.dialog] = CONFIGURATION
  /\ job.step = "found" => job.method \in DialogMethods \ Unserved
  /\ job.step = "removed" => job.method = "destroy"

(* The refinement mapping of Promise.                                      *)
ModeOfAll == [d \in Dialogs |-> DialogMode(d)]
Pending   == ToSet(inbox) \cup CallsAtWork

AtWork ==
  [caller |-> job.caller, method |-> job.method,
   dialog |-> IF job.step = "created" THEN NoDialog ELSE job.dialog]

(* What a method makes of a state.                                         *)
StateAfter(method, s) == IF RefusedIn(method, s) THEN s ELSE LeftBy(method, s)

-----------------------------------------------------------------------------
(* Both modules speak the language of SfcdMethods: they have the same      *)
(* states, the same forms of methods, ...                                  *)
LEMMA PromiseStates ==
  /\ Promise!CONFIGURATION = CONFIGURATION /\ Promise!RUNNING = RUNNING
  /\ Promise!DATA_RETRIEVAL = DATA_RETRIEVAL
  /\ Promise!SfcdState = SfcdState
BY DEF Promise!CONFIGURATION, Promise!RUNNING, Promise!DATA_RETRIEVAL, Promise!SfcdState,
       CONFIGURATION, RUNNING, DATA_RETRIEVAL, SfcdState

LEMMA PromiseForms ==
  /\ \A ms : Promise!Setter(ms) = Setter(ms)
  /\ \A ms : Promise!Getter(ms) = Getter(ms)
  /\ \A ms : Promise!Listing(ms) = Listing(ms)
  /\ \A ms : Promise!Retrieval(ms) = Retrieval(ms)
  /\ \A ms : Promise!Unrefused(ms) = Unrefused(ms)
  /\ \A m, n : Promise!Option(m, n) = Option(m, n)
  /\ Promise!RunMethod = RunMethod /\ Promise!RunControl = RunControl
<1>1. Promise!Keeps = Keeps  BY PromiseStates DEF Promise!Keeps, Keeps
<1>2. \A t : Promise!Becomes(t) = Becomes(t)  BY PromiseStates DEF Promise!Becomes, Becomes
<1>3. \A ms : Promise!Setter(ms) = Setter(ms)
  BY <1>2, PromiseStates DEF Promise!Setter, Setter
<1>4. \A ms : Promise!Getter(ms) = Getter(ms)
  BY <1>1, PromiseStates DEF Promise!Getter, Getter
<1>5. \A ms : Promise!Listing(ms) = Listing(ms)
  BY <1>1, PromiseStates DEF Promise!Listing, Listing
<1>6. \A ms : Promise!Retrieval(ms) = Retrieval(ms)
  BY <1>1, PromiseStates DEF Promise!Retrieval, Retrieval
<1>7. \A ms : Promise!Unrefused(ms) = Unrefused(ms)
  BY <1>1 DEF Promise!Unrefused, Unrefused
<1>8. \A m, n : Promise!Option(m, n) = Option(m, n)
  BY <1>3, <1>4 DEF Promise!Option, Option
<1>9. Promise!RunMethod = RunMethod /\ Promise!RunControl = RunControl
  BY <1>1, <1>2, PromiseStates
  DEF Promise!RunMethod, RunMethod, Promise!RunControl, RunControl
<1>10. QED  BY <1>3, <1>4, <1>5, <1>6, <1>7, <1>8, <1>9

(* ... the same groups of methods for the selection, ...                   *)
LEMMA PromiseSelection ==
  /\ Promise!FilenameSelectors = FilenameSelectors
  /\ Promise!WholeSelectors = WholeSelectors /\ Promise!UriSelectors = UriSelectors
  /\ Promise!NameSetters = NameSetters /\ Promise!LocationSetters = LocationSetters
BY PromiseForms
DEF Promise!FilenameSelectors, FilenameSelectors, Promise!WholeSelectors, WholeSelectors,
    Promise!UriSelectors, UriSelectors, Promise!NameSetters, NameSetters,
    Promise!LocationSetters, LocationSetters

(* ... the options, ...                                                    *)
LEMMA PromiseOptions ==
  /\ Promise!ActionOption = ActionOption /\ Promise!LocalOnlyOption = LocalOnlyOption
  /\ Promise!SelectMultipleOption = SelectMultipleOption
  /\ Promise!ShowHiddenOption = ShowHiddenOption
  /\ Promise!OverwriteOption = OverwriteOption
  /\ Promise!CreateFoldersOption = CreateFoldersOption
BY PromiseForms
DEF Promise!ActionOption, ActionOption, Promise!LocalOnlyOption, LocalOnlyOption,
    Promise!SelectMultipleOption, SelectMultipleOption, Promise!ShowHiddenOption,
    ShowHiddenOption, Promise!OverwriteOption, OverwriteOption,
    Promise!CreateFoldersOption, CreateFoldersOption

(* ... the shortcuts, ...                                                  *)
LEMMA PromiseShortcuts ==
  /\ Promise!ShortcutEditors = ShortcutEditors /\ Promise!ShortcutList = ShortcutList
  /\ Promise!ShortcutUriEditors = ShortcutUriEditors
  /\ Promise!ShortcutUriList = ShortcutUriList
BY PromiseForms
DEF Promise!ShortcutEditors, ShortcutEditors, Promise!ShortcutList, ShortcutList,
    Promise!ShortcutUriEditors, ShortcutUriEditors, Promise!ShortcutUriList, ShortcutUriList

(* ... the results, and the rest.                                          *)
LEMMA PromiseQueries ==
  /\ Promise!FilenameRetrievals = FilenameRetrievals /\ Promise!FolderQuery = FolderQuery
  /\ Promise!UriRetrievals = UriRetrievals /\ Promise!FolderUriQuery = FolderUriQuery
  /\ Promise!StateQuery = StateQuery
  /\ Promise!WidgetSetter = WidgetSetter /\ Promise!WidgetQuery = WidgetQuery
BY PromiseForms
DEF Promise!FilenameRetrievals, FilenameRetrievals, Promise!FolderQuery, FolderQuery,
    Promise!UriRetrievals, UriRetrievals, Promise!FolderUriQuery, FolderUriQuery,
    Promise!StateQuery, StateQuery, Promise!WidgetSetter, WidgetSetter,
    Promise!WidgetQuery, WidgetQuery

LEMMA PromiseMethods ==
  /\ Promise!Setters = Setters
  /\ Promise!DialogMethods = DialogMethods
  /\ Promise!Unserved = Unserved
  /\ \A m, s : Promise!RefusedIn(m, s) <=> RefusedIn(m, s)
  /\ \A m, s : Promise!After(m, s) = StateAfter(m, s)
<1> USE PromiseForms, PromiseSelection, PromiseOptions, PromiseShortcuts, PromiseQueries
<1>1. Promise!Setters = Setters
  <2>1. Promise!SelectionSetters = SelectionSetters
    BY DEF Promise!SelectionSetters, SelectionSetters
  <2>2. Promise!OptionSetters = OptionSetters
    BY DEF Promise!OptionSetters, OptionSetters
  <2>3. Promise!ShortcutSetters = ShortcutSetters
    BY DEF Promise!ShortcutSetters, ShortcutSetters
  <2>4. QED  BY <2>1, <2>2, <2>3 DEF Promise!Setters, Setters
<1>2. Promise!Queries = Queries
  <2>1. Promise!OptionGetters = OptionGetters
    BY DEF Promise!OptionGetters, OptionGetters
  <2>2. /\ Promise!ShortcutLists = ShortcutLists /\ Promise!FolderQueries = FolderQueries
        /\ Promise!Retrievals = Retrievals
    BY DEF Promise!ShortcutLists, ShortcutLists, Promise!FolderQueries, FolderQueries,
           Promise!Retrievals, Retrievals
  <2>3. QED  BY <2>1, <2>2 DEF Promise!Queries, Queries
<1>3. Promise!RunControls = RunControls  BY DEF Promise!RunControls, RunControls
<1>4. Promise!UnrefusedQueries = UnrefusedQueries
  BY DEF Promise!UnrefusedQueries, UnrefusedQueries
<1>5. Promise!DialogMethods = DialogMethods
  BY <1>1, <1>2, <1>3, <1>4 DEF Promise!DialogMethods, DialogMethods
<1>6. Promise!Groups = Groups  BY DEF Promise!Groups, Groups
<1>7. \A m, s : Promise!RefusedIn(m, s) <=> RefusedIn(m, s)
  BY <1>6 DEF Promise!RefusedIn, RefusedIn
<1>8. \A m : Promise!GroupOf(m) = GroupOf(m)  BY <1>6 DEF Promise!GroupOf, GroupOf
<1>9. \A m, s : Promise!After(m, s) = StateAfter(m, s)
  BY <1>7, <1>8 DEF Promise!After, StateAfter, Promise!LeftBy, LeftBy
<1>10. Promise!Unserved = Unserved  BY DEF Promise!Unserved, Unserved
<1>11. QED  BY <1>1, <1>5, <1>7, <1>9, <1>10

(* Only setters and sfcd_run change the state of a dialog.                 *)
LEMMA OthersKeepState ==
  ASSUME NEW m \in RunControls \cup Queries \cup UnrefusedQueries \cup {"set_extra_widget"},
         NEW s \in SfcdState
  PROVE  StateAfter(m, s) = s
BY OthersKeep DEF StateAfter

(* Each handler does to the state of its dialog what its method should.    *)
LEMMA PerformState ==
  ASSUME TypeOK, job.dialog \in Dialogs, Perform
  PROVE  state' = [state EXCEPT ![job.dialog] = StateAfter(job.method, state[job.dialog])]
<1> DEFINE d == job.dialog
           m == job.method
           Goal == state' = [state EXCEPT ![d] = StateAfter(m, state[d])]
<1>0. state[d] \in SfcdState  BY DEF TypeOK
<1>1. ASSUME state' = state, StateAfter(m, state[d]) = state[d] PROVE Goal
  BY <1>1 DEF TypeOK
<1>2. ASSUME NEW k, Refuse(d, m, k) PROVE Goal
  BY <1>1, <1>2 DEF Refuse, StateAfter, objectVars
<1>3. ASSUME state' = state,
             m \in RunControls \cup Queries \cup UnrefusedQueries \cup {"set_extra_widget"}
      PROVE  Goal
  BY <1>0, <1>1, <1>3, OthersKeepState
<1>4. ASSUME NEW c, Modify(d, m, c), ~RefusedIn(m, state[d]) PROVE Goal
  BY <1>4 DEF Modify, StateAfter
<1>5. CASE PerformControl(d, m)
  <2>1. CASE m = "run" /\ Run(d)
    BY <2>1, RunRuns DEF Run, StateAfter, TypeOK
  <2>2. CASE (m = "present" /\ Present(d)) \/ (m = "cancel_run" /\ CancelRun(d))
    BY <1>3, <2>2 DEF Present, CancelRun, RunControls, RunControl, objectVars
  <2>3. QED  BY <1>2, <1>5, <2>1, <2>2 DEF PerformControl
<1>6. CASE PerformWidget(d, m) \/ PerformUnrefused(d, m)
  BY <1>3, <1>6
  DEF PerformWidget, PerformUnrefused, SetExtraWidget, vars, objectVars
<1>7. CASE PerformSelect(d, m) \/ PerformName(d, m)
  BY <1>2, <1>4, <1>7
  DEF PerformSelect, PerformName, SetSelection, Setters, SelectionSetters
<1>8. CASE PerformSetOption(d, m) \/ PerformShortcut(d, m)
  BY <1>2, <1>4, <1>8 DEF PerformSetOption, PerformShortcut, SetOption, EditShortcuts, Setters
<1>9. CASE PerformGetOption(d, m) \/ PerformList(d, m) \/ PerformRetrieval(d, m)
  BY <1>2, <1>3, <1>9
  DEF PerformGetOption, PerformList, PerformRetrieval, Query, Queries, objectVars
<1>10. QED  BY <1>5, <1>6, <1>7, <1>8, <1>9 DEF Perform

-----------------------------------------------------------------------------
(* Tidy is invariant.                                                      *)
LEMMA TidyStep ==
  ASSUME SInv, Tidy, [ServerNext]_allVars
  PROVE  Tidy'
<1> USE DEF serverVars, tableVars, busVars, vars, objectVars
<1>0. ServerTypes /\ JobShape /\ CallsInv /\ TypeOK  BY DEF SInv, IInv
<1>1. ASSUME NEW c \in Callers, NEW m \in Calls, NEW d \in Dialogs \cup {NoDialog}, Send(c, m, d)
      PROVE  Tidy'
  <2> DEFINE call == [caller |-> c, method |-> m, dialog |-> d]
  <2>1. call \in Call /\ inbox \in Seq(Call)  BY <1>0 DEF Call, ServerTypes
  <2>2. ~Waiting(c)  BY <1>0, <1>1 DEF CallsInv, EachCallAnswered, Send
  <2>3. call \notin ToSet(inbox)  BY <2>2 DEF Waiting
  <2>4. ToSet(inbox') = ToSet(inbox) \cup {call}
    BY <1>0, <1>1, <2>1, <2>3, Appended DEF Send, CallsInv, OneCall
  <2>5. (call.method = "new") <=> (call.dialog = NoDialog)  BY <1>1 DEF Send
  <2>6. UNCHANGED <<job, state>>  BY <1>1 DEF Send
  <2>7. QED  BY <2>4, <2>5, <2>6 DEF Tidy
<1>2. CASE Dispatcher
  <2> DEFINE call == Head(inbox)
  <2>1. inbox # <<>> /\ Accept(call)  BY <1>2 DEF Dispatcher
  <2>2. inbox' = Tail(inbox) /\ job.step = "idle"
    BY <2>1 DEF Accept, CreateDialog, FailNew, RejectUnserved, NotFound, Lookup,
                LookupAndRemove, Dispatch
  <2>3. ToSet(inbox') \subseteq ToSet(inbox)
    BY <1>0, <2>1, <2>2, CallTaken
  <2>4. \A x \in ToSet(inbox') : (x.method = "new") <=> (x.dialog = NoDialog)
    BY <2>3 DEF Tidy
  <2>5. ASSUME NEW d \in Dialogs, CreateDialog(call, d) PROVE Tidy'
    <3>1. job' = Job("created", call, d) /\ call.method = "new"
      BY <2>5 DEF CreateDialog
    <3>2. state'[d] = CONFIGURATION  BY <1>0, <2>5 DEF CreateDialog, New, TypeOK
    <3>3. QED  BY <2>4, <3>1, <3>2 DEF Tidy, Job
  <2>6. CASE FailNew(call) \/ RejectUnserved(call) \/ NotFound(call)
    BY <2>2, <2>4, <2>6 DEF FailNew, RejectUnserved, NotFound, Tidy
  <2>7. CASE Lookup(call) \/ LookupAndRemove(call)
    BY <2>4, <2>7 DEF Lookup, LookupAndRemove, Tidy, Job
  <2>8. QED  BY <2>1, <2>5, <2>6, <2>7 DEF Accept
<1>3. CASE Handler
  <2>1. inbox' = inbox
    BY <1>3 DEF Handler, CompleteNew, Perform, PerformDestroy, DropTableRef, LookupFinished
  <2>2. job'.step \in {"idle", "destroyed", "served"}
    BY <1>0, <1>3 DEF Handler, CompleteNew, Perform, PerformDestroy, DropTableRef,
                      LookupFinished, NoJob, ServerTypes
  <2>3. QED  BY <2>1, <2>2 DEF Tidy
<1>4. ASSUME NEW d \in Dialogs, ServerUser(d) \/ ServerMainLoop(d) PROVE Tidy'
  <2>1. inbox' = inbox
    BY <1>4 DEF ServerUser, ServerMainLoop, ServerStartLoop, ServerEndRun, ServerEndClosedRun,
                ServerEndReport
  <2>2. job'.step \in {"idle", "served"}
    BY <1>4 DEF ServerUser, ServerMainLoop, ServerStartLoop, ServerEndRun, ServerEndClosedRun,
                ServerEndReport, Job
  <2>3. QED  BY <2>1, <2>2 DEF Tidy
<1>5. CASE DaemonDead \/ UNCHANGED allVars
  BY <1>5 DEF DaemonDead, allVars, Tidy
<1>6. QED  BY <1>1, <1>2, <1>3, <1>4, <1>5 DEF ServerNext, Sender

-----------------------------------------------------------------------------
(* The refinement mapping, in terms of what SInv speaks of: the dialogs    *)
(* that the daemon offers are those in its table, and that of the handler  *)
(* which is about to destroy it.                                           *)
Offered == owned \ OutOfTable({"created"})

LEMMA ModeIs ==
  ASSUME SInv, NEW d \in Dialogs
  PROVE  /\ d \in Offered => ModeOfAll[d] = state[d] /\ state[d] \in SfcdState
         /\ d \notin Offered => ModeOfAll[d] \in {"unborn", "gone"}
         /\ d \in issued \ owned => ModeOfAll[d] = "gone"
         /\ d \notin issued => ModeOfAll[d] = "unborn"
         /\ d \in owned \ Offered => ModeOfAll[d] = "unborn"
<1>1. state[d] \in SfcdState  BY DEF SInv, IInv, TypeOK
<1>2. /\ d \in owned => told[d] = 0
      /\ d \in issued \ owned => told[d] = 1
      /\ d \notin issued => told[d] = 0 /\ d \notin owned
  BY DEF SInv, Heard, DestroyToldOnce
<1>3. ModeOfAll[d] = DialogMode(d)  BY DEF ModeOfAll
<1>4. d \in Offered <=> d \in owned /\ ~(job.step = "created" /\ job.dialog = d)
  BY DEF Offered, OutOfTable
<1>5. QED  BY <1>1, <1>2, <1>3, <1>4 DEF DialogMode

(* Between two handlers and while a method is served these are the dialogs *)
(* in the table, and no other is ever looked up.                           *)
LEMMA TableIsOffered ==
  ASSUME SInv
  PROVE  /\ table \subseteq Offered
         /\ job.step = "idle" => Offered = table
         /\ job.step = "removed" => job.dialog \in Offered
<1>1. Holdings  BY DEF SInv
<1>2. QED  BY <1>1 DEF Holdings, Offered, OutOfTable

(* The states of the Modes that a caller can be served in.                 *)
LEMMA ModeNames ==
  /\ "unborn" \notin SfcdState /\ "gone" \notin SfcdState
  /\ "unborn" \notin Promise!SfcdState /\ "gone" \notin Promise!SfcdState
BY DEF SfcdState, Promise!SfcdState, CONFIGURATION, RUNNING, DATA_RETRIEVAL,
       Promise!CONFIGURATION, Promise!RUNNING, Promise!DATA_RETRIEVAL

(* A step that touches neither a dialog nor what was said of it.           *)
LEMMA ModesKept ==
  ASSUME \A d \in Dialogs : DialogMode(d)' = DialogMode(d)
  PROVE  ModeOfAll' = ModeOfAll
BY DEF ModeOfAll

(* A step that concerns one dialog.                                        *)
LEMMA ModeBecame ==
  ASSUME NEW d \in Dialogs, NEW x, DialogMode(d)' = x,
         \A e \in Dialogs \ {d} : DialogMode(e)' = DialogMode(e)
  PROVE  ModeOfAll' = [ModeOfAll EXCEPT ![d] = x]
BY DEF ModeOfAll

(* The call of a handler is pending until it is answered.                  *)
LEMMA PendingIs ==
  /\ Working => Pending = ToSet(inbox) \cup {AtWork}
  /\ ~Working => Pending = ToSet(inbox)
BY DEF Pending, CallsAtWork, AtWork, Working

LEMMA PendingIsNext ==
  /\ Working' => Pending' = ToSet(inbox') \cup {AtWork'}
  /\ ~Working' => Pending' = ToSet(inbox')
BY DEF Pending, CallsAtWork, AtWork, Working

(* An answered call is pending no longer.                                  *)
LEMMA AnsweredByHandler ==
  ASSUME SInv, Working, inbox' = inbox, job'.step \in {"idle", "destroyed", "served"}
  PROVE  AtWork \in Pending /\ Pending' = Pending \ {AtWork}
<1>1. AtWork \notin ToSet(inbox)
  BY DEF SInv, CallsInv, OneCall, AtWork
<1>2. ~Working'  BY DEF Working
<1>3. QED  BY <1>1, <1>2, PendingIs, PendingIsNext

LEMMA AnsweredAtOnce ==
  ASSUME SInv, inbox # <<>>, inbox' = Tail(inbox), job.step = "idle", job' = job
  PROVE  Head(inbox) \in Pending /\ Pending' = Pending \ {Head(inbox)}
<1>1. Head(inbox) \in ToSet(inbox) /\ ToSet(inbox') = ToSet(inbox) \ {Head(inbox)}
  BY CallTaken DEF SInv
<1>2. ~Working /\ ~Working'  BY DEF Working
<1>3. QED  BY <1>1, <1>2, PendingIs, PendingIsNext

(* A call that passes to a handler stays pending.                          *)
LEMMA PassedOn ==
  ASSUME SInv, inbox # <<>>, inbox' = Tail(inbox), job.step = "idle",
         job'.step \in {"created", "found", "removed"}, AtWork' = Head(inbox)
  PROVE  Pending' = Pending
<1>1. Head(inbox) \in ToSet(inbox) /\ ToSet(inbox') = ToSet(inbox) \ {Head(inbox)}
  BY CallTaken DEF SInv
<1>2. ~Working /\ Working'  BY DEF Working
<1>3. QED  BY <1>1, <1>2, PendingIs, PendingIsNext

(* The call at the head of the queue, field by field.                      *)
LEMMA HeadFields ==
  ASSUME SInv, inbox # <<>>, NEW m, NEW d,
         Head(inbox).method = m, Head(inbox).dialog = d
  PROVE  Head(inbox) = [caller |-> Head(inbox).caller, method |-> m, dialog |-> d]
<1>1. Head(inbox) \in Call  BY HeadCall DEF SInv
<1>2. QED  BY <1>1 DEF Call

-----------------------------------------------------------------------------
(* Each step of the daemon is one that SfcdServerSpec allows, or is not    *)
(* seen by the callers.                                                    *)

(* A call is sent: its caller has no other one pending.                    *)
LEMMA SendMaps ==
  ASSUME SInv, NEW c \in Callers, NEW m \in Calls, NEW d \in Dialogs \cup {NoDialog},
         Send(c, m, d)
  PROVE  Promise!Next
<1> DEFINE call == [caller |-> c, method |-> m, dialog |-> d]
<1> USE DEF tableVars, vars, objectVars, clientVars
<1>0. ServerTypes /\ JobShape /\ CallsInv  BY DEF SInv
<1>1. call \in Call /\ inbox \in Seq(Call)  BY <1>0 DEF Call, ServerTypes
<1>2. ~Waiting(c)  BY <1>0 DEF CallsInv, EachCallAnswered, Send
<1>3. call \notin ToSet(inbox)  BY <1>2 DEF Waiting
<1>4. ToSet(inbox') = ToSet(inbox) \cup {call}
  BY <1>0, <1>1, <1>3, Appended DEF Send, CallsInv, OneCall
<1>5. job' = job /\ said' = said /\ told' = told /\ owned' = owned /\ state' = state
  BY DEF Send
<1>6. Pending' = Pending \cup {call}  BY <1>4, <1>5 DEF Pending, CallsAtWork
<1>7. \A other \in Pending : other.caller # c
  BY <1>2, PendingIs DEF Waiting, AtWork, Working
<1>8. ModeOfAll' = ModeOfAll  BY <1>5, ModesKept DEF DialogMode
<1>9. (call.method = "new") <=> (call.dialog = NoDialog)  BY DEF Send
<1>10. Promise!Ask(call)
  BY <1>5, <1>6, <1>7, <1>8, <1>9 DEF Promise!Ask, Pending, ModeOfAll
<1>11. call \in Promise!Call  BY DEF Promise!Call
<1>12. QED  BY <1>10, <1>11 DEF Promise!Next

(* A call is dispatched: its handler goes to work unseen, or there is none.*)
LEMMA DispatchMaps ==
  ASSUME SInv, Tidy, Dispatcher
  PROVE  Promise!Next \/ UNCHANGED Promise!vars
<1> DEFINE call == Head(inbox)
<1> USE DEF tableVars, vars, objectVars, clientVars
<1>0. ServerTypes /\ JobShape /\ CallsInv /\ Heard /\ Holdings /\ TypeOK
  BY DEF SInv, IInv
<1>1. inbox # <<>> /\ Accept(call)  BY DEF Dispatcher
<1>2. inbox' = Tail(inbox) /\ job.step = "idle"
  BY <1>1 DEF Accept, CreateDialog, FailNew, RejectUnserved, NotFound, Lookup,
              LookupAndRemove, Dispatch
<1>3. call \in Call /\ call \in ToSet(inbox)  BY <1>0, <1>1, <1>2, HeadCall, CallTaken
<1>4. (call.method = "new") <=> (call.dialog = NoDialog)  BY <1>3 DEF Tidy
<1>5. ASSUME NEW d \in Dialogs, CreateDialog(call, d) PROVE UNCHANGED Promise!vars
  <2>1. /\ job' = Job("created", call, d) /\ d \notin issued /\ call.method = "new"
        /\ owned' = owned \cup {d} /\ state' = [state EXCEPT ![d] = CONFIGURATION]
        /\ told' = told /\ said' = said
    BY <1>5 DEF CreateDialog, New
  <2>2. AtWork' = call
    BY <1>1, <1>4, <2>1, HeadFields DEF AtWork, Job
  <2>3. Pending' = Pending  BY <1>1, <1>2, <2>1, <2>2, PassedOn DEF Job
  <2>4. d \notin owned /\ told[d] = 0  BY <1>0, <2>1 DEF Heard
  <2>5. \A e \in Dialogs : DialogMode(e)' = DialogMode(e)
    BY <1>0, <1>2, <2>1, <2>4 DEF DialogMode, Job, TypeOK
  <2>6. ModeOfAll' = ModeOfAll  BY <2>5, ModesKept
  <2>7. QED  BY <2>1, <2>3, <2>6 DEF Promise!vars, Pending, ModeOfAll
<1>6. ASSUME FailNew(call) \/ RejectUnserved(call) \/ NotFound(call) PROVE Promise!Next
  <2>1. job' = job /\ said' = said /\ told' = told /\ owned' = owned /\ state' = state
    BY <1>6 DEF FailNew, RejectUnserved, NotFound
  <2>2. ModeOfAll' = ModeOfAll  BY <2>1, ModesKept DEF DialogMode
  <2>3. call \in Pending /\ Pending' = Pending \ {call}
    BY <1>1, <1>2, <2>1, AnsweredAtOnce
  <2>4. ASSUME NotFound(call)
        PROVE  call.dialog \in Dialogs /\ ModeOfAll[call.dialog] \notin Promise!SfcdState
    <3>1. call.dialog \in Dialogs \ table
      BY <1>3, <1>4, <2>4 DEF NotFound, Call
    <3>2. call.dialog \notin Offered  BY <1>2, <3>1, TableIsOffered
    <3>3. QED  BY <3>1, <3>2, ModeIs, ModeNames
  <2>5. \/ call.method \in Promise!Unserved \cup {"new"}
        \/ call.dialog \in Dialogs /\ ModeOfAll[call.dialog] \notin Promise!SfcdState
    BY <1>6, <2>4, PromiseMethods DEF FailNew, RejectUnserved
  <2>6. Promise!Fail(call)
    BY <2>1, <2>2, <2>3, <2>5 DEF Promise!Fail, Pending, ModeOfAll
  <2>7. QED  BY <2>3, <2>6 DEF Promise!Next, Promise!Serve, Pending
<1>7. ASSUME Lookup(call) \/ LookupAndRemove(call) PROVE UNCHANGED Promise!vars
  <2>1. PICK step \in {"found", "removed"} : job' = Job(step, call, call.dialog)
    BY <1>7 DEF Lookup, LookupAndRemove
  <2>2. said' = said /\ told' = told /\ owned' = owned /\ state' = state
    BY <1>7 DEF Lookup, LookupAndRemove, TakeExtra
  <2>3. AtWork' = call
    BY <1>1, <2>1, HeadFields DEF AtWork, Job
  <2>4. Pending' = Pending  BY <1>1, <1>2, <2>1, <2>3, PassedOn DEF Job
  <2>5. ModeOfAll' = ModeOfAll  BY <1>2, <2>1, <2>2, ModesKept DEF DialogMode, Job
  <2>6. QED  BY <2>2, <2>4, <2>5 DEF Promise!vars, Pending, ModeOfAll
<1>8. QED  BY <1>1, <1>5, <1>6, <1>7 DEF Accept

(* A handler works: it creates, performs or destroys at once, for the call *)
(* that it answers; what it does afterwards is not seen.                   *)
LEMMA HandlerMaps ==
  ASSUME SInv, Tidy, Handler
  PROVE  Promise!Next \/ UNCHANGED Promise!vars
<1> USE DEF tableVars, busVars, clientVars, objectVars
<1>0. ServerTypes /\ JobShape /\ Heard /\ Holdings /\ TypeOK
  BY DEF SInv, IInv
<1>d. PICK d \in Dialogs : d = job.dialog
  BY <1>0 DEF JobShape, Handler, CompleteNew, Perform, PerformDestroy, DropTableRef,
              LookupFinished
<1>1. CASE CompleteNew
  <2>1. /\ job.step = "created" /\ job' = NoJob
        /\ owned' = owned /\ state' = state /\ told' = told /\ said' = said /\ inbox' = inbox
    BY <1>1 DEF CompleteNew, TakeExtra
  <2>2. job'.step = "idle"  BY <2>1 DEF NoJob
  <2>3. d \in Dialogs /\ d \in owned \ Offered
    BY <1>d, <1>0, <2>1 DEF JobShape, Holdings, OutOfTable, Offered
  <2>4. AtWork.method = "new" /\ state[d] = CONFIGURATION
    BY <1>d, <2>1 DEF Tidy, AtWork
  <2>5. ModeOfAll[d] = "unborn"  BY <2>3, ModeIs
  <2>6. told[d] = 0  BY <1>0, <2>3 DEF Heard, DestroyToldOnce
  <2>7. ModeOfAll' = [ModeOfAll EXCEPT ![d] = CONFIGURATION]
    <3>1. DialogMode(d)' = CONFIGURATION
      BY <2>1, <2>2, <2>3, <2>4, <2>6 DEF DialogMode
    <3>2. \A e \in Dialogs \ {d} : DialogMode(e)' = DialogMode(e)
      BY <1>d, <2>1, <2>2 DEF DialogMode
    <3>3. QED  BY <2>3, <3>1, <3>2, ModeBecame
  <2>8. AtWork \in Pending /\ Pending' = Pending \ {AtWork}
    BY <2>1, <2>2, AnsweredByHandler DEF Working
  <2>9. Promise!Create(AtWork, d)
    BY <2>1, <2>4, <2>5, <2>7, <2>8, PromiseStates DEF Promise!Create, Pending, ModeOfAll
  <2>10. QED  BY <2>3, <2>8, <2>9 DEF Promise!Next, Promise!Serve, Pending
<1>2. CASE Perform
  <2>1. /\ job.step = "found" /\ job' = [job EXCEPT !.step = "served"]
        /\ told' = told /\ said' = said /\ inbox' = inbox
    BY <1>2 DEF Perform
  <2>2. owned' = owned  BY <1>2, PerformKeepsHoldings
  <2>3. job'.step = "served"  BY <1>0, <2>1 DEF ServerTypes
  <2>4. d \in Dialogs /\ d \in Offered
    BY <1>d, <1>0, <2>1, TableIsOffered DEF JobShape
  <2>5. AtWork.method = job.method /\ AtWork.dialog = d /\ job.method \in DialogMethods \ Unserved
    BY <1>d, <2>1 DEF Tidy, AtWork
  <2>6. ModeOfAll[d] = state[d] /\ state[d] \in SfcdState  BY <2>4, ModeIs
  <2>7. state' = [state EXCEPT ![d] = StateAfter(job.method, state[d])]
    BY <1>d, <1>0, <1>2, <2>4, PerformState
  <2>8. d \in owned /\ told[d] = 0
    BY <1>0, <2>4 DEF Offered, Heard, DestroyToldOnce
  <2>9. ModeOfAll' = [ModeOfAll EXCEPT ![d] = StateAfter(job.method, ModeOfAll[d])]
    <3>1. DialogMode(d)' = StateAfter(job.method, ModeOfAll[d])
      BY <1>0, <2>1, <2>2, <2>3, <2>4, <2>6, <2>7, <2>8 DEF DialogMode, TypeOK
    <3>2. \A e \in Dialogs \ {d} : DialogMode(e)' = DialogMode(e)
      BY <1>0, <2>1, <2>2, <2>3, <2>7 DEF DialogMode, TypeOK
    <3>3. QED  BY <2>4, <3>1, <3>2, ModeBecame
  <2>10. AtWork \in Pending /\ Pending' = Pending \ {AtWork}
    BY <2>1, <2>3, AnsweredByHandler DEF Working
  <2>11. ModeOfAll' = [ModeOfAll EXCEPT ![d] = Promise!After(job.method, @)]
    BY <2>9, PromiseMethods
  <2>12. Promise!Perform(AtWork)
    BY <2>1, <2>5, <2>6, <2>10, <2>11, PromiseStates, PromiseMethods
    DEF Promise!Perform, Pending, ModeOfAll
  <2>13. QED  BY <2>10, <2>12 DEF Promise!Next, Promise!Serve, Pending
<1>3. CASE PerformDestroy
  <2>1. /\ job.step = "removed" /\ job' = [job EXCEPT !.step = "destroyed"]
        /\ Destroy(d) /\ EmitDestroy(d) /\ inbox' = inbox
    BY <1>d, <1>3 DEF PerformDestroy
  <2>2. owned' = owned \ {d} /\ state' = state  BY <2>1 DEF Destroy
  <2>3. job'.step = "destroyed"  BY <1>0, <2>1 DEF ServerTypes
  <2>4. d \in Dialogs /\ d \in Offered
    BY <1>d, <1>0, <2>1, TableIsOffered DEF JobShape
  <2>5. AtWork.method = "destroy" /\ AtWork.dialog = d
    BY <1>d, <2>1 DEF Tidy, AtWork
  <2>6. ModeOfAll[d] \in SfcdState  BY <2>4, ModeIs
  <2>7. told[d] = 0 /\ told' = [told EXCEPT ![d] = @ + 1]
        /\ said' = [said EXCEPT ![d] = "destroy"]
    BY <1>0, <2>1, <2>4 DEF Offered, Heard, DestroyToldOnce, EmitDestroy
  <2>8. ModeOfAll' = [ModeOfAll EXCEPT ![d] = "gone"]
    <3>1. DialogMode(d)' = "gone"
      BY <1>0, <2>4, <2>7 DEF DialogMode, ServerTypes
    <3>2. \A e \in Dialogs \ {d} : DialogMode(e)' = DialogMode(e)
      BY <1>0, <2>1, <2>2, <2>3, <2>7 DEF DialogMode, ServerTypes
    <3>3. QED  BY <2>4, <3>1, <3>2, ModeBecame
  <2>9. AtWork \in Pending /\ Pending' = Pending \ {AtWork}
    BY <2>1, <2>3, AnsweredByHandler DEF Working
  <2>10. Promise!Destroy(AtWork)
    BY <2>5, <2>6, <2>7, <2>8, <2>9, PromiseStates
    DEF Promise!Destroy, Promise!Signal, Pending, ModeOfAll
  <2>11. QED  BY <2>9, <2>10 DEF Promise!Next, Promise!Serve, Pending
<1>4. CASE DropTableRef \/ LookupFinished
  <2>1. /\ owned' = owned /\ state' = state /\ told' = told /\ said' = said /\ inbox' = inbox
        /\ job.step \in {"destroyed", "served"}
    BY <1>4 DEF DropTableRef, LookupFinished, DropExtra
  <2>2. job'.step \in {"idle", "served"}
    BY <1>0, <1>4 DEF DropTableRef, LookupFinished, ServerTypes, NoJob
  <2>3. ModeOfAll' = ModeOfAll  BY <2>1, <2>2, ModesKept DEF DialogMode
  <2>4. Pending' = Pending
    BY <2>1, <2>2, PendingIs, PendingIsNext DEF Working
  <2>5. QED  BY <2>1, <2>3, <2>4 DEF Promise!vars, Pending, ModeOfAll
<1>5. QED  BY <1>1, <1>2, <1>3, <1>4 DEF Handler

(* The user and the main context: only the end of a run is seen.           *)
LEMMA MainLoopMaps ==
  ASSUME SInv, NEW d \in Dialogs, ServerUser(d) \/ ServerMainLoop(d)
  PROVE  Promise!Next \/ UNCHANGED Promise!vars
<1> USE DEF serverVars, tableVars, busVars, clientVars, objectVars
<1>0. ServerTypes /\ JobShape /\ Heard /\ Holdings /\ TypeOK /\ RunsInState /\ EachRunOnce
  BY DEF SInv, IInv, Shape
<1>1. job.step = "idle" /\ inbox' = inbox
  BY DEF ServerUser, ServerMainLoop, ServerStartLoop, ServerEndRun, ServerEndClosedRun,
         ServerEndReport
<1>2. job'.step \in {"idle", "served"}
  BY <1>1 DEF ServerUser, ServerMainLoop, ServerStartLoop, ServerEndRun, ServerEndClosedRun,
         ServerEndReport, Job
<1>3. Pending' = Pending  BY <1>1, <1>2, PendingIs, PendingIsNext DEF Working
<1>4. owned = table /\ connected = table /\ Offered = table
  BY <1>0, <1>1, TableIsOffered DEF Holdings, OutOfTable
<1>5. CASE ServerUser(d) \/ ServerStartLoop(d) \/ ServerEndReport(d)
  <2>1. owned' = owned /\ state' = state /\ told' = told /\ said' = said
    BY <1>5 DEF ServerUser, ServerStartLoop, ServerEndReport, User, UserEdit, UserAnswer,
                UserClose, StartLoop, EndReport
  <2>2. ModeOfAll' = ModeOfAll  BY <1>1, <1>2, <2>1, ModesKept DEF DialogMode
  <2>3. QED  BY <1>3, <2>1, <2>2 DEF Promise!vars, Pending, ModeOfAll
<1>6. ASSUME ServerEndRun(d) \/ ServerEndClosedRun(d) PROVE state[d] = RUNNING
  <2>1. phase[d] # "none" /\ fault = "none"
    BY <1>6 DEF ServerEndRun, ServerEndClosedRun, EndRun, EndClosedRun, LeaveLoop, Iterating
  <2>2. QED  BY <1>0, <2>1 DEF RunsInState
<1>7. CASE ServerEndRun(d)
  <2>1. /\ owned' = owned /\ told' = told /\ job' = job /\ EmitResponse(d)
        /\ state' = [state EXCEPT ![d] = Verdict(answer[d])]
    BY <1>7 DEF ServerEndRun, EndRun, LeaveLoop
  <2>2. Verdict(answer[d]) \in {CONFIGURATION, DATA_RETRIEVAL}  BY DEF Verdict
  <2>3. \A e \in Dialogs \ {d} : DialogMode(e)' = DialogMode(e)
    BY <1>0, <2>1 DEF DialogMode, TypeOK
  <2>4. CASE d \in table
    <3>1. said' = [said EXCEPT ![d] = "response"]
      BY <1>4, <2>1, <2>4 DEF EmitResponse
    <3>2. told[d] = 0 /\ d \in owned  BY <1>0, <1>4, <2>4 DEF Heard, DestroyToldOnce
    <3>3. ModeOfAll[d] = RUNNING  BY <1>4, <1>6, <1>7, <2>4, ModeIs
    <3>4. DialogMode(d)' = Verdict(answer[d])
      BY <1>0, <1>1, <2>1, <3>2 DEF DialogMode, TypeOK
    <3>5. ModeOfAll' = [ModeOfAll EXCEPT ![d] = Verdict(answer[d])]
      BY <2>3, <3>4, ModeBecame
    <3>6. Promise!Respond(d, Verdict(answer[d]))
      BY <1>3, <2>2, <3>1, <3>3, <3>5, PromiseStates
      DEF Promise!Respond, Promise!Signal, Pending, ModeOfAll
    <3>7. Verdict(answer[d]) \in Promise!SfcdState
      BY <2>2, PromiseStates DEF SfcdState
    <3>8. QED  BY <3>6, <3>7 DEF Promise!Next, Promise!Users
  <2>5. CASE d \notin table
    <3>1. said' = said  BY <1>4, <2>1, <2>5 DEF EmitResponse
    <3>2. DialogMode(d)' = DialogMode(d)  BY <1>4, <2>1, <2>5 DEF DialogMode
    <3>3. ModeOfAll' = ModeOfAll  BY <2>3, <3>2, ModesKept
    <3>4. QED  BY <1>3, <3>1, <3>3 DEF Promise!vars, Pending, ModeOfAll
  <2>6. QED  BY <2>4, <2>5
<1>8. CASE ServerEndClosedRun(d)
  <2>1. owned' = owned \ {d} /\ state' = state
    BY <1>8 DEF ServerEndClosedRun, EndClosedRun, LeaveLoop
  <2>2. CASE d \in table
    <3>1. EmitDestroy(d)  BY <1>4, <1>8, <2>2 DEF ServerEndClosedRun
    <3>2. /\ told' = [told EXCEPT ![d] = @ + 1] /\ said' = [said EXCEPT ![d] = "destroy"]
      BY <3>1 DEF EmitDestroy
    <3>3. told[d] = 0  BY <1>0, <1>4, <2>2 DEF Heard, DestroyToldOnce
    <3>4. ModeOfAll[d] = RUNNING  BY <1>4, <1>6, <1>8, <2>2, ModeIs
    <3>5. DialogMode(d)' = "gone"  BY <1>0, <3>2, <3>3 DEF DialogMode, ServerTypes
    <3>6. \A e \in Dialogs \ {d} : DialogMode(e)' = DialogMode(e)
      BY <1>0, <1>1, <1>2, <2>1, <3>2 DEF DialogMode, ServerTypes
    <3>7. ModeOfAll' = [ModeOfAll EXCEPT ![d] = "gone"]  BY <3>5, <3>6, ModeBecame
    <3>8. Promise!Close(d)
      BY <1>3, <3>2, <3>4, <3>7, PromiseStates
      DEF Promise!Close, Promise!Signal, Pending, ModeOfAll
    <3>9. QED  BY <3>8 DEF Promise!Next, Promise!Users
  <2>3. CASE d \notin table
    <3>1. told' = told /\ said' = said  BY <1>8, <2>3 DEF ServerEndClosedRun
    <3>2. \A e \in Dialogs : DialogMode(e)' = DialogMode(e)
      BY <1>1, <1>2, <1>4, <2>1, <2>3, <3>1 DEF DialogMode
    <3>3. ModeOfAll' = ModeOfAll  BY <3>2, ModesKept
    <3>4. QED  BY <1>3, <3>1, <3>3 DEF Promise!vars, Pending, ModeOfAll
  <2>4. QED  BY <2>2, <2>3
<1>9. QED  BY <1>5, <1>7, <1>8 DEF ServerMainLoop

-----------------------------------------------------------------------------
(* Callers see a daemon whose methods take effect at once, between call and*)
(* answer, that signals every end of a run and every destruction, and says *)
(* no more of what is gone.                                                *)
THEOREM DaemonKeepsItsPromise == ServerSpec => ImplementsServerSpec
<1>1. ServerInit => Promise!Init
  <2> SUFFICES ASSUME ServerInit PROVE Promise!Init
    OBVIOUS
  <2>1. \A d \in Dialogs : DialogMode(d) = "unborn"
    BY DEF ServerInit, Init, DialogMode
  <2>2. ModeOfAll = [d \in Dialogs |-> "unborn"]  BY <2>1 DEF ModeOfAll
  <2>3. Pending = {}
    <3>1. job.step = "idle" /\ inbox = <<>>  BY DEF ServerInit, NoJob
    <3>2. ToSet(inbox) = {}  BY <3>1 DEF ToSet
    <3>3. QED  BY <3>1, <3>2, PendingIs DEF Working
  <2>4. QED  BY <2>2, <2>3 DEF ServerInit, Promise!Init, Pending, ModeOfAll
<1>2. ServerInit => Tidy
  BY DEF ServerInit, Tidy, NoJob, ToSet
<1>3. SInv /\ Tidy /\ [ServerNext]_allVars => Tidy'
  BY TidyStep
<1>4. ASSUME SInv, Tidy, [ServerNext]_allVars
      PROVE  Promise!Next \/ UNCHANGED Promise!vars
  <2>1. CASE DaemonDead \/ UNCHANGED allVars
    <3>1. UNCHANGED <<job, inbox, told, said, owned, state>>
      BY <2>1 DEF DaemonDead, allVars, vars, serverVars, busVars, objectVars, clientVars
    <3>2. ModeOfAll' = ModeOfAll  BY <3>1, ModesKept DEF DialogMode
    <3>3. Pending' = Pending  BY <3>1 DEF Pending, CallsAtWork
    <3>4. QED  BY <3>1, <3>2, <3>3 DEF Promise!vars, Pending, ModeOfAll
  <2>2. QED
    BY <1>4, <2>1, SendMaps, DispatchMaps, HandlerMaps, MainLoopMaps DEF ServerNext, Sender
<1>5. SInv /\ Tidy /\ [ServerNext]_allVars => [Promise!Next]_(Promise!vars)
  BY <1>4
<1>6. QED
  BY ServerInvariance, <1>1, <1>2, <1>3, <1>5, PTL
  DEF ServerSpec, ImplementsServerSpec, Promise!Spec
=============================================================================
