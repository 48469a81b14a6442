# A verification of Sandbox Utils

Sandbox Utils gives applications that run in a sandbox a file chooser which the
user, not the application, controls.  This directory holds TLA+ models of it, TLC
runs that check them on small instances, and proofs that TLAPS checks for
instances of every size.

    tlc -workers 2 -config LfcdNested.cfg MCLfcd      # any run of the table below
    tlapm LfcdProofs.tla      # and SfcdMethodsProofs, ServerProofs, ServerSpecProofs, RemoteProofs, RemoteMailProofs, LfcdThreadsProofs

## 1. The system

### Components

| component | code | state it keeps | operations | modelled |
|---|---|---|---|---|
| `SandboxFileChooserDialog`, abstract class | `lib/sandboxfilechooserdialog.[ch]` | none (virtual methods, four signals) | `sfcd_new` picks a subclass; every other `sfcd_*` checks its arguments and calls the method of the subclass | states, and what each method does with them (`SfcdMethods`); what it promises (`SfcdProtocol`) |
| `LocalFileChooserDialog` (LFCD) | `lib/localfilechooserdialog.c` | `state`, the `GtkFileChooserDialog`, `stateMutex`, `id`; per run an `LfcdRunFuncData` | creation, destruction, run / present / cancel, 21 setters, 15 queries, handlers of a run, `_lfcd_run_func` | `LocalFileChooserDialog`; with threads and `stateMutex`: `LfcdThreads` |
| accept labels | `sfcd_is_accept_label`, loops over buttons of `lfcd_new_*` | a table of translated labels | keep a button with an accepting response only if its label says so | no (planned) |
| `RemoteFileChooserDialog` (RFCD) | `lib/remotefilechooserdialog.c` | class: D-Bus proxy, table of instances by id; instance: `remote_id`, extra widget, parent | each method is a synchronous D-Bus call; `destroy` and `response` signals of the daemon are relayed | `RemoteFileChooserDialog` |
| D-Bus wrapper | `server/sandboxfilechooserdialogdbuswrapper.c` | the exported interface | one handler per D-Bus method: look the dialog up, call LFCD, answer; two signal handlers | `SfcdServer`; what it promises: `SfcdServerSpec` |
| client manager | `server/sandboxutilsclientmanager.c` | table of dialogs by id, `dialogsMutex` | create, reset | `SfcdServer` (the table) |
| daemon | `server/sandboxutilsd.c` | one main loop, watchdog timer | start, stop | its death and restart, in `RemoteFileChooserDialog` |
| D-Bus interface | `lib/sandboxfilechooserdialoginterface.xml` | none | declarations | no: no behaviour of its own |
| options, helpers | `lib/sandboxutilscommon.c` | one boolean: sandboxed or not | command line | no: fixed before any dialog exists |
| marshallers, example, docs, build files | | | | no: generated or illustrative |

### How they interact

An application calls `sfcd_new`.  If it is sandboxed, it gets an RFCD, which asks
the daemon by D-Bus to create a dialog; the wrapper in the daemon creates an LFCD,
files it under its id in the client's table and answers with the id.  Each later
method is a synchronous call with that id, and the `response` and `destroy` signals
of the LFCD travel back as D-Bus signals.  If it is not sandboxed, it gets an LFCD in
its own process.  So everything that happens to a dialog happens in an LFCD, with the
application or the wrapper as its client, and LFCD is the core of the system.

Inside the LFCD, `sfcd_run` does not block.  It sets the state to RUNNING, takes a
reference, connects handlers to the GTK dialog, shows it, and adds an idle source.
When the main context dispatches that source, `_lfcd_run_func` starts a main loop
*of its own*, inside the dispatch.  Everything else in the process goes on inside
that loop: other events, other calls of the API, and further runs, whose loops are
nested in this one.  A handler of the dialog (`response`, `unmap`, `delete-event`)
tells the loop to quit; it returns when all loops started later have returned;
`_lfcd_run_func` then disconnects, hides the window, sets the next state, emits
`response`, and gives its reference up.

### What is hard about it

* **Order of runs.** Users answer in any order, loops return in LIFO order.
  Between the answer and the end of a run the dialog still says RUNNING and
  can be presented, cancelled or destroyed.
* **A lost wake-up.** `shutdown_loop` only reaches a loop that has started.
* **Reference counts.** The creation, every `g_object_ref` of the application,
  the run, and the report of a run hold references; `sfcd_destroy`, the closing of the
  window and the end of a run give them up, in orders that the user decides.
* **The promise of the states.** An application must not change what the user is
  looking at, nor retrieve what the user did not accept.  It rests on a test and an
  assignment repeated in some forty methods.
* **Callbacks.** `response` handlers run on the stack of a run that is ending
  and may run, configure or destroy the dialog.
* **Locks.** `stateMutex` is held while GTK signals are emitted, so that a handler which calls back waits for
  its own thread; a method that waits for the mutex holds no reference; the end of a run reads the state once more without it.
* **Calls inside runs.** The daemon has one thread.  While a user looks at a dialog, the
  loop of that run serves the calls of every client, and any of them may destroy
  a dialog whose loop is further down the stack.
* **Between processes.** Calls and signals for dialogs already gone or of somebody else, signals that
  wait while a process is blocked in a call, ids that start again
  from zero in a restarted daemon, synchronous calls that fail or time out although the daemon serves them,
  widgets and windows whose references do not follow those of the dialog.

PROJECT.json lists each of these hazards at the line where it bites, with the
properties that watch it.

### What makes each component correct

* *Abstract class*: the life cycle of `SfcdProtocol`: content is edited by the
  application only outside a run and by the user only during one, and only an
  accepted run leads to DATA_RETRIEVAL.
* *LFCD*: it implements that life cycle; references are balanced; the assertions of
  the code hold; runs end; signals match states.
* *Accept labels*: no button with an accepting response has a label that does not
  say so; other buttons are kept, in order.
* *D-Bus wrapper and client manager*: the table holds exactly the dialogs that
  exist and that a client may name; each D-Bus call gets one answer; no dialog
  outlives or predeceases its entry.
* *LFCD with threads*: what a method has tested still holds when it acts; the object
  outlives the methods that are called; the mutex comes back.
* *RFCD*: an instance in the table is alive and stands for one dialog of the daemon;
  each `response` and `destroy` reaches it once; calls return.

## 2. The modules

| module | what it is |
|---|---|
| `SfcdMethods` | The vocabulary: states, and for each group of methods a contract: where it is refused, with which error, and the state it leaves (`RefusedIn(method, state)`, `RefusalCode(method)`, `LeftBy(method, state)`) |
| `SfcdMethodsProofs` | What those contracts say, method by method: the lemmas on refusals and states that the other proofs cite |
| `SfcdProtocol` | Abstract specification: seven actions on a dialog seen from outside |
| `LocalFileChooserDialog` | `lib/localfilechooserdialog.c`, its properties, and the refinement mapping (`Protocol`) |
| `MCLfcd` | Instantiates it for TLC: symmetry of the dialogs |
| `LfcdProofs` | The theorems about it |
| `SfcdServer` | The D-Bus wrapper and its table, as the application of `LocalFileChooserDialog`, which it extends; callers on the bus |
| `MCServer` | Instantiates it for TLC: symmetry of dialogs and of callers |
| `ServerProofs` | The theorems about the daemon; extends `LfcdProofs` |
| `SfcdServerSpec` | Abstract specification of the daemon, as the processes that call it see it |
| `ServerSpecProofs` | `SfcdServer` implements it |
| `RemoteFileChooserDialog` | `lib/remotefilechooserdialog.c`: processes whose dialogs are held by the daemon, which is an instance of `SfcdServerSpec` that may die and start again |
| `MCRemote`, `RemoteProofs`, `RemoteMailProofs` | Its instances for TLC; the theorems about it, those on references, tables and ids, and those that rest on the order of signals |
| `LfcdThreads` | `lib/localfilechooserdialog.c` once more, at the grain of `stateMutex`: one dialog, several threads |
| `MCThreads`, `LfcdThreadsProofs` | Its instances for TLC; the theorems about it |

Two chains meet in `SfcdServerSpec`: `SfcdServer`, which contains `LocalFileChooserDialog`,
implements it (checked by `server`, proved in `ServerSpecProofs`), and `RemoteFileChooserDialog`
uses it (`Daemon == INSTANCE SfcdServerSpec`) and, while the daemon lives, allows no step that it does not (`DaemonAsSpecified`).  So the safety of the remote client does not depend on loops,
reference counts or handlers of the daemon.

### `LocalFileChooserDialog` and the code

A step is what the thread does between two looks at its event sources.  On one
thread nothing can come in between, so a whole method of the API is one action.

| variable | in the code |
|---|---|
| `state`, `refs` | `priv->state`, the reference count of the GObject |
| `phase`, `answer` | one `LfcdRunFuncData`: the idle source waits (`queued`), `g_main_loop_run` runs (`looping`), `g_main_loop_quit` was called (`quit`); `response_id`, with all accepting responses as `accept` and all other buttons as `reject` |
| `idles`, `loops`, `reporting` | the idle sources of the main context; the loops on the stack; the run that emits `response` now |
| `shown`, `content`, `widget`, `withParent` | the GTK window: mapped; selection and options; extra widget; destroy-with-parent |
| `owned`, `extras`, `heard`, `outcome` | what the application holds, the last signal and the last result it got |
| `presented` | history: the content that was last before the user |
| `fault` | the process is dead: an assertion failed, a reference was given up twice, a window is gone |

| actions | in the code |
|---|---|
| `New`, `Destroy` | `lfcd_new_valist`, `_lfcd_destroy` |
| `Run`, `Present`, `CancelRun` | `lfcd_run`, `lfcd_present`, `lfcd_cancel_run` |
| `SetSelection`, `SetOption`, `EditShortcuts` | the 21 setters; the method is a parameter, whose contract decides the refusal and the state that is left |
| `SetExtraWidget`, `SetDestroyWithParent` | the two setters that no state refuses |
| `Query`, `Refuse` | the 15 queries; any method in a state that refuses it |
| `UserEdit`, `UserAnswer`, `UserClose` | input; `run_response_handler`; `delete-event` |
| `StartLoop`, `EndRun`, `EndClosedRun`, `EndReport` | `_lfcd_run_func` up to its loop; from the loop to the emission of `response`; the branch of `GTK_RESPONSE_DELETE_EVENT`; after the emission |
| `TakeExtra`, `DropExtra`, `ParentDestroyed` | `g_object_ref`, `g_object_unref` by the application; a parent window destroyed |

While `reporting` is set, the handlers of `response` run: every action of the
application is enabled, those of the user and of loops are not (`Iterating`).

`Destroy` gives up the reference of the creation, or, once that is gone, one that the application took itself: any
holder of a reference may call `sfcd_destroy` (`MayDestroy`).  `_lfcd_destroy` emits `destroy` after it gave the
mutex back when the application calls it, and with the mutex when the end of a closed run does; `Destroy` is one step all the same, and
`LfcdThreads` has the steps.

`ClientMay` says what the application does beyond the ordinary; each property is
checked or proved for the most liberal application for which it holds, and each
liberty that breaks something appears in a run that shows how.

### Data left out

Names, URIs, titles, log messages, and which action or filter is set: `content` is a
pair of abstract values, and a setter of the selection may leave any selection,
since what GTK makes of a file name is GTK's business.  Responses are reduced to what
`_lfcd_is_stock_accept_response_id` and the test for `GTK_RESPONSE_DELETE_EVENT` tell
apart.  Modality: while a modal dialog holds the grab GTK keeps input from the windows
below; the model lets users answer any window on the screen, which includes
what they can do then.

### `SfcdServer` and the code

The module extends `LocalFileChooserDialog`: each step of the daemon is a step that an
application may take there, together with what it does to the daemon's own state, or one the
library does not see.  `DaemonIsAnApplication` proves it, so all that holds of
every application holds in the daemon.

| variable | in the code |
|---|---|
| `table`, `connected` | `cli->dialogs`; the dialogs to which `on_handle_response_signal` and `on_handle_destroy_signal` are connected |
| `issued` | the dialogs created so far: ids count upwards and are not used twice in the life of a daemon |
| `inbox` | calls that GDBus has queued on the main context |
| `job` | the handler that is at work and where it stands |
| `replies` | how many answers each caller got to its last call |
| `said`, `told` | history: the last signal on the bus about a dialog, and the number of its `destroy` signals |

A handler is a chain of steps, each with one call of the library, between which the thread
does nothing else (`job.step`); the callers, who are other processes, go on sending.
`on_handle_destroy` is `LookupAndRemove`, `PerformDestroy`, `DropTableRef`,
`LookupFinished`; `on_handle_new` is `CreateDialog`, `CompleteNew`; the handlers of
methods that keep their dialog are `Lookup`, `Perform`, `LookupFinished`, where
`Perform` has one disjunct per group of handlers.  `NotFound` is a handler whose lookup fails,
`RejectUnserved` the answer of the skeleton to a method without handler.
`on_handle_response_signal` and `on_handle_destroy_signal` are parts of `ServerEndRun` and
`ServerEndClosedRun`, for the library emits their signals.  References that the wrapper takes
beside that of the creation are `extras` of the library's model.

A `Caller` has one call in flight, as the synchronous remote client has; a process
with several calls in flight is several callers.  Callers name any dialog, also one that was
destroyed or never created.  `Timely` is the discipline of the callers, as far as
`ClientMay` gives them one; without it every property but those about the life of the
process still holds, and `server` runs that way.

`Promise` maps this to `SfcdServerSpec`: a dialog is `gone` once its destruction was told, and
has its `state` from the moment `on_handle_new` answers; a call is asked for until its handler
answers.

Left out: the encoding of arguments, lists and strings (a query without a result is answered with the text
`[Invalid UTF-8]`, see the findings), `dialogsMutex` (one thread takes it for the length of a
lookup), the loss of the bus name and shutdown, clients that leave the bus (the daemon
takes no notice).

### `SfcdServerSpec`

`mode` is the state of each dialog, or `unborn`, or `gone`; `asked` are the calls without an answer; `said` is the
last signal about a dialog.  `Create`, `Perform`, `Destroy` and `Fail` take effect and answer in one step, some time after
`Ask`; `Respond` and `Close` are what users do, as far as callers can see.

### `RemoteFileChooserDialog` and the code

A process has one thread.  A method of the class is a synchronous call: `Begin...` sends it, one of
the `End...` actions is its return, and in between the process does nothing, while its
signals wait in `mail` for the main loop.

| variable | in the code |
|---|---|
| `instances`, `subscribed`, `owner` | `klass->instances`; `klass->proxy` exists; the owner of the name that the proxy has seen |
| `refs`, `remote_id`, `withParent` | the reference count of the GObject, `priv->remote_id`, `priv->destroy_with_parent` |
| `orphans` | the instances whose `priv->local_parent` points to a window that was destroyed |
| `widget` | `priv->extra_widget`: `held`, or `dropped` if the pointer is there but its reference was given up |
| `calling`, `reply`, `tries`, `mail` | GDBus in each process: the call it waits for, its answer, the calls given up so far, the signals not yet dispatched |
| `owned`, `extras`, `awaiting`, `heard` | what the application holds, the dialogs it has run and not heard of, the last signal of each |
| `mode`, `asked`, `said`, `epoch`, `up` | the daemon, an instance of `SfcdServerSpec`; how often it died; whether it has its name |
| `fate` | why a process is dead: a signal for no instance, a reference given up twice, a parent window used after it was freed, a list that never ends |

| actions | in the code |
|---|---|
| `BeginNew`, `EndNew` | `rfcd_new_valist` up to and from the return of the call |
| `BeginCall`; `EndCall`, `EndRun`, `EndList`, `EndFailed` | every other method; its return with an answer, of `rfcd_run`, with a list, with an error |
| `BeginSetExtraWidget`, `EndSetExtraWidget` | `rfcd_set_extra_widget` |
| `SetDestroyWithParent`, `ParentClosed` | `rfcd_set_destroy_with_parent`; `_rfcd_on_parent_destroyed`, after which GTK may destroy the window (`lose_parent`) |
| `OnResponse`, `OnDestroy`, `OnStranger` | `_rfcd_class_on_response`, `_rfcd_class_on_destroy`; either of them for a dialog that the table does not have |
| `Unref`, `Disconnect` | `g_object_unref` with `rfcd_dispose`, which is part of the step that gives up the last reference; its disconnection from the parent window |
| `GiveUp`, `OnOwner` | the time-out of a call; the proxy follows the owner of the name |
| `Serve`, `Respond`, `Close` | the daemon, with the answer or the signal it sends |
| `Crash`, `Restart` | the daemon dies with its dialogs; systemd starts it again, and ids are again unused |

`Serve` of a call that was given up changes the daemon and answers nobody: this is how dialogs without an
instance come into being.  Applications call methods through a reference of their
own; unless they are `eager` they leave a dialog that runs alone, but for `present`, `cancel_run`, queries and `destroy`,
until they hear of it.

`OnDestroy` emits `destroy` and gives the reference up in one step; a call that a handler of `destroy` makes in between is like
one that an application makes with a reference of its own after it.

Left out: a session without a bus (there is no proxy then, and calls on `NULL` fail in GLib); the time at
which the proxy loads the properties of a new owner; the plug of the extra widget, and its reference, which
`rfcd_dispose` does not give up; the contents of answers.

### `LfcdThreads` and the code

One dialog, and a step is what a thread does between two moments at which another thread
can see it: `Lock`, `Test` (the read of `priv->state`), the action itself, `Leave`
(`g_mutex_unlock`), and for `sfcd_destroy` `Release` (the signal and the unref after it).

| variable | in the code |
|---|---|
| `state`, `refs`, `holder` | `priv->state`, the reference count, the owner of `stateMutex` |
| `phase`, `answer`, `shown` | the run as in `LocalFileChooserDialog`; the window |
| `ending`, `report` | what `_lfcd_run_func` has left to do after it gave the mutex back; the arguments of its `response` signal |
| `at`, `doing`, `seen` | where each thread is in a method, which, and the state it has read |
| `owned` | the application has the reference of the creation |

`Display` is a window that comes or goes: if it does, the handlers of `show` or `hide` run with
the mutex held (`handling`), and may return (`Handled`) or call a method of the dialog
(`Reenter`), which gets them stuck, for a `GMutex` does not recurse.  The handlers of `destroy` run with the mutex at the end of a closed run only: `sfcd_destroy` gives
it back first (`Release`), and a handler may call methods there.  `Report` reads the
state again after the mutex was given back.  The rule of the documentation for threads, to return
from all methods before destroying, is the guard `Quiet`.  Its counterpart for the user who closes the window is the guard of `UserAnswer`;
no application can obey it, so it is a premise of the theorems (`Cautious`) and
`threads_closed` shows what happens without.  Toolkit calls are one step each, on
whatever thread.

### What the models do not say

* **Several dialogs and several threads at once.**  `LocalFileChooserDialog` has many dialogs on one
  thread, `LfcdThreads` one dialog on many.
* **Handlers of `destroy`, `show` and `hide` that call back** in
  `LocalFileChooserDialog`.  With the mutex held (`show`, `hide`, and `destroy` when the user has closed the window) any such call blocks, which
  `LfcdThreads` has (`Reenter`).  On the path of `sfcd_destroy` the mutex is free when `destroy` is emitted, and the
  reference that is about to be given up is still there: a handler that calls methods then is not modelled on one thread, except that
  the application may do the same just before the step, or, with a reference of its own, just after it.
* **Handlers that run loops of their own** (a message box inside a `response` handler).
* `lfcd_new_variant` and the remote parent, which differ from `lfcd_new_valist` in data
  only; the readers that cannot fail (`_get_id`, `_get_dialog_title`, `_get_extra_widget`,
  `_get_destroy_with_parent`, and, of local dialogs, `sfcd_get_state`).

### Not modelled

* *Accept labels*: a function of strings and of the locale (planned).
* *The functions `sfcd_*` of the abstract class*: they check their arguments and call the subclass.
* *Loss of the bus name and shutdown of the daemon*: the handlers are empty, or run when the process exits.
* *The watchdog*: a timer that tells systemd that the main loop turns.
* *Command line, marshallers, interface description, example application*: see the table of components.

## 3. The runs

`server` and `server_live` are of module `MCServer`, those named `remote*` of `MCRemote`, those named `threads*` of `MCThreads`, the
others of `MCLfcd`.  Times are for two workers.

| run (cfg) | instance | checks | result |
|---|---|---|---|
| `nested` (`LfcdNested`) | 3 dialogs, symmetric; destroys them while they run | `TypeOK`, `NoFault`, `RunningHasRun`, `EachRunOnce`, `WaitsOnScreen`, `ResponseLeavesRunning`, no deadlock | holds, 75 000 states, 2 min |
| `liberties` (`LfcdLiberties`) | 1 dialog, 2 selections, 2 options, a widget, 2 extra references, every liberty | `RefsAccounted`, `RunKeepsRunning`, `UserChoiceIntact`, `ImplementsProtocol` | holds, 47 000 states, 40 s |
| `live` (`LfcdLive`) | 2 dialogs, fairness, users who answer | `RunsEnd`, `HiddenRunsEnd`, `Released` | holds, 8 000 states, 40 s |
| `early_cancel` (`LfcdEarlyCancel`) | 1 dialog, hidden before its loop starts | `HiddenRunsEnd` | **violated** |
| `close_and_destroy` (`LfcdCloseAndDestroy`) | 1 dialog, destroyed after its user closed it | `NoFault` | **violated** |
| `server` (`ServerCalls`) | 1 dialog, 2 callers of 15 methods, one of every kind, every liberty of callers | `ServerTypeOK`, `TableBalanced`, `DestroyToldOnce`, `EachCallAnswered`, `SilentAfterDestroy`, `ImplementsServerSpec`, no deadlock | holds, 560 000 states, 75 s |
| `server_live` (`ServerLive`) | 2 dialogs, 1 caller of `New`, `Run` and `Destroy`, fairness | `CallsComplete`, `DestroyedAreDisposed` | holds, 52 000 states, 95 s |
| `remote` (`Remote`) | 1 process, 2 instances, 2 ids, 9 methods, 1 extra reference, a parent window; a daemon that lives and answers in time | `TypeOK`, `AllAlive`, `UniqueIds`, `TablesAgree`, `ReportsAreCurrent`, `SilentAfterDestroy`, `CallsReturn`, `FarewellsAreHeard`, no deadlock | holds, 200 000 states, 2 min |
| `remote_faults` (`RemoteFaults`) | 1 process, 2 instances, 1 id; 4 methods, of lists and extra widgets too; 1 extra reference; 1 death of the daemon, 1 call given up; parent windows that GTK destroys | `NoDanglingEntry`, `HeldByApplications`, `CallsReturn`, no deadlock | holds, 680 000 states, 2 min 40 s |
| `remote_strangers` (`RemoteStrangers`) | 2 processes with one instance each | `AllAlive` | **violated** |
| `threads` (`Threads`) | 3 threads, 6 methods, one of every kind, and `sfcd_destroy` | `TypeOK`, `ActsOnWhatItTested`, `RunKeepsRunning`, `NoUseAfterFree`, `NoAcceptanceInvented`, `MutexComesBack` | holds, 110 000 states, 40 s |
| `threads_closed` (`ThreadsClosed`) | the same, and a user who closes the window while a thread is in a method | `NoUseAfterFree` | **violated** |

The properties, in words:

* `RefsAccounted`: a reference count is exactly the number of holders.
* `NoFault`: no assertion fails, no reference is given up twice, no window is lost.
* `RunKeepsRunning`, `RunningHasRun`: a run keeps its dialog RUNNING and alive;
  a dialog is RUNNING or on the screen only for a run.
* `EachRunOnce`: the queue and the stack hold each run in progress once, and nothing else.
* `WaitsOnScreen`: a loop that waits can be answered.
* `UserChoiceIntact`: from the start of a run to the next setter the content is what the user last saw.
* `ResponseLeavesRunning`: the state leaves RUNNING if and only if `response` is emitted.
* `ImplementsProtocol`: the refinement of `SfcdProtocol`, with `state` as the mode of a
  dialog that exists and "the answer so far is accept" as the agreement of its user.  `SfcdProtocol` lets an edit of the shortcuts that
  fails void an accepted run, as the code does; no documentation says otherwise.
* `RunsEnd`, `HiddenRunsEnd`, `Released`: runs end if users answer; hidden runs end
  without them; a dialog that nobody holds is disposed of.
* `TableBalanced`: while the daemon lives, between two handlers it holds two references of a dialog in its table, and none of another.
* `DestroyToldOnce`: each dialog that the daemon gave up had one `destroy` signal, whoever destroyed it; no other had one.
* `EachCallAnswered`: a call that is neither queued nor with a handler had one answer, any other none.
* `SilentAfterDestroy` (daemon): no `response` follows `destroy` on the bus.  The library does emit it
  (see the findings); the daemon keeps it from its clients by disconnecting first.
* `ImplementsServerSpec`: what callers see of the daemon is a behaviour of `SfcdServerSpec`.
* `CallsComplete`: every call is answered, with any loops on the stack and users who never answer.
* `DestroyedAreDisposed`: if users answer, a dialog whose destruction was told is freed.
* `AllAlive`: a signal is for an instance that is there, no reference is given up twice, and no parent window is used after it was freed.
* `NoDanglingEntry`: what the table has under an id is alive and has this id; after a death of the daemon too.  It does not say that it is the instance
  the daemon means: after a restart it may not be.
* `HeldByApplications`: while its process lives, the references of an instance are those of its application, and `destroy` gives that of the creation up once.
* `UniqueIds`: two instances of a process have different ids.
* `TablesAgree`: the daemon has a dialog if and only if one instance stands for it, or `rfcd_new` is about to return, or the farewell is on its way.
* `ReportsAreCurrent`: a `response` that waits in the mail tells the state that the dialog still has, unless it is gone.
* `SilentAfterDestroy` (remote client): an instance that emitted `destroy` emits nothing more, whatever is called on it.
* `CallsReturn`: no process waits for ever in a method.
* `FarewellsAreHeard`: an application is rid of a dialog that the daemon has destroyed.
* `ActsOnWhatItTested`: between the test and the act of a method nobody else changes the state.
* `RunKeepsRunning` (threads): a run keeps its dialog RUNNING and alive, whatever other threads call.
* `NoUseAfterFree`: an object that is disposed of has no thread in its methods.
* `NoAcceptanceInvented`: DATA_RETRIEVAL is reported only for an accepted run.
* `MutexComesBack`: the mutex is given back on every path, except under a handler that re-enters.

### Bounds, and why they are enough

Dialogs interact only through the queue of idle sources and the stack of loops.
Two dialogs give one loop on top of another, three give a loop in the middle, queues
in every order, and a dialog that runs again under and above others; there is no
fourth position.  Selections, options and widgets are only stored, compared and
overwritten: two values tell "changed" from "unchanged", and `nested` and `live`, whose
properties are not about content, have one.  `MaxExtra = 2` is one reference more
than the difference between "somebody" and "nobody" needs.  The data of
`liberties` and the dialogs of `nested` are never large together, for no
dialog reads the content of another.  The bounds are of the instances only; the
theorems have none.

In the daemon a caller interferes with another only through the table and the dialog both name:
two callers and one dialog give every interleaving of two calls with a run, and ids are
interchangeable.  Loops on top of each other need two dialogs, which `server_live` has.
The bus queue is bounded by the number of callers; `MaxExtra = 2` is the references a handler
needs and is assumed (`ServerAssumption`), so that the bound takes no step away.

Processes interfere with each other only through the broadcast of signals, which kills at once (`remote_strangers`);
so `remote` has one process.  Two instances and two ids tell an entry, a signal or a disposal of one from those of the other; an id
is not used twice in the life of a daemon, so two dialogs are created in each behaviour.  Reuse of ids takes a restart, which
`remote_faults` has, with one id for two instances, so that a restart always reuses it.  `MaxTimeouts` and `MaxCrashes` are 1: one late answer, one stale
table.  `MaxExtra = 1` keeps an instance alive after its `destroy` signal: in
`remote_faults` the disposal of such an instance takes the entry of the one that has its id after a restart, and the next signal is a
stranger's.  There no dialog runs, so that no user destroys it: to the process, `sfcd_destroy` of a call that was given up is the same, a farewell
it no longer waits for; `remote` has both.  `remote` has no lists,
no extra widgets and no parent window that GTK destroys, whose faults are reported as findings and would kill the process first; `remote_faults` has them.

With three threads one holds the mutex, one waits for it, and the main context ends the run;
a dialog that was disposed of is created again, so the bounds on one dialog do not stop a behaviour.

`threads` and `threads_closed` do not check for deadlock: a run hidden before its loop has started never ends, and a
handler that re-enters never returns; the process does stop there.
`liberties` does not check for deadlock: a run that was hidden before its
loop started keeps a dialog nobody else holds, on a loop that never returns, and that
process does stop.  It is the state that `early_cancel` is about.

### Fairness

`MainLoopFairness` has three parts.  *Idle sources are dispatched* (strong fairness of
`StartLoop`): runs are queued at `G_PRIORITY_DEFAULT`, the priority of GDK's own
events, and GLib dispatches all ready sources of the highest priority in turn.
*A loop that was told to quit returns* (strong fairness of `EndRun` and `EndClosedRun`
together): `g_main_loop_run` tests its flag after each iteration.  The fairness is strong because a loop that starts on top disables
the return of the one below it, for a while.  *Handlers return* (weak fairness of
`EndReport`).  `UserAnswers` is an assumption about people, used by `live` only:
a user who can answer a window again and again does.  Nothing is assumed of the
application, not even that it destroys its dialogs.

`ServerFairness` adds that *calls are dispatched* (strong fairness of `Dispatcher`: GDBus
queues them as idle sources at the priority of those of runs, and a handler at work or a
`response` being emitted only keeps them waiting) and that *handlers return* (weak fairness of
`Handler`).  Users are not assumed to answer, except as the premise of `DestroyedAreDisposed`; callers are not assumed to call.

The remote client has two degrees.  `CallFairness`, which is all that `CallsReturn` of `remote_faults` needs: *the daemon serves calls* (weak fairness of
`Serve` for each process, which has one call at a time and those it gave up; the daemon keeps this by `CallsComplete`), and *a call that
has its answer returns* (weak fairness of `Returns`: the bus library wakes it up).  `Fairness`, for `remote`, adds that *signals are dispatched*
(strong fairness of `Dispatch`, for a process that calls all the time is between two dispatches again and again) and that
*the daemon is restarted* (`Restart=always`).  It is not assumed to die, nor calls to time out.

`FairSpec` of `LfcdThreads` is weak fairness of `Inside(t)` for each thread: the scheduler lets every thread go on.
It is not strong, so a thread may wait for the mutex for ever while others take turns; `MutexComesBack` speaks
of the one that has it.

### What the violations show

They are listed with quotes under "findings" in PROJECT.json.

1. `early_cancel`: a run cancelled or destroyed before the main context has dispatched its
   idle source is not cancelled.  Its loop starts on a hidden window, no `response` comes, and
   the loops below are blocked.
2. `close_and_destroy`: closing the window and `sfcd_destroy` each give up the
   reference of the creation; if both happen before the loop returns, the object is
   finalized under `_lfcd_run_func`.
3. `remote_strangers`: signals of the daemon go to every process; the handlers take the class of the `NULL` that the
   lookup returns for somebody else's dialog, before the test that the code has for it.
4. `threads_closed`: methods hold no reference, and when the user closes the window the end of the run
   gives up the last two under a thread that waits for the mutex.

Findings that no run shows, because the models have what the code does or leave that detail
out: a cancelled run may report the user's acceptance; a dialog destroyed while it runs emits `response` after `destroy`
locally; a closed dialog stays RUNNING; nine queries answer FORBIDDEN_CHANGE; `NULL` strings become text on the bus;
`UnselectFilename` has no handler; two queries answer in more states than documented; lists are read for ever by the remote class;
`rfcd_set_extra_widget` gives the old widget up before a call that may fail, and keeps the pointer when it does; an instance that outlives the
daemon shares its id with a new one; `rfcd_dispose` disconnects from a parent window that may be gone, for the pointer
holds no reference; the state in `response` is read without the mutex; handlers of `show`, `hide` and, after a close, `destroy` run with it,
so that calling the dialog from them waits for one's own thread.

Every property of a passing run has a mutant, an operator of the model changed
the way a plausible mistake in the code would change it (an inverted test, a forgotten
reference, a setter that keeps the state), under which TLC finds it violated.

## 4. The proofs

`LfcdProofs` proves, for every number of dialogs, every set of contents, and every application that `ClientMay` describes:

| theorem | statement |
|---|---|
| `Invariance` | `Spec => []IInv` |
| `TypeCorrect` | `Spec => []TypeOK` |
| `EveryReferenceHasHolder` | `Spec => []RefsAccounted` |
| `RunsDoNotRepeat` | `Spec => []EachRunOnce` |
| `UserDecides` | `Spec => []UserChoiceIntact` |
| `RunsProtectDialogs` | `Spec => []RunKeepsRunning` |
| `ResponsesMatchStates` | `Spec => ResponseLeavesRunning` |
| `RunningForARun` | `Spec => []RunningHasRun` |
| `CarefulClientsAreSafe` | `Spec => []NoFault`, if the application is `Careful` |
| `LoopsWaitOnScreen` | `Spec => []WaitsOnScreen`, if no run is hidden before its loop starts |
| `DialogsKeepTheProtocol` | `Spec => ImplementsProtocol` |

`ServerProofs` proves of the daemon, for every number of dialogs and callers and every set of methods they call:

| theorem | statement |
|---|---|
| `ServerInvariance` | `ServerSpec => []SInv` |
| `DaemonIsAnApplication` | `ServerSpec => Spec` |
| `ServerTypeCorrect` | `ServerSpec => []ServerTypeOK` |
| `TableIsBalanced` | `ServerSpec => []TableBalanced` |
| `DestructionIsToldOnce` | `ServerSpec => []DestroyToldOnce` |
| `CallsAreAnsweredOnce` | `ServerSpec => []EachCallAnswered` |
| `DestructionIsTheLastSignal` | `ServerSpec => SilentAfterDestroy` |
| `CarefulCallersAreSafe` | `ServerSpec => []NoFault`, if the callers are `Careful` |

`ServerSpecProofs` adds `DaemonKeepsItsPromise`: `ServerSpec => ImplementsServerSpec`.

`RemoteProofs` proves, for every number of processes, instances, ids, deaths and time-outs and whatever applications do:

| theorem | statement |
|---|---|
| `Invariance`, `RemoteTypeCorrect` | `Spec => []IInv`, `Spec => []TypeOK` |
| `EntriesAreAlive` | `Spec => []NoDanglingEntry` |
| `ReferencesAreHeld` | `Spec => []HeldByApplications` |
| `IdsAreUnique` | `Spec => []UniqueIds`, if the daemon does not die (`MaxCrashes = 0`) |

`SfcdMethodsProofs` holds the lemmas about the contracts of methods that the proofs above and below rest on: which groups have a setter, a query or
`sfcd_run`, in which states they are refused, and what they leave.

`RemoteMailProofs` proves, for every number of instances and ids:

| theorem | statement | if |
|---|---|---|
| `DaemonAsSpecified` | `Spec => Daemon!Spec` | the daemon does not die |
| `SteadyInvariance` | `Spec => []SteadyInv` | the daemon does not die |
| `DestroyedStaySilent` | `Spec => SilentAfterDestroy` | the daemon does not die |
| `AloneInvariance` | `Spec => []AloneInv` | `Alone` |
| `SignalsFindTheirInstances` | `Spec => []AllAlive` | `Alone` |
| `TablesInvariance`, `TablesGoTogether` | `Spec => []TablesInv`, `Spec => []TablesAgree` | `Alone`, and no call is given up |
| `ReportsInvariance`, `ReportsTellTheState` | `Spec => []ReportsInv`, `Spec => []ReportsAreCurrent` | `Alone`, no call is given up, and applications are not `eager` |

The first three are of any number of processes and whatever applications do.  `Alone` is one process, a daemon that does
not die, parent windows that outlive their dialogs, and no call of a list or of `rfcd_set_extra_widget`.  Each part is needed: the signals of one process kill another
(`remote_strangers`), ids start again with the daemon, so that a signal may be for an instance of the same id or for
none, a dialog disposed of after its parent works on a freed window, a list may never end, and a failed `rfcd_set_extra_widget` leaves a pointer behind.  A call that is given up may
create a dialog that nobody knows, or run one whose application does not wait for it.  `remote` satisfies all these hypotheses,
with the liberties `use_destroyed` and `parent`.

`LfcdThreadsProofs` proves, for every number of threads and set of methods, if the application is `Cautious`:

| theorem | statement |
|---|---|
| `Invariance`, `ThreadsTypeCorrect` | `Spec => []IInv`, `Spec => []TypeOK` |
| `TestsHold` | `Spec => []ActsOnWhatItTested` |
| `ThreadsLetRunsRun` | `Spec => []RunKeepsRunning` |
| `ObjectOutlivesMethods` | `Spec => []NoUseAfterFree` |
| `RefusalsAreReported` | `Spec => []NoAcceptanceInvented` |

The theorems on local dialogs and on the daemon rest on `ServerAssumption` (the methods called are methods of the interface, `NoCaller` is no
caller, two extra references are allowed, and callers use no dialog after its `destroy`, for references are the daemon's) and on `LfcdAssumption`: `NoDialog` is no dialog, the initial selection and
options are among the possible ones, `MaxExtra` is a natural number, and `ClientMay`
names known liberties.  Nothing is finite by assumption.  `Careful` adds that the application ties no dialog
to a parent window, does not use a dialog after its `destroy` signal, and does not
destroy one that its user has just closed; `close_and_destroy` shows that the last is needed.

### The argument

`IInv` is `TypeOK /\ RefsAccounted /\ EachRunOnce /\ Shape`.

* `RefsAccounted` is nearly inductive: each action moves a reference from one holder to
  another.  The end of a closed run gives two up, and is only balanced if its
  creator still holds the dialog; when not, the process is dead, where
  `RefsAccounted` claims nothing.
* It needs to know that a run's dialog exists when its report begins, and that a
  dialog that is created again has no run left, no place in a queue and no report
  in progress: `Shape` ties phases to states (`RunsInState`), and the screen to
  dialogs that exist (`ScreenInState`).
* `EachRunOnce` needs that `Run` is refused while a run is in progress, which is again
  `RunsInState`, for refusal is decided by the state and not by the phase.
* `ResponseLeavesRunning` needs `NoEarlyResponse`: a dialog that runs has not heard a
  `response` since `sfcd_run`, or its emission would not be seen as one.
* `ImplementsProtocol` needs `NoStaleAnswer` (without a run there is no answer left from an
  earlier one), or a new run would start agreed; `UserChoiceIntact` shares the part on content.

`NoFault` and `WaitsOnScreen` hold of some applications only, and have invariants of their own on
top: `CInv` says that a closed dialog has its creator to give its reference up, and
that what is on the screen belongs to a run that listens.  `LoopsWaitOnScreen` strengthens its
goal to the runs that are still queued.

The proof that a step preserves a part of `IInv` has one lemma per group of
actions that write the same variables and names, in each, the dialog the action is of;
other dialogs keep their values, which one lemma per part says once.

`SInv`, the invariant of the daemon, is `IInv` with five parts of its own.  `ServerTypes` and `JobShape`
say what a handler at each step knows of its dialog and its caller.  `Holdings` is
`TableBalanced` made inductive: in the middle of a handler the references depend on the step, so it counts
those of the table and those of the handler apart, and ties `owned` and `connected` to the
table; without the latter a run that ends while a dialog is being removed could
speak of it.  `Heard` ties the signals on the bus to what the daemon holds, which is
`DestroyToldOnce`, and makes `SilentAfterDestroy` follow: a dialog that was told to be
destroyed is out of `owned`, so out of the table.  `CallsInv` says that no caller has two calls in the
queue or with a handler, or one answer would be taken for that of both.
`IInv` is preserved because each step of the daemon is one of the library (`LibraryStep`).

*The refinement.*  `DaemonKeepsItsPromise` adds `Tidy` to `SInv`: a queued call names a dialog
unless it is for a new one, and the handler at work is one for the method of its call.  A step of the daemon maps to the
step of `SfcdServerSpec` at which the answer is sent, or to a stutter; a `destroy` of a
caller maps to `Destroy` when the signal is emitted.  That a dialog told to be destroyed is `gone`, and no other, is `Heard` of `SInv`.

*The remote client.*  `IInv` is `TypeOK`, the two properties and what a call in progress knows
(`AskedInv`, `CallingInv`, `ParentInv`).  `NoDanglingEntry` is inductive with little help, because `rfcd_dispose` takes
away whatever the table has under its id: too much if ids are not unique, never too little.  `HeldByApplications` says
nothing of dead processes: the second unref of `OnDestroy` is also the death of its process.
`IdsAreUnique` rests on `AnswersInv` (an unanswered call is the one its process waits for, or was given up, so a
late answer is not taken for another) and on `IdsInv` (the ids a process has, or is about to have,
are no longer `unborn`).

*The order of the mail.*  A daemon that lives speaks of a dialog only while it has it, so a farewell is the last word on
its dialog in the mail of every process, and is about one that is `gone` (`MailInv`).  `FarewellInv` follows an instance
with that: it is in the table as long as its creator holds it, which is until its process takes the farewell, and from
then on no mail mentions it.  Two steps could still speak up after `destroy`: a response, which `FarewellInv` excludes,
and the return of `rfcd_run`, which starts the history of a dialog anew; `ErrandInv` says that a run that began is that of a
dialog whose farewell the process has not taken, for it takes nothing while it waits.

Of one process, `AloneInv` says that whatever is said, asked or run is about an instance that its creator holds: calls
come from instances, runs from calls, signals from runs and calls.  So `OnStranger` never happens, and `OnDestroy`
finds the reference of the creation.  `TablesInv` completes the circle: a dialog that exists has an
instance or an answer that carries its id to `rfcd_new`, and one that is gone has its farewell in the mail.  `ReportsInv`
says that a response in the mail is the only one on its dialog, which does not run, and is for an instance that expects it
(`Expecting`: it was run, or will be as soon as `rfcd_run` returns), while no call that could change its dialog is
on its way.  The part on RUNNING dialogs is what makes it inductive: the response of a run finds its
instance still waiting.  TLC checked these invariants on instances of `remote` before they were proved.

*Threads.*  `MutexInv` is mutual exclusion: whoever is past `Lock` is the holder.  `ActInv` then says that the state a thread has read is
still the state.  `RefsInv` counts the four holders, one of which is a thread between the unlock and
the unref of `sfcd_destroy`; `DestroyInv` says there is at most one, and `ClosedInv` that a
dialog whose window was closed still belongs to an application that calls nothing, which is where `Cautious` enters.

### Checked, not proved

* Liveness: `RunsEnd`, `HiddenRunsEnd`, `Released`, `CallsComplete`, `DestroyedAreDisposed`, `CallsReturn`,
  `FarewellsAreHeard`, `MutexComesBack`.  Liveness under fairness is beyond the proof system's backends here.

Every invariant and every action property that a run checks is stated by a theorem, under the same hypotheses on
applications as in the run or weaker ones.

## 5. Plan

The order is that of importance: first what every other component builds on.

| step | module | content | checks | theorems |
|---|---|---|---|---|
| done | `SfcdMethods`, `SfcdMethodsProofs`, `SfcdProtocol`, `LocalFileChooserDialog`, `LfcdProofs` | local dialogs on one thread | five runs | eleven |
| done | `SfcdServer`, `ServerProofs` | the daemon | two runs | eight |
| done | `SfcdServerSpec`, `ServerSpecProofs` | what the daemon promises | in `server` | the refinement |
| done | `RemoteFileChooserDialog`, `RemoteProofs`, `RemoteMailProofs` | sandboxed processes, a daemon that dies and restarts; the order of their mail; parent windows | three runs | twelve listed |
| done | `LfcdThreads`, `LfcdThreadsProofs` | threads and `stateMutex` | two runs | six |
| 1 | `AcceptButtons` | the filter of buttons and the reading of the list by `lfcd_new_variant` and `lfcd_new_valist` | against a reference definition over lists of up to 3 buttons | lemmas on the filter |
