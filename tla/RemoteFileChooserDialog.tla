----------------------- MODULE RemoteFileChooserDialog -----------------------
(***************************************************************************)
(* lib/remotefilechooserdialog.c: file chooser dialogs of sandboxed        *)
(* processes, each standing for a dialog that the daemon holds.            *)
(*                                                                         *)
(* A method is a synchronous call on the bus: its process does nothing     *)
(* else until the answer is there, or the bus library gives up waiting,    *)
(* and what the daemon signals meanwhile is kept for its main loop.  The   *)
(* daemon is SfcdServerSpec, of which SfcdServer is shown to be an         *)
(* implementation; it may die at any time, is restarted, and counts its    *)
(* dialogs from zero then.                                                 *)
(***************************************************************************)
EXTENDS SfcdMethods, Integers, SequencesExt

CONSTANTS
  Procs,       \* the sandboxed processes
  Objects,     \* their instances, a finite pool: a disposed one may be created again
  Home,        \* Home[o]: the process of o
  NoObject,    \* no instance
  Dialogs,     \* the ids that a daemon gives out
  NoDialog,    \* no id
  Calls,       \* the methods that are called
  MaxExtra,    \* bound: references an application takes beside that of the creation
  MaxTimeouts, \* bound: calls of a process that the bus library gives up
  MaxCrashes,  \* bound: deaths of the daemon
  ClientMay    \* what applications do (see ClientLiberties)

ClientLiberties ==
  { "eager",          \* configure or run a dialog before they hear how its run ended
    "use_destroyed",  \* keep using a dialog that they hold after its destroy signal
    "parent",         \* tie a dialog to a parent window, and close that window
    "lose_parent" }   \* let GTK destroy the window that is closed, as it does by default

ASSUME RemoteAssumption ==
  /\ Home \in [Objects -> Procs]
  /\ NoObject \notin Objects
  /\ NoDialog \notin Dialogs
  /\ Calls \subseteq DialogMethods \cup {"new", "destroy"}
  /\ MaxExtra \in Nat /\ MaxTimeouts \in Nat /\ MaxCrashes \in Nat
  /\ ClientMay \subseteq ClientLiberties
  /\ "parent" \in ClientMay => "destroy" \in Calls

VARIABLES
  \* the daemon, as its callers see it
  mode, asked, said,
  epoch,      \* how often it died
  up,         \* it has the name on the bus
  \* RemoteFileChooserDialogClass, in each process
  subscribed, \* the processes that have a proxy
  owner,      \* owner[p]: the epoch of the daemon that the proxy of p talks to, or NoOwner
  instances,  \* instances[p][d]: the instance under this id in the table of p, or NoObject
  \* RemoteFileChooserDialogPrivate, and the GObject
  refs,       \* refs[o]: the reference count, 0 when there is no object
  remote_id,  \* remote_id[o]: the id of its dialog
  widget,     \* widget[o]: what became of the reference to extra_widget
  withParent, \* the instances whose destroy_with_parent is set
  orphans,    \* the instances whose local_parent was destroyed
  \* the bus library in each process
  calling,    \* calling[p]: the call that p waits for, or NoCall
  reply,      \* reply[p]: its answer, if there is one
  tries,      \* tries[p]: how many calls of p were given up
  mail,       \* mail[p]: the signals not yet dispatched, the oldest first
  \* what the applications know and hold
  owned,      \* the instances whose creation gave a reference that is still held
  extras,     \* extras[o]: the further references taken and not given back
  awaiting,   \* the instances that were run and gave no signal since
  \* history and failure
  heard,      \* heard[o]: the last signal of o since its creation or last run
  fate        \* fate[p]: "alive", or why p is dead

daemonVars == <<mode, asked, said, epoch, up>>
classVars  == <<subscribed, owner, instances>>
objectVars == <<refs, remote_id, widget, withParent, orphans>>
busVars    == <<calling, reply, tries>>
clientVars == <<owned, extras, awaiting, heard>>
vars == <<daemonVars, classVars, objectVars, busVars, mail, clientVars, fate>>

(* A late answer is told from that of the current call by the tries.       *)
Callers == Procs \X (0..MaxTimeouts)

Daemon == INSTANCE SfcdServerSpec

NoOwner == -1
NoCall  == [method |-> "none", object |-> NoObject]

Answers == [result : {"none", "ok", "failed"}, dialog : Dialogs \cup {NoDialog}]
Silence == [result |-> "none", dialog |-> NoDialog]
Failure == [result |-> "failed", dialog |-> NoDialog]

(* A signal of the daemon, with the state that a response reports, or news *)
(* of the owner of its name on the bus.                                    *)
Mail == [kind : {"response", "destroy"}, dialog : Dialogs, state : SfcdState \cup {"none"}]
          \cup [kind : {"owner"}, epoch : {NoOwner} \cup 0..MaxCrashes]

Fates == {"alive", "no_such_dialog", "over_unref", "parent_gone", "endless_list"}

TypeOK ==
  /\ Daemon!TypeOK
  /\ epoch \in 0..MaxCrashes /\ up \in BOOLEAN
  /\ subscribed \subseteq Procs
  /\ owner \in [Procs -> {NoOwner} \cup 0..MaxCrashes]
  /\ instances \in [Procs -> [Dialogs -> Objects \cup {NoObject}]]
  /\ refs \in [Objects -> Nat]
  /\ remote_id \in [Objects -> Dialogs \cup {NoDialog}]
  /\ widget \in [Objects -> {"none", "held", "dropped"}]
  /\ withParent \subseteq Objects /\ orphans \subseteq Objects
  /\ calling \in [Procs -> [method : Calls \cup {"none"}, object : Objects \cup {NoObject}]]
  /\ reply \in [Procs -> Answers]
  /\ tries \in [Procs -> 0..MaxTimeouts]
  /\ mail \in [Procs -> Seq(Mail)]
  /\ owned \subseteq Objects
  /\ extras \in [Objects -> 0..MaxExtra]
  /\ awaiting \subseteq Objects
  /\ heard \in [Objects -> {"nothing", "response", "destroy"}]
  /\ fate \in [Procs -> Fates]

Init ==
  /\ Daemon!Init
  /\ epoch = 0 /\ up = TRUE
  /\ subscribed = {}
  /\ owner = [p \in Procs |-> NoOwner]
  /\ instances = [p \in Procs |-> [d \in Dialogs |-> NoObject]]
  /\ refs = [o \in Objects |-> 0]
  /\ remote_id = [o \in Objects |-> NoDialog]
  /\ widget = [o \in Objects |-> "none"]
  /\ withParent = {} /\ orphans = {}
  /\ calling = [p \in Procs |-> NoCall]
  /\ reply = [p \in Procs |-> Silence]
  /\ tries = [p \in Procs |-> 0]
  /\ mail = [p \in Procs |-> <<>>]
  /\ owned = {}
  /\ extras = [o \in Objects |-> 0]
  /\ awaiting = {}
  /\ heard = [o \in Objects |-> "nothing"]
  /\ fate = [p \in Procs |-> "alive"]

-----------------------------------------------------------------------------
Alive(p) == fate[p] = "alive"

(* Between two dispatches of the main context of p.                        *)
Idle(p) == Alive(p) /\ calling[p] = NoCall

(* A proxy that knows the owner of the name sends to that one, and to      *)
(* whoever has the name otherwise; nobody starts a daemon for a call.      *)
Reaches(p) == up /\ owner[p] \in {NoOwner, epoch}

(* Mutant of Begin: a call waits for a daemon when there is none.          *)
BeginWaits(p, m, o, d) ==
  /\ calling' = [calling EXCEPT ![p] = [method |-> m, object |-> o]]
  /\ IF Reaches(p)
     THEN Daemon!Ask([caller |-> <<p, tries[p]>>, method |-> m, dialog |-> d])
     ELSE UNCHANGED <<mode, asked, said>>
  /\ UNCHANGED <<epoch, up, tries, reply>>

(* The start of a call: sfcd_dbus_wrapper__call_*_sync.                    *)
Begin(p, m, o, d) ==
  /\ calling' = [calling EXCEPT ![p] = [method |-> m, object |-> o]]
  /\ \/ /\ Reaches(p)
        /\ Daemon!Ask([caller |-> <<p, tries[p]>>, method |-> m, dialog |-> d])
        /\ UNCHANGED reply
     \/ /\ ~Reaches(p)
        /\ reply' = [reply EXCEPT ![p] = Failure]
        /\ UNCHANGED <<mode, asked, said>>
  /\ UNCHANGED <<epoch, up, tries>>

(* ... its return, ...                                                     *)
End(p, result) ==
  /\ Alive(p)
  /\ calling[p] # NoCall
  /\ reply[p].result = result
  /\ calling' = [calling EXCEPT ![p] = NoCall]
  /\ reply' = [reply EXCEPT ![p] = Silence]
  /\ UNCHANGED <<daemonVars, tries, mail>>

(* ... and its end without an answer, after which the daemon still has it. *)
GiveUp(p) ==
  /\ Alive(p)
  /\ calling[p] # NoCall /\ reply[p] = Silence
  /\ tries[p] < MaxTimeouts
  /\ tries' = [tries EXCEPT ![p] = @ + 1]
  /\ reply' = [reply EXCEPT ![p] = Failure]
  /\ UNCHANGED <<daemonVars, classVars, objectVars, calling, mail, clientVars, fate>>

(* An application calls methods of o only through a reference of its own,  *)
(* and leaves a dialog that it runs alone until it hears of it.            *)
Usable(o) ==
  /\ Idle(Home[o])
  /\ refs[o] > 0
  /\ o \in owned \/ (extras[o] > 0 /\ "use_destroyed" \in ClientMay)

Patient(o, m) ==
  o \in awaiting /\ m \in Setters \cup {"run"} => "eager" \in ClientMay

-----------------------------------------------------------------------------
(* Creation and references                                                 *)

Free(p) == {o \in Objects : Home[o] = p /\ refs[o] = 0}

(* The first instance of a process makes its class, and the proxy.         *)
BeginNew(p) ==
  /\ Idle(p)
  /\ Free(p) # {}
  /\ "new" \in Calls
  /\ subscribed' = subscribed \cup {p}
  /\ owner' = IF p \notin subscribed /\ up THEN [owner EXCEPT ![p] = epoch] ELSE owner
  /\ Begin(p, "new", NoObject, NoDialog)
  /\ UNCHANGED <<instances, objectVars, mail, clientVars, fate>>

(* Mutant of Register: an instance is not put into the table.             *)
RegisterNot(p, d, o) == UNCHANGED instances

(* g_hash_table_insert replaces the instance of an id.                     *)
Register(p, d, o) == instances' = [instances EXCEPT ![p][d] = o]

EndNew(p, o) ==
  /\ End(p, "ok")
  /\ calling[p].method = "new"
  /\ o \in Free(p)
  /\ refs' = [refs EXCEPT ![o] = 1]
  /\ remote_id' = [remote_id EXCEPT ![o] = reply[p].dialog]
  /\ Register(p, reply[p].dialog, o)
  /\ widget' = [widget EXCEPT ![o] = "none"]
  /\ withParent' = withParent \ {o} /\ orphans' = orphans \ {o}
  /\ owned' = owned \cup {o}
  /\ extras' = [extras EXCEPT ![o] = 0]
  /\ awaiting' = awaiting \ {o}
  /\ heard' = [heard EXCEPT ![o] = "nothing"]
  /\ UNCHANGED <<subscribed, owner, fate>>

(* Mutants of Unref: it does nothing; it gives up two references; it takes *)
(* the entry away with any reference; a disposed instance stays in the     *)
(* table.                                                                  *)
UnrefNot(o) == UNCHANGED <<refs, subscribed, owner, instances>>

UnrefTwice(o) ==
  /\ refs' = [refs EXCEPT ![o] = @ - 2]
  /\ UNCHANGED <<subscribed, owner, instances>>

UnrefDropsEntry(o) ==
  /\ refs' = [refs EXCEPT ![o] = @ - 1]
  /\ instances' = [instances EXCEPT ![Home[o]][remote_id[o]] = NoObject]
  /\ UNCHANGED <<subscribed, owner>>

UnrefKeepsEntry(o) ==
  /\ refs' = [refs EXCEPT ![o] = @ - 1]
  /\ UNCHANGED <<subscribed, owner, instances>>

(* g_object_unref.  Disposal takes the id out of the table, whichever      *)
(* instance the table has under it.                                        *)
Unref(o) ==
  /\ refs' = [refs EXCEPT ![o] = @ - 1]
  /\ instances' = IF refs[o] = 1
                  THEN [instances EXCEPT ![Home[o]][remote_id[o]] = NoObject]
                  ELSE instances
  /\ UNCHANGED <<subscribed, owner>>

(* Disposal disconnects from local_parent, of which it has no reference.   *)
Disconnect(o, f) ==
  IF refs[o] = 1 /\ o \in orphans THEN [f EXCEPT ![Home[o]] = "parent_gone"] ELSE f

TakeExtra(o) ==
  /\ Usable(o)
  /\ extras[o] < MaxExtra
  /\ extras' = [extras EXCEPT ![o] = @ + 1]
  /\ refs' = [refs EXCEPT ![o] = @ + 1]
  /\ UNCHANGED <<daemonVars, classVars, remote_id, widget, withParent, orphans, busVars,
                 mail, owned, awaiting, heard, fate>>

DropExtra(o) ==
  /\ Idle(Home[o])
  /\ extras[o] > 0
  /\ extras' = [extras EXCEPT ![o] = @ - 1]
  /\ Unref(o)
  /\ fate' = Disconnect(o, fate)
  /\ UNCHANGED <<daemonVars, remote_id, widget, withParent, orphans, busVars, mail,
                 owned, awaiting, heard>>

-----------------------------------------------------------------------------
(* Methods                                                                 *)

(* rfcd_get_extra_widget answers for itself.                               *)
BeginCall(o, m) ==
  /\ Usable(o) /\ Patient(o, m)
  /\ m \in Calls \ {"new", "set_extra_widget", "get_extra_widget"}
  /\ Begin(Home[o], m, o, remote_id[o])
  /\ UNCHANGED <<classVars, objectVars, mail, clientVars, fate>>

(* Lists come as arrays of strings, and are read from the first string on, *)
(* one character further each time, until that is NULL, which it is only   *)
(* for an empty list.                                                      *)
Lists == ShortcutLists \cup {"get_filenames", "get_uris"}

EndRun(p) ==
  /\ End(p, "ok")
  /\ calling[p].method = "run"
  /\ awaiting' = awaiting \cup {calling[p].object}
  /\ heard' = [heard EXCEPT ![calling[p].object] = "nothing"]
  /\ UNCHANGED <<classVars, objectVars, owned, extras, fate>>

EndList(p) ==
  /\ End(p, "ok")
  /\ calling[p].method \in Lists
  /\ \/ UNCHANGED fate
     \/ fate' = [fate EXCEPT ![p] = "endless_list"]
  /\ UNCHANGED <<classVars, objectVars, clientVars>>

EndCall(p) ==
  /\ End(p, "ok")
  /\ calling[p].method \notin Lists \cup {"new", "run", "set_extra_widget"}
  /\ UNCHANGED <<classVars, objectVars, clientVars, fate>>

(* Every method logs the error and returns; rfcd_new returns NULL.         *)
EndFailed(p) ==
  /\ End(p, "failed")
  /\ UNCHANGED <<classVars, objectVars, clientVars, fate>>

(* The reference to the old widget is given up before the call.            *)
BeginSetExtraWidget(o) ==
  /\ Usable(o)
  /\ "set_extra_widget" \in Calls
  /\ Begin(Home[o], "set_extra_widget", o, remote_id[o])
  /\ widget' = [widget EXCEPT ![o] = IF @ = "held" THEN "dropped" ELSE @]
  /\ fate' = IF widget[o] = "dropped" THEN [fate EXCEPT ![Home[o]] = "over_unref"] ELSE fate
  /\ UNCHANGED <<classVars, refs, remote_id, withParent, orphans, mail, clientVars>>

EndSetExtraWidget(p, w) ==
  /\ End(p, "ok")
  /\ calling[p].method = "set_extra_widget"
  /\ widget' = [widget EXCEPT ![calling[p].object] = w]
  /\ UNCHANGED <<classVars, refs, remote_id, withParent, orphans, clientVars, fate>>

SetDestroyWithParent(o, setting) ==
  /\ Usable(o)
  /\ "parent" \in ClientMay
  /\ withParent' = IF setting THEN withParent \cup {o} ELSE withParent \ {o}
  /\ UNCHANGED <<daemonVars, classVars, refs, remote_id, widget, orphans, busVars, mail,
                 clientVars, fate>>

(* _rfcd_on_parent_destroyed answers that the window may go.               *)
ParentClosed(o) ==
  /\ "parent" \in ClientMay
  /\ Idle(Home[o])
  /\ refs[o] > 0 /\ o \notin orphans
  /\ IF o \in withParent
     THEN Begin(Home[o], "destroy", o, remote_id[o])
     ELSE UNCHANGED <<daemonVars, busVars>>
  /\ orphans' \in {orphans, IF "lose_parent" \in ClientMay THEN orphans \cup {o} ELSE orphans}
  /\ UNCHANGED <<classVars, refs, remote_id, widget, withParent, mail, clientVars, fate>>

-----------------------------------------------------------------------------
(* Signals                                                                 *)

Take(p, kind) ==
  /\ Idle(p)
  /\ mail[p] # <<>> /\ Head(mail[p]).kind = kind
  /\ mail' = [mail EXCEPT ![p] = Tail(@)]

(* The handlers take the class of what the lookup returned before they     *)
(* look whether it returned anything.                                      *)
OnStranger(p) ==
  /\ Take(p, "response") \/ Take(p, "destroy")
  /\ instances[p][Head(mail[p]).dialog] = NoObject
  /\ fate' = [fate EXCEPT ![p] = "no_such_dialog"]
  /\ UNCHANGED <<daemonVars, classVars, objectVars, busVars, clientVars>>

OnResponse(p) ==
  LET o == instances[p][Head(mail[p]).dialog]
  IN  /\ Take(p, "response")
      /\ o # NoObject
      /\ awaiting' = awaiting \ {o}
      /\ heard' = [heard EXCEPT ![o] = "response"]
      /\ UNCHANGED <<daemonVars, classVars, objectVars, busVars, owned, extras, fate>>

OnDestroy(p) ==
  LET o == instances[p][Head(mail[p]).dialog]
  IN  /\ Take(p, "destroy")
      /\ o # NoObject
      /\ Unref(o)
      /\ awaiting' = awaiting \ {o}
      /\ heard' = [heard EXCEPT ![o] = "destroy"]
      /\ owned' = owned \ {o}
      /\ fate' = Disconnect(o, IF o \in owned THEN fate
                               ELSE [fate EXCEPT ![p] = "over_unref"])
      /\ UNCHANGED <<daemonVars, remote_id, widget, withParent, orphans, busVars, extras>>

OnOwner(p) ==
  /\ Take(p, "owner")
  /\ owner' = [owner EXCEPT ![p] = Head(mail[p]).epoch]
  /\ UNCHANGED <<daemonVars, subscribed, instances, objectVars, busVars, clientVars, fate>>

-----------------------------------------------------------------------------
(* The daemon, its users, and the one who restarts it                      *)

(* Whoever has a proxy hears every signal of the daemon.                   *)
Broadcast(item) ==
  mail' = [p \in Procs |->
             IF p \in subscribed /\ Alive(p) THEN Append(mail[p], item) ELSE mail[p]]

(* Mutants: the report is sent before the run has ended; no farewell.      *)
ReportEarly(d, state) ==
  Broadcast([kind |-> "response", dialog |-> d, state |-> RUNNING])

FarewellMute(d) == UNCHANGED mail

Report(d, state) == Broadcast([kind |-> "response", dialog |-> d, state |-> state])
Farewell(d)      == Broadcast([kind |-> "destroy", dialog |-> d, state |-> "none"])
News(e)          == Broadcast([kind |-> "owner", epoch |-> e])

Tell(call, result, d) ==
  LET p == call.caller[1]
  IN  reply' = IF call.caller[2] = tries[p]
               THEN [reply EXCEPT ![p] = [result |-> result, dialog |-> d]] ELSE reply

(* No state refuses these.                                                 *)
Refused(call) ==
  /\ call.method \notin UnrefusedQueries \cup {"set_extra_widget"}
  /\ RefusedIn(call.method, mode[call.dialog])

Serve(call) ==
  /\ up
  /\ \/ /\ \E d \in Dialogs : Daemon!Create(call, d) /\ Tell(call, "ok", d)
        /\ UNCHANGED mail
     \/ Daemon!Fail(call) /\ Tell(call, "failed", NoDialog) /\ UNCHANGED mail
     \/ /\ Daemon!Perform(call)
        /\ \/ ~Refused(call) /\ Tell(call, "ok", NoDialog)
           \/ /\ Refused(call) \/ call.method \in ShortcutSetters
              /\ Tell(call, "failed", NoDialog)
        /\ UNCHANGED mail
     \/ /\ Daemon!Destroy(call)
        /\ Tell(call, "ok", NoDialog)
        /\ Farewell(call.dialog)
  /\ UNCHANGED <<epoch, up, classVars, objectVars, calling, tries, clientVars, fate>>

Respond(d, verdict) ==
  /\ up
  /\ Daemon!Respond(d, verdict)
  /\ Report(d, verdict)
  /\ UNCHANGED <<epoch, up, classVars, objectVars, busVars, clientVars, fate>>

Close(d) ==
  /\ up
  /\ Daemon!Close(d)
  /\ Farewell(d)
  /\ UNCHANGED <<epoch, up, classVars, objectVars, busVars, clientVars, fate>>

(* The dialogs of the daemon die with it, and the bus answers its calls.   *)
Crash ==
  /\ up /\ epoch < MaxCrashes
  /\ up' = FALSE /\ epoch' = epoch + 1
  /\ mode' = [d \in Dialogs |-> "unborn"]
  /\ said' = [d \in Dialogs |-> "nothing"]
  /\ asked' = {}
  /\ reply' = [p \in Procs |->
                 IF calling[p] # NoCall /\ reply[p] = Silence THEN Failure ELSE reply[p]]
  /\ News(NoOwner)
  /\ UNCHANGED <<classVars, objectVars, calling, tries, clientVars, fate>>

Restart ==
  /\ ~up
  /\ up' = TRUE
  /\ News(epoch)
  /\ UNCHANGED <<mode, asked, said, epoch, classVars, objectVars, busVars, clientVars, fate>>

-----------------------------------------------------------------------------
Use(o) ==
  \/ TakeExtra(o) \/ DropExtra(o)
  \/ \E m \in Calls : BeginCall(o, m)
  \/ BeginSetExtraWidget(o)
  \/ \E setting \in BOOLEAN : SetDestroyWithParent(o, setting)
  \/ ParentClosed(o)

Returns(p) ==
  \/ \E o \in Objects : EndNew(p, o)
  \/ \E w \in {"held", "none"} : EndSetExtraWidget(p, w)
  \/ EndRun(p) \/ EndList(p) \/ EndCall(p) \/ EndFailed(p)

Dispatch(p) == OnStranger(p) \/ OnResponse(p) \/ OnDestroy(p) \/ OnOwner(p)

Process(p) == BeginNew(p) \/ GiveUp(p) \/ Returns(p) \/ Dispatch(p)

Users(d) == (\E verdict \in SfcdState : Respond(d, verdict)) \/ Close(d)

NobodyLeft == (\A p \in Procs : ~Alive(p)) /\ UNCHANGED vars

Next ==
  \/ \E p \in Procs : Process(p)
  \/ \E o \in Objects : Use(o)
  \/ \E call \in asked : Serve(call)
  \/ \E d \in Dialogs : Users(d)
  \/ Crash \/ Restart \/ NobodyLeft

Spec == Init /\ [][Next]_vars

-----------------------------------------------------------------------------
(* Safety                                                                  *)

(* Nothing kills a process: a signal is for an instance that is there, no  *)
(* reference is given up twice, no parent is used that is gone, every loop *)
(* ends (_rfcd_class_on_response, _rfcd_class_on_destroy, rfcd_dispose,    *)
(* rfcd_set_extra_widget, rfcd_get_filenames).                             *)
AllAlive == \A p \in Procs : Alive(p)

(* What the table of a process has under an id is an instance of that      *)
(* process, which has this id and was not disposed of, so that no signal   *)
(* is emitted on freed memory: whatever becomes of the daemon, disposal    *)
(* takes the entry of its instance away (rfcd_dispose).                    *)
NoDanglingEntry ==
  \A p \in Procs, d \in Dialogs :
    LET o == instances[p][d]
    IN  o # NoObject => refs[o] > 0 /\ remote_id[o] = d /\ Home[o] = p

(* An instance has the references that its application holds, and no other:*)
(* the class keeps none for its table, and the destroy signal gives up that*)
(* of the creation exactly once, as long as it does not kill the process   *)
(* (_rfcd_class_on_destroy, rfcd_destroy, rfcd_new_valist).                *)
HeldByApplications ==
  \A o \in Objects :
    Alive(Home[o]) => refs[o] = extras[o] + (IF o \in owned THEN 1 ELSE 0)

(* "id of this instance" (RemoteFileChooserDialogPrivate): no two instances*)
(* of a process have the same.                                             *)
UniqueIds ==
  \A o1, o2 \in Objects :
    o1 # o2 /\ refs[o1] > 0 /\ refs[o2] > 0 /\ Home[o1] = Home[o2] =>
      remote_id[o1] # remote_id[o2]

(* A report or a farewell that is not heard yet.                           *)
OnItsWay(p, kind, d) ==
  \E item \in ToSet(mail[p]) : item.kind = kind /\ item.dialog = d

(* The dialogs of the daemon and the instances of the processes go together*)
(* as long as the daemon lives and answers in time: a dialog exists for the*)
(* one instance that has its id and is in the table under it, or for a call*)
(* of rfcd_new that is about to return; and the dialog of an instance whose*)
(* creator has not heard of its destruction exists, or the farewell is on  *)
(* its way.                                                                *)
Tables ==
  [d \in Dialogs |->
     {o \in owned : instances[Home[o]][d] = o /\ ~OnItsWay(Home[o], "destroy", d)}]

TablesAgree ==
  \A d \in Dialogs :
    (mode[d] \in SfcdState)
      <=> \/ \E o \in Objects : Tables[d] = {o}
          \/ \E p \in Procs : calling[p].method = "new" /\ reply[p].dialog = d

(* A response that an application hears tells the state that the dialog    *)
(* still is in, unless it is gone: between the end of a run and its report *)
(* no method can have changed it ("the state of the dialog after running", *)
(* the response signal), as long as applications wait for the response.    *)
ReportsAreCurrent ==
  \A p \in Procs : \A item \in ToSet(mail[p]) :
    item.kind = "response" => mode[item.dialog] \in {item.state, "gone"}

(* "if the dialog was destroyed, you will never hear from it again"        *)
(* (sfcd_run), whoever still holds it and calls its methods.               *)
SilentAfterDestroy ==
  [][\A o \in Objects :
       heard[o] = "destroy" /\ refs[o] > 0 /\ refs'[o] > 0 => heard'[o] = "destroy"]_vars

-----------------------------------------------------------------------------
(* Liveness.  Every call is served as long as the daemon lives (this is    *)
(* CallsComplete of SfcdServer), and the bus delivers the answer, or       *)
(* notices the death of the daemon.  Each process has its last call and    *)
(* those it gave up before, so the daemon comes to all of them.            *)

CallFairness ==
  \A p \in Procs :
    /\ WF_vars(Returns(p))
    /\ WF_vars(\E call \in asked : call.caller[1] = p /\ Serve(call))

(* Beyond calls: GLib dispatches signals in turn with whatever makes a      *)
(* process call, and the daemon is restarted ("Restart=always").           *)
Fairness ==
  /\ CallFairness
  /\ \A p \in Procs : SF_vars(Dispatch(p))
  /\ WF_vars(Restart)

CallSpec == Spec /\ CallFairness
FairSpec == Spec /\ Fairness

(* A method returns: the daemon answers, or dies, or the bus library gives *)
(* up; nothing leaves a process waiting (the _sync calls).                 *)
CallsReturn ==
  \A p \in Procs : calling[p] # NoCall ~> (calling[p] = NoCall \/ ~Alive(p))

(* An application hears of the destruction of its dialog and is rid of it, *)
(* whether it asked for it or the user closed the window: rfcd_destroy     *)
(* leaves that to _rfcd_class_on_destroy.                                  *)
FarewellsAreHeard ==
  \A o \in Objects :
    (o \in owned /\ mode[remote_id[o]] = "gone") ~> (o \notin owned \/ ~Alive(Home[o]))
=============================================================================
