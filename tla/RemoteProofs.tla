---------------------------- MODULE RemoteProofs ----------------------------
(***************************************************************************)
(* Proofs about RemoteFileChooserDialog, for any number of processes,      *)
(* instances, dialogs, timeouts and deaths of the daemon, and whatever the *)
(* applications do: the references and the tables of the processes.        *)
(***************************************************************************)
EXTENDS RemoteFileChooserDialog, SfcdMethodsProofs

(* Calls name a dialog, unless they create one.                            *)
AskedInv ==
  \A call \in asked : (call.method = "new") <=> (call.dialog = NoDialog)

(* A process that waits in a method of an instance knows the instance.     *)
CallingInv ==
  \A p \in Procs :
    calling[p].method \in {"run", "set_extra_widget"} => calling[p].object \in Objects

(* Parent windows matter to applications that have some, and are missed by *)
(* those that let them go.                                                 *)
ParentInv ==
  /\ withParent # {} => "parent" \in ClientMay
  /\ orphans # {} => "lose_parent" \in ClientMay

IInv ==
  /\ TypeOK
  /\ AskedInv /\ CallingInv /\ ParentInv
  /\ NoDanglingEntry /\ HeldByApplications

(* A call that the daemon has not answered is that which its process waits *)
(* for, or one that was given up; no answer waits for a process that does  *)
(* not, and that to rfcd_new is an id.                                     *)
AnswersInv ==
  /\ \A call \in asked : call.caller[2] <= tries[call.caller[1]]
  /\ \A call \in asked, p \in Procs :
       call.caller = <<p, tries[p]>> => reply[p] = Silence /\ calling[p].method = call.method
  /\ \A call1, call2 \in asked : call1.caller = call2.caller => call1 = call2
  /\ \A p \in Procs : calling[p] = NoCall => reply[p] = Silence
  /\ \A p \in Procs :
       calling[p].method = "new" /\ reply[p].result = "ok" => reply[p].dialog \in Dialogs

(* The ids that a process has or is about to have are no longer given out. *)
IdsInv ==
  /\ \A o \in Objects :
       refs[o] > 0 => remote_id[o] \in Dialogs /\ mode[remote_id[o]] # "unborn"
  /\ \A p \in Procs : reply[p].dialog # NoDialog => mode[reply[p].dialog] # "unborn"
  /\ \A o \in Objects :
       refs[o] > 0 /\ reply[Home[o]].dialog # NoDialog => remote_id[o] # reply[Home[o]].dialog
  /\ UniqueIds

-----------------------------------------------------------------------------
(* The parts of TypeOK that change together.                               *)
DaemonTypes == Daemon!TypeOK /\ epoch \in 0..MaxCrashes /\ up \in BOOLEAN

BusTypes ==
  /\ calling \in [Procs -> [method : Calls \cup {"none"}, object : Objects \cup {NoObject}]]
  /\ reply \in [Procs -> Answers]
  /\ tries \in [Procs -> 0..MaxTimeouts]

ClassTypes ==
  /\ subscribed \subseteq Procs
  /\ owner \in [Procs -> {NoOwner} \cup 0..MaxCrashes]
  /\ instances \in [Procs -> [Dialogs -> Objects \cup {NoObject}]]

ObjectTypes ==
  /\ refs \in [Objects -> Nat]
  /\ remote_id \in [Objects -> Dialogs \cup {NoDialog}]
  /\ widget \in [Objects -> {"none", "held", "dropped"}]
  /\ withParent \subseteq Objects /\ orphans \subseteq Objects

MailTypes == mail \in [Procs -> Seq(Mail)]

ClientTypes ==
  /\ owned \subseteq Objects
  /\ extras \in [Objects -> 0..MaxExtra]
  /\ awaiting \subseteq Objects
  /\ heard \in [Objects -> {"nothing", "response", "destroy"}]

FateTypes == fate \in [Procs -> Fates]

LEMMA Types ==
  TypeOK <=> /\ DaemonTypes /\ BusTypes /\ ClassTypes /\ ObjectTypes
             /\ MailTypes /\ ClientTypes /\ FateTypes
BY DEF TypeOK, DaemonTypes, BusTypes, ClassTypes, ObjectTypes, MailTypes, ClientTypes, FateTypes

(* The start of a call, its end, and what a disposal does to the tables.   *)
LEMMA BeginTypes ==
  ASSUME DaemonTypes, BusTypes, NEW p \in Procs, NEW m \in Calls,
         NEW o \in Objects \cup {NoObject}, NEW d \in Dialogs \cup {NoDialog},
         Begin(p, m, o, d)
  PROVE  DaemonTypes' /\ BusTypes'
<1>1. calling' \in [Procs -> [method : Calls \cup {"none"}, object : Objects \cup {NoObject}]]
  BY DEF Begin, BusTypes
<1>2. reply' \in [Procs -> Answers]
  BY DEF Begin, BusTypes, Answers, Failure
<1>3. asked' \in SUBSET Daemon!Call
  <2>1. <<p, tries[p]>> \in Callers
    BY DEF BusTypes, Callers
  <2>2. [caller |-> <<p, tries[p]>>, method |-> m, dialog |-> d] \in Daemon!Call
    BY <2>1 DEF Daemon!Call
  <2>3. QED  BY <2>2 DEF Begin, Daemon!Ask, DaemonTypes, Daemon!TypeOK
<1>4. UNCHANGED <<mode, said, epoch, up, tries>>
  BY DEF Begin, Daemon!Ask
<1>5. QED  BY <1>1, <1>2, <1>3, <1>4 DEF DaemonTypes, BusTypes, Daemon!TypeOK

LEMMA EndTypes ==
  ASSUME DaemonTypes, BusTypes, MailTypes, NEW p \in Procs, NEW result, End(p, result)
  PROVE  DaemonTypes' /\ BusTypes' /\ MailTypes'
<1>1. calling' \in [Procs -> [method : Calls \cup {"none"}, object : Objects \cup {NoObject}]]
  BY DEF End, BusTypes, NoCall
<1>2. reply' \in [Procs -> Answers]
  BY DEF End, BusTypes, Answers, Silence
<1>3. QED
  BY <1>1, <1>2 DEF End, daemonVars, DaemonTypes, BusTypes, MailTypes, Daemon!TypeOK

LEMMA UnrefTypes ==
  ASSUME ClassTypes, refs \in [Objects -> Nat], NEW o \in Objects, refs[o] > 0, Unref(o)
  PROVE  ClassTypes' /\ refs' \in [Objects -> Nat]
<1>1. refs[o] - 1 \in Nat
  OBVIOUS
<1>2. QED  BY <1>1 DEF Unref, ClassTypes

LEMMA BroadcastTypes ==
  ASSUME MailTypes, NEW item \in Mail, Broadcast(item)
  PROVE  MailTypes'
BY DEF MailTypes, Broadcast

LEMMA TakeTypes ==
  ASSUME MailTypes, NEW p \in Procs, NEW kind, Take(p, kind)
  PROVE  /\ MailTypes'
         /\ Head(mail[p]) \in Mail /\ Head(mail[p]).kind = kind
<1>1. mail[p] \in Seq(Mail) /\ mail[p] # <<>>
  BY DEF Take, MailTypes
<1>2. Head(mail[p]) \in Mail /\ Tail(mail[p]) \in Seq(Mail)
  BY <1>1
<1>3. QED  BY <1>2 DEF Take, MailTypes

(* The daemon has the same words for the states.                           *)
LEMMA DaemonStates ==
  /\ Daemon!CONFIGURATION = CONFIGURATION /\ Daemon!RUNNING = RUNNING
  /\ Daemon!DATA_RETRIEVAL = DATA_RETRIEVAL
  /\ Daemon!SfcdState = SfcdState
  /\ SfcdState \cup {CONFIGURATION, RUNNING, DATA_RETRIEVAL, "unborn", "gone"} = Daemon!Modes
  /\ Daemon!Signals = {"nothing", "response", "destroy"}
BY DEF Daemon!CONFIGURATION, Daemon!RUNNING, Daemon!DATA_RETRIEVAL, Daemon!SfcdState,
       CONFIGURATION, RUNNING, DATA_RETRIEVAL, SfcdState, Daemon!Modes, Daemon!Signals

(* ... and the same forms of methods, ...                                  *)
LEMMA DaemonForms ==
  /\ \A ms : Daemon!Setter(ms) = Setter(ms)
  /\ \A ms : Daemon!Getter(ms) = Getter(ms)
  /\ \A ms : Daemon!Listing(ms) = Listing(ms)
  /\ \A ms : Daemon!Retrieval(ms) = Retrieval(ms)
  /\ \A ms : Daemon!Unrefused(ms) = Unrefused(ms)
  /\ \A m, n : Daemon!Option(m, n) = Option(m, n)
  /\ Daemon!RunMethod = RunMethod /\ Daemon!RunControl = RunControl
<1>1. Daemon!Keeps = Keeps  BY DaemonStates DEF Daemon!Keeps, Keeps
<1>2. \A t : Daemon!Becomes(t) = Becomes(t)  BY DaemonStates DEF Daemon!Becomes, Becomes
<1>3. \A ms : Daemon!Setter(ms) = Setter(ms)
  BY <1>2, DaemonStates DEF Daemon!Setter, Setter
<1>4. \A ms : Daemon!Getter(ms) = Getter(ms)
  BY <1>1, DaemonStates DEF Daemon!Getter, Getter
<1>5. \A ms : Daemon!Listing(ms) = Listing(ms)
  BY <1>1, DaemonStates DEF Daemon!Listing, Listing
<1>6. \A ms : Daemon!Retrieval(ms) = Retrieval(ms)
  BY <1>1, DaemonStates DEF Daemon!Retrieval, Retrieval
<1>7. \A ms : Daemon!Unrefused(ms) = Unrefused(ms)
  BY <1>1 DEF Daemon!Unrefused, Unrefused
<1>8. \A m, n : Daemon!Option(m, n) = Option(m, n)
  BY <1>3, <1>4 DEF Daemon!Option, Option
<1>9. Daemon!RunMethod = RunMethod /\ Daemon!RunControl = RunControl
  BY <1>1, <1>2, DaemonStates
  DEF Daemon!RunMethod, RunMethod, Daemon!RunControl, RunControl
<1>10. QED  BY <1>3, <1>4, <1>5, <1>6, <1>7, <1>8, <1>9

(* ... the same groups of methods for the selection, ...                   *)
LEMMA DaemonSelection ==
  /\ Daemon!FilenameSelectors = FilenameSelectors
  /\ Daemon!WholeSelectors = WholeSelectors /\ Daemon!UriSelectors = UriSelectors
  /\ Daemon!NameSetters = NameSetters /\ Daemon!LocationSetters = LocationSetters
BY DaemonForms
DEF Daemon!FilenameSelectors, FilenameSelectors, Daemon!WholeSelectors, WholeSelectors,
    Daemon!UriSelectors, UriSelectors, Daemon!NameSetters, NameSetters,
    Daemon!LocationSetters, LocationSetters

(* ... the options, ...                                                    *)
LEMMA DaemonOptions ==
  /\ Daemon!ActionOption = ActionOption /\ Daemon!LocalOnlyOption = LocalOnlyOption
  /\ Daemon!SelectMultipleOption = SelectMultipleOption
  /\ Daemon!ShowHiddenOption = ShowHiddenOption
  /\ Daemon!OverwriteOption = OverwriteOption
  /\ Daemon!CreateFoldersOption = CreateFoldersOption
BY DaemonForms
DEF Daemon!ActionOption, ActionOption, Daemon!LocalOnlyOption, LocalOnlyOption,
    Daemon!SelectMultipleOption, SelectMultipleOption, Daemon!ShowHiddenOption,
    ShowHiddenOption, Daemon!OverwriteOption, OverwriteOption,
    Daemon!CreateFoldersOption, CreateFoldersOption

(* ... the shortcuts, ...                                                  *)
LEMMA DaemonShortcuts ==
  /\ Daemon!ShortcutEditors = ShortcutEditors /\ Daemon!ShortcutList = ShortcutList
  /\ Daemon!ShortcutUriEditors = ShortcutUriEditors
  /\ Daemon!ShortcutUriList = ShortcutUriList
BY DaemonForms
DEF Daemon!ShortcutEditors, ShortcutEditors, Daemon!ShortcutList, ShortcutList,
    Daemon!ShortcutUriEditors, ShortcutUriEditors, Daemon!ShortcutUriList, ShortcutUriList

(* ... the results, and the rest.                                          *)
LEMMA DaemonQueries ==
  /\ Daemon!FilenameRetrievals = FilenameRetrievals /\ Daemon!FolderQuery = FolderQuery
  /\ Daemon!UriRetrievals = UriRetrievals /\ Daemon!FolderUriQuery = FolderUriQuery
  /\ Daemon!StateQuery = StateQuery
  /\ Daemon!WidgetSetter = WidgetSetter /\ Daemon!WidgetQuery = WidgetQuery
BY DaemonForms
DEF Daemon!FilenameRetrievals, FilenameRetrievals, Daemon!FolderQuery, FolderQuery,
    Daemon!UriRetrievals, UriRetrievals, Daemon!FolderUriQuery, FolderUriQuery,
    Daemon!StateQuery, StateQuery, Daemon!WidgetSetter, WidgetSetter,
    Daemon!WidgetQuery, WidgetQuery

(* ... so that a method does the same to a state for both.                 *)
LEMMA DaemonMethods ==
  /\ Daemon!Setters = Setters
  /\ Daemon!DialogMethods = DialogMethods
  /\ Daemon!Unserved = Unserved
  /\ \A m, s : Daemon!RefusedIn(m, s) <=> RefusedIn(m, s)
  /\ \A m, s : Daemon!After(m, s) = IF RefusedIn(m, s) THEN s ELSE LeftBy(m, s)
<1> USE DaemonForms, DaemonSelection, DaemonOptions, DaemonShortcuts, DaemonQueries
<1>1. Daemon!Setters = Setters
  <2>1. Daemon!SelectionSetters = SelectionSetters
    BY DEF Daemon!SelectionSetters, SelectionSetters
  <2>2. Daemon!OptionSetters = OptionSetters
    BY DEF Daemon!OptionSetters, OptionSetters
  <2>3. Daemon!ShortcutSetters = ShortcutSetters
    BY DEF Daemon!ShortcutSetters, ShortcutSetters
  <2>4. QED  BY <2>1, <2>2, <2>3 DEF Daemon!Setters, Setters
<1>2. Daemon!Queries = Queries
  <2>1. Daemon!OptionGetters = OptionGetters
    BY DEF Daemon!OptionGetters, OptionGetters
  <2>2. /\ Daemon!ShortcutLists = ShortcutLists /\ Daemon!FolderQueries = FolderQueries
        /\ Daemon!Retrievals = Retrievals
    BY DEF Daemon!ShortcutLists, ShortcutLists, Daemon!FolderQueries, FolderQueries,
           Daemon!Retrievals, Retrievals
  <2>3. QED  BY <2>1, <2>2 DEF Daemon!Queries, Queries
<1>3. Daemon!RunControls = RunControls  BY DEF Daemon!RunControls, RunControls
<1>4. Daemon!UnrefusedQueries = UnrefusedQueries
  BY DEF Daemon!UnrefusedQueries, UnrefusedQueries
<1>5. Daemon!DialogMethods = DialogMethods
  BY <1>1, <1>2, <1>3, <1>4 DEF Daemon!DialogMethods, DialogMethods
<1>6. Daemon!Groups = Groups  BY DEF Daemon!Groups, Groups
<1>7. \A m, s : Daemon!RefusedIn(m, s) <=> RefusedIn(m, s)
  BY <1>6 DEF Daemon!RefusedIn, RefusedIn
<1>8. \A m : Daemon!GroupOf(m) = GroupOf(m)  BY <1>6 DEF Daemon!GroupOf, GroupOf
<1>9. \A m, s : Daemon!After(m, s) = IF RefusedIn(m, s) THEN s ELSE LeftBy(m, s)
  BY <1>7, <1>8 DEF Daemon!After, Daemon!LeftBy, LeftBy
<1>10. Daemon!Unserved = Unserved  BY DEF Daemon!Unserved, Unserved
<1>11. QED  BY <1>1, <1>5, <1>7, <1>9, <1>10

(* A method that is performed leaves a state of a living dialog.           *)
LEMMA DaemonAfter ==
  ASSUME NEW m \in Daemon!DialogMethods, NEW s \in Daemon!SfcdState
  PROVE  Daemon!After(m, s) \in SfcdState
<1>1. m \in DialogMethods /\ s \in SfcdState  BY DaemonMethods, DaemonStates
<1>2. LeftBy(m, s) \in SfcdState
  BY <1>1, SettersConfigure, RunRuns, OthersKeep DEF DialogMethods, SfcdState, RunMethod,
     WidgetSetter, Unrefused
<1>3. QED  BY <1>1, <1>2, DaemonMethods

LEMMA LettersTypes ==
  /\ \A item \in Mail :
       /\ item.kind \in {"response", "destroy"} => item.dialog \in Dialogs
       /\ item.kind = "owner" => item.epoch \in {NoOwner} \cup 0..MaxCrashes
  /\ \A d \in Dialogs, s \in SfcdState \cup {"none"} :
       /\ [kind |-> "response", dialog |-> d, state |-> s] \in Mail
       /\ [kind |-> "destroy", dialog |-> d, state |-> "none"] \in Mail
  /\ \A e \in {NoOwner} \cup 0..MaxCrashes : [kind |-> "owner", epoch |-> e] \in Mail
BY DEF Mail

(* A dialog with an entry has an instance; an application has a reference  *)
(* to what it holds, as long as its process lives.                         *)
LEMMA Listed ==
  ASSUME IInv, NEW p \in Procs, NEW d \in Dialogs, instances[p][d] # NoObject
  PROVE  /\ instances[p][d] \in Objects
         /\ refs[instances[p][d]] > 0 /\ remote_id[instances[p][d]] = d
         /\ Home[instances[p][d]] = p
BY DEF IInv, TypeOK, NoDanglingEntry

LEMMA Held ==
  ASSUME IInv, NEW o \in Objects, Alive(Home[o]), extras[o] > 0
  PROVE  refs[o] > 0
<1>1. refs[o] = extras[o] + (IF o \in owned THEN 1 ELSE 0)
  BY DEF IInv, HeldByApplications
<1>2. extras[o] \in Nat
  BY RemoteAssumption DEF IInv, TypeOK, RemoteAssumption
<1>3. QED  BY <1>1, <1>2

-----------------------------------------------------------------------------
LEMMA InitIInv == Init => IInv
<1> SUFFICES ASSUME Init PROVE IInv
  OBVIOUS
<1> USE RemoteAssumption DEF RemoteAssumption, Init
<1>1. DaemonTypes
  BY DEF DaemonTypes, Daemon!TypeOK, Daemon!Init, Daemon!Modes, Daemon!Signals
<1>2. BusTypes
  BY DEF BusTypes, NoCall, Answers, Silence
<1>3. ClassTypes /\ ObjectTypes /\ MailTypes /\ ClientTypes /\ FateTypes
  BY DEF ClassTypes, ObjectTypes, MailTypes, ClientTypes, FateTypes, Fates
<1>4. TypeOK
  BY <1>1, <1>2, <1>3, Types
<1>5. AskedInv /\ ParentInv
  BY DEF AskedInv, ParentInv, Daemon!Init
<1>6. CallingInv
  BY DEF CallingInv, NoCall
<1>7. NoDanglingEntry
  BY DEF NoDanglingEntry
<1>8. HeldByApplications
  BY DEF HeldByApplications
<1>9. QED  BY <1>4, <1>5, <1>6, <1>7, <1>8 DEF IInv

(* Every step keeps the types.                                             *)
LEMMA TypeStep ==
  ASSUME IInv, [Next]_vars
  PROVE  TypeOK'
<1> USE RemoteAssumption DEF RemoteAssumption
<1>a. DaemonTypes /\ BusTypes /\ ClassTypes /\ ObjectTypes /\ MailTypes /\ ClientTypes /\ FateTypes
  BY Types DEF IInv
<1> SUFFICES /\ DaemonTypes' /\ BusTypes' /\ ClassTypes' /\ ObjectTypes'
             /\ MailTypes' /\ ClientTypes' /\ FateTypes'
  BY Types, PTL
<1> DEFINE Typed == /\ DaemonTypes' /\ BusTypes' /\ ClassTypes' /\ ObjectTypes'
                    /\ MailTypes' /\ ClientTypes' /\ FateTypes'
<1>1. ASSUME NEW p \in Procs, BeginNew(p) PROVE Typed
  <2>1. DaemonTypes' /\ BusTypes'
    BY <1>a, <1>1, BeginTypes DEF BeginNew
  <2>2. ClassTypes'
    BY <1>a, <1>1 DEF BeginNew, ClassTypes, DaemonTypes
  <2>3. QED
    BY <1>a, <1>1, <2>1, <2>2
       DEF BeginNew, objectVars, clientVars, ObjectTypes, MailTypes, ClientTypes, FateTypes
<1>2. ASSUME NEW p \in Procs, GiveUp(p) PROVE Typed
  <2>1. BusTypes'
    BY <1>a, <1>2 DEF GiveUp, BusTypes, Answers, Failure
  <2>2. DaemonTypes'
    BY <1>a, <1>2 DEF GiveUp, daemonVars, DaemonTypes, Daemon!TypeOK
  <2>3. QED
    BY <1>a, <1>2, <2>1, <2>2
       DEF GiveUp, classVars, objectVars, clientVars, ClassTypes, ObjectTypes, MailTypes,
           ClientTypes, FateTypes
<1>3. ASSUME NEW p \in Procs, NEW o \in Objects, EndNew(p, o) PROVE Typed
  <2>1. DaemonTypes' /\ BusTypes' /\ MailTypes'
    BY <1>a, <1>3, EndTypes DEF EndNew
  <2>2. reply[p].dialog \in Dialogs \cup {NoDialog}
    BY <1>a DEF BusTypes, Answers
  <2>3. ClassTypes'
    BY <1>a, <1>3, <2>2 DEF EndNew, Register, ClassTypes
  <2>4. ObjectTypes'
    BY <1>a, <1>3, <2>2 DEF EndNew, ObjectTypes
  <2>5. QED
    BY <1>a, <1>3, <2>1, <2>3, <2>4 DEF EndNew, ClientTypes, FateTypes
<1>4. ASSUME NEW p \in Procs, NEW w \in {"held", "none"}, EndSetExtraWidget(p, w) PROVE Typed
  <2>1. DaemonTypes' /\ BusTypes' /\ MailTypes'
    BY <1>a, <1>4, EndTypes DEF EndSetExtraWidget
  <2>2. QED
    BY <1>a, <1>4, <2>1
       DEF EndSetExtraWidget, classVars, clientVars, ClassTypes, ObjectTypes, ClientTypes, FateTypes
<1>5. ASSUME NEW p \in Procs, EndRun(p) PROVE Typed
  <2>1. DaemonTypes' /\ BusTypes' /\ MailTypes'
    BY <1>a, <1>5, EndTypes DEF EndRun
  <2>2. calling[p].object \in Objects
    BY <1>5 DEF EndRun, IInv, CallingInv
  <2>3. QED
    BY <1>a, <1>5, <2>1, <2>2
       DEF EndRun, classVars, objectVars, ClassTypes, ObjectTypes, ClientTypes, FateTypes
<1>6. ASSUME NEW p \in Procs, EndList(p) PROVE Typed
  <2>1. DaemonTypes' /\ BusTypes' /\ MailTypes'
    BY <1>a, <1>6, EndTypes DEF EndList
  <2>2. QED
    BY <1>a, <1>6, <2>1
       DEF EndList, classVars, objectVars, clientVars, ClassTypes, ObjectTypes, ClientTypes,
           FateTypes, Fates
<1>7. ASSUME NEW p \in Procs, EndCall(p) \/ EndFailed(p) PROVE Typed
  <2>1. DaemonTypes' /\ BusTypes' /\ MailTypes'
    BY <1>a, <1>7, EndTypes DEF EndCall, EndFailed
  <2>2. QED
    BY <1>a, <1>7, <2>1
       DEF EndCall, EndFailed, classVars, objectVars, clientVars, ClassTypes, ObjectTypes,
           ClientTypes, FateTypes
<1>8. ASSUME NEW p \in Procs, OnStranger(p) PROVE Typed
  <2>1. MailTypes'
    BY <1>a, <1>8, TakeTypes DEF OnStranger
  <2>2. QED
    BY <1>a, <1>8, <2>1
       DEF OnStranger, daemonVars, classVars, objectVars, busVars, clientVars, DaemonTypes,
           Daemon!TypeOK, BusTypes, ClassTypes, ObjectTypes, ClientTypes, FateTypes, Fates
<1>9. ASSUME NEW p \in Procs, OnResponse(p) PROVE Typed
  <2>1. MailTypes' /\ Head(mail[p]).dialog \in Dialogs
    BY <1>a, <1>9, TakeTypes, LettersTypes DEF OnResponse
  <2>2. instances[p][Head(mail[p]).dialog] \in Objects
    BY <1>9, <2>1, Listed DEF OnResponse
  <2>3. ClientTypes'
    BY <1>a, <1>9, <2>2 DEF OnResponse, ClientTypes
  <2>4. QED
    BY <1>a, <1>9, <2>1, <2>3
       DEF OnResponse, daemonVars, classVars, objectVars, busVars, DaemonTypes, Daemon!TypeOK,
           BusTypes, ClassTypes, ObjectTypes, FateTypes
<1>10. ASSUME NEW p \in Procs, OnDestroy(p) PROVE Typed
  <2> DEFINE o == instances[p][Head(mail[p]).dialog]
  <2>1. MailTypes' /\ Head(mail[p]).dialog \in Dialogs
    BY <1>a, <1>10, TakeTypes, LettersTypes DEF OnDestroy
  <2>2. o \in Objects /\ refs[o] > 0
    BY <1>10, <2>1, Listed DEF OnDestroy
  <2>3. Unref(o)
    BY <1>10 DEF OnDestroy
  <2>4. ClassTypes' /\ refs' \in [Objects -> Nat]
    <3> HIDE DEF o
    <3>1. QED  BY <1>a, <2>2, <2>3, UnrefTypes DEF ObjectTypes
  <2>5. ObjectTypes'
    BY <1>a, <1>10, <2>4 DEF OnDestroy, ObjectTypes
  <2>6. ClientTypes' /\ FateTypes'
    BY <1>a, <1>10, <2>2 DEF OnDestroy, Disconnect, ClientTypes, FateTypes, Fates
  <2>7. QED
    BY <1>a, <1>10, <2>1, <2>4, <2>5, <2>6
       DEF OnDestroy, daemonVars, busVars, DaemonTypes, Daemon!TypeOK, BusTypes
<1>11. ASSUME NEW p \in Procs, OnOwner(p) PROVE Typed
  <2>1. MailTypes' /\ Head(mail[p]).epoch \in {NoOwner} \cup 0..MaxCrashes
    BY <1>a, <1>11, TakeTypes, LettersTypes DEF OnOwner
  <2>2. QED
    BY <1>a, <1>11, <2>1
       DEF OnOwner, daemonVars, objectVars, busVars, clientVars, DaemonTypes, Daemon!TypeOK,
           BusTypes, ClassTypes, ObjectTypes, ClientTypes, FateTypes
<1>12. ASSUME NEW o \in Objects, TakeExtra(o) PROVE Typed
  <2>1. ClientTypes'
    BY <1>a, <1>12 DEF TakeExtra, ClientTypes
  <2>2. QED
    BY <1>a, <1>12, <2>1
       DEF TakeExtra, daemonVars, classVars, busVars, DaemonTypes, Daemon!TypeOK, BusTypes,
           ClassTypes, ObjectTypes, MailTypes, FateTypes
<1>13. ASSUME NEW o \in Objects, DropExtra(o) PROVE Typed
  <2>1. refs[o] > 0
    BY <1>13, Held DEF DropExtra, Idle
  <2>2. ClassTypes' /\ refs' \in [Objects -> Nat]
    BY <1>a, <1>13, <2>1, UnrefTypes DEF DropExtra, ObjectTypes
  <2>3. ClientTypes'
    BY <1>a, <1>13 DEF DropExtra, ClientTypes
  <2>4. FateTypes'
    BY <1>a, <1>13 DEF DropExtra, Disconnect, FateTypes, Fates
  <2>5. QED
    BY <1>a, <1>13, <2>2, <2>3, <2>4
       DEF DropExtra, daemonVars, busVars, DaemonTypes, Daemon!TypeOK, BusTypes, ObjectTypes,
           MailTypes
<1>14. ASSUME NEW o \in Objects, NEW m \in Calls, BeginCall(o, m) PROVE Typed
  <2>1. DaemonTypes' /\ BusTypes'
    BY <1>a, <1>14, BeginTypes DEF BeginCall, ObjectTypes
  <2>2. QED
    BY <1>a, <1>14, <2>1
       DEF BeginCall, classVars, objectVars, clientVars, ClassTypes, ObjectTypes, MailTypes,
           ClientTypes, FateTypes
<1>15. ASSUME NEW o \in Objects, BeginSetExtraWidget(o) PROVE Typed
  <2>1. DaemonTypes' /\ BusTypes'
    BY <1>a, <1>15, BeginTypes DEF BeginSetExtraWidget, ObjectTypes
  <2>2. QED
    BY <1>a, <1>15, <2>1
       DEF BeginSetExtraWidget, classVars, clientVars, ClassTypes, ObjectTypes, MailTypes,
           ClientTypes, FateTypes, Fates
<1>16. ASSUME NEW o \in Objects, NEW setting \in BOOLEAN, SetDestroyWithParent(o, setting)
       PROVE  Typed
  BY <1>a, <1>16
     DEF SetDestroyWithParent, daemonVars, classVars, busVars, clientVars, DaemonTypes,
         Daemon!TypeOK, BusTypes, ClassTypes, ObjectTypes, MailTypes, ClientTypes, FateTypes
<1>17. ASSUME NEW o \in Objects, ParentClosed(o) PROVE Typed
  <2>1. "destroy" \in Calls
    BY <1>17 DEF ParentClosed
  <2>2. DaemonTypes' /\ BusTypes'
    <3>1. CASE o \in withParent
      BY <1>a, <1>17, <2>1, <3>1, BeginTypes DEF ParentClosed, ObjectTypes
    <3>2. CASE o \notin withParent
      BY <1>a, <1>17, <3>2
         DEF ParentClosed, daemonVars, busVars, DaemonTypes, Daemon!TypeOK, BusTypes
    <3>3. QED  BY <3>1, <3>2
  <2>3. ObjectTypes'
    BY <1>a, <1>17 DEF ParentClosed, ObjectTypes
  <2>4. QED
    BY <1>a, <1>17, <2>2, <2>3
       DEF ParentClosed, classVars, clientVars, ClassTypes, MailTypes, ClientTypes, FateTypes
<1>18. ASSUME NEW call \in asked, Serve(call) PROVE Typed
  <2>1. call \in Daemon!Call /\ ((call.method = "new") <=> (call.dialog = NoDialog))
    BY <1>a DEF IInv, AskedInv, DaemonTypes, Daemon!TypeOK
  <2>2. call.caller[1] \in Procs /\ call.dialog \in Dialogs \cup {NoDialog}
    BY <2>1 DEF Daemon!Call, Callers
  <2>3. DaemonTypes'
    <3>1. mode \in [Dialogs -> Daemon!Modes] /\ said \in [Dialogs -> Daemon!Signals]
          /\ asked \subseteq Daemon!Call
      BY <1>a DEF DaemonTypes, Daemon!TypeOK
    <3>2. mode' \in [Dialogs -> Daemon!Modes]
      <4>1. {Daemon!CONFIGURATION, Daemon!RUNNING, "gone"} \subseteq Daemon!Modes
        BY DaemonStates
      <4>2. CASE \E d \in Dialogs : Daemon!Create(call, d)
        BY <3>1, <4>1, <4>2 DEF Daemon!Create
      <4>3. CASE Daemon!Fail(call)
        BY <3>1, <4>3 DEF Daemon!Fail
      <4>4. CASE Daemon!Perform(call)
        <5>1. Daemon!After(call.method, mode[call.dialog]) \in Daemon!Modes
          BY <4>4, DaemonAfter, DaemonStates DEF Daemon!Perform
        <5>2. QED  BY <3>1, <4>4, <5>1 DEF Daemon!Perform
      <4>5. CASE Daemon!Destroy(call)
        BY <3>1, <4>1, <4>5 DEF Daemon!Destroy, Daemon!Signal
      <4>6. QED  BY <1>18, <4>2, <4>3, <4>4, <4>5 DEF Serve
    <3>3. said' \in [Dialogs -> Daemon!Signals]
      BY <1>18, <2>2, <3>1
         DEF Serve, Daemon!Create, Daemon!Fail, Daemon!Perform, Daemon!Destroy, Daemon!Signal,
             Daemon!Signals
    <3>4. asked' \subseteq Daemon!Call
      BY <1>18, <3>1 DEF Serve, Daemon!Create, Daemon!Fail, Daemon!Perform, Daemon!Destroy
    <3>5. QED
      BY <1>a, <1>18, <3>2, <3>3, <3>4 DEF Serve, DaemonTypes, Daemon!TypeOK
  <2>4. BusTypes'
    <3>1. \A result \in {"ok", "failed"}, d \in Dialogs \cup {NoDialog} :
            Tell(call, result, d) => reply' \in [Procs -> Answers]
      BY <1>a, <2>2 DEF Tell, BusTypes, Answers
    <3>2. reply' \in [Procs -> Answers]
      BY <1>18, <3>1 DEF Serve
    <3>3. QED  BY <1>a, <1>18, <3>2 DEF Serve, BusTypes
  <2>5. MailTypes'
    <3>1. CASE UNCHANGED mail
      BY <1>a, <3>1 DEF MailTypes
    <3>2. CASE Daemon!Destroy(call) /\ Farewell(call.dialog)
      <4>1. call.dialog \in Dialogs
        BY <2>1, <2>2, <3>2 DEF Daemon!Destroy
      <4>2. QED  BY <1>a, <3>2, <4>1, LettersTypes, BroadcastTypes DEF Farewell
    <3>3. QED  BY <1>18, <3>1, <3>2 DEF Serve
  <2>6. QED
    BY <1>a, <1>18, <2>3, <2>4, <2>5
       DEF Serve, classVars, objectVars, clientVars, ClassTypes, ObjectTypes, ClientTypes, FateTypes
<1>19. ASSUME NEW d \in Dialogs, Users(d) PROVE Typed
  <2>1. DaemonTypes'
    <3>1. {Daemon!CONFIGURATION, Daemon!DATA_RETRIEVAL, "gone"} \subseteq Daemon!Modes
      BY DaemonStates
    <3>2. {"response", "destroy"} \subseteq Daemon!Signals
      BY DaemonStates
    <3>3. CASE \E verdict \in SfcdState : Respond(d, verdict)
      BY <1>a, <3>1, <3>2, <3>3
         DEF Respond, DaemonTypes, Daemon!TypeOK, Daemon!Respond, Daemon!Signal
    <3>4. CASE Close(d)
      BY <1>a, <3>1, <3>2, <3>4
         DEF Close, DaemonTypes, Daemon!TypeOK, Daemon!Close, Daemon!Signal
    <3>5. QED  BY <1>19, <3>3, <3>4 DEF Users
  <2>2. MailTypes'
    BY <1>a, <1>19, LettersTypes, BroadcastTypes
       DEF Users, Respond, Close, Report, Farewell
  <2>3. QED
    BY <1>a, <1>19, <2>1, <2>2
       DEF Users, Respond, Close, classVars, objectVars, busVars, clientVars, BusTypes,
           ClassTypes, ObjectTypes, ClientTypes, FateTypes
<1>20. CASE Crash
  <2>1. DaemonTypes'
    <3>1. epoch + 1 \in 0..MaxCrashes
      BY <1>a, <1>20 DEF Crash, DaemonTypes
    <3>2. Daemon!TypeOK'
      BY <1>20 DEF Crash, Daemon!TypeOK, Daemon!Modes, Daemon!Signals
    <3>3. QED  BY <1>20, <3>1, <3>2 DEF Crash, DaemonTypes
  <2>2. BusTypes'
    BY <1>a, <1>20 DEF Crash, BusTypes, Answers, Failure
  <2>3. MailTypes'
    BY <1>a, <1>20, LettersTypes, BroadcastTypes DEF Crash, News
  <2>4. QED
    BY <1>a, <1>20, <2>1, <2>2, <2>3
       DEF Crash, classVars, objectVars, clientVars, ClassTypes, ObjectTypes, ClientTypes, FateTypes
<1>21. CASE Restart
  <2>1. MailTypes'
    BY <1>a, <1>21, LettersTypes, BroadcastTypes DEF Restart, News, DaemonTypes
  <2>2. QED
    BY <1>a, <1>21, <2>1
       DEF Restart, classVars, objectVars, busVars, clientVars, DaemonTypes, Daemon!TypeOK,
           BusTypes, ClassTypes, ObjectTypes, ClientTypes, FateTypes
<1>22. CASE UNCHANGED vars
  BY <1>a, <1>22
     DEF vars, daemonVars, classVars, objectVars, busVars, clientVars, DaemonTypes, Daemon!TypeOK,
         BusTypes, ClassTypes, ObjectTypes, MailTypes, ClientTypes, FateTypes
<1>23. QED
  BY <1>1, <1>2, <1>3, <1>4, <1>5, <1>6, <1>7, <1>8, <1>9, <1>10, <1>11, <1>12, <1>13, <1>14,
     <1>15, <1>16, <1>17, <1>18, <1>19, <1>20, <1>21, <1>22
     DEF Next, Process, Returns, Dispatch, Use, NobodyLeft

(* Every step keeps what is known of the calls and of parent windows, ...  *)
LEMMA CallsStep ==
  ASSUME IInv, [Next]_vars
  PROVE  AskedInv' /\ CallingInv' /\ ParentInv'
<1>a. AskedInv /\ CallingInv /\ ParentInv /\ BusTypes
  BY Types DEF IInv
<1>b. ASSUME NEW p \in Procs, NEW m, NEW o, NEW d, Begin(p, m, o, d),
             m \in {"run", "set_extra_widget"} => o \in Objects
      PROVE  AskedInv' /\ CallingInv'
  BY <1>a, <1>b DEF Begin, AskedInv, CallingInv, BusTypes, Daemon!Ask
<1>c. ASSUME NEW p \in Procs, NEW result, End(p, result)
      PROVE  AskedInv' /\ CallingInv'
  BY <1>a, <1>c DEF End, NoCall, AskedInv, CallingInv, BusTypes, daemonVars
<1>1. ASSUME NEW p \in Procs, BeginNew(p) PROVE AskedInv' /\ CallingInv' /\ ParentInv'
  BY <1>a, <1>b, <1>1 DEF BeginNew, objectVars, ParentInv
<1>2. ASSUME NEW p \in Procs, GiveUp(p) PROVE AskedInv' /\ CallingInv' /\ ParentInv'
  BY <1>a, <1>2 DEF GiveUp, daemonVars, objectVars, AskedInv, CallingInv, ParentInv
<1>3. ASSUME NEW p \in Procs, NEW o \in Objects, EndNew(p, o)
      PROVE  AskedInv' /\ CallingInv' /\ ParentInv'
  BY <1>a, <1>c, <1>3 DEF EndNew, ParentInv
<1>4. ASSUME NEW p \in Procs, NEW w, EndSetExtraWidget(p, w)
      PROVE  AskedInv' /\ CallingInv' /\ ParentInv'
  BY <1>a, <1>c, <1>4 DEF EndSetExtraWidget, ParentInv
<1>5. ASSUME NEW p \in Procs, EndRun(p) \/ EndList(p) \/ EndCall(p) \/ EndFailed(p)
      PROVE  AskedInv' /\ CallingInv' /\ ParentInv'
  BY <1>a, <1>c, <1>5 DEF EndRun, EndList, EndCall, EndFailed, objectVars, ParentInv
<1>6. ASSUME NEW p \in Procs, Dispatch(p) PROVE AskedInv' /\ CallingInv' /\ ParentInv'
  BY <1>a, <1>6
     DEF Dispatch, OnStranger, OnResponse, OnDestroy, OnOwner, daemonVars, objectVars, busVars,
         AskedInv, CallingInv, ParentInv
<1>7. ASSUME NEW o \in Objects, TakeExtra(o) \/ DropExtra(o)
      PROVE  AskedInv' /\ CallingInv' /\ ParentInv'
  BY <1>a, <1>7 DEF TakeExtra, DropExtra, daemonVars, busVars, AskedInv, CallingInv, ParentInv
<1>8. ASSUME NEW o \in Objects, NEW setting \in BOOLEAN, SetDestroyWithParent(o, setting)
      PROVE  AskedInv' /\ CallingInv' /\ ParentInv'
  BY <1>a, <1>8 DEF SetDestroyWithParent, daemonVars, busVars, AskedInv, CallingInv, ParentInv
<1>9. ASSUME NEW o \in Objects,
             BeginSetExtraWidget(o) \/ ParentClosed(o) \/ \E m \in Calls : BeginCall(o, m)
      PROVE  AskedInv' /\ CallingInv' /\ ParentInv'
  <2>1. Home[o] \in Procs
    BY RemoteAssumption DEF RemoteAssumption
  <2>2. CASE ParentClosed(o) /\ o \notin withParent
    BY <1>a, <2>2
       DEF ParentClosed, daemonVars, busVars, AskedInv, CallingInv, ParentInv
  <2>3. CASE ParentClosed(o) /\ o \in withParent
    BY <1>a, <1>b, <2>1, <2>3 DEF ParentClosed, ParentInv
  <2>4. CASE BeginSetExtraWidget(o) \/ \E m \in Calls : BeginCall(o, m)
    BY <1>a, <1>b, <2>1, <2>4
       DEF BeginSetExtraWidget, BeginCall, objectVars, ParentInv
  <2>5. QED  BY <1>9, <2>2, <2>3, <2>4
<1>10. ASSUME NEW call \in asked, Serve(call) PROVE AskedInv' /\ CallingInv' /\ ParentInv'
  BY <1>a, <1>10
     DEF Serve, Daemon!Create, Daemon!Fail, Daemon!Perform, Daemon!Destroy, objectVars,
         AskedInv, CallingInv, ParentInv
<1>11. ASSUME NEW d \in Dialogs, Users(d) PROVE AskedInv' /\ CallingInv' /\ ParentInv'
  BY <1>a, <1>11
     DEF Users, Respond, Close, Daemon!Respond, Daemon!Close, objectVars, busVars,
         AskedInv, CallingInv, ParentInv
<1>12. CASE Crash \/ Restart
  BY <1>a, <1>12 DEF Crash, Restart, objectVars, busVars, AskedInv, CallingInv, ParentInv
<1>13. CASE UNCHANGED vars
  BY <1>a, <1>13 DEF vars, daemonVars, objectVars, busVars, AskedInv, CallingInv, ParentInv
<1>14. QED
  BY <1>1, <1>2, <1>3, <1>4, <1>5, <1>6, <1>7, <1>8, <1>9, <1>10, <1>11, <1>12, <1>13
     DEF Next, Process, Returns, Use, NobodyLeft

(* ... every step that takes an instance away takes its entry away, ...    *)
LEMMA UnrefEntries ==
  ASSUME IInv, NEW o \in Objects, Unref(o), UNCHANGED remote_id
  PROVE  NoDanglingEntry'
<1> SUFFICES ASSUME NEW p \in Procs, NEW d \in Dialogs, instances'[p][d] # NoObject
             PROVE  /\ refs'[instances'[p][d]] > 0 /\ remote_id'[instances'[p][d]] = d
                    /\ Home[instances'[p][d]] = p
  BY DEF NoDanglingEntry
<1> DEFINE e == instances[p][d]
<1>1. instances'[p][d] = e
  BY DEF IInv, TypeOK, Unref
<1>2. e \in Objects /\ refs[e] > 0 /\ remote_id[e] = d /\ Home[e] = p
  BY <1>1, Listed
<1>3. refs'[e] > 0
  <2>1. CASE e # o
    BY <1>2, <2>1 DEF IInv, TypeOK, Unref
  <2>2. CASE e = o
    <3>1. refs[o] # 1
      BY <1>1, <1>2, <2>2 DEF IInv, TypeOK, Unref
    <3>2. QED  BY <1>2, <2>2, <3>1 DEF IInv, TypeOK, Unref
  <2>3. QED  BY <2>1, <2>2
<1>4. QED  BY <1>1, <1>2, <1>3

LEMMA EntriesStep ==
  ASSUME IInv, [Next]_vars
  PROVE  NoDanglingEntry'
<1>a. NoDanglingEntry
  BY DEF IInv
<1>1. ASSUME NEW p \in Procs, NEW o \in Objects, EndNew(p, o) PROVE NoDanglingEntry'
  <2>1. refs[o] = 0 /\ Home[o] = p
    BY <1>1 DEF EndNew, Free
  <2>2. SUFFICES ASSUME NEW q \in Procs, NEW d \in Dialogs, instances'[q][d] # NoObject
                 PROVE  /\ refs'[instances'[q][d]] > 0 /\ remote_id'[instances'[q][d]] = d
                        /\ Home[instances'[q][d]] = q
    BY DEF NoDanglingEntry
  <2>3. CASE q = p /\ d = reply[p].dialog
    BY <1>1, <2>1, <2>3 DEF EndNew, Register, IInv, TypeOK
  <2>4. CASE ~(q = p /\ d = reply[p].dialog)
    <3>1. instances'[q][d] = instances[q][d]
      BY <1>1, <2>4 DEF EndNew, Register, IInv, TypeOK
    <3>2. instances[q][d] \in Objects \ {o}
      BY <2>1, <2>2, <3>1, Listed
    <3>3. QED  BY <1>1, <2>2, <3>1, <3>2, Listed DEF EndNew, IInv, TypeOK
  <2>5. QED  BY <2>3, <2>4
<1>2. ASSUME NEW p \in Procs, OnDestroy(p) PROVE NoDanglingEntry'
  <2> DEFINE o == instances[p][Head(mail[p]).dialog]
  <2>1. Head(mail[p]).dialog \in Dialogs
    BY <1>2, TakeTypes, LettersTypes, Types DEF OnDestroy, IInv
  <2>2. o \in Objects
    BY <1>2, <2>1, Listed DEF OnDestroy
  <2>3. Unref(o) /\ UNCHANGED remote_id
    BY <1>2 DEF OnDestroy
  <2> HIDE DEF o
  <2>4. QED  BY <2>2, <2>3, UnrefEntries
<1>3. ASSUME NEW o \in Objects, TakeExtra(o) PROVE NoDanglingEntry'
  <2>1. \A e \in Objects : refs[e] > 0 => refs'[e] > 0
    BY <1>3 DEF TakeExtra, IInv, TypeOK
  <2>2. UNCHANGED <<instances, remote_id>>
    BY <1>3 DEF TakeExtra, classVars
  <2>3. QED  BY <2>1, <2>2, Listed DEF NoDanglingEntry
<1>4. ASSUME NEW o \in Objects, DropExtra(o) PROVE NoDanglingEntry'
  BY <1>4, UnrefEntries DEF DropExtra
<1>5. CASE UNCHANGED <<instances, refs, remote_id>>
  BY <1>a, <1>5 DEF NoDanglingEntry
<1>6. QED
  BY <1>1, <1>2, <1>3, <1>4, <1>5
     DEF Next, Process, Returns, Dispatch, Use, NobodyLeft, vars, classVars, objectVars,
         BeginNew, GiveUp, EndSetExtraWidget, EndRun, EndList, EndCall, EndFailed, OnStranger,
         OnResponse, OnOwner, BeginCall, BeginSetExtraWidget, SetDestroyWithParent, ParentClosed,
         Serve, Users, Respond, Close, Crash, Restart

(* ... and the references are those of the applications after it.          *)
LEMMA SameHolders ==
  ASSUME HeldByApplications, UNCHANGED <<refs, extras, owned>>,
         \A p \in Procs : fate'[p] = "alive" => fate[p] = "alive"
  PROVE  HeldByApplications'
BY RemoteAssumption DEF HeldByApplications, Alive, RemoteAssumption

LEMMA HoldersStep ==
  ASSUME IInv, [Next]_vars
  PROVE  HeldByApplications'
<1> USE RemoteAssumption DEF RemoteAssumption
<1>a. HeldByApplications /\ FateTypes /\ ClientTypes /\ refs \in [Objects -> Nat]
  BY Types DEF IInv, ObjectTypes
<1>1. ASSUME NEW p \in Procs, NEW o \in Objects, EndNew(p, o) PROVE HeldByApplications'
  BY <1>a, <1>1 DEF EndNew, HeldByApplications, Alive, ClientTypes
<1>2. ASSUME NEW p \in Procs, OnDestroy(p) PROVE HeldByApplications'
  <2> DEFINE o == instances[p][Head(mail[p]).dialog]
  <2>1. Head(mail[p]).dialog \in Dialogs
    BY <1>2, TakeTypes, LettersTypes, Types DEF OnDestroy, IInv
  <2>2. o \in Objects /\ Home[o] = p /\ refs[o] > 0
    BY <1>2, <2>1, Listed DEF OnDestroy
  <2>3. /\ refs' = [refs EXCEPT ![o] = @ - 1] /\ extras' = extras /\ owned' = owned \ {o}
        /\ \A q \in Procs : fate'[q] = "alive" => fate[q] = "alive"
        /\ fate'[p] = "alive" => o \in owned
    BY <1>a, <1>2, <2>2 DEF OnDestroy, Unref, Disconnect, FateTypes
  <2> HIDE DEF o
  <2>4. SUFFICES ASSUME NEW e \in Objects, fate'[Home[e]] = "alive"
                 PROVE  refs'[e] = extras'[e] + (IF e \in owned' THEN 1 ELSE 0)
    BY DEF HeldByApplications, Alive
  <2>5. fate[Home[e]] = "alive"
    BY <2>3, <2>4
  <2>6. refs[e] = extras[e] + (IF e \in owned THEN 1 ELSE 0)
    BY <1>a, <2>5 DEF HeldByApplications, Alive
  <2>7. CASE e = o
    <3>1. o \in owned
      BY <2>2, <2>3, <2>4, <2>7
    <3>2. QED  BY <1>a, <2>3, <2>6, <2>7, <3>1 DEF ClientTypes
  <2>8. CASE e # o
    BY <1>a, <2>3, <2>6, <2>8
  <2>9. QED  BY <2>7, <2>8
<1>3. ASSUME NEW o \in Objects, TakeExtra(o) PROVE HeldByApplications'
  BY <1>a, <1>3 DEF TakeExtra, HeldByApplications, Alive, ClientTypes
<1>4. ASSUME NEW o \in Objects, DropExtra(o) PROVE HeldByApplications'
  <2>1. \A p \in Procs : fate'[p] = "alive" => fate[p] = "alive"
    BY <1>a, <1>4 DEF DropExtra, Disconnect, FateTypes
  <2>2. QED
    BY <1>a, <1>4, <2>1 DEF DropExtra, Unref, HeldByApplications, Alive, ClientTypes
<1>5. CASE /\ UNCHANGED <<refs, extras, owned>>
           /\ \/ UNCHANGED fate
              \/ \E p \in Procs, why \in Fates \ {"alive"} : fate' = [fate EXCEPT ![p] = why]
  <2>1. \A p \in Procs : fate'[p] = "alive" => fate[p] = "alive"
    BY <1>a, <1>5 DEF FateTypes
  <2>2. QED  BY <1>a, <1>5, <2>1, SameHolders
<1>6. ASSUME NEW p \in Procs, EndList(p) \/ OnStranger(p) PROVE HeldByApplications'
  BY <1>5, <1>6 DEF EndList, OnStranger, objectVars, clientVars, Fates
<1>7. ASSUME NEW o \in Objects, BeginSetExtraWidget(o) PROVE HeldByApplications'
  BY <1>5, <1>7 DEF BeginSetExtraWidget, clientVars, Fates
<1>8. QED
  BY <1>1, <1>2, <1>3, <1>4, <1>5, <1>6, <1>7
     DEF Next, Process, Returns, Dispatch, Use, NobodyLeft, vars, objectVars, clientVars,
         BeginNew, GiveUp, EndSetExtraWidget, EndRun, EndCall, EndFailed,
         OnResponse, OnOwner, BeginCall, SetDestroyWithParent, ParentClosed,
         Serve, Users, Respond, Close, Crash, Restart

-----------------------------------------------------------------------------
(* What the proofs rest on holds in every state.                           *)
THEOREM Invariance == Spec => []IInv
<1>1. IInv /\ [Next]_vars => IInv'
  BY TypeStep, CallsStep, EntriesStep, HoldersStep DEF IInv
<1>2. QED  BY InitIInv, <1>1, PTL DEF Spec

(* The variables have their types, whatever becomes of the daemon, of the  *)
(* calls and of the applications.                                          *)
THEOREM RemoteTypeCorrect == Spec => []TypeOK
BY Invariance, PTL DEF IInv

(* No table has an entry for an instance that is gone: the signals of the  *)
(* daemon, old or new, are never emitted on freed memory (rfcd_dispose).   *)
THEOREM EntriesAreAlive == Spec => []NoDanglingEntry
BY Invariance, PTL DEF IInv

(* The references to an instance are those of its application: the destroy *)
(* signal gives up that of the creation once (_rfcd_class_on_destroy).     *)
THEOREM ReferencesAreHeld == Spec => []HeldByApplications
BY Invariance, PTL DEF IInv

-----------------------------------------------------------------------------
(* The ids, as long as the daemon does not die.                            *)

LEMMA MethodKinds ==
  /\ "none" \notin Calls
  /\ "new" \notin Daemon!DialogMethods
<1>1. \A m \in DialogMethods : m \notin {"none", "new"}
  BY SettersApart, QueriesApart, OthersApart DEF DialogMethods, RunMethod, WidgetSetter, Unrefused
<1>2. "new" \notin Daemon!DialogMethods
  BY <1>1, DaemonMethods
<1>3. QED  BY <1>1, <1>2, RemoteAssumption DEF RemoteAssumption

LEMMA CallTypes ==
  ASSUME IInv, NEW call \in asked
  PROVE  /\ call.caller[1] \in Procs /\ call.caller[2] \in 0..MaxTimeouts
         /\ call.method \in Calls /\ call.method # "none"
         /\ call.dialog \in Dialogs \cup {NoDialog}
<1>1. call \in Daemon!Call
  BY DEF IInv, TypeOK, Daemon!TypeOK
<1>2. call.caller \in Callers /\ call.method \in Calls
      /\ call.dialog \in Dialogs \cup {NoDialog}
  BY <1>1 DEF Daemon!Call
<1>3. QED  BY <1>2, MethodKinds DEF Callers

LEMMA AnswersStep ==
  ASSUME IInv, AnswersInv, [Next]_vars
  PROVE  AnswersInv'
<1> USE RemoteAssumption DEF RemoteAssumption
<1>a. BusTypes
  BY Types DEF IInv
<1>b. ASSUME NEW p \in Procs, NEW m, NEW o, NEW d, m # "none", Idle(p), Begin(p, m, o, d)
      PROVE  AnswersInv'
  <2>1. calling[p] = NoCall /\ reply[p] = Silence
    BY <1>b DEF Idle, AnswersInv
  <2>2. \A call \in asked : call.caller # <<p, tries[p]>>
    BY <2>1, CallTypes DEF AnswersInv, NoCall
  <2>3. /\ calling' = [calling EXCEPT ![p] = [method |-> m, object |-> o]]
        /\ tries' = tries
    BY <1>b DEF Begin
  <2>4. CASE /\ reply' = reply
             /\ Daemon!Ask([caller |-> <<p, tries[p]>>, method |-> m, dialog |-> d])
    <3> DEFINE new == [caller |-> <<p, tries[p]>>, method |-> m, dialog |-> d]
    <3>1. new.caller = <<p, tries[p]>> /\ new.method = m
      OBVIOUS
    <3>2. asked' = asked \cup {new} /\ \A other \in asked : other.caller # new.caller
      BY <2>4 DEF Daemon!Ask
    <3> HIDE DEF new
    <3>3. \A call \in asked' : call.caller[2] <= tries'[call.caller[1]]
      BY <1>a, <2>3, <3>1, <3>2 DEF AnswersInv, BusTypes
    <3>4. ASSUME NEW call \in asked', NEW q \in Procs, call.caller = <<q, tries'[q]>>
          PROVE  reply'[q] = Silence /\ calling'[q].method = call.method
      BY <1>a, <2>1, <2>2, <2>3, <2>4, <3>1, <3>2, <3>4 DEF AnswersInv, BusTypes
    <3>5. \A call1, call2 \in asked' : call1.caller = call2.caller => call1 = call2
      BY <3>2 DEF AnswersInv
    <3>6. ASSUME NEW q \in Procs
          PROVE  /\ calling'[q] = NoCall => reply'[q] = Silence
                 /\ calling'[q].method = "new" /\ reply'[q].result = "ok" =>
                      reply'[q].dialog \in Dialogs
      BY <1>a, <2>1, <2>3, <2>4 DEF AnswersInv, BusTypes, Silence
    <3>7. QED  BY <3>3, <3>4, <3>5, <3>6 DEF AnswersInv
  <2>5. CASE asked' = asked /\ reply' = [reply EXCEPT ![p] = Failure]
    <3>1. \A call \in asked, q \in Procs : call.caller = <<q, tries[q]>> => q # p
      BY <2>2
    <3>2. \A q \in Procs \ {p} : reply'[q] = reply[q] /\ calling'[q] = calling[q]
      BY <1>a, <2>3, <2>5 DEF BusTypes
    <3>3. reply'[p] = Failure /\ calling'[p] # NoCall
      BY <1>a, <1>b, <2>3, <2>5 DEF BusTypes, NoCall
    <3>4. \A q \in Procs :
            /\ calling'[q] = NoCall => reply'[q] = Silence
            /\ calling'[q].method = "new" /\ reply'[q].result = "ok" =>
                 reply'[q].dialog \in Dialogs
      BY <2>5, <3>2, <3>3 DEF AnswersInv, Failure
    <3>5. \A call \in asked, q \in Procs :
            call.caller = <<q, tries[q]>> =>
              reply'[q] = Silence /\ calling'[q].method = call.method
      BY <3>1, <3>2 DEF AnswersInv
    <3>6. QED  BY <2>3, <2>5, <3>4, <3>5 DEF AnswersInv
  <2>6. QED  BY <1>b, <2>4, <2>5 DEF Begin
<1>c. ASSUME NEW p \in Procs, NEW result \in {"ok", "failed"}, End(p, result)
      PROVE  AnswersInv'
  <2>1. reply[p] # Silence
    BY <1>c DEF End, Silence
  <2>2. \A call \in asked : call.caller # <<p, tries[p]>>
    BY <2>1 DEF AnswersInv
  <2>3. QED
    BY <1>a, <1>c, <2>2, CallTypes DEF End, AnswersInv, BusTypes, NoCall, Silence, daemonVars
<1>d. ASSUME NEW call \in asked, NEW result \in {"ok", "failed"},
             NEW d \in Dialogs \cup {NoDialog}, Tell(call, result, d),
             call.method = "new" /\ result = "ok" => d \in Dialogs,
             asked' = asked \ {call}, UNCHANGED <<calling, tries>>
      PROVE  AnswersInv'
  <2> DEFINE p == call.caller[1]
  <2>1. p \in Procs /\ call.caller = <<p, call.caller[2]>> /\ call.method # "none"
    <3>1. call.caller \in Procs \X (0..MaxTimeouts)
      BY DEF IInv, TypeOK, Daemon!TypeOK, Daemon!Call, Callers
    <3>2. QED  BY <3>1, CallTypes
  <2>2. CASE call.caller[2] # tries[p]
    <3>1. UNCHANGED reply
      BY <1>d, <2>2 DEF Tell
    <3>2. QED  BY <1>d, <3>1 DEF AnswersInv
  <2>3. CASE call.caller[2] = tries[p]
    <3>1. reply' = [reply EXCEPT ![p] = [result |-> result, dialog |-> d]]
      BY <1>d, <2>3 DEF Tell
    <3>2. calling[p].method = call.method
      BY <2>1, <2>3 DEF AnswersInv
    <3>3. \A other \in asked' : other.caller # <<p, tries[p]>>
      BY <1>d, <2>1, <2>3 DEF AnswersInv
    <3> HIDE DEF p
    <3>4. \A q \in Procs :
            /\ calling'[q] = NoCall => reply'[q] = Silence
            /\ calling'[q].method = "new" /\ reply'[q].result = "ok" =>
                 reply'[q].dialog \in Dialogs
      BY <1>a, <1>d, <2>1, <3>1, <3>2 DEF AnswersInv, BusTypes, NoCall
    <3>5. \A other \in asked', q \in Procs :
            other.caller = <<q, tries'[q]>> =>
              reply'[q] = Silence /\ calling'[q].method = other.method
      BY <1>a, <1>d, <2>1, <3>1, <3>3 DEF AnswersInv, BusTypes
    <3>6. QED  BY <1>d, <3>4, <3>5 DEF AnswersInv
  <2>4. QED  BY <2>2, <2>3
<1>1. ASSUME NEW p \in Procs, BeginNew(p) PROVE AnswersInv'
  BY <1>b, <1>1 DEF BeginNew
<1>2. ASSUME NEW p \in Procs, GiveUp(p) PROVE AnswersInv'
  <2>1. /\ tries' = [tries EXCEPT ![p] = tries[p] + 1] /\ reply' = [reply EXCEPT ![p] = Failure]
        /\ asked' = asked /\ calling' = calling /\ calling[p] # NoCall
    BY <1>2 DEF GiveUp, daemonVars
  <2>2. \A call \in asked : call.caller # <<p, tries'[p]>>
    BY <1>a, <2>1 DEF AnswersInv, BusTypes
  <2>3. \A call \in asked : call.caller[2] <= tries'[call.caller[1]]
    BY <1>a, <2>1, CallTypes DEF AnswersInv, BusTypes
  <2>4. QED
    BY <1>a, <2>1, <2>2, <2>3 DEF AnswersInv, BusTypes, Failure
<1>3. ASSUME NEW p \in Procs, Returns(p) PROVE AnswersInv'
  BY <1>c, <1>3 DEF Returns, EndNew, EndSetExtraWidget, EndRun, EndList, EndCall, EndFailed
<1>4. ASSUME NEW o \in Objects,
             BeginSetExtraWidget(o) \/ ParentClosed(o) \/ \E m \in Calls : BeginCall(o, m)
      PROVE  AnswersInv'
  <2>1. CASE ParentClosed(o) /\ o \notin withParent
    BY <2>1 DEF ParentClosed, daemonVars, busVars, AnswersInv
  <2>2. QED
    BY <1>b, <1>4, <2>1, MethodKinds DEF BeginSetExtraWidget, ParentClosed, BeginCall, Usable
<1>5. ASSUME NEW call \in asked, Serve(call) PROVE AnswersInv'
  <2>1. asked' = asked \ {call} /\ UNCHANGED <<calling, tries>>
    BY <1>5 DEF Serve, Daemon!Create, Daemon!Fail, Daemon!Perform, Daemon!Destroy
  <2>2. CASE \E d \in Dialogs : Tell(call, "ok", d)
    BY <1>d, <2>1, <2>2
  <2>3. CASE Tell(call, "failed", NoDialog)
    BY <1>d, <2>1, <2>3
  <2>4. CASE Tell(call, "ok", NoDialog) /\ call.method # "new"
    BY <1>d, <2>1, <2>4
  <2>5. QED
    <3>1. Daemon!Perform(call) \/ Daemon!Destroy(call) => call.method # "new"
      BY MethodKinds DEF Daemon!Perform, Daemon!Destroy
    <3>2. QED  BY <1>5, <2>2, <2>3, <2>4, <3>1 DEF Serve
<1>6. CASE Crash
  BY <1>a, <1>6 DEF Crash, AnswersInv, BusTypes, Failure
<1>7. CASE UNCHANGED <<asked, busVars>>
  BY <1>7 DEF busVars, AnswersInv
<1>8. QED
  BY <1>1, <1>2, <1>3, <1>4, <1>5, <1>6, <1>7
     DEF Next, Process, Dispatch, Use, NobodyLeft, vars, daemonVars, OnStranger, OnResponse,
         OnDestroy, OnOwner, TakeExtra, DropExtra, SetDestroyWithParent, Users, Respond, Close,
         Daemon!Respond, Daemon!Close, Restart

(* A dialog that was born stays so, and no id is given twice.              *)
LEMMA IdsStep ==
  ASSUME IInv, AnswersInv, IdsInv, MaxCrashes = 0, [Next]_vars
  PROVE  IdsInv'
<1> USE RemoteAssumption DEF RemoteAssumption
<1>a. BusTypes /\ ObjectTypes /\ DaemonTypes
  BY Types DEF IInv
<1>b. mode \in [Dialogs -> Daemon!Modes]
  BY <1>a DEF DaemonTypes, Daemon!TypeOK
<1>1. ASSUME NEW p \in Procs, NEW o \in Objects, EndNew(p, o) PROVE IdsInv'
  <2> DEFINE d == reply[p].dialog
  <2>1. /\ d \in Dialogs /\ mode[d] # "unborn" /\ Home[o] = p /\ refs[o] = 0 /\ mode' = mode
        /\ refs' = [refs EXCEPT ![o] = 1] /\ remote_id' = [remote_id EXCEPT ![o] = d]
        /\ reply' = [reply EXCEPT ![p] = Silence]
    BY <1>1 DEF EndNew, End, Free, AnswersInv, IdsInv, daemonVars
  <2>2. \A e \in Objects : refs[e] > 0 /\ Home[e] = p => remote_id[e] # d
    BY <2>1 DEF IdsInv
  <2>3. /\ refs'[o] = 1 /\ remote_id'[o] = d
        /\ \A e \in Objects \ {o} : refs'[e] = refs[e] /\ remote_id'[e] = remote_id[e]
        /\ reply'[p].dialog = NoDialog
        /\ \A q \in Procs \ {p} : reply'[q] = reply[q]
    BY <1>a, <2>1 DEF BusTypes, ObjectTypes, Silence
  <2> HIDE DEF d
  <2>4. \A e \in Objects :
          refs'[e] > 0 => remote_id'[e] \in Dialogs /\ mode'[remote_id'[e]] # "unborn"
    BY <2>1, <2>3 DEF IdsInv
  <2>5. \A q \in Procs : reply'[q].dialog # NoDialog => mode'[reply'[q].dialog] # "unborn"
    BY <2>1, <2>3 DEF IdsInv
  <2>6. \A e \in Objects :
          refs'[e] > 0 /\ reply'[Home[e]].dialog # NoDialog =>
            remote_id'[e] # reply'[Home[e]].dialog
    BY <2>1, <2>3 DEF IdsInv
  <2>7. UniqueIds'
    BY <2>1, <2>2, <2>3 DEF IdsInv, UniqueIds
  <2>8. QED  BY <2>4, <2>5, <2>6, <2>7 DEF IdsInv
<1>2. ASSUME UNCHANGED remote_id,
             \A o \in Objects : refs'[o] > 0 => refs[o] > 0,
             \A d \in Dialogs : mode[d] # "unborn" => mode'[d] # "unborn",
             \A p \in Procs : reply'[p].dialog \in {reply[p].dialog, NoDialog},
             BusTypes'
      PROVE  IdsInv'
  <2>1. \A p \in Procs : reply[p].dialog \in Dialogs \cup {NoDialog}
    BY <1>a DEF BusTypes, Answers
  <2>2. \A o \in Objects :
          refs'[o] > 0 => remote_id[o] \in Dialogs /\ mode'[remote_id[o]] # "unborn"
    BY <1>2 DEF IdsInv
  <2>3. \A p \in Procs : reply'[p].dialog # NoDialog => mode'[reply'[p].dialog] # "unborn"
    BY <1>2, <2>1 DEF IdsInv
  <2>4. \A o \in Objects :
          refs'[o] > 0 /\ reply'[Home[o]].dialog # NoDialog =>
            remote_id[o] # reply'[Home[o]].dialog
    BY <1>2 DEF IdsInv
  <2>5. UniqueIds'
    BY <1>2 DEF IdsInv, UniqueIds
  <2>6. QED  BY <1>2, <2>2, <2>3, <2>4, <2>5 DEF IdsInv
<1>t. TypeOK' /\ BusTypes'
  BY TypeStep, Types, PTL
<1>3. ASSUME NEW call \in asked, NEW d \in Dialogs, Daemon!Create(call, d), Tell(call, "ok", d),
             UNCHANGED <<refs, remote_id>>
      PROVE  IdsInv'
  <2>1. mode[d] = "unborn" /\ mode'[d] # "unborn"
        /\ \A e \in Dialogs \ {d} : mode'[e] = mode[e]
    BY <1>b, <1>3, DaemonStates DEF Daemon!Create, CONFIGURATION
  <2>2. \A p \in Procs : reply'[p].dialog \in {reply[p].dialog, d}
    BY <1>a, <1>3, CallTypes DEF Tell, BusTypes
  <2>3. \A o \in Objects : refs[o] > 0 => remote_id[o] \in Dialogs \ {d}
    BY <2>1 DEF IdsInv
  <2>4. \A p \in Procs : reply[p].dialog \in Dialogs \cup {NoDialog}
    BY <1>a DEF BusTypes, Answers
  <2>5. \A o \in Objects :
          refs'[o] > 0 => remote_id'[o] \in Dialogs /\ mode'[remote_id'[o]] # "unborn"
    BY <1>3, <2>1, <2>3 DEF IdsInv
  <2>6. \A p \in Procs : reply'[p].dialog # NoDialog => mode'[reply'[p].dialog] # "unborn"
    BY <2>1, <2>2, <2>4 DEF IdsInv
  <2>7. \A o \in Objects :
          refs'[o] > 0 /\ reply'[Home[o]].dialog # NoDialog =>
            remote_id'[o] # reply'[Home[o]].dialog
    BY <1>3, <2>2, <2>3 DEF IdsInv
  <2>8. UniqueIds'
    BY <1>3 DEF IdsInv, UniqueIds
  <2>9. QED  BY <2>5, <2>6, <2>7, <2>8 DEF IdsInv
<1>4. ASSUME NEW p \in Procs, NEW m, NEW o, NEW d, Begin(p, m, o, d),
             UNCHANGED <<refs, remote_id>>
      PROVE  IdsInv'
  <2>1. mode' = mode /\ \A q \in Procs : reply'[q].dialog \in {reply[q].dialog, NoDialog}
    BY <1>a, <1>4 DEF Begin, Daemon!Ask, BusTypes, Failure
  <2>2. QED  BY <1>2, <1>4, <1>t, <2>1
<1>5. ASSUME NEW p \in Procs, NEW result, End(p, result), UNCHANGED <<refs, remote_id>>
      PROVE  IdsInv'
  <2>1. mode' = mode /\ \A q \in Procs : reply'[q].dialog \in {reply[q].dialog, NoDialog}
    BY <1>a, <1>5 DEF End, daemonVars, BusTypes, Silence
  <2>2. QED  BY <1>2, <1>5, <1>t, <2>1
<1>6. ASSUME NEW p \in Procs, GiveUp(p) PROVE IdsInv'
  <2>1. mode' = mode /\ \A q \in Procs : reply'[q].dialog \in {reply[q].dialog, NoDialog}
    BY <1>a, <1>6 DEF GiveUp, daemonVars, BusTypes, Failure
  <2>2. QED  BY <1>2, <1>6, <1>t, <2>1 DEF GiveUp, objectVars
<1>7. ASSUME NEW p \in Procs, BeginNew(p) PROVE IdsInv'
  BY <1>4, <1>7 DEF BeginNew, objectVars
<1>8. ASSUME NEW p \in Procs,
             \/ \E w \in {"held", "none"} : EndSetExtraWidget(p, w)
             \/ EndRun(p) \/ EndList(p) \/ EndCall(p) \/ EndFailed(p)
      PROVE  IdsInv'
  BY <1>5, <1>8 DEF EndSetExtraWidget, EndRun, EndList, EndCall, EndFailed, objectVars
<1>9. ASSUME NEW p \in Procs, OnDestroy(p) PROVE IdsInv'
  <2> DEFINE o == instances[p][Head(mail[p]).dialog]
  <2>1. Head(mail[p]).dialog \in Dialogs
    BY <1>9, TakeTypes, LettersTypes, Types DEF OnDestroy, IInv
  <2>2. o \in Objects /\ refs[o] > 0
    BY <1>9, <2>1, Listed DEF OnDestroy
  <2>3. refs' = [refs EXCEPT ![o] = @ - 1] /\ UNCHANGED <<mode, reply, remote_id>>
    BY <1>9 DEF OnDestroy, Unref, daemonVars, busVars
  <2> HIDE DEF o
  <2>4. \A e \in Objects : refs'[e] > 0 => refs[e] > 0
    BY <1>a, <2>2, <2>3 DEF ObjectTypes
  <2>5. QED  BY <1>2, <1>t, <2>3, <2>4
<1>10. ASSUME NEW o \in Objects, TakeExtra(o) \/ DropExtra(o) PROVE IdsInv'
  <2>1. \A e \in Objects : refs'[e] > 0 => refs[e] > 0
    BY <1>a, <1>10 DEF TakeExtra, DropExtra, Usable, Unref, ObjectTypes
  <2>2. QED  BY <1>2, <1>10, <1>t, <2>1 DEF TakeExtra, DropExtra, daemonVars, busVars
<1>11. ASSUME NEW o \in Objects,
              BeginSetExtraWidget(o) \/ ParentClosed(o) \/ \E m \in Calls : BeginCall(o, m)
       PROVE  IdsInv'
  <2>1. CASE ParentClosed(o) /\ o \notin withParent
    BY <1>2, <1>t, <2>1 DEF ParentClosed, daemonVars, busVars
  <2>2. QED  BY <1>4, <1>11, <2>1 DEF BeginSetExtraWidget, ParentClosed, BeginCall, objectVars
<1>12. ASSUME NEW call \in asked, Serve(call) PROVE IdsInv'
  <2>1. UNCHANGED <<refs, remote_id>>
    BY <1>12 DEF Serve, objectVars
  <2>2. CASE \E d \in Dialogs : Daemon!Create(call, d) /\ Tell(call, "ok", d)
    BY <1>3, <2>1, <2>2
  <2>3. CASE Tell(call, "ok", NoDialog) \/ Tell(call, "failed", NoDialog)
    <3>1. \A p \in Procs : reply'[p].dialog \in {reply[p].dialog, NoDialog}
      BY <1>a, <2>3, CallTypes DEF Tell, BusTypes
    <3>2. \A d \in Dialogs : mode[d] # "unborn" => mode'[d] # "unborn"
      <4>1. CASE \E d \in Dialogs : Daemon!Create(call, d)
        BY <1>b, <4>1, DaemonStates DEF Daemon!Create, CONFIGURATION
      <4>2. CASE Daemon!Fail(call)
        BY <4>2 DEF Daemon!Fail
      <4>3. CASE Daemon!Perform(call)
        <5>1. Daemon!After(call.method, mode[call.dialog]) # "unborn"
          BY <4>3, DaemonAfter
             DEF Daemon!Perform, SfcdState, CONFIGURATION, RUNNING, DATA_RETRIEVAL
        <5>2. QED  BY <1>b, <4>3, <5>1 DEF Daemon!Perform
      <4>4. CASE Daemon!Destroy(call)
        BY <1>b, <4>4 DEF Daemon!Destroy, Daemon!Signal
      <4>5. QED  BY <1>12, <4>1, <4>2, <4>3, <4>4 DEF Serve
    <3>3. QED  BY <1>2, <1>t, <2>1, <3>1, <3>2
  <2>4. QED  BY <1>12, <2>2, <2>3 DEF Serve
<1>13. ASSUME NEW d \in Dialogs, Users(d) PROVE IdsInv'
  <2>1. \A e \in Dialogs : mode[e] # "unborn" => mode'[e] # "unborn"
    BY <1>b, <1>13, DaemonStates
       DEF Users, Respond, Close, Daemon!Respond, Daemon!Close, Daemon!Signal,
           CONFIGURATION, DATA_RETRIEVAL
  <2>2. QED  BY <1>2, <1>13, <1>t, <2>1 DEF Users, Respond, Close, objectVars, busVars
<1>14. ASSUME Crash PROVE FALSE
  BY <1>a, <1>14 DEF Crash, DaemonTypes
<1>15. CASE UNCHANGED <<mode, refs, remote_id, reply>>
  BY <1>2, <1>15, <1>t
<1>16. QED
  BY <1>1, <1>6, <1>7, <1>8, <1>9, <1>10, <1>11, <1>12, <1>13, <1>14, <1>15
     DEF Next, Process, Returns, Dispatch, Use, NobodyLeft, vars, daemonVars, objectVars,
         busVars, OnStranger, OnResponse, OnOwner, SetDestroyWithParent, Restart

(* "id of this instance": as long as the daemon that gave the ids lives, no*)
(* two dialogs of a process have the same, even if calls are given up and  *)
(* answered late (RemoteFileChooserDialogPrivate).                         *)
THEOREM IdsAreUnique == ASSUME MaxCrashes = 0 PROVE Spec => []UniqueIds
<1>1. Init => AnswersInv /\ IdsInv
  BY RemoteAssumption
     DEF Init, Daemon!Init, AnswersInv, IdsInv, UniqueIds, NoCall, Silence, RemoteAssumption
<1>2. IInv /\ AnswersInv /\ IdsInv /\ [Next]_vars => AnswersInv' /\ IdsInv'
  BY AnswersStep, IdsStep
<1>3. IdsInv => UniqueIds
  BY DEF IdsInv
<1>4. QED  BY Invariance, <1>1, <1>2, <1>3, PTL DEF Spec
=============================================================================
