---------------------------- MODULE ServerProofs ----------------------------
(***************************************************************************)
(* Theorems about SfcdServer, for any number of dialogs and callers: the   *)
(* daemon uses the library as an application may, so that the theorems of  *)
(* LfcdProofs are about its dialogs too, and its table is balanced.        *)
(***************************************************************************)
EXTENDS SfcdServer, LfcdProofs

(* A handler at work has a dialog, and a caller unless it is a signal's.   *)
JobShape ==
  /\ job.step = "idle" => job = NoJob
  /\ job.step # "idle" => job.dialog \in Dialogs
  /\ job.step \in {"created", "found", "removed"} => job.caller \in Callers
  /\ job.step = "found" => job.dialog \in table

(* What the daemon holds at each step of a handler: the references beside  *)
(* that of the creation are those of the table and of the handler.         *)

TableRef(d) == IF d \in table THEN 1 ELSE 0

JobRef(d) ==
  IF job.dialog # d \/ job.step \in {"idle", "created"} THEN 0
  ELSE IF job.step \in {"removed", "destroyed"} THEN 2 ELSE 1

OutOfTable(steps) == {d \in {job.dialog} : job.step \in steps}

Holdings ==
  /\ job.step \in {"created", "removed", "destroyed"} => job.dialog \notin table
  /\ owned = table \cup OutOfTable({"created", "removed"})
  /\ connected = table \cup OutOfTable({"created"})
  /\ \A d \in Dialogs : extras[d] = TableRef(d) + JobRef(d)

(* What the bus heard of a dialog goes with what became of it.             *)
Heard ==
  /\ owned \subseteq issued
  /\ \A d \in Dialogs \ issued : told[d] = 0
  /\ \A d \in Dialogs : said[d] = "destroy" => d \in issued \ owned
  /\ DestroyToldOnce

(* A caller has one call in flight, in the queue or with a handler.        *)

Working == job.step \in {"created", "found", "removed"}

OneCall ==
  /\ IsInjective(inbox)
  /\ \A x, y \in ToSet(inbox) : x.caller = y.caller => x = y
  /\ Working => \A x \in ToSet(inbox) : x.caller # job.caller

CallsInv == OneCall /\ EachCallAnswered

SInv == IInv /\ ServerTypes /\ JobShape /\ Holdings /\ Heard /\ CallsInv

-----------------------------------------------------------------------------
USE DEF objectVars, runVars, loopVars, gtkVars, clientVars, Return

(* Every step of the daemon is one that an application of the library may  *)
(* take, or one that the library does not see.                             *)
LEMMA LibraryStep ==
  ASSUME ServerTypes, JobShape, [ServerNext]_allVars
  PROVE  [Next]_vars
<1> USE DEF ServerTypes, serverVars, tableVars, busVars
<1>0. CASE UNCHANGED allVars  BY <1>0 DEF allVars
<1>1. CASE Sender  BY <1>1 DEF Sender, Send
<1>2. CASE Dispatcher
  <2> DEFINE call == Head(inbox)
  <2>1. ASSUME NEW d \in Dialogs, CreateDialog(call, d) PROVE Next
    BY <2>1 DEF CreateDialog, Next, Client
  <2>2. CASE FailNew(call) \/ RejectUnserved(call) \/ NotFound(call)
    BY <2>2 DEF FailNew, RejectUnserved, NotFound
  <2>3. CASE Lookup(call) \/ LookupAndRemove(call)
    BY <2>3 DEF Lookup, LookupAndRemove, Next, Client
  <2>4. QED  BY <1>2, <2>1, <2>2, <2>3 DEF Dispatcher, Accept
<1>3. CASE CompleteNew
  BY <1>3 DEF CompleteNew, JobShape, Next, Client
<1>4. CASE Perform
  <2> DEFINE d == job.dialog
             m == job.method
  <2>0. d \in Dialogs  BY <1>4 DEF Perform, JobShape
  <2>1. CASE PerformControl(d, m)
    <3>1. m \in {"run", "present", "cancel_run"}
      BY <2>1 DEF PerformControl, RunControls, RunControl
    <3>2. QED  BY <2>0, <2>1, <3>1 DEF PerformControl, Next, Client, Ask
  <2>2. CASE PerformWidget(d, m)
    BY <2>0, <2>2 DEF PerformWidget, Next, Client, Configure
  <2>3. CASE PerformUnrefused(d, m)
    BY <2>3 DEF PerformUnrefused
  <2>4. CASE PerformSelect(d, m) \/ PerformName(d, m)
    BY <2>0, <2>4 DEF PerformSelect, PerformName, Setters, SelectionSetters, Next, Client,
                      Configure, Ask
  <2>5. CASE PerformSetOption(d, m)
    BY <2>0, <2>5 DEF PerformSetOption, Setters, Next, Client, Configure, Ask
  <2>6. CASE PerformShortcut(d, m)
    BY <2>0, <2>6 DEF PerformShortcut, Setters, Next, Client, Configure, Ask
  <2>7. CASE PerformGetOption(d, m) \/ PerformList(d, m) \/ PerformRetrieval(d, m)
    BY <2>0, <2>7 DEF PerformGetOption, PerformList, PerformRetrieval, Queries,
                      Next, Client, Ask
  <2>8. QED  BY <1>4, <2>1, <2>2, <2>3, <2>4, <2>5, <2>6, <2>7 DEF Perform
<1>5. CASE PerformDestroy
  BY <1>5 DEF PerformDestroy, JobShape, Next, Client
<1>6. CASE DropTableRef \/ LookupFinished
  BY <1>6 DEF DropTableRef, LookupFinished, JobShape, Next, Client
<1>7. ASSUME NEW d \in Dialogs, ServerUser(d) \/ ServerMainLoop(d) PROVE Next
  BY <1>7 DEF ServerUser, ServerMainLoop, ServerStartLoop, ServerEndRun, ServerEndClosedRun,
              ServerEndReport, MainLoop, Next
<1>8. CASE DaemonDead  BY <1>8 DEF DaemonDead, allVars
<1>9. QED
  BY <1>0, <1>1, <1>2, <1>3, <1>4, <1>5, <1>6, <1>7, <1>8 DEF ServerNext, Handler

(* What a method does between its lookup and its end is no business of the *)
(* table: it moves no reference that the daemon holds.                     *)
LEMMA PerformKeepsHoldings ==
  ASSUME Perform
  PROVE  UNCHANGED <<owned, extras>>
<1> DEFINE d == job.dialog
           m == job.method
<1>1. CASE PerformControl(d, m)
  BY <1>1 DEF PerformControl, Run, Present, CancelRun, Refuse
<1>2. CASE PerformWidget(d, m) \/ PerformUnrefused(d, m)
  BY <1>2 DEF PerformWidget, PerformUnrefused, SetExtraWidget, vars
<1>3. CASE PerformSelect(d, m) \/ PerformName(d, m)
  BY <1>3 DEF PerformSelect, PerformName, SetSelection, Modify, Refuse
<1>4. CASE PerformSetOption(d, m) \/ PerformShortcut(d, m)
  BY <1>4 DEF PerformSetOption, PerformShortcut, SetOption, EditShortcuts, Modify, Refuse
<1>5. CASE PerformGetOption(d, m) \/ PerformList(d, m) \/ PerformRetrieval(d, m)
  BY <1>5 DEF PerformGetOption, PerformList, PerformRetrieval, Query, Refuse
<1>6. QED  BY <1>1, <1>2, <1>3, <1>4, <1>5 DEF Perform

(* Users, and runs before they end, do not change who holds a dialog.      *)
LEMMA UserKeepsHoldings ==
  ASSUME NEW d \in Dialogs, User(d) \/ StartLoop(d) \/ EndReport(d) \/ EndRun(d)
  PROVE  UNCHANGED <<owned, extras>>
BY DEF User, UserEdit, UserAnswer, UserClose, StartLoop, EndReport, EndRun, LeaveLoop

(* The daemon starts with an empty table and no call.                      *)
LEMMA InitSInv == ServerInit => SInv
<1>1. ASSUME ServerInit PROVE SInv
  <2>1. IInv  BY <1>1, InitIInv DEF ServerInit
  <2>2. ServerTypes
    BY <1>1 DEF ServerInit, ServerTypes, NoJob, Steps, Signals
  <2>3. JobShape  BY <1>1 DEF ServerInit, JobShape, NoJob
  <2>4. Holdings
    BY <1>1 DEF ServerInit, Init, Holdings, TableRef, JobRef, OutOfTable, NoJob
  <2>5. Heard
    BY <1>1 DEF ServerInit, Init, Heard, DestroyToldOnce
  <2>6. CallsInv
    BY <1>1 DEF ServerInit, CallsInv, OneCall, Working, IsInjective, ToSet, EachCallAnswered,
                Waiting, NoJob
  <2>7. QED  BY <2>1, <2>2, <2>3, <2>4, <2>5, <2>6 DEF SInv
<1>2. QED  BY <1>1

(* The call at the head of the queue is a call.                            *)
LEMMA HeadCall ==
  ASSUME ServerTypes, inbox # <<>>
  PROVE  /\ Head(inbox) \in Call
         /\ Tail(inbox) \in Seq(Call)
BY DEF ServerTypes

(* Every step of the daemon keeps the types of its own variables.          *)
LEMMA ServerTypesStep ==
  ASSUME ServerTypes, JobShape, [ServerNext]_allVars
  PROVE  ServerTypes' /\ JobShape'
<1> USE ServerAssumption, LfcdAssumption
    DEF ServerTypes, JobShape, serverVars, tableVars, busVars, Steps, Signals, NoJob,
        Answer
<1>0. CASE UNCHANGED allVars  BY <1>0 DEF allVars
<1>1. ASSUME NEW c \in Callers, NEW m \in Calls, NEW d \in Dialogs \cup {NoDialog}, Send(c, m, d)
      PROVE  ServerTypes' /\ JobShape'
  <2>1. [caller |-> c, method |-> m, dialog |-> d] \in Call  BY DEF Call
  <2>2. inbox' \in Seq(Call)  BY <1>1, <2>1 DEF Send
  <2>3. QED  BY <1>1, <2>2 DEF Send
<1>2. CASE Dispatcher
  <2> DEFINE call == Head(inbox)
  <2>0. /\ Tail(inbox) \in Seq(Call)
        /\ call.caller \in Callers
        /\ call.method \in Calls
        /\ call.dialog \in Dialogs \cup {NoDialog}
    BY <1>2, HeadCall DEF Dispatcher, Call
  <2>1. ASSUME NEW d \in Dialogs, CreateDialog(call, d) PROVE ServerTypes' /\ JobShape'
    <3>1. /\ inbox' = Tail(inbox) /\ UNCHANGED <<table, replies, said, told>>
          /\ issued' = issued \cup {d} /\ connected' = connected \cup {d}
          /\ job' = Job("created", call, d)
          /\ d \notin issued
      BY <2>1 DEF CreateDialog, Dispatch
    <3>2. ServerTypes'  BY <2>0, <3>1 DEF Job
    <3>3. JobShape'  BY <2>0, <3>1 DEF Job
    <3>4. QED  BY <3>2, <3>3
  <2>2. CASE FailNew(call) \/ RejectUnserved(call) \/ NotFound(call)
    <3>1. Answer(call.caller) /\ inbox' = Tail(inbox) /\ UNCHANGED <<tableVars, job, said, told>>
      BY <2>2 DEF FailNew, RejectUnserved, NotFound, Dispatch
    <3>2. QED  BY <2>0, <3>1
  <2>3. CASE Lookup(call)
    <3>1. /\ inbox' = Tail(inbox) /\ UNCHANGED <<tableVars, replies, said, told>>
          /\ job' = Job("found", call, call.dialog)
          /\ call.dialog \in table
      BY <2>3 DEF Lookup, Dispatch
    <3>2. QED  BY <2>0, <3>1 DEF Job
  <2>4. CASE LookupAndRemove(call)
    BY <2>0, <2>4 DEF LookupAndRemove, Dispatch, Job, Forget
  <2>5. QED  BY <1>2, <2>1, <2>2, <2>3, <2>4 DEF Dispatcher, Accept
<1>3. CASE CompleteNew  BY <1>3 DEF CompleteNew
<1>4. CASE Perform
  <2>1. job.caller \in Callers /\ job' = [job EXCEPT !.step = "served"]  BY <1>4 DEF Perform
  <2>2. Answer(job.caller)  BY <1>4 DEF Perform
  <2>3. replies' \in [Callers -> Nat]  BY <2>1, <2>2
  <2>4. UNCHANGED <<tableVars, inbox, said, told>>  BY <1>4 DEF Perform
  <2>5. ServerTypes'  BY <2>1, <2>3, <2>4
  <2>6. JobShape'  BY <1>4, <2>1, <2>4 DEF Perform
  <2>7. QED  BY <2>5, <2>6
<1>5. CASE PerformDestroy
  <2>1. job.step = "removed" /\ job' = [job EXCEPT !.step = "destroyed"]
    BY <1>5 DEF PerformDestroy
  <2>2. Answer(job.caller) /\ EmitDestroy(job.dialog) /\ UNCHANGED <<tableVars, inbox>>
    BY <1>5 DEF PerformDestroy
  <2>3. ServerTypes'
    <3>1. job' \in [step : Steps, caller : Callers \cup {NoCaller},
                    method : Calls \cup {"none"}, dialog : Dialogs \cup {NoDialog}]
      BY <2>1
    <3>2. replies' \in [Callers -> Nat] /\ told' \in [Dialogs -> Nat]
      BY <2>1, <2>2 DEF EmitDestroy
    <3>3. said' \in [Dialogs -> Signals]
      BY <2>1, <2>2 DEF EmitDestroy
    <3>4. QED  BY <2>2, <3>1, <3>2, <3>3
  <2>4. JobShape'  BY <2>1, <2>2
  <2>5. QED  BY <2>3, <2>4
<1>6. CASE DropTableRef  BY <1>6 DEF DropTableRef
<1>7. CASE LookupFinished  BY <1>7 DEF LookupFinished
<1>8. ASSUME NEW d \in Dialogs, ServerUser(d) \/ ServerStartLoop(d) \/ ServerEndReport(d)
      PROVE  ServerTypes' /\ JobShape'
  BY <1>8 DEF ServerUser, ServerStartLoop, ServerEndReport
<1>9. ASSUME NEW d \in Dialogs, ServerEndRun(d) PROVE ServerTypes' /\ JobShape'
  BY <1>9 DEF ServerEndRun, EmitResponse
<1>10. ASSUME NEW d \in Dialogs, ServerEndClosedRun(d) PROVE ServerTypes' /\ JobShape'
  <2>1. CASE d \in connected \cap table
    <3>1. /\ Forget(d) /\ EmitDestroy(d) /\ UNCHANGED <<issued, inbox, replies>>
          /\ job' = Job("served", NoJob, d)
      BY <1>10, <2>1 DEF ServerEndClosedRun
    <3>2. ServerTypes'  BY <3>1 DEF Forget, EmitDestroy, Job
    <3>3. JobShape'  BY <3>1 DEF Job
    <3>4. QED  BY <3>2, <3>3
  <2>2. CASE d \notin connected \cap table
    BY <1>10, <2>2 DEF ServerEndClosedRun
  <2>3. QED  BY <2>1, <2>2
<1>11. CASE DaemonDead  BY <1>11 DEF DaemonDead, allVars
<1>12. QED
  BY <1>0, <1>1, <1>2, <1>3, <1>4, <1>5, <1>6, <1>7, <1>8, <1>9, <1>10, <1>11
  DEF ServerNext, Sender, Handler, ServerMainLoop

(* The references taken and given up by each step of a handler are those   *)
(* that the table and the handler are said to hold.                        *)
LEMMA HoldingsStep ==
  ASSUME SInv, [ServerNext]_allVars
  PROVE  Holdings'
<1> USE DEF SInv, JobShape, Holdings, TableRef, JobRef, OutOfTable
<1>0. table \subseteq Dialogs /\ extras \in [Dialogs -> 0..MaxExtra] /\ MaxExtra \in Nat
  BY LfcdAssumption DEF LfcdAssumption, IInv, TypeOK, ServerTypes
<1>1. CASE UNCHANGED <<owned, extras, table, connected, job>>
  BY <1>1
<1>2. ASSUME NEW call, NEW d \in Dialogs, CreateDialog(call, d) PROVE Holdings'
  <2>1. /\ owned' = owned \cup {d} /\ connected' = connected \cup {d}
        /\ extras' = [extras EXCEPT ![d] = 0]
        /\ table' = table
        /\ job.step = "idle" /\ job'.step = "created" /\ job'.dialog = d
        /\ d \notin issued
    BY <1>2 DEF CreateDialog, Dispatch, New, Job
  <2>2. d \notin table  BY <2>1 DEF Heard
  <2>3. QED  BY <1>0, <2>1, <2>2
<1>3. CASE CompleteNew
  <2>1. /\ owned' = owned /\ connected' = connected
        /\ extras' = [extras EXCEPT ![job.dialog] = @ + 1]
        /\ table' = table \cup {job.dialog}
        /\ job.step = "created" /\ job'.step = "idle"
    BY <1>3 DEF CompleteNew, TakeExtra, NoJob
  <2>2. QED  BY <1>0, <2>1
<1>4. ASSUME NEW call, Lookup(call) PROVE Holdings'
  <2>1. /\ owned' = owned /\ connected' = connected /\ table' = table
        /\ extras' = [extras EXCEPT ![call.dialog] = @ + 1]
        /\ call.dialog \in table
        /\ job.step = "idle" /\ job'.step = "found" /\ job'.dialog = call.dialog
    BY <1>4 DEF Lookup, Dispatch, TakeExtra, Job, tableVars
  <2>2. QED  BY <1>0, <2>1
<1>5. ASSUME NEW call, LookupAndRemove(call) PROVE Holdings'
  <2>1. /\ owned' = owned /\ connected' = connected \ {call.dialog}
        /\ table' = table \ {call.dialog}
        /\ extras' = [extras EXCEPT ![call.dialog] = @ + 1]
        /\ call.dialog \in table
        /\ job.step = "idle" /\ job'.step = "removed" /\ job'.dialog = call.dialog
    BY <1>5 DEF LookupAndRemove, Dispatch, TakeExtra, Forget, Job
  <2>2. QED  BY <1>0, <2>1
<1>6. CASE Perform
  <2>1. /\ owned' = owned /\ extras' = extras /\ table' = table /\ connected' = connected
        /\ job.step = "found" /\ job'.step = "served" /\ job'.dialog = job.dialog
    BY <1>6, PerformKeepsHoldings DEF Perform, ServerTypes, tableVars
  <2>2. QED  BY <1>0, <2>1
<1>7. CASE PerformDestroy
  <2>1. /\ owned' = owned \ {job.dialog} /\ extras' = extras /\ table' = table
        /\ connected' = connected
        /\ job.step = "removed" /\ job'.step = "destroyed" /\ job'.dialog = job.dialog
    BY <1>7 DEF PerformDestroy, Destroy, ServerTypes, tableVars
  <2>2. QED  BY <1>0, <2>1
<1>8. CASE DropTableRef
  <2>1. /\ owned' = owned /\ extras' = [extras EXCEPT ![job.dialog] = @ - 1] /\ table' = table
        /\ connected' = connected
        /\ job.step = "destroyed" /\ job'.step = "served" /\ job'.dialog = job.dialog
    BY <1>8 DEF DropTableRef, DropExtra, ServerTypes, tableVars
  <2>2. QED  BY <1>0, <2>1
<1>9. CASE LookupFinished
  <2>1. /\ owned' = owned /\ extras' = [extras EXCEPT ![job.dialog] = @ - 1] /\ table' = table
        /\ connected' = connected
        /\ job.step = "served" /\ job'.step = "idle"
    BY <1>9 DEF LookupFinished, DropExtra, NoJob, tableVars
  <2>2. QED  BY <1>0, <2>1
<1>10. ASSUME NEW d \in Dialogs, ServerEndClosedRun(d) PROVE Holdings'
  <2>1. /\ owned' = owned \ {d} /\ extras' = extras /\ job.step = "idle"
    BY <1>10 DEF ServerEndClosedRun, EndClosedRun, LeaveLoop
  <2>2. CASE d \in connected \cap table
    <3>1. /\ table' = table \ {d} /\ connected' = connected \ {d}
          /\ job'.step = "served" /\ job'.dialog = d
      BY <1>10, <2>2 DEF ServerEndClosedRun, Forget, Job
    <3>2. QED  BY <1>0, <2>1, <2>2, <3>1
  <2>3. CASE d \notin connected \cap table
    <3>1. UNCHANGED <<table, connected, job>> /\ d \notin owned
      BY <1>10, <2>1, <2>3 DEF ServerEndClosedRun, serverVars, tableVars
    <3>2. QED  BY <1>1, <2>1, <3>1
  <2>4. QED  BY <2>2, <2>3
<1>11. QED
  <2> USE DEF serverVars, tableVars, busVars, vars
  <2>1. ASSUME NEW c, NEW m, NEW d, Send(c, m, d) PROVE Holdings'
    BY <1>1, <2>1 DEF Send
  <2>2. ASSUME NEW call, FailNew(call) \/ RejectUnserved(call) \/ NotFound(call) PROVE Holdings'
    BY <1>1, <2>2 DEF FailNew, RejectUnserved, NotFound
  <2>3. ASSUME NEW d \in Dialogs,
               ServerUser(d) \/ ServerStartLoop(d) \/ ServerEndReport(d) \/ ServerEndRun(d)
        PROVE  Holdings'
    BY <1>1, <2>3, UserKeepsHoldings
    DEF ServerUser, ServerStartLoop, ServerEndReport, ServerEndRun
  <2>4. CASE UNCHANGED allVars \/ DaemonDead
    BY <1>1, <2>4 DEF DaemonDead, allVars
  <2>5. QED
    BY <1>2, <1>3, <1>4, <1>5, <1>6, <1>7, <1>8, <1>9, <1>10, <2>1, <2>2, <2>3, <2>4
    DEF ServerNext, Sender, Dispatcher, Accept, Handler, ServerMainLoop

(* What the bus was told of a dialog goes with what became of it.          *)
LEMMA HeardStep ==
  ASSUME SInv, [ServerNext]_allVars
  PROVE  Heard'
<1> USE DEF SInv, Heard, DestroyToldOnce
<1>0. /\ issued \subseteq Dialogs /\ owned \subseteq Dialogs
      /\ said \in [Dialogs -> Signals] /\ told \in [Dialogs -> Nat]
  BY DEF IInv, TypeOK, ServerTypes
<1>1. CASE UNCHANGED <<owned, issued, said, told>>
  BY <1>1
<1>2. ASSUME NEW call, NEW d \in Dialogs, CreateDialog(call, d) PROVE Heard'
  <2>1. /\ owned' = owned \cup {d} /\ issued' = issued \cup {d} /\ d \notin issued
        /\ UNCHANGED <<said, told>>
    BY <1>2 DEF CreateDialog, New
  <2>2. QED  BY <1>0, <2>1
<1>3. ASSUME NEW d \in owned, EmitDestroy(d), owned' = owned \ {d}, issued' = issued
      PROVE  Heard'
  BY <1>0, <1>3 DEF EmitDestroy
<1>4. CASE PerformDestroy
  <2>1. job.dialog \in owned  BY <1>4 DEF PerformDestroy, Holdings, OutOfTable
  <2>2. EmitDestroy(job.dialog) /\ owned' = owned \ {job.dialog} /\ issued' = issued
    BY <1>4 DEF PerformDestroy, Destroy, tableVars
  <2>3. QED  BY <1>3, <2>1, <2>2
<1>5. ASSUME NEW d \in Dialogs, ServerEndClosedRun(d) PROVE Heard'
  <2>1. owned' = owned \ {d} /\ issued' = issued
    BY <1>5 DEF ServerEndClosedRun, EndClosedRun, serverVars, tableVars
  <2>2. CASE d \in connected \cap table
    BY <1>3, <1>5, <2>1, <2>2 DEF ServerEndClosedRun, Holdings
  <2>3. CASE d \notin connected \cap table
    <3>1. d \notin owned /\ UNCHANGED <<said, told>>
      BY <1>5, <2>3 DEF ServerEndClosedRun, Holdings, OutOfTable, serverVars, busVars
    <3>2. QED  BY <1>1, <2>1, <3>1
  <2>4. QED  BY <2>2, <2>3
<1>6. ASSUME NEW d \in Dialogs, ServerEndRun(d) PROVE Heard'
  <2>1. UNCHANGED <<owned, issued, told>>
    BY <1>6, UserKeepsHoldings DEF ServerEndRun, tableVars
  <2>2. \A e \in Dialogs : said'[e] = "destroy" => said[e] = "destroy"
    BY <1>0, <1>6 DEF ServerEndRun, EmitResponse
  <2>3. QED  BY <1>0, <2>1, <2>2
<1>7. QED
  <2> USE DEF serverVars, tableVars, busVars, vars
  <2>1. ASSUME NEW c, NEW m, NEW d, Send(c, m, d) PROVE Heard'
    BY <1>1, <2>1 DEF Send
  <2>2. ASSUME NEW call, FailNew(call) \/ RejectUnserved(call) \/ NotFound(call) PROVE Heard'
    BY <1>1, <2>2 DEF FailNew, RejectUnserved, NotFound
  <2>3. ASSUME NEW call, Lookup(call) \/ LookupAndRemove(call) PROVE Heard'
    BY <1>1, <2>3 DEF Lookup, LookupAndRemove, TakeExtra
  <2>4. CASE CompleteNew \/ DropTableRef \/ LookupFinished
    BY <1>1, <2>4 DEF CompleteNew, DropTableRef, LookupFinished, TakeExtra, DropExtra
  <2>5. CASE Perform
    BY <1>1, <2>5, PerformKeepsHoldings DEF Perform
  <2>6. ASSUME NEW d \in Dialogs, ServerUser(d) \/ ServerStartLoop(d) \/ ServerEndReport(d)
        PROVE  Heard'
    BY <1>1, <2>6, UserKeepsHoldings DEF ServerUser, ServerStartLoop, ServerEndReport
  <2>7. CASE UNCHANGED allVars \/ DaemonDead
    BY <1>1, <2>7 DEF DaemonDead, allVars
  <2>8. QED
    BY <1>2, <1>4, <1>5, <1>6, <2>1, <2>2, <2>3, <2>4, <2>5, <2>6, <2>7
    DEF ServerNext, Sender, Dispatcher, Accept, Handler, ServerMainLoop

(* A call that is sent joins the queue; its caller has no other one.       *)
LEMMA CallSent ==
  ASSUME ServerTypes, JobShape, CallsInv, NEW c \in Callers, NEW m \in Calls,
         NEW d \in Dialogs \cup {NoDialog}, Send(c, m, d)
  PROVE  CallsInv'
<1> DEFINE call == [caller |-> c, method |-> m, dialog |-> d]
<1>1. call \in Call /\ inbox \in Seq(Call)  BY DEF Call, ServerTypes
<1>2. ~Waiting(c)  BY DEF CallsInv, EachCallAnswered, ServerTypes, Send
<1>3. call \notin ToSet(inbox)  BY <1>2 DEF Waiting
<1>4. /\ IsInjective(inbox') /\ ToSet(inbox') = ToSet(inbox) \cup {call}
      /\ replies' = [replies EXCEPT ![c] = 0]
      /\ job' = job
  BY <1>1, <1>3, Appended DEF Send, CallsInv, OneCall
<1>5. OneCall'
  BY <1>2, <1>4 DEF OneCall, CallsInv, Waiting, Working
<1>6. ASSUME NEW e \in Callers PROVE Waiting(e)' <=> Waiting(e) \/ e = c
  <2>1. (\E x \in ToSet(inbox') : x.caller = e)
          <=> (\E x \in ToSet(inbox) : x.caller = e) \/ call.caller = e
    BY <1>4
  <2>2. call.caller = c  OBVIOUS
  <2>3. QED  BY <1>4, <2>1, <2>2 DEF Waiting
<1>7. EachCallAnswered'
  BY <1>4, <1>6 DEF CallsInv, EachCallAnswered, ServerTypes
<1>8. QED  BY <1>5, <1>7 DEF CallsInv

(* A call that is dispatched leaves the queue, and no other call of its    *)
(* caller is left there.                                                   *)
LEMMA CallTaken ==
  ASSUME ServerTypes, CallsInv, inbox # <<>>, inbox' = Tail(inbox)
  PROVE  /\ IsInjective(inbox')
         /\ ToSet(inbox') = ToSet(inbox) \ {Head(inbox)}
         /\ Head(inbox) \in ToSet(inbox)
         /\ Head(inbox).caller \in Callers
         /\ \A x \in ToSet(inbox') : x.caller # Head(inbox).caller
<1>1. inbox \in Seq(Call)  BY DEF ServerTypes
<1>2. /\ IsInjective(inbox')
      /\ ToSet(inbox') = ToSet(inbox) \ {Head(inbox)}
      /\ Head(inbox) \in ToSet(inbox) /\ Head(inbox) \in Call
  BY <1>1, HeadTaken DEF CallsInv, OneCall
<1>3. QED  BY <1>2 DEF CallsInv, OneCall, Call

(* It is answered at once ...                                              *)
LEMMA CallAnsweredAtOnce ==
  ASSUME ServerTypes, JobShape, CallsInv, inbox # <<>>, inbox' = Tail(inbox),
         job.step = "idle", job' = job, Answer(Head(inbox).caller)
  PROVE  CallsInv'
<1> DEFINE c == Head(inbox).caller
<1>1. OneCall'
  BY CallTaken DEF CallsInv, OneCall, Working
<1>2. c \in Callers /\ Waiting(c)
  BY CallTaken DEF Waiting
<1>3. \A e \in Callers : Waiting(e)' <=> Waiting(e) /\ e # c
  BY CallTaken DEF Waiting
<1>4. replies[c] = 0
  BY <1>2 DEF CallsInv, EachCallAnswered
<1>5. EachCallAnswered'
  BY <1>2, <1>3, <1>4 DEF CallsInv, EachCallAnswered, ServerTypes, Answer
<1>6. QED  BY <1>1, <1>5 DEF CallsInv

(* ... or passes to a handler, ...                                         *)
LEMMA CallAccepted ==
  ASSUME ServerTypes, JobShape, CallsInv, inbox # <<>>, inbox' = Tail(inbox),
         job.step = "idle", NEW d,
         NEW step \in {"created", "found", "removed"}, job' = Job(step, Head(inbox), d),
         UNCHANGED replies
  PROVE  CallsInv'
<1>1. job'.step = step /\ job'.caller = Head(inbox).caller  BY DEF Job
<1>2. OneCall'
  BY <1>1, CallTaken DEF CallsInv, OneCall, Working
<1>3. \A e \in Callers : Waiting(e)' <=> Waiting(e)
  BY <1>1, CallTaken DEF Waiting
<1>4. EachCallAnswered'
  BY <1>3 DEF CallsInv, EachCallAnswered, ServerTypes
<1>5. QED  BY <1>2, <1>4 DEF CallsInv

(* ... which answers it.                                                   *)
LEMMA CallServed ==
  ASSUME ServerTypes, JobShape, CallsInv, Working, inbox' = inbox,
         job'.step \in {"idle", "destroyed", "served"},
         Answer(job.caller)
  PROVE  CallsInv'
<1>1. OneCall'
  BY DEF CallsInv, OneCall, Working
<1>2. job.caller \in Callers /\ Waiting(job.caller)
  BY DEF JobShape, Working, Waiting
<1>3. \A e \in Callers : Waiting(e)' <=> Waiting(e) /\ e # job.caller
  BY DEF Waiting, CallsInv, OneCall, Working
<1>4. replies[job.caller] = 0
  BY <1>2 DEF CallsInv, EachCallAnswered
<1>5. EachCallAnswered'
  BY <1>2, <1>3, <1>4 DEF CallsInv, EachCallAnswered, ServerTypes, Answer
<1>6. QED  BY <1>1, <1>5 DEF CallsInv

(* Nothing else has to do with calls.                                      *)
LEMMA NoCallTouched ==
  ASSUME ServerTypes, CallsInv, UNCHANGED <<inbox, replies>>,
         \/ job' = job
         \/ ~Working /\ job'.step \in {"idle", "destroyed", "served"}
  PROVE  CallsInv'
<1>1. \A e \in Callers : Waiting(e)' <=> Waiting(e)
  BY DEF Waiting, Working
<1>2. OneCall'
  BY DEF CallsInv, OneCall, Working
<1>3. QED  BY <1>1, <1>2 DEF CallsInv, EachCallAnswered, ServerTypes

(* So every step answers a call once, or passes it on.                     *)
LEMMA CallsStep ==
  ASSUME ServerTypes, JobShape, CallsInv, [ServerNext]_allVars
  PROVE  CallsInv'
<1> USE DEF serverVars, tableVars, busVars
<1>1. CASE Sender
  BY <1>1, CallSent DEF Sender
<1>2. CASE Dispatcher
  <2> DEFINE call == Head(inbox)
  <2>0. inbox # <<>> /\ Accept(call)  BY <1>2 DEF Dispatcher
  <2>1. ASSUME NEW d \in Dialogs, CreateDialog(call, d) PROVE CallsInv'
    BY <2>0, <2>1, CallAccepted DEF CreateDialog, Dispatch
  <2>2. CASE FailNew(call) \/ RejectUnserved(call) \/ NotFound(call)
    BY <2>0, <2>2, CallAnsweredAtOnce DEF FailNew, RejectUnserved, NotFound, Dispatch
  <2>3. CASE Lookup(call) \/ LookupAndRemove(call)
    BY <2>0, <2>3, CallAccepted DEF Lookup, LookupAndRemove, Dispatch
  <2>4. QED  BY <2>0, <2>1, <2>2, <2>3 DEF Accept
<1>3. CASE CompleteNew
  BY <1>3, CallServed DEF CompleteNew, Working, NoJob
<1>4. CASE Perform
  <2>1. Working /\ inbox' = inbox  BY <1>4 DEF Perform, Working
  <2>2. job'.step = "served"  BY <1>4 DEF Perform, ServerTypes
  <2>3. Answer(job.caller)  BY <1>4 DEF Perform
  <2>4. QED  BY <2>1, <2>2, <2>3, CallServed
<1>5. CASE PerformDestroy
  <2>1. Working /\ inbox' = inbox /\ Answer(job.caller)  BY <1>5 DEF PerformDestroy, Working
  <2>2. job'.step = "destroyed"  BY <1>5 DEF PerformDestroy, ServerTypes
  <2>3. QED  BY <2>1, <2>2, CallServed
<1>6. CASE DropTableRef \/ LookupFinished
  <2>1. ~Working /\ UNCHANGED <<inbox, replies>>
    BY <1>6 DEF DropTableRef, LookupFinished, Working
  <2>2. job'.step \in {"idle", "served"}
    BY <1>6 DEF DropTableRef, LookupFinished, ServerTypes, NoJob
  <2>3. QED  BY <2>1, <2>2, NoCallTouched
<1>7. ASSUME NEW d \in Dialogs, ServerUser(d) \/ ServerMainLoop(d) PROVE CallsInv'
  <2>1. ~Working /\ UNCHANGED <<inbox, replies>>
    BY <1>7 DEF ServerUser, ServerMainLoop, ServerStartLoop, ServerEndRun, ServerEndClosedRun,
                ServerEndReport, Working
  <2>2. job' = job \/ job'.step = "served"
    BY <1>7 DEF ServerUser, ServerMainLoop, ServerStartLoop, ServerEndRun, ServerEndClosedRun,
                ServerEndReport, Job
  <2>3. QED  BY <2>1, <2>2, NoCallTouched
<1>8. CASE DaemonDead \/ UNCHANGED allVars
  BY <1>8, NoCallTouched DEF DaemonDead, allVars
<1>9. QED
  BY <1>1, <1>2, <1>3, <1>4, <1>5, <1>6, <1>7, <1>8 DEF ServerNext, Handler

-----------------------------------------------------------------------------
(* The invariant of the daemon holds in every state.                       *)
THEOREM ServerInvariance == ServerSpec => []SInv
<1>1. ASSUME SInv, [ServerNext]_allVars PROVE SInv'
  <2>1. [Next]_vars  BY <1>1, LibraryStep DEF SInv
  <2>2. IInv'
    BY <1>1, <2>1, TypeStep, AccountStep, OnceStep, ShapeStep DEF SInv, IInv
  <2>3. QED
    BY <1>1, <2>2, ServerTypesStep, HoldingsStep, HeardStep, CallsStep DEF SInv
<1>2. QED  BY InitSInv, <1>1, PTL DEF ServerSpec

(* The daemon is an application of the library: what LfcdProofs says of    *)
(* every application holds of it.                                          *)
THEOREM DaemonIsAnApplication == ServerSpec => Spec
<1>1. ServerInit => Init  BY DEF ServerInit
<1>2. SInv /\ [ServerNext]_allVars => [Next]_vars  BY LibraryStep DEF SInv
<1>3. QED  BY ServerInvariance, <1>1, <1>2, PTL DEF ServerSpec, Spec

(* Every variable of the daemon and of its dialogs keeps its type.         *)
THEOREM ServerTypeCorrect == ServerSpec => []ServerTypeOK
<1>1. SInv => ServerTypeOK  BY DEF SInv, IInv, ServerTypes, ServerTypeOK
<1>2. QED  BY ServerInvariance, <1>1, PTL

(* Each dialog in the table has exactly the references of its creation and *)
(* of the table, and one out of it none (on_handle_new, on_handle_destroy, *)
(* on_handle_destroy_signal).                                              *)
THEOREM TableIsBalanced == ServerSpec => []TableBalanced
<1>1. ASSUME SInv, fault = "none", job.step = "idle", NEW d \in Dialogs
      PROVE  refs[d] = (IF d \in table THEN 2 ELSE 0) + RunRef(d) + ReportRef(d)
  <2>1. refs[d] = OwnerRef(d) + extras[d] + RunRef(d) + ReportRef(d)
    BY <1>1 DEF SInv, IInv, RefsAccounted
  <2>2. owned = table /\ extras[d] = IF d \in table THEN 1 ELSE 0
    BY <1>1 DEF SInv, Holdings, OutOfTable, TableRef, JobRef
  <2>3. RunRef(d) \in Nat /\ ReportRef(d) \in Nat
    BY DEF RunRef, ReportRef
  <2>4. QED  BY <2>1, <2>2, <2>3 DEF OwnerRef
<1>2. SInv => TableBalanced  BY <1>1 DEF TableBalanced
<1>3. QED  BY ServerInvariance, <1>2, PTL

(* The bus hears of the destruction of each dialog once, when the daemon   *)
(* gives it up.                                                            *)
THEOREM DestructionIsToldOnce == ServerSpec => []DestroyToldOnce
<1>1. SInv => DestroyToldOnce  BY DEF SInv, Heard
<1>2. QED  BY ServerInvariance, <1>1, PTL

(* Each call gets one answer from the daemon, whatever became of the dialog*)
(* that it names.                                                          *)
THEOREM CallsAreAnsweredOnce == ServerSpec => []EachCallAnswered
<1>1. SInv => EachCallAnswered  BY DEF SInv, CallsInv
<1>2. QED  BY ServerInvariance, <1>1, PTL

(* After "destroy" the bus hears nothing more of a dialog.                 *)
THEOREM DestructionIsTheLastSignal == ServerSpec => SilentAfterDestroy
<1>1. ASSUME SInv, [ServerNext]_allVars, NEW d \in Dialogs, said[d] = "destroy"
      PROVE  said'[d] # "response"
  <2> USE DEF serverVars, tableVars, busVars
  <2>1. d \notin table
    BY <1>1 DEF SInv, Heard, Holdings
  <2>2. said \in [Dialogs -> Signals]
    BY <1>1 DEF SInv, ServerTypes
  <2>3. CASE UNCHANGED said  BY <1>1, <2>3
  <2>4. ASSUME NEW e \in Dialogs, EmitDestroy(e) PROVE said'[d] # "response"
    BY <1>1, <2>2, <2>4 DEF EmitDestroy
  <2>5. ASSUME NEW e \in Dialogs, ServerEndRun(e) PROVE said'[d] # "response"
    BY <1>1, <2>1, <2>2, <2>5 DEF ServerEndRun, EmitResponse
  <2>6. ASSUME NEW e \in Dialogs, ServerEndClosedRun(e) PROVE said'[d] # "response"
    BY <2>3, <2>4, <2>6 DEF ServerEndClosedRun
  <2>7. CASE PerformDestroy
    BY <1>1, <2>4, <2>7 DEF PerformDestroy, SInv, JobShape
  <2>8. CASE Sender \/ Dispatcher \/ CompleteNew \/ Perform \/ DropTableRef \/ LookupFinished
    BY <2>3, <2>8
    DEF Sender, Send, Dispatcher, Accept, CreateDialog, FailNew, RejectUnserved, NotFound,
        Lookup, LookupAndRemove, CompleteNew, Perform, DropTableRef, LookupFinished
  <2>9. ASSUME NEW e \in Dialogs, ServerUser(e) \/ ServerStartLoop(e) \/ ServerEndReport(e)
        PROVE  said'[d] # "response"
    BY <2>3, <2>9 DEF ServerUser, ServerStartLoop, ServerEndReport
  <2>10. CASE DaemonDead \/ UNCHANGED allVars
    BY <2>3, <2>10 DEF DaemonDead, allVars
  <2>11. QED
    BY <1>1, <2>5, <2>6, <2>7, <2>8, <2>9, <2>10 DEF ServerNext, Handler, ServerMainLoop
<1>2. SInv /\ [ServerNext]_allVars =>
        [\A d \in Dialogs : said[d] = "destroy" => said'[d] # "response"]_allVars
  BY <1>1
<1>3. QED  BY ServerInvariance, <1>2, PTL DEF ServerSpec, SilentAfterDestroy

(* The daemon survives callers who destroy no dialog that its user has just*)
(* closed.                                                                 *)
THEOREM CarefulCallersAreSafe ==
  ASSUME Careful
  PROVE  ServerSpec => []NoFault
BY DaemonIsAnApplication, CarefulClientsAreSafe, PTL
=============================================================================
