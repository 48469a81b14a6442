-------------------------- MODULE LfcdThreadsProofs --------------------------
(***************************************************************************)
(* Proofs about LfcdThreads, for any number of threads: the mutex protects *)
(* what it is for, and an application that does not use a dialog while its *)
(* user closes it uses no freed memory.                                    *)
(***************************************************************************)
EXTENDS LfcdThreads, SfcdMethodsProofs, TLAPS

(* The application does not use the dialog while its user closes it.       *)
Cautious == "use_closed" \notin ThreadsMay

Before == {"entering", "testing", "acting"}
Locked == {"testing", "acting", "handling", "leaving", "stuck"}

(* The mutex, and what a thread does in a method.                          *)
MutexInv ==
  /\ \A t \in Threads : at[t] \in Locked <=> holder = t
  /\ \A t \in Threads : at[t] \in {"out", "releasing"} <=> doing[t] = "none"
  /\ \A t \in Threads : doing[t] = "end_run" => t = Main

(* A thread acts on a state that it read and that does not refuse it.      *)
ActInv ==
  \A t \in Threads :
    at[t] = "acting" => state = seen[t] /\ ~Refused(t)

(* The run and its end.                                                    *)
RunInv ==
  /\ phase # "none" => state = RUNNING
  /\ phase = "none" => answer = "none"
  /\ doing[Main] = "end_run" =>
       IF at[Main] \in Before THEN phase = "quit" /\ ending = "none"
                              ELSE ending \in {"reporting", "closed"}

ReportInv ==
  /\ ending \in {"none", "closed"} => report = NoReport
  /\ ending = "reporting" =>
       report.state = RUNNING /\ (state = DATA_RETRIEVAL => report.answer = "accept")
  /\ ending = "emitted" => NoAcceptanceInvented

(* The application, and the thread that destroys the dialog.               *)
Destroys(t) == doing[t] = "destroy" \/ at[t] = "releasing"

DestroyInv ==
  /\ \A t, u \in Threads : Destroys(t) /\ Destroys(u) => t = u
  /\ \A t \in Threads : Destroys(t) => ~owned
  /\ ~owned => \A t \in Threads : Destroys(t) \/ at[t] = "out" \/ doing[t] = "end_run"

One(condition) == IF condition THEN 1 ELSE 0

(* Who has a reference: the application, the run, the end of the run, and  *)
(* the thread that is about to give up that of the application.            *)
RefsInv ==
  refs = One(owned) + One(phase # "none") + One(ending # "none")
           + One(\E t \in Threads : Destroys(t))

(* A window that is closed is one that the application has.                *)
ClosedInv ==
  /\ shown => phase # "none"
  /\ owned /\ state = RUNNING => phase # "none"
  /\ shown /\ ~owned => \E t \in Threads : doing[t] = "destroy" /\ at[t] \in Before
  /\ answer = "delete" => owned /\ Quiet

IInv ==
  /\ TypeOK
  /\ MutexInv /\ ActInv /\ RunInv /\ ReportInv
  /\ DestroyInv /\ RefsInv /\ ClosedInv

-----------------------------------------------------------------------------
(* What the threads call is not what the main context does.                *)
LEMMA MethodKinds ==
  /\ "end_run" \notin Methods /\ "destroy" \notin Methods /\ "none" \notin Methods
  /\ \A m \in Setters \cup Queries \cup RunControls \cup {"run", "present", "cancel_run"} :
       m \notin {"end_run", "destroy", "none"}
<1>1. \A m \in Setters : m \notin {"end_run", "destroy", "none"}  BY SettersApart
<1>2. \A m \in Queries : m \notin {"end_run", "destroy", "none"}  BY QueriesApart
<1>3. \A m \in RunControls : m \notin {"end_run", "destroy", "none"}  BY OthersApart
<1>4. QED  BY <1>1, <1>2, <1>3, ThreadsAssumption DEF ThreadsAssumption

(* The methods that change the state are refused while the dialog runs,    *)
(* present and cancel_run while it does not.                               *)
LEMMA NotWhileRunning ==
  ASSUME NEW m \in Setters \cup {"run"}, ~RefusedIn(m, RUNNING)
  PROVE  FALSE
BY ChangesRefused

LEMMA OnlyWhileRunning ==
  ASSUME NEW m \in RunControls, NEW s \in SfcdState, ~RefusedIn(m, s)
  PROVE  s = RUNNING
BY ControlsRefused

(* A thread that changes the state has found that the dialog does not run. *)
LEMMA ChangersFindNoRun ==
  ASSUME IInv, NEW t \in Threads, at[t] = "acting", doing[t] \in Setters \cup {"run"}
  PROVE  state # RUNNING /\ phase = "none" /\ ~shown
<1>1. doing[t] \notin {"destroy", "end_run"}
  BY MethodKinds
<1>2. ~RefusedIn(doing[t], state)
  BY <1>1 DEF IInv, ActInv, Refused
<1>3. state # RUNNING
  BY <1>2, NotWhileRunning
<1>4. QED
  BY <1>3 DEF IInv, RunInv, ClosedInv

(* A thread that shows or hides the window has found that it runs.         *)
LEMMA ControlsFindRun ==
  ASSUME IInv, NEW t \in Threads, at[t] = "acting", doing[t] \in RunControls
  PROVE  state = RUNNING
<1>1. doing[t] \notin {"destroy", "end_run"}
  BY MethodKinds
<1>2. ~RefusedIn(doing[t], state)
  BY <1>1 DEF IInv, ActInv, Refused
<1>3. QED
  BY <1>2, OnlyWhileRunning DEF IInv, TypeOK

(* A thread that has the mutex in a method of its own has a dialog that    *)
(* the application has not destroyed.                                      *)
LEMMA UsersOwn ==
  ASSUME IInv, NEW t \in Threads, at[t] \notin {"out", "releasing"},
         doing[t] \notin {"destroy", "end_run"}
  PROVE  owned
BY DEF IInv, DestroyInv, Destroys

(* A setter leaves CONFIGURATION, and what else it changes is its own.     *)
LEMMA SetSteps ==
  ASSUME IInv, NEW t \in Threads, Set(t)
  PROVE  /\ state' = CONFIGURATION /\ at[t] = "acting" /\ doing[t] \in Setters
         /\ Goto(t, "leaving")
         /\ UNCHANGED <<refs, owned, holder, phase, answer, ending, report, shown, doing, seen>>
BY SettersConfigure DEF IInv, TypeOK, Set, runVars

(* The terms of RefsInv are 0 or 1.                                        *)
LEMMA OneIs ==
  /\ One(TRUE) = 1 /\ One(FALSE) = 0
  /\ \A b \in BOOLEAN : One(b) \in {0, 1} /\ (One(b) = 1 <=> b)
BY DEF One

(* When the object is gone nobody is in a method of it.                    *)
LEMMA GoneIsIdle ==
  ASSUME IInv, refs = 0
  PROVE  /\ ~owned /\ phase = "none" /\ ending = "none" /\ ~shown
         /\ \A t \in Threads : at[t] = "out" /\ doing[t] = "none"
<1> DEFINE D == \E t \in Threads : Destroys(t)
<1>1. One(owned) + One(phase # "none") + One(ending # "none") + One(D) = 0
  BY DEF IInv, RefsInv
<1>2. owned \in BOOLEAN /\ (phase # "none") \in BOOLEAN /\ (ending # "none") \in BOOLEAN
      /\ D \in BOOLEAN
  BY DEF IInv, TypeOK
<1>3. ~owned /\ phase = "none" /\ ending = "none" /\ ~D
  <2> HIDE DEF D
  <2>1. /\ One(owned) \in {0, 1} /\ One(phase # "none") \in {0, 1}
        /\ One(ending # "none") \in {0, 1} /\ One(D) \in {0, 1}
    BY <1>2, OneIs
  <2>2. One(owned) = 0 /\ One(phase # "none") = 0 /\ One(ending # "none") = 0 /\ One(D) = 0
    BY <1>1, <2>1
  <2>3. QED  BY <2>2 DEF One
<1>4. ~shown
  BY <1>3 DEF IInv, ClosedInv
<1>5. ASSUME NEW t \in Threads PROVE at[t] = "out" /\ doing[t] = "none"
  <2>1. at[t] = "out" \/ doing[t] = "end_run"
    BY <1>3 DEF IInv, DestroyInv
  <2>2. doing[t] # "end_run"
    BY <1>3, ThreadsAssumption DEF IInv, MutexInv, RunInv, ThreadsAssumption
  <2>3. QED  BY <2>1, <2>2 DEF IInv, MutexInv
<1>6. QED  BY <1>3, <1>4, <1>5

-----------------------------------------------------------------------------
LEMMA InitIInv == Init => IInv
<1> SUFFICES ASSUME Init PROVE IInv
  OBVIOUS
<1> USE ThreadsAssumption DEF ThreadsAssumption, Init
<1>1. TypeOK
  BY DEF TypeOK, NoReport, Phases, Answers, Endings, Places, SfcdState,
         CONFIGURATION, RUNNING, DATA_RETRIEVAL
<1>2. MutexInv /\ ActInv /\ RunInv /\ ReportInv
  BY DEF MutexInv, ActInv, RunInv, ReportInv, Locked
<1>3. DestroyInv
  BY DEF DestroyInv, Destroys
<1>4. RefsInv
  <2>1. ~\E t \in Threads : Destroys(t)
    BY DEF Destroys
  <2>2. QED  BY <2>1 DEF RefsInv, One
<1>5. ClosedInv
  BY DEF ClosedInv, CONFIGURATION, RUNNING
<1>6. QED  BY <1>1, <1>2, <1>3, <1>4, <1>5 DEF IInv

(* Whoever has a reference keeps the object.                               *)
LEMMA HoldersKeep ==
  ASSUME IInv,
         \/ owned \/ phase # "none" \/ ending # "none"
         \/ \E t \in Threads : Destroys(t)
  PROVE  refs > 0 /\ refs - 1 \in Nat
<1>1. refs # 0
  BY GoneIsIdle DEF Destroys
<1>2. QED  BY <1>1 DEF IInv, TypeOK

(* Every step keeps the types: no reference is given up that is not there. *)
LEMMA TypeStep ==
  ASSUME IInv, [Next]_vars, Cautious
  PROVE  TypeOK'
<1> USE ThreadsAssumption DEF ThreadsAssumption, IInv, TypeOK, SfcdState, CONFIGURATION,
                              RUNNING, DATA_RETRIEVAL, Phases, Answers, Endings, Places, Tasks,
                              NoReport
<1>1. ASSUME NEW t \in Threads, New(t)
     PROVE  TypeOK'
  BY <1>1 DEF New, Goto, InApplication, vars, dialogVars, runVars
<1>2. ASSUME NEW t \in Threads, NEW method \in Methods, Enter(t, method)
     PROVE  TypeOK'
  BY <1>2 DEF Enter, Goto, InApplication, vars, dialogVars, runVars
<1>3. ASSUME NEW t \in Threads, EnterDestroy(t)
     PROVE  TypeOK'
  <2>1. at' \in [Threads -> Places] /\ doing' \in [Threads -> Tasks \cup {"none"}]
    BY <1>3 DEF EnterDestroy, Goto
  <2>2. owned' \in BOOLEAN /\ UNCHANGED <<state, refs, holder, runVars, shown, seen>>
    BY <1>3 DEF EnterDestroy
  <2>3. QED
    BY <2>1, <2>2 DEF runVars
<1>4. ASSUME NEW t \in Threads, Lock(t)
     PROVE  TypeOK'
  BY <1>4 DEF Lock, Goto, vars, dialogVars, runVars
<1>5. ASSUME NEW t \in Threads, Test(t)
     PROVE  TypeOK'
  BY <1>5 DEF Test, Goto, Refused, vars, dialogVars, runVars
<1>6. ASSUME NEW t \in Threads, Set(t)
     PROVE  TypeOK'
  <2>1. state' \in SfcdState  BY <1>6, SetSteps DEF SfcdState
  <2>2. QED  BY <1>6, <2>1 DEF Set, Goto, dialogVars, runVars
<1>7. ASSUME NEW t \in Threads, Query(t)
     PROVE  TypeOK'
  BY <1>7 DEF Query, Goto, vars, dialogVars, runVars
<1>8. ASSUME NEW t \in Threads, Run(t)
     PROVE  TypeOK'
  BY <1>8 DEF Run, Goto, Display, vars, dialogVars, runVars
<1>9. ASSUME NEW t \in Threads, Present(t)
     PROVE  TypeOK'
  BY <1>9 DEF Present, Goto, Display, vars, dialogVars, runVars
<1>10. ASSUME NEW t \in Threads, CancelRun(t)
     PROVE  TypeOK'
  <2>1. at' \in [Threads -> Places] /\ shown' \in BOOLEAN /\ phase' \in Phases
    BY <1>10 DEF CancelRun, Goto, Display, Hide
  <2>2. QED
    BY <1>10, <2>1 DEF CancelRun, dialogVars
<1>11. ASSUME NEW t \in Threads, Destroy(t)
     PROVE  TypeOK'
  <2>1. at' \in [Threads -> Places] /\ shown' \in BOOLEAN /\ phase' \in Phases
    BY <1>11 DEF Destroy, Goto, Display, Hide
  <2>2. QED
    BY <1>11, <2>1 DEF Destroy, dialogVars
<1>12. ASSUME NEW t \in Threads, EndRun(t)
     PROVE  TypeOK'
  BY <1>12 DEF EndRun, Goto, Display, Verdict, vars, dialogVars, runVars
<1>13. ASSUME NEW t \in Threads, EndClosedRun(t)
     PROVE  TypeOK'
  BY <1>13, HoldersKeep DEF EndClosedRun, Goto, vars, dialogVars, runVars, ClosedInv
<1>14. ASSUME NEW t \in Threads, Handled(t)
     PROVE  TypeOK'
  BY <1>14 DEF Handled, Goto, vars, dialogVars, runVars
<1>15. ASSUME NEW t \in Threads, Reenter(t)
     PROVE  TypeOK'
  BY <1>15 DEF Reenter, Goto, vars, dialogVars, runVars
<1>16. ASSUME NEW t \in Threads, Leave(t)
     PROVE  TypeOK'
  BY <1>16 DEF Leave, Goto, Return, vars, dialogVars, runVars
<1>17. ASSUME NEW t \in Threads, Release(t)
     PROVE  TypeOK'
  BY <1>17, HoldersKeep DEF Release, Goto, vars, dialogVars, runVars, Destroys
<1>18. ASSUME NEW response \in {"accept", "reject", "delete"}, UserAnswer(response)
     PROVE  TypeOK'
  BY <1>18 DEF UserAnswer, Goto, Quiet, vars, dialogVars, runVars
<1>19. CASE StartLoop
  BY <1>19 DEF StartLoop, Goto, vars, dialogVars, runVars
<1>20. CASE LeaveLoop
  BY <1>20 DEF LeaveLoop, Goto, vars, dialogVars, runVars
<1>21. CASE Report
  BY <1>21 DEF Report, Goto, vars, dialogVars, runVars
<1>22. CASE EndReport
  BY <1>22, HoldersKeep DEF EndReport, Goto, vars, dialogVars, runVars
<1>23. CASE UNCHANGED vars
  BY <1>23 DEF vars, dialogVars, runVars, Refused, Quiet
<1>24. QED
  BY <1>1, <1>2, <1>3, <1>4, <1>5, <1>6, <1>7, <1>8, <1>9, <1>10, <1>11, <1>12, <1>13, <1>14,
      <1>15, <1>16, <1>17, <1>18, <1>19, <1>20, <1>21, <1>22, <1>23 DEF Next, Inside, Act,
      MainContext

(* Every step keeps the mutex with the thread that is behind it, ...       *)
LEMMA MutexStep ==
  ASSUME IInv, [Next]_vars, Cautious
  PROVE  MutexInv'
<1> USE ThreadsAssumption DEF ThreadsAssumption, IInv, TypeOK, MutexInv, Locked
<1>1. ASSUME NEW t \in Threads, New(t)
     PROVE  MutexInv'
  BY <1>1, GoneIsIdle DEF New, Goto, InApplication, vars, dialogVars, runVars
<1>2. ASSUME NEW t \in Threads, NEW method \in Methods, Enter(t, method)
     PROVE  MutexInv'
  BY <1>2, MethodKinds DEF Enter, Goto, InApplication, vars, dialogVars, runVars
<1>3. ASSUME NEW t \in Threads, EnterDestroy(t)
     PROVE  MutexInv'
  BY <1>3 DEF EnterDestroy, Goto, InApplication, Quiet, vars, dialogVars, runVars
<1>4. ASSUME NEW t \in Threads, Lock(t)
     PROVE  MutexInv'
  BY <1>4 DEF Lock, Goto, vars, dialogVars, runVars
<1>5. ASSUME NEW t \in Threads, Test(t)
     PROVE  MutexInv'
  BY <1>5 DEF Test, Goto, Refused, vars, dialogVars, runVars
<1>6. ASSUME NEW t \in Threads, Set(t)
     PROVE  MutexInv'
  BY <1>6, MethodKinds DEF Set, Goto, vars, dialogVars, runVars
<1>7. ASSUME NEW t \in Threads, Query(t)
     PROVE  MutexInv'
  BY <1>7 DEF Query, Goto, vars, dialogVars, runVars
<1>8. ASSUME NEW t \in Threads, Run(t)
     PROVE  MutexInv'
  BY <1>8 DEF Run, Goto, Display, vars, dialogVars, runVars
<1>9. ASSUME NEW t \in Threads, Present(t)
     PROVE  MutexInv'
  BY <1>9 DEF Present, Goto, Display, vars, dialogVars, runVars
<1>10. ASSUME NEW t \in Threads, CancelRun(t)
     PROVE  MutexInv'
  BY <1>10 DEF CancelRun, Goto, Display, Hide, vars, dialogVars, runVars
<1>11. ASSUME NEW t \in Threads, Destroy(t)
     PROVE  MutexInv'
  BY <1>11 DEF Destroy, Goto, Display, Hide, vars, dialogVars, runVars
<1>12. ASSUME NEW t \in Threads, EndRun(t)
     PROVE  MutexInv'
  BY <1>12 DEF EndRun, Goto, Display, Verdict, vars, dialogVars, runVars
<1>13. ASSUME NEW t \in Threads, EndClosedRun(t)
     PROVE  MutexInv'
  BY <1>13 DEF EndClosedRun, Goto, vars, dialogVars, runVars
<1>14. ASSUME NEW t \in Threads, Handled(t)
     PROVE  MutexInv'
  BY <1>14 DEF Handled, Goto, vars, dialogVars, runVars
<1>15. ASSUME NEW t \in Threads, Reenter(t)
     PROVE  MutexInv'
  BY <1>15 DEF Reenter, Goto, vars, dialogVars, runVars
<1>16. ASSUME NEW t \in Threads, Leave(t)
     PROVE  MutexInv'
  BY <1>16 DEF Leave, Goto, Return, vars, dialogVars, runVars
<1>17. ASSUME NEW t \in Threads, Release(t)
     PROVE  MutexInv'
  BY <1>17 DEF Release, Goto, vars, dialogVars, runVars
<1>18. ASSUME NEW response \in {"accept", "reject", "delete"}, UserAnswer(response)
     PROVE  MutexInv'
  BY <1>18 DEF UserAnswer, Goto, Quiet, vars, dialogVars, runVars
<1>19. CASE StartLoop
  BY <1>19 DEF StartLoop, Goto, vars, dialogVars, runVars
<1>20. CASE LeaveLoop
  BY <1>20 DEF LeaveLoop, Goto, vars, dialogVars, runVars
<1>21. CASE Report
  BY <1>21 DEF Report, Goto, vars, dialogVars, runVars
<1>22. CASE EndReport
  BY <1>22 DEF EndReport, Goto, vars, dialogVars, runVars
<1>23. CASE UNCHANGED vars
  BY <1>23 DEF vars, dialogVars, runVars, Refused, Quiet
<1>24. QED
  BY <1>1, <1>2, <1>3, <1>4, <1>5, <1>6, <1>7, <1>8, <1>9, <1>10, <1>11, <1>12, <1>13, <1>14,
      <1>15, <1>16, <1>17, <1>18, <1>19, <1>20, <1>21, <1>22, <1>23 DEF Next, Inside, Act,
      MainContext

(* ... what a thread tested true until it acts, ...                        *)
LEMMA ActStep ==
  ASSUME IInv, [Next]_vars, Cautious
  PROVE  ActInv'
<1> USE ThreadsAssumption DEF ThreadsAssumption, IInv, TypeOK, MutexInv, Locked, ActInv, Refused
<1>1. ASSUME NEW t \in Threads, New(t)
     PROVE  ActInv'
  BY <1>1, GoneIsIdle DEF New, Goto, InApplication, vars, dialogVars, runVars
<1>2. ASSUME NEW t \in Threads, NEW method \in Methods, Enter(t, method)
     PROVE  ActInv'
  BY <1>2 DEF Enter, Goto, InApplication, vars, dialogVars, runVars
<1>3. ASSUME NEW t \in Threads, EnterDestroy(t)
     PROVE  ActInv'
  BY <1>3 DEF EnterDestroy, Goto, InApplication, Quiet, vars, dialogVars, runVars
<1>4. ASSUME NEW t \in Threads, Lock(t)
     PROVE  ActInv'
  BY <1>4 DEF Lock, Goto, vars, dialogVars, runVars
<1>5. ASSUME NEW t \in Threads, Test(t)
     PROVE  ActInv'
  BY <1>5 DEF Test, Goto, Refused, vars, dialogVars, runVars
<1>6. ASSUME NEW t \in Threads, Set(t)
     PROVE  ActInv'
  BY <1>6 DEF Set, Goto, vars, dialogVars, runVars
<1>7. ASSUME NEW t \in Threads, Query(t)
     PROVE  ActInv'
  BY <1>7 DEF Query, Goto, vars, dialogVars, runVars
<1>8. ASSUME NEW t \in Threads, Run(t)
     PROVE  ActInv'
  BY <1>8 DEF Run, Goto, Display, vars, dialogVars, runVars
<1>9. ASSUME NEW t \in Threads, Present(t)
     PROVE  ActInv'
  BY <1>9 DEF Present, Goto, Display, vars, dialogVars, runVars
<1>10. ASSUME NEW t \in Threads, CancelRun(t)
     PROVE  ActInv'
  BY <1>10 DEF CancelRun, Goto, Display, Hide, vars, dialogVars, runVars
<1>11. ASSUME NEW t \in Threads, Destroy(t)
     PROVE  ActInv'
  BY <1>11 DEF Destroy, Goto, Display, Hide, vars, dialogVars, runVars
<1>12. ASSUME NEW t \in Threads, EndRun(t)
     PROVE  ActInv'
  BY <1>12 DEF EndRun, Goto, Display, Verdict, vars, dialogVars, runVars
<1>13. ASSUME NEW t \in Threads, EndClosedRun(t)
     PROVE  ActInv'
  BY <1>13 DEF EndClosedRun, Goto, vars, dialogVars, runVars
<1>14. ASSUME NEW t \in Threads, Handled(t)
     PROVE  ActInv'
  BY <1>14 DEF Handled, Goto, vars, dialogVars, runVars
<1>15. ASSUME NEW t \in Threads, Reenter(t)
     PROVE  ActInv'
  BY <1>15 DEF Reenter, Goto, vars, dialogVars, runVars
<1>16. ASSUME NEW t \in Threads, Leave(t)
     PROVE  ActInv'
  BY <1>16 DEF Leave, Goto, Return, vars, dialogVars, runVars
<1>17. ASSUME NEW t \in Threads, Release(t)
     PROVE  ActInv'
  BY <1>17 DEF Release, Goto, vars, dialogVars, runVars
<1>18. ASSUME NEW response \in {"accept", "reject", "delete"}, UserAnswer(response)
     PROVE  ActInv'
  BY <1>18 DEF UserAnswer, Goto, Quiet, vars, dialogVars, runVars
<1>19. CASE StartLoop
  BY <1>19 DEF StartLoop, Goto, vars, dialogVars, runVars
<1>20. CASE LeaveLoop
  BY <1>20 DEF LeaveLoop, Goto, vars, dialogVars, runVars
<1>21. CASE Report
  BY <1>21 DEF Report, Goto, vars, dialogVars, runVars
<1>22. CASE EndReport
  BY <1>22 DEF EndReport, Goto, vars, dialogVars, runVars
<1>23. CASE UNCHANGED vars
  BY <1>23 DEF vars, dialogVars, runVars, Refused, Quiet
<1>24. QED
  BY <1>1, <1>2, <1>3, <1>4, <1>5, <1>6, <1>7, <1>8, <1>9, <1>10, <1>11, <1>12, <1>13, <1>14,
      <1>15, <1>16, <1>17, <1>18, <1>19, <1>20, <1>21, <1>22, <1>23 DEF Next, Inside, Act,
      MainContext

(* ... the dialog RUNNING until its run is judged, ...                     *)
LEMMA RunStep ==
  ASSUME IInv, [Next]_vars, Cautious
  PROVE  RunInv'
<1> USE ThreadsAssumption DEF ThreadsAssumption, IInv, TypeOK, MutexInv, Locked, ActInv, RunInv,
                              Before
<1>1. ASSUME NEW t \in Threads, New(t)
     PROVE  RunInv'
  BY <1>1, GoneIsIdle DEF New, Goto, InApplication, vars, dialogVars, runVars
<1>2. ASSUME NEW t \in Threads, NEW method \in Methods, Enter(t, method)
     PROVE  RunInv'
  BY <1>2, MethodKinds DEF Enter, Goto, InApplication, vars, dialogVars, runVars
<1>3. ASSUME NEW t \in Threads, EnterDestroy(t)
     PROVE  RunInv'
  BY <1>3 DEF EnterDestroy, Goto, InApplication, Quiet, vars, dialogVars, runVars
<1>4. ASSUME NEW t \in Threads, Lock(t)
     PROVE  RunInv'
  BY <1>4 DEF Lock, Goto, vars, dialogVars, runVars
<1>5. ASSUME NEW t \in Threads, Test(t)
     PROVE  RunInv'
  BY <1>5 DEF Test, Goto, Refused, vars, dialogVars, runVars
<1>6. ASSUME NEW t \in Threads, Set(t)
     PROVE  RunInv'
  BY <1>6, ChangersFindNoRun DEF Set, Goto, vars, dialogVars, runVars
<1>7. ASSUME NEW t \in Threads, Query(t)
     PROVE  RunInv'
  BY <1>7, MethodKinds DEF Query, Goto, vars, dialogVars, runVars
<1>8. ASSUME NEW t \in Threads, Run(t)
     PROVE  RunInv'
  BY <1>8, ChangersFindNoRun DEF Run, Goto, Display, vars, dialogVars, runVars
<1>9. ASSUME NEW t \in Threads, Present(t)
     PROVE  RunInv'
  BY <1>9 DEF Present, Goto, Display, vars, dialogVars, runVars
<1>10. ASSUME NEW t \in Threads, CancelRun(t)
     PROVE  RunInv'
  BY <1>10 DEF CancelRun, Goto, Display, Hide, vars, dialogVars, runVars
<1>11. ASSUME NEW t \in Threads, Destroy(t)
     PROVE  RunInv'
  BY <1>11 DEF Destroy, Goto, Display, Hide, vars, dialogVars, runVars
<1>12. ASSUME NEW t \in Threads, EndRun(t)
     PROVE  RunInv'
  BY <1>12 DEF EndRun, Goto, Display, Verdict, vars, dialogVars, runVars
<1>13. ASSUME NEW t \in Threads, EndClosedRun(t)
     PROVE  RunInv'
  BY <1>13 DEF EndClosedRun, Goto, vars, dialogVars, runVars
<1>14. ASSUME NEW t \in Threads, Handled(t)
     PROVE  RunInv'
  BY <1>14 DEF Handled, Goto, vars, dialogVars, runVars
<1>15. ASSUME NEW t \in Threads, Reenter(t)
     PROVE  RunInv'
  BY <1>15 DEF Reenter, Goto, vars, dialogVars, runVars
<1>16. ASSUME NEW t \in Threads, Leave(t)
     PROVE  RunInv'
  BY <1>16 DEF Leave, Goto, Return, vars, dialogVars, runVars
<1>17. ASSUME NEW t \in Threads, Release(t)
     PROVE  RunInv'
  BY <1>17 DEF Release, Goto, vars, dialogVars, runVars
<1>18. ASSUME NEW response \in {"accept", "reject", "delete"}, UserAnswer(response)
     PROVE  RunInv'
  BY <1>18 DEF UserAnswer, Goto, Quiet, vars, dialogVars, runVars
<1>19. CASE StartLoop
  BY <1>19 DEF StartLoop, Goto, vars, dialogVars, runVars
<1>20. CASE LeaveLoop
  BY <1>20 DEF LeaveLoop, Goto, vars, dialogVars, runVars
<1>21. CASE Report
  BY <1>21 DEF Report, Goto, vars, dialogVars, runVars
<1>22. CASE EndReport
  BY <1>22 DEF EndReport, Goto, vars, dialogVars, runVars
<1>23. CASE UNCHANGED vars
  BY <1>23 DEF vars, dialogVars, runVars, Refused, Quiet
<1>24. QED
  BY <1>1, <1>2, <1>3, <1>4, <1>5, <1>6, <1>7, <1>8, <1>9, <1>10, <1>11, <1>12, <1>13, <1>14,
      <1>15, <1>16, <1>17, <1>18, <1>19, <1>20, <1>21, <1>22, <1>23 DEF Next, Inside, Act,
      MainContext

(* ... a state of DATA_RETRIEVAL an accepted one until it is reported, ... *)
LEMMA ReportStep ==
  ASSUME IInv, [Next]_vars, Cautious
  PROVE  ReportInv'
<1> USE ThreadsAssumption DEF ThreadsAssumption, IInv, TypeOK, MutexInv, Before, RunInv,
                              ReportInv, NoReport, NoAcceptanceInvented,
           CONFIGURATION, RUNNING, DATA_RETRIEVAL
<1>1. ASSUME NEW t \in Threads, New(t)
     PROVE  ReportInv'
  BY <1>1, GoneIsIdle DEF New, Goto, InApplication, vars, dialogVars, runVars
<1>2. ASSUME NEW t \in Threads, NEW method \in Methods, Enter(t, method)
     PROVE  ReportInv'
  BY <1>2 DEF Enter, Goto, InApplication, vars, dialogVars, runVars
<1>3. ASSUME NEW t \in Threads, EnterDestroy(t)
     PROVE  ReportInv'
  BY <1>3 DEF EnterDestroy, Goto, InApplication, Quiet, vars, dialogVars, runVars
<1>4. ASSUME NEW t \in Threads, Lock(t)
     PROVE  ReportInv'
  BY <1>4 DEF Lock, Goto, vars, dialogVars, runVars
<1>5. ASSUME NEW t \in Threads, Test(t)
     PROVE  ReportInv'
  BY <1>5 DEF Test, Goto, Refused, vars, dialogVars, runVars
<1>6. ASSUME NEW t \in Threads, Set(t)
     PROVE  ReportInv'
  BY <1>6, SetSteps DEF Goto, CONFIGURATION, DATA_RETRIEVAL
<1>7. ASSUME NEW t \in Threads, Query(t)
     PROVE  ReportInv'
  BY <1>7 DEF Query, Goto, vars, dialogVars, runVars
<1>8. ASSUME NEW t \in Threads, Run(t)
     PROVE  ReportInv'
  BY <1>8 DEF Run, Goto, Display, vars, dialogVars, runVars
<1>9. ASSUME NEW t \in Threads, Present(t)
     PROVE  ReportInv'
  BY <1>9 DEF Present, Goto, Display, vars, dialogVars, runVars
<1>10. ASSUME NEW t \in Threads, CancelRun(t)
     PROVE  ReportInv'
  BY <1>10 DEF CancelRun, Goto, Display, Hide, vars, dialogVars, runVars
<1>11. ASSUME NEW t \in Threads, Destroy(t)
     PROVE  ReportInv'
  BY <1>11 DEF Destroy, Goto, Display, Hide, vars, dialogVars, runVars
<1>12. ASSUME NEW t \in Threads, EndRun(t)
     PROVE  ReportInv'
  BY <1>12 DEF EndRun, Goto, Display, Verdict, vars, dialogVars, runVars
<1>13. ASSUME NEW t \in Threads, EndClosedRun(t)
     PROVE  ReportInv'
  BY <1>13 DEF EndClosedRun, Goto, vars, dialogVars, runVars
<1>14. ASSUME NEW t \in Threads, Handled(t)
     PROVE  ReportInv'
  BY <1>14 DEF Handled, Goto, vars, dialogVars, runVars
<1>15. ASSUME NEW t \in Threads, Reenter(t)
     PROVE  ReportInv'
  BY <1>15 DEF Reenter, Goto, vars, dialogVars, runVars
<1>16. ASSUME NEW t \in Threads, Leave(t)
     PROVE  ReportInv'
  BY <1>16 DEF Leave, Goto, Return, vars, dialogVars, runVars
<1>17. ASSUME NEW t \in Threads, Release(t)
     PROVE  ReportInv'
  BY <1>17 DEF Release, Goto, vars, dialogVars, runVars
<1>18. ASSUME NEW response \in {"accept", "reject", "delete"}, UserAnswer(response)
     PROVE  ReportInv'
  BY <1>18 DEF UserAnswer, Goto, Quiet, vars, dialogVars, runVars
<1>19. CASE StartLoop
  BY <1>19 DEF StartLoop, Goto, vars, dialogVars, runVars
<1>20. CASE LeaveLoop
  BY <1>20 DEF LeaveLoop, Goto, vars, dialogVars, runVars
<1>21. CASE Report
  BY <1>21 DEF Report, Goto, vars, dialogVars, runVars
<1>22. CASE EndReport
  BY <1>22 DEF EndReport, Goto, vars, dialogVars, runVars
<1>23. CASE UNCHANGED vars
  BY <1>23 DEF vars, dialogVars, runVars, Refused, Quiet
<1>24. QED
  BY <1>1, <1>2, <1>3, <1>4, <1>5, <1>6, <1>7, <1>8, <1>9, <1>10, <1>11, <1>12, <1>13, <1>14,
      <1>15, <1>16, <1>17, <1>18, <1>19, <1>20, <1>21, <1>22, <1>23 DEF Next, Inside, Act,
      MainContext

(* ... a dialog that is being destroyed to the thread that does it, ...    *)
LEMMA DestroyStep ==
  ASSUME IInv, [Next]_vars, Cautious
  PROVE  DestroyInv'
<1> USE ThreadsAssumption DEF ThreadsAssumption, IInv, TypeOK, MutexInv, Locked, DestroyInv,
                              Destroys
<1>1. ASSUME NEW t \in Threads, New(t)
     PROVE  DestroyInv'
  BY <1>1, GoneIsIdle DEF New, Goto, InApplication, vars, dialogVars, runVars
<1>2. ASSUME NEW t \in Threads, NEW method \in Methods, Enter(t, method)
     PROVE  DestroyInv'
  BY <1>2, MethodKinds DEF Enter, Goto, InApplication, vars, dialogVars, runVars
<1>3. ASSUME NEW t \in Threads, EnterDestroy(t)
     PROVE  DestroyInv'
  BY <1>3 DEF EnterDestroy, Goto, InApplication, Quiet, vars, dialogVars, runVars
<1>4. ASSUME NEW t \in Threads, Lock(t)
     PROVE  DestroyInv'
  BY <1>4 DEF Lock, Goto, vars, dialogVars, runVars
<1>5. ASSUME NEW t \in Threads, Test(t)
     PROVE  DestroyInv'
  BY <1>5 DEF Test, Goto, Refused, vars, dialogVars, runVars
<1>6. ASSUME NEW t \in Threads, Set(t)
     PROVE  DestroyInv'
  BY <1>6 DEF Set, Goto, vars, dialogVars, runVars
<1>7. ASSUME NEW t \in Threads, Query(t)
     PROVE  DestroyInv'
  BY <1>7 DEF Query, Goto, vars, dialogVars, runVars
<1>8. ASSUME NEW t \in Threads, Run(t)
     PROVE  DestroyInv'
  BY <1>8 DEF Run, Goto, Display, vars, dialogVars, runVars
<1>9. ASSUME NEW t \in Threads, Present(t)
     PROVE  DestroyInv'
  BY <1>9 DEF Present, Goto, Display, vars, dialogVars, runVars
<1>10. ASSUME NEW t \in Threads, CancelRun(t)
     PROVE  DestroyInv'
  BY <1>10 DEF CancelRun, Goto, Display, Hide, vars, dialogVars, runVars
<1>11. ASSUME NEW t \in Threads, Destroy(t)
     PROVE  DestroyInv'
  <2>1. CASE seen[t] = RUNNING
    BY <1>11, <2>1 DEF Destroy, Goto, Display, Hide, vars, dialogVars, runVars
  <2>2. CASE seen[t] # RUNNING
    BY <1>11, <2>2 DEF Destroy, Goto, vars, dialogVars, runVars
  <2>3. QED  BY <1>11, <2>1, <2>2
<1>12. ASSUME NEW t \in Threads, EndRun(t)
     PROVE  DestroyInv'
  BY <1>12 DEF EndRun, Goto, Display, Verdict, vars, dialogVars, runVars
<1>13. ASSUME NEW t \in Threads, EndClosedRun(t)
     PROVE  DestroyInv'
  BY <1>13 DEF EndClosedRun, Goto, vars, dialogVars, runVars, ClosedInv, Quiet
<1>14. ASSUME NEW t \in Threads, Handled(t)
     PROVE  DestroyInv'
  BY <1>14 DEF Handled, Goto, vars, dialogVars, runVars
<1>15. ASSUME NEW t \in Threads, Reenter(t)
     PROVE  DestroyInv'
  BY <1>15 DEF Reenter, Goto, vars, dialogVars, runVars
<1>16. ASSUME NEW t \in Threads, Leave(t)
     PROVE  DestroyInv'
  BY <1>16 DEF Leave, Goto, Return, vars, dialogVars, runVars
<1>17. ASSUME NEW t \in Threads, Release(t)
     PROVE  DestroyInv'
  BY <1>17 DEF Release, Goto, vars, dialogVars, runVars
<1>18. ASSUME NEW response \in {"accept", "reject", "delete"}, UserAnswer(response)
     PROVE  DestroyInv'
  BY <1>18 DEF UserAnswer, Goto, Quiet, vars, dialogVars, runVars
<1>19. CASE StartLoop
  BY <1>19 DEF StartLoop, Goto, vars, dialogVars, runVars
<1>20. CASE LeaveLoop
  BY <1>20 DEF LeaveLoop, Goto, vars, dialogVars, runVars
<1>21. CASE Report
  BY <1>21 DEF Report, Goto, vars, dialogVars, runVars
<1>22. CASE EndReport
  BY <1>22 DEF EndReport, Goto, vars, dialogVars, runVars
<1>23. CASE UNCHANGED vars
  BY <1>23 DEF vars, dialogVars, runVars, Refused, Quiet
<1>24. QED
  BY <1>1, <1>2, <1>3, <1>4, <1>5, <1>6, <1>7, <1>8, <1>9, <1>10, <1>11, <1>12, <1>13, <1>14,
      <1>15, <1>16, <1>17, <1>18, <1>19, <1>20, <1>21, <1>22, <1>23 DEF Next, Inside, Act,
      MainContext

(* ... and a window that is closed one that nobody else uses.              *)
LEMMA ClosedStep ==
  ASSUME IInv, [Next]_vars, Cautious
  PROVE  ClosedInv'
<1> USE ThreadsAssumption DEF ThreadsAssumption, IInv, TypeOK, MutexInv, Locked, ActInv, RunInv,
                              DestroyInv, Destroys, ClosedInv,
           Cautious, Before, Quiet, CONFIGURATION, RUNNING, DATA_RETRIEVAL
<1>1. ASSUME NEW t \in Threads, New(t)
     PROVE  ClosedInv'
  BY <1>1, GoneIsIdle DEF New, Goto, InApplication, vars, dialogVars, runVars
<1>2. ASSUME NEW t \in Threads, NEW method \in Methods, Enter(t, method)
     PROVE  ClosedInv'
  BY <1>2 DEF Enter, Goto, InApplication, vars, dialogVars, runVars
<1>3. ASSUME NEW t \in Threads, EnterDestroy(t)
     PROVE  ClosedInv'
  BY <1>3 DEF EnterDestroy, Goto, InApplication, Quiet, vars, dialogVars, runVars
<1>4. ASSUME NEW t \in Threads, Lock(t)
     PROVE  ClosedInv'
  BY <1>4 DEF Lock, Goto, vars, dialogVars, runVars
<1>5. ASSUME NEW t \in Threads, Test(t)
     PROVE  ClosedInv'
  BY <1>5 DEF Test, Goto, Refused, vars, dialogVars, runVars
<1>6. ASSUME NEW t \in Threads, Set(t)
     PROVE  ClosedInv'
  BY <1>6, SetSteps, ChangersFindNoRun, MethodKinds DEF Goto, CONFIGURATION, RUNNING
<1>7. ASSUME NEW t \in Threads, Query(t)
     PROVE  ClosedInv'
  BY <1>7, MethodKinds DEF Query, Goto, vars, dialogVars, runVars
<1>8. ASSUME NEW t \in Threads, Run(t)
     PROVE  ClosedInv'
  BY <1>8 DEF Run, Goto, Display, vars, dialogVars, runVars
<1>9. ASSUME NEW t \in Threads, Present(t)
     PROVE  ClosedInv'
  <2>1. doing[t] \in RunControls  BY <1>9 DEF Present, RunControls, RunControl
  <2>2. state = RUNNING /\ owned  BY <1>9, <2>1, ControlsFindRun, UsersOwn DEF Present
  <2>3. QED  BY <1>9, <2>2 DEF Present, Goto, Display, dialogVars, runVars
<1>10. ASSUME NEW t \in Threads, CancelRun(t)
     PROVE  ClosedInv'
  BY <1>10 DEF CancelRun, Goto, Display, Hide, vars, dialogVars, runVars
<1>11. ASSUME NEW t \in Threads, Destroy(t)
     PROVE  ClosedInv'
  <2>1. CASE seen[t] = RUNNING
    BY <1>11, <2>1 DEF Destroy, Goto, Display, Hide, vars, dialogVars, runVars
  <2>2. CASE seen[t] # RUNNING
    BY <1>11, <2>2 DEF Destroy, Goto, vars, dialogVars, runVars
  <2>3. QED  BY <1>11, <2>1, <2>2
<1>12. ASSUME NEW t \in Threads, EndRun(t)
     PROVE  ClosedInv'
  BY <1>12 DEF EndRun, Goto, Display, Verdict, vars, dialogVars, runVars
<1>13. ASSUME NEW t \in Threads, EndClosedRun(t)
     PROVE  ClosedInv'
  BY <1>13 DEF EndClosedRun, Goto, vars, dialogVars, runVars
<1>14. ASSUME NEW t \in Threads, Handled(t)
     PROVE  ClosedInv'
  BY <1>14 DEF Handled, Goto, vars, dialogVars, runVars
<1>15. ASSUME NEW t \in Threads, Reenter(t)
     PROVE  ClosedInv'
  BY <1>15 DEF Reenter, Goto, vars, dialogVars, runVars
<1>16. ASSUME NEW t \in Threads, Leave(t)
     PROVE  ClosedInv'
  BY <1>16 DEF Leave, Goto, Return, vars, dialogVars, runVars
<1>17. ASSUME NEW t \in Threads, Release(t)
     PROVE  ClosedInv'
  BY <1>17 DEF Release, Goto, vars, dialogVars, runVars
<1>18. ASSUME NEW response \in {"accept", "reject", "delete"}, UserAnswer(response)
     PROVE  ClosedInv'
  BY <1>18 DEF UserAnswer, Goto, Quiet, vars, dialogVars, runVars
<1>19. CASE StartLoop
  BY <1>19 DEF StartLoop, Goto, vars, dialogVars, runVars
<1>20. CASE LeaveLoop
  BY <1>20 DEF LeaveLoop, Goto, vars, dialogVars, runVars
<1>21. CASE Report
  BY <1>21 DEF Report, Goto, vars, dialogVars, runVars
<1>22. CASE EndReport
  BY <1>22 DEF EndReport, Goto, vars, dialogVars, runVars
<1>23. CASE UNCHANGED vars
  BY <1>23 DEF vars, dialogVars, runVars, Refused, Quiet
<1>24. QED
  BY <1>1, <1>2, <1>3, <1>4, <1>5, <1>6, <1>7, <1>8, <1>9, <1>10, <1>11, <1>12, <1>13, <1>14,
      <1>15, <1>16, <1>17, <1>18, <1>19, <1>20, <1>21, <1>22, <1>23 DEF Next, Inside, Act,
      MainContext

(* A step that changes no holder changes no reference, ...                 *)
LEMMA SameHolders ==
  ASSUME RefsInv, refs' = refs, owned' = owned,
         (phase # "none") <=> (phase' # "none"),
         (ending # "none") <=> (ending' # "none"),
         \A t \in Threads : Destroys(t) <=> Destroys(t)'
  PROVE  RefsInv'
<1>1. One(phase # "none") = One(phase # "none")'
  BY DEF One
<1>2. One(ending # "none") = One(ending # "none")'
  BY DEF One
<1>3. One(\E t \in Threads : Destroys(t)) = One(\E t \in Threads : Destroys(t))'
  BY DEF One
<1>4. One(owned) = One(owned)'
  BY DEF One
<1>5. QED
  BY <1>1, <1>2, <1>3, <1>4 DEF RefsInv

(* ... and the references are those of their holders after every step.     *)
LEMMA RefsStep ==
  ASSUME IInv, [Next]_vars, Cautious
  PROVE  RefsInv'
<1> USE ThreadsAssumption DEF ThreadsAssumption
<1>0. /\ TypeOK /\ MutexInv /\ RunInv /\ ReportInv /\ DestroyInv /\ RefsInv /\ ClosedInv
  BY DEF IInv
<1> USE DEF TypeOK
<1>1. ASSUME NEW t \in Threads, New(t) PROVE RefsInv'
  <2>1. /\ phase' = "none" /\ ending' = "none" /\ owned' /\ refs' = 1
        /\ \A u \in Threads : ~Destroys(u)'
    BY <1>1, GoneIsIdle DEF New, runVars, Destroys
  <2>2. QED
    BY <2>1 DEF RefsInv, One
<1>2. ASSUME NEW t \in Threads, NEW method \in Methods, Enter(t, method) PROVE RefsInv'
  <2>1. \A u \in Threads : Destroys(u) <=> Destroys(u)'
    BY <1>0, <1>2, MethodKinds DEF Enter, InApplication, Goto, Destroys, MutexInv
  <2>2. QED
    BY <1>0, <1>2, <2>1, SameHolders DEF Enter, dialogVars, runVars
<1>3. ASSUME NEW t \in Threads, EnterDestroy(t) PROVE RefsInv'
  <2>1. /\ owned /\ ~owned' /\ refs' = refs /\ phase' = phase /\ ending' = ending
    BY <1>3 DEF EnterDestroy, runVars
  <2>2. ~\E u \in Threads : Destroys(u)
    BY <1>0, <2>1 DEF DestroyInv
  <2>3. Destroys(t)'
    BY <1>0, <1>3 DEF EnterDestroy, Destroys
  <2>4. QED
    BY <1>0, <2>1, <2>2, <2>3 DEF RefsInv, One
<1>4. ASSUME NEW t \in Threads, Lock(t) \/ Test(t) \/ Handled(t) \/ Reenter(t) PROVE RefsInv'
  <2>1. \A u \in Threads : Destroys(u) <=> Destroys(u)'
    BY <1>0, <1>4 DEF Lock, Test, Handled, Reenter, Goto, Destroys
  <2>2. QED
    BY <1>0, <1>4, <2>1, SameHolders DEF Lock, Test, Handled, Reenter, dialogVars, runVars
<1>5. ASSUME NEW t \in Threads, Set(t) \/ Query(t) \/ Present(t) PROVE RefsInv'
  <2>1. \A u \in Threads : Destroys(u) <=> Destroys(u)'
    BY <1>0, <1>5 DEF Set, Query, Present, Display, Goto, Destroys
  <2>2. QED
    BY <1>0, <1>5, <2>1, SameHolders DEF Set, Query, Present, dialogVars, runVars
<1>6. ASSUME NEW t \in Threads, CancelRun(t) PROVE RefsInv'
  <2>1. \A u \in Threads : Destroys(u) <=> Destroys(u)'
    BY <1>0, <1>6 DEF CancelRun, Hide, Display, Goto, Destroys
  <2>2. (phase # "none") <=> (phase' # "none")
    BY <1>6 DEF CancelRun, Hide
  <2>3. QED
    BY <1>0, <1>6, <2>1, <2>2, SameHolders DEF CancelRun, dialogVars
<1>7. ASSUME NEW t \in Threads, Destroy(t) PROVE RefsInv'
  <2>1. at[t] = "acting" /\ doing[t] = "destroy" /\ doing' = doing
    BY <1>7 DEF Destroy
  <2>2. at' \in [Threads -> Places] /\ at'[t] # "releasing"
        /\ \A u \in Threads \ {t} : at'[u] = at[u]
    BY <1>0, <1>7 DEF Destroy, Hide, Display, Goto, Places
  <2>3. \A u \in Threads : Destroys(u) <=> Destroys(u)'
    BY <1>0, <2>1, <2>2 DEF Destroys
  <2>4. (phase # "none") <=> (phase' # "none")
    BY <1>7 DEF Destroy, Hide
  <2>5. QED
    BY <1>0, <1>7, <2>3, <2>4, SameHolders DEF Destroy, dialogVars
<1>8. ASSUME NEW t \in Threads, Run(t) PROVE RefsInv'
  <2>1. phase = "none"
    BY <1>8, ChangersFindNoRun DEF Run
  <2>2. (\E u \in Threads : Destroys(u)) <=> (\E u \in Threads : Destroys(u))'
    BY <1>0, <1>8 DEF Run, Display, Goto, Destroys
  <2>3. phase' = "queued" /\ refs' = refs + 1 /\ owned' = owned /\ ending' = ending
    BY <1>8 DEF Run
  <2>4. QED
    BY <1>0, <2>1, <2>2, <2>3 DEF RefsInv, One
<1>9. ASSUME NEW t \in Threads, EndRun(t) PROVE RefsInv'
  <2>1. phase # "none" /\ ending = "none"
    BY <1>0, <1>9 DEF EndRun, MutexInv, RunInv, Before
  <2>2. (\E u \in Threads : Destroys(u)) <=> (\E u \in Threads : Destroys(u))'
    BY <1>0, <1>9 DEF EndRun, Display, Goto, Destroys
  <2>3. phase' = "none" /\ ending' = "reporting" /\ refs' = refs /\ owned' = owned
    BY <1>9 DEF EndRun
  <2>4. QED
    BY <1>0, <2>1, <2>2, <2>3 DEF RefsInv, One
<1>10. ASSUME NEW t \in Threads, EndClosedRun(t) PROVE RefsInv'
  <2>1. phase # "none" /\ ending = "none" /\ owned
    BY <1>0, <1>10 DEF EndClosedRun, MutexInv, RunInv, Before, ClosedInv
  <2>2. (\E u \in Threads : Destroys(u)) <=> (\E u \in Threads : Destroys(u))'
    BY <1>0, <1>10 DEF EndClosedRun, Goto, Destroys
  <2>3. phase' = "none" /\ ending' = "closed" /\ refs' = refs - 1 /\ ~owned'
    BY <1>10 DEF EndClosedRun
  <2>4. QED
    BY <1>0, <2>1, <2>2, <2>3 DEF RefsInv, One
<1>11. ASSUME NEW t \in Threads, Leave(t) PROVE RefsInv'
  <2>1. \A u \in Threads : Destroys(u) <=> Destroys(u)'
    BY <1>0, <1>11 DEF Leave, Return, Goto, Destroys
  <2>2. QED
    BY <1>0, <1>11, <2>1, SameHolders DEF Leave, dialogVars, runVars
<1>12. ASSUME NEW t \in Threads, Release(t) PROVE RefsInv'
  <2>1. Destroys(t)
    BY <1>12 DEF Release, Destroys
  <2>2. ~\E u \in Threads : Destroys(u)'
    BY <1>0, <1>12, <2>1 DEF Release, Goto, Destroys, DestroyInv, MutexInv
  <2>3. phase' = phase /\ ending' = ending /\ owned' = owned /\ refs' = refs - 1
    BY <1>12 DEF Release, runVars
  <2>4. QED
    BY <1>0, <2>1, <2>2, <2>3 DEF RefsInv, One
<1>13. ASSUME NEW response \in {"accept", "reject", "delete"}, UserAnswer(response)
       PROVE  RefsInv'
  <2>1. \A u \in Threads : Destroys(u) <=> Destroys(u)'
    BY <1>13 DEF UserAnswer, Destroys
  <2>2. (phase # "none") <=> (phase' # "none")
    BY <1>13 DEF UserAnswer
  <2>3. QED
    BY <1>0, <1>13, <2>1, <2>2, SameHolders DEF UserAnswer, dialogVars
<1>14. CASE StartLoop
  <2>1. \A u \in Threads : Destroys(u) <=> Destroys(u)'
    BY <1>14 DEF StartLoop, Destroys
  <2>2. QED
    BY <1>0, <1>14, <2>1, SameHolders DEF StartLoop, dialogVars
<1>15. CASE LeaveLoop
  <2>1. \A u \in Threads : Destroys(u) <=> Destroys(u)'
    BY <1>0, <1>15 DEF LeaveLoop, Goto, Destroys, MutexInv
  <2>2. QED
    BY <1>0, <1>15, <2>1, SameHolders DEF LeaveLoop, dialogVars, runVars
<1>16. CASE Report
  <2>1. \A u \in Threads : Destroys(u) <=> Destroys(u)'
    BY <1>16 DEF Report, Destroys
  <2>2. QED
    BY <1>0, <1>16, <2>1, SameHolders DEF Report, dialogVars
<1>17. CASE EndReport
  <2>1. (\E u \in Threads : Destroys(u)) <=> (\E u \in Threads : Destroys(u))'
    BY <1>17 DEF EndReport, Destroys
  <2>2. ending # "none" /\ ending' = "none" /\ phase' = phase /\ owned' = owned
        /\ refs' = refs - 1
    BY <1>17 DEF EndReport
  <2>3. QED
    BY <1>0, <2>1, <2>2 DEF RefsInv, One
<1>18. CASE UNCHANGED vars
  <2>1. \A u \in Threads : Destroys(u) <=> Destroys(u)'
    BY <1>18 DEF vars, Destroys
  <2>2. QED
    BY <1>0, <1>18, <2>1, SameHolders DEF vars, dialogVars, runVars
<1>19. QED
  BY <1>1, <1>2, <1>3, <1>4, <1>5, <1>6, <1>7, <1>8, <1>9, <1>10, <1>11, <1>12, <1>13, <1>14,
     <1>15, <1>16, <1>17, <1>18 DEF Next, Inside, Act, MainContext

-----------------------------------------------------------------------------
(* What the proofs rest on holds in every state.                           *)
THEOREM Invariance == ASSUME Cautious PROVE Spec => []IInv
<1>1. IInv /\ [Next]_vars => IInv'
  BY TypeStep, MutexStep, ActStep, RunStep, ReportStep, DestroyStep, RefsStep, ClosedStep
     DEF IInv
<1>2. QED  BY InitIInv, <1>1, PTL DEF Spec

(* The variables have their types: no reference is given up twice by the   *)
(* application, the run and the destroying thread.                         *)
THEOREM ThreadsTypeCorrect == ASSUME Cautious PROVE Spec => []TypeOK
BY Invariance, PTL DEF IInv

(* The state that a method tested is the state that it acts on, however    *)
(* many threads use the dialog (the mutex of _lfcd_entry_sanity_check).    *)
THEOREM TestsHold == ASSUME Cautious PROVE Spec => []ActsOnWhatItTested
<1>1. IInv => ActsOnWhatItTested
  BY DEF IInv, ActInv, ActsOnWhatItTested
<1>2. QED  BY Invariance, <1>1, PTL

(* The assertion of _lfcd_run_func that the dialog still runs.             *)
THEOREM ThreadsLetRunsRun == ASSUME Cautious PROVE Spec => []RunKeepsRunning
<1>1. ASSUME IInv PROVE RunKeepsRunning
  <2>1. phase # "none" => state = RUNNING /\ refs > 0
    BY <1>1, HoldersKeep DEF IInv, RunInv
  <2>2. ASSUME NEW t \in Threads, at[t] = "acting", doing[t] = "end_run"
        PROVE  state = RUNNING
    BY <1>1, <2>2 DEF IInv, MutexInv, RunInv, Before
  <2>3. QED  BY <2>1, <2>2 DEF RunKeepsRunning
<1>2. QED  BY Invariance, <1>1, PTL

(* A dialog lives while a thread is in one of its methods, provided that   *)
(* none is when its user closes the window: see ThreadsClosed.cfg.         *)
THEOREM ObjectOutlivesMethods == ASSUME Cautious PROVE Spec => []NoUseAfterFree
<1>1. IInv => NoUseAfterFree
  BY GoneIsIdle DEF NoUseAfterFree
<1>2. QED  BY Invariance, <1>1, PTL

(* No interleaving between the end of a run and its report turns a refusal *)
(* of the user into an acceptance (_lfcd_run_func reads the state again).  *)
THEOREM RefusalsAreReported == ASSUME Cautious PROVE Spec => []NoAcceptanceInvented
<1>1. IInv => NoAcceptanceInvented
  BY DEF IInv, TypeOK, ReportInv, NoAcceptanceInvented, NoReport, Endings,
         RUNNING, DATA_RETRIEVAL
<1>2. QED  BY Invariance, <1>1, PTL
=============================================================================
