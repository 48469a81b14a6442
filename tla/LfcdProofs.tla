----------------------------- MODULE LfcdProofs -----------------------------
(***************************************************************************)
(* Theorems about LocalFileChooserDialog, for any number of dialogs, any   *)
(* contents, any bound on the references and any application.              *)
(***************************************************************************)
EXTENDS LocalFileChooserDialog, SfcdMethodsProofs, TLAPS

(* What RefsAccounted and UserChoiceIntact need to be inductive: how the   *)
(* state of a dialog, its run and its window go together.                  *)

RunsInState ==
  fault = "none" => \A d \in Dialogs : phase[d] # "none" => state[d] = RUNNING

ScreenInState ==
  fault = "none" => \A d \in shown : state[d] = RUNNING /\ refs[d] > 0

NoStaleAnswer ==
  fault = "none" => \A d \in Dialogs : phase[d] = "none" => answer[d] = "none"

NoEarlyResponse ==
  fault = "none" =>
    \A d \in Dialogs : refs[d] > 0 /\ state[d] = RUNNING => heard[d] # "response"

Shape ==
  /\ RunsInState
  /\ ScreenInState
  /\ NoStaleAnswer
  /\ NoEarlyResponse
  /\ UserChoiceIntact

IInv == TypeOK /\ RefsAccounted /\ EachRunOnce /\ Shape

(* An application that keeps to the documented life of a dialog: it does   *)
(* not use one that was destroyed, nor destroy one that its user has just  *)
(* closed, nor tie one to a parent window.                                 *)
Careful ==
  ClientMay \cap {"destroy_closed", "use_destroyed", "parent"} = {}

OwnedOnScreen == \A d \in shown : d \in owned /\ phase[d] # "none"

ClosedIsOwned == \A d \in Dialogs : answer[d] = "delete" => d \in owned

CInv == NoFault /\ OwnedOnScreen /\ ClosedIsOwned /\ withParent = {}

-----------------------------------------------------------------------------
(* The methods that change the state of a dialog are refused while it runs *)
(* (the sfcd_is_running tests of the setters and of lfcd_run).             *)
LEMMA NotWhileRunning ==
  ASSUME NEW m \in Setters \cup {"run"}, ~RefusedIn(m, RUNNING)
  PROVE  FALSE
BY ChangesRefused

(* Present is refused unless the dialog runs (lfcd_present).               *)
LEMMA PresentWhileRunning ==
  ASSUME NEW s \in SfcdState, ~RefusedIn("present", s)
  PROVE  s = RUNNING
BY ControlsRefused DEF RunControls, RunControl

(* What RefsAccounted adds up are natural numbers, most of them 0 or 1.    *)
LEMMA RefParts ==
  ASSUME TypeOK, NEW d \in Dialogs
  PROVE  /\ OwnerRef(d) \in 0..1
         /\ extras[d] \in Nat
         /\ RunRef(d) \in 0..1
         /\ ReportRef(d) \in 0..1
         /\ refs[d] \in Nat
BY LfcdAssumption DEF LfcdAssumption, TypeOK, OwnerRef, RunRef, ReportRef

(* Whoever may use a dialog has a reference to it.                         *)
LEMMA CallableIsAlive ==
  ASSUME TypeOK, RefsAccounted, NEW d \in Dialogs, Callable(d)
  PROVE  refs[d] > 0
<1>1. refs[d] = OwnerRef(d) + extras[d] + RunRef(d) + ReportRef(d)
  BY DEF RefsAccounted, Callable
<1>2. OwnerRef(d) = 1 \/ extras[d] > 0
  BY DEF Callable, OwnerRef
<1>3. QED  BY <1>1, <1>2, RefParts

(* So does whoever holds a reference, and the emission of a response.      *)
LEMMA HolderIsAlive ==
  ASSUME TypeOK, RefsAccounted, fault = "none", NEW d \in Dialogs,
         extras[d] > 0 \/ reporting = d
  PROVE  refs[d] > 0
<1>1. refs[d] = OwnerRef(d) + extras[d] + RunRef(d) + ReportRef(d)
  BY DEF RefsAccounted
<1>2. extras[d] > 0 \/ ReportRef(d) = 1
  BY DEF ReportRef
<1>3. QED  BY <1>1, <1>2, RefParts

(* An object that is gone has left no holder, no run and no emission.      *)
LEMMA UnreferencedIsFree ==
  ASSUME TypeOK, RefsAccounted, fault = "none", NEW d \in Dialogs, refs[d] = 0
  PROVE  d \notin owned /\ extras[d] = 0 /\ phase[d] = "none" /\ reporting # d
<1>1. 0 = OwnerRef(d) + extras[d] + RunRef(d) + ReportRef(d)
  BY DEF RefsAccounted
<1>2. OwnerRef(d) = 0 /\ extras[d] = 0 /\ RunRef(d) = 0 /\ ReportRef(d) = 0
  BY <1>1, RefParts
<1>3. QED  BY <1>2 DEF OwnerRef, RunRef, ReportRef

(* When somebody else than a run gives up the last reference, no run is in *)
(* progress: disposal does not reach the assertion of run_destroy_handler. *)
LEMMA LastReferenceIsIdle ==
  ASSUME TypeOK, RefsAccounted, fault = "none", NEW d \in Dialogs, refs[d] = 1,
         d \in owned \/ extras[d] > 0 \/ reporting = d
  PROVE  phase[d] = "none"
<1>1. 1 = OwnerRef(d) + extras[d] + RunRef(d) + ReportRef(d)
  BY DEF RefsAccounted
<1>2. OwnerRef(d) = 1 \/ extras[d] > 0 \/ ReportRef(d) = 1
  BY DEF OwnerRef, ReportRef
<1>3. RunRef(d) = 0
  BY <1>1, <1>2, RefParts
<1>4. QED  BY <1>3 DEF RunRef

(* g_object_unref on a live dialog keeps the types.                        *)
LEMMA UnrefTypes ==
  ASSUME TypeOK, NEW d \in Dialogs, refs[d] > 0,
         NEW onScreen \in SUBSET Dialogs, Unref(d, onScreen)
  PROVE  /\ refs' \in [Dialogs -> Nat]
         /\ shown' \subseteq Dialogs
         /\ fault' \in Faults
BY DEF TypeOK, Unref, Faults

(* shutdown_loop starts and ends no run, and starts no loop.               *)
LEMMA ShutdownPhase ==
  ASSUME NEW p \in Phases
  PROVE  /\ Shutdown(p) \in Phases
         /\ Shutdown(p) = "none" <=> p = "none"
         /\ Shutdown(p) = "queued" <=> p = "queued"
BY DEF Shutdown, Phases

(* Nor does the unmap handler of a run.                                    *)
LEMMA HeardUnmapTypes ==
  ASSUME TypeOK, NEW d \in Dialogs, HeardUnmap(d)
  PROVE  /\ phase' \in [Dialogs -> Phases]
         /\ \A e \in Dialogs : phase'[e] = "none" <=> phase[e] = "none"
         /\ \A e \in Dialogs : phase'[e] = "queued" <=> phase[e] = "queued"
BY DEF TypeOK, HeardUnmap, Shutdown, Phases

(* A step that changes no holder of a reference keeps the account.         *)
LEMMA SameHolders ==
  ASSUME RefsAccounted,
         fault' = "none" => fault = "none",
         UNCHANGED <<refs, owned, extras, reporting>>,
         \A d \in Dialogs : phase'[d] = "none" <=> phase[d] = "none"
  PROVE  RefsAccounted'
BY DEF RefsAccounted, OwnerRef, RunRef, ReportRef

(* Adding to a sequence without repetitions an element that it lacks (a run*)
(* is queued, a loop is started).                                          *)
LEMMA Appended ==
  ASSUME NEW S, NEW s \in Seq(S), NEW x \in S, x \notin ToSet(s), IsInjective(s)
  PROVE  /\ Append(s, x) \in Seq(S)
         /\ IsInjective(Append(s, x))
         /\ ToSet(Append(s, x)) = ToSet(s) \cup {x}
<1> DEFINE t == Append(s, x)
<1>1. t \in Seq(S) /\ Len(t) = Len(s) + 1 /\ Len(s) \in Nat
  OBVIOUS
<1>2. DOMAIN s = 1..Len(s) /\ DOMAIN t = 1..Len(t)
  BY <1>1
<1>3. \A i \in 1..Len(s) : t[i] = s[i] /\ s[i] # x
  BY <1>2 DEF ToSet
<1>4. t[Len(s) + 1] = x
  OBVIOUS
<1>5. IsInjective(t)
  BY <1>1, <1>2, <1>3, <1>4 DEF IsInjective
<1>6. ToSet(t) = ToSet(s) \cup {x}
  BY <1>1, <1>2, <1>3, <1>4 DEF ToSet
<1>7. QED  BY <1>1, <1>5, <1>6

(* Taking the first element of such a sequence (an idle source starts).    *)
LEMMA HeadTaken ==
  ASSUME NEW S, NEW s \in Seq(S), s # <<>>, IsInjective(s)
  PROVE  /\ Head(s) \in S /\ Tail(s) \in Seq(S)
         /\ IsInjective(Tail(s))
         /\ ToSet(Tail(s)) = ToSet(s) \ {Head(s)}
         /\ Head(s) \in ToSet(s)
<1> DEFINE t == Tail(s)
<1>1. t \in Seq(S) /\ Len(t) = Len(s) - 1 /\ Len(s) \in Nat \ {0} /\ Head(s) = s[1]
  OBVIOUS
<1>2. DOMAIN s = 1..Len(s) /\ DOMAIN t = 1..Len(t)
  BY <1>1
<1>3. \A i \in 1..Len(t) : t[i] = s[i + 1]
  OBVIOUS
<1>4. \A i, j \in 1..Len(s) : s[i] = s[j] => i = j
  BY <1>2 DEF IsInjective
<1>5. IsInjective(t)
  BY <1>1, <1>2, <1>3, <1>4 DEF IsInjective
<1>6. ASSUME NEW y PROVE y \in ToSet(t) <=> y \in ToSet(s) /\ y # s[1]
  <2>1. ASSUME y \in ToSet(t) PROVE y \in ToSet(s) /\ y # s[1]
    BY <2>1, <1>1, <1>2, <1>3, <1>4 DEF ToSet
  <2>2. ASSUME y \in ToSet(s), y # s[1] PROVE y \in ToSet(t)
    <3>1. PICK i \in 1..Len(s) : y = s[i]  BY <2>2, <1>2 DEF ToSet
    <3>2. i - 1 \in 1..Len(t)  BY <1>1, <2>2, <3>1
    <3>3. t[i - 1] = y  BY <1>1, <1>3, <3>1, <3>2
    <3>4. QED  BY <3>2, <3>3, <1>2 DEF ToSet
  <2>3. QED  BY <2>1, <2>2
<1>7. Head(s) \in ToSet(s) /\ Head(s) \in S
  BY <1>1, <1>2 DEF ToSet
<1>8. QED  BY <1>1, <1>5, <1>6, <1>7

(* Taking the last one (the innermost loop returns).                       *)
LEMMA LastTaken ==
  ASSUME NEW S, NEW s \in Seq(S), s # <<>>, IsInjective(s)
  PROVE  /\ Last(s) \in S /\ Front(s) \in Seq(S)
         /\ IsInjective(Front(s))
         /\ ToSet(Front(s)) = ToSet(s) \ {Last(s)}
         /\ Last(s) \in ToSet(s)
<1> DEFINE t == Front(s)
<1>1. Len(s) \in Nat \ {0} /\ Last(s) = s[Len(s)] /\ DOMAIN s = 1..Len(s)
  BY DEF Last
<1>2. t \in Seq(S) /\ Len(t) = Len(s) - 1 /\ \A i \in 1..Len(t) : t[i] = s[i]
  BY <1>1 DEF Front
<1>3. DOMAIN t = 1..Len(t)
  BY <1>2
<1>4. \A i, j \in 1..Len(s) : s[i] = s[j] => i = j
  BY <1>1 DEF IsInjective
<1>5. IsInjective(t)
  BY <1>1, <1>2, <1>3, <1>4 DEF IsInjective
<1>6. ASSUME NEW y PROVE y \in ToSet(t) <=> y \in ToSet(s) /\ y # Last(s)
  BY <1>1, <1>2, <1>3, <1>4 DEF ToSet
<1>7. Last(s) \in ToSet(s) /\ Last(s) \in S
  BY <1>1 DEF ToSet
<1>8. QED  BY <1>2, <1>5, <1>6, <1>7

(* A step that changes the holders of d alone keeps the account of others. *)
LEMMA OtherHolders ==
  ASSUME RefsAccounted, fault = "none", NEW d \in Dialogs,
         \A e \in Dialogs \ {d} :
           /\ refs'[e] = refs[e] /\ extras'[e] = extras[e]
           /\ e \in owned' <=> e \in owned
           /\ phase'[e] = "none" <=> phase[e] = "none"
           /\ reporting' = e <=> reporting = e,
         fault' = "none" =>
           refs'[d] = OwnerRef(d)' + extras'[d] + RunRef(d)' + ReportRef(d)'
  PROVE  RefsAccounted'
<1>1. ASSUME NEW e \in Dialogs \ {d}
      PROVE  refs'[e] = OwnerRef(e)' + extras'[e] + RunRef(e)' + ReportRef(e)'
  BY <1>1 DEF RefsAccounted, OwnerRef, RunRef, ReportRef
<1>2. QED  BY <1>1 DEF RefsAccounted

(* A step that starts no run and no loop, and ends none, keeps the places. *)
LEMMA SamePlaces ==
  ASSUME EachRunOnce, TypeOK, TypeOK', UNCHANGED <<idles, loops>>,
         \A d \in Dialogs : /\ phase'[d] = "none" <=> phase[d] = "none"
                            /\ phase'[d] = "queued" <=> phase[d] = "queued"
  PROVE  EachRunOnce'
BY DEF EachRunOnce, TypeOK, Phases

(* The inductive invariant: it holds before any dialog is created, ...     *)
LEMMA InitIInv == Init => IInv
BY LfcdAssumption
   DEF LfcdAssumption, Init, IInv, EachRunOnce, ToSet, IsInjective, Shape, TypeOK,
       RefsAccounted, RunsInState, ScreenInState,
       NoStaleAnswer, NoEarlyResponse, UserChoiceIntact, OwnerRef, RunRef, ReportRef,
       SfcdState, Phases, Answers, Signals, Kinds, ErrorCodes, Faults, Contents, Blank

USE DEF objectVars, runVars, loopVars, gtkVars, clientVars, Return

(* A setter leaves CONFIGURATION.                                          *)
LEMMA SetterState ==
  ASSUME TypeOK, NEW d \in Dialogs, NEW m \in Setters, NEW c, Modify(d, m, c)
  PROVE  state' = [state EXCEPT ![d] = CONFIGURATION]
BY SettersConfigure DEF Modify, TypeOK

(* Beside the state, it changes the content of the chooser and no more.    *)
LEMMA ModifyRest ==
  ASSUME NEW d, NEW m, NEW c, Modify(d, m, c)
  PROVE  /\ content' = [content EXCEPT ![d] = c]
         /\ UNCHANGED <<refs, phase, answer, idles, loops, reporting, shown, widget,
                        withParent, owned, extras, heard, presented, fault>>
BY DEF Modify

LEMMA ContentEdited ==
  ASSUME TypeOK, NEW d \in Dialogs, NEW s \in Selections, NEW o \in Options
  PROVE  /\ [content[d] EXCEPT !.selection = s] \in Contents
         /\ [content[d] EXCEPT !.options = o] \in Contents
<1>1. content[d] \in Contents  BY DEF TypeOK
<1>2. QED  BY <1>1 DEF Contents

LEMMA ConfigureState ==
  ASSUME TypeOK, NEW d \in Dialogs, Configure(d)
  PROVE  \/ UNCHANGED state
         \/ state[d] # RUNNING /\ state' = [state EXCEPT ![d] = CONFIGURATION]
<1> DEFINE Goal == \/ UNCHANGED state
                   \/ state[d] # RUNNING /\ state' = [state EXCEPT ![d] = CONFIGURATION]
<1>1. ASSUME NEW m \in Setters, NEW c, Modify(d, m, c), ~RefusedIn(m, state[d]) PROVE Goal
  BY <1>1, SetterState, NotWhileRunning
<1>2. ASSUME NEW x, SetExtraWidget(d, x) \/ SetDestroyWithParent(d, x) PROVE Goal
  BY <1>2 DEF SetExtraWidget, SetDestroyWithParent
<1>3. ASSUME NEW m \in Setters, NEW x,
             SetSelection(d, m, x) \/ SetOption(d, m, x) \/ EditShortcuts(d, m, x)
      PROVE  Goal
  BY <1>1, <1>3 DEF SetSelection, SetOption, EditShortcuts
<1>4. QED  BY ONLY Configure(d), <1>2, <1>3 DEF Configure, Setters

(* ... every step keeps the types, ...                                     *)
LEMMA TypeStep ==
  ASSUME IInv, [Next]_vars
  PROVE  TypeOK'
<1> USE LfcdAssumption DEF LfcdAssumption, IInv, TypeOK, SfcdState, Phases, Answers,
                           Signals, Kinds, ErrorCodes, Faults, Contents, Blank
<1>0. CASE UNCHANGED vars  BY <1>0 DEF vars
<1>1. ASSUME NEW d \in Dialogs, New(d) PROVE TypeOK'
  BY <1>1 DEF New
<1>2. ASSUME NEW d \in Dialogs, TakeExtra(d) PROVE TypeOK'
  BY <1>2 DEF TakeExtra
<1>3. ASSUME NEW d \in Dialogs, DropExtra(d) PROVE TypeOK'
  <2>1. refs[d] > 0  BY <1>3, HolderIsAlive DEF DropExtra
  <2>2. extras' \in [Dialogs -> 0..MaxExtra]
    BY <1>3 DEF DropExtra
  <2>3. QED  BY <1>3, <2>1, <2>2, UnrefTypes DEF DropExtra
<1>4. ASSUME NEW d \in Dialogs, Destroy(d) PROVE TypeOK'
  <2>1. refs[d] > 0  BY <1>4, CallableIsAlive DEF Destroy, MayDestroy, Callable
  <2>2. extras' \in [Dialogs -> 0..MaxExtra]
    BY <1>4 DEF Destroy, MayDestroy, Callable
  <2>3. CASE state[d] = RUNNING
    BY <1>4, <2>1, <2>2, <2>3, UnrefTypes, HeardUnmapTypes DEF Destroy
  <2>4. CASE state[d] # RUNNING
    BY <1>4, <2>1, <2>2, <2>4, UnrefTypes DEF Destroy
  <2>5. QED  BY <2>3, <2>4
<1>5. ASSUME NEW d \in Dialogs, Configure(d) PROVE TypeOK'
  <2>0. state' \in [Dialogs -> SfcdState]  BY <1>5, ConfigureState
  <2>1. ASSUME NEW m, NEW c \in Contents, NEW e \in ErrorCodes,
               Modify(d, m, c), Return("change", e)
        PROVE  TypeOK'
    <3>1. content' = [content EXCEPT ![d] = c] /\ UNCHANGED <<refs, extras, presented>>
          /\ UNCHANGED <<phase, answer, idles, loops, reporting, shown, widget, withParent,
                         owned, heard, fault>>
      BY <2>1, ModifyRest
    <3>2. QED  BY <2>0, <2>1, <3>1
  <2>2. ASSUME NEW m, NEW s \in Selections, SetSelection(d, m, s) PROVE TypeOK'
    <3>1. [content[d] EXCEPT !.selection = s] \in Contents  BY ContentEdited DEF IInv
    <3>2. QED  BY <2>1, <2>2, <3>1 DEF SetSelection
  <2>3. ASSUME NEW m, NEW o \in Options, SetOption(d, m, o) PROVE TypeOK'
    <3>1. [content[d] EXCEPT !.options = o] \in Contents  BY ContentEdited DEF IInv
    <3>2. QED  BY <2>1, <2>3, <3>1 DEF SetOption
  <2>4. ASSUME NEW m, NEW e \in {"none", "TOOLKIT_CALL_FAILED"}, EditShortcuts(d, m, e)
        PROVE TypeOK'
    BY <2>1, <2>4 DEF EditShortcuts
  <2>5. ASSUME NEW ws \in {{}} \cup {{w} : w \in Widgets}, SetExtraWidget(d, ws)
        PROVE TypeOK'
    BY <2>5 DEF SetExtraWidget
  <2>6. ASSUME NEW setting \in BOOLEAN, SetDestroyWithParent(d, setting) PROVE TypeOK'
    BY <2>6 DEF SetDestroyWithParent
  <2>7. QED  BY ONLY <1>5, <2>2, <2>3, <2>4, <2>5, <2>6 DEF Configure
<1>6. ASSUME NEW d \in Dialogs, Ask(d) PROVE TypeOK'
  <2>1. ASSUME NEW m, Query(d, m) PROVE TypeOK'
    BY <2>1 DEF Query
  <2>2. ASSUME NEW m, NEW k \in Kinds, Refuse(d, m, k) PROVE TypeOK'
    <3>1. RefusalCode(m) \in ErrorCodes  BY <2>2, RefusalCodes DEF Refuse
    <3>2. QED  BY <2>2, <3>1 DEF Refuse
  <2>3. QED  BY <1>6, <2>1, <2>2 DEF Ask
<1>7. ASSUME NEW d \in Dialogs, Run(d) PROVE TypeOK'
  BY <1>7 DEF Run, Protect
<1>8. ASSUME NEW d \in Dialogs, Present(d) PROVE TypeOK'
  BY <1>8 DEF Present
<1>9. ASSUME NEW d \in Dialogs, CancelRun(d) PROVE TypeOK'
  BY <1>9, HeardUnmapTypes DEF CancelRun
<1>10. ASSUME NEW d \in Dialogs, ParentDestroyed(d) PROVE TypeOK'
  BY <1>10 DEF ParentDestroyed
<1>11. ASSUME NEW d \in Dialogs, NEW c \in Contents, UserEdit(d, c) PROVE TypeOK'
  BY <1>11 DEF UserEdit
<1>12. ASSUME NEW d \in Dialogs, NEW r \in {"accept", "reject"}, UserAnswer(d, r)
       PROVE TypeOK'
  BY <1>12 DEF UserAnswer, Shutdown
<1>13. ASSUME NEW d \in Dialogs, UserClose(d) PROVE TypeOK'
  <2>1. CASE phase[d] # "none"
    <3>1. Shutdown(phase[d]) \in Phases  BY ShutdownPhase
    <3>2. phase' = [phase EXCEPT ![d] = Shutdown(phase[d])] /\ UNCHANGED fault
          /\ answer' = [answer EXCEPT ![d] = "delete"]
      BY <1>13, <2>1 DEF UserClose
    <3>3. phase' \in [Dialogs -> Phases]  BY <3>1, <3>2
    <3>4. answer' \in [Dialogs -> Answers]  BY <3>2
    <3>5. QED  BY <1>13, <3>2, <3>3, <3>4 DEF UserClose
  <2>2. CASE phase[d] = "none"
    BY <1>13, <2>2 DEF UserClose
  <2>3. QED  BY <2>1, <2>2
<1>14. ASSUME NEW d \in Dialogs, StartLoop(d) PROVE TypeOK'
  BY <1>14 DEF StartLoop
<1>15. ASSUME NEW d \in Dialogs, EndRun(d) PROVE TypeOK'
  BY <1>15, LastTaken DEF EndRun, LeaveLoop, Verdict, EachRunOnce
<1>16. ASSUME NEW d \in Dialogs, EndClosedRun(d) PROVE TypeOK'
  <2>1. loops' \in Seq(Dialogs)
    BY <1>16, LastTaken DEF EndClosedRun, LeaveLoop, EachRunOnce
  <2>2. refs' \in [Dialogs -> Nat]
    BY <1>16 DEF EndClosedRun
  <2>3. fault' \in Faults
    BY <1>16 DEF EndClosedRun
  <2>4. QED  BY <1>16, <2>1, <2>2, <2>3 DEF EndClosedRun, LeaveLoop
<1>17. ASSUME NEW d \in Dialogs, EndReport(d) PROVE TypeOK'
  <2>1. refs[d] > 0  BY <1>17, HolderIsAlive DEF EndReport
  <2>2. QED  BY <1>17, <2>1, UnrefTypes DEF EndReport
<1>18. QED
  BY <1>0, <1>1, <1>2, <1>3, <1>4, <1>5, <1>6, <1>7, <1>8, <1>9, <1>10, <1>11, <1>12,
     <1>13, <1>14, <1>15, <1>16, <1>17
  DEF Next, Client, User, MainLoop, Dead

(* ... and gives each reference to a holder and back, ...                  *)
LEMMA AccountStep ==
  ASSUME IInv, [Next]_vars
  PROVE  RefsAccounted'
<1> USE DEF IInv
<1>0. CASE UNCHANGED vars
  BY <1>0, SameHolders DEF vars
<1>1. ASSUME NEW d \in Dialogs, New(d) PROVE RefsAccounted'
  <2>1. d \notin owned /\ phase[d] = "none" /\ reporting # d
    BY <1>1, UnreferencedIsFree DEF New
  <2>2. refs'[d] = 1 /\ extras'[d] = 0
    BY <1>1 DEF New, TypeOK
  <2>3. OwnerRef(d)' = 1 /\ RunRef(d)' = 0 /\ ReportRef(d)' = 0
    BY <1>1, <2>1 DEF New, OwnerRef, RunRef, ReportRef
  <2>4. refs'[d] = OwnerRef(d)' + extras'[d] + RunRef(d)' + ReportRef(d)'
    BY <2>2, <2>3
  <2>5. QED  BY <1>1, <2>4, OtherHolders DEF New, TypeOK
<1>2. ASSUME NEW d \in Dialogs, TakeExtra(d) PROVE RefsAccounted'
  <2>1. refs'[d] = refs[d] + 1 /\ extras'[d] = extras[d] + 1
    BY <1>2 DEF TakeExtra, TypeOK
  <2>2. OwnerRef(d)' = OwnerRef(d) /\ RunRef(d)' = RunRef(d) /\ ReportRef(d)' = ReportRef(d)
    BY <1>2 DEF TakeExtra, OwnerRef, RunRef, ReportRef
  <2>3. refs[d] = OwnerRef(d) + extras[d] + RunRef(d) + ReportRef(d)
    BY <1>2 DEF TakeExtra, Callable, RefsAccounted
  <2>4. refs'[d] = OwnerRef(d)' + extras'[d] + RunRef(d)' + ReportRef(d)'
    BY <2>1, <2>2, <2>3, RefParts
  <2>5. QED  BY <1>2, <2>4, OtherHolders DEF TakeExtra, Callable, TypeOK
<1>3. ASSUME NEW d \in Dialogs, DropExtra(d) PROVE RefsAccounted'
  <2>1. refs'[d] = refs[d] - 1 /\ extras'[d] = extras[d] - 1
    BY <1>3 DEF DropExtra, Unref, TypeOK
  <2>2. OwnerRef(d)' = OwnerRef(d) /\ RunRef(d)' = RunRef(d) /\ ReportRef(d)' = ReportRef(d)
    BY <1>3 DEF DropExtra, OwnerRef, RunRef, ReportRef
  <2>3. refs[d] = OwnerRef(d) + extras[d] + RunRef(d) + ReportRef(d)
    BY <1>3 DEF DropExtra, RefsAccounted
  <2>4. refs'[d] = OwnerRef(d)' + extras'[d] + RunRef(d)' + ReportRef(d)'
    BY <2>1, <2>2, <2>3, RefParts
  <2>5. QED  BY <1>3, <2>4, OtherHolders DEF DropExtra, Unref, TypeOK
<1>4. ASSUME NEW d \in Dialogs, Destroy(d) PROVE RefsAccounted'
  <2>1. \A e \in Dialogs : phase'[e] = "none" <=> phase[e] = "none"
    BY <1>4, HeardUnmapTypes DEF Destroy
  <2>2. refs' = [refs EXCEPT ![d] = @ - 1]
    BY <1>4 DEF Destroy, Unref
  <2>3. OwnerRef(d)' + extras'[d] = OwnerRef(d) + extras[d] - 1
    BY <1>4 DEF Destroy, OwnerRef, TypeOK
  <2>4. RunRef(d)' = RunRef(d) /\ ReportRef(d)' = ReportRef(d)
    BY <1>4, <2>1 DEF Destroy, RunRef, ReportRef
  <2>5. refs[d] = OwnerRef(d) + extras[d] + RunRef(d) + ReportRef(d)
    BY <1>4 DEF Destroy, MayDestroy, Callable, RefsAccounted
  <2>6. refs'[d] = OwnerRef(d)' + extras'[d] + RunRef(d)' + ReportRef(d)'
    <3>1. refs'[d] = refs[d] - 1  BY <2>2 DEF TypeOK
    <3>2. QED  BY <3>1, <2>3, <2>4, <2>5, RefParts
  <2>7. QED  BY <1>4, <2>1, <2>2, <2>6, OtherHolders
            DEF Destroy, MayDestroy, Callable, TypeOK
<1>5. ASSUME NEW d \in Dialogs, Configure(d) PROVE RefsAccounted'
  <2>1. UNCHANGED <<refs, owned, extras, reporting, phase, fault>>
    BY <1>5 DEF Configure, SetSelection, SetOption, EditShortcuts, SetExtraWidget,
                SetDestroyWithParent, Modify
  <2>2. QED  BY <2>1, SameHolders
<1>6. ASSUME NEW d \in Dialogs, Ask(d) PROVE RefsAccounted'
  BY <1>6, SameHolders DEF Ask, Query, Refuse
<1>7. ASSUME NEW d \in Dialogs, Run(d) PROVE RefsAccounted'
  <2>1. phase[d] = "none"
    <3>1. state[d] # RUNNING  BY <1>7, NotWhileRunning DEF Run
    <3>2. QED  BY <1>7, <3>1 DEF Run, Callable, Shape, RunsInState
  <2>2. refs'[d] = refs[d] + 1
    BY <1>7 DEF Run, Protect, TypeOK
  <2>3. RunRef(d) = 0 /\ RunRef(d)' = 1
    BY <1>7, <2>1 DEF Run, RunRef, TypeOK
  <2>4. OwnerRef(d)' = OwnerRef(d) /\ extras' = extras /\ ReportRef(d)' = ReportRef(d)
    BY <1>7 DEF Run, OwnerRef, ReportRef
  <2>5. refs[d] = OwnerRef(d) + extras[d] + RunRef(d) + ReportRef(d)
    BY <1>7 DEF Run, Callable, RefsAccounted
  <2>6. refs'[d] = OwnerRef(d)' + extras'[d] + RunRef(d)' + ReportRef(d)'
    BY <2>2, <2>3, <2>4, <2>5, RefParts
  <2>7. QED  BY <1>7, <2>6, OtherHolders DEF Run, Protect, Callable, TypeOK
<1>8. ASSUME NEW d \in Dialogs, Present(d) \/ ParentDestroyed(d) PROVE RefsAccounted'
  BY <1>8, SameHolders DEF Present, ParentDestroyed
<1>9. ASSUME NEW d \in Dialogs, CancelRun(d) PROVE RefsAccounted'
  BY <1>9, HeardUnmapTypes, SameHolders DEF CancelRun
<1>10. ASSUME NEW d \in Dialogs, User(d) PROVE RefsAccounted'
  <2>1. UNCHANGED <<refs, owned, extras, reporting>> /\ fault = "none"
    BY <1>10 DEF User, UserEdit, UserAnswer, UserClose, Iterating
  <2>2. \A e \in Dialogs : phase'[e] = "none" <=> phase[e] = "none"
    BY <1>10 DEF User, UserEdit, UserAnswer, UserClose, Shutdown, TypeOK
  <2>3. QED  BY <2>1, <2>2, SameHolders
<1>11. ASSUME NEW d \in Dialogs, StartLoop(d) PROVE RefsAccounted'
  <2>1. phase[d] = "queued"
    BY <1>11, HeadTaken DEF StartLoop, EachRunOnce, TypeOK
  <2>2. \A e \in Dialogs : phase'[e] = "none" <=> phase[e] = "none"
    BY <1>11, <2>1 DEF StartLoop, TypeOK
  <2>3. QED  BY <1>11, <2>2, SameHolders DEF StartLoop
<1>12. ASSUME NEW d \in Dialogs, EndRun(d) PROVE RefsAccounted'
  <2>1. RunRef(d) = 1 /\ RunRef(d)' = 0
    BY <1>12 DEF EndRun, LeaveLoop, RunRef, TypeOK
  <2>2. ReportRef(d) = 0 /\ ReportRef(d)' = 1
    BY <1>12, LfcdAssumption DEF EndRun, LeaveLoop, Iterating, ReportRef, LfcdAssumption
  <2>3. OwnerRef(d)' = OwnerRef(d) /\ extras' = extras /\ refs' = refs
    BY <1>12 DEF EndRun, LeaveLoop, OwnerRef
  <2>4. refs[d] = OwnerRef(d) + extras[d] + RunRef(d) + ReportRef(d)
    BY <1>12 DEF EndRun, LeaveLoop, Iterating, RefsAccounted
  <2>5. refs'[d] = OwnerRef(d)' + extras'[d] + RunRef(d)' + ReportRef(d)'
    BY <2>1, <2>2, <2>3, <2>4, RefParts
  <2>6. QED
    BY <1>12, <2>5, OtherHolders, LfcdAssumption
    DEF EndRun, LeaveLoop, Iterating, TypeOK, LfcdAssumption
<1>13. ASSUME NEW d \in Dialogs, EndClosedRun(d) PROVE RefsAccounted'
  <2>1. RunRef(d) = 1 /\ RunRef(d)' = 0
    BY <1>13 DEF EndClosedRun, LeaveLoop, RunRef, TypeOK
  <2>2. ReportRef(d) = 0 /\ ReportRef(d)' = 0
    BY <1>13, LfcdAssumption DEF EndClosedRun, LeaveLoop, Iterating, ReportRef, LfcdAssumption
  <2>3. OwnerRef(d)' = 0 /\ extras' = extras
    BY <1>13 DEF EndClosedRun, LeaveLoop, OwnerRef
  <2>4. refs[d] = OwnerRef(d) + extras[d] + RunRef(d) + ReportRef(d)
    BY <1>13 DEF EndClosedRun, LeaveLoop, Iterating, RefsAccounted
  <2>5. ASSUME fault' = "none"
        PROVE  refs'[d] = OwnerRef(d)' + extras'[d] + RunRef(d)' + ReportRef(d)'
    <3>1. OwnerRef(d) = 1
      BY <1>13, <2>5 DEF EndClosedRun, OwnerRef
    <3>2. refs'[d] = IF refs[d] > 2 THEN refs[d] - 2 ELSE 0
      BY <1>13 DEF EndClosedRun, TypeOK
    <3>3. QED  BY <2>1, <2>2, <2>3, <2>4, <3>1, <3>2, RefParts
  <2>6. QED
    BY <1>13, <2>5, OtherHolders DEF EndClosedRun, LeaveLoop, Iterating, TypeOK
<1>14. ASSUME NEW d \in Dialogs, EndReport(d) PROVE RefsAccounted'
  <2>1. refs'[d] = refs[d] - 1
    BY <1>14 DEF EndReport, Unref, TypeOK
  <2>2. ReportRef(d) = 1 /\ ReportRef(d)' = 0
    BY <1>14, LfcdAssumption DEF EndReport, ReportRef, LfcdAssumption
  <2>3. OwnerRef(d)' = OwnerRef(d) /\ extras' = extras /\ RunRef(d)' = RunRef(d)
    BY <1>14 DEF EndReport, OwnerRef, RunRef
  <2>4. refs[d] = OwnerRef(d) + extras[d] + RunRef(d) + ReportRef(d)
    BY <1>14 DEF EndReport, RefsAccounted
  <2>5. refs'[d] = OwnerRef(d)' + extras'[d] + RunRef(d)' + ReportRef(d)'
    BY <2>1, <2>2, <2>3, <2>4, RefParts
  <2>6. QED
    BY <1>14, <2>5, OtherHolders, LfcdAssumption DEF EndReport, Unref, TypeOK, LfcdAssumption
<1>15. QED
  BY <1>0, <1>1, <1>2, <1>3, <1>4, <1>5, <1>6, <1>7, <1>8, <1>9, <1>10, <1>11, <1>12,
     <1>13, <1>14
  DEF Next, Client, MainLoop, Dead

(* ... and a run waits, or has a loop on the stack, exactly once; ...      *)
LEMMA OnceStep ==
  ASSUME IInv, [Next]_vars, TypeOK'
  PROVE  EachRunOnce'
<1> USE DEF IInv
<1>0. CASE UNCHANGED <<idles, loops, phase>>
  BY <1>0, SamePlaces
<1>1. ASSUME NEW d \in Dialogs, Destroy(d) PROVE EachRunOnce'
  BY <1>1, HeardUnmapTypes, SamePlaces DEF Destroy
<1>2. ASSUME NEW d \in Dialogs, Configure(d) PROVE UNCHANGED <<idles, loops, phase>>
  BY <1>2 DEF Configure, SetSelection, SetOption, EditShortcuts, SetExtraWidget,
              SetDestroyWithParent, Modify
<1>3. ASSUME NEW d \in Dialogs, Run(d) PROVE EachRunOnce'
  <2>1. phase[d] = "none"
    <3>1. state[d] # RUNNING  BY <1>3, NotWhileRunning DEF Run
    <3>2. QED  BY <1>3, <3>1 DEF Run, Callable, Shape, RunsInState
  <2>2. IsInjective(idles') /\ ToSet(idles') = ToSet(idles) \cup {d}
    BY <1>3, <2>1, Appended DEF Run, EachRunOnce, TypeOK
  <2>3. QED  BY <1>3, <2>1, <2>2 DEF Run, EachRunOnce, TypeOK
<1>4. ASSUME NEW d \in Dialogs, CancelRun(d) PROVE EachRunOnce'
  BY <1>4, HeardUnmapTypes, SamePlaces DEF CancelRun
<1>5. ASSUME NEW d \in Dialogs, User(d) PROVE EachRunOnce'
  <2>1. UNCHANGED <<idles, loops>>
    BY <1>5 DEF User, UserEdit, UserAnswer, UserClose
  <2>2. \A e \in Dialogs : /\ phase'[e] = "none" <=> phase[e] = "none"
                           /\ phase'[e] = "queued" <=> phase[e] = "queued"
    <3>1. UNCHANGED phase \/ phase' = [phase EXCEPT ![d] = Shutdown(@)]
      BY <1>5 DEF User, UserEdit, UserAnswer, UserClose
    <3>2. phase[d] \in Phases  BY DEF TypeOK
    <3>3. \A e \in Dialogs : phase'[e] = IF e = d THEN phase'[d] ELSE phase[e]
      BY <3>1 DEF TypeOK
    <3>4. phase'[d] \in {phase[d], Shutdown(phase[d])}
      BY <3>1 DEF TypeOK
    <3>5. QED  BY <3>2, <3>3, <3>4, ShutdownPhase
  <2>3. QED  BY <2>1, <2>2, SamePlaces
<1>6. ASSUME NEW d \in Dialogs, StartLoop(d) PROVE EachRunOnce'
  <2>1. phase[d] = "queued" /\ d \notin ToSet(loops)
    BY <1>6, HeadTaken DEF StartLoop, EachRunOnce, TypeOK
  <2>2. IsInjective(idles') /\ ToSet(idles') = ToSet(idles) \ {d}
    BY <1>6, HeadTaken DEF StartLoop, EachRunOnce, TypeOK
  <2>3. IsInjective(loops') /\ ToSet(loops') = ToSet(loops) \cup {d}
    BY <1>6, <2>1, Appended DEF StartLoop, EachRunOnce, TypeOK
  <2>4. QED  BY <1>6, <2>1, <2>2, <2>3 DEF StartLoop, EachRunOnce, TypeOK
<1>7. ASSUME NEW d \in Dialogs, LeaveLoop(d) PROVE EachRunOnce'
  <2>1. IsInjective(loops') /\ ToSet(loops') = ToSet(loops) \ {d}
    BY <1>7, LastTaken DEF LeaveLoop, EachRunOnce, TypeOK
  <2>2. QED  BY <1>7, <2>1 DEF LeaveLoop, EachRunOnce, TypeOK
<1>8. QED
  BY <1>0, <1>1, <1>2, <1>3, <1>4, <1>5, <1>6, <1>7
  DEF Next, Client, MainLoop, Dead, vars, New, TakeExtra, DropExtra, Ask, Query, Refuse,
      Present, ParentDestroyed, EndRun, EndClosedRun, EndReport

(* ... its state and its window follow its run.                            *)
LEMMA ShapeStep ==
  ASSUME IInv, [Next]_vars, TypeOK'
  PROVE  Shape'
<1> USE DEF IInv, Shape, RunsInState, ScreenInState, NoStaleAnswer, NoEarlyResponse,
            UserChoiceIntact, TypeOK
<1>0. CASE UNCHANGED vars  BY <1>0 DEF vars
<1>1. ASSUME NEW d \in Dialogs, New(d) PROVE Shape'
  <2>1. d \notin shown /\ phase[d] = "none"
    BY <1>1, UnreferencedIsFree DEF New
  <2>2. RunsInState' /\ NoStaleAnswer'  BY <1>1, <2>1 DEF New
  <2>3. ScreenInState'  BY <1>1, <2>1 DEF New
  <2>4. NoEarlyResponse'  BY <1>1 DEF New
  <2>5. UserChoiceIntact'  BY <1>1 DEF New
  <2>6. QED  BY <2>2, <2>3, <2>4, <2>5
<1>2. ASSUME NEW d \in Dialogs, TakeExtra(d) PROVE Shape'
  BY <1>2, CallableIsAlive DEF TakeExtra
<1>3. ASSUME NEW d \in Dialogs, DropExtra(d) PROVE Shape'
  BY <1>3 DEF DropExtra, Unref
<1>4. ASSUME NEW d \in Dialogs, Destroy(d) PROVE Shape'
  <2>1. \A e \in Dialogs : phase'[e] = "none" <=> phase[e] = "none"
    BY <1>4, HeardUnmapTypes DEF Destroy
  <2>2. /\ UNCHANGED <<state, answer, content, presented>> /\ fault = "none"
        /\ heard' = [heard EXCEPT ![d] = "destroy"]
        /\ refs' = [refs EXCEPT ![d] = @ - 1]
    BY <1>4 DEF Destroy, MayDestroy, Callable, Unref
  <2>3. shown' \subseteq shown /\ (refs[d] = 1 => d \notin shown')
    BY <1>4 DEF Destroy, Unref
  <2>4. refs[d] > 0  BY <1>4, CallableIsAlive DEF Destroy, MayDestroy, Callable
  <2>5. RunsInState' /\ NoStaleAnswer'  BY <2>1, <2>2
  <2>6. ScreenInState'  BY <2>2, <2>3, <2>4
  <2>7. NoEarlyResponse'  BY <2>2
  <2>8. UserChoiceIntact'  BY <2>2
  <2>9. QED  BY <2>5, <2>6, <2>7, <2>8
<1>5. ASSUME NEW d \in Dialogs, Configure(d) PROVE Shape'
  <2>1. ASSUME NEW c, NEW m \in Setters, Modify(d, m, c), ~RefusedIn(m, state[d]), fault = "none"
        PROVE  Shape'
    <3>1. state[d] # RUNNING  BY <2>1, NotWhileRunning
    <3>2. d \notin shown /\ phase[d] = "none"  BY <2>1, <3>1
    <3>3. state' = [state EXCEPT ![d] = CONFIGURATION]  BY <2>1, SetterState
    <3>4. QED  BY <2>1, <3>1, <3>2, <3>3, ModifyRest DEF RUNNING, CONFIGURATION
  <2>2. ASSUME NEW m \in SelectionSetters, NEW s \in Selections, SetSelection(d, m, s)
        PROVE  Shape'
    BY <2>1, <2>2 DEF SetSelection, Callable, Setters
  <2>3. ASSUME NEW m \in OptionSetters, NEW o \in Options, SetOption(d, m, o) PROVE Shape'
    BY <2>1, <2>3 DEF SetOption, Callable, Setters
  <2>4. ASSUME NEW m \in ShortcutSetters, NEW e, EditShortcuts(d, m, e) PROVE Shape'
    BY <2>1, <2>4 DEF EditShortcuts, Callable, Setters
  <2>5. ASSUME NEW ws, SetExtraWidget(d, ws) PROVE Shape'
    BY <2>5 DEF SetExtraWidget
  <2>6. ASSUME NEW setting, SetDestroyWithParent(d, setting) PROVE Shape'
    BY <2>6 DEF SetDestroyWithParent
  <2>7. QED  BY ONLY <1>5, <2>2, <2>3, <2>4, <2>5, <2>6 DEF Configure
<1>6. ASSUME NEW d \in Dialogs, Ask(d) PROVE Shape'
  BY <1>6 DEF Ask, Query, Refuse
<1>7. ASSUME NEW d \in Dialogs, Run(d) PROVE Shape'
  BY <1>7, NotWhileRunning, CallableIsAlive DEF Run, Protect
<1>8. ASSUME NEW d \in Dialogs, Present(d) PROVE Shape'
  BY <1>8, PresentWhileRunning, CallableIsAlive DEF Present
<1>9. ASSUME NEW d \in Dialogs, CancelRun(d) PROVE Shape'
  BY <1>9, HeardUnmapTypes DEF CancelRun
<1>10. ASSUME NEW d \in Dialogs, ParentDestroyed(d) PROVE Shape'
  BY <1>10 DEF ParentDestroyed, Faults
<1>11. ASSUME NEW d \in Dialogs, NEW c \in Contents, UserEdit(d, c) PROVE Shape'
  BY <1>11 DEF UserEdit
<1>12. ASSUME NEW d \in Dialogs, NEW r \in {"accept", "reject"}, UserAnswer(d, r) PROVE Shape'
  BY <1>12 DEF UserAnswer, Shutdown
<1>13. ASSUME NEW d \in Dialogs, UserClose(d) PROVE Shape'
  <2>1. CASE phase[d] # "none"
    <3>1. UNCHANGED <<state, refs, shown, heard, content, presented, fault>>
      BY <1>13, <2>1 DEF UserClose
    <3>2. phase' = [phase EXCEPT ![d] = Shutdown(phase[d])]
          /\ answer' = [answer EXCEPT ![d] = "delete"]
      BY <1>13, <2>1 DEF UserClose
    <3>3. phase'[d] # "none"  BY <2>1, <3>2 DEF Shutdown
    <3>4. RunsInState' /\ NoStaleAnswer'  BY <2>1, <3>1, <3>2, <3>3
    <3>5. QED  BY <3>1, <3>4
  <2>2. CASE phase[d] = "none"  BY <1>13, <2>2 DEF UserClose
  <2>3. QED  BY <2>1, <2>2
<1>14. ASSUME NEW d \in Dialogs, StartLoop(d) PROVE Shape'
  <2>1. phase[d] = "queued"
    BY <1>14, HeadTaken DEF StartLoop, EachRunOnce
  <2>2. QED  BY <1>14, <2>1 DEF StartLoop, Iterating
<1>15. ASSUME NEW d \in Dialogs, EndRun(d) PROVE Shape'
  <2>1. state[d] = RUNNING  BY <1>15 DEF EndRun, LeaveLoop, Iterating
  <2>2. state'[d] \in {DATA_RETRIEVAL, CONFIGURATION} /\ phase'[d] = "none" /\ answer'[d] = "none"
        /\ d \notin shown'
    BY <1>15 DEF EndRun, LeaveLoop, Verdict
  <2>3. RunsInState' /\ NoStaleAnswer'  BY <1>15, <2>2 DEF EndRun, LeaveLoop, Iterating
  <2>4. ScreenInState'  BY <1>15, <2>2 DEF EndRun, LeaveLoop, Iterating
  <2>5. NoEarlyResponse'
    BY <1>15, <2>2 DEF EndRun, LeaveLoop, Iterating, RUNNING, DATA_RETRIEVAL, CONFIGURATION
  <2>6. UserChoiceIntact'
    BY <1>15, <2>1 DEF EndRun, LeaveLoop, RUNNING, CONFIGURATION
  <2>7. QED  BY <2>3, <2>4, <2>5, <2>6
<1>16. ASSUME NEW d \in Dialogs, EndClosedRun(d) PROVE Shape'
  BY <1>16 DEF EndClosedRun, LeaveLoop, Iterating
<1>17. ASSUME NEW d \in Dialogs, EndReport(d) PROVE Shape'
  BY <1>17 DEF EndReport, Unref
<1>18. QED
  BY <1>0, <1>1, <1>2, <1>3, <1>4, <1>5, <1>6, <1>7, <1>8, <1>9, <1>10, <1>11, <1>12,
     <1>13, <1>14, <1>15, <1>16, <1>17
  DEF Next, Client, User, MainLoop, Dead

(* Together: every reachable state satisfies IInv.                         *)
THEOREM Invariance == Spec => []IInv
<1>1. IInv /\ [Next]_vars => IInv'
  BY TypeStep, AccountStep, OnceStep, ShapeStep DEF IInv
<1>2. QED  BY InitIInv, <1>1, PTL DEF Spec

(* Every variable keeps its type.                                          *)
THEOREM TypeCorrect == Spec => []TypeOK
BY Invariance, PTL DEF IInv

(* Each reference to a dialog has a holder, whatever its application does. *)
THEOREM EveryReferenceHasHolder == Spec => []RefsAccounted
BY Invariance, PTL DEF IInv

(* A run waits for its turn once, or has one loop on the stack.            *)
THEOREM RunsDoNotRepeat == Spec => []EachRunOnce
BY Invariance, PTL DEF IInv

(* What the user saw last is what the application gets.                    *)
THEOREM UserDecides == Spec => []UserChoiceIntact
<1>1. IInv => UserChoiceIntact  BY DEF IInv, Shape
<1>2. QED  BY Invariance, <1>1, PTL

(* While a run is in progress its dialog lives, and is RUNNING.            *)
THEOREM RunsProtectDialogs == Spec => []RunKeepsRunning
<1>1. IInv => RunKeepsRunning
  <2> SUFFICES ASSUME IInv, fault = "none", NEW d \in Dialogs, phase[d] # "none"
               PROVE  state[d] = RUNNING /\ refs[d] > 0
    BY DEF RunKeepsRunning
  <2>1. state[d] = RUNNING  BY DEF IInv, Shape, RunsInState
  <2>2. refs[d] = OwnerRef(d) + extras[d] + RunRef(d) + ReportRef(d)
    BY DEF IInv, RefsAccounted
  <2>3. RunRef(d) = 1  BY DEF RunRef
  <2>4. QED  BY <2>1, <2>2, <2>3, RefParts DEF IInv
<1>2. QED  BY Invariance, <1>1, PTL

-----------------------------------------------------------------------------
(* A dialog leaves the RUNNING state exactly when it says so.              *)
THEOREM ResponsesMatchStates == Spec => ResponseLeavesRunning
<1> DEFINE Leaves(d) ==
      refs[d] > 0 =>
        ((state[d] = RUNNING /\ state'[d] # RUNNING)
           <=> (heard[d] # "response" /\ heard'[d] = "response"))
<1>1. ASSUME IInv, [Next]_vars, NEW e \in Dialogs
      PROVE  Leaves(e)
  <2> USE <1>1 DEF IInv, TypeOK
  <2>1. CASE UNCHANGED <<state, heard>>  BY <2>1
  <2>2. ASSUME NEW d \in Dialogs, New(d) PROVE Leaves(e)
    BY <2>2 DEF New
  <2>3. ASSUME NEW d \in Dialogs, Destroy(d) PROVE Leaves(e)
    BY <2>3 DEF Destroy
  <2>4. ASSUME NEW d \in Dialogs, Configure(d) PROVE Leaves(e)
    <3>1. UNCHANGED state \/ (state[d] # RUNNING /\ state' = [state EXCEPT ![d] = CONFIGURATION])
      BY <2>4, ConfigureState
    <3>2. UNCHANGED heard
      BY <2>4 DEF Configure, SetSelection, SetOption, EditShortcuts,
                  SetExtraWidget, SetDestroyWithParent, Modify
    <3>3. QED  BY <3>1, <3>2
  <2>5. ASSUME NEW d \in Dialogs, Run(d) PROVE Leaves(e)
    BY <2>5 DEF Run
  <2>6. ASSUME NEW d \in Dialogs, EndRun(d) PROVE Leaves(e)
    <3>1. state[d] = RUNNING /\ state'[d] # RUNNING /\ heard'[d] = "response"
      BY <2>6 DEF EndRun, LeaveLoop, Iterating, Verdict, Shape, RunsInState,
                  RUNNING, CONFIGURATION, DATA_RETRIEVAL
    <3>2. refs[d] > 0 => heard[d] # "response"
      BY <2>6, <3>1 DEF EndRun, LeaveLoop, Iterating, Shape, NoEarlyResponse
    <3>3. e # d => state'[e] = state[e] /\ heard'[e] = heard[e]
      BY <2>6 DEF EndRun
    <3>4. QED  BY <3>1, <3>2, <3>3
  <2>7. ASSUME NEW d \in Dialogs, EndClosedRun(d) PROVE Leaves(e)
    BY <2>7 DEF EndClosedRun
  <2>8. QED
    BY <1>1, <2>1, <2>2, <2>3, <2>4, <2>5, <2>6, <2>7
    DEF Next, Client, User, MainLoop, Dead, vars, TakeExtra, DropExtra, Ask, Query, Refuse,
        Present, CancelRun, ParentDestroyed, UserEdit, UserAnswer, UserClose, StartLoop,
        EndReport
<1>2. IInv /\ [Next]_vars =>
        [\A d \in Dialogs :
           refs[d] > 0 =>
             ((state[d] = RUNNING /\ state'[d] # RUNNING)
                <=> (heard[d] # "response" /\ heard'[d] = "response"))]_vars
  BY <1>1
<1>3. QED  BY Invariance, <1>2, PTL DEF Spec, ResponseLeavesRunning

-----------------------------------------------------------------------------
(* As long as its creator holds it, a dialog is RUNNING only for a run.    *)
THEOREM RunningForARun == Spec => []RunningHasRun
<1> DEFINE Fine(e) == e \in owned /\ (state[e] = RUNNING \/ e \in shown) => phase[e] # "none"
<1>1. Init => RunningHasRun
  BY DEF Init, RunningHasRun
<1>2. ASSUME IInv, RunningHasRun, [Next]_vars, NEW e \in Dialogs
      PROVE  Fine(e)'
  <2> USE <1>2 DEF IInv, TypeOK
  <2>0. Fine(e)  BY DEF RunningHasRun
  <2>1. CASE UNCHANGED vars  BY <2>0, <2>1 DEF vars
  <2>2. ASSUME NEW d \in Dialogs, New(d) PROVE Fine(e)'
    <3>1. d \notin shown  BY <2>2 DEF New, Shape, ScreenInState
    <3>2. QED  BY <2>0, <2>2, <3>1 DEF New, RUNNING, CONFIGURATION
  <2>3. ASSUME NEW d \in Dialogs, TakeExtra(d) \/ DropExtra(d) PROVE Fine(e)'
    BY <2>0, <2>3 DEF TakeExtra, DropExtra, Unref
  <2>4. ASSUME NEW d \in Dialogs, Destroy(d) PROVE Fine(e)'
    BY <2>0, <2>4, HeardUnmapTypes DEF Destroy, Unref
  <2>5. ASSUME NEW d \in Dialogs, Configure(d) PROVE Fine(e)'
    <3>1. UNCHANGED <<owned, phase, shown>>
      BY <2>5, ModifyRest DEF Configure, SetSelection, SetOption, EditShortcuts,
                              SetExtraWidget, SetDestroyWithParent
    <3>2. QED  BY <2>0, <2>5, <3>1, ConfigureState DEF RUNNING, CONFIGURATION
  <2>6. ASSUME NEW d \in Dialogs, Ask(d) \/ ParentDestroyed(d) PROVE Fine(e)'
    BY <2>0, <2>6 DEF Ask, Query, Refuse, ParentDestroyed
  <2>7. ASSUME NEW d \in Dialogs, Run(d) PROVE Fine(e)'
    BY <2>0, <2>7 DEF Run
  <2>8. ASSUME NEW d \in Dialogs, Present(d) PROVE Fine(e)'
    BY <2>0, <2>8, PresentWhileRunning DEF Present
  <2>9. ASSUME NEW d \in Dialogs, CancelRun(d) PROVE Fine(e)'
    BY <2>0, <2>9, HeardUnmapTypes DEF CancelRun
  <2>10. ASSUME NEW d \in Dialogs, User(d) PROVE Fine(e)'
    BY <2>0, <2>10 DEF User, UserEdit, UserAnswer, UserClose, Shutdown
  <2>11. ASSUME NEW d \in Dialogs, StartLoop(d) \/ EndReport(d) PROVE Fine(e)'
    BY <2>0, <2>11 DEF StartLoop, EndReport, Unref
  <2>12. ASSUME NEW d \in Dialogs, EndRun(d) PROVE Fine(e)'
    BY <2>0, <2>12 DEF EndRun, LeaveLoop, Verdict, RUNNING, CONFIGURATION, DATA_RETRIEVAL
  <2>13. ASSUME NEW d \in Dialogs, EndClosedRun(d) PROVE Fine(e)'
    BY <2>0, <2>13 DEF EndClosedRun, LeaveLoop
  <2>14. QED
    BY <1>2, <2>1, <2>2, <2>3, <2>4, <2>5, <2>6, <2>7, <2>8, <2>9, <2>10, <2>11, <2>12, <2>13
    DEF Next, Client, MainLoop, Dead
<1>3. IInv /\ RunningHasRun /\ [Next]_vars => RunningHasRun'
  BY <1>2 DEF RunningHasRun
<1>4. QED  BY Invariance, <1>1, <1>3, PTL DEF Spec

-----------------------------------------------------------------------------
(* An application that is careful never sees the process fail: no assertion*)
(* of the code is reached, no reference is given up twice, no dialog loses *)
(* its window.  It may destroy its dialogs while they run.                 *)
THEOREM CarefulClientsAreSafe ==
  ASSUME Careful
  PROVE  Spec => []NoFault
<1>1. Init => CInv
  BY DEF Init, CInv, NoFault, OwnedOnScreen, ClosedIsOwned
<1>2. ASSUME IInv, RunningHasRun, CInv, [Next]_vars
      PROVE  CInv'
  <2> USE <1>2 DEF IInv, TypeOK, CInv, NoFault, OwnedOnScreen, ClosedIsOwned
  <2>0. \A d \in Dialogs : Callable(d) => d \in owned
    BY Careful DEF Callable, Careful
  <2>1. CASE UNCHANGED vars  BY <2>1 DEF vars
  <2>2. ASSUME NEW d \in Dialogs, New(d) PROVE CInv'
    BY <2>2 DEF New
  <2>3. ASSUME NEW d \in Dialogs, TakeExtra(d) PROVE CInv'
    BY <2>3 DEF TakeExtra
  <2>4. ASSUME NEW d \in Dialogs, DropExtra(d) PROVE CInv'
    BY <2>4, LastReferenceIsIdle DEF DropExtra, Unref
  <2>5. ASSUME NEW d \in Dialogs, Destroy(d) PROVE CInv'
    <3>1. answer[d] # "delete"
      BY <2>5, Careful DEF Destroy, MayDestroy, Careful
    <3>2. fault' = "none"
      BY <2>0, <2>5, LastReferenceIsIdle DEF Destroy, MayDestroy, Callable, Unref
    <3>3. d \notin shown' /\ shown' \subseteq shown
      BY <2>5 DEF Destroy, Unref, Shape, ScreenInState
    <3>4. \A e \in Dialogs : phase'[e] = "none" <=> phase[e] = "none"
      BY <2>5, HeardUnmapTypes DEF Destroy
    <3>5. QED  BY <2>5, <3>1, <3>2, <3>3, <3>4 DEF Destroy
  <2>6. ASSUME NEW d \in Dialogs, Configure(d) PROVE CInv'
    BY <2>6, Careful DEF Configure, SetSelection, SetOption, EditShortcuts, SetExtraWidget,
                         SetDestroyWithParent, Modify, Careful
  <2>7. ASSUME NEW d \in Dialogs, Ask(d) PROVE CInv'
    BY <2>7 DEF Ask, Query, Refuse
  <2>8. ASSUME NEW d \in Dialogs, Run(d) PROVE CInv'
    BY <2>0, <2>8 DEF Run
  <2>9. ASSUME NEW d \in Dialogs, Present(d) PROVE CInv'
    BY <2>0, <2>9, PresentWhileRunning DEF Present, RunningHasRun
  <2>10. ASSUME NEW d \in Dialogs, CancelRun(d) PROVE CInv'
    BY <2>10, HeardUnmapTypes DEF CancelRun
  <2>11. ASSUME NEW d \in Dialogs, ParentDestroyed(d) PROVE CInv'
    BY <2>11 DEF ParentDestroyed
  <2>12. ASSUME NEW d \in Dialogs, User(d) PROVE CInv'
    BY <2>12 DEF User, UserEdit, UserAnswer, UserClose, Shutdown
  <2>13. ASSUME NEW d \in Dialogs, StartLoop(d) PROVE CInv'
    BY <2>13 DEF StartLoop
  <2>14. ASSUME NEW d \in Dialogs, EndRun(d) PROVE CInv'
    BY <2>14 DEF EndRun, LeaveLoop, Shape, RunsInState
  <2>15. ASSUME NEW d \in Dialogs, EndClosedRun(d) PROVE CInv'
    BY <2>15 DEF EndClosedRun, LeaveLoop
  <2>16. ASSUME NEW d \in Dialogs, EndReport(d) PROVE CInv'
    BY <2>16, LastReferenceIsIdle DEF EndReport, Unref
  <2>17. QED
    BY <1>2, <2>1, <2>2, <2>3, <2>4, <2>5, <2>6, <2>7, <2>8, <2>9, <2>10, <2>11, <2>12,
       <2>13, <2>14, <2>15, <2>16
    DEF Next, Client, MainLoop, Dead
<1>3. CInv => NoFault
  BY DEF CInv
<1>4. QED  BY Invariance, RunningForARun, <1>1, <1>2, <1>3, PTL DEF Spec

(* If an application lets the loop of a run start before it hides a dialog,*)
(* no loop waits for an answer that nobody can give.                       *)
THEOREM LoopsWaitOnScreen ==
  ASSUME "early_hide" \notin ClientMay
  PROVE  Spec => []WaitsOnScreen
<1> DEFINE Seen(e) == phase[e] \in {"queued", "looping"} => e \in shown
           AllSeen == \A e \in Dialogs : Seen(e)
<1>1. Init => AllSeen
  BY DEF Init
<1>2. ASSUME IInv, AllSeen, [Next]_vars, NEW e \in Dialogs
      PROVE  Seen(e)'
  <2> USE <1>2 DEF IInv, TypeOK
  <2>0. Seen(e)  OBVIOUS
  <2>1. CASE UNCHANGED <<phase, shown>>  BY <2>0, <2>1
  <2>2. ASSUME NEW d \in Dialogs, DropExtra(d) PROVE Seen(e)'
    BY <2>0, <2>2, LastReferenceIsIdle DEF DropExtra, Unref
  <2>3. ASSUME NEW d \in Dialogs, Destroy(d) PROVE Seen(e)'
    <3>1. phase[d] # "queued"  BY <2>3 DEF Destroy, MayDestroy
    <3>2. CASE state[d] = RUNNING
      BY <2>0, <2>3, <3>1, <3>2 DEF Destroy, Unref, HeardUnmap, Shutdown
    <3>3. CASE state[d] # RUNNING
      <4>1. phase[d] = "none"
        BY <2>3, <3>3 DEF Destroy, MayDestroy, Callable, Shape, RunsInState
      <4>2. QED  BY <2>0, <2>3, <3>3, <4>1 DEF Destroy, Unref
    <3>4. QED  BY <3>2, <3>3
  <2>4. ASSUME NEW d \in Dialogs, Run(d) PROVE Seen(e)'
    BY <2>0, <2>4 DEF Run
  <2>5. ASSUME NEW d \in Dialogs, Present(d) PROVE Seen(e)'
    BY <2>0, <2>5 DEF Present
  <2>6. ASSUME NEW d \in Dialogs, CancelRun(d) PROVE Seen(e)'
    BY <2>0, <2>6 DEF CancelRun, HeardUnmap, Shutdown
  <2>7. ASSUME NEW d \in Dialogs, User(d) PROVE Seen(e)'
    BY <2>0, <2>7 DEF User, UserEdit, UserAnswer, UserClose, Shutdown
  <2>8. ASSUME NEW d \in Dialogs, StartLoop(d) PROVE Seen(e)'
    <3>1. phase[d] = "queued"
      BY <2>8, HeadTaken DEF StartLoop, EachRunOnce
    <3>2. d \in shown  BY <3>1
    <3>3. QED  BY <2>0, <2>8, <3>2 DEF StartLoop
  <2>9. ASSUME NEW d \in Dialogs, LeaveLoop(d) PROVE Seen(e)'
    BY <2>0, <2>9 DEF LeaveLoop
  <2>10. ASSUME NEW d \in Dialogs, EndReport(d) PROVE Seen(e)'
    BY <2>0, <2>10, LastReferenceIsIdle DEF EndReport, Unref
  <2>11. ASSUME NEW d \in Dialogs, Configure(d) PROVE UNCHANGED <<phase, shown>>
    BY <2>11 DEF Configure, SetSelection, SetOption, EditShortcuts, SetExtraWidget,
                 SetDestroyWithParent, Modify
  <2>12. QED
    BY <1>2, <2>1, <2>2, <2>3, <2>4, <2>5, <2>6, <2>7, <2>8, <2>9, <2>10, <2>11
    DEF Next, Client, MainLoop, Dead, vars, New, TakeExtra, Ask, Query, Refuse,
        ParentDestroyed, EndRun, EndClosedRun
<1>3. IInv /\ AllSeen /\ [Next]_vars => AllSeen'
  BY <1>2
<1>4. AllSeen => WaitsOnScreen
  BY DEF WaitsOnScreen
<1>5. QED  BY Invariance, <1>1, <1>3, <1>4, PTL DEF Spec

-----------------------------------------------------------------------------
(* The refinement mapping of Protocol.                                     *)
Mode   == [d \in Dialogs |-> IF refs[d] = 0 THEN "absent" ELSE state[d]]
Agreed == [d \in Dialogs |-> answer[d] = "accept"]

USE DEF RUNNING, CONFIGURATION, DATA_RETRIEVAL, SfcdState,
        Protocol!RUNNING, Protocol!CONFIGURATION, Protocol!DATA_RETRIEVAL

(* The mode of a dialog is its state while its object exists ...           *)
LEMMA ModeOf ==
  ASSUME TypeOK, NEW d \in Dialogs
  PROVE  /\ refs[d] = 0 => Mode[d] = "absent"
         /\ refs[d] > 0 => Mode[d] = state[d] /\ Mode[d] # "absent"
<1>1. state[d] # "absent"  BY DEF TypeOK
<1>2. refs[d] > 0 => refs[d] # 0  BY DEF TypeOK
<1>3. QED  BY <1>1, <1>2 DEF Mode

(* ... and changes with the state and the references of that dialog.       *)
LEMMA ModeBecomes ==
  ASSUME NEW d \in Dialogs, NEW x,
         x = IF refs'[d] = 0 THEN "absent" ELSE state'[d],
         \A e \in Dialogs \ {d} : refs'[e] = refs[e] /\ state'[e] = state[e]
  PROVE  Mode' = [Mode EXCEPT ![d] = x]
BY DEF Mode

(* Giving up a reference lets the dialog vanish, or is not noticed.        *)
LEMMA UnrefMaps ==
  ASSUME TypeOK, NoStaleAnswer, fault = "none", NEW d \in Dialogs, refs[d] > 0,
         refs[d] = 1 => phase[d] = "none",
         refs' = [refs EXCEPT ![d] = @ - 1],
         UNCHANGED <<state, answer, content, presented>>
  PROVE  Protocol!Vanish(d) \/ UNCHANGED Protocol!vars
<1>1. CASE refs[d] = 1
  <2>1. answer[d] = "none"  BY <1>1 DEF NoStaleAnswer
  <2>2. refs'[d] = 0  BY <1>1 DEF TypeOK
  <2>3. Mode' = [Mode EXCEPT ![d] = "absent"]
    BY <2>2 DEF Mode, TypeOK
  <2>4. Mode[d] # "absent"
    BY <1>1, ModeOf
  <2>5. Agreed' = [Agreed EXCEPT ![d] = FALSE]
    BY <2>1 DEF Agreed
  <2>6. QED  BY <2>3, <2>4, <2>5 DEF Protocol!Vanish, Mode, Agreed
<1>2. CASE refs[d] # 1
  <2>1. refs'[d] # 0  BY <1>2 DEF TypeOK
  <2>2. Mode' = Mode  BY <1>2, <2>1 DEF Mode, TypeOK
  <2>3. QED  BY <2>2 DEF Protocol!vars, Mode
<1>3. QED  BY <1>1, <1>2

(* A dialog behaves as the class promises, whatever its application and    *)
(* its user do: only a content that the user accepted becomes available.   *)
THEOREM DialogsKeepTheProtocol == Spec => ImplementsProtocol
<1>1. Init => Protocol!Init
  <2> SUFFICES ASSUME Init PROVE Protocol!Init
    OBVIOUS
  <2>1. Mode = [d \in Dialogs |-> "absent"]  BY DEF Init, Mode
  <2>2. Agreed = [d \in Dialogs |-> FALSE]  BY DEF Init, Agreed
  <2>3. QED  BY <2>1, <2>2 DEF Init, Protocol!Init, Mode, Agreed
<1>2. ASSUME IInv, [Next]_vars
      PROVE  Protocol!Next \/ UNCHANGED Protocol!vars
  <2> USE <1>2 DEF IInv
  <2>1. CASE UNCHANGED <<state, refs, answer, content, presented>>
    BY <2>1 DEF Protocol!vars
  <2>2. ASSUME NEW d \in Dialogs, New(d) PROVE Protocol!Create(d)
    <3>1. Mode[d] = "absent" /\ Mode' = [Mode EXCEPT ![d] = CONFIGURATION]
      <4>1. refs'[d] = 1 /\ state'[d] = CONFIGURATION  BY <2>2 DEF New, TypeOK
      <4>2. QED  BY <2>2, <4>1, ModeOf, ModeBecomes DEF New, TypeOK
    <3>2. QED  BY <2>2, <3>1 DEF New, Protocol!Create, Mode
  <2>3. ASSUME NEW d \in Dialogs, TakeExtra(d) PROVE UNCHANGED Protocol!vars
    <3>1. refs[d] > 0 /\ refs'[d] = refs[d] + 1
      BY <2>3, CallableIsAlive DEF TakeExtra, TypeOK
    <3>2. Mode' = Mode  BY <2>3, <3>1 DEF TakeExtra, Mode, TypeOK
    <3>3. QED  BY <2>3, <3>2 DEF TakeExtra, Protocol!vars, Mode
  <2>4. ASSUME NEW d \in Dialogs, DropExtra(d)
        PROVE  Protocol!Vanish(d) \/ UNCHANGED Protocol!vars
    BY <2>4, HolderIsAlive, LastReferenceIsIdle, UnrefMaps DEF DropExtra, Unref, Shape
  <2>5. ASSUME NEW d \in Dialogs, Destroy(d)
        PROVE  Protocol!Vanish(d) \/ UNCHANGED Protocol!vars
    <3>1. refs[d] > 0  BY <2>5, CallableIsAlive DEF Destroy, MayDestroy, Callable
    <3>2. refs' = [refs EXCEPT ![d] = @ - 1]  BY <2>5 DEF Destroy, Unref
    <3>3. QED  BY <2>5, <3>1, <3>2, LastReferenceIsIdle, UnrefMaps
               DEF Destroy, MayDestroy, Callable, Shape
  <2>6. ASSUME NEW d \in Dialogs, Configure(d)
        PROVE  (\E c \in Contents : Protocol!Configure(d, c)) \/ UNCHANGED Protocol!vars
    <3>1. ASSUME NEW c \in Contents, NEW m \in Setters, Modify(d, m, c),
                 ~RefusedIn(m, state[d]), Callable(d)
          PROVE  Protocol!Configure(d, c)
      <4>1. state[d] # RUNNING  BY <3>1, NotWhileRunning
      <4>2. refs[d] > 0  BY <3>1, CallableIsAlive
      <4>3. Mode[d] \in {CONFIGURATION, DATA_RETRIEVAL}
        BY <4>1, <4>2 DEF Mode, TypeOK, SfcdState
      <4>4. Mode' = [Mode EXCEPT ![d] = CONFIGURATION]
        <5>1. state' = [state EXCEPT ![d] = CONFIGURATION] /\ refs' = refs
          BY <3>1, SetterState DEF Modify
        <5>2. state'[d] = CONFIGURATION /\ \A e \in Dialogs \ {d} : state'[e] = state[e]
          BY <5>1 DEF TypeOK
        <5>3. refs'[d] # 0  BY <4>2, <5>1 DEF TypeOK
        <5>4. QED  BY <5>1, <5>2, <5>3, ModeBecomes
      <4>5. QED  BY <3>1, <4>3, <4>4 DEF Modify, Protocol!Configure, Mode
    <3>2. ASSUME NEW m \in SelectionSetters, NEW s \in Selections, SetSelection(d, m, s)
          PROVE  \E c \in Contents : Protocol!Configure(d, c)
      <4>1. [content[d] EXCEPT !.selection = s] \in Contents  BY DEF TypeOK, Contents
      <4>2. QED  BY <3>1, <3>2, <4>1 DEF SetSelection, Setters
    <3>3. ASSUME NEW m \in OptionSetters, NEW o \in Options, SetOption(d, m, o)
          PROVE  \E c \in Contents : Protocol!Configure(d, c)
      <4>1. [content[d] EXCEPT !.options = o] \in Contents  BY DEF TypeOK, Contents
      <4>2. QED  BY <3>1, <3>3, <4>1 DEF SetOption, Setters
    <3>4. ASSUME NEW m \in ShortcutSetters, NEW e, EditShortcuts(d, m, e)
          PROVE  \E c \in Contents : Protocol!Configure(d, c)
      <4>1. content[d] \in Contents  BY DEF TypeOK
      <4>2. QED  BY <3>1, <3>4, <4>1 DEF EditShortcuts, Setters
    <3>5. ASSUME NEW x, SetExtraWidget(d, x) \/ SetDestroyWithParent(d, x)
          PROVE  UNCHANGED Protocol!vars
      BY <3>5 DEF SetExtraWidget, SetDestroyWithParent, Protocol!vars
    <3>6. QED  BY ONLY <2>6, <3>2, <3>3, <3>4, <3>5 DEF Configure
  <2>7. ASSUME NEW d \in Dialogs, Run(d) PROVE Protocol!Start(d)
    <3>1. state[d] # RUNNING  BY <2>7, NotWhileRunning DEF Run
    <3>2. refs[d] > 0  BY <2>7, CallableIsAlive DEF Run
    <3>3. Mode[d] \in {CONFIGURATION, DATA_RETRIEVAL}
      BY <3>1, <3>2 DEF Mode, TypeOK, SfcdState
    <3>4. refs'[d] # 0  BY <2>7, <3>2 DEF Run, Protect, TypeOK
    <3>5. Mode' = [Mode EXCEPT ![d] = RUNNING]
      BY <2>7, <3>4 DEF Run, Protect, Mode, TypeOK
    <3>6. answer[d] = "none"
      BY <2>7, <3>1 DEF Run, Callable, Shape, RunsInState, NoStaleAnswer
    <3>7. Agreed' = Agreed  BY <2>7, <3>6 DEF Run, Agreed, TypeOK
    <3>8. QED  BY <2>7, <3>3, <3>5, <3>7 DEF Run, Protocol!Start, Mode, Agreed
  <2>8. ASSUME NEW d \in Dialogs, NEW c \in Contents, UserEdit(d, c)
        PROVE  Protocol!UserEdit(d, c)
    <3>1. Mode[d] = RUNNING
      BY <2>8 DEF UserEdit, Iterating, Shape, ScreenInState, Mode
    <3>2. QED  BY <2>8, <3>1 DEF UserEdit, Protocol!UserEdit, Mode
  <2>9. ASSUME NEW d \in Dialogs, phase[d] # "none", d \in shown, fault = "none",
               NEW r \in Answers, answer' = [answer EXCEPT ![d] = r],
               UNCHANGED <<state, refs, content, presented>>
        PROVE  \E yes \in BOOLEAN : Protocol!UserDecides(d, yes)
    <3>1. Mode[d] = RUNNING  BY <2>9 DEF Shape, ScreenInState, Mode
    <3>2. Agreed' = [Agreed EXCEPT ![d] = (r = "accept")]
      BY <2>9 DEF Agreed, TypeOK
    <3>3. Protocol!UserDecides(d, r = "accept")
      BY <2>9, <3>1, <3>2 DEF Protocol!UserDecides, Mode, Agreed
    <3>4. QED  BY <3>3
  <2>10. ASSUME NEW d \in Dialogs, EndRun(d) PROVE Protocol!Finish(d)
    <3>1. state[d] = RUNNING /\ refs[d] > 0
      <4>1. phase[d] # "none" /\ fault = "none"  BY <2>10 DEF EndRun, LeaveLoop, Iterating
      <4>2. refs[d] = OwnerRef(d) + extras[d] + RunRef(d) + ReportRef(d)
        BY <4>1 DEF RefsAccounted
      <4>3. RunRef(d) = 1  BY <4>1 DEF RunRef
      <4>4. QED  BY <4>1, <4>2, <4>3, RefParts DEF Shape, RunsInState
    <3>2. Mode[d] = RUNNING  BY <3>1 DEF Mode
    <3>3. Mode' = [Mode EXCEPT ![d] = Verdict(answer[d])]
      <4>1. state' = [state EXCEPT ![d] = Verdict(answer[d])] /\ refs' = refs
        BY <2>10 DEF EndRun
      <4>2. state'[d] = Verdict(answer[d]) /\ \A e \in Dialogs \ {d} : state'[e] = state[e]
        BY <4>1 DEF TypeOK
      <4>3. refs'[d] # 0  BY <3>1, <4>1 DEF TypeOK
      <4>4. QED  BY <4>1, <4>2, <4>3, ModeBecomes
    <3>4. Verdict(answer[d]) = IF Agreed[d] THEN DATA_RETRIEVAL ELSE CONFIGURATION
      BY DEF Verdict, Agreed
    <3>5. Agreed' = [Agreed EXCEPT ![d] = FALSE]
      BY <2>10 DEF EndRun, LeaveLoop, Agreed, TypeOK
    <3>6. QED
      BY <2>10, <3>2, <3>3, <3>4, <3>5 DEF EndRun, LeaveLoop, Protocol!Finish, Mode, Agreed
  <2>11. ASSUME NEW d \in Dialogs, EndClosedRun(d)
         PROVE  Protocol!Vanish(d) \/ UNCHANGED Protocol!vars
    <3>1. state[d] = RUNNING /\ refs[d] > 0
      <4>1. phase[d] # "none" /\ fault = "none"
        BY <2>11 DEF EndClosedRun, LeaveLoop, Iterating
      <4>2. refs[d] = OwnerRef(d) + extras[d] + RunRef(d) + ReportRef(d)
        BY <4>1 DEF RefsAccounted
      <4>3. RunRef(d) = 1  BY <4>1 DEF RunRef
      <4>4. QED  BY <4>1, <4>2, <4>3, RefParts DEF Shape, RunsInState
    <3>2. Agreed' = Agreed /\ Agreed' = [Agreed EXCEPT ![d] = FALSE]
      BY <2>11 DEF EndClosedRun, LeaveLoop, Agreed, TypeOK
    <3>3. Mode[d] # "absent"
      BY <3>1 DEF Mode, RUNNING
    <3>4. Mode' = Mode \/ Mode' = [Mode EXCEPT ![d] = "absent"]
      <4>1. CASE refs'[d] = 0
        BY <2>11, <4>1, ModeBecomes DEF EndClosedRun, TypeOK
      <4>2. CASE refs'[d] # 0
        <5>1. \A e \in Dialogs : refs'[e] = 0 <=> refs[e] = 0
          BY <2>11, <3>1, <4>2 DEF EndClosedRun, TypeOK
        <5>2. QED  BY <2>11, <5>1 DEF EndClosedRun, Mode
      <4>3. QED  BY <4>1, <4>2
    <3>5. QED
      BY <2>11, <3>2, <3>3, <3>4
      DEF EndClosedRun, LeaveLoop, Protocol!Vanish, Protocol!vars, Mode, Agreed
  <2>12. ASSUME NEW d \in Dialogs, EndReport(d)
         PROVE  Protocol!Vanish(d) \/ UNCHANGED Protocol!vars
    BY <2>12, HolderIsAlive, LastReferenceIsIdle, UnrefMaps DEF EndReport, Unref, Shape
  <2>13. ASSUME NEW d \in Dialogs, Ask(d) \/ Present(d) \/ CancelRun(d) \/ ParentDestroyed(d)
                                      \/ StartLoop(d)
         PROVE  UNCHANGED <<state, refs, answer, content, presented>>
    BY <2>13 DEF Ask, Query, Refuse, Present, CancelRun, ParentDestroyed, StartLoop
  <2>14. ASSUME NEW d \in Dialogs, User(d)
         PROVE  \/ \E c \in Contents : Protocol!UserEdit(d, c)
                \/ \E yes \in BOOLEAN : Protocol!UserDecides(d, yes)
                \/ UNCHANGED <<state, refs, answer, content, presented>>
    BY <2>8, <2>9, <2>14 DEF User, UserAnswer, UserClose, Iterating, Answers
  <2>15. QED
    BY <1>2, <2>1, <2>2, <2>3, <2>4, <2>5, <2>6, <2>7, <2>10, <2>11, <2>12, <2>13, <2>14
    DEF Next, Client, MainLoop, Dead, vars, Protocol!Next
<1>3. IInv /\ [Next]_vars => [Protocol!Next]_(Protocol!vars)
  BY <1>2
<1>4. QED
  BY Invariance, <1>1, <1>3, PTL DEF Spec, ImplementsProtocol, Protocol!Spec

=============================================================================
