-------------------------- MODULE RemoteMailProofs --------------------------
(***************************************************************************)
(* Proofs about RemoteFileChooserDialog that rest on the order in which a  *)
(* process hears of its dialogs: nothing is heard after a destroy signal,  *)
(* for any number of processes, as long as the daemon does not die; and, of*)
(* a process that has the daemon for itself, that its signals find their   *)
(* instances, that both sides agree on the dialogs that exist, and that    *)
(* reports are current.  A daemon that does not die is, seen from its      *)
(* clients, the one SfcdServerSpec specifies.                              *)
(***************************************************************************)
EXTENDS RemoteProofs

(* What is said of d in the mail s, and in which order.                    *)
Says(s, kind, d) == \E i \in 1..Len(s) : s[i].kind = kind /\ s[i].dialog = d

Mentions(s, d) == Says(s, "response", d) \/ Says(s, "destroy", d)

(* A farewell is the last word on its dialog, ...                          *)
FarewellLast(s) ==
  \A i, j \in 1..Len(s) :
    /\ s[i].kind = "destroy"
    /\ s[j].kind \in {"response", "destroy"}
    /\ s[i].dialog = s[j].dialog
    => j <= i

(* ... and there is one report on a dialog at a time.                      *)
ReportOnce(s) ==
  \A i, j \in 1..Len(s) :
    s[i].kind = "response" /\ s[j].kind = "response" /\ s[i].dialog = s[j].dialog => i = j

-----------------------------------------------------------------------------
(* A daemon that does not die                                              *)

(* Whoever is told of a destruction is told so last, and after it happened.*)
MailInv ==
  /\ \A p \in Procs : FarewellLast(mail[p])
  /\ \A p \in Procs, d \in Dialogs : Says(mail[p], "destroy", d) => mode[d] = "gone"

(* An instance is in the table until its process takes the farewell, and   *)
(* there is no mail for it from then on.                                   *)
FarewellInv ==
  /\ \A o \in owned : refs[o] > 0 /\ instances[Home[o]][remote_id[o]] = o
  /\ \A o \in Objects : refs[o] > 0 /\ o \notin owned =>
       mode[remote_id[o]] = "gone" /\ ~Mentions(mail[Home[o]], remote_id[o])
  /\ \A o \in owned : heard[o] # "destroy"

(* A process that waits in a method of an instance has it, and asked for   *)
(* its dialog; a run that began is that of a dialog which was not told to  *)
(* be destroyed before.                                                    *)
ErrandInv ==
  /\ \A p \in Procs : calling[p].object # NoObject =>
       Home[calling[p].object] = p /\ refs[calling[p].object] > 0
  /\ \A p \in Procs, call \in asked :
       call.caller = <<p, tries[p]>> /\ call.dialog # NoDialog =>
         calling[p].object # NoObject /\ call.dialog = remote_id[calling[p].object]
  /\ \A p \in Procs :
       calling[p].method = "run" /\ reply[p].result = "ok" => calling[p].object \in owned

SteadyInv == IInv /\ AnswersInv /\ IdsInv /\ MailInv /\ FarewellInv /\ ErrandInv

-----------------------------------------------------------------------------
(* A process that has the daemon for itself, calls none of the methods     *)
(* whose implementation in the process is broken, and keeps the parents of *)
(* its dialogs.                                                            *)
Alone ==
  /\ \A p, q \in Procs : p = q
  /\ MaxCrashes = 0
  /\ "lose_parent" \notin ClientMay
  /\ Calls \cap (Lists \cup {"set_extra_widget"}) = {}

Owned(d) == \E o \in owned : remote_id[o] = d

(* A dialog that may be spoken of has an instance.                         *)
AloneInv ==
  /\ AllAlive
  /\ \A p \in Procs, d \in Dialogs : Mentions(mail[p], d) => instances[p][d] # NoObject
  /\ \A d \in Dialogs : mode[d] = RUNNING => Owned(d)
  /\ \A call \in asked :
       call.dialog # NoDialog => mode[call.dialog] = "gone" \/ Owned(call.dialog)

(* If moreover no call is given up, a dialog exists for an instance or for *)
(* a call of rfcd_new, until its farewell.                                 *)
TablesInv ==
  /\ \A o \in owned : Home[o] \in subscribed
  /\ \A p \in Procs : calling[p].method = "new" => p \in subscribed
  /\ \A o \in owned :
       mode[remote_id[o]] = "gone" => Says(mail[Home[o]], "destroy", remote_id[o])
  /\ \A p \in Procs : reply[p].dialog # NoDialog =>
       /\ calling[p].method = "new" /\ reply[p].result = "ok"
       /\ mode[reply[p].dialog] \in SfcdState
  /\ \A d \in Dialogs : mode[d] \in SfcdState =>
       Owned(d) \/ \E p \in Procs : reply[p].dialog = d

(* An application that ran o waits for the response, or will as soon as    *)
(* the call returns.                                                       *)
Expecting(o) ==
  \/ o \in awaiting
  \/ LET p == Home[o]
     IN  calling[p].method = "run" /\ calling[p].object = o /\ reply[p].result = "ok"

(* If it leaves its dialog alone meanwhile, no state changes behind a      *)
(* report.                                                                 *)
ReportsInv ==
  /\ \A p \in Procs : ReportOnce(mail[p])
  /\ ReportsAreCurrent
  /\ \A p \in Procs, d \in Dialogs :
       Says(mail[p], "response", d) => mode[d] # RUNNING /\ Expecting(instances[p][d])
  /\ \A d \in Dialogs : mode[d] = RUNNING =>
       \E o \in owned : remote_id[o] = d /\ Expecting(o)
  /\ \A call \in asked : call.method \in Setters \cup {"run"} =>
       calling[call.caller[1]].object \notin awaiting

-----------------------------------------------------------------------------
(* What the arrival and the dispatch of an item do to mail.                *)

LEMMA SaysInit ==
  \A kind, d : ~Says(<<>>, kind, d)
BY DEF Says

LEMMA SaysAppend ==
  ASSUME NEW s \in Seq(Mail), NEW item \in Mail, NEW kind, NEW d
  PROVE  Says(Append(s, item), kind, d)
           <=> Says(s, kind, d) \/ (item.kind = kind /\ item.dialog = d)
<1> DEFINE t == Append(s, item)
<1>1. Len(t) = Len(s) + 1 /\ t[Len(t)] = item /\ \A i \in 1..Len(s) : t[i] = s[i]
  OBVIOUS
<1>2. Len(s) \in Nat
  OBVIOUS
<1> HIDE DEF t
<1>3. \A i \in 1..Len(t) : i \in 1..Len(s) \/ i = Len(t)
  BY <1>1, <1>2
<1>4. QED  BY <1>1, <1>2, <1>3 DEF Says, t

LEMMA SaysTail ==
  ASSUME NEW s \in Seq(Mail), s # <<>>, NEW kind, NEW d
  PROVE  Says(s, kind, d)
           <=> Says(Tail(s), kind, d) \/ (Head(s).kind = kind /\ Head(s).dialog = d)
<1>1. Len(s) \in Nat \ {0} /\ Head(s) = s[1] /\ Len(Tail(s)) = Len(s) - 1
      /\ \A i \in 1..Len(s) - 1 : Tail(s)[i] = s[i + 1]
  OBVIOUS
<1>2. \A i \in 2..Len(s) : i - 1 \in 1..Len(s) - 1 /\ s[i] = Tail(s)[i - 1]
  BY <1>1
<1>3. QED  BY <1>1, <1>2 DEF Says

LEMMA FarewellAppend ==
  ASSUME NEW s \in Seq(Mail), NEW item \in Mail, FarewellLast(s),
         item.kind \in {"response", "destroy"} => ~Says(s, "destroy", item.dialog)
  PROVE  FarewellLast(Append(s, item))
<1> DEFINE t == Append(s, item)
<1>1. Len(s) \in Nat /\ Len(t) = Len(s) + 1 /\ t[Len(t)] = item
      /\ \A i \in 1..Len(s) : t[i] = s[i]
  OBVIOUS
<1> HIDE DEF t
<1>2. SUFFICES ASSUME NEW i \in 1..Len(t), NEW j \in 1..Len(t), t[i].kind = "destroy",
                      t[j].kind \in {"response", "destroy"}, t[i].dialog = t[j].dialog
               PROVE  j <= i
  BY DEF FarewellLast, t
<1>3. CASE i = Len(t)
  BY <1>1, <1>3
<1>4. CASE i \in 1..Len(s) /\ j = Len(t)
  BY <1>1, <1>2, <1>4 DEF Says
<1>5. CASE i \in 1..Len(s) /\ j \in 1..Len(s)
  BY <1>1, <1>2, <1>5 DEF FarewellLast
<1>6. QED  BY <1>1, <1>3, <1>4, <1>5

LEMMA FarewellTail ==
  ASSUME NEW s \in Seq(Mail), s # <<>>, FarewellLast(s)
  PROVE  /\ FarewellLast(Tail(s))
         /\ Head(s).kind = "destroy" => ~Mentions(Tail(s), Head(s).dialog)
<1>1. Len(s) \in Nat \ {0} /\ Head(s) = s[1] /\ Len(Tail(s)) = Len(s) - 1
      /\ \A i \in 1..Len(s) - 1 : Tail(s)[i] = s[i + 1] /\ i + 1 \in 1..Len(s)
  OBVIOUS
<1>2. FarewellLast(Tail(s))
  BY <1>1 DEF FarewellLast
<1>3. ASSUME Head(s).kind = "destroy", NEW kind \in {"response", "destroy"},
             Says(Tail(s), kind, Head(s).dialog)
      PROVE  FALSE
  <2>1. PICK i \in 1..Len(s) - 1 : s[i + 1].kind = kind /\ s[i + 1].dialog = s[1].dialog
    BY <1>1, <1>3 DEF Says
  <2>2. i + 1 <= 1
    BY <1>1, <1>3, <2>1 DEF FarewellLast
  <2>3. QED  BY <2>1, <2>2
<1>4. QED  BY <1>2, <1>3 DEF Mentions

LEMMA OnceAppend ==
  ASSUME NEW s \in Seq(Mail), NEW item \in Mail, ReportOnce(s),
         item.kind = "response" => ~Says(s, "response", item.dialog)
  PROVE  ReportOnce(Append(s, item))
<1> DEFINE t == Append(s, item)
<1>1. Len(s) \in Nat /\ Len(t) = Len(s) + 1 /\ t[Len(t)] = item
      /\ \A i \in 1..Len(s) : t[i] = s[i]
  OBVIOUS
<1> HIDE DEF t
<1>2. SUFFICES ASSUME NEW i \in 1..Len(t), NEW j \in 1..Len(t), t[i].kind = "response",
                      t[j].kind = "response", t[i].dialog = t[j].dialog
               PROVE  i = j
  BY DEF ReportOnce, t
<1>3. CASE i \in 1..Len(s) /\ j \in 1..Len(s)
  BY <1>1, <1>2, <1>3 DEF ReportOnce
<1>4. CASE i = Len(t) /\ j \in 1..Len(s)
  BY <1>1, <1>2, <1>4 DEF Says
<1>5. CASE i \in 1..Len(s) /\ j = Len(t)
  BY <1>1, <1>2, <1>5 DEF Says
<1>6. QED  BY <1>1, <1>3, <1>4, <1>5

LEMMA OnceTail ==
  ASSUME NEW s \in Seq(Mail), s # <<>>, ReportOnce(s)
  PROVE  /\ ReportOnce(Tail(s))
         /\ Head(s).kind = "response" => ~Says(Tail(s), "response", Head(s).dialog)
<1>1. Len(s) \in Nat \ {0} /\ Head(s) = s[1] /\ Len(Tail(s)) = Len(s) - 1
      /\ \A i \in 1..Len(s) - 1 : Tail(s)[i] = s[i + 1] /\ i + 1 \in 1..Len(s)
  OBVIOUS
<1>2. ReportOnce(Tail(s))
  <2> SUFFICES ASSUME NEW i \in 1..Len(s) - 1, NEW j \in 1..Len(s) - 1,
                      s[i + 1].kind = "response", s[j + 1].kind = "response",
                      s[i + 1].dialog = s[j + 1].dialog
               PROVE  i = j
    BY <1>1 DEF ReportOnce
  <2>1. i + 1 = j + 1
    BY <1>1 DEF ReportOnce
  <2>2. QED  BY <2>1
<1>3. ASSUME Head(s).kind = "response", Says(Tail(s), "response", Head(s).dialog)
      PROVE  FALSE
  <2>1. PICK i \in 1..Len(s) - 1 :
          s[i + 1].kind = "response" /\ s[i + 1].dialog = s[1].dialog
    BY <1>1, <1>3 DEF Says
  <2>2. i + 1 = 1
    BY <1>1, <1>3, <2>1 DEF ReportOnce
  <2>3. QED  BY <2>1, <2>2
<1>4. QED  BY <1>2, <1>3

(* What a dispatch and a signal do to the mail of all processes.           *)
LEMMA Taken ==
  ASSUME MailTypes, NEW p \in Procs, NEW kind, Take(p, kind)
  PROVE  /\ mail[p] \in Seq(Mail) /\ mail[p] # <<>> /\ mail'[p] = Tail(mail[p])
         /\ Head(mail[p]).kind = kind /\ Says(mail[p], kind, Head(mail[p]).dialog)
         /\ \A q \in Procs \ {p} : mail'[q] = mail[q]
         /\ \A q \in Procs : \A k, d : Says(mail'[q], k, d) => Says(mail[q], k, d)
<1>1. /\ mail[p] \in Seq(Mail) /\ mail[p] # <<>> /\ mail'[p] = Tail(mail[p])
      /\ Head(mail[p]).kind = kind
      /\ \A q \in Procs \ {p} : mail'[q] = mail[q]
  BY DEF Take, MailTypes
<1>2. Says(mail[p], kind, Head(mail[p]).dialog)
  BY <1>1, SaysTail
<1>3. \A q \in Procs : \A k, d : Says(mail'[q], k, d) => Says(mail[q], k, d)
  BY <1>1, SaysTail
<1>4. QED  BY <1>1, <1>2, <1>3

LEMMA Sent ==
  ASSUME MailTypes, NEW item \in Mail, Broadcast(item), NEW p \in Procs
  PROVE  /\ mail[p] \in Seq(Mail) /\ mail'[p] \in {mail[p], Append(mail[p], item)}
         /\ p \in subscribed /\ Alive(p) => mail'[p] = Append(mail[p], item)
         /\ \A k, d : Says(mail[p], k, d) => Says(mail'[p], k, d)
         /\ \A k, d : Says(mail'[p], k, d) =>
              Says(mail[p], k, d) \/ (item.kind = k /\ item.dialog = d)
<1>1. /\ mail[p] \in Seq(Mail) /\ mail'[p] \in {mail[p], Append(mail[p], item)}
      /\ p \in subscribed /\ Alive(p) => mail'[p] = Append(mail[p], item)
  BY DEF MailTypes, Broadcast
<1>2. \A k, d : Says(Append(mail[p], item), k, d)
                <=> Says(mail[p], k, d) \/ (item.kind = k /\ item.dialog = d)
  BY <1>1, SaysAppend
<1>3. CASE mail'[p] = mail[p]
  BY <1>1, <1>3
<1>4. CASE mail'[p] = Append(mail[p], item)
  BY <1>1, <1>2, <1>4
<1>5. QED  BY <1>1, <1>3, <1>4

-----------------------------------------------------------------------------
LEMMA NoCrash == ASSUME IInv, MaxCrashes = 0, Crash PROVE FALSE
BY Types DEF IInv, DaemonTypes, Crash

(* Which actions move which part of the state                              *)

(* A return is the end of a call, and a dispatch takes mail.               *)
LEMMA ReturnsEnd == ASSUME NEW p, Returns(p) PROVE End(p, "ok") \/ End(p, "failed")
<1>1. CASE \E o \in Objects : EndNew(p, o)
  BY <1>1 DEF EndNew
<1>2. CASE \E w \in {"held", "none"} : EndSetExtraWidget(p, w)
  BY <1>2 DEF EndSetExtraWidget
<1>3. CASE EndRun(p) \/ EndList(p)
  BY <1>3 DEF EndRun, EndList
<1>4. CASE EndCall(p) \/ EndFailed(p)
  BY <1>4 DEF EndCall, EndFailed
<1>5. QED  BY <1>1, <1>2, <1>3, <1>4 DEF Returns

LEMMA DispatchTakes ==
  ASSUME NEW p, Dispatch(p)
  PROVE  /\ Take(p, "response") \/ Take(p, "destroy") \/ Take(p, "owner")
         /\ UNCHANGED <<daemonVars, busVars>>
<1>1. CASE OnStranger(p)
  BY <1>1 DEF OnStranger
<1>2. CASE OnResponse(p)
  BY <1>2 DEF OnResponse
<1>3. CASE OnDestroy(p)
  BY <1>3 DEF OnDestroy
<1>4. CASE OnOwner(p)
  BY <1>4 DEF OnOwner
<1>5. QED  BY <1>1, <1>2, <1>3, <1>4 DEF Dispatch

(* The daemon's dialogs: its own actions, as long as it does not die.      *)
LEMMA ModeMoves ==
  ASSUME IInv, MaxCrashes = 0, [Next]_vars
  PROVE  \/ UNCHANGED mode
         \/ \E call \in asked : Serve(call)
         \/ \E d \in Dialogs : Users(d)
<1>1. ASSUME NEW p \in Procs, BeginNew(p) \/ GiveUp(p) \/ Returns(p)  PROVE UNCHANGED mode
  BY <1>1, ReturnsEnd DEF daemonVars, BeginNew, GiveUp, Begin, End, Daemon!Ask
<1>2. ASSUME NEW p \in Procs, Dispatch(p)  PROVE UNCHANGED mode
  BY <1>2, DispatchTakes DEF daemonVars
<1>3. ASSUME NEW o \in Objects, Use(o)  PROVE UNCHANGED mode
  BY <1>3 DEF Use, TakeExtra, DropExtra, BeginCall, BeginSetExtraWidget, SetDestroyWithParent,
              ParentClosed, Begin, Daemon!Ask, daemonVars
<1>4. Restart \/ NobodyLeft \/ UNCHANGED vars => UNCHANGED mode
  BY DEF Restart, NobodyLeft, vars, daemonVars
<1>5. QED  BY <1>1, <1>2, <1>3, <1>4, NoCrash DEF Next, Process

(* The calls it has: the actions that begin one.                           *)
LEMMA AskedMoves ==
  ASSUME IInv, MaxCrashes = 0, [Next]_vars
  PROVE  \/ asked' \subseteq asked
         \/ \E p \in Procs : BeginNew(p)
         \/ \E o \in Objects :
              BeginSetExtraWidget(o) \/ ParentClosed(o) \/ \E m \in Calls : BeginCall(o, m)
<1>1. ASSUME NEW p \in Procs, GiveUp(p) \/ Returns(p)  PROVE UNCHANGED asked
  BY <1>1, ReturnsEnd DEF daemonVars, GiveUp, End
<1>2. ASSUME NEW p \in Procs, Dispatch(p)  PROVE UNCHANGED asked
  BY <1>2, DispatchTakes DEF daemonVars
<1>3. ASSUME NEW o \in Objects,
             TakeExtra(o) \/ DropExtra(o) \/ \E b \in BOOLEAN : SetDestroyWithParent(o, b)
      PROVE  UNCHANGED asked
  BY <1>3 DEF TakeExtra, DropExtra, SetDestroyWithParent, daemonVars
<1>4. ASSUME NEW call \in asked, Serve(call)  PROVE asked' \subseteq asked
  BY <1>4 DEF Serve, Daemon!Create, Daemon!Fail, Daemon!Perform, Daemon!Destroy
<1>5. ASSUME NEW d \in Dialogs, Users(d)  PROVE UNCHANGED asked
  BY <1>5 DEF Users, Respond, Close, Daemon!Respond, Daemon!Close
<1>6. Restart \/ NobodyLeft \/ UNCHANGED vars => UNCHANGED asked
  BY DEF Restart, NobodyLeft, vars, daemonVars
<1>7. QED  BY <1>1, <1>2, <1>3, <1>4, <1>5, <1>6, NoCrash DEF Next, Process, Use

(* The mail: whoever takes some, and the daemon.                           *)
LEMMA MailMoves ==
  ASSUME IInv, MaxCrashes = 0, [Next]_vars
  PROVE  \/ UNCHANGED mail
         \/ \E p \in Procs, kind \in {"response", "destroy", "owner"} : Take(p, kind)
         \/ \E call \in asked : Serve(call)
         \/ \E d \in Dialogs : Users(d)
         \/ Restart
<1>1. ASSUME NEW p \in Procs, BeginNew(p) \/ GiveUp(p) \/ Returns(p)  PROVE UNCHANGED mail
  BY <1>1, ReturnsEnd DEF BeginNew, GiveUp, End
<1>2. ASSUME NEW p \in Procs, Dispatch(p)
      PROVE  Take(p, "response") \/ Take(p, "destroy") \/ Take(p, "owner")
  BY <1>2, DispatchTakes
<1>3. ASSUME NEW o \in Objects, Use(o)  PROVE UNCHANGED mail
  BY <1>3 DEF Use, TakeExtra, DropExtra, BeginCall, BeginSetExtraWidget, SetDestroyWithParent,
              ParentClosed
<1>4. NobodyLeft \/ UNCHANGED vars => UNCHANGED mail
  BY DEF NobodyLeft, vars
<1>5. QED  BY <1>1, <1>2, <1>3, <1>4, NoCrash DEF Next, Process

(* The daemon's actions touch nothing of the instances and their owners.   *)
LEMMA DaemonFrame ==
  ASSUME \/ \E call \in asked : Serve(call)
         \/ \E d \in Dialogs : Users(d)
         \/ Crash \/ Restart \/ NobodyLeft \/ UNCHANGED vars
  PROVE  UNCHANGED <<subscribed, remote_id, owned>>
<1>1. ASSUME NEW call \in asked, Serve(call)  PROVE UNCHANGED <<subscribed, remote_id, owned>>
  BY <1>1 DEF Serve, classVars, objectVars, clientVars
<1>2. ASSUME NEW d \in Dialogs, Users(d)  PROVE UNCHANGED <<subscribed, remote_id, owned>>
  BY <1>2 DEF Users, Respond, Close, classVars, objectVars, clientVars
<1>3. Crash \/ Restart => UNCHANGED <<subscribed, remote_id, owned>>
  BY DEF Crash, Restart, classVars, objectVars, clientVars
<1>4. NobodyLeft \/ UNCHANGED vars => UNCHANGED <<subscribed, remote_id, owned>>
  BY DEF NobodyLeft, vars, classVars, objectVars, clientVars
<1>5. QED  BY <1>1, <1>2, <1>3, <1>4

(* The instances that applications own: creation and farewell.             *)
LEMMA OwnedMoves ==
  ASSUME [Next]_vars
  PROVE  \/ UNCHANGED <<remote_id, owned>>
         \/ \E p \in Procs, o \in Objects : EndNew(p, o)
         \/ UNCHANGED remote_id /\ owned' \subseteq owned /\ \E p \in Procs : OnDestroy(p)
<1>1. ASSUME NEW p \in Procs, BeginNew(p) \/ GiveUp(p)  PROVE UNCHANGED <<remote_id, owned>>
  BY <1>1 DEF BeginNew, GiveUp, objectVars, clientVars
<1>2. ASSUME NEW p \in Procs, Returns(p), \A o \in Objects : ~EndNew(p, o)
      PROVE  UNCHANGED <<remote_id, owned>>
  BY <1>2 DEF Returns, EndSetExtraWidget, EndRun, EndList, EndCall, EndFailed, objectVars,
              clientVars
<1>3. ASSUME NEW p \in Procs, OnStranger(p) \/ OnResponse(p) \/ OnOwner(p)
      PROVE  UNCHANGED <<remote_id, owned>>
  BY <1>3 DEF OnStranger, OnResponse, OnOwner, objectVars, clientVars
<1>4. ASSUME NEW p \in Procs, OnDestroy(p)  PROVE UNCHANGED remote_id /\ owned' \subseteq owned
  BY <1>4 DEF OnDestroy
<1>5. ASSUME NEW o \in Objects, Use(o)  PROVE UNCHANGED <<remote_id, owned>>
  BY <1>5 DEF Use, TakeExtra, DropExtra, BeginCall, BeginSetExtraWidget, SetDestroyWithParent,
              ParentClosed, objectVars, clientVars
<1>6. QED  BY <1>1, <1>2, <1>3, <1>4, <1>5, DaemonFrame DEF Next, Process, Dispatch

(* Nobody gives up the proxy of a class.                                   *)
LEMMA SubscribedMoves == ASSUME [Next]_vars PROVE subscribed \subseteq subscribed'
<1>1. ASSUME NEW p \in Procs, BeginNew(p) \/ GiveUp(p)  PROVE subscribed \subseteq subscribed'
  BY <1>1 DEF BeginNew, GiveUp, classVars
<1>2. ASSUME NEW p \in Procs, Returns(p)  PROVE UNCHANGED subscribed
  <2>1. CASE \E o \in Objects : EndNew(p, o)
    BY <2>1 DEF EndNew
  <2>2. CASE \A o \in Objects : ~EndNew(p, o)
    BY <1>2, <2>2 DEF Returns, EndSetExtraWidget, EndRun, EndList, EndCall, EndFailed, classVars
  <2>3. QED  BY <2>1, <2>2
<1>3. ASSUME NEW p \in Procs, Dispatch(p)  PROVE UNCHANGED subscribed
  <2>1. CASE OnDestroy(p)
    BY <2>1 DEF OnDestroy, Unref
  <2>2. CASE ~OnDestroy(p)
    BY <1>3, <2>2 DEF Dispatch, OnStranger, OnResponse, OnOwner, classVars
  <2>3. QED  BY <2>1, <2>2
<1>4. ASSUME NEW o \in Objects, Use(o)  PROVE UNCHANGED subscribed
  BY <1>4 DEF Use, TakeExtra, DropExtra, Unref, BeginCall, BeginSetExtraWidget,
              SetDestroyWithParent, ParentClosed, classVars
<1>5. QED  BY <1>1, <1>2, <1>3, <1>4, DaemonFrame DEF Next, Process

(* All that happens to the daemon of the processes is what SfcdServerSpec  *)
(* has it do, as long as it lives: what is proved of the daemon, that it   *)
(* implements that specification, is what these processes rely on (each    *)
(* call of sfcd_dbus_wrapper__call_*_sync).                                *)
THEOREM DaemonAsSpecified == ASSUME MaxCrashes = 0 PROVE Spec => Daemon!Spec
<1>1. Init => Daemon!Init
  BY DEF Init
<1>2. ASSUME IInv, [Next]_vars PROVE [Daemon!Next]_Daemon!vars
  <2> USE RemoteAssumption DEF RemoteAssumption
  <2>a. BusTypes /\ ObjectTypes /\ IInv
    BY <1>2, Types DEF IInv
  <2>1. ASSUME NEW p \in Procs, NEW m \in Calls, NEW o, NEW d \in Dialogs \cup {NoDialog},
               Begin(p, m, o, d)
        PROVE  [Daemon!Next]_Daemon!vars
    <3>1. [caller |-> <<p, tries[p]>>, method |-> m, dialog |-> d] \in Daemon!Call
      BY <2>a DEF Daemon!Call, Callers, BusTypes
    <3>2. QED  BY <2>1, <3>1 DEF Begin, Daemon!Next, Daemon!vars
  <2>2. ASSUME NEW p \in Procs, Process(p) PROVE [Daemon!Next]_Daemon!vars
    <3>1. CASE BeginNew(p)
      BY <2>1, <3>1 DEF BeginNew
    <3>2. CASE ~BeginNew(p)
      BY <2>2, <3>2, ReturnsEnd, DispatchTakes DEF Process, GiveUp, End, daemonVars, Daemon!vars
    <3>3. QED  BY <3>1, <3>2
  <2>3. ASSUME NEW o \in Objects, Use(o) PROVE [Daemon!Next]_Daemon!vars
    <3>1. Home[o] \in Procs /\ remote_id[o] \in Dialogs \cup {NoDialog}
      BY <2>a DEF ObjectTypes
    <3>2. CASE ParentClosed(o) \/ BeginSetExtraWidget(o) \/ \E m \in Calls : BeginCall(o, m)
      BY <2>a, <2>1, <3>1, <3>2
         DEF ParentClosed, BeginSetExtraWidget, BeginCall, daemonVars, Daemon!vars
    <3>3. CASE TakeExtra(o) \/ DropExtra(o) \/ \E b \in BOOLEAN : SetDestroyWithParent(o, b)
      BY <3>3 DEF TakeExtra, DropExtra, SetDestroyWithParent, daemonVars, Daemon!vars
    <3>4. QED  BY <2>3, <3>2, <3>3 DEF Use
  <2>4. ASSUME NEW call \in asked, Serve(call) PROVE Daemon!Next
    BY <2>4 DEF Serve, Daemon!Next, Daemon!Serve
  <2>5. ASSUME NEW d \in Dialogs, Users(d) PROVE Daemon!Next
    BY <2>5, DaemonStates DEF Users, Respond, Close, Daemon!Next, Daemon!Users
  <2>6. QED
    BY <1>2, <2>2, <2>3, <2>4, <2>5, NoCrash
       DEF Next, Restart, NobodyLeft, vars, daemonVars, Daemon!vars
<1>3. QED  BY <1>1, <1>2, Invariance, PTL DEF Spec, Daemon!Spec

(* What the daemon may send a signal about: a dialog that runs, or one that*)
(* it was asked to destroy.                                                *)
Speakable(d) ==
  mode[d] = RUNNING \/ (mode[d] \in SfcdState /\ \E call \in asked : call.dialog = d)

LEMMA States ==
  /\ "gone" \notin SfcdState /\ "unborn" \notin SfcdState /\ RUNNING \in SfcdState
  /\ CONFIGURATION \in SfcdState /\ DATA_RETRIEVAL \in SfcdState
  /\ CONFIGURATION # RUNNING /\ DATA_RETRIEVAL # RUNNING
BY DEF SfcdState, CONFIGURATION, RUNNING, DATA_RETRIEVAL

(* A dialog that is gone stays so, and goes away only with a signal.       *)
LEMMA ModeStep ==
  ASSUME IInv, MaxCrashes = 0, [Next]_vars
  PROVE  \A d \in Dialogs :
           /\ mode[d] = "gone" => mode'[d] = "gone"
           /\ mode[d] \in SfcdState =>
                mode'[d] \in SfcdState \/ (mode'[d] = "gone" /\ Speakable(d))
<1> DEFINE Goal ==
      \A d \in Dialogs :
        /\ mode[d] = "gone" => mode'[d] = "gone"
        /\ mode[d] \in SfcdState =>
             mode'[d] \in SfcdState \/ (mode'[d] = "gone" /\ Speakable(d))
<1>a. mode \in [Dialogs -> Daemon!Modes]
  BY DEF IInv, TypeOK, Daemon!TypeOK
<1>1. ASSUME NEW call \in asked, Serve(call) PROVE Goal
  <2>1. CASE \E d \in Dialogs : Daemon!Create(call, d)
    BY <1>a, <2>1, States DEF Daemon!Create
  <2>2. CASE Daemon!Fail(call)
    BY <2>2 DEF Daemon!Fail
  <2>3. CASE Daemon!Perform(call)
    <3>1. Daemon!After(call.method, mode[call.dialog]) \in SfcdState
      BY <2>3, DaemonAfter DEF Daemon!Perform
    <3>2. QED  BY <1>a, <2>3, <3>1, DaemonStates, States DEF Daemon!Perform
  <2>4. CASE Daemon!Destroy(call)
    BY <1>a, <2>4, DaemonStates, States DEF Daemon!Destroy, Daemon!Signal, Speakable
  <2>5. QED  BY <1>1, <2>1, <2>2, <2>3, <2>4 DEF Serve
<1>2. ASSUME NEW d \in Dialogs, Users(d) PROVE Goal
  BY <1>a, <1>2, DaemonStates, States
     DEF Users, Respond, Close, Daemon!Respond, Daemon!Close, Daemon!Signal, Speakable
<1>3. CASE UNCHANGED mode
  BY <1>3
<1>4. QED  BY <1>1, <1>2, <1>3, ModeMoves

(* A signal about a dialog comes from the daemon that has it.              *)
LEMMA SignalStep ==
  ASSUME IInv, MailInv, NEW d \in Dialogs, NEW item \in Mail, Broadcast(item),
         item.kind = "response" \/ (item.kind = "destroy" /\ mode'[d] = "gone"),
         item.dialog = d, Speakable(d),
         \A e \in Dialogs : mode[e] = "gone" => mode'[e] = "gone"
  PROVE  /\ MailInv'
         /\ \A p \in Procs, e \in Dialogs :
              Mentions(mail'[p], e) => Mentions(mail[p], e) \/ Speakable(e)
<1>1. MailTypes
  BY Types DEF IInv
<1>2. \A p \in Procs : ~Says(mail[p], "destroy", d)
  BY States DEF MailInv, Speakable
<1>3. ASSUME NEW p \in Procs PROVE FarewellLast(mail'[p])
  <2>1. FarewellLast(Append(mail[p], item))
    BY <1>1, <1>2, Sent, FarewellAppend DEF MailInv
  <2>2. QED  BY <1>1, <2>1, Sent DEF MailInv
<1>4. \A p \in Procs, e \in Dialogs : Says(mail'[p], "destroy", e) => mode'[e] = "gone"
  BY <1>1, Sent DEF MailInv
<1>5. \A p \in Procs, e \in Dialogs, kind \in {"response", "destroy"} :
        Says(mail'[p], kind, e) => Says(mail[p], kind, e) \/ e = d
  BY <1>1, Sent
<1>6. QED  BY <1>3, <1>4, <1>5 DEF MailInv, Mentions

(* Whatever a step does, mail keeps its order, and no dialog that is gone  *)
(* is spoken of again.                                                     *)
LEMMA MailStep ==
  ASSUME IInv, MailInv, MaxCrashes = 0, [Next]_vars
  PROVE  /\ MailInv'
         /\ \A p \in Procs, d \in Dialogs :
              Mentions(mail'[p], d) => Mentions(mail[p], d) \/ Speakable(d)
<1> DEFINE Goal ==
      /\ MailInv'
      /\ \A p \in Procs, d \in Dialogs :
           Mentions(mail'[p], d) => Mentions(mail[p], d) \/ Speakable(d)
<1>a. MailTypes /\ \A d \in Dialogs : mode[d] = "gone" => mode'[d] = "gone"
  BY Types, ModeStep DEF IInv
<1>1. ASSUME NEW p \in Procs, NEW kind, Take(p, kind) PROVE Goal
  <2>1. \A q \in Procs : FarewellLast(mail'[q])
    BY <1>a, <1>1, Taken, FarewellTail DEF MailInv
  <2>2. \A q \in Procs : \A k, d : Says(mail'[q], k, d) => Says(mail[q], k, d)
    BY <1>a, <1>1, Taken
  <2>3. QED  BY <1>a, <2>1, <2>2 DEF MailInv, Mentions
<1>2. ASSUME NEW call \in asked, Daemon!Destroy(call), Farewell(call.dialog) PROVE Goal
  <2>1. call.dialog \in Dialogs /\ Speakable(call.dialog) /\ mode'[call.dialog] = "gone"
    <3>1. call.dialog \in Dialogs
      BY <1>2, CallTypes DEF Daemon!Destroy, IInv, AskedInv
    <3>2. QED
      BY <1>2, <3>1, DaemonStates
         DEF Daemon!Destroy, Daemon!Signal, IInv, TypeOK, Daemon!TypeOK, Speakable
  <2>2. QED  BY <1>a, <1>2, <2>1, SignalStep, LettersTypes DEF Farewell
<1>3. ASSUME NEW d \in Dialogs, Users(d) PROVE Goal
  <2>1. Speakable(d)
    BY <1>3, DaemonStates DEF Users, Respond, Close, Daemon!Respond, Daemon!Close, Speakable
  <2>2. CASE Close(d)
    <3>1. mode'[d] = "gone"
      BY <2>2 DEF Close, Daemon!Close, Daemon!Signal, IInv, TypeOK, Daemon!TypeOK
    <3>2. QED  BY <1>a, <2>1, <2>2, <3>1, SignalStep, LettersTypes DEF Close, Farewell
  <2>3. CASE \E verdict \in SfcdState : Respond(d, verdict)
    BY <1>a, <2>1, <2>3, SignalStep, LettersTypes DEF Respond, Report
  <2>4. QED  BY <1>3, <2>2, <2>3 DEF Users
<1>4. CASE Restart
  <2>1. [kind |-> "owner", epoch |-> epoch] \in Mail
    BY LettersTypes, Types DEF IInv, DaemonTypes
  <2>2. Broadcast([kind |-> "owner", epoch |-> epoch])
    BY <1>4 DEF Restart, News
  <2>3. ASSUME NEW p \in Procs PROVE FarewellLast(mail'[p])
    <3>1. FarewellLast(Append(mail[p], [kind |-> "owner", epoch |-> epoch]))
      BY <1>a, <2>1, <2>2, Sent, FarewellAppend DEF MailInv
    <3>2. QED  BY <1>a, <2>1, <2>2, <3>1, Sent DEF MailInv
  <2>4. \A p \in Procs, kind \in {"response", "destroy"} : \A d :
          Says(mail'[p], kind, d) => Says(mail[p], kind, d)
    BY <1>a, <2>1, <2>2, Sent
  <2>5. QED  BY <1>a, <2>3, <2>4 DEF MailInv, Mentions
<1>5. CASE UNCHANGED mail
  BY <1>a, <1>5 DEF MailInv
<1>6. ASSUME NEW call \in asked, Serve(call) PROVE Goal
  BY <1>2, <1>5, <1>6 DEF Serve
<1>7. QED  BY <1>1, <1>3, <1>4, <1>5, <1>6, MailMoves

-----------------------------------------------------------------------------
(* The disposal of an instance takes the entry of no other one away.       *)
LEMMA UnrefOthers ==
  ASSUME IInv, IdsInv, NEW o \in Objects, refs[o] > 0, Unref(o),
         NEW e \in Objects, e # o, refs[e] > 0
  PROVE  /\ refs'[e] = refs[e]
         /\ instances'[Home[e]][remote_id[e]] = instances[Home[e]][remote_id[e]]
<1>1. refs \in [Objects -> Nat] /\ Home \in [Objects -> Procs]
      /\ instances \in [Procs -> [Dialogs -> Objects \cup {NoObject}]]
  BY RemoteAssumption DEF IInv, TypeOK, RemoteAssumption
<1>2. remote_id[e] \in Dialogs /\ (Home[e] = Home[o] => remote_id[e] # remote_id[o])
  BY DEF IdsInv, UniqueIds
<1>3. refs' = [refs EXCEPT ![o] = @ - 1]
      /\ instances' \in {instances, [instances EXCEPT ![Home[o]][remote_id[o]] = NoObject]}
  BY DEF Unref
<1>4. QED  BY <1>1, <1>2, <1>3

(* An instance that was told of its destruction keeps hearing nothing.     *)
LEMMA FarewellStep ==
  ASSUME SteadyInv, MaxCrashes = 0, [Next]_vars
  PROVE  FarewellInv'
<1> USE RemoteAssumption DEF RemoteAssumption
<1>a. ObjectTypes /\ ClientTypes /\ ClassTypes /\ MailTypes
      /\ IInv /\ AnswersInv /\ IdsInv /\ MailInv /\ FarewellInv
  BY Types DEF SteadyInv, IInv
<1>b. \A o \in Objects : refs[o] > 0 /\ o \notin owned =>
        mode'[remote_id[o]] = "gone" /\ ~Mentions(mail'[Home[o]], remote_id[o])
  BY <1>a, ModeStep, MailStep, States DEF FarewellInv, IdsInv, Speakable
<1>1. ASSUME NEW p \in Procs, NEW o \in Objects, EndNew(p, o) PROVE FarewellInv'
  <2> DEFINE d == reply[p].dialog
  <2>1. /\ d \in Dialogs /\ Home[o] = p /\ refs[o] = 0
        /\ refs' = [refs EXCEPT ![o] = 1] /\ remote_id' = [remote_id EXCEPT ![o] = d]
        /\ instances' = [instances EXCEPT ![p][d] = o]
        /\ owned' = owned \cup {o} /\ heard' = [heard EXCEPT ![o] = "nothing"]
    BY <1>a, <1>1 DEF EndNew, End, Free, Register, AnswersInv
  <2>2. \A e \in Objects : refs[e] > 0 /\ Home[e] = p => remote_id[e] # d
    BY <1>a, <2>1 DEF IdsInv
  <2> HIDE DEF d
  <2>3. \A e \in Objects : e # o =>
          /\ refs'[e] = refs[e] /\ remote_id'[e] = remote_id[e] /\ heard'[e] = heard[e]
          /\ e \in owned' => e \in owned
          /\ e \in owned => e \in owned'
    BY <1>a, <2>1 DEF ObjectTypes, ClientTypes
  <2>e. \A e \in Objects : refs[e] > 0 =>
          instances'[Home[e]][remote_id[e]] = instances[Home[e]][remote_id[e]]
    BY <1>a, <2>1, <2>2 DEF ClassTypes, IdsInv
  <2>4. refs'[o] > 0 /\ instances'[Home[o]][remote_id'[o]] = o /\ o \in owned'
        /\ heard'[o] # "destroy"
    BY <1>a, <2>1 DEF ObjectTypes, ClientTypes, ClassTypes
  <2>5. \A e \in owned' : refs'[e] > 0 /\ instances'[Home[e]][remote_id'[e]] = e
    BY <1>a, <2>1, <2>3, <2>e, <2>4 DEF FarewellInv, ClientTypes
  <2>6. \A e \in Objects : refs'[e] > 0 /\ e \notin owned' =>
          mode'[remote_id'[e]] = "gone" /\ ~Mentions(mail'[Home[e]], remote_id'[e])
    BY <1>b, <2>3, <2>4
  <2>7. \A e \in owned' : heard'[e] # "destroy"
    BY <1>a, <2>1, <2>3, <2>4 DEF FarewellInv, ClientTypes
  <2>8. QED  BY <2>5, <2>6, <2>7 DEF FarewellInv
<1>2. ASSUME NEW p \in Procs, OnDestroy(p) PROVE FarewellInv'
  <2> DEFINE d == Head(mail[p]).dialog
             o == instances[p][d]
  <2>1. d \in Dialogs /\ Take(p, "destroy") /\ o # NoObject
    BY <1>a, <1>2, TakeTypes, LettersTypes DEF OnDestroy
  <2>2. o \in Objects /\ Home[o] = p /\ refs[o] > 0 /\ remote_id[o] = d
    BY <1>a, <2>1, Listed
  <2>3. /\ Unref(o) /\ owned' = owned \ {o} /\ remote_id' = remote_id /\ mode' = mode
        /\ heard' = [heard EXCEPT ![o] = "destroy"]
    BY <1>2 DEF OnDestroy, daemonVars
  <2>4. mode[d] = "gone" /\ ~Mentions(mail'[p], d)
    BY <1>a, <2>1, Taken, FarewellTail DEF MailInv
  <2> HIDE DEF d, o
  <2>5. \A e \in Objects : e # o /\ refs[e] > 0 =>
          /\ refs'[e] = refs[e]
          /\ instances'[Home[e]][remote_id[e]] = instances[Home[e]][remote_id[e]]
    BY <1>a, <2>2, <2>3, UnrefOthers
  <2>6. \A e \in Objects : e # o => refs'[e] = refs[e] /\ heard'[e] = heard[e]
    BY <1>a, <2>2, <2>3 DEF Unref, ObjectTypes, ClientTypes
  <2>7. \A e \in owned' : refs'[e] > 0 /\ instances'[Home[e]][remote_id'[e]] = e
    BY <1>a, <2>3, <2>5 DEF FarewellInv, ClientTypes
  <2>8. \A e \in Objects : refs'[e] > 0 /\ e \notin owned' =>
          mode'[remote_id'[e]] = "gone" /\ ~Mentions(mail'[Home[e]], remote_id'[e])
    BY <1>b, <2>2, <2>3, <2>4, <2>6
  <2>9. \A e \in owned' : heard'[e] # "destroy"
    BY <1>a, <2>3, <2>6 DEF FarewellInv, ClientTypes
  <2>10. QED  BY <2>7, <2>8, <2>9 DEF FarewellInv
<1>3. ASSUME NEW o \in Objects, TakeExtra(o) PROVE FarewellInv'
  <2>1. /\ refs' = [refs EXCEPT ![o] = @ + 1] /\ refs[o] > 0
        /\ UNCHANGED <<owned, remote_id, instances, heard>>
    BY <1>3 DEF TakeExtra, Usable, classVars
  <2>2. \A e \in Objects : refs'[e] > 0 <=> refs[e] > 0
    BY <1>a, <2>1 DEF ObjectTypes
  <2>3. QED  BY <1>a, <1>b, <2>1, <2>2 DEF FarewellInv, ClientTypes
<1>4. ASSUME NEW o \in Objects, DropExtra(o) PROVE FarewellInv'
  <2>1. /\ Unref(o) /\ refs' = [refs EXCEPT ![o] = @ - 1] /\ Alive(Home[o]) /\ extras[o] > 0
        /\ UNCHANGED <<owned, remote_id, heard>>
    BY <1>4 DEF DropExtra, Unref, Idle
  <2>2. refs[o] > 0 /\ (o \in owned => refs[o] > 1)
    BY <1>a, <2>1 DEF IInv, HeldByApplications, ObjectTypes, ClientTypes
  <2>3. \A e \in Objects : e # o /\ refs[e] > 0 =>
          /\ refs'[e] = refs[e]
          /\ instances'[Home[e]][remote_id[e]] = instances[Home[e]][remote_id[e]]
    BY <1>a, <2>1, <2>2, UnrefOthers
  <2>4. o \in owned => refs'[o] > 0 /\ instances' = instances
    BY <1>a, <2>1, <2>2 DEF Unref, ObjectTypes
  <2>5. \A e \in owned' : refs'[e] > 0 /\ instances'[Home[e]][remote_id'[e]] = e
    BY <1>a, <2>1, <2>3, <2>4 DEF FarewellInv, ClientTypes
  <2>6. \A e \in Objects : refs'[e] > 0 => refs[e] > 0
    BY <1>a, <2>1, <2>2 DEF ObjectTypes
  <2>7. QED  BY <1>a, <1>b, <2>1, <2>5, <2>6 DEF FarewellInv
<1>5. ASSUME NEW p \in Procs, OnResponse(p) PROVE FarewellInv'
  <2>1. /\ \E o : heard' = [heard EXCEPT ![o] = "response"]
        /\ UNCHANGED <<owned, remote_id, instances, refs>>
    BY <1>5 DEF OnResponse, classVars, objectVars
  <2>2. \A e \in Objects : heard'[e] = "destroy" => heard[e] = "destroy"
    BY <1>a, <2>1 DEF ClientTypes
  <2>3. QED  BY <1>a, <1>b, <2>1, <2>2 DEF FarewellInv, ClientTypes
<1>6. ASSUME NEW p \in Procs, EndRun(p) PROVE FarewellInv'
  <2>1. /\ \E o : heard' = [heard EXCEPT ![o] = "nothing"]
        /\ UNCHANGED <<owned, remote_id, instances, refs>>
    BY <1>6 DEF EndRun, classVars, objectVars
  <2>2. \A e \in Objects : heard'[e] = "destroy" => heard[e] = "destroy"
    BY <1>a, <2>1 DEF ClientTypes
  <2>3. QED  BY <1>a, <1>b, <2>1, <2>2 DEF FarewellInv, ClientTypes
<1>7. CASE UNCHANGED <<owned, remote_id, instances, refs, heard>>
  BY <1>a, <1>b, <1>7 DEF FarewellInv
<1>8. QED
  BY <1>1, <1>2, <1>3, <1>4, <1>5, <1>6, <1>7
     DEF Next, Process, Returns, Dispatch, Use, NobodyLeft, vars, classVars, objectVars,
         clientVars, BeginNew, GiveUp, EndSetExtraWidget, EndList, EndCall, EndFailed, OnStranger,
         OnOwner, BeginCall, BeginSetExtraWidget, SetDestroyWithParent, ParentClosed, Serve,
         Users, Respond, Close, Crash, Restart

(* The start of a call, its end, ...                                       *)
LEMMA BeginErrand ==
  ASSUME IInv, AnswersInv, ErrandInv, NEW p \in Procs, Idle(p),
         NEW m \in Calls, NEW o \in Objects \cup {NoObject}, NEW d, Begin(p, m, o, d),
         o = NoObject => d = NoDialog,
         o # NoObject => Home[o] = p /\ refs[o] > 0 /\ d = remote_id[o],
         UNCHANGED <<refs, remote_id, owned>>
  PROVE  ErrandInv'
<1>a. BusTypes
  BY Types DEF IInv
<1>1. calling[p] = NoCall /\ reply[p] = Silence
  BY DEF Idle, AnswersInv
<1>2. \A call \in asked : call.caller # <<p, tries[p]>>
  BY <1>1, CallTypes DEF AnswersInv, NoCall
<1>3. /\ calling' = [calling EXCEPT ![p] = [method |-> m, object |-> o]] /\ tries' = tries
      /\ reply' \in {reply, [reply EXCEPT ![p] = Failure]}
      /\ \A call \in asked' :
           call \in asked \/ (call.caller = <<p, tries[p]>> /\ call.dialog = d)
  BY DEF Begin, Daemon!Ask
<1>4. /\ calling'[p] = [method |-> m, object |-> o] /\ reply'[p].result # "ok"
      /\ \A q \in Procs \ {p} : calling'[q] = calling[q] /\ reply'[q] = reply[q]
  BY <1>a, <1>1, <1>3 DEF BusTypes, Silence, Failure
<1>5. \A q \in Procs : calling'[q].object # NoObject =>
        Home[calling'[q].object] = q /\ refs'[calling'[q].object] > 0
  BY <1>4 DEF ErrandInv
<1>6. ASSUME NEW q \in Procs, NEW call \in asked', call.caller = <<q, tries'[q]>>,
             call.dialog # NoDialog
      PROVE  calling'[q].object # NoObject /\ call.dialog = remote_id'[calling'[q].object]
  BY <1>2, <1>3, <1>4, <1>6 DEF ErrandInv
<1>7. \A q \in Procs : calling'[q].method = "run" /\ reply'[q].result = "ok" =>
        calling'[q].object \in owned'
  BY <1>4 DEF ErrandInv
<1>8. QED  BY <1>5, <1>6, <1>7 DEF ErrandInv

LEMMA EndErrand ==
  ASSUME IInv, AnswersInv, ErrandInv, NEW p \in Procs,
         NEW result \in {"ok", "failed"}, End(p, result),
         \A o \in Objects : refs[o] > 0 =>
           refs'[o] > 0 /\ remote_id'[o] = remote_id[o] /\ (o \in owned => o \in owned')
  PROVE  ErrandInv'
<1>a. BusTypes /\ owned \subseteq Objects
  BY Types DEF IInv, ClientTypes
<1>1. \A call \in asked : call.caller # <<p, tries[p]>>
  BY DEF End, Silence, AnswersInv
<1>2. /\ calling'[p] = NoCall /\ reply'[p] = Silence /\ UNCHANGED <<asked, tries>>
      /\ \A q \in Procs \ {p} : calling'[q] = calling[q] /\ reply'[q] = reply[q]
  BY <1>a DEF End, BusTypes, daemonVars
<1>3. \A q \in Procs : calling[q].object \in Objects \cup {NoObject}
  BY <1>a DEF BusTypes
<1>4. \A q \in Procs : calling'[q].object # NoObject =>
        Home[calling'[q].object] = q /\ refs'[calling'[q].object] > 0
  BY <1>2, <1>3 DEF ErrandInv, NoCall
<1>5. ASSUME NEW q \in Procs, NEW call \in asked', call.caller = <<q, tries'[q]>>,
             call.dialog # NoDialog
      PROVE  calling'[q].object # NoObject /\ call.dialog = remote_id'[calling'[q].object]
  BY <1>1, <1>2, <1>3, <1>5 DEF ErrandInv
<1>6. \A q \in Procs : calling'[q].method = "run" /\ reply'[q].result = "ok" =>
        calling'[q].object \in owned'
  BY <1>a, <1>2, RemoteAssumption DEF ErrandInv, NoCall, RemoteAssumption
<1>7. QED  BY <1>4, <1>5, <1>6 DEF ErrandInv

(* ... its answer, ...                                                     *)
LEMMA ServeErrand ==
  ASSUME SteadyInv, NEW call \in asked, Serve(call)
  PROVE  ErrandInv'
<1>a. BusTypes /\ IInv /\ AnswersInv /\ IdsInv /\ FarewellInv /\ ErrandInv
  BY Types DEF SteadyInv, IInv
<1> DEFINE p == call.caller[1]
           o == calling[p].object
<1>1. p \in Procs /\ call.caller = <<p, call.caller[2]>>
  <2>1. call.caller \in Procs \X (0..MaxTimeouts)
    BY <1>a DEF IInv, TypeOK, Daemon!TypeOK, Daemon!Call, Callers
  <2>2. QED  BY <2>1
<1>2. /\ asked' = asked \ {call}
      /\ UNCHANGED <<calling, tries, refs, remote_id, owned>>
  BY DEF Serve, Daemon!Create, Daemon!Fail, Daemon!Perform, Daemon!Destroy, objectVars, clientVars
<1>3. \A q \in Procs : reply'[q] # reply[q] => q = p /\ call.caller[2] = tries[p]
  BY <1>a, <1>1 DEF Serve, Tell, BusTypes
<1>4. ASSUME reply'[p] # reply[p], calling[p].method = "run", reply'[p].result = "ok"
      PROVE  o \in owned
  <2>1. call.method = "run" /\ call.caller = <<p, tries[p]>>
    BY <1>a, <1>1, <1>3, <1>4 DEF AnswersInv
  <2>2. call.dialog # NoDialog
    BY <1>a, <2>1 DEF IInv, AskedInv
  <2>3. o # NoObject /\ call.dialog = remote_id[o]
    BY <1>a, <1>1, <2>1, <2>2 DEF ErrandInv
  <2>4. o \in Objects /\ refs[o] > 0
    BY <1>a, <1>1, <2>3 DEF ErrandInv, BusTypes
  <2>5. mode[call.dialog] \in SfcdState
    <3>1. CASE Tell(call, "failed", NoDialog)
      BY <1>a, <1>1, <1>3, <1>4, <3>1 DEF Tell, BusTypes
    <3>2. CASE Daemon!Perform(call)
      BY <3>2, DaemonStates DEF Daemon!Perform
    <3>3. CASE Daemon!Destroy(call) \/ \E d \in Dialogs : Daemon!Create(call, d)
      BY <2>1, <3>3 DEF Daemon!Destroy, Daemon!Create
    <3>4. QED  BY <3>1, <3>2, <3>3 DEF Serve
  <2>6. QED  BY <1>a, <2>3, <2>4, <2>5, States DEF FarewellInv
<1> HIDE DEF p, o
<1>5. ASSUME NEW q \in Procs, calling'[q].method = "run", reply'[q].result = "ok"
      PROVE  calling'[q].object \in owned'
  <2>1. CASE reply'[q] = reply[q]
    BY <1>a, <1>2, <1>5, <2>1 DEF ErrandInv
  <2>2. CASE reply'[q] # reply[q]
    BY <1>2, <1>3, <1>4, <1>5, <2>2 DEF o
  <2>3. QED  BY <2>1, <2>2
<1>6. QED  BY <1>a, <1>2, <1>5 DEF ErrandInv

(* ... and the dispatch of a destroy signal, which finds no call.          *)
LEMMA DropErrand ==
  ASSUME IInv, ErrandInv, NEW o \in Objects, calling[Home[o]] = NoCall,
         UNCHANGED <<asked, calling, reply, tries, remote_id>>,
         \A e \in Objects : e # o => refs'[e] = refs[e] /\ (e \in owned => e \in owned')
  PROVE  ErrandInv'
<1>1. \A q \in Procs : calling[q].object \in Objects \cup {NoObject}
      /\ (calling[q].object # NoObject => Home[calling[q].object] = q)
      /\ (calling[q].object \in owned => calling[q].object # NoObject)
  BY Types, RemoteAssumption
     DEF IInv, BusTypes, ClientTypes, ErrandInv, RemoteAssumption
<1>2. \A q \in Procs : calling[q].object # o
  BY <1>1, RemoteAssumption DEF NoCall, RemoteAssumption
<1>3. QED  BY <1>1, <1>2 DEF ErrandInv

LEMMA ErrandStep ==
  ASSUME SteadyInv, MaxCrashes = 0, [Next]_vars
  PROVE  ErrandInv'
<1> USE RemoteAssumption DEF RemoteAssumption
<1>a. ObjectTypes /\ ClientTypes /\ ClassTypes /\ MailTypes /\ BusTypes
      /\ IInv /\ AnswersInv /\ IdsInv /\ FarewellInv /\ ErrandInv
  BY Types DEF SteadyInv, IInv
<1>1. ASSUME NEW p \in Procs, BeginNew(p) PROVE ErrandInv'
  BY <1>a, <1>1, BeginErrand DEF BeginNew, objectVars, clientVars
<1>2. ASSUME NEW o \in Objects,
             BeginSetExtraWidget(o) \/ ParentClosed(o) \/ \E m \in Calls : BeginCall(o, m)
      PROVE  ErrandInv'
  <2>1. Idle(Home[o]) /\ refs[o] > 0 /\ o # NoObject /\ UNCHANGED <<refs, remote_id, owned>>
    BY <1>2 DEF BeginSetExtraWidget, ParentClosed, BeginCall, Usable, objectVars, clientVars
  <2>2. CASE ParentClosed(o) /\ o \notin withParent
    BY <1>a, <2>1, <2>2 DEF ParentClosed, daemonVars, busVars, ErrandInv
  <2>3. CASE ~(ParentClosed(o) /\ o \notin withParent)
    <3>1. \E m \in Calls : Begin(Home[o], m, o, remote_id[o])
      BY <1>2, <2>3 DEF BeginSetExtraWidget, ParentClosed, BeginCall
    <3>2. QED  BY <1>a, <2>1, <3>1, BeginErrand
  <2>4. QED  BY <2>2, <2>3
<1>3. ASSUME NEW p \in Procs, GiveUp(p) PROVE ErrandInv'
  <2>1. /\ tries' = [tries EXCEPT ![p] = tries[p] + 1] /\ reply' = [reply EXCEPT ![p] = Failure]
        /\ UNCHANGED <<asked, calling, refs, remote_id, owned>>
    BY <1>3 DEF GiveUp, daemonVars, objectVars, clientVars
  <2>2. \A call \in asked : call.caller # <<p, tries'[p]>>
    BY <1>a, <2>1 DEF AnswersInv, BusTypes
  <2>3. reply'[p].result # "ok"
        /\ \A q \in Procs \ {p} : reply'[q] = reply[q] /\ tries'[q] = tries[q]
    BY <1>a, <2>1 DEF BusTypes, Failure
  <2>4. \A q \in Procs, call \in asked :
          call.caller = <<q, tries'[q]>> /\ call.dialog # NoDialog =>
            calling[q].object # NoObject /\ call.dialog = remote_id[calling[q].object]
    BY <1>a, <2>2, <2>3 DEF ErrandInv
  <2>5. QED  BY <1>a, <2>1, <2>3, <2>4 DEF ErrandInv
<1>4. ASSUME NEW p \in Procs, NEW o \in Objects, EndNew(p, o) PROVE ErrandInv'
  <2>1. /\ End(p, "ok") /\ refs[o] = 0
        /\ refs' = [refs EXCEPT ![o] = 1] /\ owned' = owned \cup {o}
        /\ remote_id' = [remote_id EXCEPT ![o] = reply[p].dialog]
    BY <1>4 DEF EndNew, Free
  <2>2. \A e \in Objects : refs[e] > 0 =>
          refs'[e] > 0 /\ remote_id'[e] = remote_id[e] /\ (e \in owned => e \in owned')
    BY <1>a, <2>1 DEF ObjectTypes
  <2>3. QED  BY <1>a, <2>1, <2>2, EndErrand
<1>5. ASSUME NEW p \in Procs,
             \/ \E w \in {"held", "none"} : EndSetExtraWidget(p, w)
             \/ EndRun(p) \/ EndList(p) \/ EndCall(p) \/ EndFailed(p)
      PROVE  ErrandInv'
  <2>1. \E result \in {"ok", "failed"} : End(p, result)
    BY <1>5 DEF EndSetExtraWidget, EndRun, EndList, EndCall, EndFailed
  <2>2. UNCHANGED <<refs, remote_id, owned>>
    BY <1>5 DEF EndSetExtraWidget, EndRun, EndList, EndCall, EndFailed, objectVars, clientVars
  <2>3. QED  BY <1>a, <2>1, <2>2, EndErrand
<1>6. ASSUME NEW p \in Procs, OnDestroy(p) PROVE ErrandInv'
  <2> DEFINE o == instances[p][Head(mail[p]).dialog]
  <2>1. Head(mail[p]).dialog \in Dialogs
    BY <1>a, <1>6, TakeTypes, LettersTypes DEF OnDestroy
  <2>2. o \in Objects /\ Home[o] = p
    BY <1>a, <1>6, <2>1, Listed DEF OnDestroy
  <2>3. /\ Unref(o) /\ owned' = owned \ {o} /\ calling[p] = NoCall
        /\ UNCHANGED <<asked, calling, reply, tries, remote_id>>
    BY <1>6 DEF OnDestroy, Take, Idle, daemonVars, busVars
  <2> HIDE DEF o
  <2>4. \A e \in Objects : e # o => refs'[e] = refs[e] /\ (e \in owned => e \in owned')
    BY <1>a, <2>2, <2>3 DEF Unref, ObjectTypes
  <2>5. QED  BY <1>a, <2>2, <2>3, <2>4, DropErrand
<1>7. ASSUME NEW o \in Objects, DropExtra(o) PROVE ErrandInv'
  <2>1. calling[Home[o]] = NoCall /\ Unref(o)
        /\ UNCHANGED <<asked, calling, reply, tries, remote_id, owned>>
    BY <1>7 DEF DropExtra, Idle, daemonVars, busVars
  <2>2. \A e \in Objects : e # o => refs'[e] = refs[e] /\ (e \in owned => e \in owned')
    BY <1>a, <2>1 DEF Unref, ObjectTypes
  <2>3. QED  BY <1>a, <2>1, <2>2, DropErrand
<1>8. ASSUME NEW o \in Objects, TakeExtra(o) PROVE ErrandInv'
  <2>1. calling[Home[o]] = NoCall /\ refs' = [refs EXCEPT ![o] = @ + 1]
        /\ UNCHANGED <<asked, calling, reply, tries, remote_id, owned>>
    BY <1>8 DEF TakeExtra, Usable, Idle, daemonVars, busVars
  <2>2. \A e \in Objects : e # o => refs'[e] = refs[e] /\ (e \in owned => e \in owned')
    BY <1>a, <2>1 DEF ObjectTypes
  <2>3. QED  BY <1>a, <2>1, <2>2, DropErrand
<1>9. ASSUME NEW call \in asked, Serve(call) PROVE ErrandInv'
  BY <1>9, ServeErrand
<1>10. CASE UNCHANGED <<asked, calling, reply, tries, remote_id, refs, owned>>
  BY <1>a, <1>10 DEF ErrandInv
<1>11. QED
  BY <1>a, <1>1, <1>2, <1>3, <1>4, <1>5, <1>6, <1>7, <1>8, <1>9, <1>10, NoCrash
     DEF Next, Process, Returns, Dispatch, Use, NobodyLeft, vars, daemonVars, objectVars,
         busVars, clientVars, OnStranger, OnResponse, OnOwner, SetDestroyWithParent,
         Users, Respond, Close, Daemon!Respond, Daemon!Close, Restart

(* The invariant of the processes of a daemon that lives.                  *)
THEOREM SteadyInvariance == ASSUME MaxCrashes = 0 PROVE Spec => []SteadyInv
<1>1. Init => SteadyInv
  <2>1. ASSUME Init PROVE AnswersInv /\ IdsInv
    BY <2>1, RemoteAssumption
       DEF Init, Daemon!Init, AnswersInv, IdsInv, UniqueIds, NoCall, Silence, RemoteAssumption
  <2>2. ASSUME Init PROVE MailInv
    BY <2>2, SaysInit DEF Init, MailInv, FarewellLast
  <2>3. ASSUME Init PROVE FarewellInv /\ ErrandInv
    BY <2>3 DEF Init, Daemon!Init, FarewellInv, ErrandInv, NoCall
  <2>4. QED  BY <2>1, <2>2, <2>3, InitIInv DEF SteadyInv
<1>2. SteadyInv /\ [Next]_vars => SteadyInv'
  <2>1. ASSUME IInv, [Next]_vars PROVE IInv'
    BY <2>1, TypeStep, CallsStep, EntriesStep, HoldersStep DEF IInv
  <2>2. QED  BY <2>1, AnswersStep, IdsStep, MailStep, FarewellStep, ErrandStep DEF SteadyInv
<1>3. QED  BY <1>1, <1>2, PTL DEF Spec

(* "if the dialog was destroyed, you will never hear from it again": for   *)
(* any number of processes, even those that keep and use a dialog that was *)
(* destroyed, and whatever calls are given up, as long as the daemon lives:*)
(* ids start again with it (sfcd_run, _rfcd_class_on_response).            *)
THEOREM DestroyedStaySilent == ASSUME MaxCrashes = 0 PROVE Spec => SilentAfterDestroy
<1>1. ASSUME SteadyInv, [Next]_vars, NEW o \in Objects, heard[o] = "destroy", refs[o] > 0
      PROVE  heard'[o] = "destroy"
  <2>a. ClientTypes /\ MailTypes /\ BusTypes /\ IInv /\ FarewellInv /\ ErrandInv
    BY <1>1, Types DEF SteadyInv, IInv
  <2>b. o \notin owned
    BY <1>1, <2>a DEF FarewellInv
  <2>1. ASSUME NEW p \in Procs, NEW e \in Objects, EndNew(p, e) PROVE heard'[o] = "destroy"
    BY <1>1, <2>1, <2>a DEF EndNew, Free, ClientTypes
  <2>2. ASSUME NEW p \in Procs, EndRun(p) PROVE heard'[o] = "destroy"
    <3>1. calling[p].object \in owned
      BY <2>2, <2>a DEF EndRun, End, ErrandInv
    <3>2. QED  BY <1>1, <2>2, <2>a, <2>b, <3>1 DEF EndRun, ClientTypes
  <2>3. ASSUME NEW p \in Procs, OnResponse(p) PROVE heard'[o] = "destroy"
    <3> DEFINE d == Head(mail[p]).dialog
               e == instances[p][d]
    <3>1. d \in Dialogs /\ Says(mail[p], "response", d)
      BY <2>3, <2>a, TakeTypes, LettersTypes, Taken DEF OnResponse
    <3>2. e \in Objects /\ Home[e] = p /\ refs[e] > 0 /\ remote_id[e] = d
      BY <2>3, <2>a, <3>1, Listed DEF OnResponse
    <3>3. e # o
      BY <1>1, <2>a, <2>b, <3>1, <3>2 DEF FarewellInv, Mentions
    <3>4. heard' = [heard EXCEPT ![e] = "response"]
      BY <2>3 DEF OnResponse
    <3>5. QED  BY <1>1, <2>a, <3>3, <3>4 DEF ClientTypes
  <2>4. ASSUME NEW p \in Procs, OnDestroy(p) PROVE heard'[o] = "destroy"
    <3>1. \E e : heard' = [heard EXCEPT ![e] = "destroy"]
      BY <2>4 DEF OnDestroy
    <3>2. QED  BY <1>1, <2>a, <3>1 DEF ClientTypes
  <2>5. CASE UNCHANGED heard
    BY <1>1, <2>5
  <2>6. QED
    BY <1>1, <2>1, <2>2, <2>3, <2>4, <2>5
       DEF Next, Process, Returns, Dispatch, Use, NobodyLeft, vars, clientVars, BeginNew, GiveUp,
           EndSetExtraWidget, EndList, EndCall, EndFailed, OnStranger, OnOwner, TakeExtra,
           DropExtra, BeginCall, BeginSetExtraWidget, SetDestroyWithParent, ParentClosed, Serve,
           Users, Respond, Close, Crash, Restart
<1>2. SteadyInv /\ [Next]_vars =>
        [\A o \in Objects :
           heard[o] = "destroy" /\ refs[o] > 0 /\ refs'[o] > 0 => heard'[o] = "destroy"]_vars
  BY <1>1
<1>3. QED  BY <1>2, SteadyInvariance, PTL DEF Spec, SilentAfterDestroy

-----------------------------------------------------------------------------
LEMMA ListsApart == "none" \notin Lists /\ "new" \notin Lists /\ "run" \notin Lists
<1>1. \A m \in Queries : m \notin {"none", "new", "run"}
  BY QueriesApart
<1>2. Lists \subseteq Queries \cup {"get_filenames", "get_uris"}
  BY DEF Lists, Queries
<1>3. QED  BY <1>1, <1>2

LEMMA MethodsSound ==
  ASSUME Alone, IInv, NEW p \in Procs
  PROVE  calling[p].method \notin Lists \cup {"set_extra_widget"}
<1>1. "none" \notin Lists
  BY ListsApart
<1>2. calling[p].method \in Calls \cup {"none"}
  BY Types DEF IInv, BusTypes
<1>3. QED  BY <1>1, <1>2 DEF Alone

(* An instance stays its creator's until the farewell is taken.            *)
LEMMA OwnedStep ==
  ASSUME SteadyInv, MaxCrashes = 0, [Next]_vars, NEW o \in owned
  PROVE  /\ o \in Objects /\ remote_id[o] \in Dialogs /\ remote_id'[o] = remote_id[o]
         /\ \/ o \in owned'
            \/ /\ mode'[remote_id[o]] = "gone" /\ mode[remote_id[o]] = "gone"
               /\ Says(mail[Home[o]], "destroy", remote_id[o])
               /\ ~Mentions(mail'[Home[o]], remote_id[o])
<1>a. ObjectTypes /\ ClientTypes /\ ClassTypes /\ MailTypes
      /\ IInv /\ IdsInv /\ MailInv /\ FarewellInv
  BY Types DEF SteadyInv, IInv
<1>b. o \in Objects /\ refs[o] > 0 /\ remote_id[o] \in Dialogs
  BY <1>a DEF ClientTypes, FarewellInv, IdsInv
<1>1. remote_id'[o] = remote_id[o]
  <2>1. ASSUME NEW p \in Procs, NEW e \in Objects, EndNew(p, e)
        PROVE  remote_id'[o] = remote_id[o]
    BY <1>a, <1>b, <2>1 DEF EndNew, Free, ObjectTypes
  <2>2. QED  BY <2>1, OwnedMoves
<1>2. ASSUME NEW p \in Procs, OnDestroy(p), o \notin owned'
      PROVE  /\ mode'[remote_id[o]] = "gone" /\ mode[remote_id[o]] = "gone"
             /\ Says(mail[Home[o]], "destroy", remote_id[o])
             /\ ~Mentions(mail'[Home[o]], remote_id[o])
  <2> DEFINE d == Head(mail[p]).dialog
  <2>1. d \in Dialogs /\ Take(p, "destroy") /\ mode' = mode
    BY <1>a, <1>2, TakeTypes, LettersTypes DEF OnDestroy, daemonVars
  <2>2. o = instances[p][d]
    BY <1>2 DEF OnDestroy
  <2>3. Home[o] = p /\ remote_id[o] = d
    BY <1>a, <1>2, <2>1, <2>2, Listed DEF OnDestroy
  <2>4. Says(mail[p], "destroy", d) /\ ~Mentions(mail'[p], d)
    BY <1>a, <2>1, Taken, FarewellTail DEF MailInv
  <2>5. QED  BY <1>a, <2>1, <2>3, <2>4 DEF MailInv
<1>3. (\A p \in Procs : ~OnDestroy(p)) => o \in owned'
  BY OwnedMoves DEF EndNew
<1>4. QED  BY <1>b, <1>1, <1>2, <1>3

LEMMA OwnedOrGone ==
  ASSUME SteadyInv, MaxCrashes = 0, [Next]_vars, NEW d \in Dialogs, Owned(d)
  PROVE  Owned(d)' \/ mode'[d] = "gone"
<1>1. PICK o \in owned : remote_id[o] = d
  BY DEF Owned
<1>2. QED  BY <1>1, OwnedStep DEF Owned

(* Nothing kills the process.                                              *)
LEMMA AliveStep ==
  ASSUME Alone, SteadyInv, AloneInv, [Next]_vars
  PROVE  AllAlive'
<1>a. IInv /\ FarewellInv /\ MailTypes /\ AllAlive
  BY Types DEF SteadyInv, IInv, AloneInv
<1>b. orphans = {}
  BY <1>a DEF Alone, IInv, ParentInv
<1>1. ASSUME NEW p \in Procs, OnStranger(p) PROVE FALSE
  <2> DEFINE d == Head(mail[p]).dialog
  <2>1. d \in Dialogs /\ Mentions(mail[p], d) /\ instances[p][d] = NoObject
    BY <1>a, <1>1, TakeTypes, LettersTypes, Taken DEF OnStranger, Mentions
  <2>2. QED  BY <2>1 DEF AloneInv
<1>2. ASSUME NEW p \in Procs, OnDestroy(p) PROVE fate' = fate
  <2> DEFINE d == Head(mail[p]).dialog
             o == instances[p][d]
  <2>1. d \in Dialogs /\ Mentions(mail[p], d)
    BY <1>a, <1>2, TakeTypes, LettersTypes, Taken DEF OnDestroy, Mentions
  <2>2. o \in Objects /\ Home[o] = p /\ refs[o] > 0 /\ remote_id[o] = d
    BY <1>a, <1>2, <2>1, Listed DEF OnDestroy
  <2>3. o \in owned
    BY <1>a, <2>1, <2>2 DEF FarewellInv
  <2>4. QED  BY <1>b, <1>2, <2>3 DEF OnDestroy, Disconnect
<1>3. ASSUME NEW p \in Procs, EndList(p) PROVE FALSE
  BY <1>a, <1>3, MethodsSound DEF EndList
<1>4. ASSUME NEW o \in Objects, BeginSetExtraWidget(o) PROVE FALSE
  BY <1>4 DEF BeginSetExtraWidget, Alone
<1>5. UNCHANGED fate
  BY <1>b, <1>1, <1>2, <1>3, <1>4
     DEF Next, Process, Returns, Dispatch, Use, NobodyLeft, vars, BeginNew, GiveUp,
         EndNew, EndSetExtraWidget, EndRun, EndCall, EndFailed, OnResponse,
         OnOwner, TakeExtra, DropExtra, Disconnect, BeginCall, SetDestroyWithParent,
         ParentClosed, Serve, Users, Respond, Close, Crash, Restart
<1>6. QED  BY <1>a, <1>5 DEF AllAlive, Alive

(* What the daemon may speak of has an instance.                           *)
LEMMA SpeakableOwned ==
  ASSUME AloneInv, NEW d \in Dialogs, Speakable(d)
  PROVE  Owned(d)
<1>1. mode[d] # "gone" /\ d # NoDialog
  BY States, RemoteAssumption DEF Speakable, RemoteAssumption
<1>2. QED  BY <1>1 DEF Speakable, AloneInv

(* What is said is about an instance that stays, and ...                   *)
LEMMA SpokenOf ==
  ASSUME Alone, SteadyInv, AloneInv, [Next]_vars,
         NEW p \in Procs, NEW d \in Dialogs, Mentions(mail'[p], d)
  PROVE  \E o \in owned :
           /\ o \in owned' /\ o \in Objects /\ Home[o] = p
           /\ remote_id[o] = d /\ instances[p][d] = o /\ instances'[p][d] = o
<1> USE RemoteAssumption DEF RemoteAssumption
<1>a. IInv /\ FarewellInv /\ ClientTypes /\ MailInv /\ MaxCrashes = 0 /\ FarewellInv'
  BY Types, FarewellStep DEF SteadyInv, IInv, Alone
<1>1. PICK o \in owned : remote_id[o] = d
  <2>1. CASE Mentions(mail[p], d)
    <3>1. instances[p][d] # NoObject
      BY <2>1 DEF AloneInv
    <3>2. QED  BY <1>a, <2>1, <3>1, Listed DEF FarewellInv
  <2>2. CASE Speakable(d)
    BY <2>2, SpeakableOwned DEF Owned
  <2>3. QED  BY <1>a, <2>1, <2>2, MailStep DEF SteadyInv
<1>2. o \in Objects /\ Home[o] = p
  BY <1>a DEF ClientTypes, Alone
<1>3. o \in owned' /\ remote_id'[o] = d
  BY <1>a, <1>1, <1>2, OwnedStep
<1>4. instances[p][d] = o /\ instances'[p][d] = o
  BY <1>a, <1>1, <1>2, <1>3 DEF FarewellInv
<1>5. QED  BY <1>1, <1>2, <1>3, <1>4

(* ... whatever is asked of the daemon or runs there has an instance.      *)
LEMMA AloneStep ==
  ASSUME Alone, SteadyInv, AloneInv, [Next]_vars
  PROVE  AloneInv'
<1> USE RemoteAssumption DEF RemoteAssumption
<1>a. IInv /\ IdsInv /\ FarewellInv /\ MailTypes /\ DaemonTypes /\ ClientTypes /\ MailInv
      /\ MaxCrashes = 0 /\ FarewellInv'
  BY Types, FarewellStep DEF SteadyInv, IInv, Alone
<1>1. \A p \in Procs, d \in Dialogs : Mentions(mail'[p], d) => instances'[p][d] # NoObject
  BY SpokenOf
<1>2. \A d \in Dialogs : mode'[d] = RUNNING => Owned(d)'
  <2>1. ASSUME NEW d \in Dialogs, mode'[d] = RUNNING PROVE Owned(d)
    <3>1. mode \in [Dialogs -> Daemon!Modes]
      BY <1>a DEF DaemonTypes, Daemon!TypeOK
    <3>2. CASE mode[d] = RUNNING
      BY <3>2 DEF AloneInv
    <3>3. CASE mode'[d] # mode[d]
      <4>1. PICK call \in asked : Daemon!Perform(call) /\ call.dialog = d
        <5>1. ASSUME NEW e \in Dialogs, Users(e) PROVE FALSE
          BY <2>1, <3>1, <3>3, <5>1, States, DaemonStates
             DEF Users, Respond, Close, Daemon!Respond, Daemon!Close, Daemon!Signal, SfcdState
        <5>2. ASSUME NEW call \in asked, Serve(call)
              PROVE  Daemon!Perform(call) /\ call.dialog = d
          BY <2>1, <3>1, <3>3, <5>2, States, DaemonStates
             DEF Serve, Daemon!Create, Daemon!Fail, Daemon!Perform, Daemon!Destroy, Daemon!Signal,
                 SfcdState
        <5>3. (\E call \in asked : Serve(call)) \/ (\E e \in Dialogs : Users(e))
          BY <1>a, <3>3, ModeMoves
        <5>4. QED  BY <5>1, <5>2, <5>3
      <4>2. mode[d] # "gone" /\ d # NoDialog
        BY <4>1, States, DaemonStates DEF Daemon!Perform
      <4>3. QED  BY <4>1, <4>2 DEF AloneInv
    <3>4. QED  BY <2>1, <3>2, <3>3
  <2>2. QED  BY <1>a, <2>1, OwnedOrGone, States
<1>3. ASSUME NEW call \in asked', call.dialog # NoDialog
      PROVE  mode'[call.dialog] = "gone" \/ Owned(call.dialog)'
  <2>1. call.dialog \in Dialogs
    <3>1. TypeOK'
      BY <1>a, TypeStep
    <3>2. QED  BY <1>3, <3>1 DEF TypeOK, Daemon!TypeOK, Daemon!Call
  <2>2. mode[call.dialog] = "gone" \/ Owned(call.dialog)
    <3>1. CASE call \in asked
      BY <1>3, <3>1 DEF AloneInv
    <3>2. CASE call \notin asked
      <4>1. ASSUME NEW p \in Procs, BeginNew(p) PROVE FALSE
        BY <1>3, <3>2, <4>1 DEF BeginNew, Begin, Daemon!Ask
      <4>2. \E o \in Objects :
              BeginSetExtraWidget(o) \/ ParentClosed(o) \/ \E m \in Calls : BeginCall(o, m)
        BY <1>a, <3>2, <4>1, AskedMoves
      <4>3. PICK o \in Objects : refs[o] > 0 /\ call.dialog = remote_id[o]
        BY <1>3, <3>2, <4>2
           DEF BeginSetExtraWidget, ParentClosed, BeginCall, Usable, Begin, Daemon!Ask,
               daemonVars
      <4>4. QED  BY <1>a, <4>3 DEF FarewellInv, Owned
    <3>3. QED  BY <3>1, <3>2
  <2>3. QED  BY <1>a, <2>1, <2>2, ModeStep, OwnedOrGone
<1>4. QED  BY <1>1, <1>2, <1>3, AliveStep DEF AloneInv

(* The invariant of a process that has the daemon for itself: whatever is  *)
(* said to it, asked by it or run for it is about one of its instances.    *)
THEOREM AloneInvariance == ASSUME Alone PROVE Spec => []AloneInv
<1>1. Init => AloneInv
  <2> SUFFICES ASSUME Init PROVE AloneInv
    OBVIOUS
  <2>1. \A p \in Procs : \A d : ~Mentions(mail[p], d)
    BY SaysInit DEF Init, Mentions
  <2>2. QED
    BY <2>1, States DEF Init, Daemon!Init, AloneInv, AllAlive, Alive, RUNNING
<1>2. SteadyInv /\ AloneInv /\ [Next]_vars => AloneInv'
  BY AloneStep
<1>3. Spec => []SteadyInv
  BY SteadyInvariance DEF Alone
<1>4. QED  BY <1>1, <1>2, <1>3, PTL DEF Spec

(* Nothing kills a process that has the daemon for itself, whatever calls  *)
(* are given up, however its application treats its dialogs and whatever   *)
(* the user closes: each signal is for an instance that is there, and the  *)
(* reference of the creation is given up once (_rfcd_class_on_response,    *)
(* _rfcd_class_on_destroy).                                                *)
THEOREM SignalsFindTheirInstances == ASSUME Alone PROVE Spec => []AllAlive
BY AloneInvariance, PTL DEF AloneInv

-----------------------------------------------------------------------------
(* The bus library of a process starts a call, ends it, gives it up, or    *)
(* gets its answer.                                                        *)
LEMMA ReplyStep ==
  ASSUME IInv, AnswersInv, MaxCrashes = 0, [Next]_vars, NEW p \in Procs
  PROVE  \/ calling'[p] = calling[p] /\ reply'[p] = reply[p]
         \/ /\ calling[p] = NoCall /\ reply[p] = Silence /\ reply'[p] \in {Silence, Failure}
            /\ \E m, o, d : Begin(p, m, o, d)
         \/ \E result : End(p, result) /\ calling'[p] = NoCall /\ reply'[p] = Silence
         \/ GiveUp(p) /\ calling'[p] = calling[p] /\ reply'[p] = Failure
         \/ /\ calling'[p] = calling[p] /\ reply[p] = Silence
            /\ \E call \in asked : Serve(call) /\ call.caller = <<p, tries[p]>>
<1> USE RemoteAssumption DEF RemoteAssumption
<1>a. BusTypes
  BY Types DEF IInv
<1> DEFINE Goal ==
      \/ calling'[p] = calling[p] /\ reply'[p] = reply[p]
      \/ /\ calling[p] = NoCall /\ reply[p] = Silence /\ reply'[p] \in {Silence, Failure}
         /\ \E m, o, d : Begin(p, m, o, d)
      \/ \E result : End(p, result) /\ calling'[p] = NoCall /\ reply'[p] = Silence
      \/ GiveUp(p) /\ calling'[p] = calling[p] /\ reply'[p] = Failure
      \/ /\ calling'[p] = calling[p] /\ reply[p] = Silence
         /\ \E call \in asked : Serve(call) /\ call.caller = <<p, tries[p]>>
<1>1. ASSUME NEW q \in Procs, NEW m, NEW o, NEW d, Idle(q), Begin(q, m, o, d) PROVE Goal
  <2>1. CASE q # p
    BY <1>a, <1>1, <2>1 DEF Begin, BusTypes
  <2>2. CASE q = p
    <3>1. calling[p] = NoCall /\ reply[p] = Silence
      BY <1>1, <2>2 DEF Idle, AnswersInv
    <3>2. reply'[p] \in {Silence, Failure}
      BY <1>a, <1>1, <2>2, <3>1 DEF Begin, BusTypes
    <3>3. QED  BY <1>1, <2>2, <3>1, <3>2
  <2>3. QED  BY <2>1, <2>2
<1>2. ASSUME NEW q \in Procs, NEW result, End(q, result) PROVE Goal
  BY <1>a, <1>2 DEF End, BusTypes
<1>3. ASSUME NEW q \in Procs, GiveUp(q) PROVE Goal
  <2>1. CASE q # p
    BY <1>a, <1>3, <2>1 DEF GiveUp, BusTypes
  <2>2. CASE q = p
    BY <1>a, <1>3, <2>2 DEF GiveUp, BusTypes
  <2>3. QED  BY <2>1, <2>2
<1>4. ASSUME NEW call \in asked, Serve(call) PROVE Goal
  <2>1. calling' = calling
    BY <1>4 DEF Serve
  <2>2. reply'[p] # reply[p] => call.caller[1] = p /\ call.caller[2] = tries[p]
    BY <1>a, <1>4 DEF Serve, Tell, BusTypes
  <2>3. reply'[p] # reply[p] => call.caller = <<p, tries[p]>>
    BY <2>2, <1>4 DEF IInv, TypeOK, Daemon!TypeOK, Daemon!Call, Callers
  <2>4. QED  BY <1>4, <2>1, <2>3 DEF AnswersInv
<1>5. CASE UNCHANGED <<calling, reply>>
  BY <1>5
<1>6. ASSUME NEW q \in Procs, Process(q) PROVE Goal
  <2>1. CASE BeginNew(q)
    BY <1>1, <2>1 DEF BeginNew
  <2>2. CASE Returns(q)
    BY <1>2, <2>2, ReturnsEnd
  <2>3. CASE Dispatch(q)
    BY <1>5, <2>3, DispatchTakes DEF busVars
  <2>4. QED  BY <1>3, <1>6, <2>1, <2>2, <2>3 DEF Process
<1>7. ASSUME NEW o \in Objects, Use(o) PROVE Goal
  <2>1. CASE ParentClosed(o) \/ BeginSetExtraWidget(o) \/ \E m \in Calls : BeginCall(o, m)
    BY <1>1, <1>5, <2>1 DEF ParentClosed, BeginSetExtraWidget, BeginCall, Usable, busVars
  <2>2. CASE TakeExtra(o) \/ DropExtra(o) \/ \E b \in BOOLEAN : SetDestroyWithParent(o, b)
    BY <1>5, <2>2 DEF TakeExtra, DropExtra, SetDestroyWithParent, busVars
  <2>3. QED  BY <1>7, <2>1, <2>2 DEF Use
<1>8. QED
  BY <1>4, <1>5, <1>6, <1>7, NoCrash
     DEF Next, NobodyLeft, vars, busVars, Users, Respond, Close, Restart

LEMMA ReturnStep ==
  ASSUME IInv, MaxCrashes = 0, [Next]_vars, NEW p \in Procs,
         calling[p] # NoCall, calling'[p] = NoCall
  PROVE  Returns(p)
<1>a. BusTypes
  BY Types DEF IInv
<1>1. ASSUME NEW q \in Procs, NEW m, NEW o, NEW d, Idle(q), Begin(q, m, o, d) PROVE FALSE
  BY <1>a, <1>1 DEF Begin, BusTypes, Idle
<1>2. ASSUME NEW q \in Procs, Process(q) PROVE Returns(p)
  <2>1. ~BeginNew(q)
    BY <1>1 DEF BeginNew
  <2>2. CASE GiveUp(q) \/ Dispatch(q)
    BY <2>2 DEF GiveUp, Dispatch, OnStranger, OnResponse, OnDestroy, OnOwner, busVars
  <2>3. CASE Returns(q)
    <3>1. \E result : End(q, result)
      BY <2>3, ReturnsEnd
    <3>2. q = p
      BY <1>a, <3>1 DEF End, BusTypes
    <3>3. QED  BY <2>3, <3>2
  <2>4. QED  BY <1>2, <2>1, <2>2, <2>3 DEF Process
<1>3. ASSUME NEW o \in Objects, Use(o) PROVE FALSE
  <2>1. Home[o] \in Procs
    BY RemoteAssumption DEF RemoteAssumption
  <2>2. CASE ParentClosed(o) \/ BeginSetExtraWidget(o) \/ \E m \in Calls : BeginCall(o, m)
    BY <1>1, <2>1, <2>2 DEF ParentClosed, BeginSetExtraWidget, BeginCall, Usable, busVars
  <2>3. CASE TakeExtra(o) \/ DropExtra(o) \/ \E b \in BOOLEAN : SetDestroyWithParent(o, b)
    BY <2>3 DEF TakeExtra, DropExtra, SetDestroyWithParent, busVars
  <2>4. QED  BY <1>3, <2>2, <2>3 DEF Use
<1>4. QED
  BY <1>2, <1>3, NoCrash DEF Next, NobodyLeft, vars, busVars, Serve, Users, Respond, Close, Restart

(* Mail is lost by a dispatch only.                                        *)
LEMMA KeptStep ==
  ASSUME IInv, MaxCrashes = 0, [Next]_vars, NEW p \in Procs, NEW kind, NEW d,
         Says(mail[p], kind, d), ~Says(mail'[p], kind, d)
  PROVE  Dispatch(p) /\ Take(p, kind) /\ Head(mail[p]).dialog = d
<1> USE RemoteAssumption DEF RemoteAssumption
<1>a. MailTypes /\ DaemonTypes
  BY Types DEF IInv
<1>1. ASSUME NEW q \in Procs, Dispatch(q)
      PROVE  Dispatch(p) /\ Take(p, kind) /\ Head(mail[p]).dialog = d
  <2>1. PICK k : Take(q, k)
    BY <1>1 DEF Dispatch, OnStranger, OnResponse, OnDestroy, OnOwner
  <2>2. q = p
    BY <1>a, <2>1, Taken
  <2>3. Head(mail[p]).kind = kind /\ Head(mail[p]).dialog = d
    BY <1>a, <2>1, <2>2, Taken, SaysTail
  <2>4. QED  BY <1>1, <2>1, <2>2, <2>3 DEF Take
<1>2. ASSUME NEW item \in Mail, Broadcast(item) PROVE FALSE
  BY <1>a, <1>2, Sent
<1>3. ASSUME NEW call \in asked, Serve(call) PROVE FALSE
  <2>1. CASE Daemon!Destroy(call) /\ Farewell(call.dialog)
    <3>1. call.dialog \in Dialogs
      BY <2>1, CallTypes DEF Daemon!Destroy, IInv, AskedInv
    <3>2. QED  BY <1>2, <2>1, <3>1, LettersTypes DEF Farewell
  <2>2. QED  BY <1>3, <2>1 DEF Serve
<1>4. ASSUME NEW e \in Dialogs, Users(e) PROVE FALSE
  BY <1>2, <1>4, LettersTypes DEF Users, Respond, Close, Report, Farewell
<1>5. ~Restart
  BY <1>a, <1>2, LettersTypes DEF Restart, News, DaemonTypes
<1>6. QED
  BY <1>1, <1>3, <1>4, <1>5, NoCrash
     DEF Next, Process, Returns, Use, NobodyLeft, vars, BeginNew, GiveUp,
         End, EndNew, EndSetExtraWidget, EndRun, EndList, EndCall, EndFailed, TakeExtra,
         DropExtra, BeginCall, BeginSetExtraWidget, SetDestroyWithParent, ParentClosed

(* A dialog goes away with a farewell, and comes with an answer.           *)
LEMMA GoneStep ==
  ASSUME IInv, MaxCrashes = 0, [Next]_vars, NEW d \in Dialogs,
         mode[d] # "gone", mode'[d] = "gone"
  PROVE  Farewell(d)
<1>a. mode \in [Dialogs -> Daemon!Modes]
  BY DEF IInv, TypeOK, Daemon!TypeOK
<1>1. ASSUME NEW call \in asked, Serve(call) PROVE Farewell(d)
  <2>1. CASE \E e \in Dialogs : Daemon!Create(call, e)
    BY <1>a, <2>1, States, DaemonStates DEF Daemon!Create
  <2>2. CASE Daemon!Fail(call)
    BY <2>2 DEF Daemon!Fail
  <2>3. CASE Daemon!Perform(call)
    <3>1. Daemon!After(call.method, mode[call.dialog]) \in SfcdState
      BY <2>3, DaemonAfter DEF Daemon!Perform
    <3>2. QED  BY <1>a, <2>3, <3>1, DaemonStates, States DEF Daemon!Perform
  <2>4. CASE Daemon!Destroy(call) /\ Farewell(call.dialog)
    BY <1>a, <2>4 DEF Daemon!Destroy, Daemon!Signal
  <2>5. QED  BY <1>1, <2>1, <2>2, <2>3, <2>4 DEF Serve
<1>2. ASSUME NEW e \in Dialogs, Users(e) PROVE Farewell(d)
  BY <1>a, <1>2, DaemonStates, States
     DEF Users, Respond, Close, Daemon!Respond, Daemon!Close, Daemon!Signal, SfcdState
<1>3. QED  BY <1>1, <1>2, ModeMoves

LEMMA BornStep ==
  ASSUME IInv, MaxCrashes = 0, [Next]_vars, NEW d \in Dialogs,
         mode[d] \notin SfcdState, mode'[d] \in SfcdState
  PROVE  \E call \in asked : Daemon!Create(call, d) /\ Serve(call) /\ Tell(call, "ok", d)
<1>a. mode \in [Dialogs -> Daemon!Modes]
  BY DEF IInv, TypeOK, Daemon!TypeOK
<1>1. ASSUME NEW call \in asked, Serve(call)
      PROVE  Daemon!Create(call, d) /\ Tell(call, "ok", d)
  <2>1. ASSUME NEW e \in Dialogs, Daemon!Create(call, e), Tell(call, "ok", e)
        PROVE  Daemon!Create(call, d) /\ Tell(call, "ok", d)
    <3>1. e = d
      BY <1>a, <2>1 DEF Daemon!Create
    <3>2. QED  BY <2>1, <3>1
  <2>2. CASE Daemon!Fail(call)
    BY <2>2 DEF Daemon!Fail
  <2>3. CASE Daemon!Perform(call)
    BY <1>a, <2>3, DaemonStates DEF Daemon!Perform
  <2>4. CASE Daemon!Destroy(call)
    BY <1>a, <2>4, States DEF Daemon!Destroy, Daemon!Signal
  <2>5. QED  BY <1>1, <2>1, <2>2, <2>3, <2>4 DEF Serve
<1>2. ASSUME NEW e \in Dialogs, Users(e) PROVE FALSE
  BY <1>a, <1>2, DaemonStates, States
     DEF Users, Respond, Close, Daemon!Respond, Daemon!Close, Daemon!Signal
<1>3. \E call \in asked : Serve(call)
  BY <1>2, ModeMoves
<1>4. QED  BY <1>1, <1>3

(* An answer to rfcd_new is about a dialog that has no instance yet.       *)
LEMMA AnswerNotOwned ==
  ASSUME Alone, SteadyInv, NEW p \in Procs, reply[p].dialog # NoDialog
  PROVE  reply[p].dialog \in Dialogs /\ ~Owned(reply[p].dialog)
<1>1. reply[p].dialog \in Dialogs
  BY Types DEF SteadyInv, IInv, BusTypes, Answers
<1>2. \A o \in owned : o \in Objects /\ refs[o] > 0 /\ Home[o] = p
  BY Types, RemoteAssumption
     DEF SteadyInv, IInv, ClientTypes, FarewellInv, Alone, RemoteAssumption
<1>3. QED  BY <1>1, <1>2 DEF Owned, SteadyInv, IdsInv

(* An answer to rfcd_new waits for the process to take it: ...             *)
LEMMA AnswerStep ==
  ASSUME Alone, MaxTimeouts = 0, SteadyInv, AloneInv, TablesInv, [Next]_vars,
         NEW p \in Procs, reply'[p].dialog # NoDialog
  PROVE  /\ calling'[p].method = "new" /\ reply'[p].result = "ok"
         /\ mode'[reply'[p].dialog] \in SfcdState
<1> DEFINE Goal == /\ calling'[p].method = "new" /\ reply'[p].result = "ok"
                   /\ mode'[reply'[p].dialog] \in SfcdState
<1>a. MaxCrashes = 0 /\ IInv /\ AnswersInv /\ IdsInv /\ BusTypes /\ DaemonTypes
  BY Types DEF Alone, SteadyInv, IInv
<1>1. CASE calling'[p] = calling[p] /\ reply'[p] = reply[p]
  <2> DEFINE d == reply[p].dialog
  <2>1. d \in Dialogs /\ ~Owned(d) /\ mode[d] \in SfcdState
    BY <1>1, AnswerNotOwned DEF TablesInv
  <2>2. ~Speakable(d)
    BY <2>1, SpeakableOwned
  <2>3. mode'[d] \in SfcdState
    BY <1>a, <2>1, <2>2, ModeStep
  <2>4. QED  BY <1>1, <2>3 DEF TablesInv
<1>2. ASSUME NEW call \in asked, Serve(call), call.caller = <<p, tries[p]>>,
             calling'[p] = calling[p], reply[p] = Silence
      PROVE  Goal
  <2>1. PICK d \in Dialogs : Daemon!Create(call, d) /\ Tell(call, "ok", d)
    BY <1>a, <1>2 DEF Serve, Tell, BusTypes, Silence
  <2>2. calling[p].method = "new"
    BY <1>a, <1>2, <2>1 DEF Daemon!Create, AnswersInv
  <2>3. reply'[p] = [result |-> "ok", dialog |-> d]
    BY <1>a, <1>2, <2>1 DEF Tell, BusTypes
  <2>4. mode'[d] \in SfcdState
    BY <1>a, <2>1, DaemonStates, States
       DEF Daemon!Create, DaemonTypes, Daemon!TypeOK
  <2>5. QED  BY <1>2, <2>2, <2>3, <2>4
<1>3. CASE reply'[p] \in {Silence, Failure}
  BY <1>3 DEF Silence, Failure
<1>4. QED
  BY <1>a, <1>1, <1>2, <1>3, ReplyStep

(* ... if it is not there any more, the instance is.                       *)
LEMMA AnswerTaken ==
  ASSUME Alone, MaxTimeouts = 0, SteadyInv, TablesInv, [Next]_vars,
         NEW p \in Procs, reply[p].dialog # NoDialog, reply'[p].dialog # reply[p].dialog
  PROVE  \E o \in owned' : remote_id'[o] = reply[p].dialog
<1> USE RemoteAssumption DEF RemoteAssumption
<1>a. MaxCrashes = 0 /\ IInv /\ AnswersInv /\ BusTypes /\ ObjectTypes
      /\ calling[p].method = "new" /\ reply[p].result = "ok"
  BY Types DEF Alone, SteadyInv, IInv, TablesInv
<1>1. calling[p] # NoCall /\ reply[p] # Silence
  BY <1>a DEF NoCall, Silence
<1>2. ~GiveUp(p)
  BY <1>1 DEF GiveUp
<1>3. PICK result : End(p, result) /\ calling'[p] = NoCall /\ reply'[p] = Silence
  BY <1>a, <1>1, <1>2, ReplyStep
<1>4. result = "ok"
  BY <1>a, <1>3 DEF End
<1>5. "new" \notin Lists
  BY ListsApart
<1>6. Returns(p)
  BY <1>a, <1>1, <1>3, ReturnStep
<1>7. PICK o \in Objects : EndNew(p, o)
  BY <1>a, <1>4, <1>5, <1>3, <1>6
     DEF Returns, EndSetExtraWidget, EndRun, EndList, EndCall, EndFailed, End
<1>8. o \in owned' /\ remote_id'[o] = reply[p].dialog
  BY <1>a, <1>7 DEF EndNew, ObjectTypes
<1>9. QED  BY <1>8

LEMMA TablesStep ==
  ASSUME Alone, MaxTimeouts = 0, SteadyInv, AloneInv, TablesInv, [Next]_vars
  PROVE  TablesInv'
<1> USE RemoteAssumption DEF RemoteAssumption
<1>a. MaxCrashes = 0 /\ IInv /\ AnswersInv /\ IdsInv /\ MailInv /\ FarewellInv /\ AllAlive
      /\ BusTypes /\ DaemonTypes /\ ObjectTypes /\ ClientTypes /\ ClassTypes /\ MailTypes
  BY Types DEF Alone, SteadyInv, IInv, AloneInv
<1>b. subscribed \subseteq subscribed'
  BY SubscribedMoves
<1>c. /\ \/ \E p \in Procs, o \in Objects : EndNew(p, o)
         \/ owned' \subseteq owned
      /\ \A p \in Procs, o \in Objects : EndNew(p, o) =>
           Home[o] \in subscribed /\ owned' = owned \cup {o}
  <2>1. \A p \in Procs, o \in Objects : EndNew(p, o) =>
          Home[o] \in subscribed /\ owned' = owned \cup {o}
    BY DEF EndNew, Free, TablesInv
  <2>2. \/ \E p \in Procs, o \in Objects : EndNew(p, o)
        \/ owned' \subseteq owned
    BY OwnedMoves
  <2>3. QED  BY <2>1, <2>2
<1>1. \A o \in owned' : Home[o] \in subscribed'
  BY <1>b, <1>c DEF TablesInv
<1>2. ASSUME NEW p \in Procs, calling'[p].method = "new" PROVE p \in subscribed'
  <2>1. CASE calling'[p] = calling[p]
    BY <1>b, <1>2, <2>1 DEF TablesInv
  <2>2. CASE BeginNew(p)
    BY <2>2 DEF BeginNew
  <2>3. ASSUME NEW result, End(p, result) PROVE FALSE
    BY <1>a, <1>2, <2>3 DEF End, BusTypes, NoCall
  <2>4. ASSUME NEW m, NEW o, NEW d, m # "new", Begin(p, m, o, d) PROVE FALSE
    BY <1>a, <1>2, <2>4 DEF Begin, BusTypes
  <2>5. ASSUME NEW q \in Procs, Process(q) PROVE p \in subscribed'
    <3>1. q = p
      BY DEF Alone
    <3>2. CASE GiveUp(p) \/ Dispatch(p)
      BY <2>1, <3>2 DEF GiveUp, Dispatch, OnStranger, OnResponse, OnDestroy, OnOwner, busVars
    <3>3. CASE Returns(p)
      BY <2>3, <3>3 DEF Returns, EndNew, EndSetExtraWidget, EndRun, EndList, EndCall, EndFailed
    <3>4. QED  BY <2>2, <2>5, <3>1, <3>2, <3>3 DEF Process
  <2>6. ASSUME NEW o \in Objects, Use(o) PROVE p \in subscribed'
    <3>1. Home[o] = p
      BY DEF Alone
    <3>2. CASE ParentClosed(o) \/ BeginSetExtraWidget(o) \/ \E m \in Calls : BeginCall(o, m)
      BY <2>1, <2>4, <3>1, <3>2 DEF ParentClosed, BeginSetExtraWidget, BeginCall, busVars
    <3>3. CASE TakeExtra(o) \/ DropExtra(o) \/ \E b \in BOOLEAN : SetDestroyWithParent(o, b)
      BY <2>1, <3>3 DEF TakeExtra, DropExtra, SetDestroyWithParent, busVars
    <3>4. QED  BY <2>6, <3>2, <3>3 DEF Use
  <2>7. QED
    BY <1>a, <2>1, <2>5, <2>6, NoCrash
       DEF Next, NobodyLeft, vars, busVars, Serve, Users, Respond, Close, Restart
<1>3. ASSUME NEW o \in owned', mode'[remote_id'[o]] = "gone"
      PROVE  Says(mail'[Home[o]], "destroy", remote_id'[o])
  <2> DEFINE p == Home[o]
             d == remote_id[o]
  <2>1. CASE o \in owned
    <3>1. o \in Objects /\ p \in Procs /\ d \in Dialogs /\ remote_id'[o] = d
      <4>1. o \in Objects /\ remote_id[o] \in Dialogs /\ remote_id'[o] = remote_id[o]
        BY <1>a, <2>1, OwnedStep
      <4>2. QED  BY <4>1
    <3>2. CASE mode[d] = "gone"
      <4>1. SUFFICES ASSUME ~Says(mail'[p], "destroy", d) PROVE FALSE
        BY <3>1
      <4>2. Says(mail[p], "destroy", d)
        BY <2>1, <3>2 DEF TablesInv
      <4>3. Dispatch(p) /\ Take(p, "destroy") /\ Head(mail[p]).dialog = d
        BY <1>a, <3>1, <4>1, <4>2, KeptStep
      <4>4. instances[p][d] = o /\ o # NoObject
        BY <1>a, <2>1, <3>1 DEF FarewellInv
      <4>5. ~OnDestroy(p)
        BY <4>3, <4>4 DEF OnDestroy
      <4>6. QED
        BY <4>3, <4>4, <4>5 DEF Dispatch, OnResponse, OnOwner, OnStranger, Take
    <3>3. CASE mode[d] # "gone"
      <4>1. Farewell(d) /\ p \in subscribed /\ Alive(p)
        BY <1>a, <1>3, <2>1, <3>1, <3>3, GoneStep DEF TablesInv, AllAlive
      <4>2. PICK item \in Mail : item.kind = "destroy" /\ item.dialog = d /\ Broadcast(item)
        BY <3>1, <4>1, LettersTypes DEF Farewell
      <4>3. mail[p] \in Seq(Mail) /\ mail'[p] = Append(mail[p], item)
        BY <1>a, <3>1, <4>1, <4>2, Sent
      <4>4. Says(Append(mail[p], item), "destroy", d)
        BY <4>2, <4>3, SaysAppend
      <4>5. QED  BY <3>1, <4>3, <4>4
    <3>4. QED  BY <3>2, <3>3
  <2>2. CASE o \notin owned
    <3>1. PICK q \in Procs, e \in Objects : EndNew(q, e)
      BY <1>c, <2>2
    <3>a. e = o
      BY <1>c, <2>2, <3>1
    <3>2. remote_id'[o] = reply[q].dialog /\ reply[q].dialog \in Dialogs /\ mode' = mode
      BY <1>a, <3>1, <3>a DEF EndNew, End, Free, AnswersInv, ObjectTypes, daemonVars
    <3>3. mode[reply[q].dialog] \in SfcdState
      BY <3>2 DEF TablesInv
    <3>4. QED  BY <1>3, <3>2, <3>3, States
  <2>3. QED  BY <2>1, <2>2
<1>4. \A p \in Procs : reply'[p].dialog # NoDialog =>
        /\ calling'[p].method = "new" /\ reply'[p].result = "ok"
        /\ mode'[reply'[p].dialog] \in SfcdState
  BY AnswerStep
<1>5. ASSUME NEW d \in Dialogs, mode'[d] \in SfcdState
      PROVE  Owned(d)' \/ \E p \in Procs : reply'[p].dialog = d
  <2>1. CASE Owned(d)
    BY <1>a, <1>5, <2>1, OwnedOrGone, States
  <2>2. ASSUME NEW p \in Procs, reply[p].dialog = d
        PROVE  Owned(d)' \/ reply'[p].dialog = d
    BY <2>2, AnswerTaken DEF Owned
  <2>3. CASE mode[d] \notin SfcdState
    <3>1. PICK call \in asked : Tell(call, "ok", d)
      BY <1>a, <1>5, <2>3, BornStep
    <3>2. call.caller[1] \in Procs /\ call.caller[2] = 0 /\ tries[call.caller[1]] = 0
      BY <1>a, CallTypes DEF BusTypes
    <3>3. reply'[call.caller[1]].dialog = d
      BY <1>a, <3>1, <3>2 DEF Tell, BusTypes
    <3>4. QED  BY <3>2, <3>3
  <2>4. QED  BY <2>1, <2>2, <2>3 DEF TablesInv
<1>6. QED  BY <1>1, <1>2, <1>3, <1>4, <1>5 DEF TablesInv

(* The invariant of its table, if no call is given up.                     *)
THEOREM TablesInvariance == ASSUME Alone, MaxTimeouts = 0 PROVE Spec => []TablesInv
<1>1. Init => TablesInv
  BY States DEF Init, Daemon!Init, TablesInv, NoCall, Silence, SfcdState, CONFIGURATION,
                RUNNING, DATA_RETRIEVAL
<1>2. SteadyInv /\ AloneInv /\ TablesInv /\ [Next]_vars => TablesInv'
  BY TablesStep
<1>3. Spec => []SteadyInv
  BY SteadyInvariance DEF Alone
<1>4. QED  BY <1>1, <1>2, <1>3, AloneInvariance, PTL DEF Spec

(* A process that has the daemon for itself agrees with it on the dialogs  *)
(* that exist, as long as the daemon answers in time: none is lost, and    *)
(* none is kept that is gone but for the farewell that is on its way       *)
(* (rfcd_new_valist, rfcd_dispose, _rfcd_class_on_destroy).                *)
THEOREM TablesGoTogether == ASSUME Alone, MaxTimeouts = 0 PROVE Spec => []TablesAgree
<1>1. ASSUME SteadyInv, TablesInv, NEW d \in Dialogs
      PROVE  (mode[d] \in SfcdState)
               <=> \/ \E o \in Objects : Tables[d] = {o}
                   \/ \E p \in Procs : calling[p].method = "new" /\ reply[p].dialog = d
  <2>a. /\ IInv /\ IdsInv /\ MailInv /\ FarewellInv /\ MailTypes /\ ClientTypes /\ DaemonTypes
        /\ d # NoDialog /\ Home \in [Objects -> Procs]
    BY <1>1, Types, RemoteAssumption DEF SteadyInv, IInv, RemoteAssumption
  <2>1. \A p \in Procs : \A kind : OnItsWay(p, kind, d) <=> Says(mail[p], kind, d)
    BY <2>a DEF OnItsWay, Says, ToSet, MailTypes
  <2>2. Tables[d] = {o \in owned : instances[Home[o]][d] = o
                                   /\ ~Says(mail[Home[o]], "destroy", d)}
    BY <2>a, <2>1 DEF Tables, ClientTypes
  <2>3. ASSUME mode[d] \in SfcdState, Owned(d)
        PROVE  \E o \in Objects : Tables[d] = {o}
    <3>1. PICK o \in owned : remote_id[o] = d
      BY <2>3 DEF Owned
    <3>2. o \in Objects /\ instances[Home[o]][d] = o /\ ~Says(mail[Home[o]], "destroy", d)
      BY <2>a, <2>3, <3>1, States DEF FarewellInv, ClientTypes, MailInv
    <3>3. \A e \in owned : instances[Home[e]][d] = e => e = o
      BY <2>a, <3>2 DEF Alone, ClientTypes
    <3>4. Tables[d] = {o}
      BY <2>2, <3>1, <3>2, <3>3
    <3>5. QED  BY <3>2, <3>4
  <2>4. ASSUME NEW o \in Objects, Tables[d] = {o}
        PROVE  mode[d] \in SfcdState
    <3>1. o \in owned /\ instances[Home[o]][d] = o /\ ~Says(mail[Home[o]], "destroy", d)
      BY <2>2, <2>4
    <3>2. remote_id[o] = d /\ refs[o] > 0
      <4>1. o # NoObject /\ Home[o] \in Procs
        BY <2>a, RemoteAssumption DEF RemoteAssumption
      <4>2. QED  BY <2>a, <3>1, <4>1, Listed
    <3>3. mode[d] # "unborn" /\ mode[d] # "gone"
      BY <1>1, <2>a, <3>1, <3>2 DEF IdsInv, TablesInv
    <3>4. QED
      BY <2>a, <3>3 DEF DaemonTypes, Daemon!TypeOK, Daemon!Modes, Daemon!SfcdState,
                        Daemon!CONFIGURATION, Daemon!RUNNING, Daemon!DATA_RETRIEVAL,
                        SfcdState, CONFIGURATION, RUNNING, DATA_RETRIEVAL
  <2>5. ASSUME NEW p \in Procs, reply[p].dialog = d
        PROVE  mode[d] \in SfcdState /\ calling[p].method = "new"
    BY <1>1, <2>a, <2>5 DEF TablesInv
  <2>6. QED  BY <1>1, <2>3, <2>4, <2>5 DEF TablesInv
<1>2. SteadyInv /\ TablesInv => TablesAgree
  BY <1>1 DEF TablesAgree
<1>3. Spec => []SteadyInv
  BY SteadyInvariance DEF Alone
<1>4. QED  BY <1>2, <1>3, TablesInvariance, PTL

-----------------------------------------------------------------------------
(* How the state of a dialog changes.                                      *)
LEMMA ModeChange ==
  ASSUME IInv, MaxCrashes = 0, [Next]_vars, NEW d \in Dialogs, mode'[d] # mode[d]
  PROVE  \/ mode'[d] = "gone"
         \/ mode[d] = "unborn"
         \/ \E verdict \in SfcdState : Respond(d, verdict)
         \/ \E call \in asked :
              /\ Serve(call) /\ Daemon!Perform(call) /\ call.dialog = d
              /\ mode'[d] = Daemon!After(call.method, mode[d])
<1>a. mode \in [Dialogs -> Daemon!Modes]
  BY DEF IInv, TypeOK, Daemon!TypeOK
<1> DEFINE Goal ==
      \/ mode'[d] = "gone"
      \/ mode[d] = "unborn"
      \/ \E verdict \in SfcdState : Respond(d, verdict)
      \/ \E call \in asked :
           /\ Serve(call) /\ Daemon!Perform(call) /\ call.dialog = d
           /\ mode'[d] = Daemon!After(call.method, mode[d])
<1>1. ASSUME NEW call \in asked, Serve(call) PROVE Goal
  <2>1. CASE \E e \in Dialogs : Daemon!Create(call, e)
    BY <1>a, <2>1 DEF Daemon!Create
  <2>2. CASE Daemon!Fail(call)
    BY <2>2 DEF Daemon!Fail
  <2>3. CASE Daemon!Perform(call)
    <3>1. mode' = [mode EXCEPT ![call.dialog] = Daemon!After(call.method, mode[call.dialog])]
      BY <2>3 DEF Daemon!Perform
    <3>2. call.dialog = d
      BY <1>a, <3>1
    <3>3. mode'[d] = Daemon!After(call.method, mode[d])
      BY <1>a, <3>1, <3>2
    <3>4. QED  BY <1>1, <2>3, <3>2, <3>3
  <2>4. CASE Daemon!Destroy(call)
    BY <1>a, <2>4 DEF Daemon!Destroy, Daemon!Signal
  <2>5. QED  BY <1>1, <2>1, <2>2, <2>3, <2>4 DEF Serve
<1>2. ASSUME NEW e \in Dialogs, Users(e) PROVE Goal
  <2>1. CASE Close(e)
    BY <1>a, <2>1 DEF Close, Daemon!Close, Daemon!Signal
  <2>2. ASSUME NEW verdict \in SfcdState, Respond(e, verdict) PROVE Goal
    <3>1. e = d
      BY <1>a, <2>2 DEF Respond, Daemon!Respond, Daemon!Signal
    <3>2. QED  BY <2>2, <3>1
  <2>3. QED  BY <1>2, <2>1, <2>2 DEF Users
<1>3. QED  BY <1>a, <1>1, <1>2, ModeMoves

LEMMA RunIsNoGetter ==
  /\ "run" \notin UnrefusedQueries \cup ShortcutSetters \cup Lists
  /\ "destroy" \notin Setters /\ "run" \notin Setters
<1>1. \A m \in Setters : m \notin {"run", "destroy"}
  BY SettersApart
<1>2. \A m \in Queries \cup UnrefusedQueries : m # "run"
  BY QueriesApart, OthersApart
<1>3. QED  BY <1>1, <1>2, ListsApart DEF Setters

(* An application that expects a response changes nothing: what changes the*)
(* state of a dialog is a method of an instance that expects none.         *)
LEMMA PatientPerform ==
  ASSUME Alone, MaxTimeouts = 0, SteadyInv, ReportsInv,
         NEW call \in asked, Daemon!Perform(call),
         Daemon!After(call.method, mode[call.dialog]) # mode[call.dialog]
  PROVE  LET p == call.caller[1]
             o == calling[p].object
         IN  /\ call.caller = <<p, tries[p]>> /\ calling[p].method = call.method
             /\ call.method \in Setters \cup {"run"} /\ ~RefusedIn(call.method, mode[call.dialog])
             /\ mode[call.dialog] # RUNNING
             /\ o \in owned /\ Home[o] = p /\ remote_id[o] = call.dialog
             /\ \A q \in Procs : ~Says(mail[q], "response", call.dialog)
<1> USE RemoteAssumption DEF RemoteAssumption
<1> DEFINE p == call.caller[1]
           o == calling[p].object
           d == call.dialog
<1>a. IInv /\ AnswersInv /\ FarewellInv /\ ErrandInv /\ BusTypes /\ ClientTypes
  BY Types DEF SteadyInv, IInv
<1>1. p \in Procs /\ call.caller = <<p, tries[p]>>
  <2>1. call.caller \in Procs \X (0..0) /\ p \in Procs /\ tries[p] = 0
    BY <1>a, CallTypes DEF IInv, TypeOK, Daemon!TypeOK, Daemon!Call, Callers, BusTypes
  <2>2. QED  BY <2>1
<1>2. calling[p].method = call.method /\ reply[p] = Silence
  BY <1>a, <1>1 DEF AnswersInv
<1>3. call.method \in Setters \cup {"run"} /\ ~RefusedIn(call.method, mode[d])
  <2>1. call.method \in DialogMethods /\ mode[d] \in SfcdState
    BY DaemonMethods, DaemonStates DEF Daemon!Perform
  <2>2. ~RefusedIn(call.method, mode[d])
    BY DaemonMethods
  <2>3. call.method \notin RunControls \cup Queries \cup UnrefusedQueries \cup {"set_extra_widget"}
    BY <2>1, DaemonMethods, OthersKeep
  <2>4. QED  BY <2>1, <2>2, <2>3 DEF DialogMethods, RunMethod, WidgetSetter, Unrefused
<1>4. mode[d] # RUNNING
  BY <1>3, ChangesRefused
<1>5. mode[d] \in SfcdState /\ d # NoDialog
  <2>1. call.method # "new"
    BY MethodKinds DEF Daemon!Perform
  <2>2. QED  BY <1>a, <2>1, DaemonStates DEF Daemon!Perform, IInv, AskedInv
<1>6. o # NoObject /\ d = remote_id[o] /\ Home[o] = p /\ refs[o] > 0 /\ o \in Objects
  BY <1>a, <1>1, <1>5 DEF ErrandInv, BusTypes
<1>7. o \in owned
  BY <1>a, <1>5, <1>6, States DEF FarewellInv
<1>8. o \notin awaiting
  BY <1>3 DEF ReportsInv
<1>9. ~Expecting(o)
  BY <1>2, <1>6, <1>8 DEF Expecting, Silence
<1>10. ASSUME NEW q \in Procs PROVE ~Says(mail[q], "response", d)
  <2>1. q = p /\ d \in Dialogs
    BY <1>1, <1>5, <1>a, CallTypes DEF Alone
  <2>2. instances[q][d] = o
    BY <1>a, <1>6, <1>7, <2>1 DEF FarewellInv
  <2>3. QED  BY <1>9, <2>1, <2>2 DEF ReportsInv
<1>11. QED  BY <1>1, <1>2, <1>3, <1>4, <1>6, <1>7, <1>10

(* A response that is expected stays so until it or a farewell is taken.   *)
LEMMA ExpectingStep ==
  ASSUME SteadyInv, MaxCrashes = 0, [Next]_vars,
         NEW o \in Objects, refs[o] > 0, Expecting(o), ~Expecting(o)'
  PROVE  \E p \in Procs, kind \in {"response", "destroy"} :
           Take(p, kind) /\ instances[p][Head(mail[p]).dialog] = o
<1> USE RemoteAssumption DEF RemoteAssumption
<1>a. IInv /\ AnswersInv /\ BusTypes
  BY Types DEF SteadyInv, IInv
<1>1. CASE o \in awaiting
  <2>1. o \notin awaiting'
    BY DEF Expecting
  <2>2. ASSUME NEW p \in Procs, NEW e \in Objects, EndNew(p, e) PROVE FALSE
    BY <1>1, <2>1, <2>2 DEF EndNew, Free
  <2>3. \E p \in Procs : OnResponse(p) \/ OnDestroy(p)
    BY <1>1, <2>1, <2>2, NoCrash, <1>a
       DEF Next, Process, Returns, Dispatch, Use, NobodyLeft, vars, clientVars, BeginNew, GiveUp,
           EndSetExtraWidget, EndRun, EndList, EndCall, EndFailed, OnStranger, OnOwner,
           TakeExtra, DropExtra, BeginCall, BeginSetExtraWidget, SetDestroyWithParent,
           ParentClosed, Serve, Users, Respond, Close, Restart
  <2>4. QED  BY <1>1, <2>1, <2>3 DEF OnResponse, OnDestroy
<1>2. CASE o \notin awaiting
  <2> DEFINE p == Home[o]
  <2>1. calling[p].method = "run" /\ calling[p].object = o /\ reply[p].result = "ok"
    BY <1>2 DEF Expecting
  <2>2. p \in Procs /\ calling[p] # NoCall /\ reply[p] # Silence
    BY <2>1 DEF NoCall, Silence
  <2>3. ~(calling'[p] = calling[p] /\ reply'[p] = reply[p])
    BY <2>1 DEF Expecting
  <2>4. PICK result : End(p, result) /\ calling'[p] = NoCall
    BY <1>a, <2>2, <2>3, ReplyStep DEF GiveUp
  <2>5. Returns(p) /\ result = "ok"
    BY <1>a, <2>1, <2>2, <2>4, ReturnStep DEF End
  <2>6. EndRun(p)
    BY <2>1, <2>5, RunIsNoGetter
       DEF Returns, EndNew, EndSetExtraWidget, EndList, EndCall, EndFailed, End
  <2>7. o \in awaiting'
    BY <2>1, <2>6 DEF EndRun
  <2>8. QED  BY <2>7 DEF Expecting
<1>3. QED  BY <1>1, <1>2

(* The mail of a process loses its head, or gets an item.                 *)
LEMMA PostStep ==
  ASSUME IInv, MaxCrashes = 0, [Next]_vars, NEW p \in Procs
  PROVE  /\ mail[p] \in Seq(Mail)
         /\ \/ mail'[p] = mail[p]
            \/ mail[p] # <<>> /\ mail'[p] = Tail(mail[p])
            \/ \E item \in Mail :
                 /\ mail'[p] = Append(mail[p], item)
                 /\ item.kind = "response" =>
                      item.state \in SfcdState /\ Respond(item.dialog, item.state)
<1> DEFINE Goal ==
      \/ mail'[p] = mail[p]
      \/ mail[p] # <<>> /\ mail'[p] = Tail(mail[p])
      \/ \E item \in Mail :
           /\ mail'[p] = Append(mail[p], item)
           /\ item.kind = "response" =>
                item.state \in SfcdState /\ Respond(item.dialog, item.state)
<1>a. MailTypes /\ DaemonTypes
  BY Types DEF IInv
<1>1. ASSUME NEW q \in Procs, NEW kind, Take(q, kind) PROVE Goal
  BY <1>a, <1>1, Taken
<1>2. ASSUME NEW item \in Mail, Broadcast(item), item.kind # "response" PROVE Goal
  <2>1. mail'[p] \in {mail[p], Append(mail[p], item)}
    BY <1>a, <1>2, Sent
  <2>2. QED  BY <1>2, <2>1
<1>3. ASSUME NEW call \in asked, Serve(call) PROVE Goal
  <2>1. CASE Daemon!Destroy(call) /\ Farewell(call.dialog)
    <3>1. call.dialog \in Dialogs
      BY <1>a, <2>1, CallTypes DEF Daemon!Destroy, IInv, AskedInv
    <3>2. PICK item \in Mail : item.kind = "destroy" /\ Broadcast(item)
      BY <2>1, <3>1, LettersTypes DEF Farewell
    <3>3. QED  BY <1>2, <3>2
  <2>2. QED  BY <1>3, <2>1 DEF Serve
<1>4. ASSUME NEW d \in Dialogs, Close(d) PROVE Goal
  <2>1. PICK item \in Mail : item.kind = "destroy" /\ Broadcast(item)
    BY <1>4, LettersTypes DEF Close, Farewell
  <2>2. QED  BY <1>2, <2>1
<1>5. ASSUME NEW d \in Dialogs, NEW verdict \in SfcdState, Respond(d, verdict) PROVE Goal
  <2>1. PICK item \in Mail : item.dialog = d /\ item.state = verdict /\ Broadcast(item)
    BY <1>5, LettersTypes DEF Respond, Report
  <2>2. mail'[p] \in {mail[p], Append(mail[p], item)}
    BY <1>a, <2>1, Sent
  <2>3. Respond(item.dialog, item.state)
    BY <1>5, <2>1
  <2>4. QED  BY <2>1, <2>2, <2>3
<1>6. ~Restart \/ Goal
  <2>1. SUFFICES ASSUME Restart PROVE Goal
    OBVIOUS
  <2>2. PICK item \in Mail : item.kind = "owner" /\ Broadcast(item)
    BY <1>a, <2>1, LettersTypes DEF Restart, News, DaemonTypes
  <2>3. QED  BY <1>2, <2>2
<1>7. ASSUME NEW q \in Procs, Process(q) PROVE Goal
  <2>1. CASE Dispatch(q)
    <3>1. \E kind : Take(q, kind)
      BY <2>1, DispatchTakes
    <3>2. QED  BY <1>1, <3>1
  <2>2. CASE ~Dispatch(q)
    BY <1>7, <2>2, ReturnsEnd DEF Process, BeginNew, GiveUp, End
  <2>3. QED  BY <2>1, <2>2
<1>8. ASSUME NEW o \in Objects, Use(o) PROVE mail' = mail
  BY <1>8
     DEF Use, TakeExtra, DropExtra, BeginCall, BeginSetExtraWidget, SetDestroyWithParent,
         ParentClosed
<1>9. ASSUME NEW d \in Dialogs, Users(d) PROVE Goal
  BY <1>4, <1>5, <1>9 DEF Users
<1>10. Goal
  BY <1>3, <1>6, <1>7, <1>8, <1>9, NoCrash DEF Next, NobodyLeft, vars
<1>11. QED  BY <1>a, <1>10 DEF MailTypes

(* One report on a dialog waits at a time, and it tells the state.         *)
LEMMA OnceStep ==
  ASSUME Alone, SteadyInv, ReportsInv, [Next]_vars, NEW p \in Procs
  PROVE  /\ ReportOnce(mail'[p])
         /\ \A item \in ToSet(mail'[p]) :
              /\ item \in Mail
              /\ item.kind = "response" =>
                   item \in ToSet(mail[p]) \/ Respond(item.dialog, item.state)
         /\ \A d \in Dialogs : Says(mail'[p], "response", d) =>
              Says(mail[p], "response", d) \/ \E verdict : Respond(d, verdict)
<1>a. MaxCrashes = 0 /\ IInv /\ ReportOnce(mail[p]) /\ mail[p] \in Seq(Mail)
      /\ \A item \in ToSet(mail[p]) : item \in Mail
  BY Types DEF Alone, SteadyInv, IInv, ReportsInv, MailTypes, ToSet
<1>1. CASE mail'[p] = mail[p]
  BY <1>a, <1>1
<1>2. CASE mail[p] # <<>> /\ mail'[p] = Tail(mail[p])
  <2>1. \A item \in ToSet(Tail(mail[p])) : item \in ToSet(mail[p])
    BY <1>a, <1>2 DEF ToSet
  <2>2. QED  BY <1>a, <1>2, <2>1, OnceTail, SaysTail
<1>3. ASSUME NEW item \in Mail, mail'[p] = Append(mail[p], item),
             item.kind = "response" =>
               item.state \in SfcdState /\ Respond(item.dialog, item.state)
      PROVE  /\ ReportOnce(mail'[p])
             /\ \A e \in ToSet(mail'[p]) :
                  /\ e \in Mail
                  /\ e.kind = "response" =>
                       e \in ToSet(mail[p]) \/ Respond(e.dialog, e.state)
             /\ \A d \in Dialogs : Says(mail'[p], "response", d) =>
                  Says(mail[p], "response", d) \/ \E verdict : Respond(d, verdict)
  <2>1. item.kind = "response" => ~Says(mail[p], "response", item.dialog)
    <3>1. item.kind = "response" => item.dialog \in Dialogs /\ mode[item.dialog] = RUNNING
      BY <1>3, LettersTypes, DaemonStates DEF Respond, Daemon!Respond
    <3>2. QED  BY <3>1 DEF ReportsInv
  <2>2. ReportOnce(Append(mail[p], item))
    BY <1>a, <2>1, OnceAppend
  <2>3. \A e \in ToSet(Append(mail[p], item)) : e \in ToSet(mail[p]) \/ e = item
    BY <1>a DEF ToSet
  <2>4. \A d : Says(Append(mail[p], item), "response", d) =>
          Says(mail[p], "response", d) \/ (item.kind = "response" /\ item.dialog = d)
    BY <1>a, SaysAppend
  <2>5. \A d \in Dialogs : Says(mail'[p], "response", d) =>
          Says(mail[p], "response", d) \/ \E verdict : Respond(d, verdict)
    BY <1>3, <2>4
  <2>6. \A e \in ToSet(mail'[p]) :
          /\ e \in Mail
          /\ e.kind = "response" => e \in ToSet(mail[p]) \/ Respond(e.dialog, e.state)
    BY <1>a, <1>3, <2>3
  <2>7. QED  BY <1>3, <2>2, <2>5, <2>6
<1>4. QED
  BY <1>a, <1>1, <1>2, <1>3, PostStep

LEMMA RespondEffect ==
  ASSUME IInv, NEW d \in Dialogs, NEW verdict, Respond(d, verdict)
  PROVE  mode[d] = RUNNING /\ mode'[d] = verdict /\ verdict # RUNNING
         /\ UNCHANGED <<objectVars, busVars, clientVars>>
BY States, DaemonStates
   DEF IInv, TypeOK, Daemon!TypeOK, Respond, Daemon!Respond, Daemon!Signal

(* No report is overtaken by a method: ...                                 *)
LEMMA NotOvertaken ==
  ASSUME Alone, MaxTimeouts = 0, SteadyInv, AloneInv, ReportsInv, [Next]_vars,
         NEW p \in Procs, NEW d \in Dialogs, Says(mail[p], "response", d),
         mode'[d] # mode[d]
  PROVE  mode'[d] = "gone"
<1>a. IInv /\ IdsInv /\ MaxCrashes = 0 /\ mode[d] # RUNNING
  BY DEF SteadyInv, Alone, ReportsInv
<1>1. mode[d] # "unborn"
  <2>1. instances[p][d] # NoObject
    BY DEF AloneInv, Mentions
  <2>2. QED  BY <1>a, <2>1, Listed DEF IdsInv
<1>2. ~\E verdict \in SfcdState : Respond(d, verdict)
  BY <1>a, RespondEffect
<1>3. ASSUME NEW call \in asked, Daemon!Perform(call), call.dialog = d,
             mode'[d] = Daemon!After(call.method, mode[d])
      PROVE  FALSE
  BY <1>3, PatientPerform
<1>4. QED  BY <1>a, <1>1, <1>2, <1>3, ModeChange

LEMMA CurrentStep ==
  ASSUME Alone, MaxTimeouts = 0, SteadyInv, AloneInv, ReportsInv, [Next]_vars
  PROVE  ReportsAreCurrent'
<1> SUFFICES ASSUME NEW p \in Procs, NEW item \in ToSet(mail'[p]), item.kind = "response"
             PROVE  mode'[item.dialog] \in {item.state, "gone"}
  BY DEF ReportsAreCurrent
<1>a. IInv /\ MailTypes /\ MaxCrashes = 0
  BY Types DEF SteadyInv, IInv, Alone
<1>1. item.dialog \in Dialogs
  BY OnceStep, LettersTypes
<1>2. CASE item \in ToSet(mail[p])
  <2>1. mode[item.dialog] \in {item.state, "gone"}
    BY <1>2 DEF ReportsInv, ReportsAreCurrent
  <2>2. Says(mail[p], "response", item.dialog)
    BY <1>a, <1>2 DEF Says, ToSet, MailTypes
  <2>3. QED  BY <1>1, <2>1, <2>2, NotOvertaken
<1>3. CASE Respond(item.dialog, item.state)
  BY <1>a, <1>1, <1>3, RespondEffect
<1>4. QED  BY <1>2, <1>3, OnceStep

(* ... it is for an instance that expects it, whose dialog runs no more, ..*)
LEMMA ExpectedStep ==
  ASSUME Alone, MaxTimeouts = 0, SteadyInv, AloneInv, ReportsInv, [Next]_vars,
         NEW p \in Procs, NEW d \in Dialogs, Says(mail'[p], "response", d)
  PROVE  mode'[d] # RUNNING /\ Expecting(instances[p][d])'
<1>a. IInv /\ FarewellInv /\ MailInv /\ MailTypes /\ ClientTypes /\ MaxCrashes = 0
      /\ ReportOnce(mail[p])
  BY Types DEF SteadyInv, IInv, Alone, ReportsInv
<1>1. PICK o \in owned :
        /\ o \in Objects /\ Home[o] = p
        /\ remote_id[o] = d /\ instances[p][d] = o /\ instances'[p][d] = o
  BY SpokenOf DEF Mentions
<1>2. CASE Says(mail[p], "response", d)
  <2>1. mode[d] # RUNNING /\ Expecting(o)
    BY <1>1, <1>2 DEF ReportsInv
  <2>2. mode'[d] # RUNNING
    BY <1>2, <2>1, NotOvertaken DEF RUNNING
  <2>3. ASSUME ~Expecting(o)' PROVE FALSE
    <3>1. PICK q \in Procs, kind \in {"response", "destroy"} :
            Take(q, kind) /\ instances[q][Head(mail[q]).dialog] = o
      BY <1>a, <1>1, <2>1, <2>3, ExpectingStep DEF FarewellInv
    <3>2. q = p
      BY DEF Alone
    <3>3. Head(mail[p]).dialog = d
      <4>1. Head(mail[p]).dialog \in Dialogs
        BY <1>a, <3>1, <3>2, TakeTypes, LettersTypes
      <4>2. o # NoObject
        BY <1>1, RemoteAssumption DEF RemoteAssumption
      <4>3. QED  BY <1>a, <1>1, <3>1, <3>2, <4>1, <4>2, Listed
    <3>4. ~Says(Tail(mail[p]), "response", d)
      BY <1>a, <3>1, <3>2, <3>3, Taken, OnceTail, FarewellTail DEF MailInv, Mentions
    <3>5. QED  BY <1>a, <3>1, <3>2, <3>4, Taken
  <2>4. QED  BY <1>1, <2>2, <2>3 DEF Expecting
<1>3. ASSUME NEW verdict, Respond(d, verdict)
      PROVE  mode'[d] # RUNNING /\ Expecting(instances[p][d])'
  <2>1. /\ mode[d] = RUNNING /\ mode'[d] # RUNNING
        /\ UNCHANGED <<calling, reply, awaiting>>
    BY <1>a, <1>3, RespondEffect DEF busVars, clientVars
  <2>2. PICK e \in owned : remote_id[e] = d /\ Expecting(e)
    BY <2>1 DEF ReportsInv
  <2>3. Home[e] = p
    BY <1>a, RemoteAssumption DEF Alone, ClientTypes, RemoteAssumption
  <2>4. e = o
    BY <1>a, <1>1, <2>2, <2>3 DEF FarewellInv
  <2>5. Expecting(o)'
    BY <2>1, <2>2, <2>4 DEF Expecting
  <2>6. QED  BY <1>1, <2>1, <2>5 DEF Expecting
<1>4. QED  BY <1>2, <1>3, OnceStep

(* ... and a dialog that runs does so for one that expects the end.        *)
LEMMA RunningStep ==
  ASSUME Alone, MaxTimeouts = 0, SteadyInv, AloneInv, ReportsInv, [Next]_vars,
         NEW d \in Dialogs, mode'[d] = RUNNING
  PROVE  \E o \in owned' : remote_id'[o] = d /\ Expecting(o)'
<1>a. IInv /\ MailInv /\ FarewellInv /\ AnswersInv /\ BusTypes /\ MailTypes /\ ClientTypes
      /\ MaxCrashes = 0 /\ RUNNING # "gone"
  BY Types DEF SteadyInv, IInv, Alone, RUNNING
<1>1. CASE mode[d] = RUNNING
  <2>1. PICK o \in owned : remote_id[o] = d /\ Expecting(o)
    BY <1>1 DEF ReportsInv
  <2>2. o \in Objects /\ refs[o] > 0 /\ o \in owned' /\ remote_id'[o] = d
    BY <1>a, <1>1, <2>1, OwnedStep DEF FarewellInv, ClientTypes
  <2>3. ASSUME ~Expecting(o)' PROVE FALSE
    <3>1. PICK p \in Procs, kind \in {"response", "destroy"} :
            Take(p, kind) /\ instances[p][Head(mail[p]).dialog] = o
      BY <1>a, <2>1, <2>2, <2>3, ExpectingStep
    <3>2. Head(mail[p]).dialog = d
      <4>1. Head(mail[p]).dialog \in Dialogs
        BY <1>a, <3>1, TakeTypes, LettersTypes
      <4>2. o # NoObject
        BY <2>2, RemoteAssumption DEF RemoteAssumption
      <4>3. QED  BY <1>a, <2>1, <3>1, <4>1, <4>2, Listed
    <3>3. Says(mail[p], kind, d)
      BY <1>a, <3>1, <3>2, Taken
    <3>4. QED  BY <1>a, <1>1, <3>3 DEF ReportsInv, MailInv
  <2>4. QED  BY <2>2, <2>3
<1>2. CASE mode[d] # RUNNING
  <2>1. mode[d] # "unborn"
    <3>1. ASSUME mode[d] = "unborn" PROVE FALSE
      <4>1. PICK call \in asked : Daemon!Create(call, d)
        BY <1>a, <3>1, States, BornStep
      <4>2. QED
        BY <1>a, <4>1, States, DaemonStates DEF Daemon!Create, IInv, TypeOK, Daemon!TypeOK
    <3>2. QED  BY <3>1
  <2>2. ~\E verdict \in SfcdState : Respond(d, verdict)
    BY <1>a, <1>2, RespondEffect
  <2>3. PICK call \in asked : /\ Serve(call) /\ Daemon!Perform(call) /\ call.dialog = d
                              /\ RUNNING = Daemon!After(call.method, mode[d])
    BY <1>a, <1>2, <2>1, <2>2, ModeChange
  <2> DEFINE p == call.caller[1]
  <2>4. PICK o \in owned :
          /\ call.caller = <<p, tries[p]>> /\ calling[p].method = call.method
          /\ call.method \in Setters \cup {"run"} /\ ~RefusedIn(call.method, mode[d])
          /\ o = calling[p].object /\ Home[o] = p /\ remote_id[o] = d
    BY <1>2, <2>3, PatientPerform
  <2>5. call.method = "run"
    <3>1. mode[d] \in SfcdState
      BY <2>3, DaemonStates DEF Daemon!Perform
    <3>2. RUNNING = LeftBy(call.method, mode[d])
      BY <2>3, <2>4, DaemonMethods
    <3>3. QED  BY <2>4, <3>1, <3>2, SettersConfigure, States
  <2>p. p \in Procs
    BY <1>a, CallTypes
  <2>6. Tell(call, "ok", NoDialog)
    <3>1. ~Daemon!Fail(call) /\ ~Daemon!Destroy(call) /\ \A e \in Dialogs : ~Daemon!Create(call, e)
      BY <2>3, <2>5, DaemonStates
         DEF Daemon!Perform, Daemon!Fail, Daemon!Destroy, Daemon!Create
    <3>2. ~Refused(call) /\ call.method \notin ShortcutSetters
      BY <2>3, <2>4, <2>5, RunIsNoGetter DEF Refused
    <3>3. QED  BY <2>3, <3>1, <3>2 DEF Serve
  <2>7. call.caller[2] = tries[p]
    BY <2>4
  <2>8. reply'[p].result = "ok"
    BY <1>a, <2>p, <2>6, <2>7 DEF Tell, BusTypes
  <2>9. UNCHANGED <<calling, owned, remote_id>>
    BY <2>3 DEF Serve, objectVars, clientVars
  <2>10. Expecting(o)'
    BY <2>4, <2>5, <2>8, <2>9 DEF Expecting
  <2>11. QED  BY <2>4, <2>9, <2>10
<1>3. QED  BY <1>1, <1>2

(* A process that waits for the end of a run begins no method that changes *)
(* the dialog.                                                             *)
LEMMA PatienceStep ==
  ASSUME Alone, MaxTimeouts = 0, "eager" \notin ClientMay, SteadyInv, ReportsInv, [Next]_vars,
         NEW call \in asked', call.method \in Setters \cup {"run"}
  PROVE  calling'[call.caller[1]].object \notin awaiting'
<1> USE RemoteAssumption DEF RemoteAssumption
<1> DEFINE p == call.caller[1]
<1>a. IInv /\ AnswersInv /\ BusTypes /\ ClientTypes /\ MaxCrashes = 0
      /\ awaiting' \subseteq Objects
  BY Types, TypeStep DEF SteadyInv, IInv, Alone, TypeOK, ClientTypes
<1>b. p \in Procs /\ call.caller = <<p, tries[p]>>
  <2>1. DaemonTypes'
    BY <1>a, TypeStep, Types, PTL
  <2>2. call.caller \in Procs \X (0..0)
    BY <2>1 DEF DaemonTypes, Daemon!TypeOK, Daemon!Call, Callers
  <2>3. p \in Procs /\ call.caller = <<p, 0>>
    BY <2>2
  <2>4. tries[p] = 0
    BY <1>a, <2>3 DEF BusTypes
  <2>5. QED  BY <2>3, <2>4
<1> HIDE DEF p
<1>1. CASE calling'[p] = NoCall
  BY <1>a, <1>1 DEF NoCall, p
<1>2. ASSUME NEW m, NEW o, NEW d, Idle(p), Begin(p, m, o, d), awaiting' = awaiting,
             m \in Setters \cup {"run"} => o \notin awaiting
      PROVE  calling'[p].object \notin awaiting'
  <2>1. call \notin asked
    BY <1>a, <1>b, <1>2, CallTypes DEF Idle, AnswersInv, NoCall
  <2>2. call.method = m
    BY <1>2, <2>1 DEF Begin, Daemon!Ask
  <2>3. calling'[p].object = o
    BY <1>a, <1>b, <1>2 DEF Begin, BusTypes
  <2>4. QED  BY <1>2, <2>2, <2>3
<1>3. CASE UNCHANGED calling /\ asked' \subseteq asked /\ awaiting' \subseteq awaiting
  BY <1>3 DEF ReportsInv, p
<1>4. ASSUME NEW q \in Procs, Process(q) PROVE calling'[p].object \notin awaiting'
  <2>1. q = p
    BY <1>b DEF Alone
  <2>2. CASE BeginNew(p)
    BY <1>a, <1>2, <2>2 DEF BeginNew, clientVars, ClientTypes
  <2>3. CASE Returns(p)
    <3>1. \E result : End(p, result)
      BY <2>3, ReturnsEnd
    <3>2. QED  BY <1>a, <1>b, <1>1, <3>1 DEF End, BusTypes, p
  <2>4. CASE Dispatch(p)
    BY <1>3, <2>4
       DEF Dispatch, OnStranger, OnResponse, OnDestroy, OnOwner, busVars, daemonVars, clientVars, p
  <2>5. CASE GiveUp(p)
    BY <1>3, <2>5 DEF GiveUp, daemonVars, clientVars, p
  <2>6. QED  BY <1>4, <2>1, <2>2, <2>3, <2>4, <2>5 DEF Process
<1>5. ASSUME NEW o \in Objects, Use(o) PROVE calling'[p].object \notin awaiting'
  <2>1. Home[o] = p
    BY <1>b DEF Alone
  <2>2. ~BeginSetExtraWidget(o)
    BY DEF BeginSetExtraWidget, Alone
  <2>3. CASE ParentClosed(o)
    <3>1. CASE o \in withParent
      BY <1>2, <2>1, <2>3, <3>1, RunIsNoGetter DEF ParentClosed, clientVars
    <3>2. CASE o \notin withParent
      BY <1>3, <2>3, <3>2 DEF ParentClosed, busVars, daemonVars, clientVars, p
    <3>3. QED  BY <3>1, <3>2
  <2>4. ASSUME NEW m \in Calls, BeginCall(o, m) PROVE calling'[p].object \notin awaiting'
    BY <1>2, <2>1, <2>4 DEF BeginCall, Usable, Patient, clientVars
  <2>5. CASE TakeExtra(o) \/ DropExtra(o) \/ \E b \in BOOLEAN : SetDestroyWithParent(o, b)
    BY <1>3, <2>5
       DEF TakeExtra, DropExtra, SetDestroyWithParent, busVars, daemonVars, clientVars, p
  <2>6. QED  BY <1>5, <2>2, <2>3, <2>4, <2>5 DEF Use
<1>6. ASSUME NEW other \in asked, Serve(other) PROVE calling'[p].object \notin awaiting'
  BY <1>3, <1>6
     DEF Serve, Daemon!Create, Daemon!Fail, Daemon!Perform, Daemon!Destroy, clientVars, p
<1>7. QED
  BY <1>3, <1>4, <1>5, <1>6, <1>a, NoCrash
     DEF Next, NobodyLeft, vars, busVars, daemonVars, clientVars, Users, Respond, Close,
         Daemon!Respond, Daemon!Close, Restart, p

(* The invariant of its reports, if the application waits for them.        *)
THEOREM ReportsInvariance ==
  ASSUME Alone, MaxTimeouts = 0, "eager" \notin ClientMay
  PROVE  Spec => []ReportsInv
<1>1. Init => ReportsInv
  <2> SUFFICES ASSUME Init PROVE ReportsInv
    OBVIOUS
  <2>1. ReportsAreCurrent
    BY DEF Init, ReportsAreCurrent, ToSet
  <2>2. \A p \in Procs : \A d : ~Says(mail[p], "response", d)
    BY SaysInit DEF Init
  <2>3. \A p \in Procs : ReportOnce(mail[p])
    BY DEF Init, ReportOnce
  <2>4. QED
    BY <2>1, <2>2, <2>3 DEF Init, Daemon!Init, ReportsInv, RUNNING
<1>2. SteadyInv /\ AloneInv /\ ReportsInv /\ [Next]_vars => ReportsInv'
  <2> SUFFICES ASSUME SteadyInv, AloneInv, ReportsInv, [Next]_vars PROVE ReportsInv'
    OBVIOUS
  <2>1. \A p \in Procs : ReportOnce(mail'[p])
    BY OnceStep
  <2>2. ReportsAreCurrent'
    BY CurrentStep
  <2>3. \A p \in Procs, d \in Dialogs :
          Says(mail'[p], "response", d) => mode'[d] # RUNNING /\ Expecting(instances[p][d])'
    BY ExpectedStep
  <2>4. \A d \in Dialogs : mode'[d] = RUNNING =>
          \E o \in owned' : remote_id'[o] = d /\ Expecting(o)'
    BY RunningStep
  <2>5. \A call \in asked' : call.method \in Setters \cup {"run"} =>
          calling'[call.caller[1]].object \notin awaiting'
    BY PatienceStep
  <2>6. QED  BY <2>1, <2>2, <2>3, <2>4, <2>5 DEF ReportsInv
<1>3. Spec => []SteadyInv
  BY SteadyInvariance DEF Alone
<1>4. QED  BY <1>1, <1>2, <1>3, AloneInvariance, PTL DEF Spec

(* "the state of the dialog after running": a response that a process which*)
(* has the daemon for itself hears tells the state that the dialog still   *)
(* is in, unless it is gone, if its application waits for the response     *)
(* before it configures or runs the dialog again, and the daemon answers   *)
(* in time (_rfcd_class_on_response, the response signal).                 *)
THEOREM ReportsTellTheState ==
  ASSUME Alone, MaxTimeouts = 0, "eager" \notin ClientMay
  PROVE  Spec => []ReportsAreCurrent
BY ReportsInvariance, PTL DEF ReportsInv
=============================================================================
