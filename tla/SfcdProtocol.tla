---------------------------- MODULE SfcdProtocol ----------------------------
(***************************************************************************)
(* What a SandboxFileChooserDialog promises its user and its application   *)
(* (the section on SfcdState in lib/sandboxfilechooserdialog.c).  A dialog *)
(* offers a content: the files it has selected and its options.  The       *)
(* application edits the content while the dialog does not run, the user   *)
(* edits it while it does, and only a run that the user accepts makes the  *)
(* content available to the application.                                   *)
(***************************************************************************)
EXTENDS SfcdMethods

CONSTANTS Dialogs, Contents, Blank

VARIABLES
  mode,      \* mode[d]: the SfcdState of d, or "absent"
  content,   \* content[d]: what d would give its application
  presented, \* presented[d]: the content of d as its user last saw it
  agreed     \* agreed[d]: the latest word of the user of a running d is yes

vars == <<mode, content, presented, agreed>>

Modes == SfcdState \cup {"absent"}

Init ==
  /\ mode = [d \in Dialogs |-> "absent"]
  /\ content = [d \in Dialogs |-> Blank]
  /\ presented = [d \in Dialogs |-> Blank]
  /\ agreed = [d \in Dialogs |-> FALSE]

Create(d) ==
  /\ mode[d] = "absent"
  /\ mode' = [mode EXCEPT ![d] = CONFIGURATION]
  /\ content' = [content EXCEPT ![d] = Blank]
  /\ presented' = [presented EXCEPT ![d] = Blank]
  /\ UNCHANGED agreed

(* The application edits the content: what the user accepted is void.      *)
Configure(d, c) ==
  /\ mode[d] \in {CONFIGURATION, DATA_RETRIEVAL}
  /\ mode' = [mode EXCEPT ![d] = CONFIGURATION]
  /\ content' = [content EXCEPT ![d] = c]
  /\ UNCHANGED <<presented, agreed>>

(* The content is put before the user ...                                  *)
Start(d) ==
  /\ mode[d] \in {CONFIGURATION, DATA_RETRIEVAL}
  /\ mode' = [mode EXCEPT ![d] = RUNNING]
  /\ presented' = [presented EXCEPT ![d] = content[d]]
  /\ UNCHANGED <<content, agreed>>

(* ... who alone edits it from there on ...                                *)
UserEdit(d, c) ==
  /\ mode[d] = RUNNING
  /\ content' = [content EXCEPT ![d] = c]
  /\ presented' = [presented EXCEPT ![d] = c]
  /\ UNCHANGED <<mode, agreed>>

(* ... and accepts or declines it, ...                                     *)
UserDecides(d, yes) ==
  /\ mode[d] = RUNNING
  /\ agreed' = [agreed EXCEPT ![d] = yes]
  /\ UNCHANGED <<mode, content, presented>>

(* ... which decides whether the application gets to it.                   *)
Finish(d) ==
  /\ mode[d] = RUNNING
  /\ mode' = [mode EXCEPT ![d] = IF agreed[d] THEN DATA_RETRIEVAL ELSE CONFIGURATION]
  /\ agreed' = [agreed EXCEPT ![d] = FALSE]
  /\ UNCHANGED <<content, presented>>

Vanish(d) ==
  /\ mode[d] # "absent"
  /\ mode' = [mode EXCEPT ![d] = "absent"]
  /\ agreed' = [agreed EXCEPT ![d] = FALSE]
  /\ UNCHANGED <<content, presented>>

Next ==
  \E d \in Dialogs :
    \/ Create(d) \/ Start(d) \/ Finish(d) \/ Vanish(d)
    \/ \E c \in Contents : Configure(d, c) \/ UserEdit(d, c)
    \/ \E yes \in BOOLEAN : UserDecides(d, yes)

Spec == Init /\ [][Next]_vars
=============================================================================
