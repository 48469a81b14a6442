------------------------- MODULE SfcdMethodsProofs -------------------------
(***************************************************************************)
(* What the groups of SfcdMethods say, method by method: the facts about   *)
(* refusals and states left on which the proofs of the components rest.    *)
(***************************************************************************)
EXTENDS SfcdMethods, TLAPS

USE DEF Setter, Getter, Listing, Retrieval, Unrefused, StateQuery, RunMethod, RunControl,
        WidgetSetter, WidgetQuery, FilenameSelectors, WholeSelectors, UriSelectors,
        NameSetters, LocationSetters, Option, ActionOption, LocalOnlyOption,
        SelectMultipleOption, ShowHiddenOption, OverwriteOption, CreateFoldersOption,
        ShortcutEditors, ShortcutList, ShortcutUriEditors, ShortcutUriList,
        FilenameRetrievals, FolderQuery, UriRetrievals, FolderUriQuery

-----------------------------------------------------------------------------
(* A method is in one group, and the groups of a kind are of one form.     *)

(* Every setter of lib/localfilechooserdialog.c tests sfcd_is_running and  *)
(* assigns SFCD_CONFIGURATION.                                             *)
LEMMA SetterGroup ==
  ASSUME NEW m \in Setters, NEW g \in Groups, m \in g.methods
  PROVE  g.refused = {RUNNING} /\ g.leaves = Becomes(CONFIGURATION)
<1>1. CASE m \in SelectionSetters  BY <1>1 DEF SelectionSetters, Groups
<1>2. CASE m \in OptionSetters     BY <1>2 DEF OptionSetters, Groups
<1>3. CASE m \in ShortcutSetters   BY <1>3 DEF ShortcutSetters, Groups
<1>4. QED  BY <1>1, <1>2, <1>3 DEF Setters

(* lfcd_run tests the same, and assigns SFCD_RUNNING.                      *)
LEMMA RunGroup ==
  ASSUME NEW g \in Groups, "run" \in g.methods
  PROVE  g.refused = {RUNNING} /\ g.leaves = Becomes(RUNNING)
BY DEF Groups

(* lfcd_present and lfcd_cancel_run test the opposite.                     *)
LEMMA ControlGroup ==
  ASSUME NEW m \in RunControls, NEW g \in Groups, m \in g.methods
  PROVE  g.refused = {CONFIGURATION, DATA_RETRIEVAL} /\ g.leaves = Keeps
BY DEF RunControls, Groups

(* No query assigns the state.                                             *)
LEMMA QueryGroup ==
  ASSUME NEW m \in Queries \cup UnrefusedQueries \cup {"set_extra_widget"},
         NEW g \in Groups, m \in g.methods
  PROVE  g.leaves = Keeps
<1>1. CASE m \in OptionGetters  BY <1>1 DEF OptionGetters, Groups
<1>2. CASE m \in ShortcutLists \cup FolderQueries
  BY <1>2 DEF ShortcutLists, FolderQueries, Groups
<1>3. CASE m \in Retrievals  BY <1>3 DEF Retrievals, Groups
<1>4. CASE m \in UnrefusedQueries \cup {"set_extra_widget"}
  BY <1>4 DEF UnrefusedQueries, Groups
<1>5. QED  BY <1>1, <1>2, <1>3, <1>4 DEF Queries

LEMMA HasGroup ==
  ASSUME NEW m \in DialogMethods
  PROVE  \E g \in Groups : m \in g.methods
<1>1. CASE m \in SelectionSetters  BY <1>1 DEF SelectionSetters, Groups
<1>2. CASE m \in OptionSetters     BY <1>2 DEF OptionSetters, Groups
<1>3. CASE m \in ShortcutSetters   BY <1>3 DEF ShortcutSetters, Groups
<1>4. CASE m \in OptionGetters     BY <1>4 DEF OptionGetters, Groups
<1>5. CASE m \in ShortcutLists \cup FolderQueries
  BY <1>5 DEF ShortcutLists, FolderQueries, Groups
<1>6. CASE m \in Retrievals        BY <1>6 DEF Retrievals, Groups
<1>7. CASE m \in RunControls \cup UnrefusedQueries \cup {"run", "set_extra_widget"}
  BY <1>7 DEF RunControls, UnrefusedQueries, Groups
<1>8. QED
  BY <1>1, <1>2, <1>3, <1>4, <1>5, <1>6, <1>7 DEF DialogMethods, Setters, Queries

(* The methods that change the state are none of the others.               *)
LEMMA SettersApart ==
  ASSUME NEW m \in Setters
  PROVE  m \notin RunControls \cup UnrefusedQueries
                  \cup {"run", "set_extra_widget", "new", "destroy", "none", "end_run"}
<1>1. CASE m \in SelectionSetters  BY <1>1 DEF SelectionSetters, RunControls, UnrefusedQueries
<1>2. CASE m \in OptionSetters     BY <1>2 DEF OptionSetters, RunControls, UnrefusedQueries
<1>3. CASE m \in ShortcutSetters   BY <1>3 DEF ShortcutSetters, RunControls, UnrefusedQueries
<1>4. QED  BY <1>1, <1>2, <1>3 DEF Setters

LEMMA QueriesApart ==
  ASSUME NEW m \in Queries
  PROVE  m \notin {"run", "new", "destroy", "none", "end_run"}
BY DEF Queries, OptionGetters, ShortcutLists, FolderQueries, Retrievals

LEMMA OthersApart ==
  ASSUME NEW m \in RunControls \cup UnrefusedQueries
  PROVE  m \notin {"run", "new", "destroy", "none", "end_run"}
BY DEF RunControls, UnrefusedQueries

-----------------------------------------------------------------------------
(* The methods that change the state are refused while the dialog runs ... *)
LEMMA ChangesRefused ==
  ASSUME NEW m \in Setters \cup {"run"}, NEW s
  PROVE  RefusedIn(m, s) <=> s = RUNNING
<1>1. PICK g \in Groups : m \in g.methods
  BY HasGroup DEF DialogMethods
<1>2. \A h \in Groups : m \in h.methods => h.refused = {RUNNING}
  BY SetterGroup, RunGroup
<1>3. QED  BY <1>1, <1>2 DEF RefusedIn

(* ... and present and cancel_run unless it does.                          *)
LEMMA ControlsRefused ==
  ASSUME NEW m \in RunControls, NEW s \in SfcdState
  PROVE  RefusedIn(m, s) <=> s # RUNNING
<1>1. PICK g \in Groups : m \in g.methods
  BY HasGroup DEF DialogMethods
<1>2. \A h \in Groups : m \in h.methods => h.refused = {CONFIGURATION, DATA_RETRIEVAL}
  BY ControlGroup
<1>3. QED  BY <1>1, <1>2 DEF RefusedIn, SfcdState, CONFIGURATION, RUNNING, DATA_RETRIEVAL

(* What a method leaves.                                                   *)
LEMMA SettersConfigure ==
  ASSUME NEW m \in Setters, NEW s \in SfcdState
  PROVE  LeftBy(m, s) = CONFIGURATION
<1>1. \E g \in Groups : m \in g.methods  BY HasGroup DEF DialogMethods
<1>2. GroupOf(m).leaves = Becomes(CONFIGURATION)  BY <1>1, SetterGroup DEF GroupOf
<1>3. QED  BY <1>2 DEF LeftBy, Becomes

LEMMA RunRuns ==
  ASSUME NEW s \in SfcdState
  PROVE  LeftBy("run", s) = RUNNING
<1>1. \E g \in Groups : "run" \in g.methods  BY HasGroup DEF DialogMethods
<1>2. GroupOf("run").leaves = Becomes(RUNNING)  BY <1>1, RunGroup DEF GroupOf
<1>3. QED  BY <1>2 DEF LeftBy, Becomes

LEMMA OthersKeep ==
  ASSUME NEW m \in RunControls \cup Queries \cup UnrefusedQueries \cup {"set_extra_widget"},
         NEW s \in SfcdState
  PROVE  LeftBy(m, s) = s
<1>1. \E g \in Groups : m \in g.methods  BY HasGroup DEF DialogMethods
<1>2. GroupOf(m).leaves = Keeps  BY <1>1, ControlGroup, QueryGroup DEF GroupOf
<1>3. QED  BY <1>2 DEF LeftBy, Keeps

(* The answers to refused methods are error codes.                         *)
LEMMA RefusalCodes ==
  ASSUME NEW m, NEW s, RefusedIn(m, s)
  PROVE  RefusalCode(m) \in ErrorCodes
<1>1. \E g \in Groups : m \in g.methods  BY DEF RefusedIn
<1>2. GroupOf(m) \in Groups  BY <1>1 DEF GroupOf
<1>3. \A g \in Groups : g.code \in ErrorCodes  BY DEF Groups, ErrorCodes
<1>4. QED  BY <1>2, <1>3 DEF RefusalCode
=============================================================================
