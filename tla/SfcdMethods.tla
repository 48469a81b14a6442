---------------------------- MODULE SfcdMethods ----------------------------
(***************************************************************************)
(* The vocabulary of a SandboxFileChooserDialog: its states, and what each *)
(* method of its class does with the state of its dialog.  The groups of   *)
(* methods are those of lib/localfilechooserdialog.c, in the order of that *)
(* file; a group says, for each of its methods, in which states the method *)
(* is refused, the error code it answers then, and the state in which it   *)
(* leaves a dialog when it is not refused.                                 *)
(***************************************************************************)

CONFIGURATION  == "CONFIGURATION"
RUNNING        == "RUNNING"
DATA_RETRIEVAL == "DATA_RETRIEVAL"

SfcdState == {CONFIGURATION, RUNNING, DATA_RETRIEVAL}

ErrorCodes ==
  {"none", "FORBIDDEN_CHANGE", "FORBIDDEN_QUERY", "TOOLKIT_CALL_FAILED"}

-----------------------------------------------------------------------------
(* The forms of methods.                                                   *)

Keeps      == [s \in SfcdState |-> s]
Becomes(t) == [s \in SfcdState |-> t]

Setter(ms) ==
  [methods |-> ms, refused |-> {RUNNING}, code |-> "FORBIDDEN_CHANGE",
   leaves |-> Becomes(CONFIGURATION)]

Getter(ms) ==
  [methods |-> ms, refused |-> {RUNNING}, code |-> "FORBIDDEN_QUERY", leaves |-> Keeps]

(* The other queries answer FORBIDDEN_CHANGE too.                          *)
Listing(ms) ==
  [methods |-> ms, refused |-> {RUNNING}, code |-> "FORBIDDEN_CHANGE", leaves |-> Keeps]

Retrieval(ms) ==
  [methods |-> ms, refused |-> {CONFIGURATION, RUNNING}, code |-> "FORBIDDEN_CHANGE",
   leaves |-> Keeps]

Unrefused(ms) == [methods |-> ms, refused |-> {}, code |-> "none", leaves |-> Keeps]

-----------------------------------------------------------------------------
(* The life of a run.                                                      *)

StateQuery == Unrefused({"get_state"})

(* Mutant of RunMethod: sfcd_run does not test the state.                  *)
RunMethodReentrant ==
  [methods |-> {"run"}, refused |-> {}, code |-> "FORBIDDEN_CHANGE",
   leaves |-> Becomes(RUNNING)]

RunMethod ==
  [methods |-> {"run"}, refused |-> {RUNNING}, code |-> "FORBIDDEN_CHANGE",
   leaves |-> Becomes(RUNNING)]

RunControl ==
  [methods |-> {"present", "cancel_run"}, refused |-> {CONFIGURATION, DATA_RETRIEVAL},
   code |-> "FORBIDDEN_CHANGE", leaves |-> Keeps]

(* The extra widget is of no concern to the state.                         *)

WidgetSetter == Unrefused({"set_extra_widget"})
WidgetQuery  == Unrefused({"get_extra_widget"})

-----------------------------------------------------------------------------
(* The selection.                                                          *)

FilenameSelectors == Setter({"select_filename", "unselect_filename"})

(* Mutant of WholeSelectors: they do not test the state.                   *)
WholeSelectorsLax ==
  [methods |-> {"select_all", "unselect_all"}, refused |-> {},
   code |-> "FORBIDDEN_CHANGE", leaves |-> Becomes(CONFIGURATION)]

WholeSelectors  == Setter({"select_all", "unselect_all"})
UriSelectors    == Setter({"select_uri", "unselect_uri"})
NameSetters     == Setter({"set_current_name", "set_filename"})
LocationSetters == Setter({"set_current_folder", "set_uri", "set_current_folder_uri"})

(* The options.                                                            *)

Option(setter, getter) == [set |-> Setter({setter}), get |-> Getter({getter})]

ActionOption         == Option("set_action", "get_action")
LocalOnlyOption      == Option("set_local_only", "get_local_only")
SelectMultipleOption == Option("set_select_multiple", "get_select_multiple")
ShowHiddenOption     == Option("set_show_hidden", "get_show_hidden")
OverwriteOption      == Option("set_do_overwrite_confirmation",
                               "get_do_overwrite_confirmation")
CreateFoldersOption  == Option("set_create_folders", "get_create_folders")

(* Shortcut folders.                                                       *)

ShortcutEditors    == Setter({"add_shortcut_folder", "remove_shortcut_folder"})
ShortcutList       == Listing({"list_shortcut_folders"})
ShortcutUriEditors == Setter({"add_shortcut_folder_uri", "remove_shortcut_folder_uri"})
ShortcutUriList    == Listing({"list_shortcut_folder_uris"})

(* What the user chose: only the current folder can be had without a run.  *)

FilenameRetrievals == Retrieval({"get_current_name", "get_filename", "get_filenames"})
FolderQuery        == Listing({"get_current_folder"})
UriRetrievals      == Retrieval({"get_uri", "get_uris"})
FolderUriQuery     == Listing({"get_current_folder_uri"})

-----------------------------------------------------------------------------
Groups ==
  {StateQuery, RunMethod, RunControl, WidgetSetter, WidgetQuery,
   FilenameSelectors, WholeSelectors, UriSelectors, NameSetters, LocationSetters,
   ActionOption.set, LocalOnlyOption.set, SelectMultipleOption.set,
   ShowHiddenOption.set, OverwriteOption.set, CreateFoldersOption.set,
   ActionOption.get, LocalOnlyOption.get, SelectMultipleOption.get,
   ShowHiddenOption.get, OverwriteOption.get, CreateFoldersOption.get,
   ShortcutEditors, ShortcutList, ShortcutUriEditors, ShortcutUriList,
   FilenameRetrievals, FolderQuery, UriRetrievals, FolderUriQuery}

GroupOf(method) == CHOOSE g \in Groups : method \in g.methods

RefusedIn(method, state) == \E g \in Groups : method \in g.methods /\ state \in g.refused
RefusalCode(method)      == GroupOf(method).code

(* The state of a dialog after a method that was not refused.              *)
LeftBy(method, state) == GroupOf(method).leaves[state]

-----------------------------------------------------------------------------
(* The methods by what they are for.                                       *)

SelectionSetters ==
  FilenameSelectors.methods \cup WholeSelectors.methods \cup UriSelectors.methods
    \cup NameSetters.methods \cup LocationSetters.methods

OptionSetters ==
  ActionOption.set.methods \cup LocalOnlyOption.set.methods
    \cup SelectMultipleOption.set.methods \cup ShowHiddenOption.set.methods
    \cup OverwriteOption.set.methods \cup CreateFoldersOption.set.methods

OptionGetters ==
  ActionOption.get.methods \cup LocalOnlyOption.get.methods
    \cup SelectMultipleOption.get.methods \cup ShowHiddenOption.get.methods
    \cup OverwriteOption.get.methods \cup CreateFoldersOption.get.methods

ShortcutSetters == ShortcutEditors.methods \cup ShortcutUriEditors.methods
ShortcutLists   == ShortcutList.methods \cup ShortcutUriList.methods
FolderQueries   == FolderQuery.methods \cup FolderUriQuery.methods
Retrievals      == FilenameRetrievals.methods \cup UriRetrievals.methods

Setters     == SelectionSetters \cup OptionSetters \cup ShortcutSetters
Queries     == OptionGetters \cup ShortcutLists \cup FolderQueries \cup Retrievals
RunControls == RunControl.methods

(* What the daemon offers: the methods of the interface that name a dialog *)
(* and keep it, those of them that no state refuses, and those whose       *)
(* handler is connected to the signal of another one.                      *)

UnrefusedQueries == StateQuery.methods \cup WidgetQuery.methods

DialogMethods ==
  RunMethod.methods \cup WidgetSetter.methods \cup RunControls \cup Setters
    \cup Queries \cup UnrefusedQueries

Unserved == {"unselect_filename"}
=============================================================================
