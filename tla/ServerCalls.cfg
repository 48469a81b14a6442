\* One dialog and two callers of a method of every kind, who destroy and cancel
\* whenever they like: a closed dialog that is destroyed kills the daemon.
CONSTANTS
  d1 = d1
  c1 = c1
  c2 = c2
  nobody = nobody
  none = none
  nothing = nothing
  defaults = defaults
  NoDialog = nobody
  Selections = {nothing}
  NoSelection = nothing
  Options = {defaults}
  DefaultOptions = defaults
  Widgets = {}
  MaxExtra = 2
  NoCaller = none
  Dialogs = {d1}
  Callers = {c1, c2}
  Calls = {"new", "run", "destroy", "present", "cancel_run", "set_extra_widget", "get_state",
           "select_all", "unselect_filename", "set_filename", "set_action", "get_action",
           "add_shortcut_folder", "list_shortcut_folders", "get_filename"}
  ClientMay = {"destroy_running", "destroy_closed", "early_hide"}
SPECIFICATION ServerSpec
SYMMETRY Symmetry
INVARIANT ServerTypeOK
INVARIANT TableBalanced
INVARIANT DestroyToldOnce
INVARIANT EachCallAnswered
PROPERTY SilentAfterDestroy
PROPERTY ImplementsServerSpec
