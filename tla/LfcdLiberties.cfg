\* One dialog with everything an application may do to it: two further
\* references, calls before the loop of a run has started, a parent window.
\* It may stop: a run hidden before its loop has started keeps to itself a dialog
\* that nobody else holds, and its loop never returns.
CHECK_DEADLOCK FALSE
CONSTANTS
  d1 = d1
  nobody = nobody
  nothing = nothing
  file = file
  defaults = defaults
  others = others
  gadget = gadget
  Dialogs = {d1}
  NoDialog = nobody
  Selections = {nothing, file}
  NoSelection = nothing
  Options = {defaults, others}
  DefaultOptions = defaults
  Widgets = {gadget}
  MaxExtra = 2
  ClientMay = {"destroy_running", "destroy_closed", "early_hide", "use_destroyed", "parent"}
SPECIFICATION Spec
INVARIANT RefsAccounted
INVARIANT RunKeepsRunning
INVARIANT UserChoiceIntact
PROPERTY ImplementsProtocol
