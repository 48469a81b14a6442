\* One dialog that its application destroys when its user has just closed it.
CONSTANTS
  d1 = d1
  nobody = nobody
  nothing = nothing
  defaults = defaults
  Dialogs = {d1}
  NoDialog = nobody
  Selections = {nothing}
  NoSelection = nothing
  Options = {defaults}
  DefaultOptions = defaults
  Widgets = {}
  MaxExtra = 0
  ClientMay = {"destroy_running", "destroy_closed"}
SPECIFICATION Spec
INVARIANT NoFault
