\* One dialog, cancelled or destroyed before the loop of its run has started.
CONSTANTS
  d1 = d1
  nobody = nobody
  nothing = nothing
  defaults = defaults
  Dialogs = {d1}
  NoDialog = nobody
  Selections = {nothing}
  NoSelection = nothing
  Options = {defaults}
  DefaultOptions = defaults
  Widgets = {}
  MaxExtra = 0
  ClientMay = {"early_hide"}
SPECIFICATION LoopSpec
PROPERTY HiddenRunsEnd
