\* Two dialogs, and one caller who lets loops start and closes take effect.
CONSTANTS
  d1 = d1
  d2 = d2
  c1 = c1
  nobody = nobody
  none = none
  nothing = nothing
  defaults = defaults
  NoDialog = nobody
  Selections = {nothing}
  NoSelection = nothing
  Options = {defaults}
  DefaultOptions = defaults
  Widgets = {}
  MaxExtra = 2
  NoCaller = none
  Dialogs = {d1, d2}
  Callers = {c1}
  Calls = {"new", "run", "destroy"}
  ClientMay = {"destroy_running", "destroy_closed"}
SPECIFICATION ServerFairSpec
PROPERTY CallsComplete
PROPERTY DestroyedAreDisposed
