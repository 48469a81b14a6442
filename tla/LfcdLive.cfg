\* Two dialogs whose users answer, and an application that lets loops start.
CONSTANTS
  d1 = d1
  d2 = d2
  nobody = nobody
  nothing = nothing
  defaults = defaults
  Dialogs = {d1, d2}
  NoDialog = nobody
  Selections = {nothing}
  NoSelection = nothing
  Options = {defaults}
  DefaultOptions = defaults
  Widgets = {}
  MaxExtra = 0
  ClientMay = {"destroy_running"}
SPECIFICATION FairSpec
PROPERTY RunsEnd
PROPERTY HiddenRunsEnd
PROPERTY Released
