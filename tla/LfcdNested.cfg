\* Three dialogs of an application that destroys them whenever it likes, except
\* that it lets the loop of a run start, and the close of a user take effect, first.
CONSTANTS
  d1 = d1
  d2 = d2
  d3 = d3
  nobody = nobody
  nothing = nothing
  defaults = defaults
  Dialogs = {d1, d2, d3}
  NoDialog = nobody
  Selections = {nothing}
  NoSelection = nothing
  Options = {defaults}
  DefaultOptions = defaults
  Widgets = {}
  MaxExtra = 0
  ClientMay = {"destroy_running"}
SPECIFICATION Spec
SYMMETRY Symmetry
INVARIANT TypeOK
INVARIANT NoFault
INVARIANT RunningHasRun
INVARIANT EachRunOnce
INVARIANT WaitsOnScreen
PROPERTY ResponseLeavesRunning
