\* Two processes with a dialog each.
CONSTANTS
  p1 = p1
  p2 = p2
  o1 = o1
  o2 = o2
  d1 = d1
  d2 = d2
  Procs = {p1, p2}
  Objects = {o1, o2}
  Home <- TwoHomes
  NoObject = NoObject
  Dialogs = {d1, d2}
  NoDialog = NoDialog
  Calls = {"new", "run", "destroy", "cancel_run", "select_all", "unselect_filename", "get_state", "get_filename", "add_shortcut_folder"}
  MaxExtra = 0
  MaxTimeouts = 0
  MaxCrashes = 0
  ClientMay = {}
SPECIFICATION Spec
INVARIANT AllAlive
