\* One process, a daemon that dies and counts its dialogs from zero again, a bus
\* library that gives up a call, and parent windows that GTK destroys.  An extra
\* reference keeps an instance alive after its destroy signal; the destruction of a
\* dialog whose call was given up comes unasked, as that by a user does.
CONSTANTS
  p1 = p1
  p2 = p2
  o1 = o1
  o2 = o2
  d1 = d1
  d2 = d2
  Procs = {p1}
  Objects = {o1, o2}
  Home <- OneHome
  NoObject = NoObject
  Dialogs = {d1}
  NoDialog = NoDialog
  Calls = {"new", "destroy", "set_extra_widget", "list_shortcut_folders"}
  MaxExtra = 1
  MaxTimeouts = 1
  MaxCrashes = 1
  ClientMay = {"parent", "lose_parent"}
SPECIFICATION CallSpec
INVARIANT NoDanglingEntry
INVARIANT HeldByApplications
PROPERTY CallsReturn
