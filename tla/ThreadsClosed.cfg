\* Threads that use a dialog while its user closes it.
CONSTANTS
  t0 = t0
  t1 = t1
  t2 = t2
  Threads = {t0, t1, t2}
  Main = t0
  NoThread = NoThread
  Methods = {"run", "present", "cancel_run", "select_all", "get_uri", "get_action"}
  ThreadsMay = {"use_closed"}
SPECIFICATION Spec
INVARIANT NoUseAfterFree
CHECK_DEADLOCK FALSE
