\* Three threads that use a dialog, whose user answers or closes it while nobody else does.
CONSTANTS
  t0 = t0
  t1 = t1
  t2 = t2
  Threads = {t0, t1, t2}
  Main = t0
  NoThread = NoThread
  Methods = {"run", "present", "cancel_run", "select_all", "get_uri", "get_action"}
  ThreadsMay = {}
SPECIFICATION FairSpec
INVARIANT TypeOK
INVARIANT ActsOnWhatItTested
INVARIANT RunKeepsRunning
INVARIANT NoUseAfterFree
INVARIANT NoAcceptanceInvented
PROPERTY MutexComesBack
CHECK_DEADLOCK FALSE
