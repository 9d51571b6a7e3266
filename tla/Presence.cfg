CONSTANTS
  Threads = {t1, t2}
  Scheduler = Scheduler
  Loop = Loop
  Sockets = {s1, s2}
  None = None
SPECIFICATION Spec
INVARIANT ConnectedIsOnline
PROPERTIES StaleGoesOffline HeartbeatsKeepOnline
