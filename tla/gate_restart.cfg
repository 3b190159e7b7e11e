SPECIFICATION Spec
CONSTANTS
  Feeds = {f1, f2}
  AutoStart = TRUE
INVARIANT RestartRequired
CHECK_DEADLOCK FALSE
