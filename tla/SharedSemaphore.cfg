SPECIFICATION Spec
CONSTANTS
  Request = {report, pull, started, progress}
  Threaded = {started, progress}
  Limit = 2
INVARIANT AtMostLimit
CHECK_DEADLOCK FALSE
