SPECIFICATION Spec
CONSTANTS
  Update = {a, b}
  Pull = {timer, notified}
  Timer = timer
  MaxFaults = 0
  MayRaise = FALSE
  Garbled = {}
  MaxRestarts = 0
INVARIANT NeverRepeated
CHECK_DEADLOCK FALSE
