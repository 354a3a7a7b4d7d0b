SPECIFICATION FairSpec
CONSTANTS
  Update = {a, b}
  Pull = {timer}
  Timer = timer
  MaxFaults = 2
  MayRaise = TRUE
  Garbled = {b}
  MaxRestarts = 2
INVARIANTS TypeOK NeverRepeated OutcomesReal NothingForgotten
PROPERTY EveryUpdateCompletes
CHECK_DEADLOCK FALSE
