SPECIFICATION Spec
CONSTANTS
  Observer = {a, b, c}
  NoObserver = NoObserver
  MaxProgress = 1
INVARIANTS TypeOK StreamFaithful
PROPERTY EveryStreamEnds
CHECK_DEADLOCK FALSE
