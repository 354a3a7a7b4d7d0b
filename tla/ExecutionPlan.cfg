SPECIFICATION FairSpec
CONSTANTS
  Step <- MCStep
  Priority <- MCPriority
  UndoOf <- MCUndoOf
  NoUndo = "none"
  FuncOf <- MCFuncOf
  Skippable = {"reload"}
  Generator = "generator"
  Late = {"misplaced", "build", "pull", "check", "pulled"}
  Async = {"build", "pull"}
  CheckedBy <- MCCheckedBy
  Leftover = {"pull"}
INVARIANTS
  TypeOK
  PlanOrder
  SuccessIsComplete
  AbortUndoesEarlierSteps
PROPERTIES
  UndoneInReverse
  Finishes
CHECK_DEADLOCK FALSE
