SPECIFICATION Spec
CONSTANTS
  Request = {report, pull, message}
  Reports = {report}
  Limit = 2
  NoToken = NoToken
  Environments <- MCEnvironments
  MaxIdentity = 2
  MaxFaults = 1
  MaxExpiries = 1
INVARIANTS TypeOK SlotsConserved NeverRefusedInVain
PROPERTIES EveryRequestEnds ReportsDelivered
CHECK_DEADLOCK FALSE
