SPECIFICATION Spec
CONSTANTS
  Name = {"lan", "wan", "guest"}
  NoName = "anonymous"
  Address = {"a1", "a2", "a3"}
  Dhcp = "dhcp"
  Configuration <- MCConfiguration
  MaxLoads = 4
INVARIANTS
  TypeOK
  CurrentAsWritten
  ZonesInPlace
  NoStaleRules
  AddressesInPlace
PROPERTIES
  ReloadIsIdle
  UnloadClears
CHECK_DEADLOCK FALSE
