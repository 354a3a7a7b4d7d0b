SPECIFICATION Spec
CONSTANTS
  Chute = {"one", "two"}
  Host = "host"
  Update <- MCUpdate
  ChuteOf <- MCChuteOf
  KindOf <- MCKindOf
  BootRestart = {"restart1", "restart2"}
  Device = {"radio0", "radio1", "eth0", "eth1"}
  DeviceList <- MCDeviceList
  Wireless = {"radio0", "radio1"}
  NoDevice = "none"
  ApName = {"vwlan0", "vwlan1"}
  Vlan = {"br-lan.1"}
  NoName = "noname"
  Block = {1, 2, 3, 4, 5}
  Pool <- MCPool
  HostIfaces <- MCHostIfaces
  Request <- MCRequest
  Wanted <- MCWanted
  MaxApInterfaces = 2
  Settings <- MCSettings
  MaxCrashes = 1
  NoUpdate = "idle"
INVARIANTS TypeOK InterfacesApart DevicesExclusive ChuteConsistent
CHECK_DEADLOCK FALSE
