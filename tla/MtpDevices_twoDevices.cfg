SPECIFICATION DevicesSpec
CONSTANTS
  Udi = {"u1", "u2"}
  DeviceName = {"n1", "n2"}
  Nobody = Nobody
  MaxPlugged = 2
  MaxPlugs = 3
  OwnNames = TRUE
INVARIANT DeviceReachable
CHECK_DEADLOCK FALSE
