CONSTANTS
  d1 = d1
  d2 = d2
  v1 = v1
  v2 = v2
  Devices = {d1}
  Valves = {v1, v2}
  DeviceOf <- BothOfFirst
  Ids = {i1}
  NoValve = NoValve
  NoConn = NoConn
  Backlog = 1
  MaxFailures = 1
SPECIFICATION Spec
INVARIANT
  SentIsReceived
