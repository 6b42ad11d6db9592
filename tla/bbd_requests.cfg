CONSTANTS
  d1 = d1
  d2 = d2
  v1 = v1
  v2 = v2
  Devices = {d1, d2}
  Valves = {v1}
  DeviceOf <- OnlyOne
  Ids = {i1, i2}
  NoValve = NoValve
  NoConn = NoConn
  Backlog = 1
  MaxFailures = 1
SPECIFICATION FairSpec
PROPERTIES
  RequestsEnd
  NewSchedulesArrive
