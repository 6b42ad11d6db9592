CONSTANTS
  v1 = v1
  v2 = v2
  vx = vx
  Valves <- MCValves
  ValveIds <- MCValveIds
  DayMins = 9
  MaxDrift = 2
  Lists <- SchedulerLists
  MaxRefresh = 2
SPECIFICATION HFairSpec
INVARIANTS
  IInv
  OpenMeansActive
  NoOverwatering
  SweepServesSchedules
  PassedActiveInWindow
PROPERTIES
  ImplementsWatering
  OrphanedOnlyByRefresh
  WindowServed
  PauseServed
