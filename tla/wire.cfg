CONSTANTS
  ByteMod = 8
  MagicNumber = 21
  DeviceId = 3
  Valves <- MCValves
  Schedules <- MCSchedules
  Junk = Junk
SPECIFICATION FairSpec
INVARIANTS
  TypeOK
  AnswerArrives
  NeverShifted
  BlocksHold
  RequestUnderstood
PROPERTY
  ExchangeEnds
CHECK_DEADLOCK FALSE
