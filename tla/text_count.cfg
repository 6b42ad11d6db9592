CONSTANTS
  Scenarios <- MCScenarios
  ClockMod = 6
  Millis = 2
  Seconds = {1, 2}
  ByteMod = 4
  LongMax = 99
  MaxLag = 2
  LineSize = 2
  MaxChars = 4
SPECIFICATION Spec
INVARIANT
  CharactersCounted
