CONSTANTS
  CommBufLen = 2
  RxBufLen = 2
  ClockMod = 10
  Calls <- MixedCalls
  RetryDelay = 1
  DrainStart = 7
  DrainGap = 7
  Chars = {"O", "K", "E"}
  Expected <- MCExpected
  Answers <- MCAnswers
  MaxLatency = 4
  MaxGap = 1
  MaxLag = 1
  MaxCalls = 2
SPECIFICATION Spec
INVARIANT
  OkAnswersTheCommand
