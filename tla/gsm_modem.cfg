CONSTANTS
  Rates <- MCRates
  BaudRate = 115200
  ForceRate = 9600
  MaxNoise = 1
  MaxAttempts = 3
SPECIFICATION InetFairSpec
INVARIANTS
  InetTypeOK
  ReadyMeansTalking
  LineReleased
  PostMeetsPrompt
PROPERTIES
  ConfiguredIsClean
  AddressKept
  BeginSucceeds
  RegistrationSeen
  AddressComes
