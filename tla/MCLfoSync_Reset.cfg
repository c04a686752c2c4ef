SPECIFICATION SyncSpec
CONSTANTS
  Bar = 2880
  Meters = {4, 5}
  Asked <- MCAsked
  Choices <- MCChoices
  Files <- MCFiles
  EchoCapacity = 2
  CommandCapacity = 1

PROPERTY SteadyMeterMovesNothing
