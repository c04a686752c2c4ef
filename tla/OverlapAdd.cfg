SPECIFICATION Spec
CONSTANTS
  FFTSize = 4
  StepSizes = {1, 2, 4}
  NumberOfChannels = 2
  BlockSize = 5
  Length = 10
  scaled = scaled
INVARIANTS NeverStarves DelayedByOneWindow TriggerReachesEveryChannel ActsWhereTimed
PROPERTY EveryBlockEnds
