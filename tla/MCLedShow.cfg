CONSTANTS
  Types <- MCTypes
  NumFrames = 3
  Samples = 2
SPECIFICATION ShowFairSpec
INVARIANT LateByFewTicks
PROPERTIES AllFramesShown MicHeard
