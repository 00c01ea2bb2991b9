CONSTANTS
  Types <- MCTypes
  NumFrames = 3
  Samples = 2
SPECIFICATION ShowSpec

INVARIANT ConvertsFilledBuffer
