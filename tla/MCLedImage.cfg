CONSTANTS
  BackBeg = 13
  BackSide = 7
  Front = 33
  numPixels = 3
  Starts <- MCStarts
  Images <- MCImages
  Garbage <- MCGarbage
  MayFail = {"open", "header", "pixels"}
SPECIFICATION FrameFairSpec
INVARIANTS EachLedOnce
PROPERTIES MovesOnStrip MovesLightAll FrameIsPixels
