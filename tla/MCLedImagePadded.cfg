CONSTANTS
  BackBeg = 13
  BackSide = 7
  Front = 33
  numPixels = 3
  Starts <- MCStarts
  Images <- MCPaddedImages
  Garbage = {}
  MayFail = {"open", "pixels"}
SPECIFICATION FrameSpec
PROPERTIES FrameIsRow
