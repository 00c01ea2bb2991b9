CONSTANTS
  Dword = 64
  SS = 4
  EntriesPerSector = 2
  MAX_FAT12 = 3
  MAX_FAT16 = 4
  MAX_DIR = 12
  MaxMounts = 2
  ReadSizes = {3, 6, 13}
  Cards <- MCCards
SPECIFICATION FairSpec
INVARIANTS CachesHold
PROPERTIES ReadsTheFile ReadsInRegion CallsEnd
