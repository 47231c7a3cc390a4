\* Sectors of two blocks, so that images end in sector zero and beyond it.
CONSTANTS
  Images = {"installed", "long", "short", "broken", "locked"}
  ImageLength <- Lengths
  BadVectors = {"broken"}
  Protected = {"locked"}
  Installed = "installed"
  FlashBlocks = 6
  BlocksPerSector = 2
  MaxAttempts = 3
  MaxFailures = 4
SPECIFICATION RecoverySpec
INVARIANTS
  RunsWholeImage
  CompleteMeansInstalled
PROPERTIES
  UpdateRecovers
  HeatingNeedsPings
  FaultIsReported
