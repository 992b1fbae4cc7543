SPECIFICATION FairSpec
CONSTANTS
  config = config
  other = other
  unitD = unitD
  unitC = unitC
  unitO = unitO
  Absent = Absent
  Config = config
  File <- MCFile
  Unit <- MCUnit
  Defaults <- MCDefaults
  Edits <- MCEdits
  Sectors = 8
  RootSectors = 1
  SectorSlots = 3
  ChunkSlots = 1
  Orderly = TRUE
  MaxText = 2
  MaxEdits = 2
  MaxResets = 2
INVARIANTS
  Intact
  SavedIsOnFlash
  SaveFits
  Cached
PROPERTIES
  KeepsFiles
  EditArrives
  HostMounts
