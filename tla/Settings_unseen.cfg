SPECIFICATION Spec
CONSTANTS
  Size = 6
  Inputs <- InputsSmall
  Name <- NameSmall
  Value <- ValueSmall
  Stored <- StoredWhole
  Defaults <- DefaultsTwo
  Needed = {"API"}
  Files <- FilesSmall
  CountMod = 8
  Block = 2
  Chunk = 1
  MaxStamp = 4
  Orderly = FALSE
  CutSave = FALSE
INVARIANTS
  StampMeansRead
