SPECIFICATION Spec
CONSTANTS
  Sectors = {0, 1}
  SectorSize = 4
  Addresses = {1, 6}
  Watched = {1}
  Magic1 = {1}
  Magic2 = {6}
  Data = {{7, 5, 3, 1}}
  ModifiedTo = {{5, 4}}
  SavedIn <- MCSavedIn
  None = None
  Inputs = {}
INVARIANTS EraseInProgress ChangesAreDirty
PROPERTIES ChangesOnCommand SectorsGetErased
