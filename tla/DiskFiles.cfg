SPECIFICATION Spec
CONSTANTS
  Block = {b1, b2, b3}
  NoBlock = NoBlock
  Name = {n1, n2}
  Slots = 2
  Channels = 2
  Datum = {d1}
  BlockSize = 1
SYMMETRY Symmetry
VIEW View
INVARIANTS FilesDisjoint SpaceAccounted
PROPERTIES ImplementsFileStore
