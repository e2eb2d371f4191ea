SPECIFICATION Spec
CONSTANTS
  Buffers = {b1, b2}
  NoBuffer = NoBuffer
  MaxFrames = 4
  MaxJobs = 2
INVARIANTS OneOwner NothingInUseAtDestroy
PROPERTIES FramesInOrder FrameLeavesQueue ExitCompletes
