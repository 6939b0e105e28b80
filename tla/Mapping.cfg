CONSTANTS
  Fan = 8
  PageSize = 2
  TextStart = 128
  RodataStart = 129
  DataStart = 130
  BssStart = 131
  KernelEnd = 132
  MemoryEnd = 184
  Devices <- MCDevices
  PageOffset = 256
  StackStart = 512
  StackSize = 2
  Program <- MCProgram
  IsElf <- MCIsElf
  Header <- MCHeader
SPECIFICATION Spec
INVARIANTS
  FramesAreOwnedOnce
  LinearMapIntact
  UserPagesArePrivate
  ImageLoaded
