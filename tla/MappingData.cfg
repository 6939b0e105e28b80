CONSTANTS
  Fan = 8
  PageSize = 2
  TextStart = 128
  RodataStart = 129
  DataStart = 130
  BssStart = 131
  KernelEnd = 132
  MemoryEnd = 184
  Devices <- MCDevices
  PageOffset = 256
  StackStart = 512
  StackSize = 2
  Program <- DataProgram
  IsElf <- DataIsElf
  Header <- DataHeader
SPECIFICATION Spec
INVARIANTS
  ImageLoaded
