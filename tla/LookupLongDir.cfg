CONSTANTS
  NDirect = 4
  ItemsPerBlock = 3
  BlockSize = 2
  BlockNum = 24
  FreemapNum = 1
  Word = 256
  Uninit = {0}
  Trees <- LongDirs
  Root = "root"
  PathDepth = 3
  MaxFd = 2
  NStd = 1
  Paths <- SomePaths
  Programs = {"sh"}
  MaxProcs = 2
SPECIFICATION FTSpec
INVARIANT LookupFindsEntries
