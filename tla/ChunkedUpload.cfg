CONSTANTS
  f1 = f1
  f2 = f2
  Files <- MCFiles
  Chunks <- MCChunks
  Threads = 2
  Retries = 1
  None = None
SPECIFICATION FairSpec
INVARIANTS TypeOK CountersRight 
PROPERTY UploadEnds
