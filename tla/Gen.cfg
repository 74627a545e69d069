CONSTANTS
  Stems <- ThreeFiles
  Parallel = {"absent", "2", "bare"}
  Hardware = 0
  ConnMayFail = TRUE
  FilesMayFail = TRUE
  OutputMayFail = TRUE
SPECIFICATION FairSpec
INVARIANTS ExitHonest QueueServed
PROPERTY Ends
