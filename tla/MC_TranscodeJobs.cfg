SPECIFICATION FairSpec
CONSTANTS
  Jobs = {j1, j2}
  Keys = {k1}
  MaxHist = 1
  NoJob = NoJob
  NoKey = NoKey
  NProfiles = 2
  MaxLaunch = 1
INVARIANTS
  TranscodeInv
  NoStrandedJob
  OneLiveWorkerPerKey
PROPERTIES
  ImplementsLifecycle
  EveryJobEnds
  CancelledWorkEnds
\* the process may have exited
CHECK_DEADLOCK FALSE
