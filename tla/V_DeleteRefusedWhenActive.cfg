SPECIFICATION Spec
CONSTANTS
  Jobs = {j1, j2}
  Keys = {k1}
  MaxHist = 1
  NoJob = NoJob
  NoKey = NoKey
  NProfiles = 2
  MaxLaunch = 1
PROPERTY DeleteRefusedWhenActive
\* the process may have exited
CHECK_DEADLOCK FALSE
