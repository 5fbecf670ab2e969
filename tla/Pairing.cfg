SPECIFICATION PairingSpec
CONSTANTS
  j1 = j1
  j2 = j2
  j3 = j3
  Activations <- ThreeJobs
  NoDevice = NoDevice
  MaxCode = 2
INVARIANTS PairsOnce RefusedOnlyIfUsed
CHECK_DEADLOCK FALSE
