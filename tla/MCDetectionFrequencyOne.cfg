\* CPUPROFILE_FREQUENCY=1 with a process-wide timer: StartTimer's interval is rejected, so detection sees no running timer.
CONSTANTS
  t1 = t1
  t2 = t2
  t3 = t3
  k1 = k1
  k2 = k2
  Threads <- MCThreads
  Tokens <- MCTokens
  NoToken = NoToken
  NoThread = NoThread
  OSShared = TRUE
  MaxInterrupts = 1
  Frequency = 1
SYMMETRY MCSymmetry
INIT Init
NEXT Next
INVARIANT DetectionSound
