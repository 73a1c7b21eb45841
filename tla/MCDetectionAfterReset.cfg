\* Per-thread timers: does sharing detection, rerun after Reset(), still find separate timers?
CONSTANTS
  t1 = t1
  t2 = t2
  t3 = t3
  k1 = k1
  k2 = k2
  Threads <- MCThreads
  Tokens <- MCTokens
  NoToken = NoToken
  NoThread = NoThread
  OSShared = FALSE
  MaxInterrupts = 1
  Frequency = 100
SYMMETRY MCSymmetry
INIT Init
NEXT Next
INVARIANT DetectionSound
