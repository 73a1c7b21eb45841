\* The strengthened invariant the TLAPS proofs use, on the shared-timer instance.
CONSTANTS
  t1 = t1
  t2 = t2
  t3 = t3
  k1 = k1
  k2 = k2
  Threads <- MCThreads3
  Tokens <- MCTokens
  NoToken = NoToken
  NoThread = NoThread
  OSShared = TRUE
  MaxInterrupts = 3
  Frequency = 100
SYMMETRY MCSymmetry3
INIT Init
NEXT Next
INVARIANTS
  IInv
  TimerInv
