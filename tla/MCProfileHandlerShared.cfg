\* Timers shared by the process (NPTL on current Linux kernels); three threads, so two handlers can run beside a mutator.
CONSTANTS
  t1 = t1
  t2 = t2
  t3 = t3
  k1 = k1
  k2 = k2
  Threads <- MCThreads3
  Tokens <- MCTokens
  NoToken = NoToken
  NoThread = NoThread
  OSShared = TRUE
  MaxInterrupts = 3
  Frequency = 100
SYMMETRY MCSymmetry3
INIT Init
NEXT Next
INVARIANTS
  TypeOK
  NoSelfDeadlock
  DispatchConsistent
  HandlerEnabledIffCallbacks
  RegistryIntegrity
  SharedTimerIffCallbacks
  DetectionSound
PROPERTIES
  ImplementsRegistry
