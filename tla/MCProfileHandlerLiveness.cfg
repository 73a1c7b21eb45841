\* Progress under the fairness the code's scheduling gives: two threads, two tokens, per-thread timers (the shared-timer case is the shared run's), no symmetry (unsound for liveness).
\* Deadlock freedom of this specification is checked by the shared run; here a stuck state is reported as the progress property it breaks.
CONSTANTS
  t1 = t1
  t2 = t2
  t3 = t3
  k1 = k1
  k2 = k2
  Threads <- MCThreads
  Tokens <- MCTokens
  NoToken = NoToken
  NoThread = NoThread
  OSShared = FALSE
  MaxInterrupts = 2
  Frequency = 100
SPECIFICATION FairSpec
CHECK_DEADLOCK FALSE
PROPERTIES
  HandlerCompletes
  OperationCompletes
