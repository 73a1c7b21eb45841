------------------------- MODULE EventSourceProofs -------------------------
(***************************************************************************)
(* Proofs about TimerProfileEventSource as ProfileHandler drives it, when  *)
(* the OS shares one interval timer among the threads (OSShared) and      *)
(* setitimer accepts the interval of frequency_ (IntervalAccepted): the   *)
(* detection round concludes TIMERS_SHARED, and from then on the timer is *)
(* armed exactly while callbacks are registered.                          *)
(***************************************************************************)
EXTENDS ProfileHandlerProofs

\* The four values of timer_sharing_ are distinct.
USE DEF TIMERS_UNTOUCHED, TIMERS_ONE_SET, TIMERS_SHARED, TIMERS_SEPARATE

\* With one process timer, setitimer on any thread sets what every thread
\* reads.
LEMMA SharedSetTimer ==
  ASSUME OSShared, NEW t \in Threads, NEW on, SetTimer(t, on)
  PROVE  \A u \in Threads : timer'[u] = on
  BY DEF SetTimer

\* Every frequency but 1 gives an interval setitimer accepts.
LEMMA FrequencyAccepted ==
  ASSUME Frequency # 1
  PROVE  IntervalAccepted
  BY FrequencyAssumption DEF IntervalAccepted

\* The steps that leave the timer, the detection state and the count alone.
LEMMA TimerQuiet ==
  ASSUME TimerInv,
         UNCHANGED <<timer, timer_sharing, callback_count>>
  PROVE  TimerInv'
  BY DEF TimerInv

LEMMA RegisterThreadTimer ==
  ASSUME IInv, TimerInv, OSShared, IntervalAccepted, NEW t \in Threads, RegisterThread(t)
  PROVE  TimerInv'
  <1> USE DEF RegisterThread, ESRegisterThread
  <1>1. UNCHANGED callback_count
    OBVIOUS
  <1>2. CASE timer_sharing = TIMERS_UNTOUCHED
    <2>1. StartTimer(t) /\ timer_sharing' = TIMERS_ONE_SET
      BY <1>2 DEF SharingStates
    <2>2. \A u \in Threads : timer'[u] = TRUE
      BY <2>1, SharedSetTimer DEF StartTimer
    <2>3. QED
      BY <2>1, <2>2 DEF TimerInv, SharingStates
  <1>3. CASE timer_sharing = TIMERS_ONE_SET
    <2>1. IsTimerRunning(t)
      BY <1>3 DEF TimerInv, IsTimerRunning
    <2>2. /\ timer_sharing' = TIMERS_SHARED
          /\ IF callback_count = 0 THEN StopTimer(t) ELSE UNCHANGED timer
      BY <1>3, <2>1 DEF SharingStates
    <2>3. CASE callback_count = 0
      <3>1. \A u \in Threads : timer'[u] = FALSE
        BY <2>2, <2>3, SharedSetTimer DEF StopTimer
      <3>2. timer_sharing' = TIMERS_SHARED /\ ~(callback_count' > 0)
        BY <1>1, <2>2, <2>3
      <3>3. QED
        BY Zenon, <3>1, <3>2 DEF TimerInv
    <2>4. CASE callback_count # 0
      <3>1. \A u \in Threads : timer'[u] = TRUE
        BY <1>3, <2>2, <2>4 DEF TimerInv
      <3>2. callback_count > 0
        BY <2>4 DEF IInv, TypeOK
      <3>3. QED
        BY <1>1, <2>2, <3>1, <3>2 DEF TimerInv, SharingStates
    <2>5. QED
      BY <2>3, <2>4
  <1>4. CASE timer_sharing = TIMERS_SHARED
    <2>1. UNCHANGED esVars
      BY <1>4 DEF SharingStates
    <2>2. QED
      BY <1>1, <2>1 DEF TimerInv, esVars
  <1>5. QED
    BY <1>2, <1>3, <1>4 DEF TimerInv, IInv, TypeOK, ESTypeOK, SharingStates

LEMMA RegisterCallbackEndTimer ==
  ASSUME IInv, TimerInv, OSShared, IntervalAccepted, NEW t \in Threads, RegisterCallbackEnd(t)
  PROVE  TimerInv'
  <1> USE DEF RegisterCallbackEnd, ESRegisteredCallback
  <1>1. /\ callback_count' = callback_count + 1
        /\ callback_count \in Nat
        /\ UNCHANGED timer_sharing
    BY DEF IInv, TypeOK
  <1>2. CASE callback_count + 1 = 1 /\ timer_sharing = TIMERS_SHARED
    <2>1. \A u \in Threads : timer'[u] = TRUE
      BY <1>2, SharedSetTimer DEF StartTimer
    <2>2. timer_sharing' = TIMERS_SHARED /\ callback_count' > 0
      BY <1>1, <1>2
    <2>3. QED
      BY Zenon, <2>1, <2>2 DEF TimerInv
  <1>3. CASE ~(callback_count + 1 = 1 /\ timer_sharing = TIMERS_SHARED)
    <2>1. UNCHANGED timer
      BY <1>3
    <2>2. timer_sharing = TIMERS_SHARED => callback_count > 0
      BY <1>1, <1>3
    <2>3. QED
      BY <1>1, <2>1, <2>2 DEF TimerInv
  <1>4. QED
    BY <1>2, <1>3

LEMMA UnregisterCallbackEndTimer ==
  ASSUME IInv, TimerInv, OSShared, IntervalAccepted, NEW t \in Threads, UnregisterCallbackEnd(t)
  PROVE  TimerInv'
  <1> USE DEF UnregisterCallbackEnd, ESUnregisteredCallback
  <1>1. /\ callback_count' = callback_count - 1
        /\ callback_count \in Nat \ {0}
        /\ UNCHANGED timer_sharing
    <2>1. pc[t] = "uc_rel"
      BY DEF Goto
    <2>2. callback_count = Len(callbacks) + 1
      BY <2>1 DEF IInv, CountInv
    <2>3. QED
      BY <2>2 DEF IInv, TypeOK
  <1>2. CASE callback_count - 1 = 0 /\ timer_sharing = TIMERS_SHARED
    <2>1. \A u \in Threads : timer'[u] = FALSE
      BY <1>2, SharedSetTimer DEF StopTimer
    <2>2. timer_sharing' = TIMERS_SHARED /\ ~(callback_count' > 0)
      BY <1>1, <1>2
    <2>3. QED
      BY Zenon, <2>1, <2>2 DEF TimerInv
  <1>3. CASE ~(callback_count - 1 = 0 /\ timer_sharing = TIMERS_SHARED)
    <2>1. UNCHANGED timer
      BY <1>3
    <2>2. timer_sharing = TIMERS_SHARED => callback_count - 1 > 0
      BY <1>1, <1>3
    <2>3. QED
      BY <1>1, <2>1, <2>2 DEF TimerInv
  <1>4. QED
    BY <1>2, <1>3

LEMMA ResetEndTimer ==
  ASSUME TimerInv, OSShared, IntervalAccepted, NEW t \in Threads, ResetEnd(t)
  PROVE  TimerInv'
  <1> USE DEF ResetEnd, ESReset
  <1>1. timer_sharing' = TIMERS_UNTOUCHED
    OBVIOUS
  <1>2. \A u, v \in Threads : timer'[u] = timer'[v]
    <2>1. CASE timer_sharing = TIMERS_SHARED
      BY <2>1, SharedSetTimer DEF StopTimer
    <2>2. CASE timer_sharing # TIMERS_SHARED
      BY <2>2 DEF TimerInv
    <2>3. QED
      BY <2>1, <2>2
  <1>3. QED
    BY <1>1, <1>2 DEF TimerInv, SharingStates

LEMMA NextTimer ==
  ASSUME IInv, TimerInv, [Next]_vars
  PROVE  TimerInv'
  <1>1. CASE ~(OSShared /\ IntervalAccepted)
    BY <1>1 DEF TimerInv
  <1>2. CASE OSShared /\ IntervalAccepted
    <2>1. ASSUME NEW t \in Threads,
                 \/ RegisterCallbackBegin(t) \/ RegisterCallbackPush(t)
                 \/ UnregisterCallbackBegin(t) \/ UnregisterCallbackErase(t)
                 \/ ResetBegin(t) \/ ResetClear(t)
                 \/ GetStateBegin(t) \/ GetStateRead(t) \/ GetStateEnd(t)
                 \/ Deliver(t) \/ HandlerAcquire(t) \/ HandlerInvoke(t)
                 \/ HandlerReturn(t)
          PROVE  TimerInv'
      <3>1. UNCHANGED <<timer, timer_sharing, callback_count>>
        BY <2>1 DEF RegisterCallbackBegin, RegisterCallbackPush,
                    UnregisterCallbackBegin, UnregisterCallbackErase,
                    ResetBegin, ResetClear, GetStateBegin, GetStateRead,
                    GetStateEnd, Deliver, HandlerAcquire, HandlerInvoke,
                    HandlerReturn, esVars
      <3>2. QED
        BY <3>1, TimerQuiet
    <2>2. CASE UNCHANGED vars
      BY <2>2, TimerQuiet DEF vars, esVars, phVars
    <2>3. QED
      BY <1>2, <2>1, <2>2, RegisterThreadTimer, RegisterCallbackEndTimer,
         UnregisterCallbackEndTimer, ResetEndTimer DEF Next
  <1>3. QED
    BY <1>1, <1>2

(* The timer invariant holds in every reachable state (it is vacuous when *)
(* every thread has its own timer, or when setitimer rejects the interval).*)
THEOREM TimerInvariant == Spec => []TimerInv
  <1>1. Init => TimerInv
    BY DEF Init, ESInit, TimerInv
  <1>2. QED
    BY <1>1, InitIInv, NextIInv, NextTimer, PTL DEF Spec

(* With one process timer, once RegisterThread has found the timers       *)
(* shared, StartTimer and StopTimer in RegisteredCallback,                *)
(* UnregisteredCallback and Reset keep the timer armed exactly while      *)
(* callbacks are registered, for every frequency but 1.                   *)
THEOREM SharedTimerInvariant ==
  ASSUME OSShared, Frequency # 1
  PROVE  Spec => []SharedTimerIffCallbacks
  <1>1. TimerInv => SharedTimerIffCallbacks
    BY FrequencyAccepted DEF TimerInv, SharedTimerIffCallbacks
  <1>2. QED
    BY <1>1, TimerInvariant, PTL

(* With one process timer, the second RegisterThread of a detection round *)
(* always finds the timer the first one armed, so detection never         *)
(* concludes TIMERS_SEPARATE, even after Reset restarts it, for every     *)
(* frequency but 1 (at 1 the first timer is never armed).                *)
THEOREM DetectionSoundShared ==
  ASSUME OSShared, Frequency # 1
  PROVE  Spec => []DetectionSound
  <1>1. TimerInv => DetectionSound
    BY FrequencyAccepted DEF TimerInv, DetectionSound
  <1>2. QED
    BY <1>1, TimerInvariant, PTL

=============================================================================
