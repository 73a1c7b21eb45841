-------------------------- MODULE TimerEventSource --------------------------
(***************************************************************************)
(* TimerProfileEventSource of src/profile-handler.cc: the interval-timer   *)
(* event source and its timer-sharing detection state machine.             *)
(*                                                                         *)
(* The OS interval timer is either one timer shared by the whole process   *)
(* or one timer per thread; which one is not known to the code and is a    *)
(* CONSTANT of the model (OSShared).  The kernel's timers are the variable *)
(* timer: timer[t] is what getitimer() returns as "running" on thread t.   *)
(* With shared timers every entry is the same, since all threads read the  *)
(* one process timer.                                                      *)
(*                                                                         *)
(* The operations are called by ProfileHandler with control_lock_ held;   *)
(* they are written as action fragments that set timer' and              *)
(* timer_sharing' and are conjoined into the caller's action.             *)
(***************************************************************************)
EXTENDS Naturals

CONSTANTS
  Threads,   \* the threads of the process
  OSShared,  \* TRUE: the OS shares one interval timer among all threads
  Frequency  \* ProfileHandler::frequency_, read-only after construction

ASSUME ThreadsAssumption == Threads # {}
ASSUME OSSharedAssumption == OSShared \in BOOLEAN
\* The constructor's clamp leaves frequency_ in [1, 4000] (HandlerConfig).
ASSUME FrequencyAssumption == Frequency \in 1..4000

VARIABLES
  timer,          \* timer[t]: the interval timer seen by thread t is armed
  timer_sharing   \* TimerProfileEventSource::timer_sharing_

esVars == <<timer, timer_sharing>>

\* The enum of timer_sharing_.
TIMERS_UNTOUCHED == "TIMERS_UNTOUCHED"
TIMERS_ONE_SET   == "TIMERS_ONE_SET"
TIMERS_SHARED    == "TIMERS_SHARED"
TIMERS_SEPARATE  == "TIMERS_SEPARATE"
SharingStates == {TIMERS_UNTOUCHED, TIMERS_ONE_SET, TIMERS_SHARED, TIMERS_SEPARATE}

ESTypeOK ==
  /\ timer \in [Threads -> BOOLEAN]
  /\ timer_sharing \in SharingStates

ESInit ==
  /\ timer = [u \in Threads |-> FALSE]
  /\ timer_sharing = TIMERS_UNTOUCHED

(***************************************************************************)
(* setitimer() called on thread t arms (or disarms) the process timer if  *)
(* timers are shared, and thread t's own timer otherwise.                 *)
(***************************************************************************)
SetTimer(t, on) ==
  timer' = IF OSShared THEN [u \in Threads |-> on]
                       ELSE [timer EXCEPT ![t] = on]

(* StartTimer asks for tv_usec = 1000000 / frequency_; setitimer rejects  *)
(* tv_usec >= 1000000 with EINVAL, and the return value is not checked,   *)
(* so the timer is then left as it was.                                   *)
IntervalAccepted == 1000000 \div Frequency < 1000000

StartTimer(t) == IF IntervalAccepted THEN SetTimer(t, TRUE) ELSE UNCHANGED timer

StopTimer(t) == SetTimer(t, FALSE)

\* getitimer() on thread t reports a nonzero it_value.
IsTimerRunning(t) == timer[t]

(***************************************************************************)
(* RegisterThread(callback_count), run on thread t.                        *)
(***************************************************************************)
ESRegisterThread(t, callback_count) ==
  \/ /\ timer_sharing = TIMERS_UNTOUCHED
     /\ StartTimer(t)
     /\ timer_sharing' = TIMERS_ONE_SET
  \/ /\ timer_sharing = TIMERS_ONE_SET
     /\ IsTimerRunning(t)
     /\ timer_sharing' = TIMERS_SHARED
     /\ IF callback_count = 0 THEN StopTimer(t) ELSE UNCHANGED timer
  \/ /\ timer_sharing = TIMERS_ONE_SET
     /\ ~IsTimerRunning(t)
     /\ timer_sharing' = TIMERS_SEPARATE
     /\ StartTimer(t)
  \/ /\ timer_sharing = TIMERS_SHARED
     /\ UNCHANGED esVars
  \/ /\ timer_sharing = TIMERS_SEPARATE
     /\ StartTimer(t)
     /\ UNCHANGED timer_sharing

\* Fault variant: the first-callback test off by one.
ESRegisteredCallbackOffByOne(t, new_callback_count) ==
  /\ IF new_callback_count = 0 /\ timer_sharing = TIMERS_SHARED
       THEN StartTimer(t) ELSE UNCHANGED timer
  /\ UNCHANGED timer_sharing

\* RegisteredCallback(new_callback_count): the first callback starts a
\* shared timer.
ESRegisteredCallback(t, new_callback_count) ==
  /\ IF new_callback_count = 1 /\ timer_sharing = TIMERS_SHARED
       THEN StartTimer(t) ELSE UNCHANGED timer
  /\ UNCHANGED timer_sharing

\* Fault variant: the last callback stops the timer whatever the sharing.
ESUnregisteredCallbackAnySharing(t, new_callback_count) ==
  /\ IF new_callback_count = 0 THEN StopTimer(t) ELSE UNCHANGED timer
  /\ UNCHANGED timer_sharing

\* UnregisteredCallback(new_callback_count): the last one stops it.
ESUnregisteredCallback(t, new_callback_count) ==
  /\ IF new_callback_count = 0 /\ timer_sharing = TIMERS_SHARED
       THEN StopTimer(t) ELSE UNCHANGED timer
  /\ UNCHANGED timer_sharing

\* Reset(): stop a shared timer, forget what detection found.
ESReset(t) ==
  /\ IF timer_sharing = TIMERS_SHARED THEN StopTimer(t) ELSE UNCHANGED timer
  /\ timer_sharing' = TIMERS_UNTOUCHED

=============================================================================
