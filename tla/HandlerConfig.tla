--------------------------- MODULE HandlerConfig ---------------------------
(***************************************************************************)
(* What the ProfileHandler constructor reads from the environment: the    *)
(* event source BuildEventSource() chooses from CPUPROFILE_EVENT and       *)
(* CPUPROFILE_REALTIME, and how CPUPROFILE_FREQUENCY becomes frequency_,   *)
(* which TimerProfileEventSource::StartTimer turns into the itimerval it  *)
(* passes to setitimer().                                                  *)
(*                                                                         *)
(* The environment string is abstracted to what sscanf("%u%c") tells      *)
(* apart: absent, not a number, or an optional '-' sign, a magnitude and  *)
(* whether characters follow the digits.  Widths are CONSTANTS: the code  *)
(* parses into an unsigned long (ULongBits) and stores it through an      *)
(* unsigned* into an int32 (UIntBits); the model instance scales them     *)
(* down so that TLC's integers can hold the wrap-around cases.            *)
(***************************************************************************)
EXTENDS Integers

CONSTANTS
  UIntBits,     \* width of unsigned int / int32 (32 on the targets)
  ULongBits,    \* width of unsigned long (64 on LP64 targets)
  Magnitudes,   \* the magnitudes of the numbers the environment may hold
  Absent,       \* getenv returns NULL
  NotANumber,   \* a string in which %u matches nothing
  Unset         \* getenv returns NULL for CPUPROFILE_EVENT or _REALTIME

\* The last line states two facts of arithmetic about the powers of two
\* that follow from the first, for the provers, which know nothing of ^.
ASSUME WidthAssumption ==
  /\ UIntBits \in Nat \ {0, 1} /\ ULongBits \in Nat /\ UIntBits <= ULongBits
  /\ 4000 < 2^(UIntBits - 1)
  /\ 2^UIntBits = 2 * 2^(UIntBits - 1) /\ 2^UIntBits <= 2^ULongBits
ASSUME MagnitudesAssumption == Magnitudes \subseteq Nat

kMaxFrequency == 4000
kDefaultFrequency == 100

\* A numeric string: sign, magnitude, and whether anything follows it.
Numbers == [neg : BOOLEAN, mag : Magnitudes, trailing : BOOLEAN]
Inputs == {Absent, NotANumber} \cup Numbers

\* The strings CPUPROFILE_EVENT may hold: the three names the code knows,
\* the empty string, and one it does not know.
EventStrings == {"timer-realtime", "thread-wallclock", "timer-cpu", "", "other"}

\* getenv's NULL is none of the strings the environment may hold.
ASSUME UnsetAssumption == Unset \notin EventStrings \cup {"1"}

VARIABLES
  env,           \* the value of CPUPROFILE_FREQUENCY at construction
  event_env,     \* the value of CPUPROFILE_EVENT, or Unset
  realtime_env   \* the value of CPUPROFILE_REALTIME, or Unset

cfgVars == <<env, event_env, realtime_env>>

(***************************************************************************)
(* BuildEventSource(event_source_type = string()), as the constructor     *)
(* calls it.  The result is the class and timer type of the new object.  *)
(***************************************************************************)
ITIMER_REAL == "ITIMER_REAL"
ITIMER_PROF == "ITIMER_PROF"

\* Fault variant: CPUPROFILE_REALTIME consulted before CPUPROFILE_EVENT.
UseEventSourceTypeRealtimeFirst(ev, rt) ==
  IF rt # Unset THEN "timer-realtime"
  ELSE IF ev # Unset THEN ev ELSE ""

\* use_event_source_type before the empty-string default (lines 558-564).
UseEventSourceType(ev, rt) ==
  IF ev # Unset THEN ev
  ELSE IF rt # Unset THEN "timer-realtime" ELSE ""

BuildEventSource(ev, rt) ==
  LET use == IF UseEventSourceType(ev, rt) = "" THEN "timer-cpu"
                                                ELSE UseEventSourceType(ev, rt)
  IN  CASE use = "timer-realtime"   -> [class |-> "Timer", timer_type |-> ITIMER_REAL]
        [] use = "thread-wallclock" -> [class |-> "Thread", timer_type |-> "none"]
        [] OTHER                    -> [class |-> "Timer", timer_type |-> ITIMER_PROF]

(* strtoul as %u uses it: saturates at ULONG_MAX, negates modulo 2^w.     *)
StrToUL(x) ==
  IF x.mag >= 2^ULongBits THEN 2^ULongBits - 1
  ELSE IF x.neg THEN (2^ULongBits - x.mag) % 2^ULongBits
  ELSE x.mag

(* The unsigned value stored through unsigned* and read back as int32.     *)
AsInt32(u) ==
  LET w == u % 2^UIntBits
  IN  IF w >= 2^(UIntBits - 1) THEN w - 2^UIntBits ELSE w

\* Fault variant: the frequency_ > 0 test dropped.
FrequencyNoPositiveCheck(x) ==
  IF x \in Numbers /\ ~x.trailing
    THEN IF AsInt32(StrToUL(x)) > kMaxFrequency
           THEN kMaxFrequency ELSE AsInt32(StrToUL(x))
    ELSE kDefaultFrequency

(* ProfileHandler::ProfileHandler, lines 331-340.                          *)
Frequency(x) ==
  IF /\ x \in Numbers
     /\ ~x.trailing                  \* sscanf(fr, "%u%c", ...) == 1
     /\ AsInt32(StrToUL(x)) > 0
    THEN IF AsInt32(StrToUL(x)) > kMaxFrequency
           THEN kMaxFrequency ELSE AsInt32(StrToUL(x))
    ELSE kDefaultFrequency

(* StartTimer: it_interval.tv_usec = 1000000 / frequency, it_value the same. *)
TimerUsec(f) == 1000000 \div f

Init ==
  /\ env \in Inputs
  /\ event_env \in EventStrings \cup {Unset}
  /\ realtime_env \in {Unset, "", "1"}
Next == UNCHANGED cfgVars
Spec == Init /\ [][Next]_cfgVars

-----------------------------------------------------------------------------
(* Whatever CPUPROFILE_FREQUENCY holds, including values that wrap        *)
(* through int32, the constructor leaves frequency_ in [1, 4000], so the   *)
(* division in StartTimer never divides by zero or yields a zero period.  *)
FrequencyInRange == Frequency(env) \in 1..kMaxFrequency

(* The source the spec describes: a set CPUPROFILE_EVENT names the source *)
(* (an unknown name gives the default); CPUPROFILE_REALTIME, with any     *)
(* value, picks the real-time timer only when CPUPROFILE_EVENT is unset;  *)
(* otherwise the CPU-time timer.                                          *)
SpecEventSource(ev, rt) ==
  CASE ev = "timer-realtime" \/ (ev = Unset /\ rt # Unset)
         -> [class |-> "Timer", timer_type |-> ITIMER_REAL]
    [] ev = "thread-wallclock" -> [class |-> "Thread", timer_type |-> "none"]
    [] OTHER -> [class |-> "Timer", timer_type |-> ITIMER_PROF]

(* The constructor's BuildEventSource() picks the source the spec names  *)
(* for every combination of the two variables, the empty values included. *)
EventSourceMatchesSpec ==
  BuildEventSource(event_env, realtime_env) = SpecEventSource(event_env, realtime_env)

(* What the spec says the frequency is: a positive integer clamped to     *)
(* 4000, the default 100 when absent, zero, negative or not a number.     *)
SpecFrequency(x) ==
  IF x \in Numbers /\ ~x.trailing /\ ~x.neg /\ x.mag > 0
    THEN IF x.mag > kMaxFrequency THEN kMaxFrequency ELSE x.mag
    ELSE kDefaultFrequency

(* The constructor sets frequency_ as the spec says for every value of     *)
(* CPUPROFILE_FREQUENCY, including numbers past the width of int32.        *)
FrequencyMatchesSpec == Frequency(env) = SpecFrequency(env)

(* The itimerval StartTimer passes to setitimer is one Linux accepts and   *)
(* that arms the timer: 0 < tv_usec < 1000000 (setitimer's return value    *)
(* is not checked, so an invalid one leaves the timer silently off).       *)
TimerIntervalValid ==
  TimerUsec(Frequency(env)) \in 1..999999

=============================================================================
