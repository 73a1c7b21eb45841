------------------------- MODULE HandlerConfigProofs -------------------------
(***************************************************************************)
(* Proofs about what the ProfileHandler constructor reads from the        *)
(* environment, for every width of unsigned int and unsigned long and     *)
(* every magnitude CPUPROFILE_FREQUENCY may hold: frequency_ always ends  *)
(* in [1, 4000], and BuildEventSource picks the source the spec names.    *)
(***************************************************************************)
EXTENDS HandlerConfig, TLAPS

\* strtoul's result and its int32 reading are integers.
LEMMA ParsedIsInt ==
  ASSUME NEW x \in Numbers
  PROVE  AsInt32(StrToUL(x)) \in Int
  <1>1. x.mag \in Nat /\ x.neg \in BOOLEAN
    BY MagnitudesAssumption DEF Numbers
  <1>2. 2^ULongBits \in Nat \ {0} /\ 2^UIntBits \in Nat \ {0}
          /\ 2^(UIntBits - 1) \in Int
    BY WidthAssumption
  <1>3. StrToUL(x) \in Int
    BY <1>1, <1>2 DEF StrToUL
  <1>4. QED
    BY <1>2, <1>3 DEF AsInt32

\* The clamp of lines 331-340: a number that parses to a positive int32 is
\* cut to 4000, anything else gives the default 100.
LEMMA FrequencyBounds ==
  ASSUME NEW x
  PROVE  Frequency(x) \in 1..kMaxFrequency
  <1>1. CASE x \in Numbers /\ ~x.trailing /\ AsInt32(StrToUL(x)) > 0
    <2>1. PICK a \in Int : a = AsInt32(StrToUL(x))
      BY <1>1, ParsedIsInt
    <2>2. Frequency(x) = IF a > kMaxFrequency THEN kMaxFrequency ELSE a
      BY <1>1, <2>1, Zenon DEF Frequency
    <2>3. a > 0
      BY <1>1, <2>1
    <2>4. QED
      BY <2>2, <2>3 DEF kMaxFrequency
  <1>2. CASE ~(x \in Numbers /\ ~x.trailing /\ AsInt32(StrToUL(x)) > 0)
    BY <1>2 DEF Frequency, kMaxFrequency, kDefaultFrequency
  <1>3. QED
    BY <1>1, <1>2

(* Whatever CPUPROFILE_FREQUENCY holds, and whatever the widths of the     *)
(* integer types, the constructor leaves frequency_ in [1, 4000]: StartTimer *)
(* never divides by zero.                                                  *)
THEOREM FrequencyInRangeInvariant == Spec => []FrequencyInRange
  <1>1. FrequencyInRange
    BY FrequencyBounds DEF FrequencyInRange
  <1>2. QED
    BY <1>1, PTL

\* CPUPROFILE_EVENT set: its name decides, CPUPROFILE_REALTIME is ignored.
LEMMA BuildSetEvent ==
  ASSUME NEW ev \in EventStrings, NEW rt
  PROVE  BuildEventSource(ev, rt) = SpecEventSource(ev, rt)
  <1>1. ev # Unset
    BY UnsetAssumption DEF EventStrings
  <1>2. UseEventSourceType(ev, rt) = ev
    BY <1>1 DEF UseEventSourceType
  <1>3. CASE ev = "timer-realtime"
    BY <1>2, <1>3 DEF BuildEventSource, SpecEventSource
  <1>4. CASE ev = "thread-wallclock"
    BY <1>2, <1>4 DEF BuildEventSource, SpecEventSource
  <1>5. CASE ev \in {"timer-cpu", "", "other"}
    BY <1>1, <1>2, <1>5 DEF BuildEventSource, SpecEventSource
  <1>6. QED
    BY <1>3, <1>4, <1>5 DEF EventStrings

\* CPUPROFILE_EVENT unset: CPUPROFILE_REALTIME, with any value, picks the
\* real-time timer.
LEMMA BuildUnsetEvent ==
  ASSUME NEW rt
  PROVE  BuildEventSource(Unset, rt) = SpecEventSource(Unset, rt)
  <1>1. "timer-realtime" # Unset /\ "thread-wallclock" # Unset /\ "" # Unset
    BY UnsetAssumption DEF EventStrings
  <1>2. CASE rt = Unset
    <2>1. UseEventSourceType(Unset, rt) = ""
      BY <1>2 DEF UseEventSourceType
    <2>2. BuildEventSource(Unset, rt) = [class |-> "Timer", timer_type |-> ITIMER_PROF]
      BY <2>1 DEF BuildEventSource
    <2>3. SpecEventSource(Unset, rt) = [class |-> "Timer", timer_type |-> ITIMER_PROF]
      BY <1>1, <1>2 DEF SpecEventSource
    <2>4. QED
      BY <2>2, <2>3
  <1>3. CASE rt # Unset
    <2>1. UseEventSourceType(Unset, rt) = "timer-realtime"
      BY <1>3 DEF UseEventSourceType
    <2>2. BuildEventSource(Unset, rt) = [class |-> "Timer", timer_type |-> ITIMER_REAL]
      BY <2>1 DEF BuildEventSource
    <2>3. SpecEventSource(Unset, rt) = [class |-> "Timer", timer_type |-> ITIMER_REAL]
      BY <1>1, <1>3 DEF SpecEventSource
    <2>4. QED
      BY <2>2, <2>3
  <1>4. QED
    BY <1>2, <1>3

(* For every value of CPUPROFILE_EVENT and CPUPROFILE_REALTIME the         *)
(* constructor, through BuildEventSource, builds the source the spec names: *)
(* CPUPROFILE_EVENT wins when set, CPUPROFILE_REALTIME picks the real-time *)
(* timer only when it is not, and the default is the CPU-time timer.       *)
THEOREM EventSourceInvariant == Spec => []EventSourceMatchesSpec
  <1> DEFINE Inv == event_env \in EventStrings \cup {Unset}
                    /\ realtime_env \in {Unset, "", "1"}
  <1>2. Init => Inv
    BY DEF Init
  <1>3. Inv /\ [Next]_cfgVars => Inv'
    BY DEF Next, cfgVars
  <1>4. Inv => EventSourceMatchesSpec
    BY BuildSetEvent, BuildUnsetEvent DEF EventSourceMatchesSpec
  <1>5. QED
    BY <1>2, <1>3, <1>4, PTL DEF Spec

=============================================================================
