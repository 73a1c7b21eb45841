\* Is frequency_ in [1, 4000], and is the event source the one the spec names, for every environment?
CONSTANTS
  UIntBits = 16
  ULongBits = 24
  Magnitudes <- MCEdgeMagnitudes
  Absent = Absent
  NotANumber = NotANumber
  Unset = Unset
INIT Init
NEXT Next
INVARIANTS
  FrequencyInRange
  EventSourceMatchesSpec
