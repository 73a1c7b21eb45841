\* Does frequency_ follow the spec's clamping rule for every environment value?
CONSTANTS
  UIntBits = 16
  ULongBits = 24
  Magnitudes <- MCMagnitudes
  Absent = Absent
  NotANumber = NotANumber
  Unset = Unset
INIT Init
NEXT Next
INVARIANT FrequencyMatchesSpec
