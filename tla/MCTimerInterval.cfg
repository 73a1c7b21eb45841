\* Does StartTimer pass setitimer a valid, nonzero period for every frequency the constructor can choose?
CONSTANTS
  UIntBits = 16
  ULongBits = 24
  Magnitudes <- MCMagnitudes
  Absent = Absent
  NotANumber = NotANumber
  Unset = Unset
INIT Init
NEXT Next
INVARIANT TimerIntervalValid
