\* Two threads, one of which changes the alarm setting during the other's call.
SPECIFICATION Spec
CONSTANTS
  t1 = t1
  t2 = t2
  Pad = Pad
  Threads <- MCThreads
  MaxRounds = 2
  AlarmSettings <- OnOff
INVARIANTS
  GivenUpInTime
