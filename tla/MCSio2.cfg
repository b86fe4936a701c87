\* Two threads; the alarm setting may change at any moment.
SPECIFICATION RunSpec
CONSTANTS
  t1 = t1
  t2 = t2
  Pad = Pad
  Threads <- MCThreads
  MaxRounds = 3
  AlarmSettings <- OnOff
INVARIANTS
  TypeOK
  CompleteIsOwn
  Sio2manUndisturbed
  TimeoutIsOwn
  CleanStart
PROPERTIES
  NoSwapWhileRunning
  LockReleased
  PromiseKept
  HandedOver
