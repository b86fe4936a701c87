\* Two callers, the loader and another client; three kinds of sio2man.
SPECIFICATION FairSpec
CONSTANTS
  Threads = {t1, t2}
  Loader = Loader
  Pad = Pad
  Drivers <- MCDrivers
INVARIANTS
  TypeOK
  Exclusive
  HandlerGivenBack
  HooksRemoved
PROPERTIES
  EveryoneServed
  HandedOver
\* A sio2man started under a call is refused its handler: its clients may wait
\* for an interrupt for ever, and the calls for them.
CHECK_DEADLOCK FALSE
