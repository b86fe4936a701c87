--------------------------- MODULE MmceSio2Proofs ---------------------------
(***************************************************************************)
(* Proofs about MmceSio2, for any set of threads and any number of         *)
(* transfers per call.  The inductive invariant says, place by place, what *)
(* the thread that holds the lock may count on.                            *)
(***************************************************************************)
EXTENDS MmceSio2, TLAPS

\* The thread that sio2man's lock names is the one inside.
LockInv == \A t \in Threads : lock = t <=> pc[t] \in Inside

\* The SIO2 runs a transfer of ours only while its thread waits for it.
HardwareInv ==
    /\ lock = Nobody => sio2 # "running"
    /\ \A t \in Threads :
          /\ pc[t] \in InRound => sio2 # "idle"
          /\ pc[t] \in {"clear", "copy"} => sio2 = "complete"
          /\ pc[t] \in Inside \ InRound => sio2 # "running"

\* The installed handler, the control register and its saved copy.
PortInv ==
    /\ lock \notin Threads => handler = "sio2man" /\ ctrl = "sio2man"
    /\ \A t \in Threads :
          /\ pc[t] \in Swapped => handler = "mmce"
          /\ pc[t] \in Inside \ Swapped => handler = "sio2man"
          /\ pc[t] \in {"save", "release"} => ctrl = "sio2man"
          /\ pc[t] \in Inside \ {"save"} => save_ctrl = "sio2man"

\* COMPLETE, in the flag or as the result of a wait, is this transfer's.
CompleteInv ==
    /\ lock \notin Threads => COMPLETE \notin event_flag
    /\ \A t \in Threads :
          /\ pc[t] \in InRound /\ COMPLETE \in event_flag => sio2 = "complete"
          /\ pc[t] \in Inside \ (InRound \cup {"clear", "abortclear"})
                => COMPLETE \notin event_flag
          /\ pc[t] = "woken" => resbits[t] # {}
          /\ pc[t] = "woken" /\ COMPLETE \in resbits[t] => sio2 = "complete"

\* A call counts its transfers from none, goes on only after one that did not
\* time out, and has no alarm of its own before it sets one.
RequestInv ==
    \A t \in Threads :
       /\ pc[t] \in {"lock"} \cup Entering => rounds[t] = 0
       /\ pc[t] \in InRound \cup Settling => rounds[t] # 0
       /\ pc[t] \in {"clear", "copy"} => TIMEOUT \notin resbits[t]
       /\ pc[t] = "ready" /\ rounds[t] # 0 => TIMEOUT \notin resbits[t]
       /\ pc[t] = "arm" => ~armed[t]

EngineInv ==
    TypeOK /\ LockInv /\ HardwareInv /\ PortInv /\ CompleteInv /\ RequestInv

\* As long as nothing disturbs the setting: TIMEOUT and a pending alarm are this
\* transfer's.
Waiting == {"wait", "blocked", "woken"}

TimeoutInv ==
    /\ lock \notin Threads => TIMEOUT \notin event_flag /\ ~alarm
    /\ \A t \in Threads :
          /\ pc[t] \in Inside \ Waiting => ~alarm
          /\ pc[t] \in Inside \ (Waiting \cup {"clear", "abortclear"})
                => TIMEOUT \notin event_flag
          /\ pc[t] \in Waiting /\ alarm => armed[t] /\ TIMEOUT \notin event_flag
          /\ pc[t] \in Waiting /\ TIMEOUT \in event_flag => armed[t]
          /\ pc[t] \in Waiting /\ armed[t] => Times(t)
          /\ TimedOut(t) => TIMEOUT \in event_flag

QuietInv == ~disturbed => TimeoutInv

\* A step of the promise, under the refinement mapping of MmceSio2.
PromiseNext == [Promise!Next]_(Promise!pvars)

-----------------------------------------------------------------------------
(* The engine's invariant is inductive *)

LEMMA EngineInit == Init => EngineInv
<1> SUFFICES ASSUME Init PROVE EngineInv
  OBVIOUS
<1> USE DEF Init, Inside, Entering, Swapped, Between, InRound, Settling, Leaving, Nobody
<1>1. TypeOK
  <2>1. pc \in [Threads -> Outside \cup Inside] /\ kind \in [Threads -> Kinds]
    BY DEF Outside, Kinds
  <2>2. rounds \in [Threads -> 0 .. MaxRounds]
    BY RoundsAssumption
  <2>3. resbits \in [Threads -> SUBSET Bits] /\ armed \in [Threads -> BOOLEAN]
    OBVIOUS
  <2> QED
    BY <2>1, <2>2, <2>3 DEF TypeOK, Drivers
<1>2. LockInv /\ HardwareInv /\ PortInv /\ CompleteInv /\ RequestInv
  BY ThreadsAssumption DEF LockInv, HardwareInv, PortInv, CompleteInv, RequestInv
<1> QED
  BY <1>1, <1>2 DEF EngineInv

LEMMA EngineStep ==
    ASSUME EngineInv, [Next]_vars
    PROVE  EngineInv'
<1> USE ThreadsAssumption, RoundsAssumption, SettingsAssumption
    DEF EngineInv, TypeOK, LockInv, HardwareInv, PortInv, CompleteInv,
        RequestInv, Nobody, TIMEOUT, COMPLETE, Bits, Kinds, Drivers, Outside, Inside,
        Entering, Swapped, Between, InRound, Settling, Leaving, Goto, threadVars, setting, portVars
<1>1. ASSUME NEW t \in Threads, Call(t) PROVE EngineInv'
  BY <1>1 DEF Call
<1>2. ASSUME NEW t \in Threads, Lock(t) PROVE EngineInv'
  BY <1>2 DEF Lock
<1>3. ASSUME NEW t \in Threads, SaveCtrl(t) PROVE EngineInv'
  BY <1>3 DEF SaveCtrl
<1>4. ASSUME NEW t \in Threads, SwapHandler(t) PROVE EngineInv'
  BY <1>4 DEF SwapHandler
<1>5. ASSUME NEW t \in Threads, NEW k \in Kinds, StartTransfer(t, k)
      PROVE  EngineInv'
  BY <1>5 DEF StartTransfer, MoreToDo
<1>6. ASSUME NEW t \in Threads, ArmAlarm(t) PROVE EngineInv'
  BY <1>6 DEF ArmAlarm, Times
<1>7. ASSUME NEW t \in Threads, WaitReturns(t) PROVE EngineInv'
  BY <1>7 DEF WaitReturns
<1>8. ASSUME NEW t \in Threads, WaitBlocks(t) PROVE EngineInv'
  BY <1>8 DEF WaitBlocks
<1>9. ASSUME NEW t \in Threads, Abort(t) PROVE EngineInv'
  BY <1>9 DEF Abort, TimedOut
<1>10. ASSUME NEW t \in Threads, AbortClear(t) PROVE EngineInv'
  BY <1>10 DEF AbortClear, Cleared
<1>11. ASSUME NEW t \in Threads, Cancel(t) PROVE EngineInv'
  BY <1>11 DEF Cancel, Times
<1>12. ASSUME NEW t \in Threads, Clear(t) PROVE EngineInv'
  BY <1>12 DEF Clear, Cleared
<1>13. ASSUME NEW t \in Threads, Copy(t) PROVE EngineInv'
  BY <1>13 DEF Copy
<1>14. ASSUME NEW t \in Threads, UnswapHandler(t) PROVE EngineInv'
  BY <1>14 DEF UnswapHandler
<1>15. ASSUME NEW t \in Threads, RestoreCtrl(t) PROVE EngineInv'
  BY <1>15 DEF RestoreCtrl
<1>16. ASSUME NEW t \in Threads, Release(t) PROVE EngineInv'
  BY <1>16 DEF Release
<1>17. ASSUME NEW t \in Threads, NEW v \in AlarmSettings, SetUseAlarm(t, v)
      PROVE  EngineInv'
  BY <1>17 DEF SetUseAlarm
<1>18. CASE MmceIntrHandler
  BY <1>18 DEF MmceIntrHandler, SetEventFlag
<1>19. CASE Sio2manIntrHandler
  BY <1>19 DEF Sio2manIntrHandler
<1>20. CASE MmceTimeoutHandler
  <2>1. TypeOK'
    BY <1>20 DEF MmceTimeoutHandler, SetEventFlag
  <2>2. LockInv' /\ HardwareInv'
    BY <1>20 DEF MmceTimeoutHandler, SetEventFlag
  <2>3. PortInv'
    BY <1>20 DEF MmceTimeoutHandler, SetEventFlag
  <2>4. CompleteInv'
    BY <1>20 DEF MmceTimeoutHandler, SetEventFlag
  <2>5. RequestInv'
    BY <1>20 DEF MmceTimeoutHandler, SetEventFlag
  <2> HIDE DEF TypeOK, LockInv, HardwareInv, PortInv, CompleteInv, RequestInv
  <2> QED
    BY <2>1, <2>2, <2>3, <2>4, <2>5
<1>21. CASE PadLocks
  BY <1>21 DEF PadLocks
<1>22. CASE PadTransfers
  BY <1>22 DEF PadTransfers
<1>23. CASE PadUnlocks
  BY <1>23 DEF PadUnlocks
<1>24. CASE UNCHANGED vars
  BY <1>24 DEF vars, threadVars, setting, portVars
<1> HIDE DEF EngineInv
<1> QED
  BY <1>1, <1>2, <1>3, <1>4, <1>5, <1>6, <1>7, <1>8, <1>9, <1>10, <1>11,
     <1>12, <1>13, <1>14, <1>15, <1>16, <1>17, <1>18, <1>19, <1>20, <1>21, <1>22, <1>23, <1>24
  DEF Next, Holder, CardCompletes, PadNext

\* Every behaviour of the engine satisfies the invariant, and with it the
\* types of the variables.
THEOREM EngineInvariant == Spec => []EngineInv
BY EngineInit, EngineStep, PTL DEF Spec

\* The types of mmce_sio2.c's globals and of each thread's locals are kept.
THEOREM TypeCorrect == Spec => []TypeOK
<1>1. EngineInv => TypeOK
  BY DEF EngineInv
<1> QED
  BY <1>1, EngineInvariant, PTL

\* A transfer that mmce_sio2_tx_rx_pio and its siblings report as done was
\* completed by the SIO2: for any number of threads, and however the alarm
\* setting is changed meanwhile.
THEOREM CompleteIsOwnAlways == Spec => []CompleteIsOwn
<1>1. EngineInv => CompleteIsOwn
  BY DEF EngineInv, LockInv, HardwareInv, CompleteIsOwn, Inside, Swapped, Settling
<1> QED
  BY <1>1, EngineInvariant, PTL

\* mmce_sio2_unlock leaves sio2man's handler and control setting behind,
\* whichever way the transfers ended.
THEOREM Sio2manUndisturbedAlways == Spec => []Sio2manUndisturbed
<1>1. EngineInv => Sio2manUndisturbed
  BY ThreadsAssumption DEF EngineInv, PortInv, Sio2manUndisturbed
<1> QED
  BY <1>1, EngineInvariant, PTL

\* mmce_sio2_lock and mmce_sio2_unlock exchange the handler only while no
\* transfer runs, because a timed out transfer is reset first.
THEOREM NoSwapWhileRunningAlways == Spec => NoSwapWhileRunning
<1>1. ASSUME EngineInv, [Next]_vars, handler' # handler
      PROVE  sio2 # "running"
  <2>1. PICK t \in Threads : SwapHandler(t) \/ UnswapHandler(t)
    BY <1>1
    DEF Next, Holder, CardCompletes, PadNext, vars, threadVars, setting, portVars, Call, Lock,
        SaveCtrl, StartTransfer, ArmAlarm, WaitReturns, WaitBlocks, Abort,
        AbortClear, Cancel, Clear, Copy, RestoreCtrl, Release, SetUseAlarm,
        MmceIntrHandler, Sio2manIntrHandler, MmceTimeoutHandler, PadLocks,
        PadTransfers, PadUnlocks
  <2>2. pc[t] \in Inside \ InRound
    BY <2>1 DEF SwapHandler, UnswapHandler, Inside, Entering, Swapped, Between, InRound
  <2> QED
    BY <1>1, <2>2 DEF EngineInv, HardwareInv
<1> QED
  BY <1>1, EngineInvariant, PTL DEF Spec, NoSwapWhileRunning

-----------------------------------------------------------------------------
(* As long as the setting stays put during each call, an alarm never       *)
(* outlives the transfer that set it                                       *)

LEMMA TimeoutInit == Init => QuietInv
BY ThreadsAssumption
DEF Init, QuietInv, TimeoutInv, Nobody, TimedOut, Times, Inside, Entering, Swapped, Between,
    InRound, Settling, Leaving, Waiting

LEMMA TimeoutStep ==
    ASSUME EngineInv, TimeoutInv, [Next]_vars, ~disturbed'
    PROVE  TimeoutInv'
<1> USE ThreadsAssumption
    DEF EngineInv, TypeOK, LockInv, TimeoutInv, Nobody, TIMEOUT, COMPLETE, Bits,
        Kinds, Outside, Inside, Entering, Swapped, Between, InRound, Settling,
        Leaving, Waiting, Goto, TimedOut, Times, threadVars, setting, portVars
<1>1. ASSUME NEW t \in Threads, Call(t) PROVE TimeoutInv'
  BY <1>1 DEF Call
<1>2. ASSUME NEW t \in Threads, Lock(t) PROVE TimeoutInv'
  BY <1>2 DEF Lock
<1>3. ASSUME NEW t \in Threads, SaveCtrl(t) PROVE TimeoutInv'
  BY <1>3 DEF SaveCtrl
<1>4. ASSUME NEW t \in Threads, SwapHandler(t) PROVE TimeoutInv'
  BY <1>4 DEF SwapHandler
<1>5. ASSUME NEW t \in Threads, NEW k \in Kinds, StartTransfer(t, k)
      PROVE  TimeoutInv'
  BY <1>5 DEF StartTransfer, MoreToDo
<1>6. ASSUME NEW t \in Threads, ArmAlarm(t) PROVE TimeoutInv'
  BY <1>6 DEF ArmAlarm
<1>7. ASSUME NEW t \in Threads, WaitReturns(t) PROVE TimeoutInv'
  BY <1>7 DEF WaitReturns
<1>8. ASSUME NEW t \in Threads, WaitBlocks(t) PROVE TimeoutInv'
  BY <1>8 DEF WaitBlocks
<1>9. ASSUME NEW t \in Threads, Abort(t) PROVE TimeoutInv'
  BY <1>9 DEF Abort
<1>10. ASSUME NEW t \in Threads, AbortClear(t) PROVE TimeoutInv'
  BY <1>10 DEF AbortClear, Cleared
<1>11. ASSUME NEW t \in Threads, Cancel(t) PROVE TimeoutInv'
  BY <1>11 DEF Cancel
<1>12. ASSUME NEW t \in Threads, Clear(t) PROVE TimeoutInv'
  BY <1>12 DEF Clear, Cleared
<1>13. ASSUME NEW t \in Threads, Copy(t) PROVE TimeoutInv'
  BY <1>13 DEF Copy
<1>14. ASSUME NEW t \in Threads, UnswapHandler(t) PROVE TimeoutInv'
  BY <1>14 DEF UnswapHandler
<1>15. ASSUME NEW t \in Threads, RestoreCtrl(t) PROVE TimeoutInv'
  BY <1>15 DEF RestoreCtrl
<1>16. ASSUME NEW t \in Threads, Release(t) PROVE TimeoutInv'
  BY <1>16 DEF Release
<1>17. ASSUME NEW t \in Threads, NEW v \in AlarmSettings, SetUseAlarm(t, v)
      PROVE  TimeoutInv'
  BY <1>17 DEF SetUseAlarm
<1>18. CASE MmceIntrHandler
  BY <1>18 DEF MmceIntrHandler, SetEventFlag
<1>19. CASE Sio2manIntrHandler
  BY <1>19 DEF Sio2manIntrHandler
<1>20. CASE MmceTimeoutHandler
  BY <1>20 DEF MmceTimeoutHandler, SetEventFlag
<1>21. CASE PadLocks
  BY <1>21 DEF PadLocks
<1>22. CASE PadTransfers
  BY <1>22 DEF PadTransfers
<1>23. CASE PadUnlocks
  BY <1>23 DEF PadUnlocks
<1>24. CASE UNCHANGED vars
  BY <1>24 DEF vars, threadVars, setting, portVars
<1> QED
  BY <1>1, <1>2, <1>3, <1>4, <1>5, <1>6, <1>7, <1>8, <1>9, <1>10, <1>11,
     <1>12, <1>13, <1>14, <1>15, <1>16, <1>17, <1>18, <1>19, <1>20, <1>21, <1>22, <1>23, <1>24
  DEF Next, Holder, CardCompletes, PadNext

\* disturbed is history: once set it stays.
LEMMA DisturbedStays ==
    ASSUME [Next]_vars, disturbed
    PROVE  disturbed'
BY DEF Next, Holder, CardCompletes, PadNext, vars, setting, Call, Lock, SaveCtrl,
       SwapHandler, StartTransfer, ArmAlarm, WaitReturns, WaitBlocks, Abort,
       AbortClear, Cancel, Clear, Copy, UnswapHandler, RestoreCtrl, Release,
       SetUseAlarm, MmceIntrHandler, Sio2manIntrHandler, MmceTimeoutHandler,
       PadLocks, PadTransfers, PadUnlocks

THEOREM QuietInvariant == Spec => [](EngineInv /\ QuietInv)
<1>1. EngineInv /\ QuietInv /\ [Next]_vars => (EngineInv /\ QuietInv)'
  BY EngineStep, TimeoutStep, DisturbedStays DEF QuietInv
<1> QED
  BY <1>1, EngineInit, TimeoutInit, PTL DEF Spec

\* No transfer is given up before its own alarm: every alarm that completion
\* beats is cancelled, and no bit an alarm set survives its transfer.
THEOREM TimeoutIsOwnAlways == Spec => []TimeoutIsOwn
<1>1. EngineInv /\ QuietInv => TimeoutIsOwn
  BY DEF QuietInv, TimeoutInv, TimeoutIsOwn, TimedOut, Waiting
<1> QED
  BY <1>1, QuietInvariant, PTL

\* Between two transfers, after a timeout as after a completion, the event
\* flag is empty and no alarm is pending.
THEOREM CleanStartAlways == Spec => []CleanStart
<1>1. EngineInv /\ QuietInv => CleanStart
  BY DEF EngineInv, TypeOK, CompleteInv, QuietInv, TimeoutInv, CleanStart, Bits, Inside,
         Swapped, Between, InRound, Waiting
<1> QED
  BY <1>1, QuietInvariant, PTL

-----------------------------------------------------------------------------
(* The engine implements Sio2Promise *)

LEMMA PromiseInit == Init => Promise!Init
BY ThreadsAssumption
DEF Init, Promise!Init, request, answered, expired, Nobody

LEMMA PromiseStep ==
    ASSUME EngineInv, QuietInv, [Next]_vars
    PROVE  PromiseNext
<1> USE ThreadsAssumption
    DEF EngineInv, TypeOK, LockInv, QuietInv, TimeoutInv, Nobody, TIMEOUT, COMPLETE, Bits,
        Kinds, Outside, Inside, Entering, Swapped, Between, InRound, Settling,
        Leaving, Waiting, Goto, TimedOut, Times, threadVars, setting, portVars, HardwareInv,
        RequestInv, PromiseNext, request, answered, expired, Promise!pvars, Promise!Next,
        Promise!Acquire, Promise!Ask, Promise!Answer, Promise!Expire, Promise!Report,
        Promise!Disturb, Promise!LetGo
<1>1. ASSUME NEW t \in Threads, Call(t) PROVE PromiseNext
  BY <1>1 DEF Call
<1>2. ASSUME NEW t \in Threads, Lock(t) PROVE PromiseNext
  BY <1>2 DEF Lock
<1>3. ASSUME NEW t \in Threads, SaveCtrl(t) PROVE PromiseNext
  BY <1>3 DEF SaveCtrl
<1>4. ASSUME NEW t \in Threads, SwapHandler(t) PROVE PromiseNext
  BY <1>4 DEF SwapHandler
<1>5. ASSUME NEW t \in Threads, NEW k \in Kinds, StartTransfer(t, k)
      PROVE  PromiseNext
  BY <1>5 DEF StartTransfer, MoreToDo
<1>6. ASSUME NEW t \in Threads, ArmAlarm(t) PROVE PromiseNext
  <2>1. lock = t /\ UNCHANGED <<lock, disturbed>>
    BY <1>6 DEF ArmAlarm
  <2>2. request = "open" /\ request' = "open" /\ UNCHANGED answered
    BY <1>6, <2>1 DEF ArmAlarm
  <2>3. ~expired /\ ~expired'
    BY <1>6, <2>1 DEF ArmAlarm
  <2>4. expired' = expired
    BY <2>3
  <2> QED
    BY <2>1, <2>2, <2>4
<1>7. ASSUME NEW t \in Threads, WaitReturns(t) PROVE PromiseNext
  BY <1>7 DEF WaitReturns
<1>8. ASSUME NEW t \in Threads, WaitBlocks(t) PROVE PromiseNext
  BY <1>8 DEF WaitBlocks
<1>9. ASSUME NEW t \in Threads, Abort(t) PROVE PromiseNext
  BY <1>9 DEF Abort
<1>10. ASSUME NEW t \in Threads, AbortClear(t) PROVE PromiseNext
  BY <1>10 DEF AbortClear, Cleared
<1>11. ASSUME NEW t \in Threads, Cancel(t) PROVE PromiseNext
  BY <1>11 DEF Cancel, CompleteInv
<1>12. ASSUME NEW t \in Threads, Clear(t) PROVE PromiseNext
  BY <1>12 DEF Clear, Cleared
<1>13. ASSUME NEW t \in Threads, Copy(t) PROVE PromiseNext
  BY <1>13 DEF Copy
<1>14. ASSUME NEW t \in Threads, UnswapHandler(t) PROVE PromiseNext
  BY <1>14 DEF UnswapHandler
<1>15. ASSUME NEW t \in Threads, RestoreCtrl(t) PROVE PromiseNext
  BY <1>15 DEF RestoreCtrl
<1>16. ASSUME NEW t \in Threads, Release(t) PROVE PromiseNext
  BY <1>16 DEF Release
<1>17. ASSUME NEW t \in Threads, NEW v \in AlarmSettings, SetUseAlarm(t, v)
      PROVE  PromiseNext
  <2>1. UNCHANGED <<lock, request, answered, expired>>
    BY <1>17 DEF SetUseAlarm
  <2>2. UNCHANGED disturbed \/ (lock \in Threads /\ disturbed' = TRUE)
    BY <1>17 DEF SetUseAlarm
  <2> QED
    BY <2>1, <2>2
<1>18. CASE MmceIntrHandler
  BY <1>18 DEF MmceIntrHandler, SetEventFlag
<1>19. CASE Sio2manIntrHandler
  BY <1>19 DEF Sio2manIntrHandler
<1>20. CASE MmceTimeoutHandler
  BY <1>20 DEF MmceTimeoutHandler, SetEventFlag
<1>21. CASE PadLocks
  <2>1. request = "none" /\ request' = "none"
    BY <1>21 DEF PadLocks
  <2>2. Promise!Acquire(Pad)
    BY <1>21, <2>1 DEF PadLocks
  <2> QED
    BY <2>2
<1>22. CASE PadTransfers
  BY <1>22 DEF PadTransfers
<1>23. CASE PadUnlocks
  BY <1>23 DEF PadUnlocks
<1>24. CASE UNCHANGED vars
  BY <1>24 DEF vars, threadVars, setting, portVars
<1> HIDE DEF PromiseNext, EngineInv, QuietInv
<1> QED
  BY <1>1, <1>2, <1>3, <1>4, <1>5, <1>6, <1>7, <1>8, <1>9, <1>10, <1>11,
     <1>12, <1>13, <1>14, <1>15, <1>16, <1>17, <1>18, <1>19, <1>20, <1>21, <1>22, <1>23, <1>24
  DEF Next, Holder, CardCompletes, PadNext

\* For any number of threads and transfers, the locks, transfers and timeouts of
\* mmce_sio2.c are those Sio2Promise allows: one user at a time, done only when
\* answered, nothing asked after one given up; and given up only when its own time
\* ran out, as long as the alarm setting is not changed during a call.
THEOREM EngineKeepsPromise == Spec => PromiseKept
<1>1. EngineInv /\ QuietInv /\ [Next]_vars => PromiseNext
  BY PromiseStep
<1> QED
  BY <1>1, PromiseInit, QuietInvariant, PTL
  DEF Spec, PromiseKept, Promise!Spec, PromiseNext

-----------------------------------------------------------------------------
(* The engine implements HandOver *)

Handed == [HandOver!Next]_(HandOver!hvars)

LEMMA HandedStep ==
    ASSUME EngineInv, [Next]_vars
    PROVE  Handed
<1> USE ThreadsAssumption
    DEF EngineInv, LockInv, PortInv, Nobody, Outside, Inside, Entering, Swapped, Between,
        InRound, Settling, Leaving, Goto, threadVars, setting, portVars, Handed, HandOver!hvars,
        HandOver!Next, HandOver!Acquire, HandOver!Exchange, HandOver!LetGo
<1>1. ASSUME NEW t \in Threads, Lock(t) PROVE Handed
  BY <1>1 DEF Lock
<1>2. ASSUME NEW t \in Threads, SwapHandler(t) PROVE Handed
  BY <1>2 DEF SwapHandler
<1>3. ASSUME NEW t \in Threads, UnswapHandler(t) PROVE Handed
  BY <1>3 DEF UnswapHandler
<1>4. ASSUME NEW t \in Threads, Release(t) PROVE Handed
  BY <1>4 DEF Release
<1>5. ASSUME NEW t \in Threads,
             \/ Call(t) \/ SaveCtrl(t) \/ (\E k \in Kinds : StartTransfer(t, k))
             \/ ArmAlarm(t) \/ WaitReturns(t) \/ WaitBlocks(t) \/ Abort(t) \/ AbortClear(t)
             \/ Cancel(t) \/ Clear(t) \/ Copy(t) \/ RestoreCtrl(t)
             \/ \E v \in AlarmSettings : SetUseAlarm(t, v)
      PROVE  Handed
  BY <1>5 DEF Call, SaveCtrl, StartTransfer, ArmAlarm, WaitReturns, WaitBlocks, Abort,
              AbortClear, Cancel, Clear, Copy, RestoreCtrl, SetUseAlarm
<1>6. CASE CardCompletes \/ MmceTimeoutHandler
  BY <1>6 DEF CardCompletes, MmceIntrHandler, Sio2manIntrHandler, MmceTimeoutHandler
<1>7. CASE PadLocks
  BY <1>7 DEF PadLocks
<1>8. CASE PadTransfers
  BY <1>8 DEF PadTransfers
<1>9. CASE PadUnlocks
  BY <1>9 DEF PadUnlocks
<1>10. CASE UNCHANGED vars
  BY <1>10 DEF vars
<1> HIDE DEF Handed, EngineInv
<1> QED
  BY <1>1, <1>2, <1>3, <1>4, <1>5, <1>6, <1>7, <1>8, <1>9, <1>10 DEF Next, Holder, PadNext

\* mmce_sio2_lock and mmce_sio2_unlock, for any threads and settings: only the
\* thread that holds the SIO2 exchanges the interrupt handler, and it puts
\* sio2man's back before anyone else has the SIO2.
THEOREM EngineHandsOver == Spec => HandedOver
<1>1. Init => HandOver!Init
  BY DEF Init, HandOver!Init
<1>2. EngineInv /\ [Next]_vars => [HandOver!Next]_(HandOver!hvars)
  BY HandedStep DEF Handed
<1> QED
  BY <1>1, <1>2, EngineInvariant, PTL DEF Spec, HandedOver, HandOver!Spec

=============================================================================
