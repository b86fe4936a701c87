------------------------------ MODULE MmceSio2 ------------------------------
(***************************************************************************)
(* The transfer engine of mmceman (mmce_sio2.c): the lock that takes the   *)
(* SIO2 port away from sio2man, the swap of the interrupt handler, and the *)
(* transfers that wait for "complete or timed out" on one event flag.      *)
(*                                                                         *)
(* Every thread of the IOP that calls a file-system, command or block      *)
(* device operation runs  lock ; transfer, ..., transfer ; unlock.  The    *)
(* transfers are abstracted to what they do to the shared state: a "timed" *)
(* transfer (tx_rx_pio, tx_mixed) always sets the timeout alarm, an        *)
(* "untimable" one (rx_dma, rx_mixed) only while mmce_sio2_use_alarm is    *)
(* set.  What is carried, in which pieces, is module MmceXfer.             *)
(*                                                                         *)
(* The SIO2 hardware, the kernel's event flag and alarms, and sio2man with *)
(* its other clients (pads, memory cards) are external.  sio2man 2.7 is    *)
(* taken to be hooked, so that the lock is real.                           *)
(***************************************************************************)
EXTENDS Naturals, FiniteSets

CONSTANTS
    Threads,          \* the IOP threads that call into mmceman
    Pad,              \* any other client of sio2man
    MaxRounds,        \* bound: transfers one call makes under one lock
    AlarmSettings     \* the values mmce_sio2_set_use_alarm is called with

ASSUME ThreadsAssumption == Pad \notin Threads /\ "nobody" \notin Threads \cup {Pad}
ASSUME RoundsAssumption == MaxRounds \in Nat \ {0}
ASSUME SettingsAssumption == AlarmSettings \subseteq BOOLEAN

Nobody == "nobody"

TIMEOUT  == "timeout"     \* EF_SIO2_TRANSFER_TIMEOUT
COMPLETE == "complete"    \* EF_SIO2_INTR_COMPLETE
Bits == {TIMEOUT, COMPLETE}

Kinds == {"timed", "untimable"}

VARIABLES
    pc,         \* where each thread is
    rounds,     \* transfers it has made under this lock
    kind,       \* the kind of its current transfer
    resbits,    \* what its WaitEventFlag returned
    armed,      \* did its current transfer's SetAlarm succeed?
    event_flag, \* the bits of the event flag
    alarm,      \* is the timeout alarm pending in the kernel?
    use_alarm,  \* mmce_sio2_use_alarm
    disturbed,  \* history: has it been changed during a call?
    sio2,       \* the hardware: idle, running, complete
    ctrl,       \* whose setting the SIO2 control register holds
    save_ctrl,  \* sio2_save_ctrl
    handler,    \* whose interrupt handler is installed
    lock        \* the holder of sio2man's lock

threadVars == <<pc, rounds, kind, resbits, armed>>
portVars   == <<sio2, ctrl, save_ctrl, handler, lock>>
setting == <<use_alarm, disturbed>>
vars == <<threadVars, event_flag, alarm, setting, portVars>>

Drivers == {"sio2man", "mmce"}

\* Where a thread is: before the lock, inside lock(), between transfers, in a
\* transfer, after one that timed out, inside unlock().
Outside  == {"idle", "lock"}
Entering == {"save", "swap"}
InRound  == {"arm", "wait", "blocked", "woken"}
Settling == {"clear", "abortclear", "copy"}
Leaving  == {"restore", "release"}
Between  == {"ready", "failed"}
Swapped  == Between \cup InRound \cup Settling
Inside   == Entering \cup Swapped \cup Leaving

TypeOK ==
    /\ pc \in [Threads -> Outside \cup Inside]
    /\ rounds \in [Threads -> 0 .. MaxRounds]
    /\ kind \in [Threads -> Kinds]
    /\ resbits \in [Threads -> SUBSET Bits]
    /\ armed \in [Threads -> BOOLEAN]
    /\ event_flag \in SUBSET Bits
    /\ alarm \in BOOLEAN
    /\ use_alarm \in BOOLEAN
    /\ sio2 \in {"idle", "running", "complete"}
    /\ ctrl \in Drivers
    /\ save_ctrl \in Drivers
    /\ handler \in Drivers
    /\ lock \in Threads \cup {Pad, Nobody}
    /\ disturbed \in BOOLEAN

Init ==
    /\ pc = [t \in Threads |-> "idle"]
    /\ rounds = [t \in Threads |-> 0]
    /\ kind = [t \in Threads |-> "timed"]
    /\ resbits = [t \in Threads |-> {}]
    /\ armed = [t \in Threads |-> FALSE]
    /\ event_flag = {}
    /\ alarm = FALSE
    /\ use_alarm = TRUE
    /\ sio2 = "idle"
    /\ ctrl = "sio2man"
    /\ save_ctrl = "sio2man"
    /\ handler = "sio2man"
    /\ lock = Nobody
    /\ disturbed = FALSE

Goto(t, p) == pc' = [pc EXCEPT ![t] = p]

-----------------------------------------------------------------------------
(* mmce_sio2_lock *)

Call(t) ==
    /\ pc[t] = "idle"
    /\ Goto(t, "lock")
    /\ rounds' = [rounds EXCEPT ![t] = 0]
    /\ UNCHANGED <<kind, resbits, armed, event_flag, alarm, setting, portVars>>

\* Faulty: the lock is not waited for (the hook is not installed).
LockNotTaken(t) ==
    /\ pc[t] = "lock"
    /\ lock' = IF lock = Nobody THEN t ELSE lock
    /\ Goto(t, "save")
    /\ UNCHANGED <<rounds, kind, resbits, armed, event_flag, alarm, setting, sio2,
                   ctrl, save_ctrl, handler>>

Lock(t) ==
    /\ pc[t] = "lock"
    /\ lock = Nobody
    /\ lock' = t
    /\ Goto(t, "save")
    /\ UNCHANGED <<rounds, kind, resbits, armed, event_flag, alarm, setting, sio2,
                   ctrl, save_ctrl, handler>>

SaveCtrl(t) ==
    /\ pc[t] = "save"
    /\ save_ctrl' = ctrl
    /\ Goto(t, "swap")
    /\ UNCHANGED <<rounds, kind, resbits, armed, event_flag, alarm, setting, sio2,
                   ctrl, handler, lock>>

\* The settings of the port (portN_ctrl), which the lock goes on to write, are
\* no part of the model: they decide when the SIO2 finishes, and it may do so
\* at any moment.
SwapHandler(t) ==
    /\ pc[t] = "swap"
    /\ handler' = "mmce"
    /\ Goto(t, "ready")
    /\ UNCHANGED <<rounds, kind, resbits, armed, event_flag, alarm, setting, sio2,
                   ctrl, save_ctrl, lock>>

-----------------------------------------------------------------------------
(* One transfer: tx_rx_pio, or one batch of rx_dma, rx_mixed or tx_mixed *)

\* Faulty: the loop runs once more.
MoreToDoOffByOne(t) == rounds[t] <= MaxRounds

\* while (elements != 0), while (bytes_done < size): up to MaxRounds times.
MoreToDo(t) == rounds[t] < MaxRounds

\* ctrl 0x3ac, the queue and the FIFO, ctrl 0x3a1: a reset and a start.
StartTransfer(t, k) ==
    /\ pc[t] = "ready"
    /\ MoreToDo(t)
    /\ kind' = [kind EXCEPT ![t] = k]
    /\ rounds' = [rounds EXCEPT ![t] = @ + 1]
    /\ armed' = [armed EXCEPT ![t] = FALSE]
    /\ ctrl' = "mmce"
    /\ sio2' = "running"
    /\ Goto(t, "arm")
    /\ UNCHANGED <<resbits, event_flag, alarm, setting, save_ctrl, handler, lock>>

\* Faulty: the DMA reads are never given a timeout.
TimesPioOnly(t) == kind[t] = "timed"

\* "if (mmce_sio2_use_alarm)" guards the alarm of rx_dma and rx_mixed only.
Times(t) == kind[t] = "timed" \/ use_alarm

\* SetAlarm fails when the same (handler, argument) is already pending; the
\* code does not look at its result.
ArmAlarm(t) ==
    /\ pc[t] = "arm"
    /\ armed' = [armed EXCEPT ![t] = Times(t) /\ ~alarm]
    /\ alarm' = (alarm \/ Times(t))
    /\ Goto(t, "wait")
    /\ UNCHANGED <<rounds, kind, resbits, event_flag, setting, portVars>>

\* WaitEventFlag(timeout or complete) returns at once if a bit is set ...
WaitReturns(t) ==
    /\ pc[t] = "wait"
    /\ event_flag # {}
    /\ resbits' = [resbits EXCEPT ![t] = event_flag]
    /\ Goto(t, "woken")
    /\ UNCHANGED <<rounds, kind, armed, event_flag, alarm, setting, portVars>>

\* Faulty: waits for a bit to be set from now on.
WaitForNext(t) ==
    /\ pc[t] = "wait"
    /\ Goto(t, "blocked")
    /\ UNCHANGED <<rounds, kind, resbits, armed, event_flag, alarm, setting, portVars>>

\* ... and blocks otherwise, until iSetEventFlag hands it the bits.
WaitBlocks(t) ==
    /\ pc[t] = "wait"
    /\ event_flag = {}
    /\ Goto(t, "blocked")
    /\ UNCHANGED <<rounds, kind, resbits, armed, event_flag, alarm, setting, portVars>>

TimedOut(t) == pc[t] = "woken" /\ TIMEOUT \in resbits[t]

\* Faulty: gives up without resetting the SIO2.
AbortNoReset(t) ==
    /\ TimedOut(t)
    /\ Goto(t, "abortclear")
    /\ UNCHANGED <<rounds, kind, resbits, armed, event_flag, alarm, setting, portVars>>

\* "Transfer timed out, resetting SIO2"
Abort(t) ==
    /\ TimedOut(t)
    /\ sio2' = "idle"
    /\ Goto(t, "abortclear")
    /\ UNCHANGED <<rounds, kind, resbits, armed, event_flag, alarm, setting, ctrl,
                   save_ctrl, handler, lock>>

\* Faulty: the flag's other bit survives the clear.
ClearedTimeoutOnly == event_flag \ {TIMEOUT}
ClearedCompleteOnly == event_flag \ {COMPLETE}

\* ClearEventFlag(event_flag, ~(timeout | complete))
Cleared == event_flag \ {TIMEOUT, COMPLETE}

AbortClear(t) ==
    /\ pc[t] = "abortclear"
    /\ event_flag' = Cleared
    /\ Goto(t, "failed")
    /\ UNCHANGED <<rounds, kind, resbits, armed, alarm, setting, portVars>>

\* Faulty: the alarm of a transfer that completed stays pending.
CancelForgotten(t) ==
    /\ pc[t] = "woken" /\ TIMEOUT \notin resbits[t]
    /\ Goto(t, "clear")
    /\ UNCHANGED <<rounds, kind, resbits, armed, event_flag, alarm, setting, portVars>>

\* The setting is read again: it need not be what ArmAlarm read.
Cancel(t) ==
    /\ pc[t] = "woken" /\ TIMEOUT \notin resbits[t]
    /\ alarm' = (alarm /\ ~Times(t))
    /\ Goto(t, "clear")
    /\ UNCHANGED <<rounds, kind, resbits, armed, event_flag, setting, portVars>>

Clear(t) ==
    /\ pc[t] = "clear"
    /\ event_flag' = Cleared
    /\ Goto(t, "copy")
    /\ UNCHANGED <<rounds, kind, resbits, armed, alarm, setting, portVars>>

\* The caller gets the data out of the FIFO, or finds it where DMA put it.
Copy(t) ==
    /\ pc[t] = "copy"
    /\ Goto(t, "ready")
    /\ UNCHANGED <<rounds, kind, resbits, armed, event_flag, alarm, setting, portVars>>

-----------------------------------------------------------------------------
(* mmce_sio2_unlock: after the last transfer, and at once after a timeout *)

UnswapHandler(t) ==
    /\ pc[t] = "failed" \/ (pc[t] = "ready" /\ rounds[t] > 0)
    /\ handler' = "sio2man"
    /\ Goto(t, "restore")
    /\ UNCHANGED <<rounds, kind, resbits, armed, event_flag, alarm, setting, sio2,
                   ctrl, save_ctrl, lock>>

\* Faulty: the control register is left as the transfers set it.
RestoreForgotten(t) ==
    /\ pc[t] = "restore"
    /\ sio2' = "idle"
    /\ Goto(t, "release")
    /\ UNCHANGED <<rounds, kind, resbits, armed, event_flag, alarm, setting, ctrl,
                   save_ctrl, handler, lock>>

\* ctrl := saved | 0xc: sio2man's setting, and a reset.
RestoreCtrl(t) ==
    /\ pc[t] = "restore"
    /\ ctrl' = save_ctrl
    /\ sio2' = "idle"
    /\ Goto(t, "release")
    /\ UNCHANGED <<rounds, kind, resbits, armed, event_flag, alarm, setting, save_ctrl,
                   handler, lock>>

Release(t) ==
    /\ pc[t] = "release"
    /\ lock' = Nobody
    /\ Goto(t, "idle")
    /\ UNCHANGED <<rounds, kind, resbits, armed, event_flag, alarm, setting, sio2,
                   ctrl, save_ctrl, handler>>

-----------------------------------------------------------------------------
(* What interrupts the threads *)

\* iSetEventFlag: every waiter is satisfied now, with the bits of now.
SetEventFlag(bit) ==
    LET now == event_flag \cup {bit} IN
    /\ event_flag' = now
    /\ pc' = [t \in Threads |-> IF pc[t] = "blocked" THEN "woken" ELSE pc[t]]
    /\ resbits' = [t \in Threads |-> IF pc[t] = "blocked" THEN now ELSE resbits[t]]

\* The SIO2 finishes and interrupts; the installed handler runs at once: ours ...
MmceIntrHandler ==
    /\ sio2 = "running"
    /\ handler = "mmce"
    /\ sio2' = "complete"
    /\ SetEventFlag(COMPLETE)
    /\ UNCHANGED <<rounds, kind, armed, alarm, setting, ctrl, save_ctrl, handler,
                   lock>>

\* ... or sio2man's, which tells sio2man's client.
Sio2manIntrHandler ==
    /\ sio2 = "running"
    /\ handler = "sio2man"
    /\ sio2' = "complete"
    /\ UNCHANGED <<threadVars, event_flag, alarm, setting, ctrl, save_ctrl, handler,
                   lock>>

CardCompletes == MmceIntrHandler \/ Sio2manIntrHandler

\* The alarm expires; mmce_sio2_timeout_handler returns 0: it is not set again.
MmceTimeoutHandler ==
    /\ alarm
    /\ alarm' = FALSE
    /\ SetEventFlag(TIMEOUT)
    /\ UNCHANGED <<rounds, kind, armed, setting, portVars>>

\* devctl or mmcedrv_config_set, on a thread of its own: no lock is taken.
SetUseAlarm(t, v) ==
    /\ pc[t] = "idle"
    /\ use_alarm' = v
    /\ disturbed' = (disturbed \/ (v # use_alarm /\ lock \in Threads))
    /\ UNCHANGED <<threadVars, event_flag, alarm, portVars>>

(* The other clients of sio2man, under its lock. *)
PadLocks ==
    /\ lock = Nobody
    /\ lock' = Pad
    /\ UNCHANGED <<threadVars, event_flag, alarm, setting, sio2, ctrl, save_ctrl,
                   handler>>

PadTransfers ==
    /\ lock = Pad
    /\ sio2 = "idle"
    /\ sio2' = "running"
    /\ UNCHANGED <<threadVars, event_flag, alarm, setting, ctrl, save_ctrl, handler,
                   lock>>

PadUnlocks ==
    /\ lock = Pad
    /\ sio2 = "complete"
    /\ sio2' = "idle"
    /\ lock' = Nobody
    /\ UNCHANGED <<threadVars, event_flag, alarm, setting, ctrl, save_ctrl, handler>>

-----------------------------------------------------------------------------
Holder(t) ==
    \/ SaveCtrl(t) \/ SwapHandler(t)
    \/ \E k \in Kinds : StartTransfer(t, k)
    \/ ArmAlarm(t) \/ WaitReturns(t) \/ WaitBlocks(t)
    \/ Abort(t) \/ AbortClear(t)
    \/ Cancel(t) \/ Clear(t) \/ Copy(t)
    \/ UnswapHandler(t) \/ RestoreCtrl(t) \/ Release(t)

PadNext == PadLocks \/ PadTransfers \/ PadUnlocks

Next ==
    \/ \E t \in Threads :
          \/ Call(t) \/ Lock(t) \/ Holder(t)
          \/ \E v \in AlarmSettings : SetUseAlarm(t, v)
    \/ CardCompletes
    \/ MmceTimeoutHandler
    \/ PadNext

Spec == Init /\ [][Next]_vars

\* A thread inside the lock is scheduled, and an alarm once set expires.
RunFairness == (\A t \in Threads : WF_vars(Holder(t))) /\ WF_vars(MmceTimeoutHandler)

RunSpec == Spec /\ RunFairness

-----------------------------------------------------------------------------
(* Properties *)

\* A transfer is taken for complete, and its data handed to the caller, only
\* when the SIO2 completed that very transfer: no interrupt of an earlier
\* one, and none of sio2man's, is ever mistaken for it.
CompleteIsOwn ==
    \A t \in Threads : pc[t] \in {"clear", "copy"} => lock = t /\ sio2 = "complete"

\* While another client of sio2man has the SIO2, its own interrupt handler is
\* installed and the control register is as sio2man left it (sio2man starts a
\* transfer by setting a bit in what it finds there).
Sio2manUndisturbed == lock = Pad => handler = "sio2man" /\ ctrl = "sio2man"

\* The interrupt handler is never exchanged under a transfer that runs: the
\* interrupt would go to the driver that did not start it.
NoSwapWhileRunning == [][handler' # handler => sio2 # "running"]_vars

\* A transfer is given up only because of the alarm it set itself, which has
\* expired, never for an alarm left over by an earlier one: as long as the
\* alarm setting is not changed during a call.
TimeoutIsOwn == ~disturbed => \A t \in Threads : TimedOut(t) => armed[t] /\ ~alarm

\* The same whatever is done to the setting, as the documented wait of two
\* seconds has it.  The code does not keep it.
GivenUpInTime == \A t \in Threads : TimedOut(t) => armed[t] /\ ~alarm

\* A transfer starts with no bit set and no alarm pending: nothing of an
\* earlier transfer, complete or timed out, can end it; under the same
\* condition.
CleanStart ==
    ~disturbed => \A t \in Threads : pc[t] = "ready" => event_flag = {} /\ ~alarm

\* A call that has the SIO2 gives it back: with the alarms on, though the card
\* may never answer; with the alarms off now and then, if it does.
LockReleased ==
    ([]use_alarm \/ WF_vars(CardCompletes)) => \A t \in Threads : lock = t ~> lock # t

-----------------------------------------------------------------------------
(* The refinement: the request of the thread that holds the lock *)

request ==
    IF lock \notin Threads \/ rounds[lock] = 0 THEN "none"
    ELSE IF pc[lock] \in InRound THEN "open"
    ELSE IF TIMEOUT \in resbits[lock] THEN "timeout" ELSE "done"

answered == request = "open" /\ sio2 = "complete"

expired == request = "open" /\ armed[lock] /\ ~alarm

Promise == INSTANCE Sio2Promise WITH owner <- lock

\* The engine keeps what Sio2Promise promises.
PromiseKept == Promise!Spec

HandOver == INSTANCE HandOver WITH Callers <- Threads, holder <- lock

\* The interrupt handler is exchanged by the thread that holds the SIO2 and by
\* no other, and is sio2man's again before the SIO2 is anyone else's.
HandedOver == HandOver!Spec

=============================================================================
