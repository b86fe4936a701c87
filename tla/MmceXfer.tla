------------------------------ MODULE MmceXfer ------------------------------
(***************************************************************************)
(* How the bulk transfers of mmce_sio2.c cut a buffer into what the SIO2   *)
(* can queue: elements of 256 bytes moved by DMA, at most 16 of them at a  *)
(* time, and a remainder that goes through the FIFO by hand (PIO).         *)
(*                                                                         *)
(*   rx_dma    whole elements only, batch after batch                      *)
(*   rx_mixed  the same, the remainder queued behind the last elements and *)
(*             read out of the FIFO when everything is over                *)
(*   tx_mixed  asks the card whether it is ready before each window and at *)
(*             the end; elements and remainder are batches of their own    *)
(*                                                                         *)
(* One transfer at a time: it is made under the lock of MmceSio2.  A batch *)
(* here is one request there: it completes, or its alarm ends it.  The     *)
(* setting of the alarms changes between transfers only; what a change     *)
(* during one does is in MmceSio2.                                         *)
(***************************************************************************)
EXTENDS Integers

CONSTANT Sizes    \* the sizes callers ask for

ASSUME SizesAssumption == Sizes \subseteq Nat

ELEMENT == 256          \* bytes of one DMA element
QUEUE == 16             \* elements the SIO2 queues
WINDOW == ELEMENT * QUEUE   \* bytes the card takes after one "ready"

Ops == {"rx_dma", "rx_mixed", "tx_mixed"}

VARIABLES
    pc,          \* idle, loop, ready (waits for it), flight, done, failed
    op, size,    \* the call
    elements,    \* elements not yet moved
    pio_size,    \* the remainder
    bytes_done,  \* bytes queued so far: the next offset into the buffer
    offset_pio,  \* rx_mixed: where the remainder belongs
    waiting,     \* tx_mixed: must the card be ready first?
    batch,       \* in flight: elements, their offset, bytes of PIO behind them
    stream,      \* bytes of this transfer that have gone over the wire
    fifo,        \* bytes of this transfer waiting in the receive FIFO
    use_alarm,   \* mmce_sio2_use_alarm: do the receive paths set an alarm?
    room,        \* tx_mixed: bytes the card has said it has room for, less those
                 \* sent; history: no code reads it
    unheeded     \* tx_mixed: has the card said "not ready"?  History, as well

call == <<op, size>>
card == <<room, unheeded>>
vars == <<pc, call, elements, pio_size, bytes_done, offset_pio, waiting, batch,
          stream, fifo, use_alarm, card>>

NoBatch == [dma |-> 0, at |-> 0, pio |-> 0]

TypeOK ==
    /\ pc \in {"idle", "loop", "ready", "flight", "done", "failed"}
    /\ op \in Ops
    /\ size \in Nat /\ elements \in Nat /\ pio_size \in Nat
    /\ bytes_done \in Nat /\ offset_pio \in Nat
    /\ waiting \in BOOLEAN
    /\ batch \in [dma : Nat, at : Nat, pio : Nat]
    /\ stream \in Nat /\ fifo \in Nat
    /\ use_alarm \in BOOLEAN
    /\ room \in Int /\ unheeded \in BOOLEAN

Init ==
    /\ pc = "idle"
    /\ op = "rx_dma" /\ size = 0
    /\ elements = 0 /\ pio_size = 0
    /\ bytes_done = 0 /\ offset_pio = 0
    /\ waiting = TRUE
    /\ batch = NoBatch
    /\ stream = 0 /\ fifo = 0
    /\ use_alarm = TRUE
    /\ room = 0 /\ unheeded = FALSE

Idle == pc \in {"idle", "done", "failed"}

SetUseAlarm(v) ==
    /\ Idle
    /\ use_alarm' = v
    /\ UNCHANGED <<pc, call, elements, pio_size, bytes_done, offset_pio, waiting, batch,
                   stream, fifo, card>>

Begin(o, n) ==
    /\ Idle
    /\ pc' = "loop"
    /\ op' = o /\ size' = n
    /\ elements' = n \div ELEMENT
    /\ pio_size' = n - (n \div ELEMENT) * ELEMENT
    /\ bytes_done' = 0 /\ offset_pio' = 0
    /\ waiting' = TRUE
    /\ batch' = NoBatch
    /\ stream' = 0 /\ fifo' = 0
    /\ room' = 0 /\ unheeded' = FALSE
    /\ UNCHANGED use_alarm

\* Faulty: always a full queue.
ElementsDoFull == QUEUE

\* elements > 16 ? 16 : elements
ElementsDo == IF elements > QUEUE THEN QUEUE ELSE elements

\* Queue n elements from the next offset on and p bytes of PIO behind them, and
\* start; the reset before it empties the FIFO.
Queue(n, p) ==
    /\ batch' = [dma |-> n, at |-> bytes_done, pio |-> p]
    /\ bytes_done' = bytes_done + n * ELEMENT + p
    /\ fifo' = 0
    /\ pc' = "flight"

\* Faulty: the remainder goes behind any batch that is not empty.
PioRoomAlways == pio_size # 0

\* Faulty: the remainder goes with the first batch.
PioRoomFirst == bytes_done = 0 /\ pio_size # 0

\* elements_do < 16 and pio_size != 0: the remainder goes with this batch.
PioRoom == ElementsDo < QUEUE /\ pio_size # 0

RxDmaQueue ==
    /\ op = "rx_dma" /\ pc = "loop"
    /\ elements # 0
    /\ Queue(ElementsDo, 0)
    /\ UNCHANGED <<call, elements, pio_size, offset_pio, waiting, stream, use_alarm, card>>

RxMixedQueue ==
    /\ op = "rx_mixed" /\ pc = "loop"
    /\ bytes_done < size
    /\ Queue(ElementsDo, IF PioRoom THEN pio_size ELSE 0)
    /\ offset_pio' = IF PioRoom THEN bytes_done + ElementsDo * ELEMENT ELSE offset_pio
    /\ UNCHANGED <<call, elements, pio_size, waiting, stream, use_alarm, card>>

\* The batch completes.  The transmit paths have counted its elements already.
RxComplete ==
    /\ op # "tx_mixed" /\ pc = "flight"
    /\ stream' = stream + batch.dma * ELEMENT + batch.pio
    /\ fifo' = batch.pio
    /\ elements' = elements - batch.dma
    /\ pc' = "loop"
    /\ UNCHANGED <<call, pio_size, bytes_done, offset_pio, waiting, batch, use_alarm, card>>

\* The loop is left; rx_mixed then reads pio_size bytes out of the FIFO into
\* the buffer at offset_pio.
RxDone ==
    /\ pc = "loop"
    /\ \/ op = "rx_dma" /\ elements = 0
       \/ op = "rx_mixed" /\ bytes_done >= size
    /\ pc' = "done"
    /\ UNCHANGED <<call, elements, pio_size, bytes_done, offset_pio, waiting, batch,
                   stream, fifo, use_alarm, card>>

-----------------------------------------------------------------------------
(* tx_mixed *)

\* The waiting stage: two bytes from the card, within two seconds.
TxAskReady ==
    /\ op = "tx_mixed" /\ pc = "loop"
    /\ waiting
    /\ pc' = "ready"
    /\ UNCHANGED <<call, elements, pio_size, bytes_done, offset_pio, waiting, batch,
                   stream, fifo, use_alarm, card>>

\* What the card answers: ready promises an empty buffer of 4 KB, not ready
\* promises nothing.
CardAnswers(ready) ==
    /\ room' = IF ready THEN WINDOW ELSE 0
    /\ unheeded' = (unheeded \/ ~ready)

\* Faulty: the end is noticed before the card is asked.
TxAnsweredEarly(ready) ==
    /\ pc = "ready"
    /\ CardAnswers(ready)
    /\ waiting' = FALSE
    /\ pc' = IF bytes_done + ELEMENT >= size THEN "done" ELSE "loop"
    /\ UNCHANGED <<call, elements, pio_size, bytes_done, offset_pio, batch, stream, fifo,
                   use_alarm>>

\* The two bytes are there: the next stage, or the end.  They are in rx_buf,
\* which nothing looks at: the code goes on alike whatever the card answered.
TxAnswered(ready) ==
    /\ pc = "ready"
    /\ CardAnswers(ready)
    /\ IF bytes_done >= size
       THEN pc' = "done" /\ UNCHANGED waiting
       ELSE pc' = "loop" /\ waiting' = FALSE
    /\ UNCHANGED <<call, elements, pio_size, bytes_done, offset_pio, batch, stream, fifo,
                   use_alarm>>

\* Elements: a full 4 KB, or all that are left.
TxQueueElements ==
    /\ op = "tx_mixed" /\ pc = "loop"
    /\ ~waiting
    /\ ElementsDo # 0
    /\ Queue(ElementsDo, 0)
    /\ elements' = elements - ElementsDo
    /\ room' = room - ElementsDo * ELEMENT
    /\ UNCHANGED <<call, pio_size, offset_pio, waiting, stream, use_alarm, unheeded>>

\* The remainder, after the last elements or in a window of its own.
TxQueuePio ==
    /\ op = "tx_mixed" /\ pc = "loop"
    /\ ~waiting
    /\ ElementsDo = 0 /\ pio_size # 0
    /\ Queue(0, pio_size)
    /\ pio_size' = 0
    /\ room' = room - pio_size
    /\ UNCHANGED <<call, elements, offset_pio, waiting, stream, use_alarm, unheeded>>

\* Faulty: a full batch is followed by the next without a wait.
WindowEndsLate == pio_size = 0

\* After a full batch, and after the remainder or when there is none.
WindowEnds == batch.dma = QUEUE \/ pio_size = 0

TxComplete ==
    /\ op = "tx_mixed" /\ pc = "flight"
    /\ stream' = stream + batch.dma * ELEMENT + batch.pio
    /\ waiting' = WindowEnds
    /\ pc' = "loop"
    /\ UNCHANGED <<call, elements, pio_size, bytes_done, offset_pio, batch, fifo, use_alarm,
                   card>>

-----------------------------------------------------------------------------
\* Is an alarm set?  tx_mixed always sets one; the receive paths only when the
\* alarms are on.
Timed == op = "tx_mixed" \/ use_alarm

\* Faulty: tx_mixed, too, sets an alarm only when the alarms are on.
TimeoutIfOn ==
    /\ pc \in {"ready", "flight"}
    /\ use_alarm
    /\ pc' = "failed"
    /\ UNCHANGED <<call, elements, pio_size, bytes_done, offset_pio, waiting, batch,
                   stream, fifo, use_alarm, card>>

\* The alarm ends a batch, or the wait for ready: return -1.
Timeout ==
    /\ pc \in {"ready", "flight"}
    /\ Timed
    /\ pc' = "failed"
    /\ UNCHANGED <<call, elements, pio_size, bytes_done, offset_pio, waiting, batch,
                   stream, fifo, use_alarm, card>>

\* The steps that are the code's own, and those that the card must answer.
HostSteps == RxDmaQueue \/ RxMixedQueue \/ RxDone \/ TxAskReady \/ TxQueueElements \/ TxQueuePio
CardSteps == RxComplete \/ TxComplete \/ (\E ready \in BOOLEAN : TxAnswered(ready))

Next ==
    \/ \E v \in BOOLEAN : SetUseAlarm(v)
    \/ \E o \in Ops, n \in Sizes : Begin(o, n)
    \/ HostSteps
    \/ CardSteps
    \/ Timeout

Spec == Init /\ [][Next]_vars

\* The code goes on, and an alarm that was set goes off when nothing cancels
\* it.  The card owes nothing.
FairSpec == Spec /\ WF_vars(HostSteps) /\ WF_vars(Timeout)

-----------------------------------------------------------------------------
(* Properties *)

\* The bytes a transfer of n bytes moves: rx_dma drops what is not a whole
\* element.
Moved(o, n) == IF o = "rx_dma" THEN (n \div ELEMENT) * ELEMENT ELSE n

\* A transfer that returns 0 has moved every byte, once.
AllMoved == pc = "done" => stream = Moved(op, size)

\* Every slice of the stream is stored at, or taken from, its own place in
\* the buffer, the remainder of a read included: nothing is shifted, skipped
\* or overwritten, and nothing is written past the end.
InPlace ==
    /\ pc = "flight" => batch.at = stream /\ bytes_done <= size
    /\ pc = "flight" /\ op = "rx_mixed" /\ batch.pio # 0
          => offset_pio = stream + batch.dma * ELEMENT

\* When rx_mixed reads the FIFO the remainder is there: no reset came between.
RemainderKept ==
    pc = "done" /\ op = "rx_mixed" => fifo = pio_size /\ (fifo # 0 => offset_pio + fifo = size)

\* No more is queued than the SIO2 has room for, the remainder counted in.
QueueFits == pc = "flight" => batch.dma + (IF batch.pio = 0 THEN 0 ELSE 1) \in 1 .. QUEUE

\* A card that has answered "ready" each time it was asked is sent no more than
\* the 4 KB each of them promises, and a write that returns 0 ends with it ready
\* for the next.
WindowKept ==
    op = "tx_mixed" /\ ~unheeded => room >= 0 /\ (pc = "done" => room = WINDOW)

\* The same whatever the card answers: it is sent only what it has said it has
\* room for ("Wait ready", 0 = Not ready, 1 = Ready).  The code does not do it.
ReadyHeeded == op = "tx_mixed" => room >= 0

\* A transfer with an alarm on each of its batches ends, though the card may
\* never answer; one without, the receive paths with the alarms off, ends if
\* the card completes what it was asked for.
TransferEnds ==
    /\ pc = "loop" /\ Timed ~> pc \in {"done", "failed"}
    /\ WF_vars(RxComplete) => (pc = "loop" ~> pc \in {"done", "failed"})

=============================================================================
