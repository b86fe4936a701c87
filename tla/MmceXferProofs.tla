--------------------------- MODULE MmceXferProofs ---------------------------
(***************************************************************************)
(* MmceXfer is right for every size, not only at the boundaries TLC tries. *)
(***************************************************************************)
EXTENDS MmceXfer, TLAPS

\* The bytes of size that fill whole elements.
Whole == (size \div ELEMENT) * ELEMENT

\* What was split off at the start, and what was queued last.
SplitInv ==
    /\ Whole <= size /\ size < Whole + ELEMENT
    /\ pio_size < ELEMENT
    /\ pc = "flight" => batch.at = stream /\ batch.dma <= QUEUE /\ batch.pio < ELEMENT
    /\ pc = "flight" => bytes_done = stream + batch.dma * ELEMENT + batch.pio
    /\ pc = "flight" => batch.dma # 0 \/ batch.pio # 0
    /\ pc = "flight" /\ batch.pio # 0 => batch.dma < QUEUE
    /\ pc \in {"loop", "ready", "done"} => bytes_done = stream
    /\ pc = "ready" => op = "tx_mixed"

RxDmaInv ==
    op = "rx_dma" =>
        /\ pc \in {"loop", "flight"} => stream + elements * ELEMENT = Whole
        /\ pc = "flight" => batch.dma <= elements /\ batch.pio = 0
        /\ pc = "done" => stream = Whole

\* The last batch has been moved: the FIFO holds the remainder.
RxOver ==
    /\ stream = size /\ elements = 0
    /\ fifo = pio_size
    /\ pio_size # 0 => offset_pio + pio_size = size

RxMixedInv ==
    op = "rx_mixed" =>
        /\ pc = "loop" =>
              \/ RxOver
              \/ stream + elements * ELEMENT + pio_size = size /\ stream < size
        /\ pc = "flight" =>
              /\ stream + elements * ELEMENT + pio_size = size
              /\ batch.dma = ElementsDo
              /\ batch.pio = IF PioRoom THEN pio_size ELSE 0
              /\ batch.pio # 0 => offset_pio = stream + batch.dma * ELEMENT
        /\ pc = "done" => RxOver

TxMixedInv ==
    op = "tx_mixed" =>
        /\ pc \in {"loop", "ready", "flight"}
              => bytes_done + elements * ELEMENT + pio_size = size
        /\ pc = "ready" => waiting
        /\ pc = "loop" /\ ~waiting => bytes_done < size
        /\ pc = "flight" =>
              \/ batch.pio = 0 /\ (batch.dma = QUEUE \/ elements = 0)
              \/ batch.dma = 0 /\ pio_size = 0 /\ elements = 0
        /\ pc = "done" => stream = size

\* What is left of the window that the last "ready" opened.  A remainder that
\* shares it finds at least an element's room.
WindowInv ==
    op = "tx_mixed" /\ ~unheeded =>
        /\ pc = "loop" /\ ~waiting => room = WINDOW \/ (elements = 0 /\ room >= ELEMENT)
        /\ pc = "flight" /\ batch.pio = 0 => room = WINDOW - batch.dma * ELEMENT
        /\ room >= 0
        /\ pc = "done" => room = WINDOW

XferInv ==
    /\ TypeOK /\ SplitInv
    /\ RxDmaInv /\ RxMixedInv /\ TxMixedInv /\ WindowInv

-----------------------------------------------------------------------------

\* Cutting a size into elements leaves a remainder below one element.
LEMMA Split ==
    ASSUME NEW n \in Nat
    PROVE  /\ n \div ELEMENT \in Nat
           /\ (n \div ELEMENT) * ELEMENT <= n
           /\ n < (n \div ELEMENT) * ELEMENT + ELEMENT
BY DEF ELEMENT

LEMMA XferInit == Init => XferInv
<1> SUFFICES ASSUME Init
             PROVE  XferInv
  OBVIOUS
<1>1. TypeOK
  <2>1. batch \in [dma : Nat, at : Nat, pio : Nat]
    BY DEF Init, NoBatch
  <2>2. waiting \in BOOLEAN /\ use_alarm \in BOOLEAN /\ unheeded \in BOOLEAN
    BY Zenon DEF Init
  <2> QED
    BY <2>1, <2>2 DEF Init, TypeOK, Ops
<1>2. SplitInv
  BY DEF Init, SplitInv, Whole, ELEMENT, QUEUE
<1>3. RxDmaInv /\ RxMixedInv /\ TxMixedInv /\ WindowInv
  BY DEF Init, RxDmaInv, RxMixedInv, RxOver, TxMixedInv, WindowInv, Whole, ELEMENT
<1> QED
  BY <1>1, <1>2, <1>3 DEF XferInv

LEMMA XferStep ==
    ASSUME XferInv, [Next]_vars
    PROVE  XferInv'
<1> USE DEF XferInv, TypeOK, Ops, SplitInv, RxDmaInv, RxMixedInv, RxOver, TxMixedInv,
        WindowInv, Whole, ELEMENT, QUEUE, WINDOW, ElementsDo, PioRoom, call, card
<1>1. ASSUME NEW o \in Ops, NEW n \in Sizes, Begin(o, n)
      PROVE  XferInv'
  <2> USE <1>1 DEF Begin, NoBatch
  <2>1. n \in Nat
    BY SizesAssumption
  <2>2. TypeOK'
    <3>1. elements' \in Nat /\ pio_size' \in Nat
      BY <2>1, Split
    <3>2. unheeded' \in BOOLEAN /\ waiting' \in BOOLEAN
      BY Zenon
    <3>3. use_alarm' \in BOOLEAN
      OBVIOUS
    <3>4. room' \in Int
      OBVIOUS
    <3>5. batch' \in [dma : Nat, at : Nat, pio : Nat]
      OBVIOUS
    <3> QED
      BY <2>1, <3>1, <3>2, <3>3, <3>4, <3>5
  <2>3. SplitInv'
    BY <2>1, Split
  <2>4. RxDmaInv' /\ RxMixedInv'
    BY <2>1, Split
  <2>5. TxMixedInv' /\ WindowInv'
    BY <2>1, Split
  <2> QED
    BY <2>2, <2>3, <2>4, <2>5
<1>2. CASE RxDmaQueue
  BY <1>2 DEF RxDmaQueue, Queue
<1>3. CASE RxMixedQueue
  BY <1>3 DEF RxMixedQueue, Queue
<1>4. CASE RxComplete
  BY <1>4 DEF RxComplete
<1>5. CASE RxDone
  BY <1>5 DEF RxDone
<1>6. CASE TxAskReady
  BY <1>6 DEF TxAskReady
<1>7. ASSUME NEW ready \in BOOLEAN, TxAnswered(ready)
      PROVE  XferInv'
  <2>1. CASE bytes_done >= size
    <3>1. unheeded' \in BOOLEAN /\ room' \in Int
      BY <1>7 DEF TxAnswered, CardAnswers
    <3>2. TypeOK' /\ SplitInv'
      BY <1>7, <2>1, <3>1 DEF TxAnswered
    <3>3. op = "tx_mixed" /\ op' = op /\ pc' = "done" /\ (~unheeded' => room' = WINDOW)
      BY <1>7, <2>1 DEF TxAnswered, CardAnswers
    <3>4. TxMixedInv' /\ WindowInv'
      BY <1>7, <2>1, <3>3 DEF TxAnswered
    <3> QED
      BY <3>2, <3>3, <3>4
  <2>2. CASE ~(bytes_done >= size)
    <3>1. TypeOK' /\ SplitInv'
      <4>1. unheeded' \in BOOLEAN /\ room' \in Int
        BY <1>7 DEF TxAnswered, CardAnswers
      <4>2. pc' = "loop" /\ waiting' = FALSE
        BY <1>7, <2>2 DEF TxAnswered
      <4>3. UNCHANGED <<call, elements, pio_size, bytes_done, offset_pio, batch, stream,
                        fifo, use_alarm>>
        BY <1>7 DEF TxAnswered
      <4>4. TypeOK'
        BY <4>1, <4>2, <4>3
      <4>5. SplitInv'
        BY <1>7, <4>2, <4>3 DEF TxAnswered
      <4> QED
        BY <4>4, <4>5
    <3>2. /\ op = "tx_mixed" /\ op' = op /\ pc' = "loop" /\ waiting' = FALSE
          /\ ~unheeded' => room' = WINDOW
      BY <1>7, <2>2 DEF TxAnswered, CardAnswers
    <3>3. TxMixedInv' /\ WindowInv'
      BY <1>7, <2>2, <3>2 DEF TxAnswered
    <3> QED
      BY <3>1, <3>2, <3>3
  <2> QED
    BY <2>1, <2>2
<1>8. CASE TxQueueElements
  BY <1>8 DEF TxQueueElements, Queue
<1>9. CASE TxQueuePio
  BY <1>9 DEF TxQueuePio, Queue
<1>10. CASE TxComplete
  <2> USE <1>10 DEF TxComplete, WindowEnds
  <2>1. TypeOK' /\ SplitInv'
    OBVIOUS
  <2>2. op = "tx_mixed" /\ op' = op /\ pc' = "loop" /\ size' = size
    OBVIOUS
  <2>3. bytes_done' + elements' * ELEMENT + pio_size' = size'
    BY <2>2
  <2>4. ASSUME ~waiting'
        PROVE  /\ bytes_done' < size'
               /\ ~unheeded' => elements' = 0 /\ room' >= ELEMENT
    <3>1. batch.dma # QUEUE /\ pio_size # 0 /\ pio_size' = pio_size
      BY <2>4
    <3>2. batch.pio = 0 /\ elements = 0 /\ elements' = elements
      BY <3>1, <2>2
    <3>3. ~unheeded => room = WINDOW - batch.dma * ELEMENT
      BY <3>2, <2>2
    <3> QED
      BY <2>1, <2>3, <3>1, <3>2, <3>3
  <2>5. TxMixedInv' /\ WindowInv'
    BY <2>2, <2>3, <2>4
  <2> QED
    BY <2>1, <2>2, <2>5
<1>11. CASE Timeout
  BY <1>11 DEF Timeout
<1>12. ASSUME NEW v \in BOOLEAN, SetUseAlarm(v)
       PROVE  XferInv'
  BY <1>12 DEF SetUseAlarm
<1>13. CASE UNCHANGED vars
  BY <1>13 DEF vars
<1> HIDE DEF XferInv
<1> QED
  BY <1>1, <1>2, <1>3, <1>4, <1>5, <1>6, <1>7, <1>8, <1>9, <1>10, <1>11, <1>12,
     <1>13
  DEF Next, HostSteps, CardSteps

THEOREM XferInvariant == Spec => []XferInv
BY XferInit, XferStep, PTL DEF Spec

\* For every size, the batch in flight, the counters and the stream stay what
\* the code's variables can hold.
THEOREM XferTypeCorrect == Spec => []TypeOK
<1>1. XferInv => TypeOK
  BY DEF XferInv
<1> QED
  BY <1>1, XferInvariant, PTL

\* A transfer of any size that returns 0 has moved all of it, and no byte twice.
THEOREM AllMovedAlways == Spec => []AllMoved
<1>1. XferInv => AllMoved
  BY DEF XferInv, TypeOK, Ops, RxDmaInv, RxMixedInv, RxOver, TxMixedInv, AllMoved,
         Moved, Whole
<1> QED
  BY <1>1, XferInvariant, PTL

\* Every batch of a transfer of any size starts at the buffer offset that the
\* stream has reached and ends inside the buffer; so does the remainder.
THEOREM InPlaceAlways == Spec => []InPlace
<1>1. ASSUME XferInv
      PROVE  InPlace
  <2> USE <1>1 DEF XferInv, TypeOK, Ops, SplitInv, ELEMENT, QUEUE
  <2>1. CASE op = "rx_dma"
    BY <2>1 DEF RxDmaInv, InPlace
  <2>2. CASE op = "rx_mixed"
    BY <2>2 DEF RxMixedInv, InPlace, ElementsDo, PioRoom
  <2>3. CASE op = "tx_mixed"
    BY <2>3 DEF TxMixedInv, InPlace
  <2> QED
    BY <2>1, <2>2, <2>3
<1> QED
  BY <1>1, XferInvariant, PTL

\* rx_mixed of any size finds its whole remainder in the FIFO at the end.
THEOREM RemainderKeptAlways == Spec => []RemainderKept
<1>1. XferInv => RemainderKept
  BY DEF XferInv, RxMixedInv, RxOver, RemainderKept, TypeOK
<1> QED
  BY <1>1, XferInvariant, PTL

\* No batch is empty, and none is more than the 16 elements of the queue.
THEOREM QueueFitsAlways == Spec => []QueueFits
<1>1. XferInv => QueueFits
  BY DEF XferInv, TypeOK, SplitInv, QueueFits, QUEUE
<1> QED
  BY <1>1, XferInvariant, PTL

\* tx_mixed of any size sends at most 4 KB after each "ready", and waits for one
\* more at the end, as long as "ready" is all the card answers.  Of a card that
\* answers "not ready" nothing is claimed: the code goes on as if it had not.
THEOREM WindowKeptAlways == Spec => []WindowKept
<1>1. XferInv => WindowKept
  BY DEF XferInv, WindowInv, WindowKept
<1> QED
  BY <1>1, XferInvariant, PTL

-----------------------------------------------------------------------------
(* How long a transfer can take *)

Going == pc \in {"loop", "ready", "flight"}

\* Steps before the transfer moves its next byte.
ToNextByte ==
    IF pc = "loop" THEN (IF op = "tx_mixed" /\ waiting THEN 3 ELSE 1)
    ELSE IF pc = "ready" THEN 2
    ELSE 0

\* No batch is empty: at most four steps for each byte not moved yet.
Ahead == 4 * (Moved(op, size) - stream) + ToNextByte

\* A step of the transfer ends it, or leaves less to do.
Nearer == HostSteps \/ CardSteps \/ Timeout => ~Going' \/ Ahead' < Ahead

LEMMA AheadBounded ==
    ASSUME XferInv, Going
    PROVE  /\ Moved(op, size) \in Nat /\ stream \in Nat
           /\ stream <= Moved(op, size)
           /\ Ahead \in 0 .. 4 * size + 3
<1> USE DEF XferInv, TypeOK, Ops, SplitInv, ELEMENT, QUEUE, Going
<1>1. Moved(op, size) \in Nat /\ Moved(op, size) <= size
  BY Split DEF Moved, Whole
<1>2. CASE op = "rx_dma"
  <2>1. stream <= Moved(op, size)
    BY <1>2 DEF RxDmaInv, Moved, Whole
  <2> QED
    BY <1>1, <2>1 DEF Ahead, ToNextByte
<1>3. CASE op = "rx_mixed"
  <2>1. stream <= Moved(op, size)
    BY <1>3 DEF RxMixedInv, RxOver, Moved
  <2> QED
    BY <1>1, <2>1 DEF Ahead, ToNextByte
<1>4. CASE op = "tx_mixed"
  <2>1. stream <= Moved(op, size)
    BY <1>4 DEF TxMixedInv, Moved
  <2> QED
    BY <1>1, <2>1 DEF Ahead, ToNextByte
<1> QED
  BY <1>2, <1>3, <1>4

LEMMA StepsNearer ==
    ASSUME XferInv, [Next]_vars
    PROVE  [Nearer]_vars
<1> SUFFICES ASSUME HostSteps \/ CardSteps \/ Timeout, Going'
             PROVE  Ahead' < Ahead
  BY DEF Nearer
<1>1. Going
  BY DEF Going, HostSteps, CardSteps, Timeout, RxDmaQueue, RxMixedQueue, RxComplete, RxDone,
         TxAskReady, TxAnswered, TxQueueElements, TxQueuePio, TxComplete
<1>2. Moved(op, size) \in Nat /\ stream \in Nat
  BY <1>1, AheadBounded
<1>3. UNCHANGED <<op, size>>
  BY DEF HostSteps, CardSteps, Timeout, RxDmaQueue, RxMixedQueue, RxComplete, RxDone,
         TxAskReady, TxAnswered, TxQueueElements, TxQueuePio, TxComplete, call
<1>4. Moved(op, size)' = Moved(op, size)
  BY <1>3 DEF Moved
<1> HIDE DEF Moved
<1>5. CASE RxDmaQueue \/ RxMixedQueue
  BY <1>2, <1>4, <1>5 DEF RxDmaQueue, RxMixedQueue, Queue, Ahead, ToNextByte
<1>6. CASE RxComplete
  <2>1. stream' \in Nat /\ stream' > stream
    BY <1>6 DEF RxComplete, XferInv, TypeOK, SplitInv, ELEMENT
  <2> QED
    BY <1>2, <1>4, <1>6, <2>1 DEF RxComplete, call, Ahead, ToNextByte
<1>7. CASE RxDone \/ Timeout
  BY <1>7 DEF RxDone, Timeout, Going
<1>8. CASE TxAskReady
  BY <1>2, <1>4, <1>8 DEF TxAskReady, Ahead, ToNextByte
<1>9. CASE \E ready \in BOOLEAN : TxAnswered(ready)
  <2>1. pc = "ready" /\ stream' = stream
    BY <1>9 DEF TxAnswered
  <2>2. pc' = "loop" /\ waiting' = FALSE
    BY <1>9 DEF TxAnswered, Going
  <2> QED
    BY <1>2, <1>4, <2>1, <2>2 DEF Ahead, ToNextByte
<1>10. CASE TxQueueElements \/ TxQueuePio
  BY <1>2, <1>4, <1>10 DEF TxQueueElements, TxQueuePio, Queue, Ahead, ToNextByte
<1>11. CASE TxComplete
  <2>1. stream' \in Nat /\ stream' > stream
    BY <1>11 DEF TxComplete, XferInv, TypeOK, SplitInv, ELEMENT
  <2>2. pc = "flight" /\ pc' = "loop"
    BY <1>11 DEF TxComplete
  <2> QED
    BY <1>2, <1>4, <2>1, <2>2 DEF Ahead, ToNextByte
<1> QED
  BY <1>5, <1>6, <1>7, <1>8, <1>9, <1>10, <1>11 DEF HostSteps, CardSteps

\* The loops of rx_dma, rx_mixed and tx_mixed, for any size: each step leaves
\* less to do, so that a transfer of n bytes is over within 4 n + 4 steps.
THEOREM TransfersAreBounded ==
    Spec => [](Going => Ahead \in 0 .. 4 * size + 3) /\ [][Nearer]_vars
<1>1. XferInv => (Going => Ahead \in 0 .. 4 * size + 3)
  BY AheadBounded
<1>2. XferInv /\ [Next]_vars => [Nearer]_vars
  BY StepsNearer
<1> QED
  BY <1>1, <1>2, XferInvariant, PTL DEF Spec

=============================================================================
