--------------------------- MODULE MmceIgrProofs ----------------------------
(***************************************************************************)
(* Theorems about MmceIgr, for any number of polls.                        *)
(***************************************************************************)
EXTENDS MmceIgr, TLAPS

AtSlot == {"setcard", "delay", "wait"}

\* Where the loop is, and what it has counted.
LoopInv ==
    /\ pc \in AtSlot => slot \in wanted
    /\ reply = "running" => pc = "wait"
    /\ pc = "wait" => sent # "none"
    /\ \A i \in Slots : i > slot => polls[i] = 0
    /\ pc \in {"start", "slot", "setcard"} /\ slot \in Slots => polls[slot] = 0
    /\ pc = "wait" /\ sent = "setcard" => polls[slot] = 0
    /\ pc = "delay" => polls[slot] < MaxPolls
    /\ pc = "wait" /\ sent = "status" => polls[slot] < MaxPolls
    /\ pc = "start" => slot = 0 /\ ctrl = "found" /\ wanted = {}
    /\ pc = "restore" => slot = 2
    /\ \A i \in wanted : slot > i \/ (slot = i /\ pc \in AtSlot) => ports[i] = "igr"

\* What the cards do, seen from the loop.
CardInv ==
    /\ pc = "start" => \A i \in Slots : card[i].image = "game" /\ polls[i] = 0
    /\ pc = "delay" => card[slot].image = "boot"
    /\ pc = "wait" /\ sent = "status" => card[slot].image = "boot"
    /\ pc = "wait" /\ sent = "setcard" /\ reply \in {"busy", "ready"} =>
          card[slot].image = "boot"
    /\ pc = "wait" /\ sent = "status" /\ reply = "ready" => ~card[slot].busy

\* TypeOK in parts, the cards apart.
LoopType ==
    /\ pc \in {"start", "slot", "setcard", "delay", "wait", "restore", "done"}
    /\ wanted \in SUBSET Slots
    /\ slot \in 0 .. 2
    /\ polls \in [Slots -> 0 .. MaxPolls]
    /\ sent \in {"none", "setcard", "status"}
    /\ reply \in Replies
    /\ ctrl \in {"found", "igr"}
    /\ ports \in [Slots -> {"found", "igr"}]
CardType == card \in [Slots -> [there : BOOLEAN, image : {"game", "boot"}, busy : BOOLEAN]]

IgrInv ==
    LoopType /\ CardType /\ LoopInv /\ CardInv /\ ChangeAwaited /\ OthersKept /\ LeftBehind

LEMMA IgrInit == Init => IgrInv
<1> SUFFICES ASSUME Init PROVE IgrInv
  OBVIOUS
<1>1. LoopType
  BY PollsAssumption DEF Init, LoopType, Replies, Slots
<1>2. CardType
  BY DEF Init, CardType
<1>3. LoopInv
  BY DEF Init, LoopInv, AtSlot, Slots
<1>4. \A i \in Slots : card[i].image = "game" /\ polls[i] = 0 /\ ports[i] = "found"
  BY DEF Init
<1>5. CardInv /\ ChangeAwaited /\ OthersKept /\ LeftBehind
  BY <1>4 DEF Init, CardInv, ChangeAwaited, OthersKept, LeftBehind
<1> QED BY <1>1, <1>2, <1>3, <1>5 DEF IgrInv

\* The module's own steps: the cards are left alone.
LEMMA IgrSteps == IgrInv /\ Igr => IgrInv'
<1> SUFFICES ASSUME IgrInv, Igr PROVE IgrInv'
  OBVIOUS
<1> USE PollsAssumption DEF IgrInv
<1>1. CardType'
  BY DEF Igr, NoArguments, ReadArguments, EachSlot, SendSetCard, SetCardDone, SendStatus,
         StatusDone, Restore, CardType
<1>2. CASE NoArguments
  BY <1>1, <1>2 DEF NoArguments, LoopType, LoopInv, CardInv, ChangeAwaited, OthersKept,
                    LeftBehind, AtSlot
<1>3. ASSUME NEW w \in SUBSET Slots, ReadArguments(w) PROVE IgrInv'
  <2>1. /\ pc = "start" /\ pc' = "slot" /\ wanted' = w
        /\ UNCHANGED <<slot, polls, sent, reply, ctrl, ports, card>>
    BY <1>3 DEF ReadArguments
  <2>2. wanted = {} /\ \A i \in Slots : card[i].image = "game" /\ polls[i] = 0 /\ ports[i] = "found"
    BY <2>1 DEF LoopInv, CardInv, OthersKept
  <2>3. slot = 0
    BY <2>1 DEF LoopInv
  <2>4. LoopType'
    BY <2>1 DEF LoopType
  <2>5. LoopInv'
    BY <2>1, <2>2, <2>3 DEF LoopInv, LoopType, AtSlot, Slots
  <2>6. CardInv' /\ ChangeAwaited' /\ OthersKept' /\ LeftBehind'
    BY <2>1, <2>2, <2>3 DEF CardInv, ChangeAwaited, OthersKept, LeftBehind, Slots
  <2> QED BY <1>1, <2>4, <2>5, <2>6
<1>4. CASE EachSlot
  BY <1>1, <1>4 DEF EachSlot, LoopType, LoopInv, CardInv, ChangeAwaited, OthersKept,
                    LeftBehind, AtSlot, Slots
<1>5. CASE SendSetCard
  BY <1>1, <1>5 DEF SendSetCard, Transfer, LoopType, LoopInv, CardInv, ChangeAwaited,
                    OthersKept, LeftBehind, AtSlot, Slots, Replies
<1>6. CASE SetCardDone
  <2>1. /\ pc = "wait" /\ sent = "setcard" /\ reply # "running"
        /\ UNCHANGED <<wanted, polls, sent, reply, ctrl, ports, card>>
    BY <1>6 DEF SetCardDone
  <2>2. slot \in wanted /\ slot \in Slots /\ ports[slot] = "igr"
    BY <2>1 DEF LoopInv, LoopType, AtSlot
  <2>3. CASE reply \in {"timeout", "garbled"}
    <3>1. pc' = "slot" /\ slot' = slot + 1
      BY <1>6, <2>3 DEF SetCardDone, LeaveSlot
    <3>2. LoopType'
      BY <2>1, <2>2, <3>1 DEF LoopType, Slots
    <3>3. LoopInv'
      BY <2>1, <2>2, <3>1 DEF LoopInv, LoopType, AtSlot, Slots
    <3>4. CardInv' /\ OthersKept' /\ LeftBehind'
      BY <2>1, <3>1 DEF CardInv, OthersKept, LeftBehind
    <3>5. ChangeAwaited'
      <4>1. polls[slot] = 0
        BY <2>1 DEF LoopInv
      <4>2. \A i \in wanted : slot' > i => i = slot \/ slot > i
        BY <2>2, <3>1 DEF LoopType, Slots
      <4> QED BY <2>1, <4>1, <4>2 DEF ChangeAwaited
    <3> QED BY <1>1, <3>2, <3>3, <3>4, <3>5
  <2>4. CASE reply \notin {"timeout", "garbled"}
    <3>1. pc' = "delay" /\ slot' = slot
      BY <1>6, <2>4 DEF SetCardDone
    <3>2. LoopType' /\ LoopInv'
      BY <2>1, <2>2, <3>1 DEF LoopInv, LoopType, AtSlot, Slots
    <3>3. CardInv' /\ ChangeAwaited' /\ OthersKept' /\ LeftBehind'
      BY <2>1, <2>2, <2>4, <3>1 DEF LoopType, CardInv, ChangeAwaited, OthersKept,
                                    LeftBehind, Replies
    <3> QED BY <1>1, <3>2, <3>3
  <2> QED BY <2>3, <2>4
<1>7. CASE SendStatus
  BY <1>1, <1>7 DEF SendStatus, Transfer, LoopType, LoopInv, CardInv, ChangeAwaited,
                    OthersKept, LeftBehind, AtSlot, Slots, Replies
<1>8. CASE StatusDone
  BY <1>1, <1>8 DEF StatusDone, StillBusy, LeaveSlot, LoopType, LoopInv, CardInv,
                    ChangeAwaited, OthersKept, LeftBehind, AtSlot, Slots, Replies
<1>9. CASE Restore
  BY <1>1, <1>9 DEF Restore, LoopType, LoopInv, CardInv, ChangeAwaited, OthersKept,
                    LeftBehind, AtSlot, Slots
<1> QED BY <1>2, <1>3, <1>4, <1>5, <1>6, <1>7, <1>8, <1>9 DEF Igr

\* The SIO2 and the cards: the loop is left alone, but for the reply.
LEMMA Sio2Steps == IgrInv /\ (Sio2 \/ \E i \in Slots : CardReady(i)) => IgrInv'
<1> SUFFICES ASSUME IgrInv, Sio2 \/ \E i \in Slots : CardReady(i) PROVE IgrInv'
  OBVIOUS
<1> USE DEF IgrInv
<1>1. ASSUME NEW taken \in BOOLEAN, NEW how \in Replies \ {"running"}, Ends(taken, how),
             taken \/ how \notin {"busy", "ready"},
             how = "ready" /\ sent = "status" => ~card[slot].busy
      PROVE  IgrInv'
  <2>1. /\ reply = "running" /\ pc = "wait" /\ slot \in wanted /\ wanted \subseteq Slots
        /\ reply' = how /\ UNCHANGED <<pc, wanted, slot, polls, sent, ctrl, ports>>
    BY <1>1 DEF Ends, LoopInv, AtSlot, LoopType
  <2>2. CASE taken /\ sent = "setcard"
    <3>1. card' = [card EXCEPT ![slot].image = "boot", ![slot].busy = TRUE]
      BY <1>1, <2>2 DEF Ends
    <3>2. CardType'
      <4>1. card'[slot] = [card[slot] EXCEPT !.image = "boot", !.busy = TRUE]
        BY <2>1, <3>1 DEF CardType
      <4>2. card'[slot] \in [there : BOOLEAN, image : {"game", "boot"}, busy : BOOLEAN]
        BY <2>1, <4>1 DEF CardType
      <4>3. DOMAIN card' = Slots /\ \A i \in Slots : i # slot => card'[i] = card[i]
        BY <2>1, <3>1 DEF CardType
      <4>4. card' = [i \in Slots |-> card'[i]]
        BY <3>1, <4>3 DEF CardType
      <4> QED BY <4>2, <4>3, <4>4 DEF CardType
    <3>3. card'[slot].image = "boot" /\ \A i \in Slots : i # slot => card'[i] = card[i]
      BY <2>1, <3>1 DEF CardType
    <3>4. LoopType' /\ LoopInv'
      BY <1>1, <2>1 DEF LoopType, LoopInv
    <3>5. CardInv'
      BY <2>1, <2>2, <3>3 DEF CardInv
    <3>6. ChangeAwaited'
      <4>1. \A i \in wanted : slot > i => card'[i] = card[i]
        BY <2>1, <3>3 DEF Slots
      <4> QED BY <2>1, <4>1 DEF ChangeAwaited
    <3>7. OthersKept' /\ LeftBehind'
      BY <2>1, <3>3 DEF OthersKept, LeftBehind
    <3> QED BY <3>2, <3>4, <3>5, <3>6, <3>7
  <2>3. CASE ~(taken /\ sent = "setcard")
    <3>1. card' = card
      BY <1>1, <2>3 DEF Ends
    <3>2. LoopType' /\ LoopInv' /\ CardType'
      BY <1>1, <2>1, <3>1 DEF LoopType, LoopInv, CardType
    <3>3. CardInv'
      BY <1>1, <2>1, <2>3, <3>1 DEF CardInv, LoopInv, LoopType
    <3>4. ChangeAwaited' /\ OthersKept' /\ LeftBehind'
      BY <2>1, <3>1 DEF ChangeAwaited, OthersKept, LeftBehind
    <3> QED BY <3>2, <3>3, <3>4
  <2> QED BY <2>2, <2>3
<1>2. CASE Answered
  <2>1. CASE sent = "status" /\ card[slot].busy
    BY <1>1, <1>2, <2>1 DEF Answered, Replies
  <2>2. CASE ~(sent = "status" /\ card[slot].busy)
    BY <1>1, <1>2, <2>2 DEF Answered, Replies
  <2> QED BY <2>1, <2>2
<1>3. CASE AnswerLost
  BY <1>1, <1>3 DEF AnswerLost, Replies
<1>4. CASE NotTaken
  BY <1>1, <1>4 DEF NotTaken, Replies
<1>5. ASSUME NEW i \in Slots, CardReady(i) PROVE IgrInv'
  <2>1. /\ UNCHANGED <<pc, wanted, slot, polls, sent, reply, ctrl, ports>>
        /\ card' = [card EXCEPT ![i].busy = FALSE]
    BY <1>5 DEF CardReady
  <2>2. CardType'
    BY <2>1 DEF CardType
  <2>3. \A j \in Slots : card'[j].image = card[j].image /\ (~card[j].busy => ~card'[j].busy)
    BY <2>1 DEF CardType
  <2>4. LoopType' /\ LoopInv'
    BY <2>1 DEF LoopType, LoopInv
  <2>5. CardInv'
    BY <2>1, <2>3 DEF CardInv, LoopInv, LoopType, AtSlot
  <2>6. ChangeAwaited' /\ OthersKept' /\ LeftBehind'
    BY <2>1, <2>3 DEF ChangeAwaited, OthersKept, LeftBehind, LoopType
  <2> QED BY <2>2, <2>4, <2>5, <2>6
<1> QED BY <1>2, <1>3, <1>4, <1>5 DEF Sio2

LEMMA IgrInvAlways == Spec => []IgrInv
<1>1. IgrInv /\ UNCHANGED vars => IgrInv'
  BY DEF vars, IgrInv, LoopType, CardType, LoopInv, CardInv, ChangeAwaited, OthersKept,
         LeftBehind
<1>2. IgrInv /\ [Next]_vars => IgrInv'
  BY <1>1, IgrSteps, Sio2Steps DEF Next
<1> QED BY <1>2, IgrInit, PTL DEF Spec

-----------------------------------------------------------------------------
(* Theorems *)

\* No slot is polled more often than the bound, whatever it is.
THEOREM IgrTypeCorrect == Spec => []TypeOK
<1>1. IgrInv => TypeOK
  BY DEF IgrInv, LoopType, CardType, TypeOK
<1> QED BY <1>1, IgrInvAlways, PTL

\* mmceigr.c, _start: a poll that failed is never taken for the end of a change.
THEOREM ChangeIsAwaited == Spec => []ChangeAwaited
<1>1. IgrInv => ChangeAwaited
  BY DEF IgrInv
<1> QED BY <1>1, IgrInvAlways, PTL

\* mmceigr.c, _start: the slot that argv[1] leaves out keeps its card and its
\* port's settings.
THEOREM OthersAreKept == Spec => []OthersKept
<1>1. IgrInv => OthersKept
  BY DEF IgrInv
<1> QED BY <1>1, IgrInvAlways, PTL

\* mmceigr.c, _start: the control register is restored on every way out, and every
\* slot asked for has been set up, whatever the other card did; the settings of
\* those ports are left behind.
THEOREM WhatIsLeftBehind == Spec => []LeftBehind
<1>1. IgrInv => LeftBehind
  BY DEF IgrInv
<1> QED BY <1>1, IgrInvAlways, PTL

-----------------------------------------------------------------------------
(* How long the module can take *)

\* Steps a slot takes, with every poll made: to the end of a transfer two, and
\* one to look at how it ended.
SlotSteps == 3 * MaxPolls + 4

PollsLeft == MaxPolls - polls[slot]

\* Steps before the loop leaves the slot it is at.
InSlot ==
    IF pc = "setcard" THEN 3 * MaxPolls + 3
    ELSE IF pc = "delay" THEN 3 * PollsLeft
    ELSE (IF sent = "setcard" THEN 3 * MaxPolls + 1 ELSE 3 * PollsLeft - 2)
         + (IF reply = "running" THEN 1 ELSE 0)

\* Steps before the module has come to its end.
Ahead ==
    IF pc = "start" THEN 2 * SlotSteps + 3
    ELSE IF pc = "slot" THEN (2 - slot) * SlotSteps + 2
    ELSE IF pc \in AtSlot THEN (1 - slot) * SlotSteps + 2 + InSlot
    ELSE IF pc = "restore" THEN 1
    ELSE 0

\* A step of the program, or the end of a transfer, leaves less to do; a card
\* that has changed its image leaves as much.
Nearer == (Igr \/ Sio2 => Ahead' < Ahead) /\ Ahead' <= Ahead

LEMMA AheadBounded ==
    ASSUME LoopType, LoopInv
    PROVE  Ahead \in 0 .. 6 * MaxPolls + 11
<1> USE PollsAssumption DEF LoopType, LoopInv, Ahead, SlotSteps
<1>1. CASE pc \in AtSlot
  <2>1. slot \in Slots /\ polls[slot] \in 0 .. MaxPolls
    BY <1>1
  <2>2. InSlot \in 0 .. 3 * MaxPolls + 3
    BY <1>1, <2>1 DEF InSlot, PollsLeft, AtSlot
  <2>3. CASE slot = 0
    BY <1>1, <2>2, <2>3 DEF AtSlot
  <2>4. CASE slot = 1
    BY <1>1, <2>2, <2>4 DEF AtSlot
  <2> QED
    BY <2>1, <2>3, <2>4 DEF Slots
<1>2. CASE pc \notin AtSlot
  <2>1. CASE slot = 0
    BY <1>2, <2>1
  <2>2. CASE slot = 1
    BY <1>2, <2>2
  <2>3. CASE slot = 2
    BY <1>2, <2>3
  <2> QED
    BY <2>1, <2>2, <2>3
<1> QED
  BY <1>1, <1>2

LEMMA StepsNearer ==
    ASSUME LoopType, LoopInv, [Next]_vars
    PROVE  [Nearer]_vars
<1> USE PollsAssumption
<1>1. slot \in 0 .. 2 /\ Ahead \in 0 .. 6 * MaxPolls + 11
  BY AheadBounded DEF LoopType
<1>2. ASSUME pc \in AtSlot PROVE slot \in Slots /\ polls[slot] \in 0 .. MaxPolls
  BY <1>2 DEF LoopType, LoopInv
<1>3. CASE NoArguments \/ \E w \in SUBSET Slots : ReadArguments(w)
  <2>1. slot = 0 \/ slot = 1 \/ slot = 2
    BY <1>1
  <2> QED
    BY <1>3, <2>1 DEF NoArguments, ReadArguments, Nearer, Ahead, SlotSteps, AtSlot
<1>4. CASE EachSlot
  <2>1. slot = 0 \/ slot = 1 \/ slot = 2
    BY <1>1
  <2> QED
    BY <1>4, <2>1 DEF EachSlot, Nearer, Ahead, SlotSteps, InSlot, AtSlot, Slots
<1>5. CASE SendSetCard
  BY <1>2, <1>5 DEF SendSetCard, Transfer, Nearer, Ahead, SlotSteps, InSlot, AtSlot, Slots
<1>6. CASE SetCardDone
  BY <1>2, <1>6 DEF SetCardDone, LeaveSlot, LoopInv, Nearer, Ahead, SlotSteps, InSlot,
                    PollsLeft, AtSlot, Slots
<1>7. CASE SendStatus
  BY <1>2, <1>7 DEF SendStatus, Transfer, Nearer, Ahead, SlotSteps, InSlot, PollsLeft,
                    AtSlot, Slots
<1>8. CASE StatusDone
  BY <1>2, <1>8 DEF StatusDone, LeaveSlot, LoopType, LoopInv, Nearer, Ahead, SlotSteps,
                    InSlot, PollsLeft, AtSlot, Slots
<1>9. CASE Restore
  BY <1>9 DEF Restore, Nearer, Ahead, AtSlot
<1>10. CASE Sio2
  <2>1. reply = "running" /\ reply' # "running" /\ UNCHANGED <<pc, slot, polls, sent>>
    BY <1>10 DEF Sio2, Answered, AnswerLost, NotTaken, Ends
  <2>2. pc = "wait" /\ pc \in AtSlot /\ slot \in Slots /\ polls[slot] \in 0 .. MaxPolls
    BY <1>2, <2>1 DEF LoopInv, AtSlot
  <2> QED
    BY <2>1, <2>2 DEF Nearer, Ahead, SlotSteps, InSlot, PollsLeft, AtSlot, Slots
<1>11. CASE \E i \in Slots : CardReady(i)
  <2>1. UNCHANGED <<pc, slot, polls, sent, reply>>
    BY <1>11 DEF CardReady
  <2>2. Ahead' = Ahead
    BY <2>1 DEF Ahead, InSlot, PollsLeft
  <2>3. CASE Igr \/ Sio2
    BY <2>1, <2>3, <1>3, <1>4, <1>5, <1>6, <1>7, <1>8, <1>9, <1>10 DEF Igr
  <2> QED
    BY <1>1, <2>2, <2>3 DEF Nearer
<1> QED
  BY <1>3, <1>4, <1>5, <1>6, <1>7, <1>8, <1>9, <1>10, <1>11 DEF Next, Igr

\* mmceigr.c, _start, for any number of polls: each step of the program or of the
\* SIO2 leaves less to do, so that it is over within 6 MaxPolls + 11 of them,
\* whatever the cards answer.
THEOREM IgrIsBounded == Spec => [](Ahead \in 0 .. 6 * MaxPolls + 11) /\ [][Nearer]_vars
<1>1. IgrInv => Ahead \in 0 .. 6 * MaxPolls + 11
  BY AheadBounded DEF IgrInv
<1>2. IgrInv /\ [Next]_vars => [Nearer]_vars
  BY StepsNearer DEF IgrInv
<1> QED
  BY <1>1, <1>2, IgrInvAlways, PTL DEF Spec

=============================================================================
