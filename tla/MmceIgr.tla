------------------------------- MODULE MmceIgr -------------------------------
(***************************************************************************)
(* The in-game reset of mmceigr.c: for each memory card slot asked for,    *)
(* tell the card to change to its boot card, then poll its status until    *)
(* it is no longer busy, for about 7.5 s at most.                          *)
(*                                                                         *)
(* The module has the SIO2 to itself: it takes no lock, keeps interrupts   *)
(* off and waits for bit 12 of stat6c.  External: the cards, and the SIO2, *)
(* which ends every transfer by itself, when the card does not acknowledge *)
(* after the ACK timeout set in the port.                                  *)
(***************************************************************************)
EXTENDS Naturals

CONSTANT MaxPolls    \* 15, half a second each

ASSUME PollsAssumption == MaxPolls \in Nat \ {0}

Slots == {0, 1}

VARIABLES
    pc,      \* start, slot, setcard, delay, wait, restore, done
    wanted,  \* slot[]: the slots argv[1] asks for
    slot,    \* i: the slot the loop is at
    polls,   \* j, for each slot
    sent,    \* the command of the current transfer
    reply,   \* how that ended; running while it has not
    ctrl,    \* whose setting the SIO2 control register holds
    ports,   \* whose settings portN_ctrl1 and portN_ctrl2 of each slot hold
    card     \* what is in each slot: is it a card (there), which memory card
             \* it shows (image), is it changing it (busy)

vars == <<pc, wanted, slot, polls, sent, reply, ctrl, ports, card>>

Replies == {"running", "timeout", "garbled", "busy", "ready"}

TypeOK ==
    /\ pc \in {"start", "slot", "setcard", "delay", "wait", "restore", "done"}
    /\ wanted \in SUBSET Slots
    /\ slot \in 0 .. 2
    /\ polls \in [Slots -> 0 .. MaxPolls]
    /\ sent \in {"none", "setcard", "status"}
    /\ reply \in Replies
    /\ ctrl \in {"found", "igr"}
    /\ ports \in [Slots -> {"found", "igr"}]
    /\ card \in [Slots -> [there : BOOLEAN, image : {"game", "boot"}, busy : BOOLEAN]]

Init ==
    /\ pc = "start"
    /\ wanted = {}
    /\ slot = 0
    /\ polls = [i \in Slots |-> 0]
    /\ sent = "none"
    /\ reply = "ready"
    /\ ctrl = "found"
    /\ ports = [i \in Slots |-> "found"]
    /\ card \in [Slots -> [there : BOOLEAN, image : {"game"}, busy : {FALSE}]]

\* argc < 1
NoArguments ==
    /\ pc = "start"
    /\ pc' = "done"
    /\ UNCHANGED <<wanted, slot, polls, sent, reply, ctrl, ports, card>>

\* The slots are those whose character of argv[1] is '1'.
ReadArguments(w) ==
    /\ pc = "start"
    /\ wanted' = w
    /\ pc' = "slot"
    /\ UNCHANGED <<slot, polls, sent, reply, ctrl, ports, card>>

\* Faulty: whatever was asked for, both slots are done.
EachSlotAnyway ==
    /\ pc = "slot"
    /\ IF slot = 2
       THEN pc' = "restore" /\ UNCHANGED ports
       ELSE pc' = "setcard" /\ ports' = [ports EXCEPT ![slot] = "igr"]
    /\ UNCHANGED <<wanted, slot, polls, sent, reply, ctrl, card>>

\* for (int i = 0; i < 2; i++) if (slot[i] == 1), with the settings of the port
EachSlot ==
    /\ pc = "slot"
    /\ \/ /\ slot \in wanted
          /\ ports' = [ports EXCEPT ![slot] = "igr"]
          /\ pc' = "setcard"
          /\ UNCHANGED slot
       \/ /\ slot \in Slots \ wanted
          /\ slot' = slot + 1
          /\ UNCHANGED <<pc, ports>>
       \/ /\ slot = 2
          /\ pc' = "restore"
          /\ UNCHANGED <<slot, ports>>
    /\ UNCHANGED <<wanted, polls, sent, reply, ctrl, card>>

\* mmce_sio2_tx_rx_pio: a reset, the queue and the FIFO, a start.
Transfer(command) ==
    /\ sent' = command
    /\ reply' = "running"
    /\ ctrl' = "igr"
    /\ pc' = "wait"

\* cmd_set_card, boot card
SendSetCard ==
    /\ pc = "setcard"
    /\ Transfer("setcard")
    /\ UNCHANGED <<wanted, slot, polls, ports, card>>

\* delay_us(500000), cmd_get_status
SendStatus ==
    /\ pc = "delay"
    /\ Transfer("status")
    /\ UNCHANGED <<wanted, slot, polls, ports, card>>

LeaveSlot == pc' = "slot" /\ slot' = slot + 1

\* Faulty: a failure ends the module at once.
SetCardReturns ==
    /\ pc = "wait" /\ sent = "setcard" /\ reply # "running"
    /\ pc' = IF reply \in {"timeout", "garbled"} THEN "done" ELSE "delay"
    /\ UNCHANGED <<wanted, slot, polls, sent, reply, ctrl, ports, card>>

\* if (res != -1): no timeout, and the reply constant.
SetCardDone ==
    /\ pc = "wait" /\ sent = "setcard" /\ reply # "running"
    /\ IF reply \in {"timeout", "garbled"}
       THEN LeaveSlot
       ELSE pc' = "delay" /\ UNCHANGED slot
    /\ UNCHANGED <<wanted, polls, sent, reply, ctrl, ports, card>>

\* Faulty: a poll that fails counts as an answer.
StillBusyOnlyBusy == reply = "busy"

\* (res & 1) of the status, or of the -1 of a poll that failed.
StillBusy == reply \in {"busy", "timeout", "garbled"}

\* Faulty: one poll too many.
StatusDoneOffByOne ==
    /\ pc = "wait" /\ sent = "status" /\ reply # "running"
    /\ polls' = [polls EXCEPT ![slot] = @ + 1]
    /\ IF StillBusy /\ polls'[slot] <= MaxPolls
       THEN pc' = "delay" /\ UNCHANGED slot
       ELSE LeaveSlot
    /\ UNCHANGED <<wanted, sent, reply, ctrl, ports, card>>

\* Faulty: polls until the card is no longer busy.
StatusDoneForever ==
    /\ pc = "wait" /\ sent = "status" /\ reply # "running"
    /\ polls' = [polls EXCEPT ![slot] = IF @ < MaxPolls THEN @ + 1 ELSE @]
    /\ IF StillBusy THEN pc' = "delay" /\ UNCHANGED slot ELSE LeaveSlot
    /\ UNCHANGED <<wanted, sent, reply, ctrl, ports, card>>

\* for (int j = 0; j < 15; j++)
StatusDone ==
    /\ pc = "wait" /\ sent = "status" /\ reply # "running"
    /\ polls' = [polls EXCEPT ![slot] = @ + 1]
    /\ IF StillBusy /\ polls'[slot] < MaxPolls
       THEN pc' = "delay" /\ UNCHANGED slot
       ELSE LeaveSlot
    /\ UNCHANGED <<wanted, sent, reply, ctrl, ports, card>>

\* The control register is as it was found, and the SIO2 reset; the settings of
\* the ports stay as they are.
Restore ==
    /\ pc = "restore"
    /\ ctrl' = "found"
    /\ pc' = "done"
    /\ UNCHANGED <<wanted, slot, polls, sent, reply, ports, card>>

-----------------------------------------------------------------------------
(* The SIO2 and the cards *)

\* The transfer ends, and the card has taken the command or has not.
Ends(taken, how) ==
    /\ reply = "running"
    /\ reply' = how
    /\ card' = IF taken /\ sent = "setcard"
               THEN [card EXCEPT ![slot].image = "boot", ![slot].busy = TRUE] ELSE card
    /\ UNCHANGED <<pc, wanted, slot, polls, sent, ctrl, ports>>

Answered ==
    /\ card[slot].there
    /\ Ends(TRUE, IF sent = "status" /\ card[slot].busy THEN "busy" ELSE "ready")

\* The answer comes out wrong, or only it is lost.
AnswerLost == card[slot].there /\ \E how \in {"timeout", "garbled"} : Ends(TRUE, how)

NotTaken == Ends(FALSE, "timeout")

\* A card has changed its image.
CardReady(i) ==
    /\ card[i].busy
    /\ card' = [card EXCEPT ![i].busy = FALSE]
    /\ UNCHANGED <<pc, wanted, slot, polls, sent, reply, ctrl, ports>>

-----------------------------------------------------------------------------
Igr ==
    \/ NoArguments \/ \E w \in SUBSET Slots : ReadArguments(w)
    \/ EachSlot \/ SendSetCard \/ SetCardDone \/ SendStatus \/ StatusDone \/ Restore

Sio2 == slot \in Slots /\ (Answered \/ AnswerLost \/ NotTaken)

Next == Igr \/ Sio2 \/ \E i \in Slots : CardReady(i)

Spec == Init /\ [][Next]_vars

\* The program runs on and every transfer ends; of the cards nothing is asked.
FairSpec == Spec /\ WF_vars(Igr) /\ WF_vars(Sio2)

-----------------------------------------------------------------------------
(* Properties *)

\* When the module leaves a slot whose card said it would change, the card has
\* done so, or was polled to the end: a poll that failed is not taken for the
\* end of the change.
ChangeAwaited ==
    \A i \in wanted :
        slot > i /\ polls[i] \in 1 .. MaxPolls - 1 =>
            card[i].image = "boot" /\ ~card[i].busy

\* A slot that was not asked for keeps its card and the settings of its port.
OthersKept ==
    \A i \in Slots \ wanted : card[i].image = "game" /\ polls[i] = 0 /\ ports[i] = "found"

\* What the module leaves behind, whichever cards failed: no transfer, the
\* control register as it found it, and its own settings in the ports of the
\* slots it was asked for, all of them, which it never restores.
LeftBehind ==
    pc = "done" =>
        /\ reply # "running"
        /\ ctrl = "found"
        /\ \A i \in wanted : ports[i] = "igr"

\* It comes to its end, whatever the cards do.
IgrEnds == <>(pc = "done")

=============================================================================
