------------------------------ MODULE MmceCall ------------------------------
(***************************************************************************)
(* One command after another between the code and a card, packet by        *)
(* packet, under the lock of MmceSio2: replies that are garbage, refusals, *)
(* packets the card does not acknowledge, and the next call after any of   *)
(* them.                                                                   *)
(*                                                                         *)
(* The card is external.  It follows the protocol the repository publishes *)
(* for card makers: the first byte of a new command takes it out of        *)
(* whatever it was doing; after a refusal it sends nothing more.           *)
(***************************************************************************)
EXTENDS MmceCommands

CONSTANT Used    \* the commands the callers use

ASSUME UsedAssumption == Used \subseteq Commands

VARIABLES
    cmd,      \* the command of the current, or the last, call
    sent,     \* packets of it that were exchanged
    result,   \* none while the call runs; then ok or failed
    next,     \* the packet the card is ready for (1: a new command)
    serving,  \* the command the card is in
    refused   \* has the card refused the current call?

vars == <<cmd, sent, result, next, serving, refused>>

\* The card's side of the tables: its packets, and where it puts its status.
CardPackets ==
    [c \in Commands |->
        IF c \in {"open", "dopen", "remove", "mkdir", "rmdir", "getstat",
                  "read", "write", "read_sector"} THEN 3
        ELSE IF c \in {"rename", "dread"} THEN 4
        ELSE 1]

CardStatusByte ==
    [c \in Commands |->
        IF c = "read_sector" THEN 10
        ELSE IF c \in {"read", "write"} THEN 9
        ELSE IF c \in {"close", "dclose", "dread"} THEN 4
        ELSE IF c = "getstat" THEN 41
        ELSE 1]

TypeOK ==
    /\ cmd \in Used
    /\ sent \in 0 .. 4
    /\ result \in {"none", "ok", "failed"}
    /\ next \in 1 .. 4
    /\ serving \in Used
    /\ refused \in BOOLEAN

Init ==
    /\ cmd \in Used
    /\ sent = 0
    /\ result = "failed"
    /\ next = 1
    /\ serving = cmd
    /\ refused = FALSE

Call(c) ==
    /\ result # "none"
    /\ cmd' = c
    /\ sent' = 0
    /\ result' = "none"
    /\ refused' = FALSE
    /\ UNCHANGED <<next, serving>>

\* Does the card take the call's next packet for what it is?
Understood == sent = 0 \/ (serving = cmd /\ next = sent + 1)

\* What the card is ready for when it has taken that packet.
CardNext == IF sent + 1 = CardPackets[cmd] THEN 1 ELSE sent + 2

\* What the code makes of an answer it finds nothing wrong with.
GoesOn ==
    /\ sent' = sent + 1
    /\ result' = IF sent + 1 = Packets[cmd] THEN "ok" ELSE "none"

Answered ==
    /\ result = "none"
    /\ Understood
    /\ GoesOn
    /\ serving' = cmd
    /\ next' = CardNext
    /\ UNCHANGED <<cmd, refused>>

\* Faulty: the return value is not looked at before the data.
StatusNotSeen == StatusByte[cmd] = CardStatusByte[cmd] /\ cmd \notin Streamed

\* Does the code look at the byte the card wrote its status to?
StatusSeen == StatusByte[cmd] = CardStatusByte[cmd]

\* The card says no: a return value or a file descriptor that means error.
Refused ==
    /\ result = "none"
    /\ Understood
    /\ sent + 1 = StatusPacket[cmd]
    /\ IF StatusSeen
       THEN sent' = sent + 1 /\ result' = "failed"
       ELSE GoesOn
    /\ refused' = TRUE
    /\ serving' = cmd
    /\ next' = 1
    /\ UNCHANGED cmd

\* The reply constant is not 0xAA: checked in the first packet only.
Garbled ==
    /\ result = "none"
    /\ sent = 0
    /\ sent' = 1
    /\ result' = "failed"
    /\ \E n \in 1 .. 4 : next' = n
    /\ serving' = cmd
    /\ UNCHANGED <<cmd, refused>>

\* The card does not acknowledge, or only part of the packet: -1.
Silent ==
    /\ result = "none"
    /\ sent' = sent + 1
    /\ result' = "failed"
    /\ \/ UNCHANGED <<next, serving>>
       \/ /\ Understood
          /\ serving' = cmd
          /\ next' = CardNext
    /\ UNCHANGED <<cmd, refused>>

Next ==
    \/ \E c \in Used : Call(c)
    \/ Answered
    \/ Refused
    \/ Garbled
    \/ Silent

Spec == Init /\ [][Next]_vars

-----------------------------------------------------------------------------
(* Properties *)

\* In a call that goes well so far the card waits for the packet the code is
\* about to send, and at its end the card waits for a new command.
InStep ==
    /\ result = "none" /\ sent > 0 /\ ~refused => serving = cmd /\ next = sent + 1
    /\ result = "ok" => next = 1

\* A command the card refused is not reported as done, in whichever packet the
\* refusal came.
RefusalReported == result = "ok" => ~refused

\* Once the card has refused, nothing more of the command is sent to it.
StopsWhenRefused == [][sent' > sent => ~refused]_vars

=============================================================================
