--------------------------- MODULE MmceCallProofs ---------------------------
(***************************************************************************)
(* Theorems about MmceCall, for every set of commands without the sector   *)
(* read: types, host and card in step, refusals reported and obeyed.       *)
(***************************************************************************)
EXTENDS MmceCall, TLAPS

\* The sector read looks for its status in another byte than the card writes.
NoSectors == "read_sector" \notin Used

\* The tables of the code and of the card agree.
LEMMA Tables ==
    ASSUME NEW c \in Used
    PROVE  /\ Packets[c] \in 1 .. 4
           /\ CardPackets[c] = Packets[c]
           /\ StatusPacket[c] \in 0 .. Packets[c]
           /\ c # "read_sector" => StatusByte[c] = CardStatusByte[c]
<1>1. c \in Commands
  BY UsedAssumption
<1>2. /\ Packets[c] = IF c \in Named \cup Streamed THEN 3
                      ELSE IF c \in {"rename", "dread"} THEN 4 ELSE 1
      /\ CardPackets[c] = IF c \in {"open", "dopen", "remove", "mkdir", "rmdir", "getstat",
                                    "read", "write", "read_sector"} THEN 3
                          ELSE IF c \in {"rename", "dread"} THEN 4 ELSE 1
  BY <1>1 DEF Packets, CardPackets
<1>3. Packets[c] \in 1 .. 4 /\ CardPackets[c] = Packets[c]
  BY <1>2 DEF Named, Streamed
<1>4. StatusPacket[c] = IF c \in Named \cup {"rename"} THEN Packets[c]
                        ELSE IF c \in Streamed \cup {"dread", "close", "dclose"} THEN 1
                        ELSE 0
  BY <1>1 DEF StatusPacket
<1>5. StatusPacket[c] \in 0 .. Packets[c]
  BY <1>3, <1>4
<1>6. /\ StatusByte[c] = IF c \in Streamed THEN 9
                         ELSE IF c \in {"close", "dclose", "dread"} THEN 4
                         ELSE IF c = "getstat" THEN 41 ELSE 1
      /\ CardStatusByte[c] = IF c = "read_sector" THEN 10
                             ELSE IF c \in {"read", "write"} THEN 9
                             ELSE IF c \in {"close", "dclose", "dread"} THEN 4
                             ELSE IF c = "getstat" THEN 41 ELSE 1
  BY <1>1 DEF StatusByte, CardStatusByte
<1>7. c # "read_sector" => StatusByte[c] = CardStatusByte[c]
  BY <1>6 DEF Streamed
<1> QED BY <1>3, <1>5, <1>7

\* A call that runs has packets left; once refused it runs no longer.
Running == result = "none" => sent < Packets[cmd] /\ ~refused

CallInv == TypeOK /\ Running /\ InStep /\ RefusalReported

LEMMA CallInit == Init => CallInv
<1> SUFFICES ASSUME Init PROVE CallInv
  OBVIOUS
<1>1. cmd \in Used /\ serving \in Used /\ next \in 1 .. 4 /\ sent \in 0 .. 4
  BY DEF Init
<1>2. result \in {"none", "ok", "failed"} /\ refused \in BOOLEAN
  BY DEF Init
<1>3. Running /\ InStep /\ RefusalReported
  BY DEF Init, Running, InStep, RefusalReported
<1> QED BY <1>1, <1>2, <1>3 DEF CallInv, TypeOK

LEMMA CallStep == NoSectors /\ CallInv /\ [Next]_vars => CallInv'
<1> SUFFICES ASSUME NoSectors, CallInv, [Next]_vars PROVE CallInv'
  OBVIOUS
<1> USE DEF CallInv, Running, InStep, RefusalReported
<1>t. /\ cmd \in Used /\ serving \in Used /\ next \in 1 .. 4 /\ sent \in 0 .. 4
      /\ result \in {"none", "ok", "failed"}
  BY DEF TypeOK
<1>r. refused \in BOOLEAN
  BY DEF TypeOK
<1>p. /\ Packets[cmd] \in 1 .. 4
      /\ CardPackets[cmd] = Packets[cmd]
      /\ StatusPacket[cmd] \in 0 .. Packets[cmd]
      /\ StatusSeen
  BY <1>t, Tables DEF StatusSeen, NoSectors
<1>1. ASSUME NEW c \in Used, Call(c) PROVE CallInv'
  <2>1. Packets[c] \in 1 .. 4
    BY Tables
  <2>2. (Running /\ InStep /\ RefusalReported)'
    BY <1>1, <2>1 DEF Call
  <2>3. refused' \in BOOLEAN
    BY <1>1 DEF Call
  <2>4. TypeOK'
    BY <1>1, <1>t, <2>3 DEF Call, TypeOK
  <2> QED BY <2>2, <2>4
<1>2. CASE Answered
  <2>1. refused' \in BOOLEAN
    BY <1>2, <1>r DEF Answered
  <2>2. sent' \in 0 .. 4 /\ next' \in 1 .. 4
    BY <1>2, <1>t, <1>p DEF Answered, GoesOn, CardNext
  <2>3. TypeOK'
    BY <1>2, <1>t, <2>1, <2>2 DEF Answered, GoesOn, TypeOK
  <2>4. (Running /\ InStep /\ RefusalReported)'
    BY <1>2, <1>t, <1>p DEF Answered, GoesOn, CardNext
  <2> QED BY <2>3, <2>4
<1>3. CASE Refused
  <2>1. sent' = sent + 1 /\ result' = "failed" /\ refused' = TRUE
    BY <1>3, <1>p DEF Refused
  <2>2. serving' = cmd /\ next' = 1 /\ cmd' = cmd /\ sent' \in 0 .. 4
    BY <1>3, <1>t, <1>p DEF Refused
  <2>3. TypeOK'
    BY <1>t, <2>1, <2>2 DEF TypeOK
  <2>4. (Running /\ InStep /\ RefusalReported)'
    BY <2>1
  <2> QED BY <2>3, <2>4
<1>4. CASE Garbled
  <2>1. refused' \in BOOLEAN
    BY <1>4, <1>r DEF Garbled
  <2>2. TypeOK'
    BY <1>4, <1>t, <2>1 DEF Garbled, TypeOK
  <2> QED BY <1>4, <2>2 DEF Garbled
<1>5. CASE Silent
  <2>1. refused' \in BOOLEAN
    BY <1>5, <1>r DEF Silent
  <2>2. sent' \in 0 .. 4 /\ next' \in 1 .. 4 /\ serving' \in Used
    BY <1>5, <1>t, <1>p DEF Silent, CardNext
  <2>3. TypeOK'
    BY <1>5, <1>t, <2>1, <2>2 DEF Silent, TypeOK
  <2> QED BY <1>5, <2>3 DEF Silent
<1>6. CASE UNCHANGED vars
  <2>1. TypeOK'
    BY <1>6, <1>t, <1>r DEF vars, TypeOK
  <2> QED BY <1>6, <2>1 DEF vars
<1> QED BY <1>1, <1>2, <1>3, <1>4, <1>5, <1>6 DEF Next

LEMMA CallInvAlways == ASSUME NoSectors PROVE Spec => []CallInv
<1>1. CallInv /\ [Next]_vars => CallInv'
  BY CallStep, NoSectors
<1> QED BY <1>1, CallInit, PTL DEF Spec

-----------------------------------------------------------------------------
(* Theorems *)

\* The host counts the packets of a call within the command's table, and the
\* card is always in a command that exists.
THEOREM CallTypeCorrect == ASSUME NoSectors PROVE Spec => []TypeOK
<1>1. CallInv => TypeOK
  BY DEF CallInv
<1> QED BY <1>1, CallInvAlways, PTL

\* mmce_cmds.c, mmce_fs.c: with every command but the sector read, the card is
\* waiting for the packet that comes next, and after a call that went well for
\* a new command.
THEOREM HostAndCardInStep == ASSUME NoSectors PROVE Spec => []InStep
<1>1. CallInv => InStep
  BY DEF CallInv
<1> QED BY <1>1, CallInvAlways, PTL

\* mmce_cmds.c, mmce_fs.c: with every command but the sector read, a refusal
\* in any packet makes the call fail.
THEOREM RefusalIsReported == ASSUME NoSectors PROVE Spec => []RefusalReported
<1>1. CallInv => RefusalReported
  BY DEF CallInv
<1> QED BY <1>1, CallInvAlways, PTL

\* And nothing more of a refused command is sent.
THEOREM RefusedCallStops == ASSUME NoSectors PROVE Spec => StopsWhenRefused
<1>1. CallInv /\ [Next]_vars => [sent' > sent => ~refused]_vars
  <2> SUFFICES ASSUME CallInv, Next, sent' > sent PROVE ~refused
    BY DEF vars
  <2>1. result = "none" => ~refused
    BY DEF CallInv, Running
  <2>2. sent \in 0 .. 4
    BY DEF CallInv, TypeOK
  <2>3. ASSUME NEW c \in Used, Call(c) PROVE FALSE
    BY <2>2, <2>3 DEF Call
  <2>4. result = "none"
    BY <2>3 DEF Next, Answered, Refused, Garbled, Silent
  <2> QED BY <2>1, <2>4
<1> QED BY <1>1, CallInvAlways, PTL DEF Spec, StopsWhenRefused

=============================================================================
