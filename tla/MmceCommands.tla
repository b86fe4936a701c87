---------------------------- MODULE MmceCommands ----------------------------
(***************************************************************************)
(* The commands of mmce_fs.c, mmce_cmds.c and mmcedrv.c as the code frames *)
(* them: in how many packets each is exchanged with the card, and which of *)
(* the bytes received is taken for the card's return value.                *)
(***************************************************************************)
EXTENDS Naturals

\* A command, a name, an answer.
Named == {"open", "dopen", "remove", "mkdir", "rmdir", "getstat"}

\* A command, the data, a footer with the count.
Streamed == {"read", "write", "read_sector"}

\* A command and its answer, the new position, in one packet.
Seeks == {"lseek", "lseek64"}

\* A command and its answer in one packet.
Closes == {"close", "dclose"}
Short == Closes \cup Seeks

\* devctl: one packet each (ping, get/set card, channel and game ID, reset).
Devctl == {"devctl", "reset"}

Commands == Named \cup {"rename", "dread"} \cup Streamed \cup Short \cup Devctl

\* The commands that name an open file by the card's file descriptor.
ByFd == Short \cup Streamed \cup {"dread"}

Opens == {"open", "dopen"}

\* Which of the two opened the file that a command by handle is for.
OpenedBy(c) == IF c \in {"dread", "dclose"} THEN "dopen" ELSE "open"

\* Faulty: dread waits for one packet too many, a write not for its footer.
PacketsDreadLong ==
    [c \in Commands |->
        IF c \in Named \cup Streamed THEN 3
        ELSE IF c = "rename" THEN 4
        ELSE IF c = "dread" THEN 5
        ELSE 1]

PacketsWriteShort ==
    [c \in Commands |->
        IF c = "write" THEN 2
        ELSE IF c \in Named \cup Streamed THEN 3
        ELSE IF c \in {"rename", "dread"} THEN 4
        ELSE 1]

\* Packets a command is exchanged in; the data of a read or a write is one.
Packets ==
    [c \in Commands |->
        IF c \in Named \cup Streamed THEN 3
        ELSE IF c \in {"rename", "dread"} THEN 4
        ELSE 1]

\* The packet whose answer carries the card's return value (0: none does).
StatusPacket ==
    [c \in Commands |->
        IF c \in Named \cup {"rename"} THEN Packets[c]
        ELSE IF c \in Streamed \cup {"dread", "close", "dclose"} THEN 1
        ELSE 0]

\* Faulty: dclose looks where it looks after an open.
StatusByteDclose ==
    [c \in Commands |->
        IF c \in Streamed THEN 9
        ELSE IF c \in {"close", "dread"} THEN 4
        ELSE IF c = "getstat" THEN 41
        ELSE 1]

\* Which byte of that answer the code looks at.
StatusByte ==
    [c \in Commands |->
        IF c \in Streamed THEN 9
        ELSE IF c \in {"close", "dclose", "dread"} THEN 4
        ELSE IF c = "getstat" THEN 41
        ELSE 1]

=============================================================================
