------------------------------- MODULE MmceFs -------------------------------
(***************************************************************************)
(* The file system driver of mmce_fs.c: the table of file handles, the     *)
(* choice of the memory card port, the lock, the packets of each command,  *)
(* and what the cards hold open.                                           *)
(*                                                                         *)
(* External: iomanX, which calls the handlers and forgets a file when its  *)
(* close returns, whatever it returns; the applications, which use a file  *)
(* in one call at a time and reset a card with none of its files open; and *)
(* the cards, which open, close and name files by descriptor.              *)
(***************************************************************************)
EXTENDS MmceCommands, Integers, FiniteSets, FiniteSetsExt

CONSTANTS
    Threads,     \* the callers of iomanX
    Units,       \* mmce0: and mmce1:, those with a card in
    Files,       \* files and directories the callers use
    Ops,         \* the commands they use
    Overlap,     \* those that two callers may be inside at the same time
    MaxFd,       \* size of the handle table (MMCE_FS_MAX_FD, 16)
    CardFds,     \* the descriptors a card gives out
    CardFaults,  \* may packets be lost, or a close be refused?
    NoThread,    \* a value for "none"
    NoFile       \* and another

ASSUME CallersAssumption ==
    Units \subseteq {0, 1} /\ Ops \subseteq Commands /\ Overlap \subseteq Ops
ASSUME TableAssumption == MaxFd \in Nat \ {0} /\ CardFds \subseteq 0 .. 254
ASSUME FaultsAssumption == CardFaults \in BOOLEAN
ASSUME NoneAssumption == NoThread \notin Threads /\ NoFile \notin Files

Slots == 0 .. MaxFd - 1
Free == -1
NoSlot == -1
Reserved == 250 .. 254

VARIABLES
    pc,         \* where each caller is in its handler
    call,       \* and its call: the command (op), the file it names by handle,
                \* file->unit, the descriptor in its packets or in the answer
                \* (fd), the packets exchanged (sent)
    handle,     \* iomanX's file: by which command it is open (how), its unit,
                \* and the slot of the table its privdata points to
    fds,        \* mmce_fs_fds
    last_unit,
    port,       \* mmce_port
    lock,       \* the caller inside mmce_sio2_lock .. mmce_sio2_unlock
    held        \* per card: the file each of its descriptors stands for

vars == <<pc, call, handle, fds, last_unit, port, lock, held>>

TypeOK ==
    /\ pc \in [Threads -> {"idle", "update", "setport", "prepare", "lock",
                           "send", "succeed", "fail", "succeeded", "failed"}]
    /\ call \in [Threads ->
          [op : Commands, file : Files \cup {NoFile}, unit : {0, 1},
           fd : CardFds \cup {255}, sent : 0 .. 4]]
    /\ handle \in [Files -> [how : Opens \cup {"closed"}, unit : {0, 1},
                            privdata : Slots \cup {NoSlot}]]
    /\ fds \in [Slots -> CardFds \cup {Free}]
    /\ last_unit \in {-1, 0, 1}
    /\ port \in {2, 3}
    /\ lock \in Threads \cup {NoThread}
    /\ held \in [Units -> [CardFds -> Files \cup {NoFile}]]

NoCall == [op |-> "devctl", file |-> NoFile, unit |-> 0,
           fd |-> 255, sent |-> 0]
NoHandle == [how |-> "closed", unit |-> 0, privdata |-> NoSlot]

\* After __start: mmce_init looked for a card in port 2 and then in port 3, and
\* reset the ones it found.
Init ==
    /\ pc = [t \in Threads |-> "idle"]
    /\ call = [t \in Threads |-> NoCall]
    /\ handle = [f \in Files |-> NoHandle]
    /\ fds = [s \in Slots |-> Free]
    /\ last_unit = -1
    /\ port = 3
    /\ lock = NoThread
    /\ held = [u \in Units |-> [x \in CardFds |-> NoFile]]

-----------------------------------------------------------------------------
(* A call begins *)

OpenFiles == {f \in Files : handle[f].how # "closed"}

Busy(f) == \E t \in Threads : pc[t] # "idle" /\ call[t].file = f

\* What iomanX and the applications call a handler with.
MayCall(c, u, f) ==
    \/ c \in Opens /\ f \in Files /\ handle[f].how = "closed" /\ ~Busy(f)
    \/ /\ c \in ByFd /\ f \in OpenFiles /\ ~Busy(f)
       /\ handle[f].how = OpenedBy(c) /\ handle[f].unit = u
    \/ /\ c \notin Opens \cup ByFd /\ f = NoFile
       /\ c = "reset" => \A g \in OpenFiles : handle[g].unit # u

Call(t, c, u, f) ==
    /\ pc[t] = "idle"
    /\ \A s \in Threads : pc[s] # "idle" => {c, call[s].op} \subseteq Overlap
    /\ MayCall(c, u, f)
    /\ pc' = [pc EXCEPT ![t] = "update"]
    /\ call' = [call EXCEPT ![t] = [NoCall EXCEPT !.op = c, !.file = f, !.unit = u]]
    /\ UNCHANGED <<handle, fds, last_unit, port, lock, held>>

\* Faulty: the unit's number for the port's.
PortOfRaw(u) == u

PortOf(u) == IF u = 0 THEN 2 ELSE 3

\* Faulty: the first call takes the port __start left behind for its own.
UpdateUnitFirst(t) ==
    /\ pc[t] = "update"
    /\ last_unit' = call[t].unit
    /\ pc' = [pc EXCEPT ![t] = IF last_unit \in {-1, call[t].unit} THEN "prepare" ELSE "setport"]
    /\ UNCHANGED <<call, handle, fds, port, lock, held>>

\* mmce_fs_update_unit: outside the lock, last_unit first and the port after.
UpdateUnit(t) ==
    /\ pc[t] = "update"
    /\ last_unit' = call[t].unit
    /\ pc' = [pc EXCEPT ![t] = IF last_unit = call[t].unit THEN "prepare" ELSE "setport"]
    /\ UNCHANGED <<call, handle, fds, port, lock, held>>

SetPort(t) ==
    /\ pc[t] = "setport"
    /\ port' = PortOf(call[t].unit)
    /\ pc' = [pc EXCEPT ![t] = "prepare"]
    /\ UNCHANGED <<call, handle, fds, last_unit, lock, held>>

\* Faulty: the search takes the last slot without looking at it.
FreeSlotsLast == {s \in Slots : fds[s] < 0 \/ s = MaxFd - 1}

FreeSlots == {s \in Slots : fds[s] < 0}

\* The handler returns; iomanX keeps of the file what h says.
Return(t, h) ==
    /\ pc' = [pc EXCEPT ![t] = "idle"]
    /\ call' = [call EXCEPT ![t] = NoCall]
    /\ handle' = [f \in Files |-> IF f = call[t].file THEN h ELSE handle[f]]

\* open, dopen: mmce_fs_find_free_handle.  The slot is not taken: it stays
\* below 0 until the card has answered.
FindHandle(t) ==
    /\ pc[t] = "prepare"
    /\ call[t].op \in Opens
    /\ IF FreeSlots = {}
       THEN Return(t, NoHandle)
       ELSE /\ handle' = [handle EXCEPT ![call[t].file].privdata = Min(FreeSlots)]
            /\ pc' = [pc EXCEPT ![t] = "lock"]
            /\ UNCHANGED call
    /\ UNCHANGED <<fds, last_unit, port, lock, held>>

\* The other commands by handle: the descriptor goes into the packet, a free
\* slot's -1 as 255.  The close of a reserved descriptor returns here.
PackFd(t) ==
    LET x == fds[handle[call[t].file].privdata]
    IN  /\ pc[t] = "prepare"
        /\ call[t].op \in ByFd
        /\ IF call[t].op = "close" /\ x \in Reserved
           THEN Return(t, NoHandle)
           ELSE /\ call' = [call EXCEPT ![t].fd = IF x = Free THEN 255 ELSE x]
                /\ pc' = [pc EXCEPT ![t] = "lock"]
                /\ UNCHANGED handle
        /\ UNCHANGED <<fds, last_unit, port, lock, held>>

\* The commands by name and the devctl commands.
PackName(t) ==
    /\ pc[t] = "prepare"
    /\ call[t].op \notin Opens \cup ByFd
    /\ pc' = [pc EXCEPT ![t] = "lock"]
    /\ UNCHANGED <<call, handle, fds, last_unit, port, lock, held>>

\* A devctl for a setting, an unknown one, or a card and channel without its
\* five bytes: no packet is sent, but the port is the unit's now.
NoExchange(t) ==
    /\ pc[t] = "prepare"
    /\ call[t].op = "devctl"
    /\ pc' = [pc EXCEPT ![t] = "idle"]
    /\ call' = [call EXCEPT ![t] = NoCall]
    /\ UNCHANGED <<handle, fds, last_unit, port, lock, held>>

-----------------------------------------------------------------------------
(* The exchange with the card in the port *)

Lock(t) ==
    /\ pc[t] = "lock"
    /\ lock = NoThread
    /\ lock' = t
    /\ pc' = [pc EXCEPT ![t] = "send"]
    /\ UNCHANGED <<call, handle, fds, last_unit, port, held>>

\* The unit whose card is in the port, if there is one.
InPort == {u \in Units : PortOf(u) = port}

FreeFds(u) == {x \in CardFds : held[u][x] = NoFile}

\* With which packet the card opens, closes or drops files.
EffectPacket(c) == IF c \in Opens THEN 3 ELSE IF c \in Closes \cup {"reset"} THEN 1 ELSE 0

\* What the card u may do with the next packet of t's command: the descriptor
\* the command is left with, and what u holds then.
CardActs(t, u) ==
    LET c == call[t]
    IN  IF c.sent + 1 # EffectPacket(c.op) THEN {[fd |-> c.fd, held |-> held[u]]}
        ELSE IF c.op \in Opens
        THEN {[fd |-> x, held |-> [held[u] EXCEPT ![x] = c.file]] : x \in FreeFds(u)}
        ELSE {[fd |-> c.fd,
               held |-> [x \in CardFds |->
                            IF c.op = "reset" \/ x = c.fd THEN NoFile ELSE held[u][x]]]}

Answered(t) ==
    /\ pc[t] = "send"
    /\ \E u \in InPort : \E a \in CardActs(t, u) :
          /\ call' = [call EXCEPT ![t].fd = a.fd, ![t].sent = @ + 1]
          /\ held' = [held EXCEPT ![u] = a.held]
    /\ pc' = [pc EXCEPT ![t] =
                 IF call'[t].sent = Packets[call[t].op] THEN "succeed" ELSE "send"]
    /\ UNCHANGED <<handle, fds, last_unit, port, lock>>

\* The exchange ends with an error: -1, or the card's return value.
Fails(t) ==
    /\ pc' = [pc EXCEPT ![t] = "fail"]
    /\ UNCHANGED <<call, handle, fds, last_unit, port, lock>>

\* The card says no: no such file, no descriptor left, its own storage.
CardRefuses(t) ==
    /\ pc[t] = "send"
    /\ InPort # {}
    /\ call[t].sent + 1 = StatusPacket[call[t].op]
    /\ call[t].op \in Closes => CardFaults

\* Faulty: a bad return value ends the call without the unlock.
RefusedNoUnlock(t) ==
    /\ CardRefuses(t)
    /\ Return(t, NoHandle)
    /\ UNCHANGED <<fds, last_unit, port, lock, held>>

Refused(t) ==
    /\ CardRefuses(t)
    /\ Fails(t)
    /\ UNCHANGED held

\* No /ACK within the timeout, or not the reply constant: with no card in the
\* port; when a packet is lost; when only its answer is.
Lost(t) ==
    /\ pc[t] = "send"
    /\ \/ (CardFaults \/ InPort = {}) /\ UNCHANGED held
       \/ /\ CardFaults
          /\ \E u \in InPort : \E a \in CardActs(t, u) : held' = [held EXCEPT ![u] = a.held]
    /\ Fails(t)

Unlock(t) ==
    /\ pc[t] \in {"succeed", "fail"}
    /\ lock' = NoThread
    /\ pc' = [pc EXCEPT ![t] = IF pc[t] = "succeed" THEN "succeeded" ELSE "failed"]
    /\ UNCHANGED <<call, handle, fds, last_unit, port, held>>

\* Faulty: the card's bad descriptor is taken for a file that is open.
FinishOpenAlways(t) ==
    LET f == call[t].file
    IN  /\ pc[t] \in {"succeeded", "failed"}
        /\ call[t].op \in Opens
        /\ fds' = IF pc[t] = "succeeded"
                  THEN [fds EXCEPT ![handle[f].privdata] = call[t].fd] ELSE fds
        /\ Return(t, [handle[f] EXCEPT !.how = call[t].op, !.unit = call[t].unit])
        /\ UNCHANGED <<last_unit, port, lock, held>>

\* open, dopen: the descriptor goes into the slot after the unlock.
FinishOpen(t) ==
    LET f == call[t].file
    IN  /\ call[t].op \in Opens
        /\ \/ /\ pc[t] = "succeeded"
              /\ fds' = [fds EXCEPT ![handle[f].privdata] = call[t].fd]
              /\ Return(t, [handle[f] EXCEPT !.how = call[t].op, !.unit = call[t].unit])
           \/ /\ pc[t] = "failed"
              /\ Return(t, NoHandle)
              /\ UNCHANGED fds
        /\ UNCHANGED <<last_unit, port, lock, held>>

\* Faulty: the slot is given back for a file, not for a directory.
FinishCloseFiles(t) ==
    /\ pc[t] \in {"succeeded", "failed"}
    /\ call[t].op \in Closes
    /\ fds' = IF pc[t] = "succeeded" /\ call[t].op = "close"
              THEN [fds EXCEPT ![handle[call[t].file].privdata] = Free] ELSE fds
    /\ Return(t, NoHandle)
    /\ UNCHANGED <<last_unit, port, lock, held>>

\* close, dclose: the slot is free again only when the card said so.
FinishClose(t) ==
    /\ pc[t] \in {"succeeded", "failed"}
    /\ call[t].op \in Closes
    /\ fds' = IF pc[t] = "succeeded"
              THEN [fds EXCEPT ![handle[call[t].file].privdata] = Free] ELSE fds
    /\ Return(t, NoHandle)
    /\ UNCHANGED <<last_unit, port, lock, held>>

Finish(t) ==
    /\ pc[t] \in {"succeeded", "failed"}
    /\ call[t].op \notin Opens \cup Closes
    /\ pc' = [pc EXCEPT ![t] = "idle"]
    /\ call' = [call EXCEPT ![t] = NoCall]
    /\ UNCHANGED <<handle, fds, last_unit, port, lock, held>>

Handler(t) ==
    \/ UpdateUnit(t) \/ SetPort(t)
    \/ FindHandle(t) \/ PackFd(t) \/ PackName(t) \/ NoExchange(t)
    \/ Answered(t) \/ Refused(t) \/ Lost(t)
    \/ Unlock(t)
    \/ FinishOpen(t) \/ FinishClose(t) \/ Finish(t)

Next ==
    \E t \in Threads :
        \/ \E c \in Ops, u \in Units, f \in Files \cup {NoFile} : Call(t, c, u, f)
        \/ Lock(t)
        \/ Handler(t)

Spec == Init /\ [][Next]_vars

\* A handler runs on (its packets are answered or time out: MmceSio2), and the
\* semaphore behind the lock lets its waiters in by turns.
FairSpec == Spec /\ \A t \in Threads : WF_vars(Handler(t)) /\ SF_vars(Lock(t))

-----------------------------------------------------------------------------
(* Properties *)

\* Every packet of a call goes out on the port of the unit it was made for.
RightCard == \A t \in Threads : pc[t] = "send" => port = PortOf(call[t].unit)

\* A command by handle reaches the card with a descriptor that stands there
\* for the caller's file, and for no other.
RightFile ==
    \A t \in Threads :
        pc[t] = "send" /\ call[t].op \in ByFd /\ call[t].sent = 0 =>
            call[t].fd \in CardFds /\ held[call[t].unit][call[t].fd] = call[t].file

\* Two open files never share a slot of the table, nor a descriptor of one card.
HandlesDistinct ==
    \A f, g \in OpenFiles : f # g =>
        /\ handle[f].privdata # handle[g].privdata
        /\ handle[f].unit = handle[g].unit => fds[handle[f].privdata] # fds[handle[g].privdata]

\* Between calls, when no packet was lost, the table's used slots are those of
\* the open files and the card holds those files and no other.  What the close
\* of a reserved descriptor leaves behind is that descriptor and its slot, and
\* nothing else.
NothingLeft ==
    (\A t \in Threads : pc[t] = "idle") =>
        LET slotOf(f) == handle[f].privdata
        IN  /\ {s \in Slots : fds[s] \notin Reserved \cup {Free}} =
                  {slotOf(f) : f \in {g \in OpenFiles : fds[slotOf(g)] \notin Reserved}}
            /\ \A u \in Units :
                  {held[u][x] : x \in CardFds \ Reserved} \ {NoFile} =
                      {f \in OpenFiles : handle[f].unit = u /\ fds[slotOf(f)] \notin Reserved}

-----------------------------------------------------------------------------
(* The refinement: where a call is, and the descriptor an open file owns *)

Stage(p) ==
    CASE p = "idle" -> "idle"
      [] p \in {"update", "setport", "prepare", "lock", "send"} -> "open"
      [] p \in {"succeed", "succeeded"} -> "done"
      [] OTHER -> "failed"

asks ==
    [t \in Threads |->
        [state |-> Stage(pc[t]), op |-> call[t].op, file |-> call[t].file, unit |-> call[t].unit,
         fd |-> IF call[t].op \in Opens THEN call[t].fd ELSE 255]]

owns ==
    [f \in Files |->
        IF handle[f].how = "closed" THEN [how |-> "closed", unit |-> 0, fd |-> 255]
        ELSE [how |-> handle[f].how, unit |-> handle[f].unit, fd |-> fds[handle[f].privdata]]]

FilesPromise == INSTANCE FsPromise

\* To iomanX every open file owns a descriptor of its card, and every call is
\* one act of that card on its own file: no slot of the table, no port and no
\* other caller ever comes between them.
FilesKept == FilesPromise!Spec

\* Every call returns, whatever the card answers and whoever else holds the lock.
CallReturns == \A t \in Threads : pc[t] # "idle" ~> pc[t] = "idle"

=============================================================================
