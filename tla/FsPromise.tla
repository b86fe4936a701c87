------------------------------ MODULE FsPromise ------------------------------
(***************************************************************************)
(* What the file system driver promises iomanX.  The table of handles, the *)
(* port, the lock and the packets are not to be seen: an open file owns a  *)
(* descriptor of its card, and a call is one act of its unit's card on its *)
(* own file, done once and reported as done, or reported as failed.  Only  *)
(* with packets lost may a card have done what is reported as failed.      *)
(***************************************************************************)
EXTENDS MmceCommands

CONSTANTS Threads, Units, Files, Ops, CardFds, Reserved, CardFaults, NoFile

VARIABLES
    asks,   \* each caller's call: its state (idle, open, done, failed), command,
            \* file, unit, and the descriptor an open was answered with (fd)
    owns,   \* by which command a file is open (how), on which unit, and its
            \* descriptor there
    held    \* per card: the file each of its descriptors stands for

pvars == <<asks, owns, held>>

NoAsk == [state |-> "idle", op |-> "devctl", file |-> NoFile, unit |-> 0, fd |-> 255]
Closed == [how |-> "closed", unit |-> 0, fd |-> 255]

Init ==
    /\ asks = [t \in Threads |-> NoAsk]
    /\ owns = [f \in Files |-> Closed]
    /\ held = [u \in Units |-> [x \in CardFds |-> NoFile]]

Under(op, u, t) == asks[t].state # "idle" /\ asks[t].op = op /\ asks[t].unit = u

\* What a caller may ask for, by file: one call at a time on a file, and no
\* reset of a card with files open on it or an open under way.
MayAsk(c, u, f) ==
    /\ f \in Files => \A t \in Threads : asks[t].state # "idle" => asks[t].file # f
    /\ \/ /\ c \in Opens /\ f \in Files /\ owns[f].how = "closed"
          /\ \A t \in Threads : ~Under("reset", u, t)
       \/ c \in ByFd /\ f \in Files /\ owns[f].how = OpenedBy(c) /\ owns[f].unit = u
       \/ c \notin Opens \cup ByFd \cup {"reset"} /\ f = NoFile
       \/ /\ c = "reset" /\ f = NoFile
          /\ \A g \in Files : owns[g].how # "closed" => owns[g].unit # u
          /\ \A t \in Threads, o \in Opens : ~Under(o, u, t)

Ask(t, c, u, f) ==
    /\ asks[t].state = "idle"
    /\ MayAsk(c, u, f)
    /\ asks' = [asks EXCEPT ![t] = [state |-> "open", op |-> c, file |-> f, unit |-> u, fd |-> 255]]
    /\ UNCHANGED <<owns, held>>

\* What the card can be left with by the call a: the descriptor it answers,
\* and what it holds.
Outcomes(a) ==
    LET h == held[a.unit]
    IN  IF a.op \in Opens
        THEN {[fd |-> x, held |-> [h EXCEPT ![x] = a.file]] : x \in {y \in CardFds : h[y] = NoFile}}
        ELSE {[fd |-> a.fd,
               held |-> [x \in CardFds |->
                   IF a.op = "reset" \/ (a.op \in Closes /\ x = owns[a.file].fd)
                   THEN NoFile ELSE h[x]]]}

\* The card acts on the caller's own file.
Serve(t) ==
    LET a == asks[t]
    IN  /\ a.state = "open"
        /\ a.op \in ByFd => held[a.unit][owns[a.file].fd] = a.file
        /\ \E o \in Outcomes(a) :
              /\ asks' = [asks EXCEPT ![t].state = "done", ![t].fd = o.fd]
              /\ held' = [held EXCEPT ![a.unit] = o.held]
        /\ UNCHANGED owns

Fail(t) ==
    LET a == asks[t]
    IN  /\ a.state = "open"
        /\ asks' = [asks EXCEPT ![t].state = "failed"]
        /\ \/ UNCHANGED held
           \/ CardFaults /\ \E o \in Outcomes(a) : held' = [held EXCEPT ![a.unit] = o.held]
        /\ UNCHANGED owns

\* The call returns, and leaves its file as entry says.
Return(t, entry) ==
    /\ asks' = [asks EXCEPT ![t] = NoAsk]
    /\ owns' = [f \in Files |-> IF f = asks[t].file THEN entry ELSE owns[f]]
    /\ UNCHANGED held

\* Without a word to the card: no handle is free for an open, the descriptor
\* to close is a reserved one, or the devctl has nothing to send.
GiveUp(t) ==
    LET a == asks[t]
    IN  /\ a.state = "open"
        /\ \/ a.op \in Opens \cup {"devctl"}
           \/ a.op = "close" /\ owns[a.file].fd \in Reserved
        /\ Return(t, Closed)

Finish(t) ==
    LET a == asks[t]
    IN  /\ a.state \in {"done", "failed"}
        /\ Return(t, IF a.op \in Opens /\ a.state = "done"
                     THEN [how |-> a.op, unit |-> a.unit, fd |-> a.fd]
                     ELSE IF a.op \in Opens \cup Closes THEN Closed
                     ELSE owns[a.file])

Next ==
    \E t \in Threads :
        \/ \E c \in Ops, u \in Units, f \in Files \cup {NoFile} : Ask(t, c, u, f)
        \/ Serve(t) \/ Fail(t)
        \/ GiveUp(t) \/ Finish(t)

Spec == Init /\ [][Next]_pvars

-----------------------------------------------------------------------------
(* What the promise comes to *)

\* An open file's descriptor stands for it on its own card until it is closed.
OwnersHold ==
    \A f \in Files :
        \/ owns[f].how = "closed"
        \/ owns[f].fd \in CardFds /\ held[owns[f].unit][owns[f].fd] = f
        \/ \E t \in Threads : /\ asks[t].state \in {"done", "failed"}
                              /\ asks[t].op \in Closes /\ asks[t].file = f

=============================================================================
