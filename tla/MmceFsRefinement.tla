-------------------------- MODULE MmceFsRefinement --------------------------
(***************************************************************************)
(* The file system driver implements FsPromise, for any callers, files,    *)
(* descriptors and size of the table.                                      *)
(***************************************************************************)
EXTENDS MmceFsProofs

States == {"idle", "open", "done", "failed"}
AskSet == [state : States, op : Commands, file : Files \cup {NoFile}, unit : {0, 1},
           fd : CardFds \cup {255}]

Promised == [FilesPromise!Next]_(FilesPromise!pvars)

LEMMA Stages ==
    /\ \A p : Stage(p) \in States
    /\ Stage("idle") = "idle"
    /\ \A p \in {"update", "setport", "prepare", "lock", "send"} : Stage(p) = "open"
    /\ \A p \in {"succeed", "succeeded"} : Stage(p) = "done"
    /\ \A p \in {"fail", "failed"} : Stage(p) = "failed"
    /\ \A p \in Places : p # "idle" => Stage(p) # "idle"
BY DEF Stage, States, Places

LEMMA AsksType == TypeOK => asks \in [Threads -> AskSet]
BY Stages DEF asks, TypeOK, AskSet

LEMMA AsksTypeNext == TypeOK' => asks' \in [Threads -> AskSet]
BY Stages DEF asks, TypeOK, AskSet

\* A call in the promise's terms, and an open file.
LEMMA AskIs ==
    ASSUME NEW t \in Threads
    PROVE  /\ asks[t].state = Stage(pc[t]) /\ asks[t].op = call[t].op
           /\ asks[t].file = call[t].file /\ asks[t].unit = call[t].unit
           /\ asks[t].fd = IF call[t].op \in Opens THEN call[t].fd ELSE 255
           /\ asks'[t].state = Stage(pc'[t]) /\ asks'[t].op = call'[t].op
           /\ asks'[t].file = call'[t].file /\ asks'[t].unit = call'[t].unit
           /\ asks'[t].fd = IF call'[t].op \in Opens THEN call'[t].fd ELSE 255
BY DEF asks

LEMMA OwnsIs ==
    /\ \A f \in Files :
          /\ owns[f].how = handle[f].how
          /\ handle[f].how = "closed" => owns[f] = FilesPromise!Closed
          /\ handle[f].how # "closed" =>
                owns[f] = [how |-> handle[f].how, unit |-> handle[f].unit, fd |-> FdOf(f)]
    /\ owns = [f \in Files |-> owns[f]]
BY DEF owns, FilesPromise!Closed, FdOf

LEMMA OwnsIsNext ==
    /\ \A f \in Files :
          /\ handle'[f].how = "closed" => owns'[f] = FilesPromise!Closed
          /\ handle'[f].how # "closed" =>
                owns'[f] = [how |-> handle'[f].how, unit |-> handle'[f].unit,
                            fd |-> fds'[handle'[f].privdata]]
    /\ owns' = [f \in Files |-> owns'[f]]
BY DEF owns, FilesPromise!Closed

\* One field of one caller's call is written, or two.
LEMMA AskMove ==
    ASSUME NEW t \in Threads, NEW p \in States,
           NEW a \in [Threads -> AskSet], NEW b \in [Threads -> AskSet],
           b[t].state = p, b[t].op = a[t].op, b[t].file = a[t].file, b[t].unit = a[t].unit,
           b[t].fd = a[t].fd, \A s \in Threads : s # t => b[s] = a[s]
    PROVE  b = [a EXCEPT ![t].state = p]
BY DEF AskSet

LEMMA AskUpdate ==
    ASSUME NEW t \in Threads, NEW p \in States, NEW x \in CardFds \cup {255},
           NEW a \in [Threads -> AskSet], NEW b \in [Threads -> AskSet],
           b[t].state = p, b[t].op = a[t].op, b[t].file = a[t].file, b[t].unit = a[t].unit,
           \A s \in Threads : s # t => b[s] = a[s]
    PROVE  b[t].fd = x => b = [a EXCEPT ![t].state = p, ![t].fd = x]
<1>1. PICK c : c = [a EXCEPT ![t].state = p]
  OBVIOUS
<1>2. c \in [Threads -> AskSet]
  BY <1>1 DEF AskSet
<1>3. b[t].fd = x => b = [c EXCEPT ![t].fd = x]
  <2>1. /\ c[t].state = p /\ c[t].op = a[t].op /\ c[t].file = a[t].file /\ c[t].unit = a[t].unit
        /\ \A s \in Threads : s # t => c[s] = a[s]
    BY <1>1 DEF AskSet
  <2> QED BY <1>2, <2>1 DEF AskSet
<1>4. [a EXCEPT ![t].state = p, ![t].fd = x] = [c EXCEPT ![t].fd = x]
  BY <1>1
<1> QED BY <1>3, <1>4

LEMMA AskWritten ==
    ASSUME asks \in [Threads -> AskSet], asks' \in [Threads -> AskSet],
           NEW t \in Threads, NEW p \in States, NEW x \in CardFds \cup {255},
           asks'[t].state = p, asks'[t].op = asks[t].op, asks'[t].file = asks[t].file,
           asks'[t].unit = asks[t].unit, \A s \in Threads : s # t => asks'[s] = asks[s]
    PROVE  /\ asks'[t].fd = asks[t].fd => asks' = [asks EXCEPT ![t].state = p]
           /\ asks'[t].fd = x => asks' = [asks EXCEPT ![t].state = p, ![t].fd = x]
<1>1. PICK a \in [Threads -> AskSet], b \in [Threads -> AskSet] : a = asks /\ b = asks'
  OBVIOUS
<1>2. /\ b[t].state = p /\ b[t].op = a[t].op /\ b[t].file = a[t].file /\ b[t].unit = a[t].unit
      /\ \A s \in Threads : s # t => b[s] = a[s]
  BY <1>1
<1>3. b[t].fd = a[t].fd => b = [a EXCEPT ![t].state = p]
  BY <1>2, AskMove
<1>4. b[t].fd = x => b = [a EXCEPT ![t].state = p, ![t].fd = x]
  BY <1>2, AskUpdate
<1> QED BY <1>1, <1>3, <1>4

LEMMA OthersAsks ==
    ASSUME NEW t \in Threads, Frame(t) PROVE \A s \in Threads : s # t => asks'[s] = asks[s]
BY DEF asks, Frame

\* A step that is not to be seen.
LEMMA Unseen ==
    ASSUME NEW t \in Threads, Frame(t), pc'[t] # "idle", Stage(pc'[t]) = Stage(pc[t]),
           call[t].op \in Opens => call'[t].fd = call[t].fd,
           owns' = owns, held' = held
    PROVE  UNCHANGED FilesPromise!pvars
<1>1. asks'[t] = asks[t]
  BY DEF Frame, asks
<1>2. asks' = asks
  BY <1>1, OthersAsks DEF asks
<1> QED BY <1>2 DEF FilesPromise!pvars

LEMMA OwnsKept ==
    ASSUME UNCHANGED fds,
           \A f \in Files : \/ handle'[f] = handle[f]
                            \/ handle[f].how = "closed" /\ handle'[f].how = "closed"
    PROVE  owns' = owns
BY DEF owns

\* A call ends: its file is as the handler left it, the others' are as they were.
LEMMA Returned ==
    ASSUME BaseInv, NEW t \in Threads, NEW e, held' = held,
           pc' = [pc EXCEPT ![t] = "idle"], call' = [call EXCEPT ![t] = NoCall],
           \A f \in Files : f # call[t].file =>
               handle'[f] = handle[f] /\ (f \in OpenFiles => fds'[handle[f].privdata] = FdOf(f)),
           call[t].file \in Files => owns'[call[t].file] = e
    PROVE  FilesPromise!Return(t, e)
<1>1. pc \in [Threads -> Places] /\ call \in [Threads -> CallSet]
  BY BaseType DEF BaseInv
<1>2. asks'[t] = FilesPromise!NoAsk /\ \A s \in Threads : s # t => asks'[s] = asks[s]
  BY <1>1, Facts, Stages DEF asks, FilesPromise!NoAsk, NoCall
<1>3. asks' = [asks EXCEPT ![t] = FilesPromise!NoAsk]
  <2>1. asks = [s \in Threads |-> asks[s]] /\ asks' = [s \in Threads |-> asks'[s]]
    BY DEF asks
  <2> QED BY <1>2, <2>1
<1>4. \A f \in Files : f # call[t].file => owns'[f] = owns[f]
  BY OwnsIs, OwnsIsNext DEF OpenFiles
<1>5. asks[t].file = call[t].file
  BY AskIs
<1>6. owns' = [f \in Files |-> IF f = asks[t].file THEN e ELSE owns[f]]
  BY <1>4, <1>5, OwnsIsNext
<1> QED BY <1>3, <1>6 DEF FilesPromise!Return

\* The two name the commands alike.
LEMMA Classes ==
    /\ FilesPromise!Opens = Opens /\ FilesPromise!ByFd = ByFd /\ FilesPromise!Closes = Closes
    /\ \A c : FilesPromise!OpenedBy(c) = OpenedBy(c)
BY DEF Opens, ByFd, Closes, Short, Seeks, Streamed, OpenedBy,
       FilesPromise!Opens, FilesPromise!ByFd, FilesPromise!Closes, FilesPromise!Short,
       FilesPromise!Seeks, FilesPromise!Streamed, FilesPromise!OpenedBy

LEMMA SeesNext ==
    ASSUME NEW t \in Threads
    PROVE  /\ FilesPromise!Serve(t) => Promised
           /\ FilesPromise!Fail(t) => Promised
           /\ FilesPromise!GiveUp(t) => Promised
           /\ FilesPromise!Finish(t) => Promised
           /\ \A c \in Ops, u \in Units, f \in Files \cup {NoFile} :
                 FilesPromise!Ask(t, c, u, f) => Promised
           /\ UNCHANGED FilesPromise!pvars => Promised
BY DEF Promised, FilesPromise!Next

-----------------------------------------------------------------------------
(* One step of the driver after the other *)

\* iomanX's call is the caller's.
LEMMA SeenCall ==
    ASSUME BaseInv, BaseInv', Safe, NEW t \in Threads, NEW c \in Ops, NEW u \in Units,
           NEW f \in Files \cup {NoFile}, Call(t, c, u, f)
    PROVE  FilesPromise!Ask(t, c, u, f)
<1>t. pc \in [Threads -> Places] /\ call \in [Threads -> CallSet]
  BY BaseType DEF BaseInv
<1>1. /\ pc[t] = "idle" /\ MayCall(c, u, f)
      /\ \A s \in Threads : pc[s] # "idle" => {c, call[s].op} \subseteq Overlap
      /\ pc' = [pc EXCEPT ![t] = "update"] /\ UNCHANGED <<handle, fds, held>>
  BY DEF Call
<1>2. call' = [call EXCEPT ![t] = [op |-> c, file |-> f, unit |-> u, fd |-> 255, sent |-> 0]]
  <2>1. PICK x : x = [NoCall EXCEPT !.op = c, !.file = f, !.unit = u]
    OBVIOUS
  <2>2. x = [op |-> c, file |-> f, unit |-> u, fd |-> 255, sent |-> 0]
    BY <2>1 DEF NoCall
  <2> QED BY <2>1, <2>2 DEF Call
<1>3. /\ asks[t].state = "idle"
      /\ asks'[t] = [state |-> "open", op |-> c, file |-> f, unit |-> u, fd |-> 255]
      /\ \A s \in Threads : s # t => asks'[s] = asks[s]
  BY <1>t, <1>1, <1>2, Stages DEF asks
<1>4. asks' = [asks EXCEPT ![t] = [state |-> "open", op |-> c, file |-> f, unit |-> u, fd |-> 255]]
  <2>1. asks = [s \in Threads |-> asks[s]] /\ asks' = [s \in Threads |-> asks'[s]]
    BY DEF asks
  <2> QED BY <1>3, <2>1
<1>5. owns' = owns /\ held' = held
  BY <1>1 DEF owns
<1>6. \A s \in Threads : asks[s].state # "idle" => pc[s] # "idle"
  BY AskIs, Stages
<1>7. f \in Files => \A s \in Threads : asks[s].state # "idle" => asks[s].file # f
  BY <1>1, <1>6, AskIs, NoneAssumption DEF MayCall, Busy
<1>8. c \in Opens \cup {"reset"} => \A s \in Threads, o \in Opens \cup {"reset"} :
          c \in Opens \/ o \in Opens => ~FilesPromise!Under(o, u, s)
  BY <1>1, <1>6, AskIs DEF Safe, FilesPromise!Under
<1>9. FilesPromise!MayAsk(c, u, f)
  <2>1. CASE c \in Opens
    BY <1>1, <1>7, <1>8, <2>1, OwnsIs, Facts, Classes DEF MayCall, FilesPromise!MayAsk
  <2>2. CASE c \in ByFd
    BY <1>1, <1>7, <2>2, OwnsIs, Facts, Classes DEF MayCall, OpenFiles, FilesPromise!MayAsk
  <2>3. CASE c = "reset"
    <3>1. f = NoFile /\ \A g \in OpenFiles : handle[g].unit # u
      BY <1>1, <2>3, Facts DEF MayCall
    <3>2. \A g \in Files : owns[g].how # "closed" => owns[g].unit # u
      BY <3>1, OwnsIs DEF OpenFiles
    <3> QED BY <1>8, <2>3, <3>1, <3>2, NoneAssumption, Facts, Classes DEF FilesPromise!MayAsk
  <2>4. CASE c \notin Opens \cup ByFd \cup {"reset"}
    BY <1>1, <2>4, NoneAssumption, Classes DEF MayCall, FilesPromise!MayAsk
  <2> QED BY <2>1, <2>2, <2>3, <2>4
<1> QED BY <1>3, <1>4, <1>5, <1>9 DEF FilesPromise!Ask

\* Before the exchange nothing is to be seen but a call that ends.
LEMMA SeenPrepare ==
    ASSUME BaseInv, NEW t \in Threads, Frame(t),
           \/ UpdateUnit(t) \/ SetPort(t) \/ FindHandle(t) \/ PackFd(t) \/ PackName(t)
           \/ NoExchange(t) \/ Lock(t)
    PROVE  Promised
<1>t. /\ pc \in [Threads -> Places] /\ call \in [Threads -> CallSet]
      /\ handle \in [Files -> HandleSet]
  BY BaseType DEF BaseInv
<1>1. CallOk(t) /\ Stage(pc[t]) = "open" /\ pc[t] # "idle"
  BY Stages DEF UpdateUnit, SetPort, FindHandle, PackFd, PackName, NoExchange, Lock,
                BaseInv, CallsInv
<1>2. CASE UpdateUnit(t) \/ SetPort(t) \/ PackName(t) \/ Lock(t)
  <2>1. /\ pc'[t] \in {"prepare", "setport", "lock", "send"}
        /\ UNCHANGED <<call, handle, fds, held>>
    BY <1>t, <1>2 DEF UpdateUnit, SetPort, PackName, Lock
  <2> QED BY <1>1, <2>1, OwnsKept, Unseen, Stages, SeesNext
<1>3. CASE FindHandle(t)
  <2>1. call[t].op \in Opens /\ call[t].file \in Files /\ handle[call[t].file].how = "closed"
    BY <1>1, <1>3 DEF FindHandle, CallOk
  <2>2. CASE FreeSlots = {}
    <3>1. Return(t, NoHandle) /\ UNCHANGED <<fds, held>>
      BY <1>3, <2>2 DEF FindHandle
    <3>2. handle'[call[t].file].how = "closed" /\ \A f \in Files : f # call[t].file => handle'[f] = handle[f]
      BY <2>1, <3>1, NoneTypes DEF Return
    <3>3. owns'[call[t].file] = FilesPromise!Closed
      BY <2>1, <3>2, OwnsIsNext
    <3>4. FilesPromise!Return(t, FilesPromise!Closed)
      BY <3>1, <3>2, <3>3, Returned DEF Return, FdOf
    <3> QED BY <1>1, <2>1, <3>4, AskIs, Classes, SeesNext DEF FilesPromise!GiveUp
  <2>3. CASE FreeSlots # {}
    <3>1. /\ handle' = [handle EXCEPT ![call[t].file].privdata = Min(FreeSlots)]
          /\ pc'[t] = "lock" /\ UNCHANGED <<call, fds, held>>
      BY <1>t, <1>3, <2>3 DEF FindHandle
    <3>2. \A f \in Files : \/ handle'[f] = handle[f]
                           \/ handle[f].how = "closed" /\ handle'[f].how = "closed"
      BY <1>t, <2>1, <3>1 DEF HandleSet
    <3> QED BY <1>1, <3>1, <3>2, OwnsKept, Unseen, Stages, SeesNext
  <2> QED BY <2>2, <2>3
<1>4. CASE PackFd(t)
  <2>1. call[t].op \in ByFd /\ call[t].file \in Files /\ handle[call[t].file].how # "closed"
        /\ call[t].op \notin Opens
    BY <1>1, <1>4, Facts DEF PackFd, CallOk
  <2>2. CASE call[t].op = "close" /\ FdOf(call[t].file) \in Reserved
    <3>1. Return(t, NoHandle) /\ UNCHANGED <<fds, held>>
      BY <1>4, <2>2 DEF PackFd, FdOf
    <3>2. handle'[call[t].file].how = "closed" /\ \A f \in Files : f # call[t].file => handle'[f] = handle[f]
      BY <2>1, <3>1, NoneTypes DEF Return
    <3>3. owns'[call[t].file] = FilesPromise!Closed
      BY <2>1, <3>2, OwnsIsNext
    <3>4. FilesPromise!Return(t, FilesPromise!Closed)
      BY <3>1, <3>2, <3>3, Returned DEF Return, FdOf
    <3>5. owns[call[t].file].fd \in Reserved
      BY <2>1, <2>2, OwnsIs
    <3> QED BY <1>1, <2>2, <3>4, <3>5, AskIs, Classes, SeesNext DEF FilesPromise!GiveUp
  <2>3. CASE ~(call[t].op = "close" /\ FdOf(call[t].file) \in Reserved)
    <3>1. pc'[t] = "lock" /\ UNCHANGED <<handle, fds, held>>
      BY <1>t, <1>4, <2>3 DEF PackFd, FdOf
    <3> QED BY <1>1, <2>1, <3>1, OwnsKept, Unseen, Stages, SeesNext
  <2> QED BY <2>2, <2>3
<1>5. CASE NoExchange(t)
  <2>1. /\ call[t].op = "devctl" /\ call[t].file \notin Files
        /\ pc' = [pc EXCEPT ![t] = "idle"] /\ call' = [call EXCEPT ![t] = NoCall]
        /\ UNCHANGED <<handle, fds, held>>
    BY <1>1, <1>5, Facts, NoneAssumption DEF NoExchange, CallOk
  <2>2. FilesPromise!Return(t, FilesPromise!Closed)
    BY <2>1, Returned DEF FdOf
  <2> QED BY <1>1, <2>1, <2>2, AskIs, Classes, SeesNext DEF FilesPromise!GiveUp
<1> QED BY <1>2, <1>3, <1>4, <1>5

\* A command's last packet is the one with which its card acts, if any is.
LEMMA LastPacket ==
    ASSUME BaseInv, NEW t \in Threads, pc[t] = "send"
    PROVE  /\ call[t].sent + 1 = EffectPacket(call[t].op) => call[t].sent + 1 = Packets[call[t].op]
           /\ call[t].op \in Opens \cup Closes \cup {"reset"}
                 /\ call[t].sent + 1 = Packets[call[t].op]
              => call[t].sent + 1 = EffectPacket(call[t].op)
<1>1. call[t].sent \in 0 .. 4 /\ call[t].op \in Commands
  BY BaseType DEF BaseInv, CallSet
<1> QED BY <1>1, Facts DEF EffectPacket

LEMMA ActsLast ==
    ASSUME TypeOK, NEW t \in Threads, NEW u \in Units, NEW a \in CardActs(t, u), ~Same(t, u, a)
    PROVE  call[t].sent + 1 = Packets[call[t].op]
<1>1. CASE GivesFd(t, u, a)
  BY <1>1, Facts DEF GivesFd
<1>2. CASE TakesFd(t, u, a)
  BY <1>2, Facts DEF TakesFd
<1>3. CASE TakesAll(t, u, a)
  BY <1>3, Facts DEF TakesAll
<1> QED BY <1>1, <1>2, <1>3, CardCases

\* What the card does at it is an outcome of the call.
LEMMA SeenOutcome ==
    ASSUME BaseInv, TableInv, NEW t \in Threads, pc[t] = "send",
           call[t].sent + 1 = Packets[call[t].op],
           NEW a \in CardActs(t, call[t].unit)
    PROVE  [fd |-> IF call[t].op \in Opens THEN a.fd ELSE 255, held |-> a.held]
               \in FilesPromise!Outcomes(asks[t])
<1> DEFINE u == call[t].unit
           f == call[t].file
           c == call[t].op
<1>t. held[u] \in [CardFds -> Files \cup {NoFile}] /\ u \in Units
  BY BaseType, KindOf DEF BaseInv
<1>1. /\ asks[t].op = c /\ asks[t].file = f /\ asks[t].unit = u
      /\ asks[t].fd = IF c \in Opens THEN call[t].fd ELSE 255
  BY AskIs
<1>2. CASE c \in Opens
  <2>1. GivesFd(t, u, a)
    BY <1>t, <1>2, LastPacket, CardCases, Facts DEF BaseInv, Same, TakesFd, TakesAll
  <2> QED BY <1>1, <1>2, <2>1, Classes DEF FilesPromise!Outcomes, GivesFd
<1>3. CASE c \in Closes
  <2>1. TakesFd(t, u, a)
    BY <1>t, <1>3, LastPacket, CardCases, Facts DEF BaseInv, Same, GivesFd, TakesAll
  <2>2. c \notin Opens /\ c # "reset" /\ call[t].fd = FdOf(f) /\ owns[f].fd = FdOf(f)
    BY <1>3, Facts, KindOf, OwnsIs DEF TableInv, FdTaken, Late, OpenFiles
  <2>3. a.held = [x \in CardFds |-> IF c = "reset" \/ (c \in Closes /\ x = owns[f].fd)
                                    THEN NoFile ELSE held[u][x]]
    BY <1>3, <2>1, <2>2 DEF TakesFd
  <2> QED BY <1>1, <2>2, <2>3, Classes DEF FilesPromise!Outcomes
<1>4. CASE c = "reset"
  <2>1. TakesAll(t, u, a)
    BY <1>t, <1>4, LastPacket, CardCases, Facts DEF BaseInv, Same, GivesFd, TakesFd
  <2>2. a.held = [x \in CardFds |-> IF c = "reset" \/ (c \in Closes /\ x = owns[f].fd)
                                    THEN NoFile ELSE held[u][x]]
    BY <1>4, <2>1 DEF TakesAll
  <2> QED BY <1>1, <1>4, <2>2, Classes, Facts DEF FilesPromise!Outcomes
<1>5. CASE c \notin Opens \cup Closes \cup {"reset"}
  <2>1. a.held = held[u]
    BY <1>t, <1>5, CardCases DEF BaseInv, Same, GivesFd, TakesFd, TakesAll
  <2>2. a.held = [x \in CardFds |-> IF c = "reset" \/ (c \in Closes /\ x = owns[f].fd)
                                    THEN NoFile ELSE held[u][x]]
    BY <1>t, <1>5, <2>1
  <2> QED BY <1>1, <1>5, <2>2, Classes DEF FilesPromise!Outcomes
<1> QED BY <1>2, <1>3, <1>4, <1>5

\* And the descriptor in a packet by handle stands for the caller's file.
LEMMA SeenFile ==
    ASSUME BaseInv, TableInv, NEW t \in Threads, pc[t] = "send", call[t].op \in ByFd
    PROVE  held[call[t].unit][owns[call[t].file].fd] = call[t].file
<1>1. call[t].file \in OpenFiles /\ handle[call[t].file].unit = call[t].unit
  BY KindOf
<1>2. owns[call[t].file].fd = FdOf(call[t].file)
  BY <1>1, OwnsIs DEF OpenFiles
<1>3. ~Closing(call[t].file)
  BY <1>1, OwnFile DEF Closing, OpenFiles
<1> QED BY <1>1, <1>2, <1>3 DEF TableInv, CardHolds

\* The exchange: the card acts, or the call fails.
LEMMA SeenExchange ==
    ASSUME BaseInv, BaseInv', Safe, Overlap = {} => PortInv, TableInv, NEW t \in Threads, Frame(t),
           Answered(t) \/ Refused(t) \/ Lost(t) \/ Unlock(t)
    PROVE  Promised
<1>t. /\ TypeOK /\ pc \in [Threads -> Places] /\ call \in [Threads -> CallSet]
      /\ held \in [Units -> [CardFds -> Files \cup {NoFile}]]
      /\ asks \in [Threads -> AskSet] /\ asks' \in [Threads -> AskSet]
  BY BaseType, AsksType, AsksTypeNext DEF BaseInv
<1>1. pc[t] \in {"send", "succeed", "fail"} /\ pc[t] # "idle" /\ UNCHANGED <<handle, fds>>
  BY DEF Answered, Refused, CardRefuses, Lost, Fails, Unlock
<1>2. owns' = owns
  BY <1>1 DEF owns
<1>3. /\ asks[t].state = Stage(pc[t]) /\ asks[t].op = call[t].op
      /\ asks[t].file = call[t].file /\ asks[t].unit = call[t].unit
      /\ \A s \in Threads : s # t => asks'[s] = asks[s]
  BY AskIs, OthersAsks
<1>4. CASE Answered(t)
  <2>1. PICK u \in Units : \E a \in CardActs(t, u) : Answer(t, u, a)
    BY <1>t, <1>4, AnswerIs
  <2>2. PICK a \in CardActs(t, u) : Answer(t, u, a)
    BY <2>1
  <2>3. u = call[t].unit /\ pc[t] = "send"
    BY <2>2, Reach DEF Answer
  <2>4. /\ call'[t].op = call[t].op /\ call'[t].file = call[t].file
        /\ call'[t].unit = call[t].unit /\ call'[t].fd = a.fd
        /\ pc'[t] = IF call[t].sent + 1 = Packets[call[t].op] THEN "succeed" ELSE "send"
        /\ held' = [held EXCEPT ![u] = a.held]
    BY <1>t, <2>2 DEF Answer, CallSet
  <2>5. CASE call[t].sent + 1 = Packets[call[t].op]
    <3> DEFINE o == [fd |-> IF call[t].op \in Opens THEN a.fd ELSE 255, held |-> a.held]
    <3>1. o \in FilesPromise!Outcomes(asks[t])
      BY <2>3, <2>5, SeenOutcome
    <3>2. /\ asks'[t].state = "done" /\ asks'[t].op = asks[t].op
          /\ asks'[t].file = asks[t].file /\ asks'[t].unit = asks[t].unit /\ asks'[t].fd = o.fd
      BY <1>3, <2>4, <2>5, AskIs, Stages
    <3>3. o.fd \in CardFds \cup {255}
      BY <1>t, CardTypes
    <3> HIDE DEF o
    <3>4. asks' = [asks EXCEPT ![t].state = "done", ![t].fd = o.fd]
      <4>1. PICK x \in CardFds \cup {255} : x = o.fd
        BY <3>3
      <4>2. asks' = [asks EXCEPT ![t].state = "done", ![t].fd = x]
        <5>1. "done" \in States /\ asks'[t].fd = x
          BY <3>2, <4>1 DEF States
        <5> QED BY <1>t, <1>3, <3>2, <5>1, AskWritten
      <4> QED BY <4>1, <4>2
    <3>5. held' = [held EXCEPT ![asks[t].unit] = o.held]
      BY <1>3, <2>3, <2>4 DEF o
    <3>6. asks[t].op \in FilesPromise!ByFd => held[asks[t].unit][owns[asks[t].file].fd] = asks[t].file
      BY <1>3, <2>3, Classes, SeenFile
    <3>7. asks[t].state = "open"
      BY <1>3, <2>3, Stages
    <3>8. FilesPromise!Serve(t)
      BY <1>2, <3>1, <3>4, <3>5, <3>6, <3>7 DEF FilesPromise!Serve
    <3> QED BY <3>8, SeesNext
  <2>6. CASE call[t].sent + 1 # Packets[call[t].op]
    <3>1. Same(t, u, a)
      BY <1>t, <2>6, ActsLast
    <3>2. held' = held /\ call'[t].fd = call[t].fd
      BY <1>t, <2>4, <3>1 DEF Same
    <3> QED BY <1>2, <2>3, <2>4, <2>6, <3>2, Unseen, Stages, SeesNext
  <2> QED BY <2>5, <2>6
<1>5. CASE Refused(t) \/ Lost(t)
  <2>1. pc[t] = "send" /\ pc'[t] = "fail" /\ UNCHANGED call
    BY <1>t, <1>5 DEF Refused, CardRefuses, Lost, Fails
  <2>2. asks' = [asks EXCEPT ![t].state = "failed"]
    <3>1. /\ asks'[t].state = "failed" /\ asks'[t].op = asks[t].op
          /\ asks'[t].file = asks[t].file /\ asks'[t].unit = asks[t].unit /\ asks'[t].fd = asks[t].fd
      BY <2>1, AskIs, Stages
    <3>2. "failed" \in States /\ 255 \in CardFds \cup {255}
      BY DEF States
    <3> QED BY <1>t, <1>3, <3>1, <3>2, AskWritten
  <2>3. asks[t].state = "open"
    BY <1>3, <2>1, Stages
  <2>4. \/ held' = held
        \/ CardFaults /\ \E o \in FilesPromise!Outcomes(asks[t]) :
                            held' = [held EXCEPT ![asks[t].unit] = o.held]
    <3>1. SUFFICES ASSUME held' # held
                   PROVE  CardFaults /\ \E o \in FilesPromise!Outcomes(asks[t]) :
                                           held' = [held EXCEPT ![asks[t].unit] = o.held]
      OBVIOUS
    <3>2. CardFaults /\ \E u \in InPort : \E a \in CardActs(t, u) : held' = [held EXCEPT ![u] = a.held]
      BY <1>5, <3>1 DEF Refused, Lost
    <3>3. PICK u \in InPort : \E a \in CardActs(t, u) : held' = [held EXCEPT ![u] = a.held]
      BY <3>2
    <3>4. u = call[t].unit /\ u \in Units
      BY <2>1, Reach DEF InPort
    <3>5. PICK a \in CardActs(t, u) : held' = [held EXCEPT ![u] = a.held]
      BY <3>3
    <3>6. call[t].sent + 1 = Packets[call[t].op]
      <4>1. ~Same(t, u, a)
        BY <1>t, <3>1, <3>5 DEF Same
      <4> QED BY <1>t, <3>4, <4>1, ActsLast
    <3>7. [fd |-> IF call[t].op \in Opens THEN a.fd ELSE 255, held |-> a.held]
             \in FilesPromise!Outcomes(asks[t])
      BY <2>1, <3>4, <3>6, SeenOutcome
    <3> QED BY <1>3, <3>2, <3>4, <3>5, <3>7
  <2>5. FilesPromise!Fail(t)
    BY <1>2, <2>2, <2>3, <2>4 DEF FilesPromise!Fail
  <2> QED BY <2>5, SeesNext
<1>6. CASE Unlock(t)
  <2>1. /\ \/ pc[t] = "succeed" /\ pc'[t] = "succeeded"
           \/ pc[t] = "fail" /\ pc'[t] = "failed"
        /\ UNCHANGED <<call, held>>
    BY <1>t, <1>6 DEF Unlock
  <2> QED BY <1>2, <2>1, Unseen, Stages, SeesNext
<1> QED BY <1>4, <1>5, <1>6

\* The call returns, and its file is open, closed or as it was.
LEMMA SeenFinish ==
    ASSUME BaseInv, Safe, TableInv, NEW t \in Threads,
           FinishOpen(t) \/ FinishClose(t) \/ Finish(t)
    PROVE  Promised
<1>t. /\ handle \in [Files -> HandleSet] /\ fds \in [Slots -> CardFds \cup {Free}]
      /\ pc[t] \in {"succeeded", "failed"} /\ pc[t] # "idle"
  BY BaseType DEF BaseInv, FinishOpen, FinishClose, Finish
<1>1. /\ asks[t].state \in {"done", "failed"} /\ (asks[t].state = "done" <=> pc[t] = "succeeded")
      /\ asks[t].op = call[t].op /\ asks[t].file = call[t].file /\ asks[t].unit = call[t].unit
      /\ call[t].op \in Opens => asks[t].fd = call[t].fd
  BY <1>t, AskIs, Stages
<1>2. CallOk(t)
  BY <1>t DEF BaseInv, CallsInv
<1>3. CASE FinishOpen(t) /\ pc[t] = "succeeded"
  <2> DEFINE f == call[t].file
             h == [handle[f] EXCEPT !.how = call[t].op, !.unit = call[t].unit]
             e == [how |-> call[t].op, unit |-> call[t].unit, fd |-> call[t].fd]
  <2>1. /\ call[t].op \in Opens /\ f \in Files /\ handle[f].how = "closed"
        /\ handle[f].privdata \in Slots /\ FdOf(f) = Free
    BY <1>2, <1>3 DEF FinishOpen, CallOk, Late, TableInv, SlotFree
  <2>2. /\ fds' = [fds EXCEPT ![handle[f].privdata] = call[t].fd] /\ Return(t, h) /\ held' = held
    BY <1>3 DEF FinishOpen
  <2>3. h.how = call[t].op /\ h.unit = call[t].unit /\ h.privdata = handle[f].privdata
    BY <1>t, <2>1 DEF HandleSet
  <2> HIDE DEF h
  <2>4. handle'[f] = h /\ \A g \in Files : g # f => handle'[g] = handle[g]
    BY <2>1, <2>2 DEF Return
  <2>5. owns'[f] = e
    BY <1>t, <2>1, <2>2, <2>3, <2>4, OwnsIsNext, Facts
  <2>6. \A g \in OpenFiles : fds'[handle[g].privdata] = FdOf(g)
    <3> SUFFICES ASSUME NEW g \in OpenFiles PROVE fds'[handle[g].privdata] = FdOf(g)
      OBVIOUS
    <3>1. FdOf(g) # Free /\ handle[g].privdata \in Slots
      BY DEF TableInv, SlotsUsed, BaseInv, OpenInv, OpenFiles
    <3>2. handle[g].privdata # handle[f].privdata
      BY <2>1, <3>1 DEF FdOf
    <3> QED BY <1>t, <2>2, <3>1, <3>2 DEF FdOf
  <2> HIDE DEF e
  <2>7. FilesPromise!Return(t, e)
    BY <2>2, <2>4, <2>5, <2>6, Returned DEF Return
  <2> QED BY <1>1, <1>3, <2>1, <2>7, Classes, SeesNext DEF FilesPromise!Finish, e
<1>4. CASE (FinishOpen(t) /\ pc[t] # "succeeded") \/ FinishClose(t)
  <2>1. /\ call[t].op \in Opens \cup Closes /\ call[t].file \in Files
        /\ (call[t].op \in Opens => pc[t] # "succeeded")
    BY <1>2, <1>4, Facts DEF FinishOpen, FinishClose, CallOk
  <2>2. Return(t, NoHandle) /\ held' = held
    BY <1>4 DEF FinishOpen, FinishClose
  <2>3. handle'[call[t].file].how = "closed" /\ \A g \in Files : g # call[t].file => handle'[g] = handle[g]
    BY <2>1, <2>2, NoneTypes DEF Return
  <2>4. owns'[call[t].file] = FilesPromise!Closed
    BY <2>1, <2>3, OwnsIsNext
  <2>5. \A g \in OpenFiles : g # call[t].file => fds'[handle[g].privdata] = FdOf(g)
    <3>1. CASE fds' = fds
      BY <3>1 DEF FdOf
    <3>2. CASE fds' # fds
      <4>1. /\ call[t].op \in Closes /\ call[t].file \in OpenFiles
            /\ fds' = [fds EXCEPT ![handle[call[t].file].privdata] = Free]
        BY <1>t, <1>4, <3>2, KindOf DEF FinishOpen, FinishClose
      <4>2. \A g \in OpenFiles : g # call[t].file =>
               handle[g].privdata \in Slots /\ handle[g].privdata # handle[call[t].file].privdata
        BY <4>1 DEF TableInv, HandlesDistinct, BaseInv, OpenInv, OpenFiles
      <4> QED BY <1>t, <4>1, <4>2 DEF FdOf
    <3> QED BY <3>1, <3>2
  <2>6. FilesPromise!Return(t, FilesPromise!Closed)
    BY <2>2, <2>3, <2>4, <2>5, Returned DEF Return
  <2> QED BY <1>1, <2>1, <2>6, Classes, SeesNext DEF FilesPromise!Finish
<1>5. CASE Finish(t)
  <2>1. /\ call[t].op \notin Opens \cup Closes
        /\ pc' = [pc EXCEPT ![t] = "idle"] /\ call' = [call EXCEPT ![t] = NoCall]
        /\ UNCHANGED <<handle, fds, held>>
    BY <1>5 DEF Finish
  <2>2. owns' = owns
    BY <2>1 DEF owns
  <2>3. FilesPromise!Return(t, owns[call[t].file])
    BY <2>1, <2>2, Returned DEF FdOf
  <2> QED BY <1>1, <2>1, <2>3, Classes, SeesNext DEF FilesPromise!Finish
<1> QED BY <1>3, <1>4, <1>5

LEMMA SeenInit == Init => FilesPromise!Init
BY Stages DEF Init, asks, owns, NoCall, NoHandle, Opens, FilesPromise!Init, FilesPromise!NoAsk, FilesPromise!Closed

LEMMA SeenStep ==
    ASSUME BaseInv, BaseInv', Safe, Overlap = {} => PortInv, TableInv, [Next]_vars
    PROVE  Promised
<1>1. CASE UNCHANGED vars
  <2>1. asks' = asks /\ owns' = owns /\ held' = held
    BY <1>1 DEF vars, asks, owns
  <2> QED BY <2>1 DEF Promised, FilesPromise!pvars
<1>2. CASE Next
  <2>1. PICK t \in Threads :
           \/ \E c \in Ops, u \in Units, f \in Files \cup {NoFile} : Call(t, c, u, f)
           \/ Lock(t) \/ Handler(t)
    BY <1>2 DEF Next
  <2>2. CASE \E c \in Ops, u \in Units, f \in Files \cup {NoFile} : Call(t, c, u, f)
    BY <2>2, SeenCall, SeesNext
  <2>3. CASE Lock(t) \/ Handler(t)
    BY <2>3, BasePrepare, BaseExchange, SeenPrepare, SeenExchange, SeenFinish DEF Handler
  <2> QED BY <2>1, <2>2, <2>3
<1> QED BY <1>1, <1>2

\* mmce_fs.c, for any callers, files, descriptors and size of the table, and
\* whatever the cards answer or fail to: as long as no two opens overlap, and
\* with two cards no two calls, what iomanX sees of the driver is FsPromise.
\* Every file it holds open owns a descriptor of its card, and every call is one
\* act of that card on its own file, reported done when it was.
THEOREM FilesArePromised == ASSUME Safe PROVE Spec => FilesKept
<1>1. Overlap = {} => (Init => PortInv)
  BY DEF Init, PortInv
<1>2. BaseInv /\ (Overlap = {} => PortInv) /\ [Next]_vars => (Overlap = {} => PortInv)'
  BY PortStep
<1>3. Init => (Overlap = {} => PortInv)
  BY <1>1
<1>4. /\ BaseInv /\ BaseInv' /\ (Overlap = {} => PortInv) /\ TableInv
      /\ [Next]_vars
      => [FilesPromise!Next]_(FilesPromise!pvars)
  BY SeenStep DEF Promised
<1> QED BY <1>2, <1>3, <1>4, SeenInit, BaseInvAlways, TableAlways, PTL
        DEF Spec, FilesKept, FilesPromise!Spec

=============================================================================
