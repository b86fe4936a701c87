---------------------------- MODULE MmceFsProofs ----------------------------
(***************************************************************************)
(* Theorems about MmceFs, for any callers, files, descriptors and size of  *)
(* the table.                                                              *)
(***************************************************************************)
EXTENDS MmceFs, WellFoundedInduction, TLAPS

Places == {"idle", "update", "setport", "prepare", "lock",
           "send", "succeed", "fail", "succeeded", "failed"}
Late == {"lock", "send", "succeed", "fail", "succeeded", "failed"}
CallSet == [op : Commands, file : Files \cup {NoFile}, unit : {0, 1},
            fd : CardFds \cup {255}, sent : 0 .. 4]
HandleSet == [how : Opens \cup {"closed"}, unit : {0, 1}, privdata : Slots \cup {NoSlot}]

\* What is known of a call under way.
CallOk(t) ==
    LET c == call[t]
        p == pc[t]
    IN
    /\ c.op \in Ops /\ c.unit \in Units
    /\ c.op \in Opens =>
          /\ c.file \in Files /\ handle[c.file].how = "closed"
          /\ p \in Late => handle[c.file].privdata \in Slots
          /\ p \in {"succeed", "succeeded"} => c.fd \in CardFds
    /\ c.op \in ByFd =>
          /\ c.file \in Files /\ handle[c.file].how = OpenedBy(c.op)
          /\ handle[c.file].unit = c.unit
    /\ c.op \notin Opens \cup ByFd => c.file = NoFile
    /\ p \in {"update", "setport", "prepare", "lock"} => c.sent = 0
    /\ p = "send" => c.sent < Packets[c.op]

CallsInv == \A t \in Threads : pc[t] # "idle" => CallOk(t)

\* Two calls at once are for two files, and of commands that may overlap.
Apart ==
    \A s, t \in Threads :
        s # t /\ pc[s] # "idle" /\ pc[t] # "idle" =>
            /\ {call[s].op, call[t].op} \subseteq Overlap
            /\ call[s].file = call[t].file => call[s].file = NoFile

OpenInv ==
    \A f \in Files : handle[f].how # "closed" =>
        handle[f].privdata \in Slots /\ handle[f].unit \in Units

BaseInv == TypeOK /\ CallsInv /\ Apart /\ OpenInv

LEMMA Facts ==
    /\ Slots \subseteq Int /\ NoSlot \notin Slots /\ Free \notin CardFds
    /\ CardFds \subseteq 0 .. 254
    /\ \A c \in Commands : Packets[c] \in 1 .. 4
    /\ \A c \in Opens : Packets[c] = 3 /\ c \notin ByFd /\ c \in Commands
    /\ \A c \in Closes : Packets[c] = 1 /\ c \in ByFd /\ c \notin Opens
    /\ Packets["reset"] = 1 /\ "reset" \notin Opens \cup ByFd
    /\ "devctl" \notin Opens \cup ByFd /\ "devctl" \in Commands
    /\ ByFd \subseteq Commands /\ Ops \subseteq Commands
    /\ Units \subseteq {0, 1} /\ "closed" \notin Opens
    /\ \A c : OpenedBy(c) \in Opens
<1>1. MaxFd \in Nat /\ CardFds \subseteq 0 .. 254
  BY TableAssumption
<1>2. Slots \subseteq Int /\ NoSlot \notin Slots /\ Free \notin CardFds
  BY <1>1 DEF Slots, NoSlot, Free
<1>3. \A c \in Commands : Packets[c] = IF c \in Named \cup Streamed THEN 3
                                       ELSE IF c \in {"rename", "dread"} THEN 4 ELSE 1
  BY DEF Packets
<1>4. \A c \in Commands : Packets[c] \in 1 .. 4
  BY <1>3
<1>5. Opens \subseteq Commands /\ Closes \subseteq Commands /\ ByFd \subseteq Commands
      /\ "reset" \in Commands /\ "devctl" \in Commands
  BY DEF Opens, Closes, ByFd, Commands, Named, Short, Seeks, Streamed, Devctl
<1>6. \A c \in Opens : Packets[c] = 3 /\ c \notin ByFd
  BY <1>3, <1>5 DEF Opens, Named, ByFd, Short, Closes, Seeks, Streamed
<1>7. \A c \in Closes : Packets[c] = 1 /\ c \in ByFd /\ c \notin Opens
  BY <1>3, <1>5 DEF Closes, Named, Streamed, ByFd, Short, Seeks, Opens
<1>8. Packets["reset"] = 1 /\ "reset" \notin Opens \cup ByFd /\ "devctl" \notin Opens \cup ByFd
  BY <1>3, <1>5 DEF Named, Streamed, ByFd, Short, Closes, Seeks, Opens
<1>9. Units \subseteq {0, 1} /\ Ops \subseteq Commands
  BY CallersAssumption
<1>10. "closed" \notin Opens /\ \A c : OpenedBy(c) \in Opens
  BY DEF Opens, OpenedBy
<1> QED BY <1>1, <1>2, <1>4, <1>5, <1>6, <1>7, <1>8, <1>9, <1>10

LEMMA BaseType ==
    TypeOK <=> /\ pc \in [Threads -> Places]
               /\ call \in [Threads -> CallSet]
               /\ handle \in [Files -> HandleSet]
               /\ fds \in [Slots -> CardFds \cup {Free}]
               /\ last_unit \in {-1, 0, 1}
               /\ port \in {2, 3}
               /\ lock \in Threads \cup {NoThread}
               /\ held \in [Units -> [CardFds -> Files \cup {NoFile}]]
  BY DEF TypeOK, Places, CallSet, HandleSet

LEMMA BaseInit == Init => BaseInv
<1> SUFFICES ASSUME Init PROVE BaseInv
  OBVIOUS
<1>1. NoCall \in CallSet
  BY Facts DEF NoCall, CallSet
<1>2. NoHandle \in HandleSet
  BY DEF NoHandle, HandleSet
<1>3. TypeOK
  BY <1>1, <1>2, BaseType DEF Init, Places
<1>4. CallsInv /\ Apart /\ OpenInv
  BY DEF Init, CallsInv, Apart, OpenInv, NoHandle
<1> QED BY <1>3, <1>4 DEF BaseInv

\* The first slot that is free.
LEMMA FirstFree == FreeSlots # {} => Min(FreeSlots) \in FreeSlots
<1> SUFFICES ASSUME FreeSlots # {} PROVE Min(FreeSlots) \in FreeSlots
  OBVIOUS
<1>1. FreeSlots \in SUBSET Nat
  BY TableAssumption DEF FreeSlots, Slots
<1> DEFINE less == {ss \in Nat \X Nat : ss[1] < ss[2]}
<1>2. IsWellFoundedOn(less, Nat)
  BY NatLessThanWellFounded DEF OpToRel
<1>3. PICK n \in FreeSlots : \A m \in FreeSlots : <<m, n>> \notin less
  <2> HIDE DEF less
  <2> QED BY <1>1, <1>2, WFMin
<1>4. \A m \in FreeSlots : n <= m
  <2> SUFFICES ASSUME NEW m \in FreeSlots PROVE n <= m
    OBVIOUS
  <2>1. m \in Nat /\ n \in Nat
    BY <1>1
  <2>2. <<m, n>> \in Nat \X Nat /\ <<m, n>>[1] = m /\ <<m, n>>[2] = n
    BY <2>1
  <2>3. ~(m < n)
    BY <1>3, <2>2
  <2> QED BY <2>1, <2>3
<1> QED BY <1>4 DEF Min

\* A call begins.
LEMMA BaseCall ==
    ASSUME BaseInv, NEW t \in Threads, NEW c \in Ops, NEW u \in Units,
           NEW f \in Files \cup {NoFile}, Call(t, c, u, f)
    PROVE  BaseInv'
<1> USE DEF BaseInv
<1>t. /\ pc \in [Threads -> Places] /\ call \in [Threads -> CallSet]
      /\ handle \in [Files -> HandleSet]
  BY BaseType
<1>1. /\ pc[t] = "idle" /\ pc' = [pc EXCEPT ![t] = "update"]
      /\ call' = [call EXCEPT ![t] = [op |-> c, file |-> f, unit |-> u, fd |-> 255, sent |-> 0]]
      /\ UNCHANGED <<handle, fds, last_unit, port, lock, held>>
  <2>1. PICK x : x = [NoCall EXCEPT !.op = c, !.file = f, !.unit = u]
    OBVIOUS
  <2>2. x = [op |-> c, file |-> f, unit |-> u, fd |-> 255, sent |-> 0]
    BY <2>1 DEF NoCall
  <2> QED BY <2>1, <2>2 DEF Call
<1>2. [op |-> c, file |-> f, unit |-> u, fd |-> 255, sent |-> 0] \in CallSet
  BY Facts DEF CallSet
<1>3. TypeOK'
  <2>1. pc' \in [Threads -> Places] /\ call' \in [Threads -> CallSet]
    BY <1>t, <1>1, <1>2 DEF Places
  <2> QED BY <1>1, <2>1, BaseType DEF TypeOK, Places, CallSet, HandleSet
<1>4. /\ pc'[t] = "update"
      /\ call'[t] = [op |-> c, file |-> f, unit |-> u, fd |-> 255, sent |-> 0]
      /\ \A s \in Threads : s # t => pc'[s] = pc[s] /\ call'[s] = call[s]
  BY <1>t, <1>1
<1>5. CallOk(t)'
  <2>1. MayCall(c, u, f)
    BY DEF Call
  <2>2. c \in Opens => f \in Files /\ handle[f].how = "closed"
    BY <2>1, Facts DEF MayCall
  <2>3. c \in ByFd => f \in Files /\ handle[f].how = OpenedBy(c) /\ handle[f].unit = u
    BY <2>1, Facts DEF MayCall, OpenFiles
  <2>4. c \notin Opens \cup ByFd => f = NoFile
    BY <2>1 DEF MayCall
  <2> QED BY <1>1, <1>4, <2>2, <2>3, <2>4 DEF CallOk, Late
<1>6. CallsInv'
  BY <1>1, <1>4, <1>5 DEF CallsInv, CallOk
<1>7. Apart'
  <2>1. \A s \in Threads : pc[s] # "idle" => {c, call[s].op} \subseteq Overlap
    BY DEF Call
  <2>2. f \in Files => \A s \in Threads : pc[s] # "idle" => call[s].file # f
    BY NoneAssumption DEF Call, MayCall, Busy
  <2> SUFFICES ASSUME NEW r \in Threads, NEW s \in Threads, r # s,
                      pc'[r] # "idle", pc'[s] # "idle"
               PROVE  /\ {call'[r].op, call'[s].op} \subseteq Overlap
                      /\ call'[r].file = call'[s].file => call'[r].file = NoFile
    BY DEF Apart
  <2>3. CASE r # t /\ s # t
    BY <1>4, <2>3 DEF Apart
  <2>4. CASE r = t
    BY <1>4, <2>1, <2>2, <2>4
  <2>5. CASE s = t
    BY <1>4, <2>1, <2>2, <2>5
  <2> QED BY <2>3, <2>4, <2>5
<1>8. OpenInv'
  BY <1>1 DEF OpenInv
<1> QED BY <1>3, <1>6, <1>7, <1>8

\* What a handler's step for the thread t leaves alone.
Frame(t) ==
    /\ pc[t] # "idle"
    /\ \A s \in Threads : s # t => pc'[s] = pc[s] /\ call'[s] = call[s]
    /\ \A f \in Files : f # call[t].file => handle'[f] = handle[f]
    /\ pc'[t] # "idle" => /\ call'[t].op = call[t].op /\ call'[t].unit = call[t].unit
                          /\ call'[t].file = call[t].file

\* A frame, the step's own call and its own file are enough.
LEMMA BaseFrame ==
    ASSUME BaseInv, NEW t \in Threads, Frame(t), TypeOK',
           pc'[t] # "idle" => CallOk(t)',
           call[t].file \in Files /\ handle'[call[t].file].how # "closed" =>
               /\ handle'[call[t].file].privdata \in Slots
               /\ handle'[call[t].file].unit \in Units
    PROVE  BaseInv'
<1> USE DEF BaseInv, Frame
<1>1. CallsInv'
  <2> SUFFICES ASSUME NEW s \in Threads, pc'[s] # "idle" PROVE CallOk(s)'
    BY DEF CallsInv
  <2>1. CASE s = t
    BY <2>1
  <2>2. CASE s # t
    <3>1. pc'[s] = pc[s] /\ call'[s] = call[s] /\ CallOk(s)
      BY <2>2 DEF CallsInv
    <3>2. call[s].file \in Files => call[s].file # call[t].file
      BY <2>2, <3>1, NoneAssumption DEF Apart
    <3>3. call[s].file \in Files => handle'[call[s].file] = handle[call[s].file]
      BY <3>2
    <3> QED BY <3>1, <3>3 DEF CallOk
  <2> QED BY <2>1, <2>2
<1>2. Apart'
  <2> SUFFICES ASSUME NEW r \in Threads, NEW s \in Threads, r # s,
                      pc'[r] # "idle", pc'[s] # "idle"
               PROVE  /\ {call'[r].op, call'[s].op} \subseteq Overlap
                      /\ call'[r].file = call'[s].file => call'[r].file = NoFile
    BY DEF Apart
  <2>1. \A q \in Threads : pc'[q] # "idle" =>
           pc[q] # "idle" /\ call'[q].op = call[q].op /\ call'[q].file = call[q].file
    OBVIOUS
  <2> QED BY <2>1 DEF Apart
<1>3. OpenInv'
  BY DEF OpenInv
<1> QED BY <1>1, <1>2, <1>3

LEMMA NoneTypes == NoCall \in CallSet /\ NoHandle \in HandleSet /\ NoHandle.how = "closed"
<1>1. NoCall \in CallSet
  BY Facts DEF NoCall, CallSet
<1>2. NoHandle \in HandleSet /\ NoHandle.how = "closed"
  BY DEF NoHandle, HandleSet
<1> QED BY <1>1, <1>2

\* A step of t that changes of the handlers' state only where t is.
Moves(t, p) ==
    /\ pc[t] # "idle"
    /\ pc' = [pc EXCEPT ![t] = p]
    /\ UNCHANGED <<call, handle, fds>>

LEMMA MovesOn ==
    ASSUME BaseInv, NEW t \in Threads, NEW p \in Places \ {"idle"}, Moves(t, p),
           p \in Late => pc[t] \in Late \/ call[t].op \notin Opens,
           p \in {"succeed", "succeeded"} => pc[t] \in {"succeed", "succeeded"},
           p = "send" => call[t].sent < Packets[call[t].op],
           p \in {"update", "setport", "prepare", "lock"} => call[t].sent = 0
    PROVE  Frame(t) /\ pc' \in [Threads -> Places] /\ pc'[t] = p /\ CallOk(t)'
<1> USE DEF BaseInv, Moves
<1>1. pc \in [Threads -> Places]
  BY BaseType
<1>2. pc' \in [Threads -> Places] /\ pc'[t] = p
  BY <1>1
<1>3. Frame(t)
  BY <1>1 DEF Frame
<1>4. CallOk(t)
  BY DEF CallsInv
<1>5. CallOk(t)'
  BY <1>2, <1>4 DEF CallOk
<1> QED BY <1>2, <1>3, <1>5

\* And of the rest, the port, the lock or what a card holds.
LEMMA MoveIsFine ==
    ASSUME BaseInv, NEW t \in Threads, NEW p \in Places \ {"idle"}, Moves(t, p),
           p \in Late => pc[t] \in Late \/ call[t].op \notin Opens,
           p \in {"succeed", "succeeded"} => pc[t] \in {"succeed", "succeeded"},
           p = "send" => call[t].sent < Packets[call[t].op],
           p \in {"update", "setport", "prepare", "lock"} => call[t].sent = 0,
           last_unit' \in {-1, 0, 1}, port' \in {2, 3}, lock' \in Threads \cup {NoThread},
           held' \in [Units -> [CardFds -> Files \cup {NoFile}]]
    PROVE  BaseInv' /\ Frame(t)
<1>1. Frame(t) /\ pc' \in [Threads -> Places] /\ pc'[t] = p /\ CallOk(t)'
  BY MovesOn
<1>2. UNCHANGED <<call, handle, fds>>
  BY DEF Moves
<1>3. TypeOK'
  BY <1>1, <1>2, BaseType DEF TypeOK, Places, BaseInv
<1>4. call[t].file \in Files /\ handle[call[t].file].how # "closed" =>
          handle[call[t].file].privdata \in Slots /\ handle[call[t].file].unit \in Units
  BY DEF BaseInv, OpenInv
<1> QED BY <1>1, <1>2, <1>3, <1>4, BaseFrame

\* A step of t that ends its call.
LEMMA ReturnIsFine ==
    ASSUME BaseInv, NEW t \in Threads, NEW h \in HandleSet, pc[t] # "idle", Return(t, h),
           call[t].file \in Files /\ h.how # "closed" => h.privdata \in Slots /\ h.unit \in Units,
           fds' \in [Slots -> CardFds \cup {Free}],
           UNCHANGED <<last_unit, port, lock, held>>
    PROVE  /\ BaseInv' /\ Frame(t) /\ pc'[t] = "idle"
           /\ call[t].file \in Files => handle'[call[t].file] = h
<1>1. /\ pc \in [Threads -> Places] /\ call \in [Threads -> CallSet]
      /\ handle \in [Files -> HandleSet]
  BY BaseType DEF BaseInv
<1>2. /\ pc' \in [Threads -> Places] /\ call' \in [Threads -> CallSet]
      /\ handle' \in [Files -> HandleSet]
      /\ call[t].file \in Files => handle'[call[t].file] = h
  BY <1>1, NoneTypes DEF Places, Return
<1>3. Frame(t) /\ pc'[t] = "idle"
  BY <1>1 DEF Frame, Return
<1>4. TypeOK'
  BY <1>2, BaseType DEF TypeOK, Places, CallSet, HandleSet, BaseInv
<1> QED BY <1>2, <1>3, <1>4, BaseFrame

\* What a card does with a packet, in its four cases.
Same(t, u, a) ==
    /\ call[t].sent + 1 # EffectPacket(call[t].op)
    /\ a.fd = call[t].fd /\ a.held = held[u]
GivesFd(t, u, a) ==
    /\ call[t].op \in Opens /\ call[t].sent = 2
    /\ a.fd \in CardFds /\ held[u][a.fd] = NoFile
    /\ a.held = [held[u] EXCEPT ![a.fd] = call[t].file]
TakesFd(t, u, a) ==
    /\ call[t].op \in Closes /\ call[t].sent = 0
    /\ a.fd = call[t].fd
    /\ a.held = [x \in CardFds |-> IF x = call[t].fd THEN NoFile ELSE held[u][x]]
TakesAll(t, u, a) ==
    /\ call[t].op = "reset" /\ call[t].sent = 0
    /\ a.fd = call[t].fd
    /\ a.held = [x \in CardFds |-> NoFile]

LEMMA CardCases ==
    ASSUME TypeOK, NEW t \in Threads, NEW u \in Units, NEW a \in CardActs(t, u)
    PROVE  Same(t, u, a) \/ GivesFd(t, u, a) \/ TakesFd(t, u, a) \/ TakesAll(t, u, a)
<1>1. call[t].sent \in 0 .. 4
  BY BaseType DEF CallSet
<1>2. CASE call[t].sent + 1 # EffectPacket(call[t].op)
  BY <1>2 DEF CardActs, Same
<1>3. CASE call[t].sent + 1 = EffectPacket(call[t].op) /\ call[t].op \in Opens
  <2>1. call[t].sent = 2
    BY <1>1, <1>3 DEF EffectPacket
  <2>2. \E x \in FreeFds(u) :
           a = [fd |-> x, held |-> [held[u] EXCEPT ![x] = call[t].file]]
    BY <1>3 DEF CardActs
  <2> QED BY <1>3, <2>1, <2>2 DEF GivesFd, FreeFds
<1>4. CASE call[t].sent + 1 = EffectPacket(call[t].op) /\ call[t].op \notin Opens
  <2>1. call[t].sent = 0 /\ call[t].op \in Closes \cup {"reset"}
    BY <1>1, <1>4 DEF EffectPacket
  <2>2. a = [fd |-> call[t].fd,
             held |-> [x \in CardFds |-> IF call[t].op = "reset" \/ x = call[t].fd
                                         THEN NoFile ELSE held[u][x]]]
    BY <1>4 DEF CardActs
  <2>3. CASE call[t].op = "reset"
    BY <2>1, <2>2, <2>3 DEF TakesAll
  <2>4. CASE call[t].op # "reset"
    BY <2>1, <2>2, <2>4 DEF TakesFd
  <2> QED BY <2>3, <2>4
<1> QED BY <1>2, <1>3, <1>4

LEMMA CardTypes ==
    ASSUME TypeOK, NEW t \in Threads, NEW u \in Units, NEW a \in CardActs(t, u)
    PROVE  /\ a.fd \in CardFds \cup {255}
           /\ a.held \in [CardFds -> Files \cup {NoFile}]
           /\ [held EXCEPT ![u] = a.held] \in [Units -> [CardFds -> Files \cup {NoFile}]]
<1>1. /\ held \in [Units -> [CardFds -> Files \cup {NoFile}]]
      /\ call[t].fd \in CardFds \cup {255} /\ call[t].file \in Files \cup {NoFile}
  BY BaseType DEF CallSet
<1>2. a.fd \in CardFds \cup {255} /\ a.held \in [CardFds -> Files \cup {NoFile}]
  <2>1. CASE Same(t, u, a)
    BY <1>1, <2>1 DEF Same
  <2>2. CASE GivesFd(t, u, a)
    BY <1>1, <2>2 DEF GivesFd
  <2>3. CASE TakesFd(t, u, a)
    BY <1>1, <2>3 DEF TakesFd
  <2>4. CASE TakesAll(t, u, a)
    BY <1>1, <2>4 DEF TakesAll
  <2> QED BY <2>1, <2>2, <2>3, <2>4, CardCases
<1> QED BY <1>1, <1>2

\* The steps before the exchange.
LEMMA BasePrepare ==
    ASSUME BaseInv, NEW t \in Threads,
           \/ UpdateUnit(t) \/ SetPort(t) \/ FindHandle(t) \/ PackFd(t) \/ PackName(t)
           \/ NoExchange(t) \/ Lock(t)
    PROVE  BaseInv' /\ Frame(t)
<1>t. /\ pc \in [Threads -> Places] /\ call \in [Threads -> CallSet]
      /\ handle \in [Files -> HandleSet] /\ fds \in [Slots -> CardFds \cup {Free}]
      /\ last_unit \in {-1, 0, 1} /\ port \in {2, 3} /\ lock \in Threads \cup {NoThread}
      /\ held \in [Units -> [CardFds -> Files \cup {NoFile}]]
  BY BaseType DEF BaseInv
<1>1. pc[t] \in {"update", "setport", "prepare", "lock"}
  BY DEF UpdateUnit, SetPort, FindHandle, PackFd, PackName, NoExchange, Lock
<1>2. CallOk(t) /\ call[t].sent = 0
  BY <1>1 DEF CallsInv, CallOk, BaseInv
<1>3. call[t].op \in Commands /\ Packets[call[t].op] \in 1 .. 4 /\ call[t].unit \in {0, 1}
  BY <1>2, Facts DEF CallOk
<1>4. {"prepare", "setport", "lock", "send"} \subseteq Places \ {"idle"}
  BY DEF Places
<1>5. CASE UpdateUnit(t)
  <2>1. /\ Moves(t, "prepare") \/ Moves(t, "setport")
        /\ last_unit' = call[t].unit /\ UNCHANGED <<port, lock, held>>
    BY <1>5 DEF UpdateUnit, Moves
  <2> QED BY <1>t, <1>2, <1>3, <1>4, <2>1, MoveIsFine DEF Late
<1>6. CASE SetPort(t)
  <2>1. /\ Moves(t, "prepare")
        /\ port' \in {2, 3} /\ UNCHANGED <<last_unit, lock, held>>
    BY <1>6 DEF SetPort, Moves, PortOf
  <2> QED BY <1>t, <1>2, <1>3, <1>4, <2>1, MoveIsFine DEF Late
<1>7. CASE FindHandle(t)
  <2>1. CASE FreeSlots = {}
    <3>1. Return(t, NoHandle) /\ UNCHANGED <<fds, last_unit, port, lock, held>>
      BY <1>7, <2>1 DEF FindHandle
    <3> QED BY <1>t, <1>1, <3>1, NoneTypes, ReturnIsFine
  <2>2. CASE FreeSlots # {}
    <3>1. /\ handle' = [handle EXCEPT ![call[t].file].privdata = Min(FreeSlots)]
          /\ pc' = [pc EXCEPT ![t] = "lock"]
          /\ UNCHANGED <<call, fds, last_unit, port, lock, held>>
      BY <1>7, <2>2 DEF FindHandle
    <3>2. Min(FreeSlots) \in Slots
      BY <2>2, FirstFree DEF FreeSlots
    <3>3. call[t].file \in Files /\ call[t].op \in Opens
          /\ handle[call[t].file].how = "closed"
      BY <1>2, <1>7 DEF FindHandle, CallOk
    <3>4. /\ handle' \in [Files -> HandleSet]
          /\ handle'[call[t].file].how = "closed"
          /\ handle'[call[t].file].privdata \in Slots
      BY <1>t, <3>1, <3>2, <3>3 DEF HandleSet
    <3>5. pc' \in [Threads -> Places] /\ pc'[t] = "lock" /\ Frame(t)
      BY <1>t, <1>1, <3>1 DEF Frame, Places
    <3>6. CallOk(t)'
      BY <1>2, <3>1, <3>3, <3>4, <3>5, Facts DEF CallOk
    <3>7. TypeOK'
      BY <1>t, <3>1, <3>4, <3>5, BaseType DEF TypeOK, Places, HandleSet, CallSet
    <3> QED BY <3>4, <3>5, <3>6, <3>7, BaseFrame
  <2> QED BY <2>1, <2>2
<1>8. CASE PackFd(t)
  <2> DEFINE x == fds[handle[call[t].file].privdata]
  <2>1. call[t].file \in Files /\ call[t].op \in ByFd
        /\ handle[call[t].file].how # "closed"
    BY <1>2, <1>8, Facts DEF PackFd, CallOk
  <2>2. x \in CardFds \cup {Free}
    BY <1>t, <2>1 DEF OpenInv, BaseInv
  <2>3. CASE call[t].op = "close" /\ x \in Reserved
    <3>1. Return(t, NoHandle) /\ UNCHANGED <<fds, last_unit, port, lock, held>>
      BY <1>8, <2>3 DEF PackFd
    <3> QED BY <1>t, <1>1, <3>1, NoneTypes, ReturnIsFine
  <2>4. CASE ~(call[t].op = "close" /\ x \in Reserved)
    <3>1. /\ call' = [call EXCEPT ![t].fd = IF x = Free THEN 255 ELSE x]
          /\ pc' = [pc EXCEPT ![t] = "lock"]
          /\ UNCHANGED <<handle, fds, last_unit, port, lock, held>>
      BY <1>8, <2>4 DEF PackFd
    <3> HIDE DEF x
    <3>2. call' \in [Threads -> CallSet]
      <4>1. PICK y \in CardFds \cup {255} : call' = [call EXCEPT ![t].fd = y]
        BY <2>2, <3>1
      <4> QED BY <1>t, <4>1 DEF CallSet
    <3>3. /\ call'[t].op = call[t].op /\ call'[t].file = call[t].file
          /\ call'[t].unit = call[t].unit /\ call'[t].sent = call[t].sent
          /\ \A s \in Threads : s # t => call'[s] = call[s]
      BY <1>t, <3>1 DEF CallSet
    <3>4. pc' \in [Threads -> Places] /\ pc'[t] = "lock" /\ Frame(t)
      BY <1>t, <1>1, <3>1, <3>3 DEF Frame, Places
    <3>5. CallOk(t)'
      BY <1>2, <2>1, <3>1, <3>3, <3>4, Facts DEF CallOk
    <3>6. TypeOK'
      BY <1>t, <3>1, <3>2, <3>4, BaseType DEF TypeOK, Places, HandleSet, CallSet
    <3>7. handle[call[t].file].privdata \in Slots /\ handle[call[t].file].unit \in Units
      BY <2>1 DEF OpenInv, BaseInv
    <3> QED BY <3>1, <3>4, <3>5, <3>6, <3>7, BaseFrame
  <2> QED BY <2>3, <2>4
<1>9. CASE PackName(t)
  <2>1. Moves(t, "lock") /\ UNCHANGED <<last_unit, port, lock, held>>
    BY <1>9 DEF PackName, Moves
  <2> QED BY <1>t, <1>2, <1>4, <1>9, <2>1, MoveIsFine DEF PackName
<1>10. CASE NoExchange(t)
  <2>1. /\ pc' = [pc EXCEPT ![t] = "idle"] /\ call' = [call EXCEPT ![t] = NoCall]
        /\ UNCHANGED <<handle, fds, last_unit, port, lock, held>>
    BY <1>10 DEF NoExchange
  <2>2. call' \in [Threads -> CallSet] /\ pc' \in [Threads -> Places] /\ pc'[t] = "idle"
    BY <1>t, <2>1, NoneTypes DEF Places
  <2>3. Frame(t)
    BY <1>t, <1>1, <2>1 DEF Frame
  <2>4. TypeOK'
    BY <1>t, <2>1, <2>2, BaseType DEF TypeOK, Places, HandleSet, CallSet
  <2> QED BY <2>1, <2>2, <2>3, <2>4, BaseFrame DEF OpenInv, BaseInv
<1>11. CASE Lock(t)
  <2>1. Moves(t, "send") /\ lock' = t /\ UNCHANGED <<last_unit, port, held>>
    BY <1>11 DEF Lock, Moves
  <2>2. pc[t] \in Late
    BY <1>11 DEF Lock, Late
  <2> QED BY <1>t, <1>2, <1>3, <1>4, <2>1, <2>2, MoveIsFine
<1> QED BY <1>5, <1>6, <1>7, <1>8, <1>9, <1>10, <1>11

\* What an answer does: the card a's side, and where the call goes.
Answer(t, u, a) ==
    /\ pc[t] = "send" /\ u \in InPort /\ a \in CardActs(t, u)
    /\ call' = [call EXCEPT ![t].fd = a.fd, ![t].sent = @ + 1]
    /\ held' = [held EXCEPT ![u] = a.held]
    /\ pc' = [pc EXCEPT ![t] = IF call[t].sent + 1 = Packets[call[t].op]
                               THEN "succeed" ELSE "send"]
    /\ UNCHANGED <<handle, fds, last_unit, port, lock>>

LEMMA AnswerIs ==
    ASSUME TypeOK, NEW t \in Threads, Answered(t)
    PROVE  \E u \in Units : \E a \in CardActs(t, u) : Answer(t, u, a)
<1>1. PICK u \in InPort : \E a \in CardActs(t, u) :
          /\ call' = [call EXCEPT ![t].fd = a.fd, ![t].sent = @ + 1]
          /\ held' = [held EXCEPT ![u] = a.held]
  BY DEF Answered
<1>2. PICK a \in CardActs(t, u) :
          /\ call' = [call EXCEPT ![t].fd = a.fd, ![t].sent = @ + 1]
          /\ held' = [held EXCEPT ![u] = a.held]
  BY <1>1
<1>3. call'[t].sent = call[t].sent + 1
  BY <1>2, BaseType DEF CallSet
<1>4. Answer(t, u, a)
  BY <1>2, <1>3 DEF Answered, Answer
<1> QED BY <1>4 DEF InPort

\* The exchange, from the first packet to the unlock.
LEMMA BaseExchange ==
    ASSUME BaseInv, NEW t \in Threads,
           Answered(t) \/ Refused(t) \/ Lost(t) \/ Unlock(t)
    PROVE  BaseInv' /\ Frame(t)
<1>t. /\ TypeOK
      /\ pc \in [Threads -> Places] /\ call \in [Threads -> CallSet]
      /\ handle \in [Files -> HandleSet] /\ fds \in [Slots -> CardFds \cup {Free}]
      /\ last_unit \in {-1, 0, 1} /\ port \in {2, 3} /\ lock \in Threads \cup {NoThread}
      /\ held \in [Units -> [CardFds -> Files \cup {NoFile}]]
  BY BaseType DEF BaseInv
<1>1. pc[t] \in {"send", "succeed", "fail"}
  BY DEF Answered, Refused, CardRefuses, Lost, Unlock
<1>2. CallOk(t)
  BY <1>1 DEF CallsInv, BaseInv
<1>3. {"fail", "succeeded", "failed"} \subseteq Places \ {"idle"} /\ pc[t] \in Late
  BY <1>1 DEF Places, Late
<1>4. CASE Answered(t)
  <2>1. PICK u \in Units : \E a \in CardActs(t, u) : Answer(t, u, a)
    BY <1>t, <1>4, AnswerIs
  <2>2. PICK a \in CardActs(t, u) : Answer(t, u, a)
    BY <2>1
  <2>3. /\ call[t].sent \in 0 .. 4 /\ call[t].op \in Commands
        /\ call[t].sent < Packets[call[t].op] /\ Packets[call[t].op] \in 1 .. 4
    BY <1>t, <1>2, <2>2, Facts DEF CallSet, CallOk, Answer
  <2>4. a.fd \in CardFds \cup {255}
        /\ [held EXCEPT ![u] = a.held] \in [Units -> [CardFds -> Files \cup {NoFile}]]
    BY <1>t, CardTypes
  <2>5. /\ call'[t].op = call[t].op /\ call'[t].file = call[t].file
        /\ call'[t].unit = call[t].unit /\ call'[t].sent = call[t].sent + 1
        /\ call'[t].fd = a.fd
        /\ \A s \in Threads : s # t => call'[s] = call[s]
    BY <1>t, <2>2 DEF CallSet, Answer
  <2>6. call' \in [Threads -> CallSet]
    <3>1. PICK n : n = call[t].sent + 1
      OBVIOUS
    <3>2. n \in 0 .. 4
      BY <2>3, <3>1
    <3>x. PICK x \in CardFds \cup {255} : x = a.fd
      BY <2>4
    <3>3. PICK c1 : c1 = [call EXCEPT ![t].fd = x]
      OBVIOUS
    <3>4. c1 \in [Threads -> CallSet]
      <4>1. call \in [Threads -> CallSet]
        BY <1>t
      <4> QED BY <4>1, <3>x, <3>3 DEF CallSet
    <3>5. call' = [c1 EXCEPT ![t].sent = n]
      BY <1>t, <2>2, <3>1, <3>x, <3>3 DEF Answer, CallSet
    <3> QED BY <3>2, <3>4, <3>5 DEF CallSet
  <2>7. /\ pc' \in [Threads -> Places] /\ pc'[t] \in {"send", "succeed"}
        /\ \A s \in Threads : s # t => pc'[s] = pc[s]
        /\ pc'[t] = "succeed" <=> call[t].sent + 1 = Packets[call[t].op]
    BY <1>t, <2>2 DEF Places, Answer
  <2>8. Frame(t)
    BY <1>1, <2>2, <2>5, <2>7 DEF Frame, Answer
  <2>9. call[t].op \in Opens /\ pc'[t] = "succeed" => a.fd \in CardFds
    <3>1. SUFFICES ASSUME call[t].op \in Opens, pc'[t] = "succeed" PROVE a.fd \in CardFds
      OBVIOUS
    <3>2. call[t].sent = 2
      BY <2>3, <2>7, <3>1, Facts
    <3>3. ~Same(t, u, a) /\ ~TakesFd(t, u, a) /\ ~TakesAll(t, u, a)
      BY <3>1, <3>2 DEF Same, TakesFd, TakesAll, EffectPacket
    <3> QED BY <1>t, <3>3, CardCases DEF GivesFd
  <2>10. CallOk(t)'
    BY <1>1, <1>2, <1>3, <2>2, <2>3, <2>5, <2>7, <2>9 DEF CallOk, Answer
  <2>11. TypeOK'
    BY <1>t, <2>2, <2>4, <2>6, <2>7, BaseType DEF TypeOK, Places, HandleSet, CallSet, Answer
  <2>12. call[t].file \in Files /\ handle[call[t].file].how # "closed" =>
          handle[call[t].file].privdata \in Slots /\ handle[call[t].file].unit \in Units
    BY DEF BaseInv, OpenInv
  <2> QED BY <2>2, <2>8, <2>10, <2>11, <2>12, BaseFrame DEF Answer
<1>5. CASE Refused(t)
  <2>1. Moves(t, "fail") /\ UNCHANGED <<last_unit, port, lock, held>>
    BY <1>5 DEF Refused, CardRefuses, Fails, Moves
  <2> QED BY <1>t, <1>3, <2>1, MoveIsFine
<1>6. CASE Lost(t)
  <2>1. Moves(t, "fail") /\ UNCHANGED <<last_unit, port, lock>>
    BY <1>6 DEF Lost, Fails, Moves
  <2>2. held' \in [Units -> [CardFds -> Files \cup {NoFile}]]
    <3>1. CASE held' = held
      BY <1>t, <3>1
    <3>2. CASE held' # held
      <4>1. PICK u \in Units : \E a \in CardActs(t, u) : held' = [held EXCEPT ![u] = a.held]
        BY <1>6, <3>2 DEF Lost, InPort
      <4> QED BY <1>t, <4>1, CardTypes
    <3> QED BY <3>1, <3>2
  <2> QED BY <1>t, <1>3, <2>1, <2>2, MoveIsFine
<1>7. CASE Unlock(t)
  <2>1. CASE pc[t] = "succeed"
    <3>1. Moves(t, "succeeded") /\ lock' = NoThread /\ UNCHANGED <<last_unit, port, held>>
      BY <1>7, <2>1 DEF Unlock, Moves
    <3> QED BY <1>t, <1>3, <2>1, <3>1, MoveIsFine
  <2>2. CASE pc[t] # "succeed"
    <3>1. Moves(t, "failed") /\ lock' = NoThread /\ UNCHANGED <<last_unit, port, held>>
      BY <1>7, <2>2 DEF Unlock, Moves
    <3> QED BY <1>t, <1>3, <3>1, MoveIsFine
  <2> QED BY <2>1, <2>2
<1> QED BY <1>4, <1>5, <1>6, <1>7

\* What a call that ends leaves in iomanX's file and in the table.
LEMMA BaseFinish ==
    ASSUME BaseInv, NEW t \in Threads,
           FinishOpen(t) \/ FinishClose(t) \/ Finish(t)
    PROVE  BaseInv' /\ Frame(t) /\ pc'[t] = "idle"
<1>t. /\ TypeOK
      /\ pc \in [Threads -> Places] /\ call \in [Threads -> CallSet]
      /\ handle \in [Files -> HandleSet] /\ fds \in [Slots -> CardFds \cup {Free}]
  BY BaseType DEF BaseInv
<1>1. pc[t] \in {"succeeded", "failed"} /\ pc[t] \in Late
  BY DEF FinishOpen, FinishClose, Finish, Late
<1>2. CallOk(t)
  BY <1>1 DEF CallsInv, BaseInv
<1>3. CASE FinishOpen(t)
  <2>1. /\ call[t].op \in Opens /\ call[t].file \in Files
        /\ handle[call[t].file].privdata \in Slots
        /\ call[t].unit \in Units /\ call[t].unit \in {0, 1}
    BY <1>1, <1>2, <1>3, Facts DEF FinishOpen, CallOk
  <2>2. CASE pc[t] = "succeeded"
    <3> DEFINE h == [handle[call[t].file] EXCEPT !.how = call[t].op, !.unit = call[t].unit]
    <3>1. /\ fds' = [fds EXCEPT ![handle[call[t].file].privdata] = call[t].fd]
          /\ Return(t, h) /\ UNCHANGED <<last_unit, port, lock, held>>
      BY <1>3, <2>2 DEF FinishOpen
    <3>2. h \in HandleSet /\ h.privdata \in Slots /\ h.unit \in Units
      BY <1>t, <2>1 DEF HandleSet
    <3>3. call[t].fd \in CardFds
      BY <1>2, <2>1, <2>2 DEF CallOk
    <3>4. fds' \in [Slots -> CardFds \cup {Free}]
      BY <1>t, <3>1, <3>3
    <3> HIDE DEF h
    <3> QED BY <1>1, <3>1, <3>2, <3>4, ReturnIsFine
  <2>3. CASE pc[t] # "succeeded"
    <3>1. Return(t, NoHandle) /\ UNCHANGED <<fds, last_unit, port, lock, held>>
      BY <1>3, <2>3 DEF FinishOpen
    <3> QED BY <1>t, <1>1, <3>1, NoneTypes, ReturnIsFine
  <2> QED BY <2>2, <2>3
<1>4. CASE FinishClose(t)
  <2>1. Return(t, NoHandle) /\ UNCHANGED <<last_unit, port, lock, held>>
    BY <1>4 DEF FinishClose
  <2>2. fds' \in [Slots -> CardFds \cup {Free}]
    BY <1>t, <1>4 DEF FinishClose
  <2> QED BY <1>1, <2>1, <2>2, NoneTypes, ReturnIsFine
<1>5. CASE Finish(t)
  <2>1. /\ pc' = [pc EXCEPT ![t] = "idle"] /\ call' = [call EXCEPT ![t] = NoCall]
        /\ UNCHANGED <<handle, fds, last_unit, port, lock, held>>
    BY <1>5 DEF Finish
  <2>2. call' \in [Threads -> CallSet] /\ pc' \in [Threads -> Places] /\ pc'[t] = "idle"
    BY <1>t, <2>1, NoneTypes DEF Places
  <2>3. Frame(t)
    BY <1>t, <1>1, <2>1 DEF Frame
  <2>4. TypeOK'
    BY <1>t, <2>1, <2>2, BaseType DEF TypeOK, Places, HandleSet, CallSet
  <2> QED BY <2>1, <2>2, <2>3, <2>4, BaseFrame DEF OpenInv, BaseInv
<1> QED BY <1>3, <1>4, <1>5

LEMMA BaseStutters == BaseInv /\ UNCHANGED vars => BaseInv'
<1> SUFFICES ASSUME BaseInv, UNCHANGED vars PROVE BaseInv'
  OBVIOUS
<1>1. UNCHANGED <<pc, call, handle, fds, last_unit, port, lock, held>>
  BY DEF vars
<1>2. TypeOK'
  BY <1>1 DEF BaseInv, TypeOK
<1>3. CallsInv' /\ Apart' /\ OpenInv'
  BY <1>1 DEF BaseInv, CallsInv, CallOk, Apart, OpenInv
<1> QED BY <1>2, <1>3 DEF BaseInv

LEMMA BaseStep == BaseInv /\ [Next]_vars => BaseInv'
<1> SUFFICES ASSUME BaseInv, Next PROVE BaseInv'
  BY BaseStutters
<1>1. PICK t \in Threads :
         \/ \E c \in Ops, u \in Units, f \in Files \cup {NoFile} : Call(t, c, u, f)
         \/ Lock(t) \/ Handler(t)
  BY DEF Next
<1>2. CASE \E c \in Ops, u \in Units, f \in Files \cup {NoFile} : Call(t, c, u, f)
  BY <1>2, BaseCall
<1>3. CASE Lock(t)
  BY <1>3, BasePrepare
<1>4. CASE Handler(t)
  BY <1>4, BasePrepare, BaseExchange, BaseFinish DEF Handler
<1> QED BY <1>1, <1>2, <1>3, <1>4

LEMMA BaseInvAlways == Spec => []BaseInv
  BY BaseInit, BaseStep, PTL DEF Spec

\* mmce_fs.c: whatever calls overlap and whatever the cards answer, a slot is
\* free or holds a descriptor a card gave out, and an open file has a slot.
THEOREM FsTypeCorrect == Spec => []TypeOK
<1>1. BaseInv => TypeOK
  BY DEF BaseInv
<1> QED BY <1>1, BaseInvAlways, PTL

-----------------------------------------------------------------------------
(* The port *)

\* With one call at a time the port is that of the last unit, but for the call
\* that is about to set it.
PortInv ==
    /\ \A t \in Threads :
          /\ pc[t] \notin {"idle", "update"} => last_unit = call[t].unit
          /\ pc[t] \notin {"idle", "update", "setport"} => port = PortOf(call[t].unit)
    /\ (\A t \in Threads : pc[t] # "setport") /\ last_unit # -1 => port = PortOf(last_unit)

LEMMA OneCall ==
    ASSUME BaseInv, Overlap = {}, NEW s \in Threads, NEW t \in Threads,
           pc[s] # "idle", pc[t] # "idle"
    PROVE  s = t
  BY DEF BaseInv, Apart

LEMMA PortStep == BaseInv /\ Overlap = {} /\ PortInv /\ [Next]_vars => PortInv'
<1> SUFFICES ASSUME BaseInv, Overlap = {}, PortInv, [Next]_vars PROVE PortInv'
  OBVIOUS
<1>t. /\ pc \in [Threads -> Places] /\ call \in [Threads -> CallSet]
  BY BaseType DEF BaseInv
<1>1. CASE UNCHANGED vars
  BY <1>1 DEF vars, PortInv
<1>2. ASSUME NEW t \in Threads, NEW c \in Ops, NEW u \in Units,
             NEW f \in Files \cup {NoFile}, Call(t, c, u, f)
      PROVE  PortInv'
  <2>1. /\ pc[t] = "idle" /\ pc'[t] = "update"
        /\ \A s \in Threads : s # t => pc'[s] = pc[s] /\ call'[s] = call[s]
        /\ UNCHANGED <<last_unit, port>>
    BY <1>t, <1>2 DEF Call
  <2> QED BY <2>1 DEF PortInv
<1>3. ASSUME NEW t \in Threads, UpdateUnit(t) PROVE PortInv'
  <2>1. /\ pc[t] = "update" /\ last_unit' = call[t].unit /\ UNCHANGED <<call, port>>
        /\ pc'[t] = IF last_unit = call[t].unit THEN "prepare" ELSE "setport"
        /\ \A s \in Threads : s # t => pc'[s] = pc[s]
    BY <1>t, <1>3 DEF UpdateUnit
  <2>2. \A s \in Threads : s # t => pc[s] = "idle"
    BY <2>1, OneCall
  <2>3. call[t].unit \in {0, 1}
    BY <1>t DEF CallSet
  <2> QED BY <2>1, <2>2, <2>3 DEF PortInv
<1>4. ASSUME NEW t \in Threads, SetPort(t) PROVE PortInv'
  <2>1. /\ pc[t] = "setport" /\ port' = PortOf(call[t].unit) /\ UNCHANGED <<call, last_unit>>
        /\ pc'[t] = "prepare"
        /\ \A s \in Threads : s # t => pc'[s] = pc[s]
    BY <1>t, <1>4 DEF SetPort
  <2>2. \A s \in Threads : s # t => pc[s] = "idle"
    BY <2>1, OneCall
  <2> QED BY <2>1, <2>2 DEF PortInv
<1>5. ASSUME NEW t \in Threads, Frame(t), UNCHANGED <<last_unit, port>>,
             pc[t] \notin {"update", "setport"}, pc'[t] \notin {"update", "setport"}
      PROVE  PortInv'
  BY <1>5 DEF Frame, PortInv
<1>6. ASSUME NEW t \in Threads,
             \/ FindHandle(t) \/ PackFd(t) \/ PackName(t) \/ NoExchange(t) \/ Lock(t)
             \/ Answered(t) \/ Refused(t) \/ Lost(t) \/ Unlock(t)
             \/ FinishOpen(t) \/ FinishClose(t) \/ Finish(t)
      PROVE  PortInv'
  <2>1. Frame(t)
    BY <1>6, BasePrepare, BaseExchange, BaseFinish
  <2>2. UNCHANGED <<last_unit, port>> /\ pc[t] \notin {"update", "setport"}
    BY <1>6 DEF FindHandle, PackFd, PackName, NoExchange, Lock, Answered, Refused,
                CardRefuses, Fails, Lost, Unlock, FinishOpen, FinishClose, Finish
  <2>3. pc'[t] \notin {"update", "setport"}
    <3>1. pc[t] \in Places /\ \E p : pc' = [pc EXCEPT ![t] = p] /\ p \notin {"update", "setport"}
      <4>1. CASE FindHandle(t) \/ PackFd(t) \/ PackName(t) \/ NoExchange(t) \/ Lock(t)
        BY <1>t, <4>1 DEF FindHandle, PackFd, PackName, NoExchange, Lock, Return
      <4>2. CASE Answered(t) \/ Refused(t) \/ Lost(t) \/ Unlock(t)
        BY <1>t, <4>2 DEF Answered, Refused, Fails, Lost, Unlock
      <4>3. CASE FinishOpen(t) \/ FinishClose(t) \/ Finish(t)
        BY <1>t, <4>3 DEF FinishOpen, FinishClose, Finish, Return
      <4> QED BY <1>6, <4>1, <4>2, <4>3
    <3> QED BY <1>t, <3>1
  <2> QED BY <1>5, <2>1, <2>2, <2>3
<1> QED BY <1>1, <1>2, <1>3, <1>4, <1>6 DEF Next, Handler

\* mmce_fs_update_unit: one call at a time, and every packet goes to the card it
\* is for, from the first call after __start on.
THEOREM PacketsReachTheirCard == ASSUME Overlap = {} PROVE Spec => []RightCard
<1>1. Init => PortInv
  BY DEF Init, PortInv
<1>2. BaseInv /\ PortInv /\ [Next]_vars => PortInv'
  BY PortStep
<1>3. PortInv => RightCard
  BY DEF PortInv, RightCard
<1> QED BY <1>1, <1>2, <1>3, BaseInvAlways, PTL DEF Spec

-----------------------------------------------------------------------------
(* The table and what the cards hold *)

\* No two opens at once, and with two cards no two calls at once.
Safe == Opens \cap Overlap = {} /\ (Overlap = {} \/ \E u : Units = {u})

FdOf(f) == fds[handle[f].privdata]

\* The card may have dropped the file of a close that is on its way back.
Closing(f) ==
    \E t \in Threads :
        /\ pc[t] \in {"succeed", "fail", "succeeded", "failed"}
        /\ call[t].file = f /\ call[t].op \in Closes

SlotsUsed == \A f \in OpenFiles : FdOf(f) # Free

\* The slot of an open under way stays free, and is not another's.
SlotFree ==
    \A t \in Threads : pc[t] \in Late /\ call[t].op \in Opens =>
        FdOf(call[t].file) = Free

FdGiven ==
    \A t \in Threads : pc[t] \in {"succeed", "succeeded"} /\ call[t].op \in Opens =>
        held[call[t].unit][call[t].fd] = call[t].file

FdTaken ==
    \A t \in Threads : pc[t] \in Late /\ call[t].op \in ByFd =>
        call[t].fd = FdOf(call[t].file)

CardHolds ==
    \A f \in OpenFiles :
        \/ held[handle[f].unit][FdOf(f)] = f
        \/ Closing(f) /\ held[handle[f].unit][FdOf(f)] = NoFile

ResetAlone ==
    \A t \in Threads : pc[t] # "idle" /\ call[t].op = "reset" =>
        \A f \in OpenFiles : handle[f].unit # call[t].unit

TableInv ==
    SlotsUsed /\ HandlesDistinct /\ SlotFree /\ FdGiven /\ FdTaken /\ CardHolds /\ ResetAlone

LEMMA OpensAlone ==
    ASSUME BaseInv, Safe, NEW t \in Threads, pc[t] # "idle", call[t].op \in Opens,
           NEW s \in Threads, pc[s] # "idle"
    PROVE  s = t
  BY DEF BaseInv, Apart, Safe

LEMMA OwnFile ==
    ASSUME BaseInv, NEW t \in Threads, pc[t] # "idle", call[t].file \in Files,
           NEW s \in Threads, pc[s] # "idle", s # t
    PROVE  call[s].file # call[t].file
  BY NoneAssumption DEF BaseInv, Apart

\* Which files the calls of the kinds are for.
LEMMA KindOf ==
    ASSUME BaseInv, NEW t \in Threads, pc[t] # "idle"
    PROVE  /\ call[t].unit \in Units
           /\ call[t].op \in Opens => call[t].file \in Files \ OpenFiles
           /\ call[t].op \in ByFd =>
                 call[t].file \in OpenFiles /\ handle[call[t].file].unit = call[t].unit
           /\ call[t].op \in Closes => call[t].op \in ByFd
           /\ call[t].op \notin Opens \cup ByFd => call[t].file \notin Files
<1>1. CallOk(t)
  BY DEF BaseInv, CallsInv
<1> QED BY <1>1, Facts, NoneAssumption DEF CallOk, OpenFiles

LEMMA TableInit == Init => TableInv
<1> SUFFICES ASSUME Init PROVE TableInv
  OBVIOUS
<1>1. OpenFiles = {} /\ \A t \in Threads : pc[t] = "idle"
  BY DEF Init, OpenFiles, NoHandle
<1> QED BY <1>1 DEF TableInv, SlotsUsed, HandlesDistinct, SlotFree, FdGiven, FdTaken,
                    CardHolds, ResetAlone, Late

\* A call begins.
LEMMA TableCall ==
    ASSUME BaseInv, TableInv, NEW t \in Threads, NEW c \in Ops, NEW u \in Units,
           NEW f \in Files \cup {NoFile}, Call(t, c, u, f)
    PROVE  TableInv'
<1> USE DEF TableInv
<1>t. /\ pc \in [Threads -> Places] /\ call \in [Threads -> CallSet]
  BY BaseType DEF BaseInv
<1>1. /\ pc[t] = "idle" /\ pc'[t] = "update"
      /\ call'[t].op = c /\ call'[t].unit = u
      /\ \A s \in Threads : s # t => pc'[s] = pc[s] /\ call'[s] = call[s]
      /\ UNCHANGED <<handle, fds, held>>
      /\ MayCall(c, u, f)
  BY <1>t DEF Call, NoCall
<1>2. OpenFiles' = OpenFiles /\ \A g : FdOf(g)' = FdOf(g)
  BY <1>1 DEF OpenFiles, FdOf
<1>3. SlotsUsed' /\ HandlesDistinct'
  BY <1>1, <1>2 DEF SlotsUsed, HandlesDistinct
<1>4. SlotFree' /\ FdGiven' /\ FdTaken'
  BY <1>1, <1>2 DEF SlotFree, FdGiven, FdTaken, Late
<1>5. CardHolds'
  <2>1. \A g : Closing(g) => Closing(g)'
    BY <1>1 DEF Closing
  <2> QED BY <1>1, <1>2, <2>1 DEF CardHolds
<1>6. ResetAlone'
  <2>1. c = "reset" => \A g \in OpenFiles : handle[g].unit # u
    BY <1>1, Facts DEF MayCall
  <2> QED BY <1>1, <1>2, <2>1 DEF ResetAlone
<1> QED BY <1>3, <1>4, <1>5, <1>6

\* The steps that touch neither the table nor a card.
LEMMA TableMoves ==
    ASSUME BaseInv, TableInv, NEW t \in Threads, NEW p \in Places \ {"idle"}, Moves(t, p),
           held' = held,
           p \in Late => pc[t] \in Late \/ call[t].op \notin Opens \cup ByFd,
           p \in {"succeed", "succeeded"} => pc[t] \in {"succeed", "succeeded"},
           pc[t] \in {"succeed", "fail", "succeeded", "failed"} =>
              p \in {"succeed", "fail", "succeeded", "failed"}
    PROVE  TableInv'
<1> USE DEF TableInv
<1>t. pc \in [Threads -> Places]
  BY BaseType DEF BaseInv
<1>1. /\ pc[t] # "idle" /\ pc'[t] = p /\ \A s \in Threads : s # t => pc'[s] = pc[s]
      /\ UNCHANGED <<call, handle, fds, held>>
  BY <1>t DEF Moves
<1>2. OpenFiles' = OpenFiles /\ \A g : FdOf(g)' = FdOf(g)
  BY <1>1 DEF OpenFiles, FdOf
<1>3. SlotsUsed' /\ HandlesDistinct'
  BY <1>1, <1>2 DEF SlotsUsed, HandlesDistinct
<1>4. SlotFree' /\ FdGiven' /\ FdTaken'
  BY <1>1, <1>2 DEF SlotFree, FdGiven, FdTaken
<1>5. CardHolds'
  <2>1. \A g : Closing(g) => Closing(g)'
    BY <1>1 DEF Closing
  <2> QED BY <1>1, <1>2, <2>1 DEF CardHolds
<1>6. ResetAlone'
  BY <1>1, <1>2 DEF ResetAlone
<1> QED BY <1>3, <1>4, <1>5, <1>6

\* A call ends, its file is closed or left as it is, its slot left or freed.
LEMMA TableEnds ==
    ASSUME BaseInv, TableInv, NEW t \in Threads, Frame(t), pc'[t] = "idle", held' = held,
           DOMAIN fds' = Slots,
           call[t].file \in Files =>
              \/ handle'[call[t].file].how = "closed"
              \/ /\ handle'[call[t].file] = handle[call[t].file]
                 /\ fds' = fds /\ call[t].op \notin Opens \cup Closes,
           \/ fds' = fds
           \/ /\ call[t].op \in Closes
              /\ fds' = [fds EXCEPT ![handle[call[t].file].privdata] = Free]
    PROVE  TableInv'
<1> USE DEF TableInv
<1>t. /\ pc \in [Threads -> Places] /\ handle \in [Files -> HandleSet]
      /\ fds \in [Slots -> CardFds \cup {Free}]
  BY BaseType DEF BaseInv
<1>1. /\ pc[t] # "idle"
      /\ \A s \in Threads : s # t => pc'[s] = pc[s] /\ call'[s] = call[s]
      /\ \A f \in Files : f # call[t].file => handle'[f] = handle[f]
  BY DEF Frame
<1>2. \A f \in OpenFiles' : f \in OpenFiles /\ handle'[f] = handle[f]
  BY <1>1 DEF OpenFiles
<1>3. \A f \in Files : f # call[t].file /\ handle[f].privdata \in Slots =>
          FdOf(f)' = FdOf(f) \/ (FdOf(f)' = Free /\ call[t].op \in Closes
                                 /\ handle[f].privdata = handle[call[t].file].privdata)
  BY <1>t, <1>1 DEF FdOf
<1>4. \A f \in OpenFiles' : FdOf(f)' = FdOf(f)
  <2> SUFFICES ASSUME NEW f \in OpenFiles' PROVE FdOf(f)' = FdOf(f)
    OBVIOUS
  <2>1. CASE f = call[t].file
    BY <1>2, <2>1 DEF FdOf, OpenFiles
  <2>2. CASE f # call[t].file
    <3>1. f \in Files /\ f \in OpenFiles /\ handle[f].privdata \in Slots
      BY <1>2 DEF OpenFiles, OpenInv, BaseInv
    <3>2. call[t].op \in Closes => call[t].file \in OpenFiles
      BY <1>1, KindOf
    <3>3. call[t].op \in Closes => handle[f].privdata # handle[call[t].file].privdata
      BY <2>2, <3>1, <3>2 DEF HandlesDistinct
    <3> QED BY <1>3, <2>2, <3>1, <3>3
  <2> QED BY <2>1, <2>2
<1>5. SlotsUsed' /\ HandlesDistinct'
  <2>1. SlotsUsed'
    BY <1>2, <1>4 DEF SlotsUsed
  <2>2. HandlesDistinct'
    BY <1>2, <1>4 DEF HandlesDistinct, FdOf
  <2> QED BY <2>1, <2>2
<1>6. \A s \in Threads : pc'[s] # "idle" =>
          s # t /\ pc[s] # "idle" /\ pc'[s] = pc[s] /\ call'[s] = call[s]
  BY <1>1
<1>7. SlotFree'
  <2> SUFFICES ASSUME NEW s \in Threads, pc'[s] \in Late, call'[s].op \in Opens
               PROVE  FdOf(call[s].file)' = Free /\ call'[s] = call[s]
    BY <1>6 DEF SlotFree, FdOf, Late
  <2>1. s # t /\ pc[s] \in Late /\ pc[s] # "idle" /\ call'[s] = call[s]
    BY <1>6 DEF Late
  <2>2. call[s].file \in Files /\ handle[call[s].file].privdata \in Slots
    BY <2>1 DEF BaseInv, CallsInv, CallOk
  <2>3. call[s].file # call[t].file /\ FdOf(call[s].file) = Free
    BY <1>1, <2>1, <2>2, OwnFile DEF SlotFree
  <2> QED BY <1>3, <2>1, <2>2, <2>3
<1>8. FdGiven' /\ ResetAlone'
  <2>1. FdGiven'
    BY <1>6 DEF FdGiven
  <2>2. ResetAlone'
    BY <1>2, <1>6 DEF ResetAlone
  <2> QED BY <2>1, <2>2
<1>9. FdTaken'
  <2> SUFFICES ASSUME NEW s \in Threads, pc'[s] \in Late, call'[s].op \in ByFd
               PROVE  call[s].fd = FdOf(call[s].file)' /\ call'[s] = call[s]
    BY <1>6 DEF FdTaken, FdOf, Late
  <2>1. s # t /\ pc[s] \in Late /\ pc[s] # "idle" /\ call'[s] = call[s]
    BY <1>6 DEF Late
  <2>2. call[s].file \in OpenFiles
    BY <2>1, KindOf
  <2>3. call[s].file # call[t].file
    BY <1>1, <2>1, <2>2, OwnFile DEF OpenFiles
  <2>4. call[s].file \in OpenFiles'
    BY <1>1, <2>2, <2>3 DEF OpenFiles
  <2> QED BY <1>4, <2>1, <2>4 DEF FdTaken
<1>10. CardHolds'
  <2> SUFFICES ASSUME NEW f \in OpenFiles', Closing(f) PROVE Closing(f)'
    BY <1>2, <1>4 DEF CardHolds
  <2>1. PICK s \in Threads : /\ pc[s] \in {"succeed", "fail", "succeeded", "failed"}
                             /\ call[s].file = f /\ call[s].op \in Closes
    BY DEF Closing
  <2>2. s # t
    BY <1>2, <2>1 DEF OpenFiles
  <2> QED BY <1>1, <2>1, <2>2 DEF Closing
<1> QED BY <1>5, <1>7, <1>8, <1>9, <1>10

\* An open finds its slot, alone; or there is none and the call ends.
LEMMA TableFind ==
    ASSUME BaseInv, Safe, TableInv, NEW t \in Threads, FindHandle(t)
    PROVE  TableInv'
<1> USE DEF TableInv
<1>t. /\ pc \in [Threads -> Places] /\ call \in [Threads -> CallSet]
      /\ handle \in [Files -> HandleSet] /\ fds \in [Slots -> CardFds \cup {Free}]
  BY BaseType DEF BaseInv
<1>1. pc[t] = "prepare" /\ call[t].op \in Opens /\ pc[t] # "idle"
  BY DEF FindHandle
<1>2. call[t].file \in Files \ OpenFiles
  BY <1>1, KindOf
<1>3. CASE FreeSlots = {}
  <2>1. Return(t, NoHandle) /\ UNCHANGED <<fds, last_unit, port, lock, held>>
    BY <1>3 DEF FindHandle
  <2>2. Frame(t) /\ pc'[t] = "idle" /\ handle'[call[t].file].how = "closed"
    BY <1>t, <1>1, <1>2, <2>1, NoneTypes, ReturnIsFine
  <2> QED BY <1>t, <2>1, <2>2, TableEnds
<1>4. CASE FreeSlots # {}
  <2>1. /\ handle' = [handle EXCEPT ![call[t].file].privdata = Min(FreeSlots)]
        /\ pc' = [pc EXCEPT ![t] = "lock"]
        /\ UNCHANGED <<call, fds, held>>
    BY <1>4 DEF FindHandle
  <2>2. Min(FreeSlots) \in Slots /\ fds[Min(FreeSlots)] = Free
    <3>1. PICK n \in FreeSlots : n = Min(FreeSlots)
      BY <1>4, FirstFree
    <3>2. n \in Slots /\ fds[n] < 0 /\ fds[n] \in CardFds \cup {Free}
      BY <1>t, <3>1 DEF FreeSlots
    <3>3. \A x \in CardFds : ~(x < 0)
      BY TableAssumption
    <3> QED BY <3>1, <3>2, <3>3
  <2>3. /\ \A f \in Files : handle'[f].how = handle[f].how
        /\ \A f \in Files : f # call[t].file => handle'[f] = handle[f]
        /\ handle'[call[t].file].privdata = Min(FreeSlots)
    BY <1>t, <1>2, <2>1 DEF HandleSet
  <2>4. OpenFiles' = OpenFiles
    BY <2>3 DEF OpenFiles
  <2>5. \A f \in OpenFiles : handle'[f] = handle[f] /\ FdOf(f)' = FdOf(f)
    BY <1>2, <2>1, <2>3 DEF OpenFiles, FdOf
  <2>6. \A s \in Threads : s # t => pc[s] = "idle" /\ pc'[s] = "idle"
    BY <1>t, <1>1, <2>1, OpensAlone
  <2>7. pc'[t] = "lock"
    BY <1>t, <2>1
  <2>8. SlotsUsed'
    BY <2>4, <2>5 DEF SlotsUsed
  <2>9. HandlesDistinct'
    BY <2>4, <2>5 DEF HandlesDistinct, FdOf
  <2>10. SlotFree'
    BY <2>1, <2>2, <2>3, <2>6 DEF SlotFree, Late, FdOf
  <2>11. FdGiven' /\ FdTaken'
    BY <1>1, <2>1, <2>6, <2>7, Facts DEF FdGiven, FdTaken, Late
  <2>12. CardHolds'
    <3>1. \A f : ~Closing(f)
      BY <1>1, <2>6 DEF Closing
    <3> QED BY <2>1, <2>4, <2>5, <3>1 DEF CardHolds
  <2>13. ResetAlone'
    BY <1>1, <2>1, <2>6, Facts DEF ResetAlone
  <2> QED BY <2>8, <2>9, <2>10, <2>11, <2>12, <2>13
<1> QED BY <1>3, <1>4

\* A command by handle takes its descriptor from the table.
LEMMA TablePack ==
    ASSUME BaseInv, TableInv, NEW t \in Threads, PackFd(t)
    PROVE  TableInv'
<1> USE DEF TableInv
<1>t. /\ pc \in [Threads -> Places] /\ call \in [Threads -> CallSet]
      /\ fds \in [Slots -> CardFds \cup {Free}]
  BY BaseType DEF BaseInv
<1>1. pc[t] = "prepare" /\ call[t].op \in ByFd /\ pc[t] # "idle"
  BY DEF PackFd
<1>2. call[t].file \in OpenFiles /\ call[t].file \in Files
  BY <1>1, KindOf DEF OpenFiles
<1>3. FdOf(call[t].file) # Free
  BY <1>2 DEF SlotsUsed
<1>4. CASE call[t].op = "close" /\ FdOf(call[t].file) \in Reserved
  <2>1. Return(t, NoHandle) /\ UNCHANGED <<fds, last_unit, port, lock, held>>
    BY <1>4 DEF PackFd, FdOf
  <2>2. Frame(t) /\ pc'[t] = "idle" /\ handle'[call[t].file].how = "closed"
    BY <1>t, <1>1, <1>2, <2>1, NoneTypes, ReturnIsFine
  <2> QED BY <1>t, <2>1, <2>2, TableEnds
<1>5. CASE ~(call[t].op = "close" /\ FdOf(call[t].file) \in Reserved)
  <2>1. /\ call' = [call EXCEPT ![t].fd = FdOf(call[t].file)]
        /\ pc' = [pc EXCEPT ![t] = "lock"]
        /\ UNCHANGED <<handle, fds, held>>
    BY <1>3, <1>5 DEF PackFd, FdOf
  <2>2. /\ call'[t].op = call[t].op /\ call'[t].file = call[t].file
        /\ call'[t].unit = call[t].unit /\ call'[t].fd = FdOf(call[t].file)
        /\ pc'[t] = "lock"
        /\ \A s \in Threads : s # t => pc'[s] = pc[s] /\ call'[s] = call[s]
    BY <1>t, <2>1 DEF CallSet
  <2>3. OpenFiles' = OpenFiles /\ \A g : FdOf(g)' = FdOf(g)
    BY <2>1 DEF OpenFiles, FdOf
  <2>4. SlotsUsed' /\ HandlesDistinct'
    BY <2>1, <2>3 DEF SlotsUsed, HandlesDistinct
  <2>5. SlotFree' /\ FdGiven'
    BY <1>1, <2>1, <2>2, <2>3, Facts DEF SlotFree, FdGiven
  <2>6. FdTaken'
    <3> SUFFICES ASSUME NEW s \in Threads, pc'[s] \in Late, call'[s].op \in ByFd
                 PROVE  call'[s].fd = FdOf(call'[s].file)
      BY <2>3 DEF FdTaken
    <3>1. CASE s = t
      BY <2>2, <3>1
    <3>2. CASE s # t
      BY <2>2, <3>2 DEF FdTaken
    <3> QED BY <3>1, <3>2
  <2>7. CardHolds'
    <3>1. \A g : Closing(g) => Closing(g)'
      BY <1>1, <2>2 DEF Closing
    <3> QED BY <2>1, <2>3, <3>1 DEF CardHolds
  <2>8. ResetAlone'
    BY <1>1, <2>1, <2>2, <2>3 DEF ResetAlone
  <2> QED BY <2>4, <2>5, <2>6, <2>7, <2>8
<1> QED BY <1>4, <1>5

\* The card's descriptor goes into the slot, and the file is open.
LEMMA TableOpens ==
    ASSUME BaseInv, Safe, TableInv, NEW t \in Threads, FinishOpen(t), pc[t] = "succeeded"
    PROVE  TableInv'
<1> USE DEF TableInv
<1>t. /\ pc \in [Threads -> Places] /\ call \in [Threads -> CallSet]
      /\ handle \in [Files -> HandleSet] /\ fds \in [Slots -> CardFds \cup {Free}]
  BY BaseType DEF BaseInv
<1>f. PICK f, p, h : /\ f = call[t].file /\ p = handle[f].privdata
                     /\ h = [handle[f] EXCEPT !.how = call[t].op, !.unit = call[t].unit]
  OBVIOUS
<1>1. /\ call[t].op \in Opens
      /\ fds' = [fds EXCEPT ![p] = call[t].fd]
      /\ Return(t, h) /\ UNCHANGED held
  BY <1>f DEF FinishOpen
<1>2. /\ f \in Files \ OpenFiles /\ p \in Slots /\ call[t].fd \in CardFds
      /\ call[t].unit \in Units
  BY <1>f, <1>1, KindOf DEF BaseInv, CallsInv, CallOk, Late
<1>3. fds[p] = Free /\ held[call[t].unit][call[t].fd] = f
  BY <1>f, <1>1 DEF SlotFree, FdGiven, Late, FdOf
<1>4. \A s \in Threads : pc'[s] = "idle"
  <2>1. \A s \in Threads : s # t => pc[s] = "idle"
    BY <1>1, OpensAlone
  <2> QED BY <1>t, <1>1, <2>1 DEF Return
<1>5. \A g : ~Closing(g)
  BY <1>1, OpensAlone, Facts DEF Closing
<1>6. h.how \in Opens /\ h.unit = call[t].unit /\ h.privdata = p
  BY <1>t, <1>f, <1>1, <1>2 DEF HandleSet
<1>7. handle'[f] = h /\ \A g \in Files : g # f => handle'[g] = handle[g]
  BY <1>t, <1>f, <1>1, <1>2 DEF Return
<1>8. FdOf(f)' = call[t].fd
  BY <1>t, <1>1, <1>2, <1>6, <1>7 DEF FdOf
<1>9. \A g \in OpenFiles' : g # f => g \in OpenFiles /\ handle'[g] = handle[g]
  BY <1>7 DEF OpenFiles
<1>10. \A g \in OpenFiles : /\ handle[g].privdata \in Slots /\ handle[g].privdata # p
                            /\ FdOf(g)' = FdOf(g)
                            /\ held[handle[g].unit][FdOf(g)] = g
  <2> SUFFICES ASSUME NEW g \in OpenFiles
               PROVE  /\ handle[g].privdata \in Slots /\ handle[g].privdata # p
                      /\ FdOf(g)' = FdOf(g)
                      /\ held[handle[g].unit][FdOf(g)] = g
    OBVIOUS
  <2>1. g \in Files /\ g # f /\ handle[g].privdata \in Slots
    BY <1>2 DEF OpenFiles, BaseInv, OpenInv
  <2>2. handle[g].privdata # p
    BY <1>3 DEF SlotsUsed, FdOf
  <2>3. FdOf(g)' = FdOf(g)
    BY <1>t, <1>1, <1>2, <1>7, <2>1, <2>2 DEF FdOf
  <2> QED BY <1>5, <2>1, <2>2, <2>3 DEF CardHolds
<1>11. \A g \in OpenFiles : handle[g].unit = call[t].unit => FdOf(g) # call[t].fd
  BY <1>2, <1>3, <1>10
<1>12. SlotsUsed'
  BY <1>2, <1>8, <1>9, <1>10, Facts DEF SlotsUsed
<1>13. HandlesDistinct'
  <2> SUFFICES ASSUME NEW g \in OpenFiles', NEW k \in OpenFiles', g # k
               PROVE  /\ handle'[g].privdata # handle'[k].privdata
                      /\ handle'[g].unit = handle'[k].unit => FdOf(g)' # FdOf(k)'
    BY DEF HandlesDistinct, FdOf
  <2>1. CASE g = f
    BY <1>6, <1>7, <1>8, <1>9, <1>10, <1>11, <2>1
  <2>2. CASE k = f
    BY <1>6, <1>7, <1>8, <1>9, <1>10, <1>11, <2>2
  <2>3. CASE g # f /\ k # f
    BY <1>9, <1>10, <2>3 DEF HandlesDistinct, FdOf
  <2> QED BY <2>1, <2>2, <2>3
<1>14. SlotFree' /\ FdGiven' /\ FdTaken' /\ ResetAlone'
  BY <1>4 DEF SlotFree, FdGiven, FdTaken, ResetAlone, Late
<1>15. CardHolds'
  <2> SUFFICES ASSUME NEW g \in OpenFiles' PROVE held'[handle'[g].unit][FdOf(g)'] = g
    BY DEF CardHolds
  <2>1. CASE g = f
    BY <1>1, <1>3, <1>6, <1>7, <1>8, <2>1
  <2>2. CASE g # f
    BY <1>1, <1>9, <1>10, <2>2
  <2> QED BY <2>1, <2>2
<1> QED BY <1>12, <1>13, <1>14, <1>15

\* The card a call's packets go to is the one it is for.
LEMMA Reach ==
    ASSUME BaseInv, Safe, Overlap = {} => PortInv, NEW t \in Threads, pc[t] = "send",
           NEW u \in InPort
    PROVE  u = call[t].unit
<1>1. u \in Units /\ PortOf(u) = port /\ call[t].unit \in Units
  BY KindOf DEF InPort
<1>2. CASE \E v : Units = {v}
  BY <1>1, <1>2
<1>3. CASE Overlap = {}
  <2>1. port = PortOf(call[t].unit)
    BY <1>3 DEF PortInv
  <2>2. \A v, w \in {0, 1} : PortOf(v) = PortOf(w) => v = w
    BY DEF PortOf
  <2> QED BY <1>1, <2>1, <2>2, Facts
<1> QED BY <1>2, <1>3 DEF Safe

\* A card opens, closes or drops files, and the answer arrives or is lost.
LEMMA TableCard ==
    ASSUME BaseInv, Safe, TableInv, NEW t \in Threads, pc[t] = "send", Frame(t),
           NEW u \in Units, NEW a \in CardActs(t, u), u = call[t].unit,
           UNCHANGED <<handle, fds>>, held' = [held EXCEPT ![u] = a.held],
           call'[t].op = call[t].op, call'[t].file = call[t].file,
           call'[t].unit = call[t].unit,
           \/ pc'[t] = "fail" /\ call'[t].fd = call[t].fd
           \/ /\ pc'[t] = IF call[t].sent + 1 = Packets[call[t].op] THEN "succeed" ELSE "send"
              /\ call'[t].fd = a.fd
    PROVE  TableInv'
<1> USE DEF TableInv
<1>t. /\ TypeOK
      /\ held \in [Units -> [CardFds -> Files \cup {NoFile}]]
      /\ fds \in [Slots -> CardFds \cup {Free}]
      /\ handle \in [Files -> HandleSet]
  BY BaseType DEF BaseInv
<1>1. /\ pc[t] # "idle" /\ pc[t] \in Late
      /\ \A s \in Threads : s # t => pc'[s] = pc[s] /\ call'[s] = call[s]
  BY DEF Frame, Late
<1>2. OpenFiles' = OpenFiles /\ \A g : FdOf(g)' = FdOf(g)
  BY DEF OpenFiles, FdOf
<1>3. Same(t, u, a) \/ GivesFd(t, u, a) \/ TakesFd(t, u, a) \/ TakesAll(t, u, a)
  BY <1>t, CardCases
<1>4. SlotsUsed' /\ HandlesDistinct'
  BY <1>2 DEF SlotsUsed, HandlesDistinct
<1>5. SlotFree'
  BY <1>1, <1>2 DEF SlotFree
<1>6. ResetAlone'
  BY <1>1, <1>2 DEF ResetAlone
<1>7. FdTaken'
  <2>1. call[t].op \in ByFd => call'[t].fd = call[t].fd
    BY <1>3, Facts DEF Same, GivesFd, TakesFd, TakesAll
  <2> QED BY <1>1, <1>2, <2>1 DEF FdTaken
<1>8. FdGiven'
  <2> SUFFICES ASSUME NEW s \in Threads, pc'[s] \in {"succeed", "succeeded"},
                      call'[s].op \in Opens
               PROVE  held'[call'[s].unit][call'[s].fd] = call'[s].file
    BY DEF FdGiven
  <2>1. s = t
    BY <1>1, OpensAlone
  <2>2. call[t].sent + 1 = Packets[call[t].op] /\ call'[t].fd = a.fd
    BY <2>1
  <2>3. GivesFd(t, u, a)
    BY <1>3, <2>1, <2>2, Facts DEF Same, TakesFd, TakesAll, EffectPacket
  <2> QED BY <1>t, <2>1, <2>2, <2>3 DEF GivesFd
<1>9. CardHolds'
  <2> SUFFICES ASSUME NEW f \in OpenFiles
               PROVE  \/ held'[handle[f].unit][FdOf(f)] = f
                      \/ Closing(f)' /\ held'[handle[f].unit][FdOf(f)] = NoFile
    BY <1>2 DEF CardHolds
  <2>1. Closing(f) => Closing(f)'
    BY <1>1 DEF Closing
  <2>2. f \in Files /\ handle[f].unit \in Units /\ FdOf(f) \in CardFds
    BY <1>t DEF OpenFiles, BaseInv, OpenInv, SlotsUsed, FdOf
  <2>3. \/ held[handle[f].unit][FdOf(f)] = f
        \/ Closing(f) /\ held[handle[f].unit][FdOf(f)] = NoFile
    BY DEF CardHolds
  <2>4. CASE handle[f].unit # u \/ Same(t, u, a)
    <3>1. held'[handle[f].unit] = held[handle[f].unit]
      BY <1>t, <2>2, <2>4 DEF Same
    <3> QED BY <2>1, <2>3, <3>1
  <2>5. CASE handle[f].unit = u /\ GivesFd(t, u, a)
    <3>1. call[t].op \in Opens
      BY <2>5 DEF GivesFd
    <3>2. ~Closing(f)
      BY <1>1, <3>1, OpensAlone DEF Closing
    <3>3. FdOf(f) # a.fd
      BY <2>2, <2>3, <2>5, <3>2, NoneAssumption DEF GivesFd
    <3>4. held'[u][FdOf(f)] = held[u][FdOf(f)]
      BY <1>t, <2>2, <2>5, <3>3 DEF GivesFd
    <3> QED BY <2>3, <2>5, <3>2, <3>4
  <2>6. CASE handle[f].unit = u /\ TakesFd(t, u, a)
    <3>1. call[t].op \in Closes /\ call[t].op \in ByFd /\ call[t].sent = 0
          /\ Packets[call[t].op] = 1
      BY <2>6, Facts DEF TakesFd
    <3>2. call[t].file \in OpenFiles /\ handle[call[t].file].unit = u
      BY <1>1, <3>1, KindOf
    <3>3. call[t].fd = FdOf(call[t].file)
      BY <1>1, <3>1 DEF FdTaken
    <3>4. held'[u][FdOf(f)] = IF FdOf(f) = call[t].fd THEN NoFile ELSE held[u][FdOf(f)]
      BY <1>t, <2>2, <2>6 DEF TakesFd
    <3>5. CASE f = call[t].file
      <4>1. pc'[t] \in {"succeed", "fail"}
        BY <3>1
      <4>2. Closing(f)'
        BY <3>1, <3>5, <4>1 DEF Closing
      <4> QED BY <2>6, <3>3, <3>4, <3>5, <4>2
    <3>6. CASE f # call[t].file
      <4>1. FdOf(f) # call[t].fd
        BY <2>6, <3>2, <3>3, <3>6 DEF HandlesDistinct, FdOf
      <4> QED BY <2>1, <2>3, <2>6, <3>4, <4>1
    <3> QED BY <3>5, <3>6
  <2>7. CASE handle[f].unit = u /\ TakesAll(t, u, a)
    BY <1>1, <2>7 DEF TakesAll, ResetAlone
  <2> QED BY <1>3, <2>4, <2>5, <2>6, <2>7
<1> QED BY <1>4, <1>5, <1>6, <1>7, <1>8, <1>9

\* The exchange with the card.
LEMMA TableExchange ==
    ASSUME BaseInv, Safe, Overlap = {} => PortInv, TableInv, NEW t \in Threads,
           Answered(t) \/ Refused(t) \/ Lost(t)
    PROVE  TableInv'
<1>t. /\ TypeOK /\ pc \in [Threads -> Places] /\ call \in [Threads -> CallSet]
      /\ "fail" \in Places \ {"idle"}
  BY BaseType DEF BaseInv, Places
<1>1. pc[t] = "send" /\ pc[t] \in Late /\ Frame(t)
  BY BaseExchange DEF Answered, Refused, CardRefuses, Lost, Late
<1>2. CASE Answered(t)
  <2>1. PICK u \in Units : \E a \in CardActs(t, u) : Answer(t, u, a)
    BY <1>t, <1>2, AnswerIs
  <2>2. PICK a \in CardActs(t, u) : Answer(t, u, a)
    BY <2>1
  <2>3. u = call[t].unit
    BY <1>1, <2>2, Reach DEF Answer
  <2>4. /\ call'[t].op = call[t].op /\ call'[t].file = call[t].file
        /\ call'[t].unit = call[t].unit /\ call'[t].fd = a.fd
    BY <1>t, <2>2 DEF CallSet, Answer
  <2>5. /\ pc'[t] = IF call[t].sent + 1 = Packets[call[t].op] THEN "succeed" ELSE "send"
        /\ held' = [held EXCEPT ![u] = a.held] /\ UNCHANGED <<handle, fds>>
    BY <1>t, <2>2 DEF Answer
  <2> QED BY <1>1, <2>3, <2>4, <2>5, TableCard
<1>3. ASSUME Fails(t), held' = held PROVE TableInv'
  BY <1>t, <1>1, <1>3, TableMoves DEF Fails, Moves
<1>4. CASE Refused(t)
  BY <1>3, <1>4 DEF Refused
<1>5. CASE Lost(t)
  <2>1. CASE held' = held
    BY <1>3, <1>5, <2>1 DEF Lost
  <2>2. CASE held' # held
    <3>1. PICK u \in InPort : \E a \in CardActs(t, u) : held' = [held EXCEPT ![u] = a.held]
      BY <1>5, <2>2 DEF Lost
    <3>2. u \in Units /\ u = call[t].unit
      BY <1>1, Reach DEF InPort
    <3>3. pc'[t] = "fail" /\ UNCHANGED <<call, handle, fds>>
      BY <1>t, <1>5 DEF Lost, Fails
    <3> QED BY <1>1, <3>1, <3>2, <3>3, TableCard
  <2> QED BY <2>1, <2>2
<1> QED BY <1>2, <1>4, <1>5

\* The steps before the exchange and the unlock.
LEMMA TableOwn ==
    ASSUME BaseInv, Safe, TableInv, NEW t \in Threads,
           \/ UpdateUnit(t) \/ SetPort(t) \/ FindHandle(t) \/ PackFd(t) \/ PackName(t)
           \/ Lock(t) \/ Unlock(t)
    PROVE  TableInv'
<1>t. {"setport", "prepare", "lock", "send", "succeeded", "failed"} \subseteq Places \ {"idle"}
  BY DEF Places
<1>1. CASE UpdateUnit(t)
  <2>1. /\ Moves(t, "prepare") \/ Moves(t, "setport")
        /\ pc[t] = "update" /\ held' = held
    BY <1>1 DEF UpdateUnit, Moves
  <2> QED BY <1>t, <2>1, TableMoves DEF Late
<1>2. CASE SetPort(t)
  <2>1. Moves(t, "prepare") /\ pc[t] = "setport" /\ held' = held
    BY <1>2 DEF SetPort, Moves
  <2> QED BY <1>t, <2>1, TableMoves DEF Late
<1>3. CASE FindHandle(t) \/ PackFd(t)
  BY <1>3, TableFind, TablePack
<1>4. CASE PackName(t)
  <2>1. /\ Moves(t, "lock") /\ pc[t] = "prepare" /\ held' = held
        /\ call[t].op \notin Opens \cup ByFd
    BY <1>4 DEF PackName, Moves
  <2> QED BY <1>t, <2>1, TableMoves DEF Late
<1>5. CASE Lock(t)
  <2>1. Moves(t, "send") /\ pc[t] = "lock" /\ held' = held
    BY <1>5 DEF Lock, Moves
  <2> QED BY <1>t, <2>1, TableMoves DEF Late
<1>6. CASE Unlock(t)
  <2>1. /\ held' = held /\ pc[t] \in {"succeed", "fail"}
        /\ \/ pc[t] = "succeed" /\ Moves(t, "succeeded")
           \/ pc[t] = "fail" /\ Moves(t, "failed")
    BY <1>6 DEF Unlock, Moves
  <2> QED BY <1>t, <2>1, TableMoves DEF Late
<1> QED BY <1>1, <1>2, <1>3, <1>4, <1>5, <1>6

\* The steps that end a call.
LEMMA TableFinish ==
    ASSUME BaseInv, Safe, TableInv, NEW t \in Threads,
           NoExchange(t) \/ FinishOpen(t) \/ FinishClose(t) \/ Finish(t)
    PROVE  TableInv'
<1>t. /\ pc \in [Threads -> Places] /\ call \in [Threads -> CallSet]
      /\ handle \in [Files -> HandleSet] /\ fds \in [Slots -> CardFds \cup {Free}]
  BY BaseType DEF BaseInv
<1>1. CASE NoExchange(t)
  <2>1. /\ Frame(t) /\ pc'[t] = "idle" /\ UNCHANGED <<handle, fds, held>>
        /\ call[t].op \notin Opens \cup ByFd
    BY <1>t, <1>1, BasePrepare, Facts DEF NoExchange
  <2>2. call[t].op \notin Opens \cup Closes
    BY <2>1, Facts
  <2> QED BY <1>t, <2>1, <2>2, TableEnds
<1>2. CASE FinishOpen(t)
  <2>1. CASE pc[t] = "succeeded"
    BY <1>2, <2>1, TableOpens
  <2>2. CASE pc[t] # "succeeded"
    <3>1. /\ Frame(t) /\ pc'[t] = "idle" /\ UNCHANGED <<fds, held>>
          /\ Return(t, NoHandle)
      BY <1>2, <2>2, BaseFinish DEF FinishOpen
    <3>2. call[t].file \in Files => handle'[call[t].file].how = "closed"
      BY <3>1, NoneTypes DEF Return
    <3> QED BY <1>t, <3>1, <3>2, TableEnds
  <2> QED BY <2>1, <2>2
<1>3. CASE FinishClose(t)
  <2>1. /\ Frame(t) /\ pc'[t] = "idle" /\ held' = held
        /\ Return(t, NoHandle) /\ call[t].op \in Closes
        /\ fds' = fds \/ fds' = [fds EXCEPT ![handle[call[t].file].privdata] = Free]
    BY <1>3, BaseFinish DEF FinishClose
  <2>2. call[t].file \in Files => handle'[call[t].file].how = "closed"
    BY <2>1, NoneTypes DEF Return
  <2> QED BY <1>t, <2>1, <2>2, TableEnds
<1>4. CASE Finish(t)
  <2>1. /\ Frame(t) /\ pc'[t] = "idle" /\ UNCHANGED <<handle, fds, held>>
        /\ call[t].op \notin Opens \cup Closes
    BY <1>4, BaseFinish DEF Finish
  <2> QED BY <1>t, <2>1, TableEnds
<1> QED BY <1>1, <1>2, <1>3, <1>4

LEMMA TableStutters == TableInv /\ UNCHANGED vars => TableInv'
<1> SUFFICES ASSUME TableInv, UNCHANGED vars PROVE TableInv'
  OBVIOUS
<1>1. UNCHANGED <<pc, call, handle, fds, last_unit, port, lock, held>>
  BY DEF vars
<1>2. OpenFiles' = OpenFiles
  BY <1>1 DEF OpenFiles
<1>3. SlotsUsed' /\ HandlesDistinct' /\ SlotFree' /\ FdGiven' /\ FdTaken'
  BY <1>1, <1>2 DEF TableInv, SlotsUsed, HandlesDistinct, SlotFree, FdGiven, FdTaken, FdOf
<1>4. CardHolds' /\ ResetAlone'
  BY <1>1, <1>2 DEF TableInv, CardHolds, ResetAlone, Closing, FdOf
<1> QED BY <1>3, <1>4 DEF TableInv

LEMMA TableStep ==
    BaseInv /\ Safe /\ (Overlap = {} => PortInv) /\ TableInv /\ [Next]_vars => TableInv'
<1> SUFFICES ASSUME BaseInv, Safe, Overlap = {} => PortInv, TableInv, Next PROVE TableInv'
  BY TableStutters
<1>1. PICK t \in Threads :
         \/ \E c \in Ops, u \in Units, f \in Files \cup {NoFile} : Call(t, c, u, f)
         \/ Lock(t) \/ Handler(t)
  BY DEF Next
<1>2. CASE \E c \in Ops, u \in Units, f \in Files \cup {NoFile} : Call(t, c, u, f)
  BY <1>2, TableCall
<1>3. CASE Lock(t) \/ Handler(t)
  BY <1>3, TableOwn, TableExchange, TableFinish DEF Handler
<1> QED BY <1>1, <1>2, <1>3

LEMMA TableAlways == ASSUME Safe PROVE Spec => []TableInv
<1>1. Overlap = {} => (Init => PortInv)
  BY DEF Init, PortInv
<1>2. (Overlap = {} => PortInv) /\ BaseInv /\ [Next]_vars => (Overlap = {} => PortInv)'
  BY PortStep
<1>3. Init => (Overlap = {} => PortInv)
  BY <1>1
<1>4. BaseInv /\ (Overlap = {} => PortInv) /\ TableInv /\ [Next]_vars => TableInv'
  BY TableStep
<1> QED BY <1>2, <1>3, <1>4, BaseInvAlways, TableInit, PTL DEF Spec

\* mmce_fs_find_free_handle, open and dopen: as long as no two opens overlap,
\* two open files have a slot and a descriptor each, whatever cards answer.
THEOREM SlotsAreNotShared == ASSUME Safe PROVE Spec => []HandlesDistinct
<1>1. TableInv => HandlesDistinct
  BY DEF TableInv
<1> QED BY <1>1, TableAlways, PTL

\* The commands by handle: the descriptor sent is one the card has open for the
\* caller's file, although it was read before the lock was taken and the calls
\* that came first may have closed files of the same card.
THEOREM CommandsReachTheirFile == ASSUME Safe PROVE Spec => []RightFile
<1>1. BaseInv /\ TableInv => RightFile
  <2> SUFFICES ASSUME BaseInv, TableInv, NEW t \in Threads, pc[t] = "send",
                      call[t].op \in ByFd
               PROVE  /\ call[t].fd \in CardFds
                      /\ held[call[t].unit][call[t].fd] = call[t].file
    BY DEF RightFile
  <2>1. call[t].file \in OpenFiles /\ handle[call[t].file].unit = call[t].unit
    BY KindOf
  <2>2. call[t].fd = FdOf(call[t].file)
    BY DEF TableInv, FdTaken, Late
  <2>3. FdOf(call[t].file) \in CardFds
    <3>1. fds \in [Slots -> CardFds \cup {Free}] /\ handle[call[t].file].privdata \in Slots
      BY <2>1, BaseType DEF BaseInv, OpenInv, OpenFiles
    <3> QED BY <2>1, <3>1 DEF TableInv, SlotsUsed, FdOf
  <2>4. ~Closing(call[t].file)
    <3> SUFFICES ASSUME NEW s \in Threads, call[s].file = call[t].file,
                        pc[s] \in {"succeed", "fail", "succeeded", "failed"}
                 PROVE  FALSE
      BY DEF Closing
    <3> QED BY <2>1, OwnFile DEF OpenFiles
  <2> QED BY <2>1, <2>2, <2>3, <2>4 DEF TableInv, CardHolds
<1> QED BY <1>1, BaseInvAlways, TableAlways, PTL

-----------------------------------------------------------------------------
(* What is left between calls *)

Done == {"succeed", "succeeded"}

SlotsLeft ==
    \A s \in Slots : fds[s] \notin Reserved \cup {Free} =>
        \E f \in OpenFiles : handle[f].privdata = s

\* The descriptor x of the card u is that of an open file, or of an open that
\* is on its way back.
Stands(f, u, x) == f \in OpenFiles /\ handle[f].unit = u /\ FdOf(f) = x
Arriving(f, u, x) ==
    \E t \in Threads : /\ pc[t] \in Done /\ call[t].op \in Opens
                       /\ call[t].file = f /\ call[t].unit = u /\ call[t].fd = x

CardsLeft ==
    \A u \in Units, x \in CardFds \ Reserved, f \in Files :
        held[u][x] = f => Stands(f, u, x) \/ Arriving(f, u, x)

\* A close never fails, and after it the card does not have the file.
ClosesDone ==
    \A t \in Threads : call[t].op \in Closes =>
        /\ pc[t] \notin {"fail", "failed"}
        /\ pc[t] \in Done => held[call[t].unit][call[t].fd] = NoFile

\* With one card the port is its own from the first open that succeeds.
PortFound ==
    \A u : Units = {u} =>
        \/ port = PortOf(u)
        \/ OpenFiles = {} /\ \A t \in Threads : pc[t] \in Done => call[t].op \notin Opens

LeftInv == SlotsLeft /\ CardsLeft /\ ClosesDone /\ PortFound

\* A step of t that changes neither the open files, nor the table, nor a card.
Keeps(t) ==
    /\ \A s \in Threads : s # t => pc'[s] = pc[s] /\ call'[s] = call[s]
    /\ OpenFiles' = OpenFiles /\ \A f \in OpenFiles : handle'[f] = handle[f]
    /\ UNCHANGED <<fds, held>>
    /\ \/ port' = port
       \/ port' = PortOf(call[t].unit) /\ call[t].unit \in Units
    /\ pc[t] \in Done /\ call[t].op \in Opens => pc'[t] \in Done /\ call'[t] = call[t]
    /\ pc'[t] \in Done /\ call'[t].op \in Opens \cup Closes =>
          pc[t] \in Done /\ call'[t] = call[t]
    /\ pc'[t] \in {"fail", "failed"} => call'[t].op \notin Closes

LEMMA LeftKept ==
    ASSUME BaseInv, LeftInv, NEW t \in Threads, Keeps(t)
    PROVE  LeftInv'
<1> USE DEF LeftInv, Keeps
<1>1. \A f \in OpenFiles : FdOf(f)' = FdOf(f)
  BY DEF FdOf
<1>2. SlotsLeft'
  BY DEF SlotsLeft
<1>3. CardsLeft'
  <2> SUFFICES ASSUME NEW u \in Units, NEW x \in CardFds \ Reserved, NEW f \in Files,
                      held[u][x] = f
               PROVE  Stands(f, u, x)' \/ Arriving(f, u, x)'
    BY DEF CardsLeft
  <2>1. Stands(f, u, x) => Stands(f, u, x)'
    BY <1>1 DEF Stands
  <2>2. Arriving(f, u, x) => Arriving(f, u, x)'
    BY DEF Arriving
  <2> QED BY <2>1, <2>2 DEF CardsLeft
<1>4. ClosesDone'
  BY DEF ClosesDone
<1>5. PortFound'
  <2> SUFFICES ASSUME NEW u, Units = {u}, port' # PortOf(u)
               PROVE  /\ OpenFiles' = {}
                      /\ \A s \in Threads : pc'[s] \in Done => call'[s].op \notin Opens
    BY DEF PortFound
  <2>1. port # PortOf(u)
    OBVIOUS
  <2>2. OpenFiles = {} /\ \A s \in Threads : pc[s] \in Done => call[s].op \notin Opens
    BY <2>1 DEF PortFound
  <2> QED BY <2>2
<1> QED BY <1>2, <1>3, <1>4, <1>5

\* A close is over: its file is closed, and its slot free unless reserved.
LEMMA LeftCloses ==
    ASSUME BaseInv, TableInv, LeftInv, NEW t \in Threads, Frame(t), pc'[t] = "idle",
           call[t].op \in Closes, handle'[call[t].file].how = "closed",
           UNCHANGED <<held, port>>,
           \/ fds' = fds /\ FdOf(call[t].file) \in Reserved
           \/ /\ fds' = [fds EXCEPT ![handle[call[t].file].privdata] = Free]
              /\ pc[t] \in Done
    PROVE  LeftInv'
<1> USE DEF LeftInv
<1>t. /\ handle \in [Files -> HandleSet] /\ fds \in [Slots -> CardFds \cup {Free}]
  BY BaseType DEF BaseInv
<1>1. /\ pc[t] # "idle"
      /\ \A s \in Threads : s # t => pc'[s] = pc[s] /\ call'[s] = call[s]
      /\ \A f \in Files : f # call[t].file => handle'[f] = handle[f]
  BY DEF Frame
<1>2. PICK f \in OpenFiles : f = call[t].file
  BY <1>1, KindOf
<1>3. f \in Files /\ handle[f].privdata \in Slots /\ handle[f].unit = call[t].unit
  BY <1>1, <1>2, KindOf DEF OpenFiles, BaseInv, OpenInv
<1>4. OpenFiles' = OpenFiles \ {f} /\ \A g \in OpenFiles' : handle'[g] = handle[g]
  BY <1>1, <1>2 DEF OpenFiles
<1>5. \A g \in OpenFiles' : handle[g].privdata \in Slots /\ handle[g].privdata # handle[f].privdata
  BY <1>2, <1>4 DEF TableInv, HandlesDistinct, BaseInv, OpenInv, OpenFiles
<1>6. \A g \in OpenFiles' : FdOf(g)' = FdOf(g)
  BY <1>t, <1>2, <1>3, <1>4, <1>5 DEF FdOf
<1>7. SlotsLeft'
  <2> SUFFICES ASSUME NEW s \in Slots, fds'[s] \notin Reserved \cup {Free}
               PROVE  \E g \in OpenFiles' : handle'[g].privdata = s
    BY DEF SlotsLeft
  <2>1. s # handle[f].privdata /\ fds[s] = fds'[s]
    BY <1>t, <1>2, <1>3 DEF FdOf
  <2>2. PICK g \in OpenFiles : handle[g].privdata = s
    BY <2>1 DEF SlotsLeft
  <2> QED BY <1>4, <2>1, <2>2
<1>8. CardsLeft'
  <2> SUFFICES ASSUME NEW u \in Units, NEW x \in CardFds \ Reserved, NEW g \in Files,
                      held[u][x] = g
               PROVE  Stands(g, u, x)' \/ Arriving(g, u, x)'
    BY DEF CardsLeft
  <2>2. Arriving(g, u, x) => Arriving(g, u, x)'
    BY <1>1, Facts DEF Arriving
  <2>3. Stands(g, u, x) /\ g # f => Stands(g, u, x)'
    BY <1>4, <1>6 DEF Stands
  <2>4. ~Stands(f, u, x) \/ g # f
    <3>1. CASE FdOf(f) \in Reserved
      BY <3>1 DEF Stands
    <3>2. CASE pc[t] \in Done
      <4>1. held[call[t].unit][call[t].fd] = NoFile
        BY <3>2 DEF ClosesDone
      <4>2. call[t].fd = FdOf(f)
        BY <1>2, <3>2, Facts DEF TableInv, FdTaken, Late, Done
      <4> QED BY <1>3, <4>1, <4>2, NoneAssumption DEF Stands
    <3> QED BY <1>2, <3>1, <3>2
  <2> QED BY <2>2, <2>3, <2>4 DEF CardsLeft
<1>9. ClosesDone'
  BY <1>1 DEF ClosesDone, Done
<1>10. PortFound'
  <2>1. \A s \in Threads : pc'[s] \in Done => pc[s] \in Done /\ call'[s] = call[s]
    BY <1>1 DEF Done
  <2> QED BY <1>2, <2>1 DEF PortFound
<1> QED BY <1>7, <1>8, <1>9, <1>10

\* An open is over: the card's descriptor is in the table.
LEMMA LeftOpens ==
    ASSUME BaseInv, Safe, TableInv, LeftInv, NEW t \in Threads, FinishOpen(t),
           pc[t] = "succeeded"
    PROVE  LeftInv'
<1> USE DEF LeftInv
<1>t. /\ pc \in [Threads -> Places] /\ call \in [Threads -> CallSet]
      /\ handle \in [Files -> HandleSet] /\ fds \in [Slots -> CardFds \cup {Free}]
  BY BaseType DEF BaseInv
<1>f. PICK f, p, h : /\ f = call[t].file /\ p = handle[f].privdata
                     /\ h = [handle[f] EXCEPT !.how = call[t].op, !.unit = call[t].unit]
  OBVIOUS
<1>1. /\ call[t].op \in Opens
      /\ fds' = [fds EXCEPT ![p] = call[t].fd]
      /\ Return(t, h) /\ UNCHANGED <<held, port>>
  BY <1>f DEF FinishOpen
<1>2. f \in Files \ OpenFiles /\ p \in Slots
  BY <1>f, <1>1, KindOf DEF BaseInv, CallsInv, CallOk, Late
<1>3. fds[p] = Free
  BY <1>f, <1>1 DEF TableInv, SlotFree, Late, FdOf
<1>4. h.how \in Opens /\ h.unit = call[t].unit /\ h.privdata = p
  BY <1>t, <1>f, <1>1, <1>2 DEF HandleSet
<1>5. handle'[f] = h /\ \A g \in Files : g # f => handle'[g] = handle[g]
  BY <1>t, <1>f, <1>1, <1>2 DEF Return
<1>6. OpenFiles' = OpenFiles \cup {f} /\ \A g \in OpenFiles : handle'[g] = handle[g]
  BY <1>2, <1>4, <1>5, Facts DEF OpenFiles
<1>7. FdOf(f)' = call[t].fd
  BY <1>t, <1>1, <1>2, <1>4, <1>5 DEF FdOf
<1>8. \A g \in OpenFiles : FdOf(g)' = FdOf(g)
  <2> SUFFICES ASSUME NEW g \in OpenFiles PROVE FdOf(g)' = FdOf(g)
    OBVIOUS
  <2>1. handle[g].privdata # p /\ handle[g].privdata \in Slots
    BY <1>3 DEF TableInv, SlotsUsed, FdOf, BaseInv, OpenInv, OpenFiles
  <2> QED BY <1>t, <1>1, <1>2, <1>6, <2>1 DEF FdOf
<1>9. \A s \in Threads : pc'[s] = "idle"
  <2>1. \A s \in Threads : s # t => pc[s] = "idle"
    BY <1>1, OpensAlone
  <2> QED BY <1>t, <1>1, <2>1 DEF Return
<1>10. SlotsLeft'
  <2> SUFFICES ASSUME NEW s \in Slots, fds'[s] \notin Reserved \cup {Free}
               PROVE  \E g \in OpenFiles' : handle'[g].privdata = s
    BY DEF SlotsLeft
  <2>1. CASE s = p
    BY <1>4, <1>5, <1>6, <2>1
  <2>2. CASE s # p
    <3>1. fds[s] = fds'[s]
      BY <1>t, <1>1, <2>2
    <3>2. PICK g \in OpenFiles : handle[g].privdata = s
      BY <3>1 DEF SlotsLeft
    <3> QED BY <1>6, <3>2
  <2> QED BY <2>1, <2>2
<1>11. CardsLeft'
  <2> SUFFICES ASSUME NEW u \in Units, NEW x \in CardFds \ Reserved, NEW g \in Files,
                      held[u][x] = g
               PROVE  Stands(g, u, x)' \/ Arriving(g, u, x)'
    BY <1>1 DEF CardsLeft
  <2>2. Stands(g, u, x) => Stands(g, u, x)'
    BY <1>6, <1>8 DEF Stands
  <2>3. Arriving(g, u, x) => Stands(g, u, x)'
    <3> SUFFICES ASSUME NEW s \in Threads, pc[s] \in Done, call[s].op \in Opens,
                        call[s].file = g, call[s].unit = u, call[s].fd = x
                 PROVE  Stands(g, u, x)'
      BY DEF Arriving
    <3>1. s = t
      BY <1>1, OpensAlone DEF Done
    <3> QED BY <1>f, <1>4, <1>5, <1>6, <1>7, <3>1 DEF Stands
  <2> QED BY <2>2, <2>3 DEF CardsLeft
<1>12. ClosesDone'
  BY <1>9 DEF ClosesDone, Done
<1>13. PortFound'
  BY <1>1 DEF PortFound, Done
<1> QED BY <1>10, <1>11, <1>12, <1>13

\* A card's answer: what it opens is on its way to the table, what it closes or
\* drops is in nobody's hands.
LEMMA LeftAnswered ==
    ASSUME BaseInv, Safe, Overlap = {} => PortInv, TableInv, LeftInv, NEW t \in Threads,
           Answered(t)
    PROVE  LeftInv'
<1> USE DEF LeftInv
<1>t. /\ TypeOK /\ pc \in [Threads -> Places] /\ call \in [Threads -> CallSet]
      /\ held \in [Units -> [CardFds -> Files \cup {NoFile}]]
      /\ handle \in [Files -> HandleSet] /\ fds \in [Slots -> CardFds \cup {Free}]
  BY BaseType DEF BaseInv
<1>1. PICK u \in Units : \E a \in CardActs(t, u) : Answer(t, u, a)
  BY <1>t, AnswerIs
<1>2. PICK a \in CardActs(t, u) : Answer(t, u, a)
  BY <1>1
<1>3. /\ pc[t] = "send" /\ u = call[t].unit
      /\ held' = [held EXCEPT ![u] = a.held]
      /\ UNCHANGED <<handle, fds, port>>
      /\ port = PortOf(u)
  BY <1>2, Reach DEF Answer, InPort
<1>4. /\ pc'[t] = (IF call[t].sent + 1 = Packets[call[t].op] THEN "succeed" ELSE "send")
      /\ call'[t].op = call[t].op /\ call'[t].file = call[t].file
      /\ call'[t].unit = call[t].unit /\ call'[t].fd = a.fd
      /\ \A s \in Threads : s # t => pc'[s] = pc[s] /\ call'[s] = call[s]
  BY <1>t, <1>2 DEF CallSet, Answer
<1>5. Same(t, u, a) \/ GivesFd(t, u, a) \/ TakesFd(t, u, a) \/ TakesAll(t, u, a)
  BY <1>t, CardCases
<1>6. OpenFiles' = OpenFiles /\ \A g : FdOf(g)' = FdOf(g)
  BY <1>3 DEF OpenFiles, FdOf
<1>7. SlotsLeft'
  BY <1>3, <1>6 DEF SlotsLeft
<1>8. \A f, v, x : /\ Stands(f, v, x) => Stands(f, v, x)'
                   /\ Arriving(f, v, x) => Arriving(f, v, x)'
  <2>1. \A f, v, x : Stands(f, v, x) => Stands(f, v, x)'
    BY <1>3, <1>6 DEF Stands
  <2>2. \A f, v, x : Arriving(f, v, x) => Arriving(f, v, x)'
    BY <1>3, <1>4 DEF Arriving, Done
  <2> QED BY <2>1, <2>2
<1>9. CardsLeft'
  <2> SUFFICES ASSUME NEW v \in Units, NEW x \in CardFds \ Reserved, NEW f \in Files,
                      held'[v][x] = f
               PROVE  Stands(f, v, x)' \/ Arriving(f, v, x)'
    BY DEF CardsLeft
  <2>1. CASE held[v][x] = f
    BY <1>8, <2>1 DEF CardsLeft
  <2>2. CASE held[v][x] # f
    <3>1. v = u /\ held'[u] = a.held
      BY <1>t, <1>3, <2>2
    <3>2. GivesFd(t, u, a) /\ x = a.fd /\ f = call[t].file
      BY <1>t, <1>5, <2>2, <3>1, NoneAssumption DEF Same, GivesFd, TakesFd, TakesAll
    <3>3. pc'[t] = "succeed" /\ call[t].op \in Opens
      BY <1>4, <3>2, Facts DEF GivesFd
    <3> QED BY <1>3, <1>4, <3>1, <3>2, <3>3 DEF Arriving, Done
  <2> QED BY <2>1, <2>2
<1>10. ClosesDone'
  <2> SUFFICES ASSUME NEW s \in Threads, call'[s].op \in Closes
               PROVE  /\ pc'[s] \notin {"fail", "failed"}
                      /\ pc'[s] \in Done => held'[call'[s].unit][call'[s].fd] = NoFile
    BY DEF ClosesDone
  <2>1. CASE s = t
    <3>1. pc'[t] \notin {"fail", "failed"} /\ call[t].op \in Closes
      BY <1>4, <2>1
    <3>2. SUFFICES ASSUME pc'[t] \in Done PROVE held'[u][a.fd] = NoFile
      BY <1>3, <1>4, <2>1, <3>1
    <3>3. call[t].sent = 0
      BY <1>t, <1>4, <3>1, <3>2, Facts DEF Done, CallSet
    <3>4. TakesFd(t, u, a)
      BY <1>5, <3>1, <3>3, Facts DEF Same, GivesFd, TakesAll, EffectPacket, Closes, Opens
    <3>5. a.fd \in CardFds
      <4>1. call[t].file \in OpenFiles /\ call[t].op \in ByFd /\ pc[t] # "idle"
        BY <1>3, <3>1, KindOf
      <4>2. call[t].fd = FdOf(call[t].file)
        BY <1>3, <4>1 DEF TableInv, FdTaken, Late
      <4>3. handle[call[t].file].privdata \in Slots
        BY <4>1 DEF BaseInv, OpenInv, OpenFiles
      <4> QED BY <1>t, <3>4, <4>1, <4>2, <4>3 DEF TableInv, SlotsUsed, FdOf, TakesFd
    <3> QED BY <1>t, <1>3, <3>4, <3>5 DEF TakesFd
  <2>2. CASE s # t
    <3>1. /\ pc'[s] = pc[s] /\ call'[s] = call[s] /\ call[s].op \in Closes
          /\ pc[s] \notin {"fail", "failed"}
      BY <1>4, <2>2 DEF ClosesDone
    <3>2. SUFFICES ASSUME pc[s] \in Done
                   PROVE  held'[call[s].unit][call[s].fd] = NoFile
      BY <3>1
    <3>3. held[call[s].unit][call[s].fd] = NoFile /\ call[s].unit \in Units
      BY <3>1, <3>2, KindOf DEF ClosesDone, Done
    <3>4. call[s].fd \in CardFds
      <4>1. call[s].file \in OpenFiles /\ call[s].op \in ByFd /\ pc[s] \in Late
        BY <3>1, <3>2, KindOf DEF Done, Late
      <4>2. call[s].fd = FdOf(call[s].file)
        BY <4>1 DEF TableInv, FdTaken
      <4>3. handle[call[s].file].privdata \in Slots
        BY <4>1 DEF BaseInv, OpenInv, OpenFiles
      <4> QED BY <1>t, <4>1, <4>2, <4>3 DEF TableInv, SlotsUsed, FdOf
    <3>5. ~GivesFd(t, u, a)
      BY <1>3, <2>2, <3>2, OpensAlone DEF GivesFd, Done
    <3> QED BY <1>t, <1>3, <1>5, <3>3, <3>4, <3>5 DEF Same, TakesFd, TakesAll
  <2> QED BY <2>1, <2>2
<1>11. PortFound'
  BY <1>3 DEF PortFound
<1> QED BY <1>7, <1>9, <1>10, <1>11

\* With no packet lost a close is not refused, and the card is there to answer.
LEMMA LeftFails ==
    ASSUME BaseInv, Safe, ~CardFaults, Overlap = {} => PortInv, TableInv, LeftInv,
           NEW t \in Threads, Refused(t) \/ Lost(t)
    PROVE  LeftInv'
<1>t. pc \in [Threads -> Places]
  BY BaseType DEF BaseInv
<1>1. /\ pc[t] = "send" /\ pc[t] # "idle"
      /\ pc' = [pc EXCEPT ![t] = "fail"]
      /\ UNCHANGED <<call, handle, fds, port, held>>
  BY DEF Refused, CardRefuses, Lost, Fails
<1>2. pc'[t] = "fail" /\ \A s \in Threads : s # t => pc'[s] = pc[s]
  BY <1>t, <1>1
<1>3. call[t].op \notin Closes
  <2> SUFFICES ASSUME call[t].op \in Closes PROVE FALSE
    OBVIOUS
  <2>1. Lost(t) /\ InPort = {}
    BY DEF Refused, CardRefuses, Lost
  <2>2. call[t].unit \in Units /\ call[t].file \in OpenFiles
    BY <1>1, KindOf
  <2>3. port = PortOf(call[t].unit)
    <3>1. CASE Overlap = {}
      BY <1>1, <3>1 DEF PortInv
    <3>2. CASE \E u : Units = {u}
      BY <2>2, <3>2 DEF LeftInv, PortFound
    <3> QED BY <3>1, <3>2 DEF Safe
  <2> QED BY <2>1, <2>2, <2>3 DEF InPort
<1>4. OpenFiles' = OpenFiles
  BY <1>1 DEF OpenFiles
<1>5. pc[t] \notin Done /\ pc'[t] \notin Done /\ call'[t].op \notin Closes
  BY <1>1, <1>2, <1>3 DEF Done
<1>6. \A f \in OpenFiles : handle'[f] = handle[f]
  BY <1>1
<1>7. \A s \in Threads : s # t => pc'[s] = pc[s] /\ call'[s] = call[s]
  BY <1>1, <1>2
<1>k. Keeps(t)
  BY <1>1, <1>4, <1>5, <1>6, <1>7 DEF Keeps
<1> QED BY <1>k, LeftKept

\* The steps that change nothing of what is left.
LEMMA LeftQuiet ==
    ASSUME BaseInv, LeftInv, NEW t \in Threads,
           \/ UpdateUnit(t) \/ SetPort(t) \/ FindHandle(t) \/ PackName(t) \/ NoExchange(t)
           \/ Lock(t) \/ Unlock(t) \/ Finish(t)
           \/ FinishOpen(t) /\ pc[t] = "failed"
    PROVE  LeftInv'
<1>t. /\ pc \in [Threads -> Places] /\ call \in [Threads -> CallSet]
      /\ handle \in [Files -> HandleSet]
  BY BaseType DEF BaseInv
<1>1. Frame(t)
  BY BasePrepare, BaseExchange, BaseFinish
<1>2. /\ pc[t] # "idle" /\ call[t].unit \in Units
      /\ \A s \in Threads : s # t => pc'[s] = pc[s] /\ call'[s] = call[s]
      /\ \A f \in Files : f # call[t].file => handle'[f] = handle[f]
  BY <1>1, KindOf DEF Frame
<1>3. CASE UpdateUnit(t) \/ SetPort(t) \/ PackName(t) \/ Lock(t)
  <2>1. /\ UNCHANGED <<call, handle, fds, held>>
        /\ port' = port \/ port' = PortOf(call[t].unit)
        /\ pc[t] \notin Done /\ pc'[t] \notin Done \cup {"fail", "failed"}
    BY <1>t, <1>3 DEF UpdateUnit, SetPort, PackName, Lock, Done
  <2>2. OpenFiles' = OpenFiles
    BY <2>1 DEF OpenFiles
  <2>k. Keeps(t)
    BY <1>2, <2>1, <2>2 DEF Keeps
  <2> QED BY <2>k, LeftKept
<1>4. CASE Unlock(t)
  <2>1. /\ UNCHANGED <<call, handle, fds, held, port>>
        /\ \/ pc[t] = "succeed" /\ pc'[t] = "succeeded"
           \/ pc[t] = "fail" /\ pc'[t] = "failed"
    BY <1>t, <1>4 DEF Unlock
  <2>2. OpenFiles' = OpenFiles
    BY <2>1 DEF OpenFiles
  <2>3. pc[t] = "fail" => call[t].op \notin Closes
    BY DEF LeftInv, ClosesDone
  <2>k. Keeps(t)
    BY <1>2, <2>1, <2>2, <2>3 DEF Keeps, Done
  <2> QED BY <2>k, LeftKept
<1>5. CASE NoExchange(t) \/ Finish(t)
  <2>1. /\ UNCHANGED <<handle, fds, held, port>> /\ pc'[t] = "idle"
        /\ call[t].op \notin Opens
    BY <1>t, <1>5, Facts DEF NoExchange, Finish
  <2>2. OpenFiles' = OpenFiles
    BY <2>1 DEF OpenFiles
  <2>k. Keeps(t)
    BY <1>2, <2>1, <2>2 DEF Keeps, Done
  <2> QED BY <2>k, LeftKept
<1>6. CASE FindHandle(t) \/ (FinishOpen(t) /\ pc[t] = "failed")
  <2>1. /\ UNCHANGED <<fds, held, port>> /\ call[t].op \in Opens
        /\ pc[t] \notin Done /\ pc'[t] \in {"idle", "lock"}
    BY <1>t, <1>6 DEF FindHandle, FinishOpen, Return, Done
  <2>2. call[t].file \in Files \ OpenFiles
    BY <1>2, <2>1, KindOf
  <2>3. handle'[call[t].file].how = "closed"
    <3>1. CASE Return(t, NoHandle)
      BY <2>2, <3>1, NoneTypes DEF Return
    <3>2. CASE ~Return(t, NoHandle)
      <4>1. handle' = [handle EXCEPT ![call[t].file].privdata = Min(FreeSlots)]
        BY <1>6, <3>2 DEF FindHandle, FinishOpen
      <4> QED BY <1>t, <2>2, <4>1 DEF OpenFiles, HandleSet
    <3> QED BY <3>1, <3>2
  <2>4. OpenFiles' = OpenFiles /\ \A f \in OpenFiles : handle'[f] = handle[f]
    BY <1>2, <2>2, <2>3 DEF OpenFiles
  <2>k. Keeps(t)
    BY <1>2, <2>1, <2>4 DEF Keeps, Done
  <2> QED BY <2>k, LeftKept
<1> QED BY <1>3, <1>4, <1>5, <1>6

LEMMA LeftStep ==
    /\ BaseInv /\ Safe /\ ~CardFaults /\ (Overlap = {} => PortInv)
    /\ TableInv /\ LeftInv /\ [Next]_vars
    => LeftInv'
<1> SUFFICES ASSUME BaseInv, Safe, ~CardFaults, Overlap = {} => PortInv, TableInv, LeftInv,
                    [Next]_vars
             PROVE  LeftInv'
  OBVIOUS
<1>1. CASE UNCHANGED vars
  <2>1. UNCHANGED <<pc, call, handle, fds, last_unit, port, lock, held>>
    BY <1>1 DEF vars
  <2>2. OpenFiles' = OpenFiles
    BY <2>1 DEF OpenFiles
  <2>3. SlotsLeft' /\ ClosesDone' /\ PortFound'
    BY <2>1, <2>2 DEF LeftInv, SlotsLeft, ClosesDone, PortFound
  <2>4. CardsLeft'
    BY <2>1, <2>2 DEF LeftInv, CardsLeft, Stands, Arriving, FdOf
  <2> QED BY <2>3, <2>4 DEF LeftInv
<1>2. ASSUME NEW t \in Threads, NEW c \in Ops, NEW u \in Units,
             NEW f \in Files \cup {NoFile}, Call(t, c, u, f)
      PROVE  LeftInv'
  <2>1. /\ pc[t] = "idle" /\ pc'[t] = "update"
        /\ \A s \in Threads : s # t => pc'[s] = pc[s] /\ call'[s] = call[s]
        /\ UNCHANGED <<handle, fds, held, port>>
    BY <1>2, BaseType DEF Call, BaseInv
  <2>2. OpenFiles' = OpenFiles
    BY <2>1 DEF OpenFiles
  <2>3. pc[t] \notin Done /\ pc'[t] \notin Done \cup {"fail", "failed"}
    BY <2>1 DEF Done
  <2>4. \A g \in OpenFiles : handle'[g] = handle[g]
    BY <2>1
  <2>k. Keeps(t)
    BY <2>1, <2>2, <2>3, <2>4 DEF Keeps
  <2> QED BY <2>k, LeftKept
<1>3. ASSUME NEW t \in Threads, PackFd(t) PROVE LeftInv'
  <2>t. /\ pc \in [Threads -> Places] /\ call \in [Threads -> CallSet]
    BY BaseType DEF BaseInv
  <2>1. /\ Frame(t) /\ pc[t] = "prepare" /\ call[t].op \in ByFd
        /\ UNCHANGED <<fds, held, port>>
    BY <1>3, BasePrepare DEF PackFd
  <2>2. call[t].file \in OpenFiles
    BY <2>1, KindOf
  <2>3. CASE call[t].op = "close" /\ FdOf(call[t].file) \in Reserved
    <3>1. Return(t, NoHandle)
      BY <1>3, <2>3 DEF PackFd, FdOf
    <3>2. pc'[t] = "idle" /\ handle'[call[t].file].how = "closed"
      BY <2>t, <2>2, <3>1, NoneTypes DEF Return, OpenFiles
    <3>3. call[t].op \in Closes
      BY <2>3 DEF Closes
    <3> QED BY <2>1, <2>3, <3>2, <3>3, LeftCloses
  <2>4. CASE ~(call[t].op = "close" /\ FdOf(call[t].file) \in Reserved)
    <3>1. pc' = [pc EXCEPT ![t] = "lock"] /\ UNCHANGED handle
      BY <1>3, <2>4 DEF PackFd, FdOf
    <3>2. /\ pc'[t] = "lock" /\ OpenFiles' = OpenFiles
          /\ \A s \in Threads : s # t => pc'[s] = pc[s] /\ call'[s] = call[s]
      BY <2>t, <2>1, <3>1 DEF OpenFiles, Frame
    <3>3. pc[t] \notin Done /\ pc'[t] \notin Done \cup {"fail", "failed"}
      BY <2>1, <3>2 DEF Done
    <3>4. \A g \in OpenFiles : handle'[g] = handle[g]
      BY <3>1
    <3>k. Keeps(t)
      BY <2>1, <3>2, <3>3, <3>4 DEF Keeps
    <3> QED BY <3>k, LeftKept
  <2> QED BY <2>3, <2>4
<1>4. ASSUME NEW t \in Threads, FinishClose(t) PROVE LeftInv'
  <2>1. Frame(t) /\ pc'[t] = "idle" /\ Return(t, NoHandle) /\ UNCHANGED <<held, port>>
        /\ call[t].op \in Closes /\ pc[t] \in {"succeeded", "failed"} /\ pc[t] # "idle"
    BY <1>4, BaseFinish DEF FinishClose
  <2>2. pc[t] = "succeeded"
    BY <2>1 DEF LeftInv, ClosesDone
  <2>3. fds' = [fds EXCEPT ![handle[call[t].file].privdata] = Free]
    BY <1>4, <2>2 DEF FinishClose
  <2>4. call[t].file \in OpenFiles
    BY <2>1, KindOf
  <2>5. handle'[call[t].file].how = "closed"
    BY <2>1, <2>4, NoneTypes DEF Return, OpenFiles
  <2> QED BY <2>1, <2>2, <2>3, <2>5, LeftCloses DEF Done
<1>5. ASSUME NEW t \in Threads, FinishOpen(t) PROVE LeftInv'
  BY <1>5, LeftOpens, LeftQuiet DEF FinishOpen
<1>6. ASSUME NEW t \in Threads, Handler(t) \/ Lock(t) PROVE LeftInv'
  BY <1>3, <1>4, <1>5, <1>6, LeftQuiet, LeftAnswered, LeftFails DEF Handler
<1> QED BY <1>1, <1>2, <1>6 DEF Next

LEMMA LeftInit == Init => LeftInv
<1> SUFFICES ASSUME Init PROVE LeftInv
  OBVIOUS
<1>1. OpenFiles = {} /\ \A t \in Threads : pc[t] = "idle"
  BY DEF Init, OpenFiles, NoHandle
<1>2. /\ \A s \in Slots : fds[s] = Free
      /\ \A u \in Units : \A x \in CardFds : held[u][x] = NoFile
  BY DEF Init
<1>3. SlotsLeft /\ CardsLeft
  BY <1>2, NoneAssumption DEF SlotsLeft, CardsLeft
<1>4. ClosesDone /\ PortFound
  BY <1>1 DEF ClosesDone, PortFound, Done
<1> QED BY <1>3, <1>4 DEF LeftInv

\* close, dclose and what they leave: with cards that lose no packet and refuse
\* no close, the only slots and descriptors left between calls are those of open
\* files and of reserved descriptors.
THEOREM NothingIsLeft == ASSUME Safe, ~CardFaults PROVE Spec => []NothingLeft
<1>1. BaseInv /\ TableInv /\ LeftInv => NothingLeft
  <2> SUFFICES ASSUME BaseInv, TableInv, LeftInv, \A t \in Threads : pc[t] = "idle"
               PROVE  /\ {s \in Slots : fds[s] \notin Reserved \cup {Free}} =
                            {handle[f].privdata :
                                f \in {g \in OpenFiles : FdOf(g) \notin Reserved}}
                      /\ \A u \in Units :
                            {held[u][x] : x \in CardFds \ Reserved} \ {NoFile} =
                              {f \in OpenFiles : handle[f].unit = u /\ FdOf(f) \notin Reserved}
    BY DEF NothingLeft, FdOf
  <2>t. handle \in [Files -> HandleSet] /\ fds \in [Slots -> CardFds \cup {Free}]
        /\ held \in [Units -> [CardFds -> Files \cup {NoFile}]]
    BY BaseType DEF BaseInv
  <2>1. \A f \in OpenFiles : /\ f # NoFile /\ handle[f].privdata \in Slots
                             /\ FdOf(f) \in CardFds /\ FdOf(f) # Free
                             /\ held[handle[f].unit][FdOf(f)] = f
    <3> SUFFICES ASSUME NEW f \in OpenFiles
                 PROVE  /\ f # NoFile /\ handle[f].privdata \in Slots
                        /\ FdOf(f) \in CardFds /\ FdOf(f) # Free
                        /\ held[handle[f].unit][FdOf(f)] = f
      OBVIOUS
    <3>1. f # NoFile /\ handle[f].privdata \in Slots
      BY NoneAssumption DEF OpenFiles, BaseInv, OpenInv
    <3>2. FdOf(f) \in CardFds /\ FdOf(f) # Free
      BY <2>t, <3>1 DEF TableInv, SlotsUsed, FdOf
    <3>3. ~Closing(f)
      BY DEF Closing
    <3> QED BY <3>1, <3>2, <3>3 DEF TableInv, CardHolds
  <2>2. \A s \in Slots : fds[s] \notin Reserved \cup {Free} =>
           \E f \in OpenFiles : handle[f].privdata = s
    BY DEF LeftInv, SlotsLeft
  <2>3. \A u \in Units, x \in CardFds \ Reserved, f \in Files :
           held[u][x] = f => Stands(f, u, x)
    BY DEF LeftInv, CardsLeft, Arriving, Done
  <2>4. {s \in Slots : fds[s] \notin Reserved \cup {Free}} =
           {handle[f].privdata : f \in {g \in OpenFiles : FdOf(g) \notin Reserved}}
    BY <2>1, <2>2 DEF FdOf
  <2>5. ASSUME NEW u \in Units
        PROVE  {held[u][x] : x \in CardFds \ Reserved} \ {NoFile} =
                  {f \in OpenFiles : handle[f].unit = u /\ FdOf(f) \notin Reserved}
    BY <2>t, <2>1, <2>3 DEF Stands
  <2> QED BY <2>4, <2>5
<1>2. Init => (Overlap = {} => PortInv)
  BY DEF Init, PortInv
<1>3. (Overlap = {} => PortInv) /\ BaseInv /\ [Next]_vars => (Overlap = {} => PortInv)'
  BY PortStep
<1>4. /\ BaseInv /\ (Overlap = {} => PortInv) /\ TableInv /\ LeftInv /\ [Next]_vars
      => LeftInv'
  BY LeftStep
<1> QED BY <1>1, <1>2, <1>3, <1>4, BaseInvAlways, TableAlways, LeftInit, PTL DEF Spec

=============================================================================
