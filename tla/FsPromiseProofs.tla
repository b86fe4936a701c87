--------------------------- MODULE FsPromiseProofs ---------------------------
(***************************************************************************)
(* What FsPromise comes to, for any callers, cards and files.              *)
(***************************************************************************)
EXTENDS FsPromise, TLAPS

States == {"idle", "open", "done", "failed"}
Owners == Files \cup {NoFile}
Given == CardFds \cup {255}

TypeInv ==
    /\ asks \in [Threads -> [state : States, op : Ops \cup {"devctl"}, file : Owners,
                             unit : Units \cup {0}, fd : Given]]
    /\ owns \in [Files -> [how : Opens \cup {"closed"}, unit : Units \cup {0}, fd : Given]]
    /\ held \in [Units -> [CardFds -> Owners]]

\* What is known of a call under way.
AskOk(t) ==
    LET a == asks[t]
    IN  /\ a.unit \in Units
        /\ a.op \in Opens => a.file \in Files /\ owns[a.file].how = "closed"
        /\ a.op \in Opens /\ a.state = "done" =>
              a.fd \in CardFds /\ held[a.unit][a.fd] = a.file
        /\ a.op \in ByFd =>
              a.file \in Files /\ owns[a.file].how # "closed" /\ owns[a.file].unit = a.unit
        /\ a.op \notin Opens \cup ByFd => a.file = NoFile

AsksInv == \A t \in Threads : asks[t].state # "idle" => AskOk(t)

\* Two calls at once are for two files, and a reset comes upon none.
AloneInv ==
    /\ \A s, t \in Threads :
          s # t /\ asks[s].state # "idle" /\ asks[t].state # "idle" /\ asks[s].file \in Files
             => asks[t].file # asks[s].file
    /\ \A t \in Threads, u \in Units : Under("reset", u, t) =>
          /\ \A f \in Files : owns[f].how # "closed" => owns[f].unit # u
          /\ \A s \in Threads, o \in Opens : ~Under(o, u, s)

Closing(f) ==
    \E t \in Threads : /\ asks[t].state \in {"done", "failed"}
                       /\ asks[t].op \in Closes /\ asks[t].file = f

Owned(f) ==
    owns[f].unit \in Units /\ owns[f].fd \in CardFds /\ held[owns[f].unit][owns[f].fd] = f

HoldInv ==
    \A f \in Files : owns[f].how # "closed" =>
        owns[f].unit \in Units /\ owns[f].fd \in CardFds /\ (Owned(f) \/ Closing(f))

PromiseInv == TypeInv /\ AsksInv /\ AloneInv /\ HoldInv

LEMMA Classes ==
    /\ \A c \in Closes : c \in ByFd /\ c \notin Opens
    /\ Opens \cap ByFd = {}
    /\ "reset" \notin Opens \cup ByFd /\ "devctl" \notin Opens \cup ByFd
    /\ "closed" \notin Opens /\ \A c : OpenedBy(c) \in Opens
BY DEF Opens, Closes, ByFd, Short, Seeks, Streamed, OpenedBy

\* Two fields of one caller's call are written.
LEMMA AskUpdate ==
    ASSUME NEW S, NEW O, NEW F, NEW U, NEW G, NEW t \in Threads, NEW p \in S, NEW x \in G,
           NEW a \in [Threads -> [state : S, op : O, file : F, unit : U, fd : G]]
    PROVE  [a EXCEPT ![t].state = p, ![t].fd = x]
               \in [Threads -> [state : S, op : O, file : F, unit : U, fd : G]]
<1>1. PICK b : b = [a EXCEPT ![t].state = p]
  OBVIOUS
<1>2. b \in [Threads -> [state : S, op : O, file : F, unit : U, fd : G]]
  BY <1>1
<1>3. [a EXCEPT ![t].state = p, ![t].fd = x] = [b EXCEPT ![t].fd = x]
  BY <1>1
<1> QED BY <1>2, <1>3

LEMMA PromiseStart == ASSUME NoFile \notin Files, Init PROVE PromiseInv
<1>1. TypeInv
  BY DEF Init, TypeInv, NoAsk, Closed, States, Owners, Given
<1>2. AsksInv /\ AloneInv /\ HoldInv
  BY DEF Init, AsksInv, AloneInv, HoldInv, Under, NoAsk, Closed
<1> QED BY <1>1, <1>2 DEF PromiseInv

LEMMA AskStep ==
    ASSUME PromiseInv, NoFile \notin Files, NEW t \in Threads, NEW c \in Ops,
           NEW u \in Units, NEW f \in Owners, Ask(t, c, u, f)
    PROVE  PromiseInv'
<1> USE DEF PromiseInv
<1>1. /\ asks[t].state = "idle"
      /\ asks'[t] = [state |-> "open", op |-> c, file |-> f, unit |-> u, fd |-> 255]
      /\ \A s \in Threads : s # t => asks'[s] = asks[s]
      /\ owns' = owns /\ held' = held /\ MayAsk(c, u, f)
  BY DEF Ask, TypeInv
<1>2. TypeInv'
  BY DEF Ask, TypeInv, States, Given
<1>3. AsksInv'
  <2>1. AskOk(t)'
    BY <1>1, Classes DEF AskOk, MayAsk
  <2> QED BY <1>1, <2>1 DEF AsksInv, AskOk
<1>4. AloneInv'
  <2>1. /\ f \in Files => \A s \in Threads : asks[s].state # "idle" => asks[s].file # f
        /\ c \in Opens => \A s \in Threads : ~Under("reset", u, s)
        /\ c = "reset" => /\ \A g \in Files : owns[g].how # "closed" => owns[g].unit # u
                          /\ \A s \in Threads, o \in Opens : ~Under(o, u, s)
    BY <1>1, Classes DEF MayAsk
  <2>2. \A r, s \in Threads :
           r # s /\ asks'[r].state # "idle" /\ asks'[s].state # "idle" /\ asks'[r].file \in Files
             => asks'[s].file # asks'[r].file
    BY <1>1, <2>1 DEF AloneInv
  <2>3. ASSUME NEW r \in Threads, NEW v \in Units, Under("reset", v, r)'
        PROVE  /\ \A g \in Files : owns'[g].how # "closed" => owns'[g].unit # v
               /\ \A s \in Threads, o \in Opens : ~Under(o, v, s)'
    <3>1. CASE r = t
      <4>1. c = "reset" /\ u = v
        BY <1>1, <2>3, <3>1 DEF Under
      <4> QED BY <1>1, <2>1, <4>1, Classes DEF Under
    <3>2. CASE r # t
      <4>1. Under("reset", v, r)
        BY <1>1, <2>3, <3>2 DEF Under
      <4>2. c \in Opens => u # v
        BY <2>1, <4>1
      <4> QED BY <1>1, <4>1, <4>2 DEF AloneInv, Under
    <3> QED BY <3>1, <3>2
  <2> QED BY <2>2, <2>3 DEF AloneInv
<1>5. HoldInv'
  <2>1. \A g : Closing(g) => Closing(g)'
    BY <1>1 DEF Closing
  <2> QED BY <1>1, <2>1 DEF HoldInv, Owned
<1> QED BY <1>2, <1>3, <1>4, <1>5

\* What a card may have done, descriptor by descriptor.
LEMMA OutcomeIs ==
    ASSUME PromiseInv, NEW t \in Threads, asks[t].state = "open", NEW o \in Outcomes(asks[t])
    PROVE  /\ o.held \in [CardFds -> Owners] /\ o.fd \in Given
           /\ asks[t].op \in Opens => o.fd \in CardFds /\ o.held[o.fd] = asks[t].file
           /\ \A x \in CardFds : o.held[x] # held[asks[t].unit][x] =>
                 \/ asks[t].op \in Opens /\ held[asks[t].unit][x] = NoFile
                 \/ asks[t].op \in Closes /\ x = owns[asks[t].file].fd /\ o.held[x] = NoFile
                 \/ asks[t].op = "reset" /\ o.held[x] = NoFile
<1> USE DEF PromiseInv, TypeInv, AsksInv, AskOk
<1>1. /\ held[asks[t].unit] \in [CardFds -> Owners] /\ asks[t].file \in Owners
      /\ asks[t].fd \in Given
  BY DEF States
<1>2. CASE asks[t].op \in Opens
  <2>1. PICK x \in CardFds :
           /\ held[asks[t].unit][x] = NoFile
           /\ o = [fd |-> x, held |-> [held[asks[t].unit] EXCEPT ![x] = asks[t].file]]
    BY <1>2 DEF Outcomes
  <2> QED BY <1>1, <1>2, <2>1 DEF Given
<1>3. CASE asks[t].op \notin Opens
  <2>1. o = [fd |-> asks[t].fd,
             held |-> [x \in CardFds |->
                 IF asks[t].op = "reset" \/ (asks[t].op \in Closes /\ x = owns[asks[t].file].fd)
                 THEN NoFile ELSE held[asks[t].unit][x]]]
    BY <1>3 DEF Outcomes
  <2> QED BY <1>1, <1>3, <2>1 DEF Owners
<1> QED BY <1>2, <1>3

\* The card acts, or the call fails.
LEMMA CardStep ==
    ASSUME PromiseInv, NoFile \notin Files, NEW t \in Threads, Serve(t) \/ Fail(t)
    PROVE  PromiseInv'
<1> USE DEF PromiseInv
<1>t. /\ asks \in [Threads -> [state : States, op : Ops \cup {"devctl"}, file : Owners,
                               unit : Units \cup {0}, fd : Given]]
      /\ held \in [Units -> [CardFds -> Owners]]
  BY DEF TypeInv
<1>1. asks[t].state = "open" /\ owns' = owns
  BY DEF Serve, Fail
<1>2. PICK u \in Units, f \in Owners, c \in Ops \cup {"devctl"} :
         asks[t].unit = u /\ asks[t].file = f /\ asks[t].op = c
  BY <1>t, <1>1 DEF AsksInv, AskOk
<1> DEFINE Leaves(h) ==
        \A y \in CardFds : h[y] # held[u][y] =>
            \/ c \in Opens /\ held[u][y] = NoFile
            \/ c \in Closes /\ y = owns[f].fd /\ h[y] = NoFile
            \/ c = "reset" /\ h[y] = NoFile
<1>3. PICK p \in {"done", "failed"}, x \in Given, h \in [CardFds -> Owners] :
         /\ asks' = [asks EXCEPT ![t].state = p, ![t].fd = x]
         /\ held' = [held EXCEPT ![u] = h]
         /\ p = "done" /\ c \in Opens => x \in CardFds /\ h[x] = f
         /\ Leaves(h)
  <2>0. ASSUME NEW o \in Outcomes(asks[t])
        PROVE  /\ o.held \in [CardFds -> Owners] /\ o.fd \in Given /\ Leaves(o.held)
               /\ c \in Opens => o.fd \in CardFds /\ o.held[o.fd] = f
    BY <1>1, <1>2, OutcomeIs
  <2>1. CASE \E o \in Outcomes(asks[t]) :
               /\ asks' = [asks EXCEPT ![t].state = "done", ![t].fd = o.fd]
               /\ held' = [held EXCEPT ![asks[t].unit] = o.held]
    <3>1. PICK o \in Outcomes(asks[t]) :
             /\ asks' = [asks EXCEPT ![t].state = "done", ![t].fd = o.fd]
             /\ held' = [held EXCEPT ![u] = o.held]
      BY <1>2, <2>1
    <3> HIDE DEF Leaves
    <3> QED BY <2>0, <3>1
  <2>2. CASE \E o \in Outcomes(asks[t]) :
               /\ asks' = [asks EXCEPT ![t].state = "failed"]
               /\ held' = [held EXCEPT ![asks[t].unit] = o.held]
    <3>1. asks' = [asks EXCEPT ![t].state = "failed", ![t].fd = asks[t].fd] /\ asks[t].fd \in Given
      BY <1>t, <2>2
    <3>2. PICK o \in Outcomes(asks[t]) : held' = [held EXCEPT ![u] = o.held]
      BY <1>2, <2>2
    <3> HIDE DEF Leaves
    <3> QED BY <2>0, <3>1, <3>2
  <2>3. CASE asks' = [asks EXCEPT ![t].state = "failed"] /\ held' = held
    <3>1. asks' = [asks EXCEPT ![t].state = "failed", ![t].fd = asks[t].fd] /\ asks[t].fd \in Given
      BY <1>t, <2>3
    <3>2. held' = [held EXCEPT ![u] = held[u]] /\ held[u] \in [CardFds -> Owners]
      BY <1>t, <2>3
    <3> QED BY <3>1, <3>2
  <2> QED BY <2>1, <2>2, <2>3 DEF Serve, Fail
<1>4. /\ /\ asks'[t].state = p /\ asks'[t].op = c /\ asks'[t].file = f
         /\ asks'[t].unit = u /\ asks'[t].fd = x
      /\ \A s \in Threads : s # t => asks'[s] = asks[s]
      /\ held'[u] = h /\ \A v \in Units : v # u => held'[v] = held[v]
  <2>1. /\ asks'[t].state = p /\ asks'[t].op = c /\ asks'[t].file = f
        /\ asks'[t].unit = u /\ asks'[t].fd = x
    BY <1>t, <1>2, <1>3
  <2>2. \A s \in Threads : s # t => asks'[s] = asks[s]
    BY <1>t, <1>3
  <2>3. held'[u] = h /\ \A v \in Units : v # u => held'[v] = held[v]
    BY <1>t, <1>1, <1>2, <1>3 DEF AsksInv, AskOk
  <2> QED BY <2>1, <2>2, <2>3
<1>5. c \in Closes => f \in Files /\ owns[f].unit = u /\ Owned(f)
  <2> SUFFICES ASSUME c \in Closes PROVE f \in Files /\ owns[f].unit = u /\ Owned(f)
    OBVIOUS
  <2>1. f \in Files /\ owns[f].how # "closed" /\ owns[f].unit = u
    BY <1>1, <1>2, Classes DEF AsksInv, AskOk
  <2>2. ~Closing(f)
    BY <1>1, <1>2, <2>1 DEF Closing, AloneInv
  <2> QED BY <2>1, <2>2 DEF HoldInv
<1>6. \A v \in Units, y \in CardFds, g \in Files :
         held[v][y] = g /\ held'[v][y] # g =>
            v = u /\ (c = "reset" \/ (c \in Closes /\ g = f /\ y = owns[f].fd))
  <2> SUFFICES ASSUME NEW v \in Units, NEW y \in CardFds, NEW g \in Files,
                      held[v][y] = g, held'[v][y] # g
               PROVE  v = u /\ (c = "reset" \/ (c \in Closes /\ g = f /\ y = owns[f].fd))
    OBVIOUS
  <2>1. v = u /\ h[y] # held[u][y]
    BY <1>4
  <2> QED BY <1>3, <1>5, <2>1 DEF Owned
<1>7. TypeInv'
  <2>1. asks' \in [Threads -> [state : States, op : Ops \cup {"devctl"}, file : Owners,
                               unit : Units \cup {0}, fd : Given]]
    <3> DEFINE O == Ops \cup {"devctl"}
               U == Units \cup {0}
    <3>1. /\ asks \in [Threads -> [state : States, op : O, file : Owners, unit : U, fd : Given]]
          /\ p \in States
      BY <1>t DEF States
    <3> HIDE DEF O, U
    <3>2. asks' \in [Threads -> [state : States, op : O, file : Owners, unit : U, fd : Given]]
      <4>1. asks' = [asks EXCEPT ![t].state = p, ![t].fd = x]
        BY <1>3
      <4>2. [asks EXCEPT ![t].state = p, ![t].fd = x]
                \in [Threads -> [state : States, op : O, file : Owners, unit : U, fd : Given]]
        BY <3>1, AskUpdate, Zenon
      <4> QED BY <4>1, <4>2, Zenon
    <3> QED BY <3>2 DEF O, U
  <2>2. held' \in [Units -> [CardFds -> Owners]]
    BY <1>t, <1>3
  <2> QED BY <1>1, <2>1, <2>2 DEF TypeInv
<1>8. AsksInv'
  <2>1. AskOk(t)'
    BY <1>1, <1>2, <1>3, <1>4 DEF AsksInv, AskOk
  <2>2. ASSUME NEW s \in Threads, s # t, asks[s].state # "idle" PROVE AskOk(s)'
    <3>1. AskOk(s) /\ asks'[s] = asks[s]
      BY <1>4, <2>2 DEF AsksInv
    <3>2. SUFFICES ASSUME asks[s].op \in Opens, asks[s].state = "done"
                   PROVE  held'[asks[s].unit][asks[s].fd] = asks[s].file
      BY <1>1, <3>1, <3>2 DEF AskOk
    <3>3. /\ asks[s].unit \in Units /\ asks[s].fd \in CardFds /\ asks[s].file \in Files
          /\ held[asks[s].unit][asks[s].fd] = asks[s].file
      BY <3>1, <3>2 DEF AskOk
    <3>4. asks[s].file # f
      BY <1>1, <1>2, <2>2, <3>3 DEF AloneInv
    <3>5. ~(c = "reset" /\ asks[s].unit = u)
      BY <1>1, <1>2, <2>2, <3>2 DEF AloneInv, Under
    <3> QED BY <1>6, <3>3, <3>4, <3>5
  <2> QED BY <1>4, <2>1, <2>2 DEF AsksInv
<1>9. AloneInv'
  <2>1. \A s \in Threads : /\ asks'[s].state # "idle" => asks[s].state # "idle"
                           /\ asks'[s].op = asks[s].op /\ asks'[s].file = asks[s].file
                           /\ asks'[s].unit = asks[s].unit
    BY <1>1, <1>2, <1>4
  <2>2. \A o, v, s : s \in Threads /\ Under(o, v, s)' => Under(o, v, s)
    BY <2>1 DEF Under
  <2> QED BY <1>1, <2>1, <2>2 DEF AloneInv
<1>10. HoldInv'
  <2> SUFFICES ASSUME NEW g \in Files, owns[g].how # "closed"
               PROVE  /\ owns[g].unit \in Units /\ owns[g].fd \in CardFds
                      /\ Owned(g)' \/ Closing(g)'
    BY <1>1 DEF HoldInv
  <2>1. owns[g].unit \in Units /\ owns[g].fd \in CardFds /\ (Owned(g) \/ Closing(g))
    BY DEF HoldInv
  <2>2. Closing(g) => Closing(g)'
    BY <1>1, <1>4 DEF Closing
  <2>3. ASSUME Owned(g), ~Owned(g)' PROVE Closing(g)'
    <3>1. owns[g].unit = u /\ (c = "reset" \/ (c \in Closes /\ g = f))
      BY <1>1, <1>6, <2>1, <2>3 DEF Owned
    <3>2. c # "reset"
      BY <1>1, <1>2, <3>1 DEF AloneInv, Under
    <3> QED BY <1>4, <3>1, <3>2 DEF Closing
  <2> QED BY <2>1, <2>2, <2>3
<1> QED BY <1>7, <1>8, <1>9, <1>10

\* The call returns.
LEMMA ReturnStep ==
    ASSUME PromiseInv, NoFile \notin Files, NEW t \in Threads, GiveUp(t) \/ Finish(t)
    PROVE  PromiseInv'
<1> USE DEF PromiseInv
<1>t. /\ asks \in [Threads -> [state : States, op : Ops \cup {"devctl"}, file : Owners,
                               unit : Units \cup {0}, fd : Given]]
      /\ owns \in [Files -> [how : Opens \cup {"closed"}, unit : Units \cup {0}, fd : Given]]
  BY DEF TypeInv
<1>1. asks[t].state # "idle" /\ AskOk(t)
  BY DEF GiveUp, Finish, AsksInv
<1>2. PICK f, e : f \in Owners /\ f = asks[t].file /\ Return(t, e) /\
         (f \in Files =>
             \/ e = Closed
             \/ e = owns[f] /\ asks[t].op \notin Closes
             \/ /\ asks[t].op \in Opens /\ asks[t].state = "done"
                /\ e = [how |-> asks[t].op, unit |-> asks[t].unit, fd |-> asks[t].fd])
  BY <1>t, <1>1 DEF GiveUp, Finish
<1>3. /\ asks'[t] = NoAsk /\ \A s \in Threads : s # t => asks'[s] = asks[s]
      /\ \A g \in Files : owns'[g] = IF g = f THEN e ELSE owns[g]
      /\ held' = held
  BY <1>t, <1>2 DEF Return
<1>4. f \in Files =>
         \/ e = Closed
         \/ e = owns[f] /\ asks[t].op \notin Closes
         \/ /\ asks[t].op \in Opens /\ asks[t].state = "done"
            /\ e = [how |-> asks[t].op, unit |-> asks[t].unit, fd |-> asks[t].fd]
  BY <1>2
<1>5. TypeInv'
  <2>1. NoAsk \in [state : States, op : Ops \cup {"devctl"}, file : Owners,
                   unit : Units \cup {0}, fd : Given]
    BY DEF NoAsk, States, Owners, Given
  <2>2. f \in Files => e \in [how : Opens \cup {"closed"}, unit : Units \cup {0}, fd : Given]
    BY <1>t, <1>4 DEF Closed, Given
  <2>3. asks' = [asks EXCEPT ![t] = NoAsk] /\ owns' = [g \in Files |-> IF g = f THEN e ELSE owns[g]]
    BY <1>2 DEF Return
  <2> QED BY <1>t, <1>3, <2>1, <2>2, <2>3 DEF TypeInv
<1>6. AsksInv'
  <2> SUFFICES ASSUME NEW s \in Threads, s # t, asks[s].state # "idle" PROVE AskOk(s)'
    BY <1>3 DEF AsksInv, NoAsk
  <2>1. asks[s].file \in Files => owns'[asks[s].file] = owns[asks[s].file]
    BY <1>1, <1>2, <1>3 DEF AloneInv
  <2> QED BY <1>3, <2>1 DEF AsksInv, AskOk
<1>7. AloneInv'
  <2>1. \A o, v, s : s \in Threads /\ Under(o, v, s)' => Under(o, v, s) /\ s # t
    BY <1>3 DEF Under, NoAsk
  <2>2. ASSUME NEW r \in Threads, NEW v \in Units, Under("reset", v, r)',
               NEW g \in Files, owns'[g].how # "closed"
        PROVE  owns'[g].unit # v
    <3>1. Under("reset", v, r) /\ r # t
      BY <2>1, <2>2
    <3>2. CASE owns'[g] = owns[g]
      BY <2>2, <3>1, <3>2 DEF AloneInv
    <3>3. CASE owns'[g] # owns[g]
      <4>1. /\ asks[t].op \in Opens /\ owns'[g].unit = asks[t].unit
        BY <1>3, <1>4, <2>2, <3>3 DEF Closed
      <4> QED BY <1>1, <3>1, <4>1 DEF AloneInv, Under
    <3> QED BY <3>2, <3>3
  <2>3. \A r, s \in Threads :
           r # s /\ asks'[r].state # "idle" /\ asks'[s].state # "idle" /\ asks'[r].file \in Files
             => asks'[s].file # asks'[r].file
    BY <1>3 DEF AloneInv, NoAsk
  <2> QED BY <2>1, <2>2, <2>3 DEF AloneInv
<1>8. HoldInv'
  <2> SUFFICES ASSUME NEW g \in Files, owns'[g].how # "closed"
               PROVE  /\ owns'[g].unit \in Units /\ owns'[g].fd \in CardFds
                      /\ Owned(g)' \/ Closing(g)'
    BY DEF HoldInv
  <2>1. CASE g # f \/ (e = owns[f] /\ asks[t].op \notin Closes)
    <3>1. owns'[g] = owns[g]
      BY <1>3, <2>1
    <3>2. Closing(g) => Closing(g)'
      <4> SUFFICES ASSUME NEW s \in Threads, asks[s].state \in {"done", "failed"},
                          asks[s].op \in Closes, asks[s].file = g
                   PROVE  Closing(g)'
        BY DEF Closing
      <4>1. s # t
        BY <1>2, <2>1
      <4> QED BY <1>3, <4>1 DEF Closing
    <3> QED BY <1>3, <3>1, <3>2 DEF HoldInv, Owned
  <2>2. CASE g = f /\ asks[t].op \in Opens /\ asks[t].state = "done"
             /\ e = [how |-> asks[t].op, unit |-> asks[t].unit, fd |-> asks[t].fd]
    BY <1>1, <1>2, <1>3, <2>2 DEF AskOk, Owned
  <2> QED BY <1>3, <1>4, <2>1, <2>2 DEF Closed
<1> QED BY <1>5, <1>6, <1>7, <1>8

LEMMA PromiseStep ==
    NoFile \notin Files /\ PromiseInv /\ [Next]_pvars => PromiseInv'
<1> SUFFICES ASSUME NoFile \notin Files, PromiseInv, [Next]_pvars PROVE PromiseInv'
  OBVIOUS
<1>1. CASE UNCHANGED pvars
  BY <1>1 DEF pvars, PromiseInv, TypeInv, AsksInv, AskOk, AloneInv, Under, HoldInv, Owned, Closing
<1>2. CASE Next
  BY <1>2, AskStep, CardStep, ReturnStep DEF Next, Owners
<1> QED BY <1>1, <1>2

\* What a caller may rely on between its calls, whatever other callers do and
\* though calls overlap, packets are lost and calls fail: the descriptor of its
\* open file stands for that file, on the card it was opened on.
THEOREM OwnersAlwaysHold == ASSUME NoFile \notin Files PROVE Spec => []OwnersHold
<1>1. PromiseInv => OwnersHold
  BY DEF PromiseInv, HoldInv, Owned, Closing, OwnersHold
<1>2. Init => PromiseInv
  BY PromiseStart
<1>3. PromiseInv /\ [Next]_pvars => PromiseInv'
  BY PromiseStep
<1> QED BY <1>1, <1>2, <1>3, PTL DEF Spec

=============================================================================
