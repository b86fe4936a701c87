--------------------------- MODULE Sio2HookProofs ---------------------------
(***************************************************************************)
(* Theorems about Sio2Hook, for any number of callers and any sio2man.     *)
(***************************************************************************)
EXTENDS Sio2Hook, TLAPS

NoCalls == \A c \in Callers : pc[c] = "idle"
NoneInside == \A c \in Callers : pc[c] # "inside"

\* sio2man in memory, and what the list holds of it.
DriverInv ==
    /\ phase # "none" => driver \in Drivers
    /\ phase \in {"none", "loaded"} => registered = 0
    /\ phase \in {"saving", "up"} => registered = Len(driver) /\ registered # 0
    /\ phase \in Starting => module \in {"out", "resident"}

\* What mmceman has hooked while it is there.
LinkInv ==
    module # "out" =>
        /\ phase \in {"none", "loaded"} => loadcore = "hook" /\ intrman = "hook"
        /\ phase \in {"loaded", "starting"} => stub.lib = "hook" /\ stub.intr = "hook"
        /\ <<2, 7>> \in Listed => hooked[2] = TRUE

\* When there may be calls.
CallsInv ==
    /\ module \in {"out", "hooking"} => NoCalls
    /\ phase \in Starting /\ overlapped = FALSE => NoCalls

\* The interrupt handler, and the one that is remembered.
SlotInv ==
    /\ NoneInside => slot # "mmce"
    /\ overlapped = FALSE /\ phase \in {"none", "loaded", "starting"} =>
          saved = "none" /\ (NoneInside => slot = "none")
    /\ overlapped = FALSE /\ phase = "saving" => slot = "sio2man"
    /\ overlapped = FALSE /\ phase = "up" =>
          /\ module # "out" => saved = "sio2man"
          /\ NoneInside => slot = "sio2man"

Served == Serving => HasLock

HookInv ==
    TypeOK /\ DriverInv /\ LinkInv /\ CallsInv /\ SlotInv /\ HooksRemoved /\ Served

\* TypeOK in parts, the Boolean ones apart.
SioType ==
    /\ driver \in Drivers \cup {<<>>}
    /\ phase \in {"none", "loaded", "up"} \cup Starting
    /\ registered \in 0 .. Len(driver)
    /\ stub \in [lib : {"real", "hook"}, intr : {"real", "hook"}]
BoolType == hooked \in [{1, 2} -> BOOLEAN] /\ overlapped \in BOOLEAN
RestType ==
    /\ slot \in {"none", "sio2man", "mmce"}
    /\ owner \in Callers \cup {Pad, Nobody}
    /\ module \in {"out", "hooking", "starting", "resident"}
    /\ loadcore \in {"real", "hook"}
    /\ intrman \in {"real", "hook"}
    /\ saved \in {"none", "sio2man"}
    /\ pc \in [Callers -> {"idle", "lock"} \cup Locked]

LEMMA TypeParts == TypeOK <=> SioType /\ BoolType /\ RestType
  BY DEF TypeOK, SioType, BoolType, RestType

LEMMA TypePartsNext == TypeOK' <=> SioType' /\ BoolType' /\ RestType'
  BY DEF TypeOK, SioType, BoolType, RestType

LEMMA HookInit == Init => HookInv
<1> SUFFICES ASSUME Init PROVE HookInv
  OBVIOUS
<1>1. SioType
  BY DEF Init, SioType, Starting
<1>2. BoolType
  BY DEF Init, BoolType, Unset
<1>3. RestType
  BY DEF Init, RestType
<1>4. DriverInv /\ LinkInv
  BY DEF Init, DriverInv, LinkInv, Starting
<1>5. CallsInv /\ SlotInv
  BY DEF Init, CallsInv, SlotInv, NoCalls, NoneInside, Starting
<1>6. HooksRemoved /\ Served
  BY DEF Init, HooksRemoved, Served, HasLock, Serving
<1> QED BY <1>1, <1>2, <1>3, <1>4, <1>5, <1>6, TypeParts DEF HookInv

\* Version 2.7 is one of the two that are known.
LEMMA Knows == ASSUME NEW vs, <<2, 7>> \in vs PROVE Known(vs)[2]
<1>1. <<2, 7>> \in vs \cap Supported /\ <<2, 7>>[1] = 2
  BY DEF Supported
<1>2. \E v \in vs \cap Supported : v[1] = 2
  BY <1>1
<1> QED BY <1>2 DEF Known

\* What the list holds is in memory.
LEMMA InList ==
    ASSUME TypeOK
    PROVE  /\ Len(driver) \in Nat
           /\ registered \in Nat
           /\ \A v \in Listed : \E i \in 1 .. Len(driver) : v = driver[i]
<1>1. Len(driver) \in Nat
  BY DriversAssumption DEF TypeOK
<1> QED BY <1>1 DEF TypeOK, Listed

\* The calls: everything but the lock, the slot and pc is left alone.
LEMMA CallSteps ==
    ASSUME HookInv, NEW c \in Callers,
           Call(c) \/ TakeLock(c) \/ SetHandler(c) \/ UnsetHandler(c) \/ GiveLock(c)
    PROVE  HookInv'
<1> USE DEF HookInv
<1>t. SioType /\ BoolType /\ RestType
  BY TypeParts
<1>1. /\ UNCHANGED <<driver, phase, registered, stub, module, hooked, loadcore,
                     intrman, saved>>
      /\ pc' \in [Callers -> {"idle", "lock"} \cup Locked]
      /\ \A d \in Callers : d # c => pc'[d] = pc[d]
  BY <1>t DEF Call, TakeLock, SetHandler, UnsetHandler, GiveLock, Goto, sio2manVars,
              hookVars, RestType, Locked
<1>2. SioType'
  BY <1>1, <1>t DEF SioType
<1>3. BoolType'
  <2>1. overlapped' \in BOOLEAN
    BY <1>t DEF Call, TakeLock, SetHandler, UnsetHandler, GiveLock, BoolType
  <2>2. hooked' \in [{1, 2} -> BOOLEAN]
    BY <1>1, <1>t DEF BoolType
  <2> QED BY <2>1, <2>2 DEF BoolType
<1>4. RestType'
  <2>1. slot' \in {"none", "sio2man", "mmce"} /\ owner' \in Callers \cup {Pad, Nobody}
    BY <1>t DEF Call, TakeLock, SetHandler, UnsetHandler, GiveLock, RestType
  <2> QED BY <1>1, <1>t, <2>1 DEF RestType
<1>5. TypeOK'
  BY <1>2, <1>3, <1>4, TypePartsNext
<1>6. DriverInv' /\ LinkInv' /\ HooksRemoved'
  BY <1>1 DEF DriverInv, LinkInv, HooksRemoved, Listed
\* A call in a sio2man that starts is remembered.
<1>7. overlapped' = FALSE => overlapped = FALSE /\ (pc[c] = "idle" => phase \notin Starting)
  BY <1>t DEF Call, TakeLock, SetHandler, UnsetHandler, GiveLock, Goto, BoolType
<1>8. module \notin {"out", "hooking"}
  BY DEF Call, TakeLock, SetHandler, UnsetHandler, GiveLock, Goto, CallsInv, NoCalls
<1>9. CallsInv'
  <2>1. phase \in Starting /\ overlapped = FALSE => pc[c] = "idle"
    BY DEF CallsInv, NoCalls
  <2> QED BY <1>1, <1>7, <1>8, <2>1 DEF CallsInv
<1>10. SlotInv'
  <2>1. CASE Call(c) \/ TakeLock(c) \/ GiveLock(c)
    <3>1. slot' = slot /\ (NoneInside' => NoneInside)
      BY <1>1, <2>1 DEF Call, TakeLock, GiveLock, Goto, NoneInside
    <3> QED BY <1>1, <1>7, <3>1 DEF SlotInv
  <2>2. CASE SetHandler(c)
    <3>1. ~NoneInside'
      BY <1>t, <2>2 DEF SetHandler, Goto, NoneInside, RestType
    <3>2. phase \in Starting => overlapped' # FALSE
      BY <1>7, <2>2 DEF CallsInv, NoCalls, SetHandler, Goto
    <3> QED BY <1>1, <1>7, <3>1, <3>2 DEF SlotInv, Starting
  <2>3. CASE UnsetHandler(c)
    <3>1. slot' = saved
      BY <2>3 DEF UnsetHandler
    <3>2. phase \in Starting => overlapped' # FALSE
      BY <1>7, <2>3 DEF CallsInv, NoCalls, UnsetHandler, Goto
    <3>3. saved # "mmce"
      BY <1>t DEF RestType
    <3> QED BY <1>1, <1>7, <1>8, <3>1, <3>2, <3>3 DEF SlotInv, Starting
  <2> QED BY <2>1, <2>2, <2>3
<1>11. Served'
  <2> SUFFICES ASSUME Serving', NEW d \in Callers
               PROVE  /\ pc'[d] \in Locked => owner' = d
                      /\ pc'[d] = "inside" => slot' = "mmce"
    BY <1>1 DEF Served, HasLock, Serving
  <2>1. Serving
    <3>1. ~overlapped' => overlapped' = FALSE
      BY <1>3 DEF BoolType
    <3>2. overlapped = FALSE => ~overlapped
      OBVIOUS
    <3> QED BY <1>1, <1>7, <3>1, <3>2 DEF Serving
  <2>2. hooked[2] = TRUE
    <3>1. <<2, 7>> \in Listed
      BY <2>1 DEF Serving, DriverInv, Listed
    <3> QED BY <1>8, <3>1 DEF LinkInv
  <2>3. c # Nobody /\ d # Nobody
    BY ClientsAssumption DEF Callers, Nobody
  <2>4. \A e \in Callers : /\ pc[e] \in Locked => owner = e
                           /\ pc[e] = "inside" => slot = "mmce"
    BY <2>1 DEF Served, HasLock
  <2>5. CASE Call(c)
    BY <1>1, <1>t, <2>4, <2>5 DEF Call, Goto, Locked, RestType
  <2>6. CASE TakeLock(c)
    <3>1. owner = Nobody /\ owner' = c /\ slot' = slot /\ pc' = [pc EXCEPT ![c] = "swap"]
      BY <2>2, <2>6 DEF TakeLock, Goto
    <3> QED BY <1>1, <1>t, <2>3, <2>4, <3>1 DEF Locked, RestType
  <2>7. CASE SetHandler(c)
    BY <1>1, <1>t, <2>4, <2>7 DEF SetHandler, Goto, Locked, RestType
  <2>8. CASE UnsetHandler(c)
    BY <1>1, <1>t, <2>4, <2>8 DEF UnsetHandler, Goto, Locked, RestType
  <2>9. CASE GiveLock(c)
    <3>1. owner = c /\ slot' = slot /\ pc' = [pc EXCEPT ![c] = "idle"]
      BY <2>4, <2>9 DEF GiveLock, Goto, Locked
    <3> QED BY <1>1, <1>t, <2>4, <3>1 DEF Locked, RestType
  <2> QED BY <2>5, <2>6, <2>7, <2>8, <2>9
<1> QED BY <1>5, <1>6, <1>9, <1>10, <1>11

\* sio2man is loaded and started.
LEMMA DriverSteps ==
    ASSUME HookInv,
           \/ \E d \in Drivers : LoadDriver(d)
           \/ RegisterLibrary \/ RegisterHandler \/ SaveHandler
    PROVE  HookInv'
<1> USE DEF HookInv
<1>t. SioType /\ BoolType /\ RestType
  BY TypeParts
<1>s. phase' # "none" /\ (Serving' => phase \in Starting /\ overlapped = FALSE)
  <2>1. phase' # "none" /\ (phase' = "up" => phase \in Starting /\ overlapped' = overlapped)
    BY DEF LoadDriver, RegisterLibrary, RegisterHandler, SaveHandler, Starting
  <2>2. overlapped \in BOOLEAN
    BY <1>t DEF BoolType
  <2> QED BY <2>1, <2>2 DEF Serving
<1>1. UNCHANGED <<module, pc, owner>>
  BY DEF LoadDriver, RegisterLibrary, RegisterHandler, SaveHandler, hookVars
<1>2. NoCalls' = NoCalls /\ NoneInside' = NoneInside
  BY <1>1 DEF NoCalls, NoneInside
<1>3. Served'
  <2> SUFFICES ASSUME Serving' PROVE \A c \in Callers : pc'[c] = "idle"
    BY <1>1 DEF Served, HasLock, Serving, Locked
  <2>1. NoCalls
    BY <1>s DEF CallsInv
  <2> QED BY <1>1, <2>1 DEF NoCalls
<1>4. ASSUME NEW d \in Drivers, LoadDriver(d) PROVE HookInv'
  <2>1. Len(d) \in Nat /\ registered = 0
    BY <1>4, DriversAssumption DEF LoadDriver, DriverInv
  <2>2. SioType'
    BY <1>4, <1>t, <2>1 DEF LoadDriver, SioType, RestType, Starting
  <2>3. BoolType'
    BY <1>4, <1>t DEF LoadDriver, BoolType, hookVars
  <2>4. RestType'
    BY <1>4, <1>t DEF LoadDriver, RestType, hookVars
  <2>5. phase = "none" /\ phase' = "loaded" /\ driver' = d /\ registered' = 0
    BY <1>4, <2>1 DEF LoadDriver
  <2>6. DriverInv'
    BY <2>5 DEF DriverInv, Starting
  <2>7. LinkInv'
    BY <1>4, <2>5 DEF LinkInv, LoadDriver, Listed, hookVars
  <2>8. CallsInv' /\ SlotInv' /\ HooksRemoved'
    BY <1>4, <1>2, <2>5 DEF CallsInv, SlotInv, HooksRemoved, LoadDriver, hookVars, Starting
  <2> QED BY <1>3, <2>2, <2>3, <2>4, <2>6, <2>7, <2>8, TypePartsNext
<1>5. CASE RegisterLibrary
  <2>1. /\ phase \in {"loaded", "starting"} /\ phase' = "starting"
        /\ registered < Len(driver) /\ registered' = registered + 1
        /\ UNCHANGED <<driver, stub, slot, owner, module, intrman, saved, pc>>
        /\ module \in {"out", "resident"}
        /\ stub.lib = "hook" => module = "resident"
    BY <1>5 DEF RegisterLibrary, ModuleSettled
  <2>2. Len(driver) \in Nat /\ registered \in Nat
    BY InList
  <2>3. SioType'
    BY <1>t, <2>1, <2>2 DEF SioType, Starting
  <2>4. hooked' \in [{1, 2} -> BOOLEAN] /\ (hooked[2] = TRUE => hooked'[2] = TRUE)
    BY <1>5, <1>t DEF RegisterLibrary, HookLibs, BoolType
  <2>5. overlapped' \in BOOLEAN /\ (overlapped' = FALSE => overlapped = FALSE /\ NoCalls)
    BY <1>5, <1>t DEF RegisterLibrary, NoCalls, BoolType
  <2>6. loadcore' \in {loadcore, "real"}
        /\ (loadcore' # loadcore => stub.lib = "hook")
    BY <1>5 DEF RegisterLibrary
  <2>7. RestType'
    BY <1>t, <2>1, <2>6 DEF RestType
  <2>8. DriverInv'
    BY <2>1 DEF DriverInv, Starting
  <2>9. LinkInv'
    <3> SUFFICES ASSUME module # "out", <<2, 7>> \in Listed'
                 PROVE  hooked'[2] = TRUE
      BY <2>1 DEF LinkInv
    <3>1. CASE <<2, 7>> \in Listed
      BY <2>4, <3>1 DEF LinkInv
    <3>2. CASE <<2, 7>> \notin Listed
      <4>1. <<2, 7>> = driver[registered + 1]
        BY <2>1, <2>2, <3>2 DEF Listed
      <4>2. stub.lib = "hook"
        BY <2>1 DEF LinkInv
      <4>3. Known({driver[registered + 1]})[2]
        BY <4>1, Knows
      <4>4. hooked' = [m \in {1, 2} |->
                          hooked[m] \/ Known({driver[registered + 1]})[m]]
        BY <1>5, <4>2 DEF RegisterLibrary, HookLibs
      <4> QED BY <4>3, <4>4
    <3> QED BY <3>1, <3>2
  <2>10. CallsInv' /\ SlotInv'
    BY <1>2, <2>1, <2>5 DEF CallsInv, SlotInv, Starting
  <2>11. HooksRemoved'
    BY <2>1, <2>6 DEF HooksRemoved
  <2> QED BY <1>3, <2>3, <2>4, <2>5, <2>7, <2>8, <2>9, <2>10, <2>11, TypePartsNext
          DEF BoolType
<1>6. CASE RegisterHandler
  <2>1. /\ phase = "starting" /\ phase' \in {"saving", "up"}
        /\ registered = Len(driver)
        /\ UNCHANGED <<driver, registered, stub, owner, module, hooked, loadcore,
                       intrman, saved, pc, overlapped>>
        /\ slot' \in {slot, "sio2man"} /\ (slot = "none" => slot' = "sio2man")
        /\ stub.intr = "hook" /\ slot = "none" => phase' = "saving"
    BY <1>6 DEF RegisterHandler, hookVars
  <2>2. SioType' /\ BoolType' /\ RestType'
    BY <1>t, <2>1 DEF SioType, BoolType, RestType, Starting
  <2>3. registered # 0
    <3>1. driver # <<>> /\ driver \in Seq({1, 2} \X Nat)
      BY <2>1, DriversAssumption DEF DriverInv
    <3> QED BY <2>1, <3>1
  <2>4. DriverInv'
    BY <2>1, <2>3 DEF DriverInv, Starting
  <2>5. LinkInv' /\ CallsInv' /\ HooksRemoved'
    BY <1>2, <2>1 DEF LinkInv, CallsInv, HooksRemoved, Listed, Starting
  <2>6. overlapped = FALSE => NoneInside /\ slot = "none"
    BY <2>1 DEF CallsInv, SlotInv, NoCalls, NoneInside, Starting
  <2>7. SlotInv'
    BY <1>2, <2>1, <2>6 DEF SlotInv, LinkInv
  <2> QED BY <1>3, <2>2, <2>4, <2>5, <2>7, TypePartsNext
<1>7. CASE SaveHandler
  <2>1. /\ phase = "saving" /\ phase' = "up"
        /\ UNCHANGED <<driver, registered, stub, slot, owner, module, hooked, loadcore,
                       pc, overlapped>>
        /\ saved' = "sio2man" /\ intrman' \in {intrman, "real"}
    BY <1>7, <1>t DEF SaveHandler, RestType
  <2>2. SioType' /\ BoolType' /\ RestType'
    BY <1>t, <2>1 DEF SioType, BoolType, RestType, Starting
  <2>3. DriverInv' /\ LinkInv' /\ CallsInv' /\ HooksRemoved'
    BY <1>2, <2>1 DEF DriverInv, LinkInv, CallsInv, HooksRemoved, Listed, Starting
  <2>4. SlotInv'
    BY <1>2, <2>1 DEF SlotInv
  <2> QED BY <1>3, <2>2, <2>3, <2>4, TypePartsNext
<1> QED BY <1>4, <1>5, <1>6, <1>7

\* mmceman is started and stopped; sio2man's other clients.
LEMMA ModuleSteps ==
    ASSUME HookInv,
           \/ Hook \/ EventFlagCreated \/ EventFlagFails \/ StartReturns \/ Stop
           \/ PadLocks \/ PadUnlocks
    PROVE  HookInv'
<1> USE DEF HookInv
<1>t. SioType /\ BoolType /\ RestType
  BY TypeParts
<1>1. UNCHANGED <<driver, phase, registered, slot, pc, overlapped>>
  BY DEF Hook, EventFlagCreated, EventFlagFails, StartReturns, Stop, Unhook, PadLocks,
         PadUnlocks, sio2manVars
<1>2. NoCalls' = NoCalls /\ NoneInside' = NoneInside
  BY <1>1 DEF NoCalls, NoneInside
<1>3. CASE Hook
  <2>1. /\ module = "out" /\ phase \notin Starting /\ module' = "hooking"
        /\ owner' = owner /\ saved' = slot
        /\ hooked' = [m \in {1, 2} |-> hooked[m] \/ Known(Listed)[m]]
    BY <1>3 DEF Hook, DriverSettled, HookLibs
  <2>2. NoCalls /\ NoneInside
    BY <2>1 DEF CallsInv, NoCalls, NoneInside
  <2>3. IF Listed = {}
        THEN loadcore' = "hook" /\ intrman' = "hook" /\ stub' = Relinked
        ELSE UNCHANGED <<loadcore, intrman, stub>>
    BY <1>3 DEF Hook
  <2>4. phase \in {"none", "loaded"} => Listed = {}
    BY DEF DriverInv, Listed
  <2>5. stub' \in [lib : {"real", "hook"}, intr : {"real", "hook"}]
    BY <1>t, <2>3 DEF Relinked, SioType
  <2>6. SioType' /\ RestType'
    BY <1>1, <1>t, <2>1, <2>2, <2>3, <2>5 DEF SioType, RestType, SlotInv
  <2>7. BoolType'
    BY <1>1, <1>t, <2>1 DEF BoolType
  <2>8. <<2, 7>> \in Listed => hooked'[2] = TRUE
    <3> QED BY <2>1, Knows
  <2>9. LinkInv'
    <3>1. phase \in {"none", "loaded"} => loadcore' = "hook" /\ intrman' = "hook"
      BY <2>3, <2>4
    <3>2. phase = "loaded" => stub'.lib = "hook" /\ stub'.intr = "hook"
      BY <2>3, <2>4 DEF Relinked
    <3> QED BY <1>1, <2>1, <2>8, <3>1, <3>2 DEF LinkInv, Listed, Starting
  <2>10. DriverInv' /\ CallsInv' /\ HooksRemoved'
    BY <1>1, <1>2, <2>1, <2>2 DEF DriverInv, CallsInv, HooksRemoved
  <2>11. SlotInv'
    BY <1>1, <1>2, <2>1, <2>2 DEF SlotInv, Starting
  <2>12. Served'
    BY <1>1, <2>2 DEF Served, HasLock, NoCalls, Locked
  <2> QED BY <2>6, <2>7, <2>9, <2>10, <2>11, <2>12, TypePartsNext
<1>4. CASE EventFlagCreated \/ StartReturns
  <2>1. /\ UNCHANGED <<stub, owner, hooked, loadcore, intrman, saved>>
        /\ module # "out" /\ module' \in {"starting", "resident"}
        /\ phase \in Starting => module' = "resident"
    BY <1>4 DEF EventFlagCreated, StartReturns, sio2manVars, DriverInv
  <2>2. SioType' /\ BoolType' /\ RestType'
    BY <1>1, <1>t, <2>1 DEF SioType, BoolType, RestType
  <2>3. DriverInv' /\ LinkInv' /\ CallsInv' /\ SlotInv' /\ HooksRemoved'
    BY <1>1, <1>2, <2>1 DEF DriverInv, LinkInv, CallsInv, SlotInv, HooksRemoved, Listed
  <2>4. Served'
    BY <1>1, <2>1 DEF Served, HasLock, Serving
  <2> QED BY <2>2, <2>3, <2>4, TypePartsNext
<1>5. CASE EventFlagFails \/ Stop
  <2>1. /\ UNCHANGED <<stub, owner>> /\ module # "out" /\ module' = "out" /\ hooked' = Unset
        /\ saved' = "none" /\ loadcore' = "real" /\ intrman' = "real"
        /\ phase \notin Starting
    BY <1>5 DEF EventFlagFails, Stop, Unhook, sio2manVars, DriverSettled, DriverInv
  <2>2. NoCalls /\ NoneInside
    BY <1>5 DEF EventFlagFails, Stop, CallsInv, NoCalls, NoneInside
  <2>3. SioType' /\ RestType'
    BY <1>1, <1>t, <2>1 DEF SioType, RestType
  <2>4. BoolType'
    BY <1>1, <1>t, <2>1 DEF BoolType, Unset
  <2>5. DriverInv' /\ LinkInv' /\ CallsInv' /\ SlotInv' /\ HooksRemoved'
    BY <1>1, <1>2, <2>1, <2>2 DEF DriverInv, LinkInv, CallsInv, SlotInv, HooksRemoved,
                                   Starting
  <2>6. Served'
    BY <1>1, <2>2 DEF Served, HasLock, NoCalls, Locked
  <2> QED BY <2>3, <2>4, <2>5, <2>6, TypePartsNext
<1>6. CASE PadLocks \/ PadUnlocks
  <2>1. UNCHANGED <<stub, module, hooked, loadcore, intrman, saved>>
        /\ owner' \in {Pad, Nobody} /\ owner \in {Pad, Nobody}
    BY <1>6 DEF PadLocks, PadUnlocks, sio2manVars, hookVars
  <2>2. SioType' /\ BoolType' /\ RestType'
    BY <1>1, <1>t, <2>1 DEF SioType, BoolType, RestType
  <2>3. DriverInv' /\ LinkInv' /\ CallsInv' /\ SlotInv' /\ HooksRemoved'
    BY <1>1, <1>2, <2>1 DEF DriverInv, LinkInv, CallsInv, SlotInv, HooksRemoved, Listed
  <2>4. \A c \in Callers : c \notin {Pad, Nobody}
    BY ClientsAssumption DEF Callers, Nobody
  <2>5. Served'
    BY <1>1, <2>1, <2>4 DEF Served, HasLock, Serving, Locked
  <2> QED BY <2>2, <2>3, <2>5, TypePartsNext
<1> QED BY <1>3, <1>4, <1>5, <1>6

LEMMA HookStutters == HookInv /\ UNCHANGED vars => HookInv'
<1> SUFFICES ASSUME HookInv, UNCHANGED vars PROVE HookInv'
  OBVIOUS
<1> USE DEF HookInv, vars, sio2manVars, hookVars
<1>1. SioType' /\ BoolType' /\ RestType'
  BY TypeParts DEF SioType, BoolType, RestType
<1>2. DriverInv' /\ LinkInv' /\ CallsInv' /\ SlotInv'
  BY DEF DriverInv, LinkInv, CallsInv, SlotInv, NoCalls, NoneInside, Listed
<1>3. HooksRemoved' /\ Served'
  BY DEF HooksRemoved, Served, HasLock, Serving
<1> QED BY <1>1, <1>2, <1>3, TypePartsNext

LEMMA HookInvAlways == Spec => []HookInv
<1>1. HookInv /\ [Next]_vars => HookInv'
  BY CallSteps, DriverSteps, ModuleSteps, HookStutters DEF Next
<1> QED BY <1>1, HookInit, PTL DEF Spec

-----------------------------------------------------------------------------
(* Without a sio2man 2.7 *)

\* Nothing but version 2.7 sets version 2 of g_hook_data.
UnlockedInv == <<2, 7>> \notin Listed => hooked[2] = FALSE /\ owner \notin Callers

LEMMA UnlockedInit == Init => UnlockedInv
BY ClientsAssumption DEF Init, UnlockedInv, Unset, Callers, Nobody

LEMMA NewestOnly ==
    ASSUME NEW vs, <<2, 7>> \notin vs
    PROVE  Known(vs)[2] = FALSE
BY DEF Known, Supported

LEMMA UnlockedStep ==
    ASSUME HookInv, UnlockedInv, [Next]_vars
    PROVE  UnlockedInv'
<1>b. BoolType
  BY TypeParts DEF HookInv
<1>1. ASSUME UNCHANGED <<driver, registered, hooked, owner>>
      PROVE  UnlockedInv'
  BY <1>1 DEF UnlockedInv, Listed
<1>2. CASE \E d \in Drivers : LoadDriver(d)
  <2>1. registered = 0 /\ registered' = 0 /\ UNCHANGED <<hooked, owner>>
    BY <1>2 DEF LoadDriver, hookVars, HookInv, DriverInv
  <2>2. <<2, 7>> \notin Listed
    BY <2>1 DEF Listed
  <2> QED BY <2>1, <2>2 DEF UnlockedInv
<1>3. CASE RegisterLibrary
  <2> SUFFICES ASSUME <<2, 7>> \notin Listed'
               PROVE  hooked'[2] = FALSE /\ owner' \notin Callers
    BY DEF UnlockedInv
  <2>1. registered \in Nat /\ registered' = registered + 1 /\ UNCHANGED <<driver, owner>>
    BY <1>3 DEF RegisterLibrary, HookInv, TypeOK
  <2>2. <<2, 7>> \notin Listed /\ driver[registered + 1] # <<2, 7>>
    BY <2>1 DEF Listed
  <2>3. hooked[2] = FALSE /\ owner \notin Callers
    BY <2>2 DEF UnlockedInv
  <2>4. CASE stub.lib = "hook"
    <3>1. HookLibs({driver[registered + 1]})
      BY <1>3, <2>4 DEF RegisterLibrary
    <3>2. hooked'[2] = (hooked[2] \/ Known({driver[registered + 1]})[2])
      BY <3>1 DEF HookLibs
    <3>3. Known({driver[registered + 1]})[2] = FALSE
      BY <2>2, NewestOnly
    <3> QED BY <2>1, <2>3, <3>2, <3>3
  <2>5. CASE stub.lib # "hook"
    BY <1>3, <2>1, <2>3, <2>5 DEF RegisterLibrary
  <2> QED BY <2>4, <2>5
<1>4. CASE Hook
  <2> SUFFICES ASSUME <<2, 7>> \notin Listed'
               PROVE  hooked'[2] = FALSE /\ owner' \notin Callers
    BY DEF UnlockedInv
  <2>1. UNCHANGED <<driver, registered, owner>> /\ HookLibs(Listed)
    BY <1>4 DEF Hook
  <2>2. <<2, 7>> \notin Listed
    BY <2>1 DEF Listed
  <2>3. hooked[2] = FALSE /\ owner \notin Callers
    BY <2>2 DEF UnlockedInv
  <2>4. hooked'[2] = (hooked[2] \/ Known(Listed)[2])
    BY <2>1 DEF HookLibs
  <2>5. Known(Listed)[2] = FALSE
    BY <2>2, NewestOnly
  <2> QED BY <2>1, <2>3, <2>4, <2>5
<1>5. CASE EventFlagFails \/ Stop
  <2>1. UNCHANGED <<driver, registered, owner>> /\ hooked' = Unset
    BY <1>5 DEF EventFlagFails, Stop, Unhook, sio2manVars
  <2> QED BY <2>1 DEF UnlockedInv, Listed, Unset
<1>6. CASE \E c \in Callers : TakeLock(c) \/ GiveLock(c)
  <2> SUFFICES ASSUME <<2, 7>> \notin Listed'
               PROVE  hooked'[2] = FALSE /\ owner' \notin Callers
    BY DEF UnlockedInv
  <2>1. UNCHANGED <<driver, registered, hooked>>
    BY <1>6 DEF TakeLock, GiveLock, sio2manVars, hookVars
  <2>2. hooked[2] = FALSE /\ owner \notin Callers
    BY <2>1 DEF UnlockedInv, Listed
  <2>3. owner' = owner
    BY <1>6, <2>2 DEF TakeLock, GiveLock
  <2> QED BY <2>1, <2>2, <2>3
<1>7. CASE PadLocks \/ PadUnlocks
  <2>1. UNCHANGED <<driver, registered, hooked>> /\ owner' \notin Callers
    BY <1>7, ClientsAssumption DEF PadLocks, PadUnlocks, sio2manVars, hookVars, Callers, Nobody
  <2> QED BY <2>1 DEF UnlockedInv, Listed
<1>8. CASE RegisterHandler \/ SaveHandler \/ EventFlagCreated \/ StartReturns
           \/ (\E c \in Callers : Call(c) \/ SetHandler(c) \/ UnsetHandler(c))
           \/ UNCHANGED vars
  BY <1>1, <1>8 DEF RegisterHandler, SaveHandler, EventFlagCreated, StartReturns, Call,
     SetHandler, UnsetHandler, vars, sio2manVars, hookVars
<1> QED BY <1>2, <1>3, <1>4, <1>5, <1>6, <1>7, <1>8 DEF Next

LEMMA UnlockedAlways == Spec => []UnlockedInv
BY HookInvAlways, UnlockedInit, UnlockedStep, PTL DEF Spec

-----------------------------------------------------------------------------
(* Theorems *)

\* sio2man_hook.c never remembers its own handler, nor counts past what sio2man
\* registers.
THEOREM HookTypeCorrect == Spec => []TypeOK
<1>1. HookInv => TypeOK
  BY DEF HookInv
<1> QED BY <1>1, HookInvAlways, PTL

\* sio2man_hook_sio2_lock: with sio2man 2.7 the lock excludes everyone, in
\* whichever order the modules came, for any number of callers; with any other
\* sio2man, a newer one included, no call ever holds it.
THEOREM CallsAreExclusive == Spec => []Exclusive
<1>1. HookInv /\ UnlockedInv => Exclusive
  BY DEF HookInv, Served, UnlockedInv, Exclusive
<1> QED BY <1>1, HookInvAlways, UnlockedAlways, PTL

\* sio2man_hook_sio2_set_intr_handler, hookRegisterIntrHandler: between calls
\* the interrupt is sio2man's again.
THEOREM HandlerIsGivenBack == Spec => []HandlerGivenBack
<1>1. HookInv => HandlerGivenBack
  <2> SUFFICES ASSUME HookInv, phase = "up", ~overlapped, NoneInside
               PROVE  slot = "sio2man"
    BY DEF HandlerGivenBack, NoneInside
  <2>1. overlapped = FALSE
    BY DEF HookInv, TypeOK
  <2> QED BY <2>1 DEF HookInv, SlotInv
<1> QED BY <1>1, HookInvAlways, PTL

\* sio2man_hook_deinit and the failed start leave no export hooked.
THEOREM HooksAreRemoved == Spec => []HooksRemoved
<1>1. HookInv => HooksRemoved
  BY DEF HookInv
<1> QED BY <1>1, HookInvAlways, PTL

-----------------------------------------------------------------------------
(* What MmceSio2 takes for granted *)

\* Until a sio2man is up, and but for calls made while it started, nobody has
\* taken its lock.
LockInv ==
    /\ phase \in {"none", "loaded"} => hooked[2] = FALSE
    /\ overlapped = FALSE /\ phase # "up" => owner = Nobody

LEMMA LockStart == Init => LockInv
BY DEF Init, LockInv, Unset

LEMMA LockStep ==
    ASSUME HookInv, LockInv, [Next]_vars
    PROVE  LockInv'
<1> USE DEF LockInv
<1>t. SioType /\ BoolType /\ RestType
  BY TypeParts DEF HookInv
<1>1. CASE UNCHANGED vars
  BY <1>1 DEF vars, sio2manVars, hookVars
<1>2. ASSUME NEW d \in Drivers, LoadDriver(d) PROVE LockInv'
  BY <1>2 DEF LoadDriver, hookVars
<1>3. CASE RegisterLibrary
  <2>1. /\ phase' = "starting" /\ phase # "up" /\ owner' = owner
        /\ overlapped' = FALSE => overlapped = FALSE
    BY <1>3, <1>t DEF RegisterLibrary, BoolType
  <2> QED BY <2>1
<1>4. CASE RegisterHandler \/ SaveHandler
  BY <1>4 DEF RegisterHandler, SaveHandler, hookVars
<1>5. CASE Hook
  <2>1. /\ hooked' = [m \in {1, 2} |-> hooked[m] \/ Known(Listed)[m]]
        /\ UNCHANGED <<phase, owner, overlapped>>
    BY <1>5 DEF Hook, HookLibs
  <2>2. phase \in {"none", "loaded"} => Listed = {}
    BY DEF HookInv, DriverInv, Listed
  <2>3. Listed = {} => Known(Listed)[2] = FALSE
    BY DEF Known
  <2>4. phase \in {"none", "loaded"} => hooked'[2] = FALSE
    <3>1. hooked'[2] = (hooked[2] \/ Known(Listed)[2])
      BY <2>1
    <3> QED BY <2>2, <2>3, <3>1
  <2> QED BY <2>1, <2>4
<1>6. CASE EventFlagCreated \/ StartReturns \/ PadUnlocks
  BY <1>6 DEF EventFlagCreated, StartReturns, PadUnlocks, sio2manVars, hookVars
<1>7. CASE EventFlagFails \/ Stop
  BY <1>7 DEF EventFlagFails, Stop, Unhook, Unset, sio2manVars
<1>8. CASE PadLocks
  BY <1>8 DEF PadLocks, sio2manVars, hookVars
<1>9. ASSUME NEW c \in Callers, Call(c) \/ SetHandler(c) \/ UnsetHandler(c) PROVE LockInv'
  <2>1. /\ UNCHANGED <<phase, hooked, owner>>
        /\ overlapped' = FALSE => overlapped = FALSE
    BY <1>9, <1>t DEF Call, SetHandler, UnsetHandler, sio2manVars, hookVars, BoolType
  <2> QED BY <2>1
<1>10. ASSUME NEW c \in Callers, TakeLock(c) PROVE LockInv'
  <2>1. /\ UNCHANGED <<phase, hooked, overlapped>> /\ pc[c] # "idle"
        /\ hooked[2] = FALSE => owner' = owner
    BY <1>10 DEF TakeLock, Goto, sio2manVars, hookVars
  <2>2. overlapped = FALSE => phase \notin Starting
    BY <2>1 DEF HookInv, CallsInv, NoCalls
  <2> QED BY <1>t, <2>1, <2>2 DEF SioType
<1>11. ASSUME NEW c \in Callers, GiveLock(c) PROVE LockInv'
  <2>1. UNCHANGED <<phase, hooked, overlapped>> /\ owner' \in {owner, Nobody}
    BY <1>11 DEF GiveLock, sio2manVars, hookVars
  <2> QED BY <2>1
<1> QED BY <1>1, <1>2, <1>3, <1>4, <1>5, <1>6, <1>7, <1>8, <1>9, <1>10, <1>11 DEF Next

Handed == [HandOver!Next]_(HandOver!hvars)

\* A sio2man that begins to serve finds its lock free and its handler in place.
LEMMA BeginsToServe ==
    ASSUME HookInv, HookInv', LockInv, [Next]_vars, ~Serving, Serving'
    PROVE  owner' = Nobody /\ slot' = "sio2man"
<1>t. BoolType /\ BoolType'
  BY TypeParts, TypePartsNext DEF HookInv
<1>1. overlapped' = FALSE
  BY <1>t DEF Serving, BoolType
<1>2. CASE SaveHandler \/ RegisterHandler
  <2>1. phase \in Starting /\ UNCHANGED <<owner, overlapped, pc>>
    BY <1>2 DEF SaveHandler, RegisterHandler, Starting
  <2>2. overlapped = FALSE /\ phase # "up"
    BY <1>1, <2>1 DEF Starting
  <2>3. NoneInside'
    BY <2>1, <2>2 DEF HookInv, CallsInv, NoCalls, NoneInside
  <2> QED BY <1>1, <2>1, <2>2, <2>3 DEF LockInv, HookInv, SlotInv, Serving
<1>3. CASE ~(SaveHandler \/ RegisterHandler)
  <2>1. phase' = "up" => phase = "up" /\ UNCHANGED <<driver>>
    BY <1>3 DEF Next, vars, sio2manVars, LoadDriver, RegisterLibrary, Hook, EventFlagCreated,
                EventFlagFails, Unhook, StartReturns, Stop, Call, TakeLock, SetHandler,
                UnsetHandler, GiveLock, PadLocks, PadUnlocks
  <2>2. overlapped' = FALSE => overlapped = FALSE
    BY <1>3, <1>t DEF Next, vars, LoadDriver, RegisterLibrary, Hook, EventFlagCreated,
                EventFlagFails, Unhook, StartReturns, Stop, Call, TakeLock, SetHandler,
                UnsetHandler, GiveLock, PadLocks, PadUnlocks, BoolType
  <2>3. ~overlapped
    BY <1>1, <2>2
  <2> QED BY <2>1, <2>3 DEF Serving
<1> QED BY <1>2, <1>3

\* While it serves, each step is one of HandOver's or none of its business.
LEMMA ServesOn ==
    ASSUME HookInv, HookInv', [Next]_vars, Serving
    PROVE  /\ Serving'
           /\ \/ UNCHANGED <<owner, slot>>
              \/ /\ owner = Nobody /\ owner' \in Callers \cup {Pad} /\ slot' = slot
              \/ /\ owner \in Callers /\ owner' = owner
                 /\ {slot, slot'} = {"sio2man", "mmce"}
              \/ /\ owner # Nobody /\ slot = "sio2man" /\ owner' = Nobody /\ slot' = slot
<1>t. SioType /\ BoolType /\ RestType
  BY TypeParts DEF HookInv
<1>1. phase = "up" /\ overlapped = FALSE
  BY <1>t DEF Serving, BoolType
<1>2. /\ \A c \in Callers : /\ pc[c] \in Locked => owner = c
                            /\ pc[c] = "inside" => slot = "mmce"
      /\ NoneInside => slot = "sio2man"
  BY <1>1 DEF HookInv, Served, HasLock, SlotInv
<1>3. \A c \in Callers : c # Nobody /\ c # Pad
  BY ClientsAssumption DEF Callers, Nobody
<1>s. ASSUME UNCHANGED <<phase, driver>>, overlapped' = overlapped PROVE Serving'
  BY <1>s DEF Serving
\* A call is there only with mmceman, which has the lock and the handler then.
<1>4. ASSUME NEW c \in Callers, pc[c] # "idle"
      PROVE  hooked[2] = TRUE /\ saved = "sio2man"
  <2>1. module # "out"
    BY <1>4 DEF HookInv, CallsInv, NoCalls
  <2>2. <<2, 7>> \in Listed
    BY <1>1 DEF HookInv, Serving, DriverInv, Listed
  <2> QED BY <1>1, <2>1, <2>2 DEF HookInv, LinkInv, SlotInv
<1>5. CASE UNCHANGED vars
  BY <1>5, <1>s DEF vars, sio2manVars
<1>6. CASE \/ \E d \in Drivers : LoadDriver(d)
           \/ RegisterLibrary \/ RegisterHandler \/ SaveHandler
  BY <1>1, <1>6 DEF LoadDriver, RegisterLibrary, RegisterHandler, SaveHandler
<1>7. CASE Hook \/ EventFlagCreated \/ EventFlagFails \/ StartReturns \/ Stop
  BY <1>7, <1>s DEF Hook, EventFlagCreated, EventFlagFails, StartReturns, Stop, Unhook, sio2manVars
<1>8. ASSUME NEW c \in Callers, Call(c)
      PROVE  Serving' /\ UNCHANGED <<owner, slot>>
  <2>1. overlapped' = overlapped
    BY <1>1, <1>8 DEF Call, Starting
  <2> QED BY <1>8, <1>s, <2>1 DEF Call, sio2manVars
<1>9. ASSUME NEW c \in Callers, TakeLock(c)
      PROVE  Serving' /\ owner = Nobody /\ owner' \in Callers /\ slot' = slot
  BY <1>4, <1>9, <1>s DEF TakeLock, Goto, sio2manVars
<1>10. ASSUME NEW c \in Callers, SetHandler(c)
       PROVE  Serving' /\ owner \in Callers /\ owner' = owner /\ slot = "sio2man" /\ slot' = "mmce"
  <2>1. pc[c] = "swap" /\ owner = c
    BY <1>2, <1>10 DEF SetHandler, Goto, Locked
  <2>2. NoneInside
    BY <1>2, <2>1 DEF NoneInside, Locked
  <2> QED BY <1>2, <1>10, <1>s, <2>1, <2>2 DEF SetHandler, sio2manVars
<1>11. ASSUME NEW c \in Callers, UnsetHandler(c)
       PROVE  Serving' /\ owner \in Callers /\ owner' = owner /\ slot = "mmce" /\ slot' = "sio2man"
  BY <1>2, <1>4, <1>11, <1>s DEF UnsetHandler, Goto, Locked, sio2manVars
<1>12. ASSUME NEW c \in Callers, GiveLock(c)
       PROVE  Serving' /\ owner # Nobody /\ slot = "sio2man" /\ owner' = Nobody /\ slot' = slot
  <2>1. pc[c] = "unlock" /\ owner = c
    BY <1>2, <1>12 DEF GiveLock, Goto, Locked
  <2>2. NoneInside
    BY <1>2, <2>1 DEF NoneInside, Locked
  <2> QED BY <1>2, <1>3, <1>4, <1>12, <1>s, <2>1, <2>2 DEF GiveLock, sio2manVars
<1>13. CASE PadLocks
  BY <1>13, <1>s DEF PadLocks, sio2manVars
<1>14. CASE PadUnlocks
  BY <1>14, <1>s, ClientsAssumption DEF PadUnlocks, sio2manVars, Nobody
<1> QED BY <1>5, <1>6, <1>7, <1>8, <1>9, <1>10, <1>11, <1>12, <1>13, <1>14 DEF Next

LEMMA HandedStep ==
    ASSUME HookInv, HookInv', LockInv, [Next]_vars
    PROVE  Handed
<1> USE DEF Handed, HandOver!Next, HandOver!hvars, HandOver!Acquire, HandOver!Exchange,
            HandOver!LetGo, holder, handler
<1>1. CASE ~Serving /\ ~Serving'
  BY <1>1
<1>2. CASE ~Serving /\ Serving'
  BY <1>2, BeginsToServe
<1>3. CASE Serving
  BY <1>3, ServesOn
<1> QED BY <1>1, <1>2, <1>3

\* sio2man_hook.c and mmce_sio2.c together: in whichever order mmceman and a
\* sio2man 2.7 come, and for any callers, the lock and the handler that
\* mmce_sio2.c finds behind its hooks change hands as HandOver says, which is
\* what module MmceSio2 takes for granted of them.
THEOREM HookHandsOver == Spec => HandedOver
<1>1. Init => HandOver!Init
  BY DEF Init, HandOver!Init, holder, handler, Serving
<1>2. HookInv /\ HookInv' /\ LockInv /\ [Next]_vars => [HandOver!Next]_(HandOver!hvars)
  BY HandedStep DEF Handed
<1>3. HookInv /\ LockInv /\ [Next]_vars => LockInv'
  BY LockStep
<1> QED BY <1>1, <1>2, <1>3, LockStart, HookInvAlways, PTL DEF Spec, HandedOver, HandOver!Spec

=============================================================================
