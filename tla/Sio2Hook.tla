------------------------------ MODULE Sio2Hook ------------------------------
(***************************************************************************)
(* How mmceman gets sio2man's lock and interrupt handler (sio2man_hook.c,  *)
(* ioplib.c) in whatever order the two modules are loaded, and how it      *)
(* starts and stops (mmceman.c, mmce_sio2_init and _deinit).               *)
(*                                                                         *)
(* MmceSio2 takes the lock to be real and sio2man's handler to be known;   *)
(* this module says when they are.  A call is  lock ; transfers ; unlock.  *)
(*                                                                         *)
(* External: modload, which loads, starts and stops one module at a time;  *)
(* loadcore, intrman and sio2man; sio2man's other clients.  A module is    *)
(* stopped with no call in it, and sio2man is not started by code that was *)
(* linked to a module that is gone.                                        *)
(***************************************************************************)
EXTENDS Naturals, Sequences

CONSTANTS
    Threads,   \* the threads that call into mmceman once it is resident
    Loader,    \* modload's thread: it runs __start, with its pings
    Pad,       \* any other client of sio2man
    Drivers    \* the sio2man modules: for each, the versions <<major, minor>>
               \* of "sio2man" it registers, one after the other

ASSUME ClientsAssumption ==
    Loader \notin Threads /\ Pad \notin Threads \cup {Loader}
        /\ "nobody" \notin Threads \cup {Loader, Pad}
ASSUME DriversAssumption ==
    \A d \in Drivers :
        /\ d \in Seq({1, 2} \X Nat)
        /\ d # <<>>
        /\ \A i, j \in 1 .. Len(d) : i # j => d[i][1] # d[j][1]

Callers == Threads \cup {Loader}
Nobody == "nobody"

VARIABLES
    driver,     \* the sio2man in memory, <<>> if there is none
    phase,      \* how far it is: none, loaded, starting, saving, up
    registered, \* how many of its versions loadcore's list holds
    stub,       \* where its imports RegisterLibraryEntries (lib) and
                \* RegisterIntrHandler (intr) lead: real or hook
    slot,       \* interrupt_handler_table[IOP_IRQ_SIO2].handler
    owner,      \* the holder of sio2man's lock
    module,     \* mmceman: out, hooking, starting, resident
    hooked,     \* g_hook_data[major - 1]: are m_lib and sio2man's functions
                \* m_23_psio2_pad_transfer_init, m_26_... set?
    loadcore,   \* loadcore's export 6, real or hook; g_loadcore_lib is set
                \* while it is the hook
    intrman,    \* intrman's export 4, likewise
    saved,      \* g_sio2man_intr_handler_ptr
    pc,         \* where each caller is
    overlapped  \* history: was a call under way while sio2man started?

sio2manVars == <<driver, phase, registered, stub>>
hookVars == <<module, hooked, loadcore, intrman, saved>>
vars == <<sio2manVars, slot, owner, hookVars, pc, overlapped>>

Starting == {"starting", "saving"}
Locked == {"swap", "inside", "unlock"}

TypeOK ==
    /\ driver \in Drivers \cup {<<>>}
    /\ phase \in {"none", "loaded", "up"} \cup Starting
    /\ registered \in 0 .. Len(driver)
    /\ stub \in [lib : {"real", "hook"}, intr : {"real", "hook"}]
    /\ slot \in {"none", "sio2man", "mmce"}
    /\ owner \in Callers \cup {Pad, Nobody}
    /\ module \in {"out", "hooking", "starting", "resident"}
    /\ hooked \in [{1, 2} -> BOOLEAN]
    /\ loadcore \in {"real", "hook"}
    /\ intrman \in {"real", "hook"}
    /\ saved \in {"none", "sio2man"}
    /\ pc \in [Callers -> {"idle", "lock"} \cup Locked]
    /\ overlapped \in BOOLEAN

Unset == [m \in {1, 2} |-> FALSE]

Init ==
    /\ driver = <<>>
    /\ phase = "none"
    /\ registered = 0
    /\ stub = [lib |-> "real", intr |-> "real"]
    /\ slot = "none"
    /\ owner = Nobody
    /\ module = "out"
    /\ hooked = Unset
    /\ loadcore = "real"
    /\ intrman = "real"
    /\ saved = "none"
    /\ pc = [c \in Callers |-> "idle"]
    /\ overlapped = FALSE

-----------------------------------------------------------------------------
(* sio2man is loaded and started *)

\* Its imports are linked to what the exports hold now.
LoadDriver(d) ==
    /\ phase = "none"
    /\ driver' = d
    /\ phase' = "loaded"
    /\ stub' = [lib |-> loadcore, intr |-> intrman]
    /\ UNCHANGED <<registered, slot, owner, hookVars, pc, overlapped>>

\* IRX_VER(1, 2) and IRX_VER(2, 7): "one semaphore for locks for all devices"
Supported == {<<1, 2>>, <<2, 7>>}

\* _sio2man_hook, for each of the versions vs.
Known(vs) == [m \in {1, 2} |-> \E v \in vs \cap Supported : v[1] = m]

\* Faulty: the table is indexed by the major version itself.
HookLibsOffByOne(vs) == hooked' = [m \in {2, 3} |-> hooked[m - 1] \/ Known(vs)[m - 1]]

\* ... which adds to what is hooked; with both it unhooks loadcore.
HookLibs(vs) == hooked' = [m \in {1, 2} |-> hooked[m] \/ Known(vs)[m]]

\* Neither module is started while the other is.
ModuleSettled == module \in {"out", "resident"}
DriverSettled == phase \notin Starting

\* hookRegisterLibraryEntries, or loadcore's own.
RegisterLibrary ==
    /\ phase \in {"loaded", "starting"}
    /\ registered < Len(driver)
    /\ ModuleSettled
    /\ "hook" \in {stub.lib, stub.intr} => module = "resident"
    /\ phase' = "starting"
    /\ registered' = registered + 1
    /\ IF stub.lib = "hook"
       THEN /\ HookLibs({driver[registered + 1]})
            /\ loadcore' = IF hooked'[1] /\ hooked'[2] THEN "real" ELSE loadcore
       ELSE UNCHANGED <<hooked, loadcore>>
    /\ overlapped' = (overlapped \/ \E c \in Callers : pc[c] # "idle")
    /\ UNCHANGED <<driver, stub, slot, owner, module, intrman, saved, pc>>

\* intrman takes the handler if the entry is empty, and refuses it if not.
RegisterHandler ==
    /\ phase = "starting"
    /\ registered = Len(driver)
    /\ \/ /\ slot = "none"
          /\ slot' = "sio2man"
          /\ phase' = IF stub.intr = "hook" THEN "saving" ELSE "up"
       \/ /\ slot # "none"
          /\ phase' = "up"
          /\ UNCHANGED slot
    /\ UNCHANGED <<driver, registered, stub, owner, hookVars, pc, overlapped>>

\* Faulty: unhooks without remembering the handler.
SaveHandlerForgotten ==
    /\ phase = "saving"
    /\ phase' = "up"
    /\ intrman' = "real"
    /\ UNCHANGED <<driver, registered, stub, slot, owner, module, hooked,
                   loadcore, saved, pc, overlapped>>

\* hookRegisterIntrHandler, after pRegisterIntrHandler returned 0.
SaveHandler ==
    /\ phase = "saving"
    /\ phase' = "up"
    /\ IF saved = "none"
       THEN saved' = "sio2man" /\ intrman' = "real"
       ELSE UNCHANGED <<saved, intrman>>
    /\ UNCHANGED <<driver, registered, stub, slot, owner, module, hooked,
                   loadcore, pc, overlapped>>

-----------------------------------------------------------------------------
(* mmceman is started and stopped *)

\* ioplib_iterateByName("sio2man", ...)
Listed == {driver[i] : i \in 1 .. registered}

\* Faulty: the modules linked before keep calling the originals.
RelinkedNot == stub

\* ioplib_relinkExports: the imports of every module linked so far.
Relinked == IF phase = "none" THEN stub ELSE [lib |-> "hook", intr |-> "hook"]

\* sio2man_hook_init: with any sio2man in the list, whatever its version,
\* loadcore and intrman are left alone.
Hook ==
    /\ module = "out"
    /\ DriverSettled
    /\ module' = "hooking"
    /\ saved' = slot
    /\ HookLibs(Listed)
    /\ IF Listed = {}
       THEN /\ loadcore' = "hook"
            /\ intrman' = "hook"
            /\ stub' = Relinked
       ELSE UNCHANGED <<loadcore, intrman, stub>>
    /\ UNCHANGED <<driver, phase, registered, slot, owner, pc, overlapped>>

\* CreateEventFlag succeeds: __start goes on to its pings.
EventFlagCreated ==
    /\ module = "hooking"
    /\ module' = "starting"
    /\ UNCHANGED <<sio2manVars, slot, owner, hooked, loadcore, intrman, saved, pc,
                   overlapped>>

\* Faulty: loadcore's export is restored, intrman's is not.
UnhookHalf ==
    /\ module' = "out"
    /\ hooked' = Unset
    /\ saved' = "none"
    /\ loadcore' = "real"
    /\ UNCHANGED <<sio2manVars, slot, owner, intrman, pc, overlapped>>

\* sio2man_hook_deinit restores the exports; the imports that were relinked
\* keep leading to the hook.  Then the module's memory goes.
Unhook ==
    /\ module' = "out"
    /\ hooked' = Unset
    /\ saved' = "none"
    /\ loadcore' = "real"
    /\ intrman' = "real"
    /\ UNCHANGED <<sio2manVars, slot, owner, pc, overlapped>>

\* CreateEventFlag fails: mmce_sio2_init returns -2 and the module leaves.
EventFlagFails == module = "hooking" /\ Unhook

\* mmce_init is over, the file system is registered.
StartReturns ==
    /\ module = "starting"
    /\ pc[Loader] = "idle"
    /\ module' = "resident"
    /\ UNCHANGED <<sio2manVars, slot, owner, hooked, loadcore, intrman, saved, pc,
                   overlapped>>

Stop ==
    /\ module = "resident"
    /\ DriverSettled
    /\ \A c \in Callers : pc[c] = "idle"
    /\ Unhook

-----------------------------------------------------------------------------
(* A call *)

Goto(c, from, to) == pc[c] = from /\ pc' = [pc EXCEPT ![c] = to]

\* The pings of mmce_init; later the calls of the file system.
Call(c) ==
    /\ module = IF c = Loader THEN "starting" ELSE "resident"
    /\ Goto(c, "idle", "lock")
    /\ overlapped' = (overlapped \/ phase \in Starting)
    /\ UNCHANGED <<sio2manVars, slot, owner, hookVars>>

\* Faulty: looks whether version 1 is hooked.
TakeLockFirst(c) ==
    /\ Goto(c, "lock", "swap")
    /\ IF hooked[1] THEN owner = Nobody /\ owner' = c ELSE UNCHANGED owner
    /\ UNCHANGED <<sio2manVars, slot, hookVars, overlapped>>

\* sio2man_hook_sio2_lock: only the lock of version 2 is ever taken; without
\* one the call goes on unlocked.
TakeLock(c) ==
    /\ Goto(c, "lock", "swap")
    /\ IF hooked[2] THEN owner = Nobody /\ owner' = c ELSE UNCHANGED owner
    /\ UNCHANGED <<sio2manVars, slot, hookVars, overlapped>>

\* sio2man_hook_sio2_set_intr_handler(mmce_sio2_intr_handler_ptr, ...)
SetHandler(c) ==
    /\ Goto(c, "swap", "inside")
    /\ slot' = "mmce"
    /\ UNCHANGED <<sio2manVars, owner, hookVars, overlapped>>

\* sio2man_hook_sio2_set_intr_handler(NULL, NULL)
UnsetHandler(c) ==
    /\ Goto(c, "inside", "unlock")
    /\ slot' = saved
    /\ UNCHANGED <<sio2manVars, owner, hookVars, overlapped>>

\* Faulty: the lock is kept.
GiveLockNever(c) ==
    /\ Goto(c, "unlock", "idle")
    /\ UNCHANGED <<sio2manVars, slot, owner, hookVars, overlapped>>

\* sio2man_hook_sio2_unlock: whoever has the lock, sio2man lets the next in.
GiveLock(c) ==
    /\ Goto(c, "unlock", "idle")
    /\ owner' = IF hooked[2] THEN Nobody ELSE owner
    /\ UNCHANGED <<sio2manVars, slot, hookVars, overlapped>>

(* Another client of sio2man: its transfers end with sio2man's interrupt. *)
PadLocks ==
    /\ phase = "up"
    /\ owner = Nobody
    /\ owner' = Pad
    /\ UNCHANGED <<sio2manVars, slot, hookVars, pc, overlapped>>

PadUnlocks ==
    /\ owner = Pad
    /\ slot = "sio2man"
    /\ owner' = Nobody
    /\ UNCHANGED <<sio2manVars, slot, hookVars, pc, overlapped>>

-----------------------------------------------------------------------------
Next ==
    \/ \E d \in Drivers : LoadDriver(d)
    \/ RegisterLibrary \/ RegisterHandler \/ SaveHandler
    \/ Hook \/ EventFlagCreated \/ EventFlagFails \/ StartReturns \/ Stop
    \/ \E c \in Callers :
          Call(c) \/ TakeLock(c) \/ SetHandler(c) \/ UnsetHandler(c) \/ GiveLock(c)
    \/ PadLocks \/ PadUnlocks

Spec == Init /\ [][Next]_vars

\* Once it has the lock a call runs on.
Running(c) == SetHandler(c) \/ UnsetHandler(c) \/ GiveLock(c)

\* A call runs on, sio2man's lock lets its waiters in by turns, and another
\* client that gets its interrupt gives the lock back.
FairSpec ==
    /\ Spec
    /\ \A c \in Callers : WF_vars(Running(c)) /\ SF_vars(TakeLock(c))
    /\ WF_vars(PadUnlocks)

-----------------------------------------------------------------------------
(* Properties *)

\* sio2man 2.7 is up, and was not started under a call.
Serving ==
    /\ phase = "up"
    /\ <<2, 7>> \in {driver[i] : i \in 1 .. Len(driver)}
    /\ ~overlapped

\* A call has sio2man's lock to itself, and its transfers interrupt mmceman.
HasLock ==
    \A c \in Callers :
        /\ pc[c] \in Locked => owner = c
        /\ pc[c] = "inside" => slot = "mmce"

\* Whichever of mmceman and sio2man 2.7 came first, and however often mmceman
\* was stopped and started again, calls have the lock.  Under every other
\* sio2man they never do, a 2.8 included, which the documentation counts as
\* supported ("SIO2MAN version 2.7 or newer") and _sio2man_hook does not: their
\* transfers go on unlocked beside those of sio2man's other clients.
Exclusive ==
    /\ Serving => HasLock
    /\ <<2, 7>> \notin Listed => owner \notin Callers

\* Between calls sio2man's interrupts go to sio2man, whichever version it is
\* and in whichever order the modules came.
HandlerGivenBack ==
    phase = "up" /\ ~overlapped /\ (\A c \in Callers : pc[c] # "inside") =>
        slot = "sio2man"

\* No export leads into a module that has left or failed to start.
HooksRemoved == module = "out" => loadcore = "real" /\ intrman = "real"

\* From when sio2man 2.7 serves on, this is the lock and this the handler that
\* MmceSio2 takes for granted.
holder == IF Serving THEN owner ELSE Nobody
handler == IF Serving THEN slot ELSE "sio2man"

HandOver == INSTANCE HandOver

\* With sio2man 2.7, however it and mmceman were loaded, the SIO2 changes hands
\* as it does in MmceSio2.
HandedOver == HandOver!Spec

\* Every call gets its turn and returns, and so do sio2man's other clients.
EveryoneServed ==
    /\ \A c \in Callers : pc[c] # "idle" ~> pc[c] = "idle" \/ overlapped
    /\ owner = Pad /\ Serving ~> owner # Pad

=============================================================================
