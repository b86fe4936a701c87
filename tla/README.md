# Verification of mmceman

TLA+ modules, TLC runs and TLAPS proofs for **mmceman**, **mmcedrv** and
**mmceigr**, the PlayStation 2 IOP modules that talk to memory card emulators
(MMCE) over the SIO2. The models are translated from `mmceman/src/*.c` and
`mmceman/include/*.h`; line numbers below are of those files.

## 1. The system

| Component | Source | State | Operations |
|---|---|---|---|
| Transfer engine | `mmce_sio2.c` | event flag, kernel alarm, `mmce_sio2_use_alarm`, `mmce_port`, `sio2_save_ctrl`, the SIO2 registers, the interrupt handler slot, sio2man's lock | `lock`, `unlock`, `tx_rx_pio`, `rx_dma`, `rx_mixed`, `tx_mixed`, the interrupt and the timeout handler, `set_use_alarm`, `set_port`, `update_ack_wait_cycles` |
| Chunking | `mmce_sio2.c` 237-592 | offset, elements left, remainder, what is in the FIFO, whether the card must be asked for "ready" | the loops of `rx_dma`, `rx_mixed`, `tx_mixed` |
| File system driver | `mmce_fs.c` | `mmce_fs_fds[16]`, `last_unit`, `file->privdata` | the iomanX operations `open` ... `ioctl2` |
| Commands | `mmce_cmds.c` | none | `ping`, get/set card, channel and game ID, `reset`, `set_card_channel` |
| Block driver | `mmcedrv.c` | the configuration struct | `get_size`, `read_sector`, `read`, `write`, `lseek`, `config_set` |
| SIO2MAN hook | `sio2man_hook.c`, `ioplib.c` | export tables of sio2man, loadcore and intrman; the saved entries | `hook_init`, `hook_deinit`, `lock`, `unlock`, `set_intr_handler`, the hooked `RegisterLibraryEntries` and `RegisterIntrHandler` |
| Start and stop | `mmceman.c` | none of its own | `__start`, `__stop`, `mmce_init` |
| In-game reset | `mmceigr.c` | none of its own | one shot: switch the card, poll its status |

How they interact. An application calls iomanX, iomanX a handler of
`mmce_fs.c` (the EE side comes through the one thread of fileXio, other IOP
modules on threads of their own). The handler chooses the port
(`mmce_fs_update_unit`), takes sio2man's lock through the hook, exchanges
packets through the engine, and unlocks. `mmcedrv.c` is the same stack without
iomanX, for files mmceman opened before. A transfer ends in one of two
callbacks: the SIO2's interrupt, for which the lock installed mmceman's handler,
or the kernel's alarm; both set a bit of one event flag the caller waits on.
sio2man's other clients (pads, memory cards) wait for the same lock and use the
same interrupt slot and control register when they have it.

What is hard here: the interrupt and the alarm race for the end of a transfer,
and share one flag with every earlier transfer; handler and control register
belong to two drivers by turns; the port, the handle table and the alarm setting
are changed outside the lock; handles are stored long after they were chosen;
command and card must stay in step packet by packet when one of them gives up;
buffers are cut at 256 bytes and 16 elements. `PROJECT.json` lists the hazards
at their lines, each with its properties or with the reason it has none.
`mmceigr` shares no state with the others: it runs when the game has ended.

What makes each component correct:

* engine: a result is that of the transfer asked for; a timeout is one's own; a
  transfer starts clean; sio2man gets back what it lent; the lock is given back;
* chunking: every byte moves once, to its own place, within queue and window;
* commands: host and card agree on the next packet; a refusal is reported, and
  nothing more is sent after it;
* file system: packets go to the caller's card and name the caller's file; two
  files never share a handle; nothing is left behind; calls return;
* hook, start and stop: exclusive access whatever the order in which modules are
  loaded; sio2man gets its handler back; nothing is hooked by a module that left;
* in-game reset: it awaits a change it started and no longer than the polls last,
  leaves other slots alone, does each slot it was asked for whatever happened to the
  other, and gives the control register back.

## 2. The modules

| Module | Models | Notes |
|---|---|---|
| `Sio2Promise` | what the engine promises a caller | abstract: an owner, one request, an answer or an expiry, a report |
| `HandOver` | how the SIO2 changes hands: who holds it, whose interrupt handler is in | abstract: taken, handler exchanged by the holder, exchanged back, let go |
| `MmceSio2` | the engine | implements `Sio2Promise` (`PromiseKept`) and `HandOver` (`HandedOver`) |
| `MmceSio2Proofs` | theorems about `MmceSio2` | |
| `MmceXfer` | the chunking loops | one batch is one request of `MmceSio2` |
| `MmceXferProofs` | theorems about `MmceXfer` | |
| `MmceCommands` | packets per command, where the status is | constant tables shared by the next two |
| `MmceCall` | one command after another against a card that answers, refuses, garbles or is silent | |
| `MmceCallProofs` | theorems about `MmceCall` | |
| `FsPromise` | what the file system driver promises iomanX | abstract: open files own descriptors, calls are acts of a card |
| `FsPromiseProofs` | a theorem about `FsPromise` | |
| `MmceFs` | handle table, port, lock, calls, what the cards hold open | uses `MmceCommands`; implements `FsPromise` (`FilesKept`) |
| `MmceFsProofs` | theorems about `MmceFs` | |
| `MmceFsRefinement` | `MmceFs` implements `FsPromise` | |
| `Sio2Hook` | hooking sio2man, `__start` and `__stop`, the lock and the handler as the hook gives them | says when what `MmceSio2` takes for granted is so; implements `HandOver` too |
| `Sio2HookProofs` | theorems about `Sio2Hook` | |
| `MmceIgr` | the in-game reset | stands alone |
| `MmceIgrProofs` | theorems about `MmceIgr` | |
| `MC*` | instances for TLC | |

### MmceSio2

`pc` follows a thread: `lock` and `save`, `swap` (128-141), then transfer after
transfer: `ready` to `arm` (reset, queue, start: 186-208), `wait` (211),
`blocked` and `woken` (214), and either `abortclear` (215-220) or
`clear`, `copy` (223-231); then `restore`, `release` (143-153). `kind` is what
decides about the alarm: "timed" is `tx_rx_pio` and `tx_mixed`, which always
set it, "untimable" is `rx_dma` and `rx_mixed`, which ask `use_alarm` before
setting (278, 381) and again before cancelling (291, 394). `Times` is that
question, in `ArmAlarm` and in `Cancel`. `SetAlarm` refuses an alarm that is
pending already and the code ignores the refusal: `armed` remembers it. The
event flag is the kernel's: a set bit satisfies a waiter with the bits of that
moment, a `WaitEventFlag` that finds one returns at once, and only
`ClearEventFlag` clears. The hardware finishes whenever it likes and runs the
handler that is installed then. `SetUseAlarm` is the devctl or `config_set`
call on another thread, at any moment; `disturbed` remembers, from then on, that
it fell into another thread's call, and the properties about timeouts speak of
the behaviours before that. `Sio2Promise` has the same word, and its `Disturb`.
Abstracted: what is transferred (`MmceXfer`), which port (`MmceFs`), and the
settings of that port, which the lock writes (`portN_ctrl`, 139-140): they decide
when a transfer ends, and the hardware here ends one whenever it likes.

### MmceXfer

One transfer with its actual sizes and offsets. `stream` counts the bytes that
went over the wire, `fifo` what the receive FIFO holds, `room` what the card has
said it has room for and was not sent yet; they are there for the properties.
Asked by `tx_mixed` whether it is ready, the card answers either way
(`TxAnswered`), and the code goes on either way, as it looks at neither byte of
`rx_buf` (457-467); `unheeded` remembers a "not ready". `Timed` says whether a
batch has an alarm: `tx_mixed` always sets one (492, 533, 570, and 211 in `tx_rx_pio`), the
receive paths ask `mmce_sio2_use_alarm` (278, 381), which `SetUseAlarm` changes
between transfers. That it may change during one is `MmceSio2`'s.

### MmceCommands, MmceCall

The handlers are the same code with other tables: how many packets, which
answer holds the card's return value, at which byte the code looks for it.
`MmceCommands` has the tables, one line per kind of command. In `MmceCall`
packets are exchanged in order; the card side (`CardPackets`, `CardStatusByte`) is
external, taken from `docs/MMCE FS Protocol.md`. That a card takes the first packet
of a command as a new command, whatever it was in (`Understood`), is an assumption:
it is what lets the two find each other again after a lost packet. `Garbled` is
an answer without the reply constant, which the code checks in the first packet
only; `Silent` a packet without /ACK, which the card may or may not have taken.

### MmceFs

A call goes through `update` and `setport` (`mmce_fs_update_unit`, in two
steps, as it stores `last_unit` and then the port), `prepare` (find a slot, or
read the descriptor out of it), `lock`, `send`, the unlock, and the last part of
the handler, which stores or frees the descriptor after the unlock. `Overlap` is
the set of commands two callers may be inside of together: `{}` is fileXio's one
thread. External, and assumed: iomanX forgets a file when its close returns,
whatever it returns; an application has one call at a time on a file; it resets
a card only with none of its files open; a card gives out descriptors below 255
that it does not have in use. The lock is one step: that it is real, and that
every packet is answered or times out, is `MmceSio2`. `NoExchange` is the devctl
that sends nothing: it still moves the port.

`FsPromise` is the same driver as iomanX sees it: `owns` gives each open file a
descriptor of its card, `held` is what the cards' descriptors stand for, and a
call (`asks`) is asked, then served by its card in one act on the caller's own
file or failed, then reported. There is no table, no port, no lock and no packet.
With packets lost a failed call may have been served (`Fail`). The mapping reads
an open file's descriptor out of its slot of `mmce_fs_fds`, whatever that slot
holds by then (`owns`), and takes a call for served from the moment the answer is
in (`Stage`). A slot stored twice, freed early or read late is then an act on
another's file, which `FsPromise` does not have. It does not speak of the card
a command without a handle goes to, nor of how slots are used up: `RightCard` and
`NothingLeft` do.

### HandOver

`MmceSio2` takes sio2man's lock and handler as they are; `Sio2Hook` has to find
them first, in versions of sio2man that may not be there yet, and leaves out the
transfers. What they share is the moment the SIO2 changes hands, and `HandOver`
is that moment: only the holder exchanges the handler, and nobody lets go, or
comes to hold, but with sio2man's in place. `holder` is the lock in `MmceSio2`.
In `Sio2Hook` it is the lock of a sio2man 2.7 that is up (`Serving`), and without
one the mapping shows a SIO2 that nobody holds; a sio2man started under a call is
left aside here as in the other properties.
`Sio2Hook` implementing what `MmceSio2` relies on is what connects the two.

### Sio2Hook

`driver`, `phase` and `registered` follow a sio2man module: loaded (its imports
are linked, `stub`), each of its versions registered with loadcore, its handler
registered with intrman. `module` follows mmceman: `Hook` (226-264) takes the
handler it finds and either the sio2man it finds or, if there is none at all, the
exports of loadcore and intrman; every import linked so far is patched to the new
exports (`Relinked`, ioplib.c 88-101). A sio2man that registers through the hook
is hooked (`RegisterLibrary`), and its handler is saved after intrman took it, in
a step of its own (`SaveHandler`, 143-153). When both versions are hooked
loadcore is given back, and intrman with the handler. `EventFlagFails` is
`mmce_sio2_init`'s way out, `Stop` is `__stop`; both go through `Unhook`, which
restores the exports and patches no import. A call is `TakeLock`, `SetHandler`,
`UnsetHandler`, `GiveLock`: with version 2 not hooked the first and the last do
nothing, as the code says.

Only sio2man 1.2 and 2.7 are hooked (`Supported`), and only version 2 has a lock
that is used, so that exclusive access is a matter of 2.7 alone. The repository's
README (68) counts "SIO2MAN version 2.7 or newer" as supported. `Exclusive` says
both: with a 2.7 that is up every call has the lock, in any order of loading, and
with no 2.7 no call ever has it, the 2.8 of `MCHook` included. `HandedOver` and
`EveryoneServed` are about 2.7.

External, and assumed: modload loads, starts and stops one module at a time; the
IOP has one sio2man, with at most one library per major version, 1 or 2; a module
is stopped with no call in it; a sio2man that was linked while the exports were
hooked is not started after mmceman left; mmceman is the only module with this
hook. The module's memory is fresh at each start, as modload's is.
`overlapped` remembers that a sio2man was started under a call: intrman then
refuses its handler, as mmceman's is in the entry, and sio2man is without
interrupts, which the properties leave aside.

### MmceIgr

The program of mmceigr.c as it is: the two slots, for each `cmd_set_card` and the
poll loop, every transfer begun (`Transfer`), ended by the SIO2 (`Ends`) and
looked at. `ports` are the settings of each slot's port, which the program
overwrites for the slots it was asked for (144-145) and does not restore, as
against the control register (165): `LeftBehind` says what remains, which with the
slots asked for all done is their ports, and nothing else. External: a card may answer, have its answer lost or garbled, or not
take a packet; it is busy from the change on and ready whenever it likes. The
SIO2 ends every transfer, by itself if need be (`PCTRL1_ACK_TIMEOUT_AFTER`).

## 3. The runs

All run with `tlc -workers 2 -config <cfg> <MC module>`, within two minutes each.

| Run | Shows | Bounds |
|---|---|---|
| `MCSio2` | with the alarm setting changing at any moment: types, completions are one's own, sio2man undisturbed, no handler exchanged under a running transfer; until a change falls into a call, timeouts are one's own and starts are clean; `Sio2Promise` and `HandOver` are implemented; and the lock is released, if the alarms stay on or the card answers | 2 threads and a sio2man client, 3 transfers a call: a transfer meets what the first left, and what the second made of it |
| `MCSio2Race` | **violation** of `GivenUpInTime`: a changed setting makes a later transfer time out for an alarm it did not set | 2 transfers a call |
| `MCXfer` | all properties of the chunking | 21 sizes around 0, 256, 15 and 16 elements, 2 and 3 queues; any operation after any other, the alarms on or off, the card ready or not |
| `MCXferReady` | **violation** of `ReadyHeeded`: a card that is not ready is sent the data | the same |
| `MCCall` | host and card in step, refusals reported, nothing sent after one | every command but the sector read, after every other; no bound |
| `MCCallSector` | **violation**: a sector read goes on after a refusal | |
| `MCFsSerial` | right card, right file, distinct handles, `FsPromise` implemented, with lost packets, refused closes and a reserved descriptor | one caller, 2 cards, 2 files, 2 slots, 2 descriptors: the table and the card both run out |
| `MCFsOverlap` | right file, nothing left behind but the slots of reserved descriptors, `FsPromise` implemented, and every call returns, with two callers inside commands other than opens | 2 callers, 1 card, 3 files, 2 slots, 3 descriptors, one of them reserved |
| `MCFsRoute` | **violation**: two overlapping calls, a packet goes out on the other port | 2 callers |
| `MCFsSlots` | **violation**: two overlapping opens end with one handle | 2 callers, 2 slots |
| `MCHook` | exclusive access with sio2man 2.7 and none with another 2.x, the handler given back, no hook of mmceman's left behind, the SIO2 handed over as `HandOver` says, every call and every other client served, in every order of loading, starting and stopping | the loader, 2 threads, another client; sio2man with 1.2 and 2.7, with 2.7 only, with 1.1, with 2.8; mmceman started and stopped without a bound |
| `MCIgr` | changes awaited, other slots left alone, every slot asked for done and the control register as found, and the program ends | both slots, with and without cards, the code's 15 polls |

Why these bounds are enough to be interesting: at most one thread is inside the
engine, so two threads and a sio2man client give every hand-over there is, and
what one transfer leaves can be met by the next of the same call, the next call
and the other client. The handle table's size only matters as "a slot is free or
not", two slots and three files reach both. `MaxRounds` (transfers of one call)
and the sizes of `MCXfer` are the only caps; the theorems have neither.

Deadlocks are looked for in all runs but two. `MCIgr`: a program that has ended
stops. `MCHook`: a sio2man that is started under a call (`overlapped`) is refused
its handler, and its next client waits for an interrupt for ever; TLC finds this
as a deadlock, and the hazard at sio2man_hook.c 144 records it.

Fairness. `RunSpec` of `MmceSio2`: a thread inside the lock runs on, and an alarm
that was set expires. That the card ever answers is not assumed: `LockReleased`
says that the lock is given back if either the alarms are always on or the
hardware always finishes, because with the alarms off the code waits for it
forever, by design. Nothing says that a thread gets the lock. `FairSpec` of
`MmceFs`: the handler's steps are weakly fair, which the engine's `LockReleased`
justifies, and taking the lock strongly fair, as sio2man's semaphore serves its
waiters by turns. `FairSpec` of `Sio2Hook` is the same for a call, and another
client that gets its interrupt gives the lock back; nothing is asked of modload.
The priority inversion the repository's README describes as a known issue lies
outside: it is a thread inside the lock that never runs. `FairSpec` of `MmceXfer`:
the code runs on, and an alarm that was set expires; the card owes nothing, so that
`TransferEnds` is, like `LockReleased`, about transfers with their alarms
(`Timed`), or about a card that completes (`WF_vars(RxComplete)`, its second
part). `FairSpec` of `MmceIgr`: the program runs on and
every transfer ends; nothing is asked of the cards.

### What the violations say

* `MCSio2Race`: `mmce_sio2_set_use_alarm` takes no lock. If the setting goes
  from on to off during an `rx_dma` or `rx_mixed`, the alarm is set and not
  cancelled; it expires in a later transfer, which returns -1 early, or leaves a
  TIMEOUT bit that ends the next one at once. The protocol gives the card its
  two seconds (`docs/MMCE FS Protocol.md` 117, 139).
* `MCXferReady`: before each 4 KB of a write, and at its end, `mmce_sio2_tx_mixed`
  exchanges the packet "Wait ready" and goes on when it completes, whatever it
  received. The protocol has a value for a card that is not ready (178), and "Write
  ready signifies that there is a 4KB empty buffer ready to write to" (210). With a
  card that says "not ready" its buffer is overrun; a card that delays its answer
  until it is ready, as `WindowKept` has it, is served well.
* `MCCallSector`: `mmcedrv_read_sector` looks for the return value in byte 0x9 of
  the answer (116); the protocol puts it in byte 0x0A (528), with 0x9 the last
  byte of the length, answered with 0. A refusal is not seen, and the data
  packets are sent though "the PS2 will not proceed to the second packet" (131;
  552-554 apply it to sector reads).
* `MCFsRoute`: `last_unit` and `mmce_port` are one per module and are set before
  the lock. A second call for the other unit redirects the packets of the first;
  a second call for the same unit may pass `mmce_fs_update_unit` between the two
  assignments and send on the old port (the shortest trace).
* `MCFsSlots`: `mmce_fs_find_free_handle` reserves nothing, and the slot stays
  below 0 until the card answered. Two opens take the same slot; the second
  answer overwrites the first. fileXio's thread cannot do this; two IOP modules
  that call iomanX can.

## 4. The proofs

`tlapm <module>.tla` for each of the seven modules `*Proofs` and for
`MmceFsRefinement`. Every safety property the runs check is proved, for all values of the constants that satisfy
the assumptions named below.

`MmceSio2Proofs`, for any set of threads, any bound on transfers and any
settings. The invariants the runs check are not inductive: that a completion is
one's own holds because the flag had no COMPLETE bit when the transfer started,
which holds because every way out of a transfer clears it while the SIO2 is not
running, which holds because only the lock's holder starts it. `EngineInv`
collects these: `LockInv` (the holder is the thread inside), `HardwareInv` (where
the SIO2 may run), `PortInv` (handler, control register and its saved copy, place
by place), `CompleteInv` (the COMPLETE bit), `RequestInv` (transfers are counted,
and go on only after success). `EngineStep` shows it kept, one step per action.
From it: `TypeCorrect`, `CompleteIsOwnAlways`, `Sio2manUndisturbedAlways`,
`NoSwapWhileRunningAlways`. `QuietInv` does the same for the alarm and the TIMEOUT
bit as long as `~disturbed`, which once false stays so (`DisturbedStays`):
`TimeoutIsOwnAlways`, `CleanStartAlways`, and `EngineKeepsPromise`, the refinement,
every step mapped to a step of `Sio2Promise` or a stutter. `MCSio2Race` shows that
the condition is needed. No theorem of this module assumes more than the constants'
assumptions. `EngineHandsOver`: the handler is exchanged inside the lock
and is sio2man's when it is released, both of `PortInv`.

`MmceXferProofs`, for every size: `XferInv` ties the counters to the bytes on
the wire, `stream`, in every place of the loops; `XferTypeCorrect`,
`AllMovedAlways`, `InPlaceAlways`, `RemainderKeptAlways`, `QueueFitsAlways`,
`WindowKeptAlways` follow, the last for a card that has answered "ready" each time;
for any other it is false, as `MCXferReady` shows. `TransfersAreBounded` gives the loops a measure,
`Ahead`: four steps for each byte not moved yet, and the place in the loop. Every
step decreases it or ends the transfer, as no batch is empty; `TransferEnds` is
this and the fairness that keeps the steps coming.

`MmceCallProofs`, for any set of commands without the sector read (`NoSectors`,
which `MCCallSector` shows to be needed): the code's tables and the card's agree
(`Tables`), and the invariants the runs check are inductive once it is added that
a call still running has packets left and was not refused. `CallTypeCorrect`,
`HostAndCardInStep`, `RefusalIsReported`, `RefusedCallStops`.

`MmceFsProofs`, for any callers, files, descriptors and size of the table, in
four layers:

* `BaseInv`, whatever calls overlap: types; what is known of a call at each place
  (`CallsInv`); two calls at once are for two files (`Apart`). `FsTypeCorrect`.
* `PortInv`, with one call at a time (`Overlap = {}`): `last_unit` and the port
  are the caller's from the moment it passed `mmce_fs_update_unit`.
  `PacketsReachTheirCard`; `MCFsRoute` shows that the assumption is needed.
* `TableInv`, when no two opens overlap, and with two cards no two calls at all
  (`Safe`): the slot of an open file is used, its descriptor stands on its card
  for that file unless its close is on the way back (`CardHolds`); the slot of an
  open under way is still free (`SlotFree`); descriptors in packets are those of
  the table (`FdTaken`). `RightFile` and `HandlesDistinct` need each other: a
  card's new descriptor is not an open file's because that one still stands for
  its file, and it does so because no close named it. `SlotsAreNotShared`,
  `CommandsReachTheirFile`; `MCFsSlots` shows that the opens must not overlap.
* `LeftInv`, under `Safe` and with no packet lost and no close refused
  (`~CardFaults`): what is used
  in the table or on a card belongs to an open file, or to an open on its way back
  (`SlotsLeft`, `CardsLeft`); a close does not fail, so its file is gone from the
  card when its slot is freed (`ClosesDone`); with one card, the port is its own
  from the first open on (`PortFound`), or else a close could find no card.
  `NothingIsLeft`.

`MmceFsRefinement`, under `Safe`: `FilesArePromised`, every step of `MmceFs` is a
step of `FsPromise` or a stutter. Most steps of a call are stutters; the steps
that touch the table are the hard ones. An open stores its descriptor after the
unlock (mmce_fs.c 129): no open file reads its descriptor out of that slot
(`SlotFree`). A close frees its slot after the unlock (178): no other open file
has it (`TableInv`). A command by handle is served with the descriptor it took
out of the table before it had the lock: that one still stands for its file
(`FdTaken`, `CardHolds`). With opens that overlap the refinement fails at once,
which is what `MCFsSlots` shows.

`FsPromiseProofs`: `OwnersAlwaysHold`, for any callers, files and cards with or
without lost packets. In `FsPromise` an open file's descriptor stands for it on
its own card until it is closed, so that being an implementation of `FsPromise`
means this at least.

`Sio2HookProofs`, for any callers and any set of sio2man modules with at most one
library per major version: which versions are hooked at each phase, in either
order of loading; where the handler and its saved copy are, place by place; who
has the lock. `HookTypeCorrect`, `CallsAreExclusive` (with a 2.7 always, without one
never: `UnlockedInv`), `HandlerIsGivenBack`, and `HooksAreRemoved`, for mmceman:
mmcedrv has one more way out of `__start` (mmcedrv.c 386), which leaves the hooks in
place. `HookHandsOver`, for 2.7, needs two facts more (`LockInv`): version 2 is
not hooked before it registers, and nobody holds its lock before it is up. So when
it starts to serve (`BeginsToServe`) the SIO2 is free and the handler sio2man's,
and from then on (`ServesOn`) every step is one of `HandOver` or a stutter.

`MmceIgrProofs`, for any number of polls: `IgrTypeCorrect`, `ChangeIsAwaited`,
`OthersAreKept`, `WhatIsLeftBehind`. `IgrIsBounded`: the measure `Ahead`, at most
6 `MaxPolls` + 11, is decreased by every step of the program and every end of a
transfer, and left alone by the cards.

Assumed are the constants' assumptions (the ASSUMEs of the modules), and what a
theorem's own ASSUME says. Only model-checked: liveness (`LockReleased`,
`TransferEnds`, `CallReturns`, `EveryoneServed`, `IgrEnds`), which the proof
system does not reach with fairness and ENABLED: the measures say that the loops of
`MmceXfer` and `MmceIgr` cannot run on, not that they are not left standing.

## 5. Not modelled

* The content of packets and of data: names, game IDs, offsets, `dirent`, `stat`.
  With them go the wraps of lengths kept in 8 bits (`filename_len`, mmce_fs.c 84;
  `len + 5`, mmce_cmds.c 244) and of byte counts in 32 bits: they can be read off
  those lines, and no document states the bound they would be checked against.
* mmcedrv's start and stop: the same calls as mmceman's, but for the library it
  registers; if that is refused it leaves without unhooking (mmcedrv.c 386).
* The SIO2's registers beyond what is said above, and the DMA channels: what a
  channel does when the SIO2 is reset under it is the hardware's.
* `ioctl`, `ioctl2` and the stubs, which change no state; `mmcedrv`'s
  configuration struct, which only OPL reads.
* Two modules with this hook at once (mmceman and mmcedrv, or mx4sio); a sio2man
  started by code left linked to a module that is gone; a stop with a call
  inside; a sio2man without version 2 that is followed by another. A sio2man
  started under a call is modelled, and the properties of `Sio2Hook` leave the
  behaviours after it aside (`overlapped`).
* `MmceFs` takes the lock and the end of every packet for granted rather than
  composing with `MmceSio2`: what it uses of it is `PromiseKept` and
  `LockReleased`, and together the two have too many states for TLC. `Sio2Hook`
  leaves out the transfer between `SetHandler` and `UnsetHandler` for the same
  reason.
* Register layouts, imports and the build (`sio2regs.h`, `irx_imports.h`,
  `module_debug.h`, the Makefiles) have no behaviour of their own.
