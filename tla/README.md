# A TLA+ model of the GD32 DMX512/RDM firmware

The repository is a family of firmwares for GD32F microcontrollers: nodes that
receive light control data over Ethernet (Art-Net, sACN E1.31, OSC) and put it
out on DMX512 ports or pixels, with RDM in both roles. There is no operating
system. A *superloop* polls every component in turn; next to it run only the
interrupt handlers of the timers, the DMA channels, the UARTs and the Ethernet
controller. This directory holds TLA+ models of the parts whose correctness
depends on the order of events, the TLC configurations that check them, and
proofs for TLAPS.

1. [Inventory](#1-inventory): the system's components
2. [Modules](#2-modules): which module models what, and how it corresponds to the code
3. [Runs](#3-runs): what is model-checked, with which bounds and fairness
4. [Proofs](#4-proofs)
5. [What the checks found](#5-what-the-checks-found)
6. [Limits](#6-limits)
7. [Plan](#7-plan)

To repeat the checks, in this directory:

    tlc -workers 2 -config timers.cfg SoftwareTimers
    tlc -workers 2 -config artnet.cfg MCArtNetOutput
    tlc -workers 2 -config configstore.cfg ConfigStore
    tlapm ConfigStore_proofs.tla

`PROJECT.json` lists the runs, the source lines behind every definition
(`map`), a mutation of the code each property detects (`mutants`; their
definitions stand, commented `Mutant:`, before the definition they replace) and
the hazards of the code with the properties that cover them.

## 1. Inventory

| Component | State | Operations | Hard behaviour | Correct when |
|---|---|---|---|---|
| **Software timers** `lib-superloop` | array of timers, count, next id, round-robin cursor | add, delete, change; run (one timer per turn of the superloop) | callbacks change the array while it is being walked; swap-delete; the 32-bit clock wraps | a timer is called, once per period and no earlier; a handle means one timer; none is starved |
| **DMX driver, output** `lib-dmx` | per port: direction, port state, DMX and RDM transmit states, double buffer with two indices, style; timer and DMA programming | start, stop, hand over a packet (direct or synchronised), sync, style, blackout, RDM transmit | superloop, timer interrupt and DMA interrupt share it without locks; spin loops without timeout; DMX and RDM share the line | one message at a time on the line; the newest packet goes out; every call returns; a continuous port never stops, a stopped one does |
| **DMX driver, input** `lib-dmx` | receive state machine, one word with slot counter and flag, RDM index and flag, packet rate | receive interrupt (break, byte, idle), `GetDmxAvailable`, `GetDmxChanged`, `RdmReceive`, enable, disable | the interrupt writes words that the superloop reads, changes and writes back; DMX, RDM and discovery replies on one line | a complete packet is one packet of the line; the receiver recovers from noise |
| **Art-Net node, output** `lib-artnet`, `lib-dmxnode` | per port: two sources (IP, physical, time, data), merging flags; node: merge mode, synchronous mode, last sender | ArtDmx, ArtSync, ArtAddress, ArtRdm, network timeout | two clocks (sources, network) and two modes reset by different handlers; discovery takes ports away | data of at most two live sources is merged; ArtSync obeyed only from the sender and never while merging; the ports are silent during RDM |
| **Art-Net node, configuration** | names, addresses | ArtPoll, ArtIpProg | none to speak of | (formatting) |
| **Art-Net inputs** `lib-artnet` | last packet, data received, disabled | poll the driver, send ArtDmx, repeat when nothing comes | composition with the receive interrupt | each ArtDmx is well-formed; a loss is told |
| **Art-Net time code, trigger, show file** | last packet | pass on to callbacks, read files | none | - |
| **sACN bridge** `lib-e131` | sources with CID, priority, sequence; synchronisation | E1.31 data, sync, discovery; timeouts | stale copies of the sources; forced synchronisation; termination | highest priority wins; a lost source is forgotten |
| **RDM controller: discovery** `lib-rdm` | stack of UID ranges, attempts, late responses, table of devices; whose turn it is, who waits | branch, mute, quick find, full and incremental search; requests, stops, background timer | lost, late and colliding replies; devices that come and go; requests while another port is searched | every device that answers is found; the search ends; every request is served |
| **RDM responder** `lib-rdm` | mute flag, queues | one handler for each parameter | small | answers addressed to it alone |
| **Configuration store** `lib-configstore` | RAM copy, state changed/erasing/writing | set, timer callback, commit, factory reset, start | changes during erase and write; power loss; deletes its own timer | a change is written in the end; the flash never mixes versions |
| **Firmware installation, flash controller** `lib-flashcodeinstall`, `lib-gd32` | chunk state, sizes; the state of the one erase or write under way | erase, write, write chunk, complete | the installer and the store share the controller's state | a firmware reported installed is in the flash |
| **Network stack** `lib-network` | ARP, DHCP with conflict detection, IGMP, TCP, mDNS, PTP, TFTP | packets, timers | timeouts against answers; lost and repeated packets | the protocols' own invariants |
| **Remote configuration, HTTP, OSC** | request buffers | parse, call setters | none | (parsing) |
| **Pixel output** | busy flag, DMA buffer | update | one DMA | no update while busy |
| **Displays, LEDs, clocks, board, C library, vendor code** | registers | drivers | none modelled | - |

How they interact. The superloop (`lib-gd32/include/gd32_board.h`) calls
`SoftwareTimerRun()` and each protocol's `Run()`. The network stack calls
`ArtNetNode::InputUdp()` with each packet; the node stores data in
`dmxnode::Data`, which merges it, and calls `DmxSend`, which calls `Dmx`. `Dmx`
programs timers and DMA and shares its port records with their interrupt
handlers. The RDM controller stops the node's ports (`rdm::discovery::Starting`)
before it talks through `Dmx`. Timeouts and the configuration store use the
software timers, and callbacks call back into the timer API.

Components are single-threaded except the DMX driver and what polls it: there the
models let interrupts come between any two steps. The flash memory works on its
own too, one erase or one word at a time. Elsewhere the difficulty lies in the order of packets, timeouts and
calls.

## 2. Modules

| Module | Models | Lines |
|---|---|---|
| `TimerService` | what the timers promise: the abstract specification | `softwaretimers.cpp`, as seen by callers |
| `SoftwareTimers` | the array, cursor and wrapping clock; implements `TimerService` | `softwaretimers.cpp` |
| `SoftwareTimers_proofs` | proofs about it | |
| `DmxTx` | the transmitting half of the driver: superloop and interrupts | `dmx.cpp`, `dmxsend.h` |
| `ArtNetOutput` | the node's output side with `dmxnode::Data` and the start state of `DmxSend` | `artnetnode.cpp`, `artnetnodehandleaddress.cpp`, `handlerdm.cpp`, `dmxnodedata.h` |
| `ArtNetOutput_proofs` | proofs about it | |
| `MCArtNetOutput` | address tables and symmetry for TLC | |
| `E131Bridge` | the output side of the sACN bridge | `e131bridge.cpp`, `e131bridge_inline_impl.h`, `dmxnodedata.h` |
| `E131Bridge_proofs` | proofs about it | |
| `MCE131Bridge` | universes and symmetry for TLC | |
| `DmxRx` | the receiving half of the driver: interrupt, line, calls | `dmx.cpp` |
| `ArtNetInput` | an input port of the node; extends `DmxRx` | `handledmxin.cpp`, `handlerdmin.cpp`, `handleinput.cpp` |
| `ArtNetInput_proofs` | proofs about both | |
| `RdmDiscovery` | one search for RDM devices, over an unreliable line | `rdm_discovery_statemachine.cpp`, `.h`, `rdm_tod.h` |
| `RdmDiscovery_proofs` | proofs about it | |
| `MCRdmDiscovery` | the powers of two for TLC | |
| `RdmScheduler` | who is searched when | `rdm_discovery.h`, `handlerdm.cpp` |
| `RdmScheduler_proofs` | proofs about it | |
| `SettingsStore` | what the configuration store promises: the abstract specification | `configstore.h`, as seen by callers |
| `ConfigStore` | the store on the flash controller; implements `SettingsStore` | `configstore.h`, `gd32_fmc.cpp`, `board_reboot.cpp` |
| `ConfigStore_proofs` | proofs about it | |
| `FirmwareInstall` | the installer of the bootloader beside the store; extends `ConfigStore` | `flashcodeinstall.cpp` |

`ArtNetInput` composes the node with the receiver, `FirmwareInstall` the installer
with the store: the extended module's actions are conjoined with UNCHANGED of the
extending one's variables, and `vars` of the one is part of the other's.

### SoftwareTimers

`timers` is the used prefix of `s_timers`, `nextId` is `s_next_id`, `current`
is `s_timer_current` (from 0), `now` is `Millis()`. `SoftwareTimerAdd`,
`SoftwareTimerDelete` and `SoftwareTimerChange` are one action each.
`SoftwareTimerRun()` calls a callback that may call those three, so it is split
around the callback: `RunFire` keeps the locals the code keeps (`kNow`,
`kInterval`) in `call`, `RunReturn` writes the new deadline to the entry under
the cursor *as it is then*, which is what the code does; `RunNotDue` is the call
that finds the timer not due. All time arithmetic is modulo `Word`, the
comparison is the signed difference of `SoftwareTimerRun()`. `call.deleted` is history:
the callback under way has deleted a timer.

`TimerService` knows no array and no wrapping: a timer is a number of
milliseconds left and a period, and `calling` is the timer whose callback runs,
so that a call that comes too early is not mistaken for a change of the
timer. A callback's return sets the deadline of that timer and no other; only when the
callback has deleted a timer (`calling.deleted`) may it be one other, whichever has come under
the cursor: that much the array promises, and no more. The refinement mapping computes the milliseconds
left from the deadline, except for a timer in its callback, whose next period
counts from the call.

### DmxTx

A port is one record: `direction` (`sv_port_direction`), `state`
(`sv_port_state`), `tx` and `rdm` (the states of `s_DmxTxBuffer` and
`s_RdmTxBuffer`), the double buffer with `read`, `write` and `pending`, and of
the hardware `line` (what the transmitter sends), `tc` (the UART's flag
transmission-complete) and `timer` (a compare match will come).

A call of the class `Dmx` is a *program* in `todo`: the remaining steps of the
call. Each step of the action `Superloop` is one piece of code between two points
at which an interrupt can be noticed; a step may push further steps (`SetPortDirection`
pushes `DataDisable` and `DataEnable`, `DataEnable` pushes `SetOutputStyle`), as
the code's calls nest. A spin loop is a step whose guard is the awaited
condition. `TimerDmx`, `TimerRdm` and `TimerIdle` are the branches of the timer
handlers, `DmaIsr` the DMA handlers, `TransmissionComplete` the UART. The
drivers of the eight ports are the same code for different registers and are one
action each. A packet is handed over in three steps, with interrupts between them: `SetSendData`
compares the two indices and switches the write index (the interrupt moves the read index only while the two
differ, and then the write index stays, so nothing can come between these two), `BeginCopy` starts to write
the buffer, which by then the interrupt may have begun to send, and `EndCopy` has it written. A
packet read by the DMA while its buffer is written is `Partial`. Two fields are history:
`raced`, that the packet on the wire was begun during a hand-over, and `stray`, that the latest
break was driven on a port that was not enabled. The compare register keeps its value, so a
match comes again when the counter wraps: `CounterWraps`, without fairness.

### ArtNetOutput

`a` and `b` are `source_a` and `source_b` of each port with the data held for
them in `dmxnode::Data`; `port` holds the merging and LTP bits of `GoodOutput`,
`is_transmitting`, `is_data_pending`, whether the length in `dmxnode::Data` is
non-zero, and `DmxSend::started_`. Times are ages in ticks that stop at `Old`,
beyond every timeout, so nothing is lost by the cap: the code only compares
differences with timeouts.

The contents of a packet are its sender, repeated for as many slots as the packet has. What
`dmxnode::Data` holds for a source is `held`, the sender of each slot's byte: a packet replaces the
slots it has (`Updated`) and leaves the ones behind as they are, also those of a source that was
given up (`GivenUp` forgets the address, not the data). A port's data is the set of senders
merged in each slot of the packet (`Output`): HTP is the union with what the other source
holds there, LTP or a single source the sender alone. `covered` is history: how far the packets of
a source have reached since it was entered. `Outcome` is the
case distinction of `HandleDmx()` (cases 1 to 9), `SourceA`, `SourceB`,
`Merging` and `StillMergeMode` are what `CheckMergeTimeouts()` leaves.
`HandleDmx()` walks over the ports: `ArtDmx` starts the walk, `TakeDmx`,
`DiscardDmx` and `SkipPort` handle one port, `LastPort` ends it; nothing else is
enabled meanwhile. A discarded packet ends the walk, as the code's `return`
does. `EnterSync` and `HandleSync` are the two outcomes of an obeyed ArtSync;
`CancelMerge`, `SetMergeMode`, `Clear` and `SetOutputStyle` the ArtAddress
commands that touch this state; `OtherPacket` any packet that does not (also a
style command that sets the style the port has): it still restarts the network
timeout and may end the synchronous mode.

### E131Bridge

Built like `ArtNetOutput`, and as the firmware is: with NDEBUG, so that a packet
of a third source stores nothing but goes on to the synchronisation and the
output. `priority`, `sync`, `forced`, `addressA`, `addressB` and `loss` are the
fields of `state_`, one for all ports. A sender is an IP address with its CID.
`Receive` starts the walk over the ports, which `Handle` takes from one port of
the packet's universe to the next; at each port one of `Ignore` (out of
sequence, or the end of a stream not registered), `Terminate`, `Refuse` (too low
a priority) and `TakeDmx` happens. `SourceA`, `SourceB`, `Merging` and
`StillMergeMode` are what `CheckMergeTimeouts()` leaves; `SlotOf`, `Merges` and
`Taken` look, as the code's copies `kIpA`, `kIpB`, `kIsSourceA` and `kIsSourceB`
do, at the sources as they were *before* that and before a higher priority
removed them. Data is held slot by slot and packets have lengths, as in
`ArtNetOutput`. `LoseNetwork` and `LoseSource` are the two halves of
`SetNetworkDataLossCondition()`. The field `priority` of a source is not in the
code: it records the priority of the source's last packet for
`HigherPriorityWins`, and `undercut` that another port has since taken a packet of a lower one (`Passed`). The comparison of sequence numbers is abstracted: any packet
of a registered source may be out of sequence. Of `DmxSend` nothing is kept.

### DmxRx and ArtNetInput

`rx` is `rx_buffer.state`; `slots` the word `slots_in_packet`, its count and its
complete flag; `rdm` the RDM buffer's index, flag and length byte. `IdleFrame`,
`FrameError` and `IrqByte` are the branches of `IrqHandlerDmxRdmInput()`, one
disjunct for each state. `line` is what the wire carries; `LineIdle`, `LineBreak` and
`LineByte` move it and call the handler if the interrupts are on. A sender that
keeps to DMX512 is free, anything else (RDM, a missing gap, too many slots) counts
as noise. `GetDmxAvailable()` reads the word, masks it and writes it back: two
actions, with the local count in `taking`, so that the interrupt comes in between.

Data is one number: `intact` is how many slots of the buffer are those of the
packet now or last on the line, in their places. `spoiled` records that a
packet's word was written over by the superloop, or that two packets had no gap.

`ArtNetInput` is `HandleDmxIn()`, `HandleRdmIn()` and `ArtInput` on top: `at` is the
place of the superloop between two reads of what the interrupt writes. `sent` is
the length of the ArtDmx of this turn, computed as the code does from the whole
word, flag included. The interrupt's packet rate (`packets.rate`) is what
`TIMER6_IRQHandler()` leaves every second: zero or not.

### RdmDiscovery and RdmScheduler

Each action is one call of `Process()` that changes something, named for the state
and the branch taken (`MuteGone`, `DubSplit`, `QuickfindTimeOut`); a call that only
polls is a stutter. `counter` and `running` are the fields of the command records,
`stack` the `UidStack`, `range` the bounds of the branch in hand, `saved` the state
to go on with after `LateResponse`. A UID has `Bits` bits. `Pow` is a constant, the powers
of two, so that halving needs no recursion.

The line holds an answer in flight and one received. `Transmit` lets each device hear the
message or not and its answer be lost or not; a timeout while an answer is in flight
makes it late. Each of these costs one of `Errors` per search. `Arrive` delivers. Two
devices that answer one branch message collide: the controller sees garbage or
either UID (the stronger signal). `Plug` and `Unplug` change the devices at any time.

`RdmScheduler` is `Discovery::Run()` and what asks it: `waiting`, `full` (`type_`),
`enabled` and `background` are its bit masks, `turn` its `port_index_`, `active` its
`running_`. The search itself is a `phase`. `Serve` is the part of `Run()` that takes the
next turn, in the same call as the end of a search.

### ConfigStore, SettingsStore and FirmwareInstall

`store` is the RAM copy, `state` and `timer` those of the class, `flash` one cell per
32-bit word. `fmc`, `address`, `left` and `data` are `s_state`, `s_address`, `s_length` and
`s_data` of the flash controller's driver; `EraseCall` and `WriteCall` are one call each
of `gd32::fmc::Erase()` and `Write()`, which make one step of that state machine and return
whether it has ended. They take their arguments only in `kIdle`: a call that finds its
own operation under way goes on with it whatever it was asked for, and one
that finds the other breaks it off. `job` is what the hardware does meanwhile; `JobDone` its
end. `Flash` is the store's state machine on top, one call per turn, from `Timer` or from the
loop `ConfigstoreCommit`. `PowerLoss` may come at any step: the job at hand is done
in an arbitrary part of its page, and `Boot` reads what is there. `HandleFactory` and `Reboot`
end in `Restart`.

`SettingsStore` has no flash and no state machine: a working copy, one version
saved or being saved, and whether it is saved. `durable` is mapped to "the flash
holds the version and no erase of it has begun"; a loss of power while it is not leaves
words of that version, the others lost.

`FirmwareInstall` adds the calls of the installer, each a loop of controller steps
during which the superloop does nothing else, so that a save that is under way stays
where it is. `clear` records that no call of this upload found an operation of its own
kind already under way.

## 3. Runs

| Run | Module, cfg | Instance | Distinct states | Shows |
|---|---|---|---|---|
| `timers` | `SoftwareTimers`, `timers.cfg` | pool of 3, clock of 4, ids of 4, periods 0 and 1, callbacks delete and change | 308,464 | unique handles, deadlines moved by their owners only, refinement of `TimerService`, every due timer fires |
| `dmx` | `DmxTx`, `dmx.cfg` | one port, two packets, triggered and continuous style, RDM, also an input | 943,892 | exclusive line, newest packet, packets undisturbed, stops stop, continuous output keeps running and repeats, calls return, RDM turns round |
| `dmx_stop` | `DmxTx`, `dmx_stop.cfg` | one port, both styles, no packets, no RDM | | violation of `StoppedIsSilent`, section 5 |
| `dmx_input` | `ArtNetInput`, `dmx_input.cfg` | packets of up to 2 slots, messages of up to 4 bytes, two pieces of noise, one torn poll | 1,650,392 | packets are whole, the receiver recovers, loss is told |
| `artnet` | `MCArtNetOutput`, `artnet.cfg` | one port, two controllers, one with two physical ports, packets of one and two slots, RDM | 4,103,180 | merging, ArtSync, timeouts, network loss |
| `e131` | `MCE131Bridge`, `e131.cfg` | one port, three senders (symmetric), two priorities, packets with and without a slot, one synchronisation address | 7,169,539 | distinct slots, the flags of loss and synchronisation, priorities, what is put out |
| `rdm_search` | `MCRdmDiscovery`, `rdm_search.cfg` | 3-bit UIDs, two devices, two errors per search, one device comes or goes, 3 attempts | 776,573 | nothing skipped; a complete table without ghosts unless a device joins an incremental search; the end of the search |
| `rdm_scheduler` | `RdmScheduler`, `rdm_scheduler.cfg` | three ports, one search stopped | 163,776 | the search is that of the turn, requests are served |
| `configstore` | `ConfigStore`, `configstore.cfg` | three words in a sector of two pages, four changes, two losses of power | 78,065 | an idle store is saved, one version, refinement of `SettingsStore`, changes are saved in the end |
| `firmware` | `FirmwareInstall`, `firmware.cfg` | two firmwares of two chunks, two uploads, one change, one loss of power | 455,562 | firmware that met no operation of the store is installed; loops end |
| `firmware_lost` | `FirmwareInstall`, `firmware_lost.cfg` | as `firmware`, one upload | | violation of `UploadIsWhole`, section 5 |
| `artnet_length` | `ArtNetInput`, `artnet_length.cfg` | as `dmx_input`, without noise | | violation of `LengthInRange`, section 5 |

**Bounds.** *Timers*: three entries are the least with a first, a middle and a
last one, which is all the swap and the cursor distinguish; the clock's word of
4 wraps within two periods and leaves the half range (2) the signed comparison
needs for a period of 1; the period 0 is what `ConfigStore` changes its timer to;
`IdWord` of 4 lets ids come round (the guard that a
live id is not handed out again stands for 2^32 additions). `MaxLate` bounds how
late the superloop comes, without which a signed comparison of a finite word
means nothing. Callbacks delete and change any timer, their own included. With additions
in callbacks as well the same run passes, in a time close to the limit of a run; `CallbackOps` leaves
them out, and the theorems, which assume nothing of callbacks, have them. *DmxTx*: one port with
everything that can happen to it; two packets are the least that can be confused, and the
double buffer has two places. Ports meet only in the loops of `SetOutputStyle()`, `Blackout()`
and `Sync()`; two ports with packets have more states than TLC finishes, so of several ports the
theorems speak (`ContinuousKeepsRunning`, `OneKindOnTheLine`, `StoppedIsStopped` and the rest), and of
the liveness properties `ConstantRepeats` is checked for one port only. *ArtNetOutput*: two controllers, one of them with two
physical ports, are three senders for two places, so a source's place is taken by another and a
third source comes; two slots and packets of one or two are the least in which a shorter packet
leaves a byte behind; the timeouts of the network and of ArtSync are one tick and that of merging
none, so an age is either within a timeout or beyond it. An ArtDmx without slots is left out. That the node's one merge mode agrees with the flags of
several ports (`TwoSourcesMerge`, `SyncIgnoredWhenMerging`) is proved for any number of
them; two ports have more states than TLC finishes. *E131Bridge*: three senders are
a third one beside two sources, two priorities a higher and a lower one; with one slot, packets
with and without it are the longer and the shorter ones (`IsValidDataPacket()`, `e131bridge.cpp:455`, lets a packet without slots pass); the
network's timeout is one tick and that of priorities and merging two, so that a
source can be silent longer than the one and shorter than the other, and the
code's `>` and `>=` differ. The run has one port; its properties are proved for any number of ports
and universes.
*ArtNetInput*: packets of one or two slots are the least with an inner slot and a last
one, messages of 4 bytes the least with start code, length and checksum
in different places; `MaxNoise` of 2 lets one piece of noise meet the recovery from another.
`MaxTorn` is 1: for a second start code the superloop would have to be held for a
whole packet between the read of a word and its write back, a few instructions; the count
could then fall below zero (`Counted`). `Quick` says
that no packet ends while the superloop is between two reads of `HandleDmxIn()`;
the violation run lifts it. *RdmDiscovery*: seven UIDs are a tree of depth three,
two devices side by side the closest collision, and three attempts against two errors
the least for which attempts run short without running out; `CompleteTod` needs as many attempts as errors and one.
*RdmScheduler*: three ports tell the next turn, a later one and the wrap apart.
*ConfigStore*: a sector of two pages and three words in it have a whole page, a part of
one and a word that is never written; four changes meet every step of a save
and of the save after it; the second loss of power hits the recovery from the first.

**Fairness.** *Timers*: weak fairness of `SoftwareTimerRun`: the superloop calls
it each turn and callbacks return. API calls and the clock are unconstrained.
*DmxTx*: weak fairness for the timer matches that have been programmed, the end
of a DMA transfer and of the last slot: hardware that does not stop. A match by
the wrap of the counter is not fair. The superloop's own program has *strong*
fairness: a spin loop that polls TC polls it many times within a gap or a break
(microseconds against milliseconds), so it does not miss a condition that holds
again and again. No fairness makes the superloop start a call. *ArtNetOutput*:
weak fairness of the network timeout, polled by `Run()`; packets and time are not fair. *ArtNetInput*: weak fairness of the
superloop and of the timer of one second; *strong* fairness of the sender, which is
enabled again and again while a cable is plugged. *RdmDiscovery*: weak fairness of `Process` and
of `Arrive`: the superloop calls `Run()`, and an answer in flight arrives. *RdmScheduler*: weak
fairness of `Run()`, including that a search ends, which `rdm_search` shows unless a
device leaves after it answered. *ConfigStore*: weak fairness of the timer, of the loop of a reboot, of the
restart and of the hardware. *FirmwareInstall*: the same of the hardware, the store's
steps and the installer's loops. Changes, requests, losses of power and uploads are not fair.

**The liveness properties** are `DueTimerFires` (a due timer is eventually
called, or its owner changed or deleted it), `CallsReturn` (no spin loop holds
the superloop for ever), `RdmTurnsRound` (an RDM message ends with the port
receiving), `ConstantRepeats` (a continuous port sends packets for ever),
`LossForgets` (without packets the sources are forgotten), `Recovers` (with a sender that keeps
sending, whole packets come again and again, whatever came before), `LossReported`
(with the cable pulled, "data received" is reset for good), `SearchEnds`, `Served`,
`EventuallySaved` and `InstallReturns`.

## 4. Proofs

The eight `_proofs` modules hold for every value of the constants that satisfies the
modules' assumptions. One theorem names a hypothesis on the constants (`Wide`, explained below), which the
configuration of its run satisfies.

| Theorem | States |
|---|---|
| `SoftwareTimers_proofs!TypeCorrect` | `Spec => []TypeOK` |
| `SoftwareTimers_proofs!CursorSafe` | `Spec => []CursorInBounds` |
| `SoftwareTimers_proofs!HandlesUnique` | `Spec => []UniqueIds` |
| `SoftwareTimers_proofs!DeadlinesKeptHolds` | `Spec => DeadlinesKept` |
| `SoftwareTimers_proofs!Refinement` | `Wide /\ Spec => ImplementsService` |
| `DmxTx_proofs!TypeCorrect` | `Spec => []TypeOK` |
| `DmxTx_proofs!PacketIsNewest` | `Spec => NewestPacket` |
| `DmxTx_proofs!PacketIsUndisturbed` | `Spec => PacketUndisturbed` |
| `DmxTx_proofs!ContinuousKeepsRunning` | `Spec => []ConstantRuns` |
| `DmxTx_proofs!OneKindOnTheLine` | `Spec => []LineExclusive` |
| `DmxTx_proofs!StoppedIsStopped` | `Spec => []StopStops` |
| `ArtNetOutput_proofs!TypeCorrect` | `Spec => []TypeOK` |
| `ArtNetOutput_proofs!Invariance` | `Spec => []IInv` |
| `ArtNetOutput_proofs!MergeModeKept` | `Spec => []TwoSourcesMerge` |
| `ArtNetOutput_proofs!SyncSafe` | `Spec => SyncIgnoredWhenMerging` |
| `ArtNetOutput_proofs!RegisteredOnly` | `Spec => OnlyRegistered` |
| `ArtNetOutput_proofs!FreshOnly` | `Spec => OnlyFresh` |
| `E131Bridge_proofs!TypeCorrect` | `Spec => []TypeOK` |
| `E131Bridge_proofs!Invariance` | `Spec => []IInv` |
| `E131Bridge_proofs!SourcesDistinct` | `Spec => []DistinctSources` |
| `E131Bridge_proofs!LossClean` | `Spec => []LossIsClean` |
| `E131Bridge_proofs!ForcedSync` | `Spec => []ForcedIsSync` |
| `E131Bridge_proofs!SourcesOnly` | `Spec => []OutputFromSources` |
| `E131Bridge_proofs!HigherPriority` | `Spec => HigherPriorityWins` |
| `RdmDiscovery_proofs!TypeCorrect`, `Invariance` | `Spec => []TypeOK`, `Spec => []IInv` |
| `RdmDiscovery_proofs!StackBoundHolds` | `Spec => []StackBound` |
| `RdmDiscovery_proofs!ContiguousHolds` | `Spec => []Contiguous` |
| `RdmDiscovery_proofs!CountersPositiveHolds` | `Spec => []CountersPositive` |
| `RdmDiscovery_proofs!SearchInvariance` | `Spec => []Search` |
| `RdmDiscovery_proofs!CompleteTodHolds` | `Spec => []CompleteTod` |
| `RdmDiscovery_proofs!NoGhostsHolds` | `Spec => []NoGhosts` |
| `RdmScheduler_proofs!TypeCorrect`, `Invariance` | `Spec => []TypeOK`, `Spec => []Inv` |
| `RdmScheduler_proofs!SearchOfTurnHolds` | `Spec => []SearchOfTurn` |
| `RdmScheduler_proofs!NoRequestAsleepHolds` | `Spec => []NoRequestAsleep` |
| `ConfigStore_proofs!TypeCorrect`, `Invariance` | `Spec => []TypeOK`, `Spec => []Inv` |
| `ConfigStore_proofs!IdleSavedHolds` | `Spec => []IdleSaved` |
| `ConfigStore_proofs!OneVersionHolds` | `Spec => []OneVersion` |
| `ConfigStore_proofs!Refinement` | `Spec => ImplementsPromise` |
| `ConfigStore_proofs!InstalledIsThere` | `InstallSpec => []InstalledWhenClear` |
| `ArtNetInput_proofs!TypeCorrect`, `Invariance` | `Spec => []TypeOK`, `Spec => []Inv` |
| `ArtNetInput_proofs!InBuffersHolds` | `Spec => []InBuffers` |
| `ArtNetInput_proofs!CompleteIsWholeHolds` | `Spec => []CompleteIsWhole` |

*Timers.* The cursor is in bounds only together with the fact that the array is
what the types say, and `UniqueIds` needs in addition that a new id is not live
(the guard of `SoftwareTimerAdd`). The lemmas say of `SwapOut` and `Append`
which entries the result has. Callbacks are covered: nothing assumes which
operations they call. `DeadlinesKept` needs `UniqueIds`, so that an entry before a step is one entry after
it, and that without a deletion in the callback the cursor still stands on the callback's timer. The refinement of
`TimerService` needs one hypothesis, `Wide`: a period and the lateness of the superloop are less than half the clock's word,
or the signed comparison of `now` and a deadline means nothing; on the device that is 24 days.
Its invariant `OnTime` says that every deadline is, in
modular arithmetic, at most some period ahead and at most `MaxLate` behind. It
maps each step of the array to the service's step on the bag of its entries, or to a stutter; a
`RunReturn` after a deletion is the service's `Return` for whichever timer is under the cursor.

*DMX output.* `DueInv`: the write buffer holds a packet that is
due unless a hand-over is under way, so the DMA, which takes what `write` points at,
never takes the older one. `LineInv`: what the flags and states say of the line when an
interrupt comes. `FreshInv`: a copy about to begin goes to the other buffer than the packet on the
wire, unless that packet was begun since the buffer was chosen, which is `raced`; `PacketUndisturbed` follows.
`WorkInv` is about the kinds of work on a port. `KindInv`: a port has work of one kind at a time, and one that transmits
packets is enabled, or being waited for, or `stray`. Its other parts say what each step of the
superloop still to be done knows of its port (`HandInv`, `EnableInv`, `InputInv`,
`RdmInv`). `LineExclusive` and `StopStops` follow for every style and any number of ports; what they
except, a port that is `Astray`, is what section 5 shows of `SetOutputStyle()`.
`ContinuousInv` says of a port with `started`: it is neither turned round
nor does it RDM, and if it is disabled or its cycle has stopped, a later step of the
superloop's program (`Restart`) starts it again. A superloop step replaces the first step
of the program by others, so `ResumesKeeps` proves once that the invariant survives a step that
`Resumes`, and `SuperloopResumes` that each action does.

*Art-Net.* The inductive invariant `IInv` is `TypeOK`, `HeldData` and
`TwoSourcesMerge`. `HeldData` says that what is held for a registered source is
that source's own data, in the slots its packets have reached (`covered`); without it a packet could
merge in data of a source that was given up and `OnlyRegistered` would not follow. Behind those slots
such data does stay, and is merged (section 5). `TwoSourcesMerge` is inductive: the only
step that gives a port its second source sets both flags (`MergedWithRegistered`,
`AloneIsAlone`), `CheckMergeTimeouts()` clears the node's flag only when no port's
flag is left, and the resets of both flags remove the sources as well. The
action properties follow from the invariant and the shape of single steps:
`SyncSafe` because an obeyed ArtSync needs the node out of merge mode,
`FreshOnly` because in merge mode expired sources are dropped before the outcome
is chosen, and a merge happens only with a source that is still registered.

*sACN.* `IInv` joins the three invariants with `HeldData` and `NoLossInHand`
(while a packet is handled the network is there), which depend on each other:
the end of a stream resets the whole state, and sets the flag of the loss in the
middle of a packet, only if its sender is in both slots, and `DistinctSources`
excludes that (`EndOfOneStream`). Every step but `TakeDmx` only forgets sources or
lets them grow older (`Kept`), which disturbs neither the data held nor the
distinctness; `TakenSlots` does the case distinction for `TakeDmx`, where the slots
are chosen by stale copies and written to what the timeouts and the priority left.
`state_.priority` is shared by all ports: a packet of a low priority that one port takes, after the timeout of its
own sources, lowers it for the others. A source this happens to is `undercut`, and `HigherPriorityWins`, for any
number of ports, is about the others. Its invariant
`RankInv` says that a source heard within the network's timeout does not have a higher priority than
`state_.priority`, that no source was heard after the last packet, and that a packet in hand
has just arrived.

*Discovery.* `StackBound` follows from `Halved`: each range on the stack is at most half
as wide as the one below, so widths of ranges of `b` bits run out after `b + 1`. That in turn
holds because a split replaces the range in hand by its halves. `Contiguous` is inductive
together with `Phase`, which says in which states a range is in hand and what a late
response goes back to. For the 48 bits of a UID the stack so needs 49 of its 200 entries.
`Search` follows a search through its phases. A device that is there all the time is in the
table, or its UID is in a range that is still to be asked for, or it is among those asked now
(`Covered`). An attempt that brings no answer from it has cost one of the errors of the line
(`UnmutePaid`, `MutePaid`, `BranchPaid`, `SinglePaid` count them, `Budget` draws the conclusion),
so that attempts run out on it only after as many errors: `CompleteTod`. `SeenInv`, `MutedSeen` and `TodSeen` say
the converse of the table's entries: `NoGhosts`. One lemma per action of the machine; the two theorems
hold for UIDs of any width, any set of devices and any number of errors and changes.

*Scheduler.* `SearchOfTurn` and `NoRequestAsleep` are inductive together with the types:
`running_` is reset only where nobody waits, and the turn moves only when no search is under way.

*Configuration store.* The invariant says of each phase of a save what the cells
hold. `EraseInv`: the pages before the address are empty, but for the one at work. `CleanInv`:
the sector is empty before a write. `WriteInv`: the words before the address are those of the
copy. `JobInv` ties the hardware's job to the operation. A change in the middle sends the store back to `Changed`,
so `IdleSaved` needs that no write ends without a change being noticed: the copy is read word by word
while it may change, and only the state tells. `OneVersion` uses that every word is erased before it is
written. The refinement treats each step as one of `SettingsStore`'s or a stutter; the mapped `durable`
changes only where an erase begins, a write ends or a start finds it so (`Header`: a cell
that is erased is not a valid header).

*Firmware.* The store's invariant does not hold beside an installer, which leaves the controller with an
erase or write the store never asked for. `InstallInv` is about the installer's own calls: while no call has met
another's operation (`clear`), the controller works for the call at hand and nobody else
(`Controller`, `CallInv`), an erase has emptied the pages before its address, and a write has put the
image's words before its address (`EraseLoopInv`, `WriteLoopInv`, `PartInv`).

*Input.* `Counted` relates the count of slots to the state of the handler and to
a poll under way, `InBuffers` bounds the indices where the interrupt writes, and `InStep`
says that in a packet that is not spoiled the count, the place on the line and `intact` are the same
number. `CompleteIsWhole` follows. The proof is for every `ChannelsMax`, `MessageSize` and number of pieces of noise.

*Only model-checked*: liveness. Every safety invariant, action property and refinement that a
passing run checks is also proved. `TimerService` and `SettingsStore` have no
theorems of their own; the refinements are about them.

## 5. What the checks found

Three runs must be found violated. Each contradicts what the repository says.

- **A stop that does not stop** (`dmx_stop`). A change of style to continuous output disables every continuous
  port (`DataDisable()` sets `sv_port_state` to idle) and starts it again without enabling it
  (`dmx.cpp:2361`). The next `Stop()` finds the port idle and returns (`dmx.cpp:1497`), and its packets go on:
  "Stop DMX if was running" (`artnetnode_inline_impl.h:248`). `StopStops` shows that, a port that a blackout has enabled again apart, there is no other way to
  be missed by a stop, and `LineExclusive` that DMX and RDM can meet on a line only this way.
- **The installer takes the store's operation for its own** (`firmware_lost`). The flash
  controller's `Erase()` and `Write()` share one `s_state` (`gd32_fmc.cpp:58`): a call that
  finds an operation of its kind under way goes on with that one (`:195`, `:289`, `:308`). The store leaves operations
  under way between two turns of the superloop. In the run a save has begun to write when a chunk of an
  HTTP upload comes: `WriteChunk()` (`flashcodeinstall.cpp:140`) returns when the *store's* write is
  done, the chunk is not in the flash, and the end of the upload is answered with `{"status":"ok"}`
  (`httpdhandlerequest.cpp:633`). The loops of `Erase()` (`:114`) and, over TFTP, of `WriteFirmware()`
  (`:68`, `:78`) are of the same form, and the model has them. `InstalledWhenClear` shows that in the model
  this is the only way for the two to disturb each other.
- **A length with a flag in it** (`artnet_length`). `HandleDmxIn()` reads the
  slot count after `GetDmxChanged()`. A packet that the interrupt
  completes in between sets bit 15 of that word; it becomes part of the length of an ArtDmx, which "should be
  an even number in the range 2 – 512" (`artnet.h:458`).

Properties that state what the repository says and that the code breaks stand in the
modules without a run of their own. To see a counterexample, replace the properties of
the named cfg by the one below.

| Property | cfg and changes | What happens |
|---|---|---|
| `NeverPostponed` (INVARIANT) | `timers.cfg`, `CallbackOps = {"Delete"}` | After a callback that deleted its own timer `SoftwareTimerRun()` writes `kNow + kInterval` to the entry under the cursor (`softwaretimers.cpp:168`), by then another timer's, which gets a deadline further away than its period. `ConfigStore::Timer()` deletes itself this way. `DeadlinesKept` and `TimerService` say how far the damage goes: one other timer, one period. With `timers.cfg` as it is a callback that shortens its own period is enough: the reschedule overwrites it (`configstore.h:590`). |
| `DiscardsOnlyThird` (PROPERTY) | `artnet.cfg` | `HandleDmx()` compares the physical port with that of a source that is not there (`artnetnode.cpp:942`) and discards the second stream of one controller as a third. |
| `SyncHasData` (PROPERTY) | `artnet.cfg` | After a loss of the network the lengths are cleared, the pending flags not (`artnetnode.cpp:634`): the assertion of `DmxSend::Sync()` fails. |
| `StoppedForRdm` (PROPERTY) | `artnet.cfg` | `DmxSend::Sync()` starts ports the node does not record as transmitting (`artnetnode_inline_impl.h:246`): RDM is sent on a port that outputs DMX. |
| `PriorityAmongSources` (PROPERTY) | `e131.cfg` without SYMMETRY | "Data priority if multiple sources" (`e131.h:93`), but `state_.priority` outlives its sources: the packet with which a source raises its priority removes it and does not enter it again, and after two sources time out together a sender of lower priority is never let in. |
| `SearchTerminates` (PROPERTY) | `rdm_search.cfg`, `Errors = 0`, counters 2 | Each sending of a quick find's mute sets its counter again (`rdm_discovery_statemachine.cpp:510`): a device that leaves between its answer and the mute is asked for ever. |
| `FlushIsFull` (PROPERTY) | `rdm_scheduler.cfg` | A background search asked for while a port waits for a full one makes that an incremental one (`rdm_discovery.h:112`). |

Some properties hold with an exception that the code makes necessary. Without it TLC violates them:

- `OnlyRegistered`, `OnlyFresh` and `OutputFromSources` are about the slots that a source has sent since it was
  entered (`Covered`). For all slots of a packet (`1 .. handling.length`, `1 .. Packet.length`) they are violated in
  `artnet.cfg` and `e131.cfg`: a packet is copied over as many bytes as it has
  (`dmxnodedata.h:78`, `:98`), and a merge takes whatever the other source's array holds
  (`:83-86`, `:103-106`). When a source is given up and its place taken by one with shorter packets, the bytes of the
  former stay behind them and are merged with a longer packet of the other.
- `PacketUndisturbed` excepts a packet that the interrupt began during a hand-over (`raced`). `SetSendDataInternal()` finds a
  packet pending and keeps its buffer; if the interrupt takes that packet up before the copy
  (`dmx.cpp:1593-1613`), the copy goes over the packet on the wire.
- `LineExclusive` and `StopStops` except a port whose packets run although it is not enabled (`Astray`), as in
  `dmx_stop`: it is continuous, the node has stopped it for RDM, and a change of *any* port's style to
  continuous (`dmx.cpp:2361`) starts it in the middle of the message.
- `HigherPriorityWins` excepts sources that another universe has `undercut`: there is one `state_.priority`
  (`e131bridge.cpp:701-705`), and with two universes a low priority taken on one lets a low one in on the other.
- The last attempt to mute a table entry is sent but not waited for (`rdm_discovery_statemachine.cpp:298`
  comes before the receive at `:331`): the entry is deleted, and an answer that comes counts as the answer of the next
  entry. A device that joins an incremental search can so leave an entry for a device that is gone,
  or cost one that is there its entry. `CompleteTod` and `NoGhosts` exclude that case by
  `NoneJoined`; without it TLC violates both with three changes (`Changes`; `CompleteTod` with one error besides).

Also seen while modelling, without a property: the sACN bridge's
`HandleDmxIn()` never sets `input_port_.millis`, so that it never repeats its last data
after a second (`e131` `handledmxin.cpp:114`); an alternate start code sets the slot count to 0, and
an ArtDmx repeated then has the length 0; an RDM message that ends in no believable length writes one byte behind
`rdm.data[]`, into the padding of the structure (`InBuffers` shows that it is one at most);
after a power loss in the middle of a save the first words, with the valid header, may be written and the rest
erased, and `IsValid()`, which looks at the header only, accepts them (`SettingsStore`'s `Tear` allows that).

Reading the code for `E131Bridge` showed more, which is in the model and listed
with the hazards as far as tests would miss it, but has no run: the end of a stream in slot A empties slot A
of every port; the loss of the network forgets only the sources of ports that
transmit; ports of one universe treat a rise of the priority differently; a
third source can force the synchronised state without an address; a
synchronisation packet for address 0 is obeyed.

## 6. Limits

- *DmxTx*: ports used for one direction only (`Usage::kTxOnly`, `kRxOnly`) and
  the receiving half (`DmxRx`) are left out. Break, mark, gap and packet times are an order of events,
  not durations. `Free(p)` is an assumption on callers, nothing in the driver
  enforces it: they do not start, restyle or black out a port while its RDM message
  goes out, and do not send RDM on a port that is started. The last part is
  what a counterexample of `StoppedForRdm` shows the node can break. The few instructions between the
  last look at a flag and the store that follows it are one step. An enabled port a blackout has
  left running is excepted from `StopStops` by its port state.
- *ArtNetOutput*: the fail-safe scenes other than "last state" (which change the
  data, not the control), merging of local inputs, the option to disable the merge
  timeout, ports switched to sACN, and changes of address, direction and
  protocol at run time are left out. Packets are well-formed and have at least one slot.
- *E131Bridge*: DMX input and local merging, `Start()`, `Stop()`, changes of
  universe and direction, IGMP, the failsafe output and the state of `DmxSend` are
  left out. Packets are well-formed.
- *Timers*: a callback may make any number of calls; the run's do not add timers (section 3).
- *ArtNetInput*: of the data only what steers the handler is kept; `GetDmxChanged()` compares
  data that the model leaves open. The checksum of an RDM message, the timeout of
  `RdmReceiveTimeOut()`, sequence numbers and the merging of local inputs are left out.
- *RdmDiscovery*: times are an order of events; a timeout may come at any time, at the price of an
  error when an answer was in flight. `Full()` and `Incremental()` are called when the machine is idle, as `Run()` does. Sub-devices and proxies are left out.
- *RdmScheduler*: the search is a phase; that it is `RdmDiscovery`'s is an assumption on `SearchEnds`.
- *ConfigStore*: the two banks of the flash are one; the GD32F4xx has
  another, blocking controller, which is not modelled. `SoftwareTimerAdd()` succeeds: with a full
  pool of timers the store would not be saved. The device is always detected. The word 0 stands for magic number and version.
- *FirmwareInstall*: uploads arrive in chunks of one size that divides the firmware's; file
  names, sizes and errors of the controller are left out.
- Data races on single words are taken as atomic: the processor reads and
  writes aligned words in one access.

### Not modelled

The repository is large, and most of it has no order of events to get wrong:

- *Vendor code* (`lib-gd32/gd32f*`, `lib-fatfs`, `CMSIS`) is the greater part of its lines: register
  definitions, device libraries, tables of characters.
- *Formatting and parsing*: ArtPoll replies, JSON and text of the remote configuration, HTTP and OSC, the
  parameters of the RDM responder, OLED and LED output. Each is a function of its input.
- *Firmware projects* (`gd32_*`): a `main()` that constructs the components and polls them.
- *Network stack*: the EMAC driver, ARP, IGMP, UDP and TCP, mDNS, NTP and PTP. They have protocol state worth
  modelling, DHCP with address conflict detection and TFTP first; see the plan.
- *sACN input* (`lib-e131` DMX in) is the change filter of `ArtNetInput` with another packet.

## 7. Plan

What reaches the wire (`DmxTx`), whose data it is (`ArtNetOutput`, `E131Bridge`), the clock
everything runs on (`SoftwareTimers`), what comes in (`DmxRx`, `ArtNetInput`), who is on the line
(`RdmDiscovery`, `RdmScheduler`) and what survives a restart (`ConfigStore`, `FirmwareInstall`) are done. Left, in order:

1. DHCP with address conflict detection: timeouts of one state against answers that
   moved the client on; TFTP daemon: repeated and lost packets.
2. `Node`: `ArtNetOutput` with `DmxTx` for the calls of `DmxSend`, where the
   assumption `Free` becomes a claim.
3. `E131Bridge` with two ports: what the end of a stream, the loss of the network
   and a rise of the priority may do to the ports of other universes; its DMX input.
4. The RDM responder: mute flag, queued messages.
5. Proofs about what these steps add: the claim that replaces `Free`, the DHCP client's timeouts.
