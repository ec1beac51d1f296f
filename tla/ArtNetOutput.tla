---------------------------- MODULE ArtNetOutput ----------------------------
(***************************************************************************)
(* The output side of the Art-Net node, lib-artnet/src/node/artnetnode.cpp:*)
(* merging of two sources per port, ArtSync, loss of the network, and the  *)
(* stopping of a port for RDM; with it the buffers of dmxnode::Data and the*)
(* part of DmxSend the node relies on.                                     *)
(*                                                                         *)
(* The node is one thread: a packet is handled to its end before the next. *)
(* HandleDmx() goes through the ports; one port is one step here, and      *)
(* nothing else happens while it is under way (`handling').                *)
(*                                                                         *)
(* The contents of a packet are abstracted to its sender and its length,   *)
(* what is held for a source to the sender of each slot, and what a port   *)
(* puts out to the senders that contribute to each slot: HTP merging is the*)
(* union, LTP and a single source the sender alone (Output).  A packet     *)
(* shorter than an earlier one leaves the slots behind its end as they are.*)
(* Time is counted in ticks; an age stops counting at Old, when all        *)
(* timeouts have passed.                                                   *)
(***************************************************************************)
EXTENDS Naturals, FiniteSets

CONSTANTS
  PortCount,      \* dmxnode::kMaxPorts; the ports are outputs with protocol Art-Net
  PortAddresses,  \* the port addresses in use
  Address,        \* the port address of each port
  Controllers,    \* the IP addresses of the controllers
  Physicals,      \* the values of ArtDmx::physical
  Senders,        \* the pairs of the two that send ArtDmx
  SlotCount,      \* dmxnode::kUniverseSize
  Lengths,        \* the lengths of the ArtDmx packets
  None,           \* the IP address 0
  SyncTimeout,    \* 4 seconds
  LossTimeout,    \* kNetworkDataLossTimeout
  MergeTimeout,   \* kMergeTimeoutSeconds
  RdmPorts        \* the output ports with RDM enabled

Ports == 1 .. PortCount
Old   == MergeTimeout + 1
Age   == 0 .. Old
Slots == 1 .. SlotCount
NoPacket == [ip |-> None]

ASSUME CountAssumption    == PortCount \in Nat
ASSUME AddressAssumption  == Address \in [Ports -> PortAddresses]
ASSUME NoneAssumption     == None \notin Controllers
ASSUME PhysicalAssumption == 0 \in Physicals
ASSUME SenderAssumption   == Senders \subseteq Controllers \X Physicals
ASSUME LengthAssumption   == SlotCount \in Nat /\ Lengths \subseteq Slots
ASSUME TimeAssumption     == /\ SyncTimeout \in Nat /\ LossTimeout \in Nat
                             /\ MergeTimeout \in Nat
                             /\ SyncTimeout <= Old /\ LossTimeout <= Old
ASSUME RdmAssumption      == RdmPorts \subseteq Ports

VARIABLES
  a, b,          \* source_a and source_b of each port, with the data held for them
  port,          \* the rest of output_port_, dmxnode::Data and DmxSend, per port
  mergeMode,     \* state_.is_merge_mode
  sync,          \* state_.is_synchronous_mode
  dmxIp,         \* state_.art.dmx_ip
  syncAge,       \* time since state_.art.sync_millis
  packetAge,     \* time since packet_millis_
  discovering,   \* the port that is searched for RDM devices, if any
  handling       \* the ArtDmx packet being handled and the port it has come to

vars == <<a, b, port, mergeMode, sync, dmxIp, syncAge, packetAge, discovering, handling>>

\* The byte of a slot for which nothing has come yet is zero, and does not count.
Zero == <<None, 0>>

Source ==
  [ip       : Controllers \cup {None},
   physical : Physicals,
   age      : Age,
   held     : [Slots -> Senders \cup {Zero}],  \* whose byte Source::data has in a slot
   covered  : 0 .. SlotCount]                  \* history: the slots that packets have
                                               \* reached since the source was entered
PortRecord ==
  [merging      : BOOLEAN,          \* GoodOutput::kOutputIsMerging
   ltp          : BOOLEAN,          \* GoodOutput::kMergeModeLtp
   transmitting : BOOLEAN,
   pending      : BOOLEAN,          \* is_data_pending
   length       : BOOLEAN,          \* the length in dmxnode::Data is not zero
   started      : BOOLEAN]          \* DmxSend::started_

Init ==
  /\ a = [p \in Ports |-> [ip |-> None, physical |-> 0, age |-> 0,
                           held |-> [i \in Slots |-> Zero], covered |-> 0]]
  /\ b = a
  /\ port = [p \in Ports |-> [merging |-> FALSE, ltp |-> FALSE, transmitting |-> FALSE,
                              pending |-> FALSE, length |-> FALSE, started |-> FALSE]]
  /\ mergeMode = FALSE /\ sync = FALSE
  /\ dmxIp = None
  /\ syncAge = 0 /\ packetAge = 0
  /\ discovering = {}
  /\ handling = NoPacket

Idle == handling = NoPacket

----------------------------------------------------------------------------
(* Sources *)

Expired(source) == source.age > MergeTimeout

\* A source that is given up: its data stays.
GivenUp(source) == [source EXCEPT !.ip = None, !.covered = 0]

\* Mutant: the merging flag is reset, the source kept.
Unexpired_Keep(source) == source

\* What CheckMergeTimeouts() leaves of a source.
Unexpired(source) == IF Expired(source) THEN GivenUp(source) ELSE source

\* The case distinction of HandleDmx(): which source the packet of `ip' and
\* `physical' belongs to, and whether it is merged; or it is discarded.
TakeAlone(s)  == [source |-> s, merge |-> FALSE]
TakeMerged(s) == [source |-> s, merge |-> TRUE]
Discard       == [source |-> "None", merge |-> FALSE]

Outcome(sa, sb, ip, physical) ==
  CASE sa.ip = None /\ sb.ip = None -> TakeAlone("A")                            \* Case 1
    [] sa.ip = ip /\ sb.ip = None ->                                             \* Case 2
         IF sa.physical = physical THEN TakeAlone("A")
         ELSE IF sb.physical # physical THEN TakeMerged("B") ELSE Discard
    [] sa.ip = None /\ sb.ip = ip ->                                             \* Case 3
         IF sb.physical = physical THEN TakeAlone("B")
         ELSE IF sa.physical # physical THEN TakeMerged("A") ELSE Discard
    [] sa.ip \notin {ip, None} /\ sb.ip = None -> TakeMerged("B")                \* Case 4
    [] sa.ip = None /\ sb.ip \notin {ip, None} -> TakeMerged("A")                \* Case 5
    [] sa.ip = ip /\ sb.ip \notin {ip, None} ->                                  \* Case 6
         IF sa.physical = physical THEN TakeMerged("A") ELSE Discard
    [] sa.ip \notin {ip, None} /\ sb.ip = ip ->                                  \* Case 7
         IF sb.physical = physical THEN TakeMerged("B") ELSE Discard
    [] sa.ip = ip /\ sb.ip = ip ->                                               \* Case 8
         IF sa.physical = physical THEN TakeMerged("A")
         ELSE IF sb.physical = physical THEN TakeMerged("B") ELSE Discard
    [] sa.ip \notin {ip, None} /\ sb.ip \notin {ip, None} -> Discard              \* Case 9

----------------------------------------------------------------------------
(* ArtDmx *)

\* InputUdp(): every packet restarts the network timeout, and ends the synchronous
\* mode when the last ArtSync is too long ago.
Arrival == /\ Idle
           /\ packetAge' = 0

StillSync == sync /\ syncAge < SyncTimeout

\* The beginning of HandleDmx().
ArtDmx(sender, length, address) ==
  /\ Arrival
  /\ sync' = StillSync
  /\ handling' = [ip |-> sender[1], physical |-> sender[2], length |-> length,
                  address |-> address, at |-> 1]
  /\ UNCHANGED <<a, b, port, mergeMode, dmxIp, syncAge, discovering>>

\* The end of HandleDmx(), and the note of the sender that InputUdp() takes after it.
EndDmx ==
  /\ dmxIp' = handling.ip
  /\ handling' = NoPacket

NextPort == handling' = [handling EXCEPT !.at = @ + 1]

AtPort(p) == handling # NoPacket /\ handling.at = p

\* IsRunning(port_index), the same answer for every port: the index is passed on by
\* value to a function that returns the port of the search in it.
IsRunning(p) == discovering # {}

Wanted(p) == Address[p] = handling.address /\ ~IsRunning(p)

\* A port of another address, or while a search for RDM devices is running.
SkipPort(p) ==
  /\ AtPort(p) /\ ~Wanted(p)
  /\ NextPort
  /\ UNCHANGED <<a, b, port, mergeMode, sync, dmxIp, syncAge, packetAge, discovering>>

LastPort ==
  /\ AtPort(PortCount + 1)
  /\ EndDmx
  /\ UNCHANGED <<a, b, port, mergeMode, sync, syncAge, packetAge, discovering>>

\* The sources of port p after CheckMergeTimeouts(), which runs in merge mode only.
SourceA(p) == IF mergeMode THEN Unexpired(a[p]) ELSE a[p]
SourceB(p) == IF mergeMode THEN Unexpired(b[p]) ELSE b[p]
Merging(p) == port[p].merging /\ ~(mergeMode /\ (Expired(a[p]) \/ Expired(b[p])))

\* CheckMergeTimeouts() goes on to look at every port for one that still merges.
StillMergeMode(p) == mergeMode /\ (Merging(p) \/ \E q \in Ports \ {p} : port[q].merging)

\* "More than two sources, discarding data": the handler returns, and the ports
\* after this one do not see the packet.
DiscardDmx(p) ==
  /\ AtPort(p) /\ Wanted(p)
  /\ Outcome(SourceA(p), SourceB(p), handling.ip, handling.physical) = Discard
  /\ a' = [a EXCEPT ![p] = SourceA(p)]
  /\ b' = [b EXCEPT ![p] = SourceB(p)]
  /\ port' = [port EXCEPT ![p].merging = Merging(p)]
  /\ mergeMode' = StillMergeMode(p)
  /\ EndDmx
  /\ UNCHANGED <<sync, syncAge, packetAge, discovering>>

OutcomeAt(p) == Outcome(SourceA(p), SourceB(p), handling.ip, handling.physical)

InHand == <<handling.ip, handling.physical>>

\* memcpy() of the packet over what is held for its source.
Updated(source) ==
  [ip       |-> handling.ip,
   physical |-> handling.physical,
   age      |-> 0,
   held     |-> [i \in Slots |-> IF i <= handling.length THEN InHand ELSE source.held[i]],
   covered  |-> IF InHand = <<source.ip, source.physical>> /\ source.covered > handling.length
                THEN source.covered ELSE handling.length]

OtherHeld(p) == IF OutcomeAt(p).source = "A" THEN b[p].held ELSE a[p].held

\* Mutant: a packet of a single source is merged with what the other source left.
Output_MergeAlone(p) ==
  [i \in 1 .. handling.length |->
     {InHand} \cup (IF port[p].ltp THEN {} ELSE {OtherHeld(p)[i]} \ {Zero})]

\* dmxnode::Data::IMergeSourceA(), IMergeSourceB(): the port's data once the packet
\* is taken, as long as the packet, HTP with whatever is held for the other source.
Output(p) ==
  [i \in 1 .. handling.length |->
     {InHand} \cup (IF ~OutcomeAt(p).merge \/ port[p].ltp THEN {}
                    ELSE {OtherHeld(p)[i]} \ {Zero})]

\* The data goes out at once, the port being started if need be, or it is buffered
\* until the ArtSync.
Taken(record, merging, buffered) ==
  [record EXCEPT !.merging = merging,
                 !.length  = TRUE,
                 !.pending = @ \/ buffered,
                 !.transmitting = @ \/ ~buffered,
                 !.started = @ \/ (~buffered /\ ~record.transmitting)]

TakeDmx(p) ==
  /\ AtPort(p) /\ Wanted(p)
  /\ LET outcome  == OutcomeAt(p)
         merging  == outcome.merge \/ Merging(p)
     IN  /\ outcome # Discard
         /\ a' = [a EXCEPT ![p] = IF outcome.source = "A" THEN Updated(SourceA(p)) ELSE SourceA(p)]
         /\ b' = [b EXCEPT ![p] = IF outcome.source = "B" THEN Updated(SourceB(p)) ELSE SourceB(p)]
         /\ mergeMode' = (outcome.merge \/ StillMergeMode(p))
         /\ port' = [port EXCEPT ![p] = Taken(@, merging, sync /\ ~merging)]
  /\ NextPort
  /\ UNCHANGED <<sync, dmxIp, syncAge, packetAge, discovering>>

----------------------------------------------------------------------------
(* ArtSync *)

\* Mutant: the ArtSync of the latest sender is always obeyed.
Obeyed_AlwaysMerge(ip) == dmxIp = ip

\* An ArtSync is obeyed if its sender sent the latest ArtDmx and no port merges.
Obeyed(ip) == dmxIp = ip /\ ~mergeMode

\* The first one switches to the synchronous mode.
EnterSync(ip) ==
  /\ Arrival
  /\ Obeyed(ip) /\ ~StillSync
  /\ sync' = TRUE
  /\ syncAge' = 0
  /\ UNCHANGED <<a, b, port, mergeMode, dmxIp, discovering, handling>>

\* HandleSync() and DmxSend::Sync(): what was buffered goes out, and every port for
\* which data has come since the last ArtSync is started.
Synced(record) ==
  [record EXCEPT !.pending = FALSE,
                 !.transmitting = @ \/ record.pending,
                 !.length = FALSE,
                 !.started = @ \/ record.length]

HandleSync(ip) ==
  /\ Arrival
  /\ Obeyed(ip) /\ StillSync
  /\ syncAge' = 0
  /\ port' = [p \in Ports |-> Synced(port[p])]
  /\ UNCHANGED <<a, b, mergeMode, sync, dmxIp, discovering, handling>>

\* An ArtSync that is not obeyed, and every packet that does not concern the output.
OtherPacket ==
  /\ Arrival
  /\ sync' = StillSync
  /\ UNCHANGED <<a, b, port, mergeMode, dmxIp, syncAge, discovering, handling>>

----------------------------------------------------------------------------
(* ArtAddress *)

NoSources == /\ a' = [p \in Ports |-> GivenUp(a[p])]
             /\ b' = [p \in Ports |-> GivenUp(b[p])]

\* Mutant: the flags are reset, the sources kept.
CancelMerge_KeepSources ==
  /\ Arrival
  /\ sync' = StillSync
  /\ mergeMode' = FALSE
  /\ port' = [p \in Ports |-> [port[p] EXCEPT !.merging = FALSE]]
  /\ UNCHANGED <<a, b, dmxIp, syncAge, discovering, handling>>

\* PortCommand::kCancel
CancelMerge ==
  /\ Arrival
  /\ sync' = StillSync
  /\ mergeMode' = FALSE
  /\ NoSources
  /\ port' = [p \in Ports |-> [port[p] EXCEPT !.merging = FALSE]]
  /\ UNCHANGED <<dmxIp, syncAge, discovering, handling>>

\* PortCommand::kMergeLtpO, kMergeHtp0
SetMergeMode(p, ltp) ==
  /\ Arrival
  /\ sync' = StillSync
  /\ port' = [port EXCEPT ![p].ltp = ltp]
  /\ UNCHANGED <<a, b, mergeMode, dmxIp, syncAge, discovering, handling>>

\* PortCommand::kClr0: the port's data is all zero, of the full length.
Clear(p) ==
  /\ Arrival
  /\ sync' = StillSync
  /\ port' = [port EXCEPT ![p].length = TRUE]
  /\ UNCHANGED <<a, b, mergeMode, dmxIp, syncAge, discovering, handling>>

\* PortCommand::kStyleDelta0, kStyleConstant0
SetOutputStyle ==
  /\ Arrival
  /\ sync' = FALSE
  /\ UNCHANGED <<a, b, port, mergeMode, dmxIp, syncAge, discovering, handling>>

----------------------------------------------------------------------------
(* RDM *)

\* StopOutputPort()
Stopped(record) ==
  [record EXCEPT !.transmitting = FALSE,
                 !.started = @ /\ ~record.transmitting]

\* HandleRdm(): the ports are stopped and the message sent.
RdmSendPorts(address) == {p \in RdmPorts : Address[p] = address /\ ~IsRunning(p)}

HandleRdm(address) ==
  /\ Arrival
  /\ sync' = StillSync
  /\ port' = [p \in Ports |-> IF p \in RdmSendPorts(address) THEN Stopped(port[p])
                                                           ELSE port[p]]
  /\ UNCHANGED <<a, b, mergeMode, dmxIp, syncAge, discovering, handling>>

\* rdm::discovery::Starting(), Finished()
StartDiscovery(p) ==
  /\ Idle
  /\ p \in RdmPorts /\ discovering = {}
  /\ discovering' = {p}
  /\ port' = [port EXCEPT ![p] = Stopped(@)]
  /\ UNCHANGED <<a, b, mergeMode, sync, dmxIp, syncAge, packetAge, handling>>

EndDiscovery(p) ==
  /\ Idle
  /\ p \in discovering
  /\ discovering' = {}
  /\ UNCHANGED <<a, b, port, mergeMode, sync, dmxIp, syncAge, packetAge, handling>>

----------------------------------------------------------------------------
(* Run(): loss of the network; and the passing of time *)

Sourceless == \A p \in Ports : a[p].ip = None /\ b[p].ip = None

\* Mutant: the sources survive the loss of the network.
SetNetworkDataLossCondition_KeepSources ==
  /\ Idle
  /\ packetAge >= LossTimeout
  /\ mergeMode' = FALSE /\ sync' = FALSE
  /\ port' = [p \in Ports |-> [port[p] EXCEPT !.length = FALSE]]
  /\ UNCHANGED <<a, b, dmxIp, syncAge, packetAge, discovering, handling>>

\* SetNetworkDataLossCondition()
SetNetworkDataLossCondition ==
  /\ Idle
  /\ packetAge >= LossTimeout
  /\ mergeMode' = FALSE /\ sync' = FALSE
  /\ IF Sourceless
     THEN UNCHANGED <<a, b, port>>
     ELSE /\ NoSources
          /\ port' = [p \in Ports |-> [port[p] EXCEPT !.length = FALSE]]
  /\ UNCHANGED <<dmxIp, syncAge, packetAge, discovering, handling>>

Older(age) == IF age = Old THEN Old ELSE age + 1

Tick ==
  /\ Idle
  /\ a' = [p \in Ports |-> [a[p] EXCEPT !.age = Older(@)]]
  /\ b' = [p \in Ports |-> [b[p] EXCEPT !.age = Older(@)]]
  /\ syncAge' = Older(syncAge)
  /\ packetAge' = Older(packetAge)
  /\ UNCHANGED <<port, mergeMode, sync, dmxIp, discovering, handling>>

----------------------------------------------------------------------------
HandleDmx == \/ \E p \in Ports : SkipPort(p) \/ DiscardDmx(p) \/ TakeDmx(p)
             \/ LastPort

Packet ==
  \/ \E sender \in Senders, length \in Lengths, address \in PortAddresses :
       ArtDmx(sender, length, address)
  \/ \E ip \in Controllers : EnterSync(ip) \/ HandleSync(ip)
  \/ OtherPacket
  \/ CancelMerge \/ SetOutputStyle
  \/ \E p \in Ports : Clear(p) \/ \E ltp \in BOOLEAN : SetMergeMode(p, ltp)
  \/ \E address \in PortAddresses : HandleRdm(address)

Next ==
  \/ Packet
  \/ HandleDmx
  \/ \E p \in Ports : StartDiscovery(p) \/ EndDiscovery(p)
  \/ SetNetworkDataLossCondition
  \/ Tick

Spec == Init /\ [][Next]_vars

\* The superloop calls Run() again and again.
FairSpec == Spec /\ WF_vars(SetNetworkDataLossCondition)

----------------------------------------------------------------------------
(* Properties *)

TypeOK ==
  /\ a \in [Ports -> Source]
  /\ b \in [Ports -> Source]
  /\ port \in [Ports -> PortRecord]
  /\ mergeMode \in BOOLEAN
  /\ sync \in BOOLEAN
  /\ dmxIp \in Controllers \cup {None}
  /\ syncAge \in Age
  /\ packetAge \in Age
  /\ discovering \subseteq Ports
  /\ \/ handling = NoPacket
     \/ /\ handling \in [ip : Controllers, physical : Physicals, length : Lengths,
                         address : PortAddresses, at : 1 .. PortCount + 1]
        /\ InHand \in Senders

\* A port with two sources is marked as merging and the node is in merge mode: the
\* flag of the node, recomputed from those of the ports in one handler and reset in
\* two others, is never lost while a port needs it.
TwoSourcesMerge ==
  \A p \in Ports : a[p].ip # None /\ b[p].ip # None => port[p].merging /\ mergeMode

\* "When a port is merging multiple streams of ArtDmx from different IP addresses,
\* ArtSync packets shall be ignored" (artnetnode.cpp:784): no ArtSync changes the
\* mode or the output while a port has two sources.
SyncIgnoredWhenMerging ==
  [][(\E ip \in Controllers : EnterSync(ip) \/ HandleSync(ip))
       => \A p \in Ports : a[p].ip = None \/ b[p].ip = None]_vars

\* The senders port p is registered for.
Registered(p) == {<<s.ip, s.physical>> : s \in {t \in {a[p], b[p]} : t.ip # None}}

\* The slots that every registered source of port p has sent since it was entered,
\* once the packet in hand is taken.
Covered(p) ==
  {i \in 1 .. handling.length : \A s \in {a'[p], b'[p]} : s.ip # None => i <= s.covered}

\* What a port puts out when it takes a packet comes from its registered sources
\* alone: nothing of a source that was given up is merged in again, except in slots
\* behind all that its successor has sent (dmxnodedata.h:78, 98 leave them as they
\* are, and :83-86, 103-106 merge them).
OnlyRegistered ==
  [][\A p \in Ports : TakeDmx(p) =>
       \A i \in Covered(p) : Output(p)[i] \subseteq Registered(p)']_vars

\* In merge mode, nothing of a source that has been silent for longer than the merge
\* timeout is merged in, in the same slots.
OnlyFresh ==
  [][\A p \in Ports : TakeDmx(p) /\ mergeMode =>
       \A i \in Covered(p) :
         Output(p)[i] \subseteq
           {<<s.ip, s.physical>> : s \in {t \in {a'[p], b'[p]} : ~Expired(t)}}]_vars

\* Ten seconds without a packet, and the node has forgotten its sources.
LossForgets == packetAge = Old ~> (Sourceless \/ packetAge # Old)

\* A packet is discarded as one of "more than two sources" (artnetnode.cpp:950, 966)
\* only when the port has two other ones.
DiscardsOnlyThird ==
  [][\A p \in Ports : DiscardDmx(p) =>
       /\ a'[p].ip # None /\ b'[p].ip # None
       /\ InHand \notin Registered(p)]_vars

\* Data that waits for an ArtSync is there when it comes: the assertion of
\* DmxSend::Sync(), "assert(dmxnode::Data::GetLength(kLightsetOffset) != 0)",
\* lib-dmx/include/dmxsend.h:101.
SyncHasData ==
  [][\A ip \in Controllers : HandleSync(ip) =>
       \A p \in Ports : port[p].pending => port[p].length]_vars

\* When an RDM message is sent, the port's output has been stopped: "Stop DMX if
\* was running", lib-artnet/include/artnetnode_inline_impl.h:248.
StoppedForRdm ==
  [][\A address \in PortAddresses : HandleRdm(address) =>
       \A p \in RdmSendPorts(address) : ~port'[p].started]_vars
=============================================================================
