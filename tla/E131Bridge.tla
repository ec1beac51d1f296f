----------------------------- MODULE E131Bridge -----------------------------
(***************************************************************************)
(* The output side of the sACN bridge, lib-e131/src/node/e131bridge.cpp:   *)
(* two sources per port with priorities, stream termination, universe      *)
(* synchronisation and loss of the network, as built for the firmware      *)
(* (NDEBUG: no assertions, and cases 8 and 9 of HandleDmx() store nothing  *)
(* but go on).                                                             *)
(*                                                                         *)
(* As in ArtNetOutput one port is one step of HandleDmx(), what is held for*)
(* a source is the sender of each slot, and what a port puts out are the   *)
(* senders that contribute to each slot.  A sender is an IP address with   *)
(* its CID.  Whether a packet is out of sequence depends on numbers the    *)
(* network may lose, repeat and reorder at will: any packet of a registered*)
(* source may be.  Of the output driver nothing is kept.                   *)
(***************************************************************************)
EXTENDS Naturals

CONSTANTS
  PortCount,         \* dmxnode::kMaxPorts; the ports are outputs
  Universes,
  Universe,          \* the universe of each port
  Senders,
  SlotCount,         \* dmxnode::kUniverseSize
  Lengths,           \* the numbers of slots in the data packets
  None,              \* the IP address 0; also the synchronisation address 0
  Priorities,        \* the values of the priority field
  Lowest,            \* priority::kLowest
  SyncAddresses,     \* the synchronisation addresses in use
  LtpPorts,          \* the ports with merge mode LTP
  DisableMergeTimeout, DisableSynchronize,
  LossTimeout,       \* kNetworkDataLossTimeoutSeconds
  PriorityTimeout    \* kPriorityTimeoutSeconds, which equals kMergeTimeoutSeconds

Ports == 1 .. PortCount
Old   == PriorityTimeout + 1
Slots == 1 .. SlotCount

ASSUME CountAssumption    == PortCount \in Nat
ASSUME UniverseAssumption == Universe \in [Ports -> Universes]
ASSUME NoneAssumption     == None \notin Senders \cup SyncAddresses
ASSUME LengthAssumption   == SlotCount \in Nat /\ Lengths \subseteq 0 .. SlotCount
ASSUME PriorityAssumption == /\ Priorities \subseteq Nat /\ Lowest \in Priorities
ASSUME OptionAssumption   == /\ LtpPorts \subseteq Ports
                             /\ DisableMergeTimeout \in BOOLEAN
                             /\ DisableSynchronize \in BOOLEAN
ASSUME TimeAssumption     == /\ LossTimeout \in Nat /\ PriorityTimeout \in Nat
                             /\ LossTimeout < PriorityTimeout

VARIABLES
  a, b,          \* source_a and source_b of each port, with the data held for them
  port,          \* the rest of output_port_
  mergeMode,     \* state_.is_merge_mode
  priority,      \* state_.priority, one for all ports
  sync, forced,  \* state_.is_synchronized, is_forced_synchronized
  addressA, addressB,  \* state_.synchronization_address_source_a, _b
  loss,          \* state_.is_network_data_loss
  syncAge,       \* time since state_.synchronization_time
  packetAge,     \* time since packet_millis_
  handling       \* the data packet being handled and the port it has come to

merge == <<a, b, port, mergeMode, priority>>
synchronisation == <<sync, forced, addressA, addressB>>
vars == <<merge, synchronisation, loss, syncAge, packetAge, handling>>

\* `held' is whose byte Source::data has in a slot, None before any came.  The others
\* are history: the slots that packets have reached since the source was entered; the
\* priority of the source's last packet; and whether another port has since taken a
\* packet of a lower one, which lowers state_.priority for all ports.
Source == [ip : Senders \cup {None}, age : 0 .. Old,
           held : [Slots -> Senders \cup {None}], covered : 0 .. SlotCount,
           priority : Priorities, undercut : BOOLEAN]
PortRecord == [merging : BOOLEAN, transmitting : BOOLEAN,
               pending : BOOLEAN]             \* is_data_pending

\* A data packet: live, with the option force or a synchronisation address, which
\* force makes meaningless; or the end of its stream.
DataPacket ==
  [kind : {"live"}, sender : Senders, universe : Universes, priority : Priorities,
   length : Lengths, address : SyncAddresses \cup {None}, force : {FALSE}]
  \cup [kind : {"live"}, sender : Senders, universe : Universes, priority : Priorities,
        length : Lengths, address : {None}, force : {TRUE}]
  \cup [kind : {"terminated"}, sender : Senders, universe : Universes]
NoPacket == [sender |-> None]

Init ==
  /\ a = [p \in Ports |-> [ip |-> None, age |-> 0, held |-> [i \in Slots |-> None],
                           covered |-> 0, priority |-> Lowest, undercut |-> FALSE]]
  /\ b = a
  /\ port = [p \in Ports |-> [merging |-> FALSE, transmitting |-> FALSE, pending |-> FALSE]]
  /\ mergeMode = FALSE
  /\ priority = Lowest
  /\ sync = FALSE /\ forced = FALSE
  /\ addressA = None /\ addressB = None
  /\ loss = FALSE
  /\ syncAge = 0 /\ packetAge = 0
  /\ handling = NoPacket

Idle == handling = NoPacket

----------------------------------------------------------------------------
(* InputUdp() *)

\* Mutant: the flag of the network's loss is not reset.
Arrival_KeepLoss ==
  /\ Idle
  /\ packetAge' = 0
  /\ loss' = loss

\* Every packet ends the loss of the network.
Arrival ==
  /\ Idle
  /\ packetAge' = 0
  /\ loss' = FALSE

\* Mutant: a forced synchronisation times out too.
StillSync_Forced == sync /\ syncAge < LossTimeout

\* The synchronised state ends for want of synchronisation packets unless forced.
StillSync == sync /\ (forced \/ syncAge < LossTimeout)

\* The loop of HandleDmx() over the ports passes by the ports of other universes.
Handle(packet, ports) ==
  LET listening == {p \in ports : Universe[p] = packet.universe}
  IN  \/ listening = {} /\ handling' = NoPacket
      \/ \E p \in listening :
           /\ \A q \in listening : p <= q
           /\ handling' = [packet |-> packet, sender |-> packet.sender, at |-> p]

Receive(packet) ==
  /\ Arrival
  /\ sync' = StillSync
  /\ Handle(packet, Ports)
  /\ UNCHANGED <<merge, forced, addressA, addressB, syncAge>>

\* Any other packet: a synchronisation packet for a foreign address, and data for
\* preview, which is dropped.
OtherPacket ==
  /\ Arrival
  /\ sync' = StillSync
  /\ UNCHANGED <<merge, forced, addressA, addressB, syncAge, handling>>

\* What was buffered goes out on every port.  The address 0 is that of every source
\* that has named none.
HandleSynchronization(address) ==
  /\ Arrival
  /\ address \in {addressA, addressB}
  /\ sync' = StillSync
  /\ syncAge' = 0
  /\ port' = [p \in Ports |-> [port[p] EXCEPT !.pending = FALSE,
                                              !.transmitting = @ \/ port[p].pending]]
  /\ UNCHANGED <<a, b, mergeMode, priority, forced, addressA, addressB, handling>>

----------------------------------------------------------------------------
(* HandleDmx(): the packet at port p *)

Packet == handling.packet

\* Mutant: a source that has timed out counts as a new one.
IsSourceA_Fresh(p) == a[p].ip = handling.sender /\ a[p].age <= PriorityTimeout

\* IsIpCidMatch()
IsSourceA(p) == a[p].ip = handling.sender
IsSourceB(p) == b[p].ip = handling.sender

NextPort == Handle(Packet, {p \in Ports : p > handling.at})

At(p) == ~Idle /\ handling.at = p

\* The packet is out of sequence, or ends a stream that is not registered.
Ignore(p) ==
  /\ At(p)
  /\ IsSourceA(p) \/ IsSourceB(p) \/ Packet.kind = "terminated"
  /\ NextPort
  /\ UNCHANGED <<merge, synchronisation, loss, syncAge, packetAge>>

\* A source that is given up: its data stays.
Gone(source) ==
  [source EXCEPT !.ip = None, !.covered = 0, !.priority = Lowest, !.undercut = FALSE]

ResetState ==
  /\ loss' = TRUE
  /\ mergeMode' = FALSE
  /\ sync' = FALSE /\ forced' = FALSE
  /\ priority' = Lowest

\* SetNetworkDataLossCondition() for both sources: only the ports that transmit
\* forget theirs.
LoseNetwork ==
  LET lost == {p \in Ports : port[p].transmitting}
  IN  /\ ResetState
      /\ a' = [p \in Ports |-> IF p \in lost THEN Gone(a[p]) ELSE a[p]]
      /\ b' = [p \in Ports |-> IF p \in lost THEN Gone(b[p]) ELSE b[p]]
      /\ port' = [p \in Ports |-> IF p \in lost
                                  THEN [port[p] EXCEPT !.transmitting = FALSE, !.merging = FALSE]
                                  ELSE port[p]]
      /\ UNCHANGED <<addressA, addressB, syncAge, packetAge>>

\* The same for one source: slot A, or slot B, of every port that transmits, whatever
\* its universe and whoever is in the slot.
LoseSource(slotA) ==
  LET slot == IF slotA THEN a ELSE b
      lost == {p \in Ports : port[p].transmitting /\ slot[p].ip # None}
      left == [p \in Ports |-> IF p \in lost THEN Gone(slot[p]) ELSE slot[p]]
  IN  /\ a' = IF slotA THEN left ELSE a
      /\ b' = IF slotA THEN b ELSE left
      /\ port' = [p \in Ports |-> [port[p] EXCEPT !.merging = @ /\ p \notin lost,
                                                  !.transmitting = @ /\ mergeMode]]
      /\ UNCHANGED <<mergeMode, priority, synchronisation, loss, syncAge, packetAge>>

\* The stream has ended.
Terminate(p) ==
  /\ At(p) /\ Packet.kind = "terminated"
  /\ IsSourceA(p) \/ IsSourceB(p)
  /\ IF IsSourceA(p) /\ IsSourceB(p) THEN LoseNetwork ELSE LoseSource(IsSourceA(p))
  /\ NextPort

Live(p) == At(p) /\ Packet.kind = "live"

(* CheckMergeTimeouts(), in merge mode *)

CheckTimeouts == mergeMode /\ ~DisableMergeTimeout
Expired(source) == CheckTimeouts /\ source.age > PriorityTimeout
Unexpired(source) == IF Expired(source) THEN Gone(source) ELSE source
SourceA(p) == Unexpired(a[p])
SourceB(p) == Unexpired(b[p])
Merging(p) == port[p].merging /\ ~Expired(a[p]) /\ ~Expired(b[p])
StillMergeMode(p) ==
  mergeMode /\ (DisableMergeTimeout \/ Merging(p) \/ \E q \in Ports \ {p} : port[q].merging)

(* Priorities *)

\* Mutant: of two sources, one that is timed out is enough.
IsPriorityTimeOut_Either(p) ==
  \/ SourceA(p).ip # None /\ SourceA(p).age >= PriorityTimeout
  \/ SourceB(p).ip # None /\ SourceB(p).age >= PriorityTimeout

\* Two sources are timed out after kPriorityTimeoutSeconds, a single one later than
\* that; no source is never timed out.
IsPriorityTimeOut(p) ==
  LET sources == {s \in {SourceA(p), SourceB(p)} : s.ip # None}
      both    == SourceA(p).ip # None /\ SourceB(p).ip # None
  IN  /\ sources # {}
      /\ \A s \in sources : IF both THEN s.age >= PriorityTimeout
                                    ELSE s.age > PriorityTimeout

Refused(p) == Packet.priority < priority /\ ~IsPriorityTimeOut(p)

\* A packet of too low a priority.  The timeouts have been checked by then.
Refuse(p) ==
  /\ Live(p) /\ Refused(p)
  /\ a' = [a EXCEPT ![p] = SourceA(p)]
  /\ b' = [b EXCEPT ![p] = SourceB(p)]
  /\ port' = [port EXCEPT ![p].merging = Merging(p)]
  /\ mergeMode' = StillMergeMode(p)
  /\ NextPort
  /\ UNCHANGED <<priority, synchronisation, loss, syncAge, packetAge>>

(* The case distinction of HandleDmx().  It looks at the sources as they were before
   their timeouts were checked and before a higher priority removed them. *)

\* Which source the packet belongs to; "None" is a third one, or both.
SlotOf(p) ==
  IF IsSourceA(p) /\ IsSourceB(p) THEN "None"
  ELSE IF IsSourceA(p) \/ (a[p].ip = None /\ ~IsSourceB(p)) THEN "A"
  ELSE IF IsSourceB(p) \/ b[p].ip = None THEN "B" ELSE "None"

\* Mutant: a packet is merged whoever the other source is.
Merges_Always(p) == SlotOf(p) # "None"

Merges(p) == \/ SlotOf(p) = "A" /\ b[p].ip # None
             \/ SlotOf(p) = "B" /\ a[p].ip # None

\* memcpy() of the packet over what is held.  A sender that is already a source is
\* not entered again.
Taken(source, p) ==
  LET ip == IF IsSourceA(p) \/ IsSourceB(p) THEN source.ip ELSE handling.sender
  IN  [ip       |-> ip,
       age      |-> 0,
       held     |-> [i \in Slots |-> IF i <= Packet.length THEN handling.sender
                                                          ELSE source.held[i]],
       covered  |-> IF ip = None THEN 0
                    ELSE IF ip = source.ip /\ source.covered > Packet.length
                    THEN source.covered ELSE Packet.length,
       priority |-> IF ip = None THEN Lowest ELSE Packet.priority,
       undercut |-> FALSE]

\* dmxnode::Data::IMergeSourceA(), IMergeSourceB(): the port's data, as long as the
\* packet, HTP with whatever is held for the other source.
Output(p) ==
  LET other == IF SlotOf(p) = "A" THEN b[p].held ELSE a[p].held
  IN  [i \in 1 .. Packet.length |->
         {handling.sender} \cup (IF ~Merges(p) \/ p \in LtpPorts THEN {}
                                 ELSE {other[i]} \ {None})]

(* Synchronisation *)

\* Without the option force, the first packet that names an address synchronises.
Synchronises == ~Packet.force /\ Packet.address # None /\ ~forced

\* The source whose address it becomes; "None" if neither slot is taken.
AddressSlot(p, sa, sb) ==
  IF IsSourceA(p) THEN "A" ELSE IF IsSourceB(p) THEN "B"
  ELSE IF sa.ip # None THEN "A" ELSE IF sb.ip # None THEN "B" ELSE "None"

Synchronise(p, sa, sb) ==
  /\ forced' = (Synchronises \/ (forced /\ ~Packet.force))
  /\ sync' = (Synchronises \/ sync)
  /\ addressA' = IF Synchronises /\ AddressSlot(p, sa, sb) = "A" THEN Packet.address
                                                                ELSE addressA
  /\ addressB' = IF Synchronises /\ AddressSlot(p, sa, sb) = "B" THEN Packet.address
                                                                ELSE addressB

\* History: a source of another port.
Passed(source) == [source EXCEPT !.undercut = @ \/ Packet.priority < source.priority]

\* The packet is accepted: a higher priority removes the sources, the data is stored
\* and goes out at once or waits for a synchronisation packet.
TakeDmx(p) ==
  /\ Live(p) /\ ~Refused(p)
  /\ LET takeover == Packet.priority > priority
         heldA    == IF takeover THEN Gone(SourceA(p)) ELSE SourceA(p)
         heldB    == IF takeover THEN Gone(SourceB(p)) ELSE SourceB(p)
     IN  /\ a' = [q \in Ports |-> IF q # p THEN Passed(a[q])
                                   ELSE IF SlotOf(p) = "A" THEN Taken(heldA, p) ELSE heldA]
         /\ b' = [q \in Ports |-> IF q # p THEN Passed(b[q])
                                   ELSE IF SlotOf(p) = "B" THEN Taken(heldB, p) ELSE heldB]
         /\ mergeMode' = (Merges(p) \/ (~takeover /\ StillMergeMode(p)))
         /\ Synchronise(p, a'[p], b'[p])
  /\ priority' = Packet.priority
  /\ LET now == ~sync' \/ DisableSynchronize
     IN  port' = [port EXCEPT ![p].merging = Merges(p) \/ Merging(p),
                              ![p].transmitting = @ \/ now,
                              ![p].pending = @ \/ ~now]
  /\ NextPort
  /\ UNCHANGED <<loss, syncAge, packetAge>>

----------------------------------------------------------------------------
(* Run(), Clear() and the passing of time *)

SetNetworkDataLossCondition ==
  /\ Idle
  /\ packetAge >= LossTimeout /\ ~loss
  /\ LoseNetwork
  /\ UNCHANGED handling

\* Clear(): zeroes go out at once; the loss of the network will be noticed again.
Clear(p) ==
  /\ Idle
  /\ loss' = FALSE
  /\ port' = [port EXCEPT ![p].transmitting = TRUE]
  /\ UNCHANGED <<a, b, mergeMode, priority, synchronisation, syncAge, packetAge, handling>>

Older(age, bound) == IF age = bound THEN bound ELSE age + 1
OlderSource(source) == [source EXCEPT !.age = Older(@, Old)]

Tick ==
  /\ Idle
  /\ a' = [p \in Ports |-> OlderSource(a[p])]
  /\ b' = [p \in Ports |-> OlderSource(b[p])]
  /\ syncAge' = Older(syncAge, LossTimeout)
  /\ packetAge' = Older(packetAge, LossTimeout)
  /\ UNCHANGED <<port, mergeMode, priority, synchronisation, loss, handling>>

----------------------------------------------------------------------------
HandleDmx == \E p \in Ports : Ignore(p) \/ Terminate(p) \/ Refuse(p) \/ TakeDmx(p)

Next ==
  \/ \E packet \in DataPacket : Receive(packet)
  \/ \E address \in SyncAddresses \cup {None} : HandleSynchronization(address)
  \/ OtherPacket
  \/ HandleDmx
  \/ SetNetworkDataLossCondition
  \/ \E p \in Ports : Clear(p)
  \/ Tick

Spec == Init /\ [][Next]_vars

----------------------------------------------------------------------------
(* Properties *)

TypeOK ==
  /\ a \in [Ports -> Source]
  /\ b \in [Ports -> Source]
  /\ port \in [Ports -> PortRecord]
  /\ mergeMode \in BOOLEAN
  /\ priority \in Priorities
  /\ sync \in BOOLEAN /\ forced \in BOOLEAN
  /\ addressA \in SyncAddresses \cup {None}
  /\ addressB \in SyncAddresses \cup {None}
  /\ loss \in BOOLEAN
  /\ syncAge \in 0 .. LossTimeout
  /\ packetAge \in 0 .. LossTimeout
  /\ handling \in {NoPacket} \cup [packet : DataPacket, sender : Senders,
                                   at : Ports]

\* The two slots of a port never hold the same source: "Source matches both ip"
\* (case 8 of HandleDmx()) does not happen, although the cases are told apart by
\* copies that timeouts and a higher priority have made stale.
DistinctSources ==
  \A p \in Ports : a[p].ip # None => a[p].ip # b[p].ip

\* The flag that keeps Run() from resetting the state again is set only while the
\* state is reset.
LossIsClean == loss => priority = Lowest /\ ~sync /\ ~mergeMode

\* A bridge that is to wait for synchronisation packets is synchronised: its data does
\* not go out in between.
ForcedIsSync == forced => sync

\* No packet is put out while another source of the port, of a higher priority, has
\* been heard within the network's timeout; unless another port has meanwhile taken a
\* packet of a lower priority: there is one state_.priority for all (e131bridge.cpp:705).
HigherPriorityWins ==
  [][\A p \in Ports : TakeDmx(p) =>
       \A s \in {a'[p], b'[p]} :
         s.ip \notin {None, handling.sender} /\ s.age < LossTimeout /\ ~s.undercut
           => s.priority <= Packet.priority]_vars

\* The slots of the packet that every other source of port p has sent too since it was
\* entered.
Covered(p) ==
  {i \in 1 .. Packet.length :
     \A s \in {a[p], b[p]} : s.ip \notin {None, handling.sender} => i <= s.covered}

\* What a port puts out when it takes the packet in hand comes from the packet's sender
\* and the sources the port has: the data left by a source given up before is not merged
\* in, except in slots behind all that its successor has sent (dmxnodedata.h:78, 98 leave
\* them as they are, and :83-86, 103-106 merge them).
OutputFromSources ==
  \A p \in Ports : Live(p) /\ ~Refused(p) =>
    \A i \in Covered(p) : Output(p)[i] \subseteq {handling.sender, a[p].ip, b[p].ip}

\* "Data priority if multiple sources", lib-e131/include/e131.h:93: a packet is
\* refused for its priority only while its port has another source.
PriorityAmongSources ==
  [][\A p \in Ports : Refuse(p) => a'[p].ip # None \/ b'[p].ip # None]_vars
=============================================================================
