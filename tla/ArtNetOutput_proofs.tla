------------------------ MODULE ArtNetOutput_proofs ------------------------
(***************************************************************************)
(* Proofs about ArtNetOutput for every number of ports and controllers,    *)
(* every assignment of port addresses and every choice of the timeouts.    *)
(***************************************************************************)
EXTENDS ArtNetOutput, TLAPS

USE CountAssumption, AddressAssumption, NoneAssumption, PhysicalAssumption,
    TimeAssumption, RdmAssumption, SenderAssumption, LengthAssumption

\* What is held for a registered source is its own in every slot that its packets
\* have reached since it was entered.
Own(s) == s.ip # None =>
            \A i \in Slots : i <= s.covered => s.held[i] = <<s.ip, s.physical>>
HeldData == \A p \in Ports : Own(a[p]) /\ Own(b[p])

IInv == TypeOK /\ HeldData /\ TwoSourcesMerge

----------------------------------------------------------------------------
(* Lemmas *)

\* Ages count up to Old and stay there.
LEMMA OlderAge == \A age \in Age : Older(age) \in Age
  BY DEF Older, Age, Old

\* A source that has become older is still a source.
LEMMA OlderSource == \A s \in Source : [s EXCEPT !.age = Older(@)] \in Source
  BY OlderAge DEF Source

\* The type of the packet in hand.
Packets == [ip : Controllers, physical : Physicals, length : Lengths,
            address : PortAddresses, at : 1 .. PortCount + 1]

\* A source whose packet is taken is a source, that of the packet.
LEMMA UpdatedSource ==
  ASSUME NEW s \in Source, handling \in Packets, InHand \in Senders
  PROVE  /\ Updated(s) \in Source
         /\ Updated(s).ip = handling.ip /\ Updated(s).physical = handling.physical
         /\ Updated(s).age = 0
         /\ Own(s) => Own(Updated(s))
<1> DEFINE held == [i \in Slots |-> IF i <= handling.length THEN InHand ELSE s.held[i]]
           covered == IF InHand = <<s.ip, s.physical>> /\ s.covered > handling.length
                      THEN s.covered ELSE handling.length
<1>1. /\ handling.ip \in Controllers /\ handling.physical \in Physicals
      /\ handling.length \in 1 .. SlotCount /\ handling.ip # None
  BY DEF Packets, Slots
<1>2. s.held \in [Slots -> Senders \cup {Zero}] /\ s.covered \in 0 .. SlotCount
  BY DEF Source
<1>3. held \in [Slots -> Senders \cup {Zero}]
  BY <1>2
<1>4. covered \in 0 .. SlotCount /\ 0 \in Age
  BY <1>1, <1>2 DEF Age, Old
<1>5. ASSUME Own(s), NEW i \in Slots, i <= covered PROVE held[i] = InHand
  <2>1. CASE i <= handling.length
    BY <2>1
  <2>2. CASE ~(i <= handling.length)
    <3>1. InHand = <<s.ip, s.physical>> /\ i <= s.covered
      BY <1>1, <1>2, <1>5, <2>2 DEF Slots
    <3>2. s.ip # None
      BY <1>1, <3>1 DEF InHand
    <3> QED BY <1>5, <2>2, <3>1, <3>2 DEF Own
  <2> QED BY <2>1, <2>2
<1>6. Updated(s) = [ip |-> handling.ip, physical |-> handling.physical, age |-> 0,
                    held |-> held, covered |-> covered]
  BY DEF Updated
<1> HIDE DEF held, covered
<1>7. Updated(s) \in Source
  BY <1>1, <1>3, <1>4, <1>6 DEF Source
<1>8. Own(s) => Own(Updated(s))
  BY <1>5, <1>6 DEF Own, InHand
<1> QED BY <1>6, <1>7, <1>8

\* A source that is given up is still a source.
LEMMA GivenUpSource ==
  \A s \in Source : GivenUp(s) \in Source /\ GivenUp(s).ip = None /\ Own(GivenUp(s))
<1> SUFFICES ASSUME NEW s \in Source
             PROVE  GivenUp(s) \in Source /\ GivenUp(s).ip = None /\ Own(GivenUp(s))
  OBVIOUS
<1>1. 0 \in 0 .. SlotCount
  OBVIOUS
<1>2. GivenUp(s) \in Source /\ GivenUp(s).ip = None
  BY <1>1 DEF Source, GivenUp
<1> QED BY <1>2 DEF Own

\* A source that has been checked for its timeout is still a source.
LEMMA UnexpiredSource ==
  \A s \in Source : /\ Unexpired(s) \in Source
                    /\ Own(s) => Own(Unexpired(s))
                    /\ Unexpired(s).ip # None => Unexpired(s) = s /\ ~Expired(s)
  BY GivenUpSource DEF Unexpired

\* A port that is stopped is still a port.
LEMMA StoppedRecord == \A r \in PortRecord : Stopped(r) \in PortRecord
  BY Zenon DEF Stopped, PortRecord

\* So is one that has taken a packet, or obeyed an ArtSync.
LEMMA TakenRecord ==
  \A r \in PortRecord, m \in BOOLEAN, f \in BOOLEAN : Taken(r, m, f) \in PortRecord
<1> SUFFICES ASSUME NEW r \in PortRecord, NEW m \in BOOLEAN, NEW f \in BOOLEAN
             PROVE  Taken(r, m, f) \in PortRecord
  OBVIOUS
<1>1. \A pending \in BOOLEAN, transmitting \in BOOLEAN, started \in BOOLEAN :
        [r EXCEPT !.merging = m, !.length = TRUE, !.pending = pending,
                  !.transmitting = transmitting, !.started = started] \in PortRecord
  BY Zenon DEF PortRecord
<1>2. (r.pending \/ f) \in BOOLEAN /\ (r.transmitting \/ ~f) \in BOOLEAN
      /\ (r.started \/ (~f /\ ~r.transmitting)) \in BOOLEAN
  OBVIOUS
<1> QED BY <1>1, <1>2, Zenon DEF Taken

LEMMA SyncedRecord == \A r \in PortRecord : Synced(r) \in PortRecord
  BY Zenon DEF Synced, PortRecord

\* A packet belongs to one of the two sources or to none.
LEMMA OutcomeCases ==
  ASSUME NEW sa, NEW sb, NEW ip \in Controllers, NEW physical
  PROVE  /\ Outcome(sa, sb, ip, physical).source \in {"A", "B", "None"}
         /\ Outcome(sa, sb, ip, physical).merge \in BOOLEAN
         /\ Outcome(sa, sb, ip, physical).source = "None"
              <=> Outcome(sa, sb, ip, physical) = Discard
  BY DEF Outcome, TakeAlone, TakeMerged, Discard

\* The packet in hand is one that a controller sent.
LEMMA HandlingPacket ==
  ASSUME TypeOK, NEW p \in Ports, AtPort(p)
  PROVE  handling \in Packets /\ InHand \in Senders
  BY DEF TypeOK, AtPort, Packets

\* It goes from port to port.
LEMMA NextInHand ==
  ASSUME TypeOK, NEW p \in Ports, AtPort(p), NextPort
  PROVE  handling' \in Packets /\ InHand' \in Senders
<1>1. handling \in Packets /\ InHand \in Senders /\ handling.at = p
  BY HandlingPacket DEF AtPort
<1>2. handling' = [handling EXCEPT !.at = handling.at + 1]
  BY DEF NextPort
<1>3. p + 1 \in 1 .. PortCount + 1
  BY DEF Ports
<1>4. handling' \in Packets /\ handling'.ip = handling.ip /\ handling'.physical = handling.physical
  BY <1>1, <1>2, <1>3 DEF Packets
<1> QED BY <1>1, <1>4 DEF InHand

\* A packet that is not merged leaves the other source unregistered.
LEMMA AloneIsAlone ==
  ASSUME NEW sa, NEW sb, NEW ip \in Controllers, NEW physical,
         Outcome(sa, sb, ip, physical).merge = FALSE
  PROVE  /\ Outcome(sa, sb, ip, physical).source = "A" => sb.ip = None
         /\ Outcome(sa, sb, ip, physical).source = "B" => sa.ip = None
  BY DEF Outcome, TakeAlone, TakeMerged, Discard

\* A packet is merged with a registered source only.
LEMMA MergedWithRegistered ==
  ASSUME NEW sa, NEW sb, NEW ip \in Controllers, NEW physical,
         Outcome(sa, sb, ip, physical).merge = TRUE
  PROVE  /\ Outcome(sa, sb, ip, physical).source = "A" => sb.ip # None
         /\ Outcome(sa, sb, ip, physical).source = "B" => sa.ip # None
  BY DEF Outcome, TakeAlone, TakeMerged, Discard

\* What the case distinction says of the port that takes a packet.
LEMMA OutcomeTaken ==
  ASSUME NEW p \in Ports, handling.ip \in Controllers, OutcomeAt(p) # Discard
  PROVE  /\ OutcomeAt(p).source \in {"A", "B"}
         /\ OutcomeAt(p).merge \in BOOLEAN
         /\ OutcomeAt(p).merge = FALSE =>
              /\ OutcomeAt(p).source = "A" => SourceB(p).ip = None
              /\ OutcomeAt(p).source = "B" => SourceA(p).ip = None
         /\ OutcomeAt(p).merge = TRUE =>
              /\ OutcomeAt(p).source = "A" => SourceB(p).ip # None
              /\ OutcomeAt(p).source = "B" => SourceA(p).ip # None
<1> DEFINE Out == Outcome(SourceA(p), SourceB(p), handling.ip, handling.physical)
<1>1. OutcomeAt(p) = Out
  BY Zenon DEF OutcomeAt
<1>2. /\ Out.source \in {"A", "B", "None"} /\ Out.merge \in BOOLEAN
      /\ Out.source = "None" <=> Out = Discard
  BY OutcomeCases, ZenonT(60)
<1>3. Out.merge = FALSE => /\ Out.source = "A" => SourceB(p).ip = None
                           /\ Out.source = "B" => SourceA(p).ip = None
  BY AloneIsAlone, Zenon
<1>4. Out.merge = TRUE => /\ Out.source = "A" => SourceB(p).ip # None
                          /\ Out.source = "B" => SourceA(p).ip # None
  BY MergedWithRegistered, Zenon
<1> HIDE DEF Out
<1> QED BY <1>1, <1>2, <1>3, <1>4, Zenon

----------------------------------------------------------------------------
(* Type correctness *)

\* Every variable keeps its type (TypeOK), whatever packets arrive.
THEOREM TypeCorrect == Spec => []TypeOK
<1>1. Init => TypeOK
  <2> SUFFICES ASSUME Init PROVE TypeOK
    OBVIOUS
  <2>0. 0 \in Age
    BY DEF Age, Old
  <2>1. a \in [Ports -> Source]
    BY <2>0 DEF Init, Source
  <2>2. b \in [Ports -> Source]
    BY <2>1 DEF Init
  <2>3. port \in [Ports -> PortRecord]
    BY DEF Init, PortRecord
  <2> QED BY <2>0, <2>1, <2>2, <2>3 DEF Init, TypeOK
<1>2. TypeOK /\ [Next]_vars => TypeOK'
  <2> SUFFICES ASSUME TypeOK, [Next]_vars PROVE TypeOK'
    OBVIOUS
  <2>1. ASSUME NEW sender \in Senders, NEW length \in Lengths,
               NEW address \in PortAddresses, ArtDmx(sender, length, address)
        PROVE  TypeOK'
    <3>1. handling' = [ip |-> sender[1], physical |-> sender[2], length |-> length,
                       address |-> address, at |-> 1]
      BY <2>1 DEF ArtDmx
    <3>2. sender[1] \in Controllers /\ sender[2] \in Physicals /\ sender = <<sender[1], sender[2]>>
      OBVIOUS
    <3>3. /\ handling' \in [ip : Controllers, physical : Physicals, length : Lengths,
                             address : PortAddresses, at : 1 .. PortCount + 1]
          /\ InHand' \in Senders
      BY <3>1, <3>2 DEF InHand
    <3> QED BY <2>1, <3>3 DEF TypeOK, ArtDmx, Arrival, StillSync, Age, Old
  <2>2. ASSUME NEW ip \in Controllers, EnterSync(ip) \/ HandleSync(ip)
        PROVE  TypeOK'
    <3>1. CASE EnterSync(ip)
      BY <3>1 DEF TypeOK, InHand, EnterSync, Arrival, Age, Old
    <3>2. CASE HandleSync(ip)
      <4>1. port' \in [Ports -> PortRecord]
        BY <3>2, SyncedRecord DEF TypeOK, HandleSync
      <4> QED BY <3>2, <4>1 DEF TypeOK, InHand, HandleSync, Arrival, Age, Old
    <3> QED BY <2>2, <3>1, <3>2
  <2>3. CASE OtherPacket
    BY <2>3 DEF TypeOK, InHand, OtherPacket, Arrival, StillSync, Age, Old
  <2>4. CASE CancelMerge
    <3>1. port' \in [Ports -> PortRecord]
      BY <2>4, ZenonT(60) DEF TypeOK, CancelMerge, PortRecord
    <3>2. a' \in [Ports -> Source] /\ b' \in [Ports -> Source]
      BY <2>4, GivenUpSource DEF TypeOK, CancelMerge, NoSources
    <3>3. mergeMode' \in BOOLEAN
      BY <2>4, Zenon DEF CancelMerge
    <3> QED BY <2>4, <3>1, <3>2, <3>3
            DEF TypeOK, InHand, CancelMerge, Arrival, StillSync, Age, Old
  <2>5. CASE SetOutputStyle
    <3>1. sync' \in BOOLEAN
      BY <2>5, Zenon DEF SetOutputStyle
    <3> QED BY <2>5, <3>1 DEF TypeOK, InHand, SetOutputStyle, Arrival, Age, Old
  <2>6. ASSUME NEW p \in Ports, Clear(p) PROVE TypeOK'
    <3>1. port' \in [Ports -> PortRecord]
      BY <2>6, ZenonT(60) DEF TypeOK, Clear, PortRecord
    <3> QED BY <2>6, <3>1 DEF TypeOK, InHand, Clear, Arrival, StillSync, Age, Old
  <2>7. ASSUME NEW p \in Ports, NEW ltp \in BOOLEAN, SetMergeMode(p, ltp) PROVE TypeOK'
    <3>1. port' \in [Ports -> PortRecord]
      BY <2>7, ZenonT(60) DEF TypeOK, SetMergeMode, PortRecord
    <3> QED BY <2>7, <3>1 DEF TypeOK, InHand, SetMergeMode, Arrival, StillSync, Age, Old
  <2>8. ASSUME NEW address \in PortAddresses, HandleRdm(address) PROVE TypeOK'
    <3>1. port' \in [Ports -> PortRecord]
      BY <2>8, StoppedRecord, Zenon DEF TypeOK, HandleRdm
    <3> QED BY <2>8, <3>1 DEF TypeOK, InHand, HandleRdm, Arrival, StillSync, Age, Old
  <2>9. ASSUME NEW p \in Ports, SkipPort(p) PROVE TypeOK'
    <3>1. handling' \in Packets /\ InHand' \in Senders
      BY <2>9, NextInHand DEF SkipPort, AtPort
    <3> QED BY <2>9, <3>1 DEF TypeOK, SkipPort, Packets
  <2>10. ASSUME NEW p \in Ports, DiscardDmx(p) PROVE TypeOK'
    <3>1. handling.ip \in Controllers
      BY <2>10, HandlingPacket DEF DiscardDmx, Packets
    <3>2. SourceA(p) \in Source /\ SourceB(p) \in Source
      BY UnexpiredSource DEF TypeOK, SourceA, SourceB
    <3>3. Merging(p) \in BOOLEAN /\ StillMergeMode(p) \in BOOLEAN
      BY DEF TypeOK, Merging, StillMergeMode, PortRecord
    <3>4. port' \in [Ports -> PortRecord]
      BY <2>10, <3>3, ZenonT(60) DEF TypeOK, DiscardDmx, PortRecord
    <3> QED BY <2>10, <3>1, <3>2, <3>3, <3>4 DEF TypeOK, DiscardDmx, EndDmx
  <2>11. ASSUME NEW p \in Ports, TakeDmx(p) PROVE TypeOK'
    <3>1. handling \in Packets /\ InHand \in Senders /\ handling.ip \in Controllers
      BY <2>11, HandlingPacket DEF TakeDmx, Packets
    <3>2. SourceA(p) \in Source /\ SourceB(p) \in Source
      BY UnexpiredSource DEF TypeOK, SourceA, SourceB
    <3>3. Merging(p) \in BOOLEAN /\ StillMergeMode(p) \in BOOLEAN
      BY DEF TypeOK, Merging, StillMergeMode, PortRecord
    <3>4. OutcomeAt(p).merge \in BOOLEAN
      BY <3>1, OutcomeCases DEF OutcomeAt
    <3>6. Updated(SourceA(p)) \in Source /\ Updated(SourceB(p)) \in Source
      BY <3>1, <3>2, UpdatedSource
    <3>7. a' \in [Ports -> Source] /\ b' \in [Ports -> Source]
      BY <2>11, <3>2, <3>6 DEF TypeOK, TakeDmx
    <3>8. port' \in [Ports -> PortRecord]
      <4>1. (OutcomeAt(p).merge \/ Merging(p)) \in BOOLEAN
            /\ (sync /\ ~(OutcomeAt(p).merge \/ Merging(p))) \in BOOLEAN
        OBVIOUS
      <4>2. Taken(port[p], OutcomeAt(p).merge \/ Merging(p),
                  sync /\ ~(OutcomeAt(p).merge \/ Merging(p))) \in PortRecord
        BY <4>1, TakenRecord, Zenon DEF TypeOK
      <4> QED BY <2>11, <4>2, Zenon DEF TypeOK, TakeDmx
    <3>10. mergeMode' \in BOOLEAN
      BY <2>11, <3>3, <3>4, Zenon DEF TakeDmx
    <3>9. handling' \in Packets /\ InHand' \in Senders
      BY <2>11, NextInHand DEF TakeDmx, AtPort
    <3> QED BY <2>11, <3>7, <3>8, <3>9, <3>10 DEF TypeOK, TakeDmx, Packets
  <2>12. CASE LastPort
    <3>1. handling.ip \in Controllers
      BY <2>12 DEF TypeOK, LastPort, AtPort
    <3> QED BY <2>12, <3>1 DEF TypeOK, LastPort, EndDmx
  <2>13. ASSUME NEW p \in Ports, StartDiscovery(p) \/ EndDiscovery(p) PROVE TypeOK'
    <3>1. CASE StartDiscovery(p)
      BY <3>1, StoppedRecord DEF TypeOK, InHand, StartDiscovery
    <3>2. CASE EndDiscovery(p)
      BY <3>2 DEF TypeOK, InHand, EndDiscovery
    <3> QED BY <2>13, <3>1, <3>2
  <2>14. CASE SetNetworkDataLossCondition
    <3>1. CASE Sourceless
      <4>1. mergeMode' \in BOOLEAN /\ sync' \in BOOLEAN
        BY <2>14, Zenon DEF SetNetworkDataLossCondition
      <4> QED BY <2>14, <3>1, <4>1 DEF TypeOK, InHand, SetNetworkDataLossCondition
    <3>2. CASE ~Sourceless
      <4>1. mergeMode' \in BOOLEAN /\ sync' \in BOOLEAN
        BY <2>14, Zenon DEF SetNetworkDataLossCondition
      <4>2. NoSources /\ port' = [p \in Ports |-> [port[p] EXCEPT !.length = FALSE]]
        BY <2>14, <3>2, Zenon DEF SetNetworkDataLossCondition
      <4>3. port' \in [Ports -> PortRecord]
        BY <4>2, ZenonT(60) DEF TypeOK, PortRecord
      <4>4. NoSources
        BY <4>2, Zenon
      <4>5. a' \in [Ports -> Source] /\ b' \in [Ports -> Source]
        BY <4>4, GivenUpSource DEF TypeOK, NoSources
      <4>6. UNCHANGED <<dmxIp, syncAge, packetAge, discovering, handling>>
        BY <2>14, Zenon DEF SetNetworkDataLossCondition
      <4> QED BY <4>1, <4>3, <4>5, <4>6 DEF TypeOK, InHand
    <3> QED BY <3>1, <3>2
  <2>15. CASE Tick
    <3>1. a' \in [Ports -> Source]
      BY <2>15, OlderSource DEF TypeOK, Tick
    <3>2. b' \in [Ports -> Source]
      BY <2>15, OlderSource DEF TypeOK, Tick
    <3> QED BY <2>15, <3>1, <3>2, OlderAge DEF TypeOK, InHand, Tick
  <2>16. CASE UNCHANGED vars
    BY <2>16 DEF TypeOK, InHand, vars
  <2> QED
    BY <2>1, <2>2, <2>3, <2>4, <2>5, <2>6, <2>7, <2>8, <2>9, <2>10, <2>11, <2>12,
       <2>13, <2>14, <2>15, <2>16
    DEF Next, Packet, HandleDmx
<1> QED BY <1>1, <1>2, PTL DEF Spec

----------------------------------------------------------------------------
(* Merging *)

\* The steps of the merge: how one of them changes the sources and the merging flags.
LEMMA TakeDmxKeeps ==
  ASSUME TypeOK, HeldData, TwoSourcesMerge, NEW p \in Ports, TakeDmx(p)
  PROVE  HeldData' /\ TwoSourcesMerge'
<1> DEFINE o == OutcomeAt(p)
<1>1. handling \in Packets /\ InHand \in Senders /\ handling.ip \in Controllers
  BY HandlingPacket DEF TakeDmx, Packets
<1>2. /\ a' = [a EXCEPT ![p] = IF o.source = "A" THEN Updated(SourceA(p)) ELSE SourceA(p)]
      /\ b' = [b EXCEPT ![p] = IF o.source = "B" THEN Updated(SourceB(p)) ELSE SourceB(p)]
      /\ o # Discard
  BY DEF TakeDmx
<1>3. mergeMode' = (o.merge \/ StillMergeMode(p))
  BY Zenon DEF TakeDmx
<1>4. port' = [port EXCEPT ![p] = Taken(port[p], o.merge \/ Merging(p),
                                        sync /\ ~(o.merge \/ Merging(p)))]
  BY Zenon DEF TakeDmx
<1>5. /\ o.source \in {"A", "B"}
      /\ o.merge = FALSE /\ o.source = "A" => SourceB(p).ip = None
      /\ o.merge = FALSE /\ o.source = "B" => SourceA(p).ip = None
      /\ o.merge \in BOOLEAN
  BY <1>1, <1>2, OutcomeTaken, Zenon
<1>6. HeldData'
  <2>1. SourceA(p) \in Source /\ SourceB(p) \in Source /\ Own(SourceA(p)) /\ Own(SourceB(p))
    BY UnexpiredSource DEF SourceA, SourceB, HeldData, TypeOK
  <2>2. Own(Updated(SourceA(p))) /\ Own(Updated(SourceB(p)))
    BY <1>1, <2>1, UpdatedSource
  <2>3. /\ a'[p] \in {SourceA(p), Updated(SourceA(p))}
        /\ b'[p] \in {SourceB(p), Updated(SourceB(p))}
        /\ \A q \in Ports \ {p} : a'[q] = a[q] /\ b'[q] = b[q]
    BY <1>2 DEF TypeOK
  <2>4. Own(a'[p]) /\ Own(b'[p])
    BY <2>1, <2>2, <2>3
  <2>5. \A q \in Ports \ {p} : Own(a'[q]) /\ Own(b'[q])
    BY <2>3 DEF HeldData
  <2> QED BY <2>4, <2>5 DEF HeldData
<1>7. TwoSourcesMerge'
  <2> SUFFICES ASSUME NEW q \in Ports, a'[q].ip # None, b'[q].ip # None
               PROVE  port'[q].merging /\ mergeMode'
    BY DEF TwoSourcesMerge
  <2>1. CASE q = p
    <3>1. o.merge
      BY <1>2, <1>5, <2>1 DEF TypeOK
    <3>2. mergeMode'
      BY <1>3, <3>1, Zenon
    <3>3. port'[q].merging
      <4>1. port'[q] = Taken(port[p], o.merge \/ Merging(p),
                             sync /\ ~(o.merge \/ Merging(p)))
        BY <1>4, <2>1, Zenon DEF TypeOK
      <4>2. port[p] \in PortRecord
        BY DEF TypeOK
      <4>3. \A r \in PortRecord : \A m, f : Taken(r, m, f).merging = m
        BY Zenon DEF Taken, PortRecord
      <4> QED BY <3>1, <4>1, <4>2, <4>3, Zenon
    <3> QED BY <3>2, <3>3
  <2>2. CASE q # p
    <3>1. a[q].ip # None /\ b[q].ip # None
      BY <1>2, <2>2 DEF TypeOK
    <3>2. port[q].merging /\ mergeMode
      BY <3>1 DEF TwoSourcesMerge
    <3>3. StillMergeMode(p)
      BY <2>2, <3>2 DEF StillMergeMode
    <3>4. mergeMode'
      BY <1>3, <3>3, Zenon
    <3>5. port'[q] = port[q]
      BY <1>4, <2>2, Zenon DEF TypeOK
    <3> QED BY <3>2, <3>4, <3>5
  <2> QED BY <2>1, <2>2
<1> QED BY <1>6, <1>7

LEMMA DiscardDmxKeeps ==
  ASSUME TypeOK, HeldData, TwoSourcesMerge, NEW p \in Ports, DiscardDmx(p)
  PROVE  HeldData' /\ TwoSourcesMerge'
<1>1. /\ a' = [a EXCEPT ![p] = SourceA(p)]
      /\ b' = [b EXCEPT ![p] = SourceB(p)]
  BY DEF DiscardDmx
<1>2. mergeMode' = StillMergeMode(p)
  BY Zenon DEF DiscardDmx
<1>3. port' = [port EXCEPT ![p].merging = Merging(p)]
  BY Zenon DEF DiscardDmx
<1>4. /\ SourceA(p).ip # None => SourceA(p) = a[p] /\ ~(mergeMode /\ Expired(a[p]))
      /\ SourceB(p).ip # None => SourceB(p) = b[p] /\ ~(mergeMode /\ Expired(b[p]))
      /\ Own(SourceA(p)) /\ Own(SourceB(p))
  BY UnexpiredSource DEF SourceA, SourceB, TypeOK, HeldData
<1>5. HeldData'
  <2>1. \A q \in Ports : /\ a'[q] = IF q = p THEN SourceA(p) ELSE a[q]
                         /\ b'[q] = IF q = p THEN SourceB(p) ELSE b[q]
    BY <1>1 DEF TypeOK
  <2> QED BY <1>4, <2>1 DEF HeldData
<1>6. TwoSourcesMerge'
  <2> SUFFICES ASSUME NEW q \in Ports, a'[q].ip # None, b'[q].ip # None
               PROVE  port'[q].merging /\ mergeMode'
    BY DEF TwoSourcesMerge
  <2>1. a[q].ip # None /\ b[q].ip # None
    BY <1>1, <1>4 DEF TypeOK
  <2>2. port[q].merging /\ mergeMode
    BY <2>1 DEF TwoSourcesMerge
  <2>3. CASE q = p
    <3>1. Merging(p)
      <4>1. ~Expired(a[p]) /\ ~Expired(b[p])
        BY <1>1, <1>4, <2>2, <2>3 DEF TypeOK
      <4> QED BY <2>2, <2>3, <4>1 DEF Merging
    <3>2. StillMergeMode(p)
      BY <2>2, <3>1 DEF StillMergeMode
    <3>3. port'[q].merging
      BY <1>3, <2>3, <3>1, ZenonT(60) DEF TypeOK, PortRecord
    <3> QED BY <1>2, <3>2, <3>3, Zenon
  <2>4. CASE q # p
    <3>1. StillMergeMode(p)
      BY <2>2, <2>4 DEF StillMergeMode
    <3>2. port'[q] = port[q]
      BY <1>3, <2>4, Zenon DEF TypeOK
    <3> QED BY <1>2, <2>2, <3>1, <3>2, Zenon
  <2> QED BY <2>3, <2>4
<1> QED BY <1>5, <1>6

\* The sources and the flags agree, and what is held for a source is what it sent: the
\* inductive invariant behind the theorems that follow.
THEOREM Invariance == Spec => []IInv
<1>1. Init => HeldData /\ TwoSourcesMerge
  BY DEF Init, HeldData, Own, TwoSourcesMerge
<1>2. TypeOK /\ HeldData /\ TwoSourcesMerge /\ [Next]_vars => HeldData' /\ TwoSourcesMerge'
  <2> SUFFICES ASSUME TypeOK, HeldData, TwoSourcesMerge, [Next]_vars
               PROVE  HeldData' /\ TwoSourcesMerge'
    OBVIOUS
  <2> DEFINE Keep == UNCHANGED <<a, b, mergeMode>>
                     /\ \A p \in Ports : port'[p].merging = port[p].merging
  <2>1. ASSUME Keep PROVE HeldData' /\ TwoSourcesMerge'
    BY <2>1 DEF HeldData, TwoSourcesMerge
  <2>2. ASSUME NoSources PROVE HeldData' /\ TwoSourcesMerge'
    <3>1. \A p \in Ports : a'[p].ip = None /\ b'[p].ip = None
      BY <2>2, GivenUpSource DEF NoSources, TypeOK
    <3> QED BY <3>1 DEF HeldData, Own, TwoSourcesMerge
  <2>3. ASSUME UNCHANGED <<a, b, port, mergeMode>> PROVE HeldData' /\ TwoSourcesMerge'
    BY <2>3 DEF HeldData, TwoSourcesMerge
  <2> HIDE DEF Keep
  <2>4. ASSUME NEW sender \in Senders, NEW length \in Lengths,
               NEW address \in PortAddresses, ArtDmx(sender, length, address)
        PROVE  HeldData' /\ TwoSourcesMerge'
    BY <2>3, <2>4 DEF ArtDmx
  <2>5. ASSUME NEW ip \in Controllers, EnterSync(ip) PROVE HeldData' /\ TwoSourcesMerge'
    BY <2>3, <2>5 DEF EnterSync
  <2>6. ASSUME NEW ip \in Controllers, HandleSync(ip) PROVE HeldData' /\ TwoSourcesMerge'
    <3>1. \A r \in PortRecord : Synced(r).merging = r.merging
      BY Zenon DEF Synced, PortRecord
    <3> QED BY <2>1, <2>6, <3>1 DEF HandleSync, Keep, TypeOK
  <2>7. CASE OtherPacket
    BY <2>3, <2>7 DEF OtherPacket
  <2>8. CASE CancelMerge
    BY <2>2, <2>8 DEF CancelMerge
  <2>9. CASE SetOutputStyle
    BY <2>3, <2>9 DEF SetOutputStyle
  <2>10. ASSUME NEW p \in Ports, Clear(p) PROVE HeldData' /\ TwoSourcesMerge'
    <3>1. \A q \in Ports : port'[q].merging = port[q].merging
      BY <2>10, ZenonT(60) DEF Clear, TypeOK, PortRecord
    <3> QED BY <2>1, <2>10, <3>1 DEF Clear, Keep
  <2>11. ASSUME NEW p \in Ports, NEW ltp \in BOOLEAN, SetMergeMode(p, ltp)
         PROVE  HeldData' /\ TwoSourcesMerge'
    <3>1. \A q \in Ports : port'[q].merging = port[q].merging
      BY <2>11, ZenonT(60) DEF SetMergeMode, TypeOK, PortRecord
    <3> QED BY <2>1, <2>11, <3>1 DEF SetMergeMode, Keep
  <2>12. \A r \in PortRecord : Stopped(r).merging = r.merging
    BY Zenon DEF Stopped, PortRecord
  <2>13. ASSUME NEW address \in PortAddresses, HandleRdm(address)
         PROVE  HeldData' /\ TwoSourcesMerge'
    BY <2>1, <2>12, <2>13 DEF HandleRdm, Keep, TypeOK
  <2>14. ASSUME NEW p \in Ports, SkipPort(p) PROVE HeldData' /\ TwoSourcesMerge'
    BY <2>3, <2>14 DEF SkipPort
  <2>15. ASSUME NEW p \in Ports, DiscardDmx(p) PROVE HeldData' /\ TwoSourcesMerge'
    BY <2>15, DiscardDmxKeeps
  <2>16. ASSUME NEW p \in Ports, TakeDmx(p) PROVE HeldData' /\ TwoSourcesMerge'
    BY <2>16, TakeDmxKeeps
  <2>17. CASE LastPort
    BY <2>3, <2>17 DEF LastPort
  <2>18. ASSUME NEW p \in Ports, StartDiscovery(p) PROVE HeldData' /\ TwoSourcesMerge'
    BY <2>1, <2>12, <2>18 DEF StartDiscovery, Keep, TypeOK
  <2>19. ASSUME NEW p \in Ports, EndDiscovery(p) PROVE HeldData' /\ TwoSourcesMerge'
    BY <2>3, <2>19 DEF EndDiscovery
  <2>20. CASE SetNetworkDataLossCondition
    <3>1. CASE Sourceless
      <4>1. UNCHANGED <<a, b>>
        BY <2>20, <3>1, Zenon DEF SetNetworkDataLossCondition
      <4> QED BY <3>1, <4>1 DEF Sourceless, HeldData, Own, TwoSourcesMerge
    <3>2. CASE ~Sourceless
      BY <2>2, <2>20, <3>2, Zenon DEF SetNetworkDataLossCondition
    <3> QED BY <3>1, <3>2
  <2>21. CASE Tick
    <3>1. \A p \in Ports : /\ a'[p].ip = a[p].ip /\ b'[p].ip = b[p].ip
                           /\ a'[p].physical = a[p].physical
                           /\ b'[p].physical = b[p].physical
                           /\ a'[p].held = a[p].held /\ b'[p].held = b[p].held
                           /\ a'[p].covered = a[p].covered /\ b'[p].covered = b[p].covered
      BY <2>21 DEF Tick, TypeOK, Source
    <3>2. \A p \in Ports : Own(a'[p]) /\ Own(b'[p])
      BY <3>1 DEF HeldData, Own
    <3>3. HeldData'
      BY <3>2 DEF HeldData
    <3>4. TwoSourcesMerge'
      BY <2>21, <3>1 DEF Tick, TwoSourcesMerge
    <3> QED BY <3>3, <3>4
  <2>22. CASE UNCHANGED vars
    BY <2>3, <2>22 DEF vars
  <2> QED
    BY <2>4, <2>5, <2>6, <2>7, <2>8, <2>9, <2>10, <2>11, <2>13, <2>14, <2>15, <2>16,
       <2>17, <2>18, <2>19, <2>20, <2>21, <2>22
    DEF Next, Packet, HandleDmx
<1> QED BY <1>1, <1>2, TypeCorrect, PTL DEF Spec, IInv

\* A port with two sources merges, and the node is in merge mode (TwoSourcesMerge).
THEOREM MergeModeKept == Spec => []TwoSourcesMerge
  BY Invariance, PTL DEF IInv

\* No ArtSync is obeyed while a port has two sources (SyncIgnoredWhenMerging).
THEOREM SyncSafe == Spec => SyncIgnoredWhenMerging
<1>1. IInv => [(\E ip \in Controllers : EnterSync(ip) \/ HandleSync(ip))
                 => \A p \in Ports : a[p].ip = None \/ b[p].ip = None]_vars
  BY DEF IInv, TwoSourcesMerge, EnterSync, HandleSync, Obeyed
<1> QED BY <1>1, Invariance, PTL DEF SyncIgnoredWhenMerging

\* What is merged when port p takes the packet in hand: the packet, and for slots that
\* the registered sources have sent what is held for the other one, a registered source
\* that has not timed out.
LEMMA Merged ==
  ASSUME IInv, NEW p \in Ports, TakeDmx(p)
  PROVE  \A i \in Covered(p) : \A x \in Output(p)[i] :
           \E s \in {a'[p], b'[p]} : /\ s.ip # None /\ x = <<s.ip, s.physical>>
                                     /\ mergeMode => ~Expired(s)
<1> SUFFICES ASSUME NEW i \in Covered(p), NEW x \in Output(p)[i]
             PROVE  \E s \in {a'[p], b'[p]} : /\ s.ip # None /\ x = <<s.ip, s.physical>>
                                              /\ mergeMode => ~Expired(s)
  OBVIOUS
<1> DEFINE o == OutcomeAt(p)
<1>1. /\ handling \in Packets /\ InHand \in Senders /\ handling.ip \in Controllers
      /\ handling.length \in Slots
  BY HandlingPacket DEF TakeDmx, Packets, IInv
<1>2. /\ a'[p] = (IF o.source = "A" THEN Updated(SourceA(p)) ELSE SourceA(p))
      /\ b'[p] = (IF o.source = "B" THEN Updated(SourceB(p)) ELSE SourceB(p))
      /\ o # Discard
  BY DEF TakeDmx, IInv, TypeOK
<1>3. /\ o.source \in {"A", "B"}
      /\ o.merge = TRUE /\ o.source = "A" => SourceB(p).ip # None
      /\ o.merge = TRUE /\ o.source = "B" => SourceA(p).ip # None
      /\ o.merge \in BOOLEAN
  BY <1>1, <1>2, OutcomeTaken, Zenon
<1>4. /\ SourceA(p).ip # None => SourceA(p) = a[p] /\ (mergeMode => ~Expired(a[p]))
      /\ SourceB(p).ip # None => SourceB(p) = b[p] /\ (mergeMode => ~Expired(b[p]))
      /\ SourceA(p) \in Source /\ SourceB(p) \in Source
  BY UnexpiredSource DEF SourceA, SourceB, IInv, TypeOK
<1>5. i \in 1 .. handling.length /\ i \in Slots
      /\ \A s \in {a'[p], b'[p]} : s.ip # None => i <= s.covered
  BY <1>1 DEF Covered, Slots
<1>6. Output(p)[i] = {InHand} \cup (IF ~o.merge \/ port[p].ltp THEN {}
                                   ELSE {OtherHeld(p)[i]} \ {Zero})
  BY <1>5 DEF Output
<1>7. CASE x = InHand
  <2>1. \A s \in Source : /\ Updated(s).ip = handling.ip /\ Updated(s).physical = handling.physical
                          /\ Updated(s).age = 0
    BY <1>1, UpdatedSource
  <2>2. PICK s \in {a'[p], b'[p]} : s.ip = handling.ip /\ s.physical = handling.physical /\ s.age = 0
    BY <1>2, <1>3, <1>4, <2>1
  <2>3. ~Expired(s) /\ s.ip # None
    BY <1>1, <2>2 DEF Expired
  <2> QED BY <1>7, <2>2, <2>3 DEF InHand
<1>8. CASE x # InHand
  <2>1. o.merge = TRUE /\ x = OtherHeld(p)[i]
    BY <1>3, <1>6, <1>8
  <2>2. CASE o.source = "A"
    <3>1. b'[p] = b[p] /\ b[p].ip # None /\ (mergeMode => ~Expired(b[p]))
      BY <1>2, <1>3, <1>4, <2>1, <2>2
    <3>2. b[p].held[i] = <<b[p].ip, b[p].physical>>
      BY <1>5, <3>1 DEF IInv, HeldData, Own
    <3> QED BY <2>1, <2>2, <3>1, <3>2 DEF OtherHeld
  <2>3. CASE o.source = "B"
    <3>1. a'[p] = a[p] /\ a[p].ip # None /\ (mergeMode => ~Expired(a[p]))
      BY <1>2, <1>3, <1>4, <2>1, <2>3
    <3>2. a[p].held[i] = <<a[p].ip, a[p].physical>>
      BY <1>5, <3>1 DEF IInv, HeldData, Own
    <3>3. o.source # "A"
      BY <2>3
    <3> QED BY <2>1, <3>1, <3>2, <3>3 DEF OtherHeld
  <2> QED BY <1>3, <2>2, <2>3
<1> QED BY <1>7, <1>8

\* What a port puts out comes from its registered sources, in every slot that they
\* have sent (OnlyRegistered).
THEOREM RegisteredOnly == Spec => OnlyRegistered
<1>1. ASSUME IInv, NEW p \in Ports, TakeDmx(p)
      PROVE  \A i \in Covered(p) : Output(p)[i] \subseteq Registered(p)'
  <2>1. \A i \in Covered(p) : \A x \in Output(p)[i] :
          \E s \in {a'[p], b'[p]} : /\ s.ip # None /\ x = <<s.ip, s.physical>>
                                    /\ mergeMode => ~Expired(s)
    BY <1>1, Merged
  <2>2. \A x : (\E s \in {a'[p], b'[p]} : s.ip # None /\ x = <<s.ip, s.physical>>)
                  => x \in Registered(p)'
    BY DEF Registered
  <2> HIDE DEF Registered
  <2> QED BY <2>1, <2>2, Zenon
<1>2. IInv => [\A p \in Ports : TakeDmx(p) =>
                 \A i \in Covered(p) : Output(p)[i] \subseteq Registered(p)']_vars
  BY <1>1, Zenon
<1> QED BY <1>2, Invariance, PTL DEF OnlyRegistered

\* In merge mode nothing of a source that has timed out is merged in (OnlyFresh).
THEOREM FreshOnly == Spec => OnlyFresh
<1>1. ASSUME IInv, NEW p \in Ports, TakeDmx(p), mergeMode
      PROVE  \A i \in Covered(p) :
               Output(p)[i] \subseteq
                 {<<s.ip, s.physical>> : s \in {t \in {a'[p], b'[p]} : ~Expired(t)}}
  <2> DEFINE Fresh == {<<s.ip, s.physical>> : s \in {t \in {a'[p], b'[p]} : ~Expired(t)}}
  <2>1. \A i \in Covered(p) : \A x \in Output(p)[i] :
          \E s \in {a'[p], b'[p]} : /\ s.ip # None /\ x = <<s.ip, s.physical>>
                                    /\ mergeMode => ~Expired(s)
    BY <1>1, Merged
  <2>2. \A x : (\E s \in {a'[p], b'[p]} : x = <<s.ip, s.physical>> /\ ~Expired(s))
                  => x \in Fresh
    OBVIOUS
  <2>3. \A i \in Covered(p) : Output(p)[i] \subseteq Fresh
    <3> HIDE DEF Fresh
    <3> QED BY <1>1, <2>1, <2>2, Zenon
  <2> QED BY <2>3
<1>2. IInv => [\A p \in Ports : TakeDmx(p) /\ mergeMode =>
                 \A i \in Covered(p) :
                   Output(p)[i] \subseteq
                     {<<s.ip, s.physical>> : s \in {t \in {a'[p], b'[p]} : ~Expired(t)}}]_vars
  BY <1>1, Zenon
<1> QED BY <1>2, Invariance, PTL DEF OnlyFresh
=============================================================================
