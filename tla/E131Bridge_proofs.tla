------------------------- MODULE E131Bridge_proofs -------------------------
(***************************************************************************)
(* Proofs about E131Bridge for every number of ports and senders, every    *)
(* assignment of universes and every choice of priorities and timeouts.    *)
(***************************************************************************)
EXTENDS E131Bridge, TLAPS

USE CountAssumption, UniverseAssumption, NoneAssumption, LengthAssumption,
    PriorityAssumption, OptionAssumption, TimeAssumption

\* What is held for a registered source is its own, in the slots that it has sent.
Own(s) == s.ip # None => \A i \in Slots : i <= s.covered => s.held[i] = s.ip
HeldData == \A p \in Ports : Own(a[p]) /\ Own(b[p])

\* While a packet is handled the network is not lost.
NoLossInHand == handling # NoPacket => ~loss

IInv == TypeOK /\ HeldData /\ DistinctSources /\ LossIsClean /\ ForcedIsSync /\ NoLossInHand

Handling == [packet : DataPacket, sender : Senders, at : Ports]

----------------------------------------------------------------------------
(* Lemmas *)

\* Zero is a number of slots.
LEMMA LengthIsNat == 0 \in 0 .. SlotCount
  OBVIOUS

\* A source that is forgotten, checked for its timeout, or a tick older is a source.
LEMMA GoneSource ==
  ASSUME NEW s \in Source
  PROVE  /\ Gone(s) \in Source
         /\ Gone(s).ip = None /\ Gone(s).age = s.age /\ Gone(s).held = s.held
  BY LengthIsNat, ZenonT(30) DEF Gone, Source

LEMMA UnexpiredSource == \A s \in Source : Unexpired(s) \in Source
  BY GoneSource DEF Unexpired

LEMMA OlderIsSource ==
  ASSUME NEW s \in Source
  PROVE  /\ OlderSource(s) \in Source
         /\ OlderSource(s).ip = s.ip /\ OlderSource(s).age = Older(s.age, Old)
         /\ OlderSource(s).held = s.held /\ OlderSource(s).covered = s.covered
         /\ OlderSource(s).priority = s.priority /\ OlderSource(s).undercut = s.undercut
<1>1. s.age \in 0 .. Old
  BY DEF Source
<1>2. Older(s.age, Old) \in 0 .. Old
  BY <1>1 DEF Older, Old
<1> QED BY <1>2, ZenonT(30) DEF OlderSource, Source

LEMMA PassedIsSource ==
  ASSUME NEW s \in Source
  PROVE  /\ Passed(s) \in Source
         /\ Passed(s).ip = s.ip /\ Passed(s).age = s.age /\ Passed(s).held = s.held
         /\ Passed(s).covered = s.covered /\ Passed(s).priority = s.priority
         /\ ~Passed(s).undercut => ~(Packet.priority < s.priority)
  BY ZenonT(30) DEF Passed, Source

\* A data packet has a sender, and a live one the other fields.
LEMMA PacketFields ==
  ASSUME NEW packet \in DataPacket
  PROVE  /\ packet.sender \in Senders
         /\ packet.kind = "live" => /\ packet.priority \in Priorities
                                    /\ packet.length \in Lengths
                                    /\ packet.address \in SyncAddresses \cup {None}
                                    /\ packet.force \in BOOLEAN
  BY DEF DataPacket

\* Going on with a packet leaves `handling' a packet at a port, or none.
LEMMA HandleType ==
  ASSUME NEW packet \in DataPacket, NEW ports \in SUBSET Ports, Handle(packet, ports)
  PROVE  handling' \in {NoPacket} \cup Handling
  BY PacketFields DEF Handle, Handling

\* The packet in hand is one that a sender sent.
LEMMA HandlingPacket ==
  ASSUME TypeOK, NEW p \in Ports, At(p)
  PROVE  /\ handling \in Handling
         /\ handling.sender \in Senders
         /\ Packet \in DataPacket
  BY DEF TypeOK, At, Idle, Handling, Packet

LEMMA NextPortType ==
  ASSUME TypeOK, NEW p \in Ports, At(p), NextPort
  PROVE  handling' \in {NoPacket} \cup Handling
  BY HandlingPacket, HandleType DEF NextPort

\* With distinct sources a sender is at most one of them.
LEMMA OneSlot ==
  ASSUME TypeOK, DistinctSources, NEW p \in Ports, At(p)
  PROVE  ~(IsSourceA(p) /\ IsSourceB(p))
<1>1. handling.sender # None
  BY HandlingPacket
<1> QED BY <1>1 DEF DistinctSources, IsSourceA, IsSourceB

----------------------------------------------------------------------------
(* Type correctness *)

\* The loss of the network keeps the types.
LEMMA LoseNetworkType ==
  ASSUME TypeOK, LoseNetwork
  PROVE  /\ a' \in [Ports -> Source] /\ b' \in [Ports -> Source]
         /\ port' \in [Ports -> PortRecord]
<1>1. a' \in [Ports -> Source] /\ b' \in [Ports -> Source]
  BY GoneSource DEF TypeOK, LoseNetwork
<1>2. \A r \in PortRecord : [r EXCEPT !.transmitting = FALSE, !.merging = FALSE] \in PortRecord
  BY Zenon DEF PortRecord
<1>3. port' \in [Ports -> PortRecord]
  BY <1>2 DEF TypeOK, LoseNetwork
<1> QED BY <1>1, <1>3

\* So does the end of a stream.
LEMMA LoseSourceType ==
  ASSUME TypeOK, NEW slotA \in BOOLEAN, LoseSource(slotA)
  PROVE  /\ a' \in [Ports -> Source] /\ b' \in [Ports -> Source]
         /\ port' \in [Ports -> PortRecord]
<1>1. a' \in [Ports -> Source] /\ b' \in [Ports -> Source]
  <2>1. CASE slotA
    BY <2>1, GoneSource DEF TypeOK, LoseSource
  <2>2. CASE ~slotA
    BY <2>2, GoneSource DEF TypeOK, LoseSource
  <2> QED BY <2>1, <2>2
<1>2. \A r \in PortRecord, m \in BOOLEAN, t \in BOOLEAN :
        [r EXCEPT !.merging = m, !.transmitting = t] \in PortRecord
  BY Zenon DEF PortRecord
<1> DEFINE lost == {p \in Ports : port[p].transmitting
                                  /\ (IF slotA THEN a ELSE b)[p].ip # None}
           left == [p \in Ports |->
                      [port[p] EXCEPT !.merging = @ /\ p \notin lost,
                                      !.transmitting = @ /\ mergeMode]]
<1>3. port' = left
  BY Zenon DEF LoseSource
<1>4. ASSUME NEW p \in Ports PROVE left[p] \in PortRecord
  <2>1. port[p] \in PortRecord
    BY DEF TypeOK
  <2>2. (port[p].merging /\ p \notin lost) \in BOOLEAN
        /\ (port[p].transmitting /\ mergeMode) \in BOOLEAN
    BY Zenon
  <2> HIDE DEF lost
  <2> QED BY <2>1, <2>2, <1>2, Zenon
<1> HIDE DEF lost
<1>5. port' \in [Ports -> PortRecord]
  BY <1>3, <1>4, Zenon
<1> QED BY <1>1, <1>5

\* So does a packet that is refused or taken.
LEMMA CheckedSources ==
  ASSUME TypeOK, NEW p \in Ports
  PROVE  SourceA(p) \in Source /\ SourceB(p) \in Source
  BY UnexpiredSource DEF TypeOK, SourceA, SourceB

\* What a packet leaves of a source, field by field.
LEMMA TakenFields ==
  ASSUME NEW s, NEW p
  PROVE  /\ Taken(s, p).ip = IF IsSourceA(p) \/ IsSourceB(p) THEN s.ip ELSE handling.sender
         /\ Taken(s, p).age = 0 /\ Taken(s, p).undercut = FALSE
         /\ \A i \in Slots : Taken(s, p).held[i] = IF i <= Packet.length
                                                   THEN handling.sender ELSE s.held[i]
         /\ Taken(s, p).ip # None =>
              /\ Taken(s, p).covered = IF Taken(s, p).ip = s.ip /\ s.covered > Packet.length
                                       THEN s.covered ELSE Packet.length
              /\ Taken(s, p).priority = Packet.priority
<1> DEFINE ip == IF IsSourceA(p) \/ IsSourceB(p) THEN s.ip ELSE handling.sender
           held == [i \in Slots |-> IF i <= Packet.length THEN handling.sender ELSE s.held[i]]
           covered == IF ip = s.ip /\ s.covered > Packet.length THEN s.covered
                      ELSE Packet.length
<1>1. Taken(s, p) = [ip |-> ip, age |-> 0, held |-> held,
                     covered  |-> IF ip = None THEN 0 ELSE covered,
                     priority |-> IF ip = None THEN Lowest ELSE Packet.priority,
                     undercut |-> FALSE]
  BY DEF Taken
<1>2. \A i \in Slots : held[i] = IF i <= Packet.length THEN handling.sender ELSE s.held[i]
  OBVIOUS
<1> HIDE DEF held
<1>3. /\ Taken(s, p).ip = ip /\ Taken(s, p).age = 0 /\ Taken(s, p).undercut = FALSE
      /\ Taken(s, p).held = held
      /\ Taken(s, p).covered = (IF ip = None THEN 0 ELSE covered)
      /\ Taken(s, p).priority = (IF ip = None THEN Lowest ELSE Packet.priority)
  BY <1>1
<1> QED BY <1>2, <1>3

LEMMA TakenSource ==
  ASSUME TypeOK, NEW p \in Ports, Live(p), NEW s \in Source
  PROVE  Taken(s, p) \in Source
<1>1. /\ handling.sender \in Senders /\ Packet.priority \in Priorities
      /\ Packet.length \in 0 .. SlotCount
  BY HandlingPacket, PacketFields DEF Live
<1>2. 0 \in 0 .. Old /\ 0 \in 0 .. SlotCount
  BY DEF Old
<1>3. /\ s.ip \in Senders \cup {None} /\ s.covered \in 0 .. SlotCount
      /\ s.held \in [Slots -> Senders \cup {None}]
  BY DEF Source
<1> DEFINE ip == IF IsSourceA(p) \/ IsSourceB(p) THEN s.ip ELSE handling.sender
           held == [i \in Slots |-> IF i <= Packet.length THEN handling.sender ELSE s.held[i]]
           covered == IF ip = None THEN 0
                      ELSE IF ip = s.ip /\ s.covered > Packet.length
                      THEN s.covered ELSE Packet.length
           rank == IF ip = None THEN Lowest ELSE Packet.priority
<1>4. held \in [Slots -> Senders \cup {None}]
  BY <1>1, <1>3
<1>5. ip \in Senders \cup {None} /\ covered \in 0 .. SlotCount /\ rank \in Priorities
  BY <1>1, <1>2, <1>3
<1>6. Taken(s, p) = [ip |-> ip, age |-> 0, held |-> held, covered |-> covered,
                     priority |-> rank, undercut |-> FALSE]
  BY DEF Taken
<1> HIDE DEF ip, held, covered, rank
<1> QED BY <1>2, <1>4, <1>5, <1>6 DEF Source

\* The sources of a port once their timeouts are checked and a higher priority has
\* removed them.
HeldA(p) == IF Packet.priority > priority THEN Gone(SourceA(p)) ELSE SourceA(p)
HeldB(p) == IF Packet.priority > priority THEN Gone(SourceB(p)) ELSE SourceB(p)

LEMMA HeldSource ==
  ASSUME TypeOK, NEW p \in Ports
  PROVE  HeldA(p) \in Source /\ HeldB(p) \in Source
  BY CheckedSources, GoneSource DEF HeldA, HeldB

\* The sources of all ports after a packet that port p takes.
LEMMA SourcesAfter ==
  ASSUME TypeOK, NEW p \in Ports, TakeDmx(p)
  PROVE  /\ a' \in [Ports -> Source] /\ b' \in [Ports -> Source]
         /\ a'[p] = IF SlotOf(p) = "A" THEN Taken(HeldA(p), p) ELSE HeldA(p)
         /\ b'[p] = IF SlotOf(p) = "B" THEN Taken(HeldB(p), p) ELSE HeldB(p)
         /\ \A q \in Ports \ {p} : a'[q] = Passed(a[q]) /\ b'[q] = Passed(b[q])
<1>1. /\ a' = [q \in Ports |-> IF q # p THEN Passed(a[q])
                               ELSE IF SlotOf(p) = "A" THEN Taken(HeldA(p), p) ELSE HeldA(p)]
      /\ b' = [q \in Ports |-> IF q # p THEN Passed(b[q])
                               ELSE IF SlotOf(p) = "B" THEN Taken(HeldB(p), p) ELSE HeldB(p)]
  BY Zenon DEF TakeDmx, HeldA, HeldB
<1>2. /\ Taken(HeldA(p), p) \in Source /\ Taken(HeldB(p), p) \in Source
      /\ HeldA(p) \in Source /\ HeldB(p) \in Source
  BY HeldSource, TakenSource DEF TakeDmx
<1>3. \A q \in Ports : Passed(a[q]) \in Source /\ Passed(b[q]) \in Source
  BY PassedIsSource DEF TypeOK
<1> QED BY <1>1, <1>2, <1>3

\* Every variable keeps its type (TypeOK), whatever packets arrive.
THEOREM TypeCorrect == Spec => []TypeOK
<1>1. Init => TypeOK
  <2> SUFFICES ASSUME Init PROVE TypeOK
    OBVIOUS
  <2>0. 0 \in 0 .. Old /\ 0 \in 0 .. LossTimeout
    BY DEF Old
  <2>1. a \in [Ports -> Source]
    BY <2>0 DEF Init, Source
  <2>2. b \in [Ports -> Source]
    BY <2>1 DEF Init
  <2>3. port \in [Ports -> PortRecord]
    BY DEF Init, PortRecord
  <2> QED BY <2>0, <2>1, <2>2, <2>3 DEF Init, TypeOK
<1>2. TypeOK /\ [Next]_vars => TypeOK'
  <2> SUFFICES ASSUME TypeOK, [Next]_vars PROVE TypeOK'
    OBVIOUS
  <2>0. 0 \in 0 .. LossTimeout
    OBVIOUS
  <2>1. ASSUME NEW packet \in DataPacket, Receive(packet) PROVE TypeOK'
    <3>1. handling' \in {NoPacket} \cup Handling
      BY <2>1, HandleType DEF Receive
    <3>2. sync' \in BOOLEAN
      BY <2>1, Zenon DEF Receive, StillSync
    <3> QED BY <2>0, <2>1, <3>1, <3>2 DEF TypeOK, Receive, Arrival, Handling, merge
  <2>2. ASSUME NEW address, HandleSynchronization(address) PROVE TypeOK'
    <3>1. \A r \in PortRecord, t \in BOOLEAN :
            [r EXCEPT !.pending = FALSE, !.transmitting = t] \in PortRecord
      BY Zenon DEF PortRecord
    <3>2. \A p \in Ports : (port[p].transmitting \/ port[p].pending) \in BOOLEAN
      BY Zenon
    <3>3. port' = [p \in Ports |->
                     [port[p] EXCEPT !.pending = FALSE,
                                     !.transmitting = @ \/ port[p].pending]]
      BY <2>2, Zenon DEF HandleSynchronization
    <3>4. port' \in [Ports -> PortRecord]
      BY <3>1, <3>2, <3>3, Zenon DEF TypeOK
    <3>5. sync' \in BOOLEAN
      BY <2>2, Zenon DEF HandleSynchronization, StillSync
    <3> QED BY <2>0, <2>2, <3>4, <3>5 DEF TypeOK, HandleSynchronization, Arrival
  <2>3. CASE OtherPacket
    <3>1. sync' \in BOOLEAN
      BY <2>3, Zenon DEF OtherPacket, StillSync
    <3> QED BY <2>0, <2>3, <3>1 DEF TypeOK, OtherPacket, Arrival, merge
  <2>4. ASSUME NEW p \in Ports, Ignore(p) PROVE TypeOK'
    <3>1. handling' \in {NoPacket} \cup Handling
      BY <2>4, NextPortType DEF Ignore
    <3> QED BY <2>4, <3>1 DEF TypeOK, Ignore, Handling, merge, synchronisation
  <2>5. ASSUME NEW p \in Ports, Terminate(p) PROVE TypeOK'
    <3>1. handling' \in {NoPacket} \cup Handling
      BY <2>5, NextPortType DEF Terminate
    <3>2. CASE LoseNetwork
      BY <3>1, <3>2, LoseNetworkType DEF TypeOK, LoseNetwork, ResetState, Handling
    <3>3. CASE LoseSource(IsSourceA(p))
      <4>1. IsSourceA(p) \in BOOLEAN
        BY DEF IsSourceA
      <4>2. UNCHANGED <<mergeMode, priority, synchronisation, loss, syncAge, packetAge>>
        BY <3>3, Zenon DEF LoseSource
      <4>3. /\ a' \in [Ports -> Source] /\ b' \in [Ports -> Source]
            /\ port' \in [Ports -> PortRecord]
        BY <3>3, <4>1, LoseSourceType
      <4> QED BY <3>1, <4>2, <4>3 DEF TypeOK, Handling, synchronisation
    <3> QED BY <2>5, <3>2, <3>3 DEF Terminate
  <2>6. ASSUME NEW p \in Ports, Refuse(p) PROVE TypeOK'
    <3>1. handling' \in {NoPacket} \cup Handling
      BY <2>6, NextPortType DEF Refuse, Live
    <3>2. a' \in [Ports -> Source] /\ b' \in [Ports -> Source]
      BY <2>6, CheckedSources DEF TypeOK, Refuse
    <3>3. Merging(p) \in BOOLEAN /\ StillMergeMode(p) \in BOOLEAN
      BY Zenon DEF Merging, StillMergeMode
    <3>4. port' \in [Ports -> PortRecord]
      BY <2>6, <3>3, Zenon DEF TypeOK, Refuse, PortRecord
    <3>5. mergeMode' \in BOOLEAN
      BY <2>6, <3>3, Zenon DEF Refuse
    <3>6. UNCHANGED <<priority, synchronisation, loss, syncAge, packetAge>>
      BY <2>6, Zenon DEF Refuse
    <3> QED BY <3>1, <3>2, <3>4, <3>5, <3>6 DEF TypeOK, Handling, synchronisation
  <2>7. ASSUME NEW p \in Ports, TakeDmx(p) PROVE TypeOK'
    <3>1. handling' \in {NoPacket} \cup Handling
      BY <2>7, NextPortType DEF TakeDmx, Live
    <3>2. /\ Packet.priority \in Priorities
          /\ Packet.address \in SyncAddresses \cup {None}
      BY <2>7, HandlingPacket, PacketFields DEF TakeDmx, Live
    <3>5. /\ \E takeover \in BOOLEAN :
               mergeMode' = (Merges(p) \/ (~takeover /\ StillMergeMode(p)))
          /\ Synchronise(p, a'[p], b'[p])
      BY <2>7, Zenon DEF TakeDmx
    <3>6. a' \in [Ports -> Source] /\ b' \in [Ports -> Source]
      BY <2>7, SourcesAfter
    <3>7. mergeMode' \in BOOLEAN
      BY <3>5, Zenon
    <3>8. sync' \in BOOLEAN /\ forced' \in BOOLEAN
      BY <3>5, Zenon DEF Synchronise
    <3>9. addressA' \in SyncAddresses \cup {None} /\ addressB' \in SyncAddresses \cup {None}
      BY <3>2, <3>5 DEF Synchronise, TypeOK
    <3>10. port' \in [Ports -> PortRecord]
      <4>1. \A r \in PortRecord, m \in BOOLEAN, t \in BOOLEAN, w \in BOOLEAN :
              [r EXCEPT !.merging = m, !.transmitting = t, !.pending = w] \in PortRecord
        BY Zenon DEF PortRecord
      <4> DEFINE now == ~sync' \/ DisableSynchronize
                 r == [port[p] EXCEPT !.merging = Merges(p) \/ Merging(p),
                                      !.transmitting = @ \/ now,
                                      !.pending = @ \/ ~now]
      <4>2. (Merges(p) \/ Merging(p)) \in BOOLEAN
            /\ (port[p].transmitting \/ now) \in BOOLEAN
            /\ (port[p].pending \/ ~now) \in BOOLEAN
        BY Zenon
      <4>3. port[p] \in PortRecord
        BY DEF TypeOK
      <4>4. r \in PortRecord
        BY <4>1, <4>2, <4>3, Zenon
      <4>5. port' = [port EXCEPT ![p] = r]
        BY <2>7, Zenon DEF TakeDmx
      <4> HIDE DEF r
      <4> QED BY <4>4, <4>5 DEF TypeOK
    <3>11. priority' = Packet.priority /\ UNCHANGED <<loss, syncAge, packetAge>>
      BY <2>7, Zenon DEF TakeDmx
    <3> QED BY <3>1, <3>2, <3>6, <3>7, <3>8, <3>9, <3>10, <3>11 DEF TypeOK, Handling
  <2>8. CASE SetNetworkDataLossCondition
    BY <2>8, LoseNetworkType
       DEF TypeOK, SetNetworkDataLossCondition, LoseNetwork, ResetState
  <2>9. ASSUME NEW p \in Ports, Clear(p) PROVE TypeOK'
    <3>1. port' \in [Ports -> PortRecord]
      BY <2>9, Zenon DEF TypeOK, Clear, PortRecord
    <3> QED BY <2>9, <3>1 DEF TypeOK, Clear, synchronisation
  <2>10. CASE Tick
    <3>1. a' \in [Ports -> Source] /\ b' \in [Ports -> Source]
      BY <2>10, OlderIsSource DEF TypeOK, Tick
    <3>2. syncAge' \in 0 .. LossTimeout /\ packetAge' \in 0 .. LossTimeout
      BY <2>10 DEF TypeOK, Tick, Older
    <3> QED BY <2>10, <3>1, <3>2 DEF TypeOK, Tick, synchronisation
  <2>11. CASE UNCHANGED vars
    BY <2>11 DEF TypeOK, vars, merge, synchronisation
  <2> QED BY <2>1, <2>2, <2>3, <2>4, <2>5, <2>6, <2>7, <2>8, <2>9, <2>10, <2>11
          DEF Next, HandleDmx
<1> QED BY <1>1, <1>2, PTL DEF Spec

----------------------------------------------------------------------------
(* The inductive invariant *)

\* What a step may do to a source without harm: forget it, or let it grow older.
Kept(new, old) == /\ new.ip \in {old.ip, None} /\ new.held = old.held
                  /\ new.ip # None => new.covered = old.covered

LEMMA KeptByChecks ==
  ASSUME NEW s \in Source
  PROVE  Kept(s, s) /\ Kept(Gone(s), s) /\ Kept(Unexpired(s), s)
         /\ Kept(Gone(Unexpired(s)), s) /\ Kept(OlderSource(s), s) /\ Kept(Passed(s), s)
<1>1. Kept(s, s) /\ Kept(Gone(s), s) /\ Kept(OlderSource(s), s) /\ Kept(Passed(s), s)
  BY GoneSource, OlderIsSource, PassedIsSource DEF Kept
<1>2. Unexpired(s) \in {s, Gone(s)}
  BY DEF Unexpired
<1>3. Kept(Gone(Gone(s)), s)
  BY GoneSource DEF Kept
<1> QED BY <1>1, <1>2, <1>3

\* A source that is kept keeps its data its own.
LEMMA OwnKept ==
  ASSUME NEW old, NEW new, Own(old), Kept(new, old)
  PROVE  Own(new)
  BY DEF Own, Kept

\* Sources that are kept in this sense stay distinct and keep their data.
LEMMA KeptSources ==
  ASSUME HeldData, DistinctSources,
         \A p \in Ports : Kept(a'[p], a[p]) /\ Kept(b'[p], b[p])
  PROVE  HeldData' /\ DistinctSources'
<1>1. \A p \in Ports : Own(a'[p]) /\ Own(b'[p])
  BY OwnKept DEF HeldData
<1>2. DistinctSources'
  BY DEF DistinctSources, Kept
<1> QED BY <1>1, <1>2 DEF HeldData, Own

\* The loss of the network and of a source keep them so.
LEMMA LoseNetworkKeeps ==
  ASSUME TypeOK, LoseNetwork
  PROVE  \A p \in Ports : Kept(a'[p], a[p]) /\ Kept(b'[p], b[p])
<1> SUFFICES ASSUME NEW p \in Ports PROVE Kept(a'[p], a[p]) /\ Kept(b'[p], b[p])
  OBVIOUS
<1>1. a[p] \in Source /\ b[p] \in Source
  BY DEF TypeOK
<1>2. a'[p] \in {a[p], Gone(a[p])} /\ b'[p] \in {b[p], Gone(b[p])}
  BY DEF LoseNetwork
<1> QED BY <1>1, <1>2, KeptByChecks

LEMMA LoseSourceKeeps ==
  ASSUME TypeOK, NEW slotA \in BOOLEAN, LoseSource(slotA)
  PROVE  \A p \in Ports : Kept(a'[p], a[p]) /\ Kept(b'[p], b[p])
<1> SUFFICES ASSUME NEW p \in Ports PROVE Kept(a'[p], a[p]) /\ Kept(b'[p], b[p])
  OBVIOUS
<1>1. a[p] \in Source /\ b[p] \in Source
  BY DEF TypeOK
<1>2. a'[p] \in {a[p], Gone(a[p])} /\ b'[p] \in {b[p], Gone(b[p])}
  <2>1. CASE slotA
    BY <2>1 DEF LoseSource
  <2>2. CASE ~slotA
    BY <2>2 DEF LoseSource
  <2> QED BY <2>1, <2>2
<1> QED BY <1>1, <1>2, KeptByChecks

\* The slots of a port that takes a packet: one holds what was kept, the other the
\* packet, entered under its sender only if that is no source yet.
LEMMA TakenSlots ==
  ASSUME IInv, NEW p \in Ports, TakeDmx(p)
  PROVE  HeldData' /\ DistinctSources'
<1>1. /\ a'[p] = IF SlotOf(p) = "A" THEN Taken(HeldA(p), p) ELSE HeldA(p)
      /\ b'[p] = IF SlotOf(p) = "B" THEN Taken(HeldB(p), p) ELSE HeldB(p)
      /\ \A q \in Ports \ {p} : a'[q] = Passed(a[q]) /\ b'[q] = Passed(b[q])
  BY SourcesAfter DEF IInv
<1>2. a \in [Ports -> Source] /\ b \in [Ports -> Source]
  BY DEF IInv, TypeOK
<1>3. Kept(HeldA(p), a[p]) /\ Kept(HeldB(p), b[p])
  <2>1. /\ Kept(Unexpired(a[p]), a[p]) /\ Kept(Gone(Unexpired(a[p])), a[p])
        /\ Kept(Unexpired(b[p]), b[p]) /\ Kept(Gone(Unexpired(b[p])), b[p])
    BY <1>2, KeptByChecks
  <2> QED BY <2>1 DEF SourceA, SourceB, HeldA, HeldB
<1>4. \A q \in Ports \ {p} : Kept(a'[q], a[q]) /\ Kept(b'[q], b[q])
  BY <1>1, <1>2, KeptByChecks
<1>5. handling.sender \in Senders /\ handling.sender # None
  BY HandlingPacket DEF IInv, TakeDmx, Live
<1>6. ~(IsSourceA(p) /\ IsSourceB(p))
  BY OneSlot DEF IInv, TakeDmx, Live
<1>7. ASSUME NEW s PROVE Taken(s, p).ip = IF IsSourceA(p) \/ IsSourceB(p) THEN s.ip
                                                                        ELSE handling.sender
  BY TakenFields
<1>8. \A q \in Ports : a[q].ip # None => a[q].ip # b[q].ip
  BY DEF IInv, DistinctSources
<1>9. a'[p].ip # None => a'[p].ip # b'[p].ip
  <2>1. CASE SlotOf(p) = "A"
    <3>1. IsSourceA(p) \/ ~IsSourceB(p)
      BY <2>1 DEF SlotOf
    <3>2. a'[p] = Taken(HeldA(p), p) /\ b'[p] = HeldB(p)
      BY <2>1, <1>1
    <3> QED BY <3>1, <3>2, <1>3, <1>5, <1>7, <1>8 DEF Kept, IsSourceA, IsSourceB
  <2>2. CASE SlotOf(p) = "B"
    <3>1. ~IsSourceA(p)
      BY <2>2, <1>6 DEF SlotOf
    <3>2. a'[p] = HeldA(p) /\ b'[p] = Taken(HeldB(p), p)
      BY <2>2, <1>1
    <3> QED BY <3>1, <3>2, <1>3, <1>5, <1>7, <1>8 DEF Kept, IsSourceA, IsSourceB
  <2>3. CASE SlotOf(p) \notin {"A", "B"}
    <3>1. a'[p] = HeldA(p) /\ b'[p] = HeldB(p)
      BY <2>3, <1>1
    <3> QED BY <3>1, <1>3, <1>8 DEF Kept
  <2> QED BY <2>1, <2>2, <2>3
<1>10. DistinctSources'
  <2>1. \A q \in Ports \ {p} : a'[q].ip # None => a'[q].ip # b'[q].ip
    BY <1>4, <1>8 DEF Kept
  <2> QED BY <1>9, <2>1 DEF DistinctSources
<1>11. Own(HeldA(p)) /\ Own(HeldB(p))
  BY <1>3, OwnKept DEF IInv, HeldData
<1>12. ASSUME NEW s \in Source, Own(s), s.ip \in {handling.sender, None} \/
                                        ~(IsSourceA(p) \/ IsSourceB(p))
       PROVE  Own(Taken(s, p))
  <2> SUFFICES ASSUME Taken(s, p).ip # None, NEW i \in Slots, i <= Taken(s, p).covered
               PROVE  Taken(s, p).held[i] = Taken(s, p).ip
    BY DEF Own
  <2>1. Taken(s, p).ip = handling.sender
    BY <1>7, <1>12
  <2>2. /\ Taken(s, p).held[i] = (IF i <= Packet.length THEN handling.sender ELSE s.held[i])
        /\ Taken(s, p).covered = (IF handling.sender = s.ip /\ s.covered > Packet.length
                                  THEN s.covered ELSE Packet.length)
    <3> DEFINE t == Taken(s, p)
    <3>1. /\ t.held[i] = (IF i <= Packet.length THEN handling.sender ELSE s.held[i])
          /\ t.ip # None => t.covered = (IF t.ip = s.ip /\ s.covered > Packet.length
                                        THEN s.covered ELSE Packet.length)
      BY TakenFields
    <3> QED BY <2>1, <3>1
  <2>3. CASE i <= Packet.length
    BY <2>1, <2>2, <2>3
  <2>4. CASE ~(i <= Packet.length)
    <3>1. handling.sender = s.ip /\ i <= s.covered
      BY <2>2, <2>4
    <3> QED BY <1>5, <1>12, <2>1, <2>2, <2>4, <3>1 DEF Own
  <2> QED BY <2>3, <2>4
<1>13. HeldA(p) \in Source /\ HeldB(p) \in Source
  BY HeldSource DEF IInv
<1>14. Own(a'[p]) /\ Own(b'[p])
  <2>1. CASE SlotOf(p) = "A"
    <3>1. HeldA(p).ip \in {handling.sender, None} \/ ~(IsSourceA(p) \/ IsSourceB(p))
      BY <2>1, <1>3 DEF SlotOf, Kept, IsSourceA
    <3> QED BY <2>1, <3>1, <1>1, <1>11, <1>12, <1>13
  <2>2. CASE SlotOf(p) = "B"
    <3>1. HeldB(p).ip \in {handling.sender, None} \/ ~(IsSourceA(p) \/ IsSourceB(p))
      BY <2>2, <1>3, <1>6 DEF SlotOf, Kept, IsSourceB
    <3> QED BY <2>2, <3>1, <1>1, <1>11, <1>12, <1>13
  <2>3. CASE SlotOf(p) \notin {"A", "B"}
    BY <2>3, <1>1, <1>11
  <2> QED BY <2>1, <2>2, <2>3
<1>15. HeldData'
  <2>1. \A q \in Ports : Own(a'[q]) /\ Own(b'[q])
    BY <1>4, <1>14, OwnKept DEF IInv, HeldData
  <2> QED BY <2>1 DEF HeldData, Own
<1> QED BY <1>10, <1>15

\* The slots keep their data and stay distinct through every step.
LEMMA SlotsKept ==
  ASSUME IInv, TypeOK', [Next]_vars
  PROVE  HeldData' /\ DistinctSources'
<1> DEFINE AllKept == \A p \in Ports : Kept(a'[p], a[p]) /\ Kept(b'[p], b[p])
<1>0. AllKept => HeldData' /\ DistinctSources'
  BY KeptSources DEF IInv
<1>1. a \in [Ports -> Source] /\ b \in [Ports -> Source]
  BY DEF IInv, TypeOK
<1>2. UNCHANGED <<a, b>> => AllKept
  BY <1>1, KeptByChecks
<1> HIDE DEF AllKept
<1>3. ASSUME NEW packet \in DataPacket, Receive(packet) PROVE AllKept
  BY <1>2, <1>3 DEF Receive, merge
<1>4. ASSUME NEW address, HandleSynchronization(address) PROVE AllKept
  BY <1>2, <1>4 DEF HandleSynchronization
<1>5. CASE OtherPacket
  BY <1>0, <1>2, <1>5 DEF OtherPacket, merge
<1>6. ASSUME NEW p \in Ports, Ignore(p) PROVE AllKept
  BY <1>2, <1>6 DEF Ignore, merge
<1>7. ASSUME NEW p \in Ports, Terminate(p) PROVE AllKept
  <2>1. CASE LoseNetwork
    BY <2>1, LoseNetworkKeeps DEF IInv, AllKept
  <2>2. CASE LoseSource(IsSourceA(p))
    <3>1. IsSourceA(p) \in BOOLEAN
      BY DEF IsSourceA
    <3> QED BY <2>2, <3>1, LoseSourceKeeps DEF IInv, AllKept
  <2> QED BY <1>7, <2>1, <2>2 DEF Terminate
<1>8. ASSUME NEW p \in Ports, Refuse(p) PROVE AllKept
  <2>1. \A q \in Ports : /\ Kept(a[q], a[q]) /\ Kept(Unexpired(a[q]), a[q])
                         /\ Kept(b[q], b[q]) /\ Kept(Unexpired(b[q]), b[q])
    BY <1>1, KeptByChecks
  <2>2. /\ a' = [a EXCEPT ![p] = Unexpired(a[p])]
        /\ b' = [b EXCEPT ![p] = Unexpired(b[p])]
    BY <1>8 DEF Refuse, SourceA, SourceB
  <2> QED BY <1>1, <2>1, <2>2 DEF AllKept
<1>9. ASSUME NEW p \in Ports, TakeDmx(p) PROVE HeldData' /\ DistinctSources'
  BY <1>9, TakenSlots
<1>10. CASE SetNetworkDataLossCondition
  BY <1>0, <1>10, LoseNetworkKeeps DEF SetNetworkDataLossCondition, IInv, AllKept
<1>11. ASSUME NEW p \in Ports, Clear(p) PROVE AllKept
  BY <1>2, <1>11 DEF Clear
<1>12. CASE Tick
  <2>1. \A q \in Ports : Kept(OlderSource(a[q]), a[q]) /\ Kept(OlderSource(b[q]), b[q])
    BY <1>1, KeptByChecks
  <2>2. AllKept
    BY <1>12, <2>1 DEF Tick, AllKept
  <2> QED BY <1>0, <2>2
<1>13. CASE UNCHANGED vars
  BY <1>0, <1>2, <1>13 DEF vars, merge
<1> QED BY <1>0, <1>3, <1>4, <1>5, <1>6, <1>7, <1>8, <1>9, <1>10, <1>11, <1>12, <1>13
        DEF Next, HandleDmx

\* The end of a stream is never the loss of the network: that would take a sender in
\* both slots.
LEMMA EndOfOneStream ==
  ASSUME IInv, NEW p \in Ports, Terminate(p)
  PROVE  UNCHANGED <<mergeMode, priority, sync, forced, loss>>
<1>1. ~(IsSourceA(p) /\ IsSourceB(p))
  BY OneSlot DEF IInv, Terminate
<1>2. LoseSource(IsSourceA(p))
  BY <1>1, Zenon DEF Terminate
<1> QED BY <1>2, Zenon DEF LoseSource, synchronisation

\* A packet that is handled finds the network there, and leaves it there.
LEMMA HandlerFacts ==
  ASSUME IInv, NEW p \in Ports, At(p)
  PROVE  ~loss
  BY DEF IInv, NoLossInHand, At, Idle

\* The flags of loss and synchronisation keep their meaning.
LEMMA FlagsKept ==
  ASSUME IInv, [Next]_vars
  PROVE  LossIsClean' /\ ForcedIsSync' /\ NoLossInHand'
<1> DEFINE Goal == LossIsClean' /\ ForcedIsSync' /\ NoLossInHand'
<1>0. /\ loss \in BOOLEAN /\ sync \in BOOLEAN /\ forced \in BOOLEAN /\ mergeMode \in BOOLEAN
      /\ LossIsClean /\ ForcedIsSync /\ NoLossInHand
  BY DEF IInv, TypeOK
<1>a. ASSUME Arrival, sync' = StillSync, UNCHANGED forced PROVE Goal
  BY <1>0, <1>a, Zenon
     DEF Arrival, StillSync, LossIsClean, ForcedIsSync, NoLossInHand
<1>b. ASSUME NEW p \in Ports, At(p), UNCHANGED <<sync, forced, loss>> PROVE Goal
  BY <1>0, <1>b, HandlerFacts, Zenon DEF LossIsClean, ForcedIsSync, NoLossInHand
<1>c. ASSUME Idle, LoseNetwork, UNCHANGED handling PROVE Goal
  <2>1. mergeMode' = FALSE /\ sync' = FALSE /\ forced' = FALSE /\ priority' = Lowest
    BY <1>c, Zenon DEF LoseNetwork, ResetState
  <2> QED BY <1>c, <2>1, Zenon DEF Idle, LossIsClean, ForcedIsSync, NoLossInHand
<1>d. ASSUME Idle, UNCHANGED <<mergeMode, priority, sync, forced, handling>>, loss' => loss
      PROVE Goal
  BY <1>0, <1>d, Zenon DEF Idle, LossIsClean, ForcedIsSync, NoLossInHand
<1>1. ASSUME NEW packet \in DataPacket, Receive(packet) PROVE Goal
  BY <1>a, <1>1, Zenon DEF Receive
<1>2. ASSUME NEW address, HandleSynchronization(address) PROVE Goal
  BY <1>a, <1>2, Zenon DEF HandleSynchronization
<1>3. CASE OtherPacket
  BY <1>a, <1>3, Zenon DEF OtherPacket
<1>4. ASSUME NEW p \in Ports, Ignore(p) PROVE Goal
  BY <1>b, <1>4, Zenon DEF Ignore, synchronisation
<1>5. ASSUME NEW p \in Ports, Terminate(p) PROVE Goal
  BY <1>b, <1>5, EndOfOneStream, Zenon DEF Terminate
<1>6. ASSUME NEW p \in Ports, Refuse(p) PROVE Goal
  BY <1>b, <1>6, Zenon DEF Refuse, Live, synchronisation
<1>7. ASSUME NEW p \in Ports, TakeDmx(p) PROVE Goal
  <2>1. At(p) /\ UNCHANGED loss
    BY <1>7, Zenon DEF TakeDmx, Live
  <2>2. ~loss'
    BY <2>1, HandlerFacts, Zenon
  <2>3. /\ forced' = (Synchronises \/ (forced /\ ~Packet.force))
        /\ sync' = (Synchronises \/ sync)
    BY <1>7, Zenon DEF TakeDmx, Synchronise
  <2> QED BY <1>0, <2>2, <2>3, Zenon DEF LossIsClean, ForcedIsSync, NoLossInHand
<1>8. CASE SetNetworkDataLossCondition
  BY <1>c, <1>8, Zenon DEF SetNetworkDataLossCondition
<1>9. ASSUME NEW p \in Ports, Clear(p) PROVE Goal
  BY <1>d, <1>9, Zenon DEF Clear, synchronisation
<1>10. CASE Tick
  BY <1>d, <1>10, Zenon DEF Tick, synchronisation
<1>11. CASE UNCHANGED vars
  BY <1>0, <1>11, Zenon
     DEF vars, merge, synchronisation, LossIsClean, ForcedIsSync, NoLossInHand
<1> QED BY <1>1, <1>2, <1>3, <1>4, <1>5, <1>6, <1>7, <1>8, <1>9, <1>10, <1>11
        DEF Next, HandleDmx

\* The inductive invariant: types; held data belongs to its source; the slots of a port
\* are distinct; the flags of loss and forced synchronisation mean what they say.
THEOREM Invariance == Spec => []IInv
<1>1. Init => HeldData /\ DistinctSources /\ LossIsClean /\ ForcedIsSync /\ NoLossInHand
  BY DEF Init, HeldData, Own, DistinctSources, LossIsClean, ForcedIsSync, NoLossInHand
<1>2. IInv /\ TypeOK' /\ [Next]_vars => IInv'
  BY SlotsKept, FlagsKept DEF IInv
<1> QED BY <1>1, <1>2, TypeCorrect, PTL DEF Spec, IInv

\* DistinctSources: "Source matches both ip" does not happen, on any number of ports.
THEOREM SourcesDistinct == Spec => []DistinctSources
  BY Invariance, PTL DEF IInv

\* LossIsClean: while Run() is kept from resetting the state, the state is reset.
THEOREM LossClean == Spec => []LossIsClean
  BY Invariance, PTL DEF IInv

\* ForcedIsSync: a bridge that must wait for synchronisation packets is synchronised.
THEOREM ForcedSync == Spec => []ForcedIsSync
  BY Invariance, PTL DEF IInv

\* OutputFromSources: what a port puts out comes from the sender and its sources.
THEOREM SourcesOnly == Spec => []OutputFromSources
<1>1. ASSUME IInv, NEW p \in Ports, Live(p)
      PROVE  \A i \in Covered(p) : Output(p)[i] \subseteq {handling.sender, a[p].ip, b[p].ip}
  <2> SUFFICES ASSUME NEW i \in Covered(p)
               PROVE  Output(p)[i] \subseteq {handling.sender, a[p].ip, b[p].ip}
    OBVIOUS
  <2>0. /\ Packet.length \in 0 .. SlotCount /\ handling.sender # None
        /\ ~(IsSourceA(p) /\ IsSourceB(p))
    BY <1>1, HandlingPacket, PacketFields, OneSlot DEF IInv, Live
  <2>1. /\ i \in 1 .. Packet.length /\ i \in Slots
        /\ \A s \in {a[p], b[p]} : s.ip \notin {None, handling.sender} => i <= s.covered
    BY <2>0 DEF Covered, Slots
  <2>2. \A s \in {a[p], b[p]} : s.ip \notin {None, handling.sender} => s.held[i] = s.ip
    BY <1>1, <2>1 DEF IInv, HeldData, Own
  <2> DEFINE other == IF SlotOf(p) = "A" THEN b[p].held ELSE a[p].held
  <2>3. Output(p)[i] = {handling.sender} \cup (IF ~Merges(p) \/ p \in LtpPorts THEN {}
                                              ELSE {other[i]} \ {None})
    BY <2>1 DEF Output
  <2>4. Merges(p) => other[i] \in {a[p].ip, b[p].ip}
    <3>1. CASE SlotOf(p) = "A" /\ b[p].ip # None
      <4>1. b[p].ip # handling.sender
        BY <2>0, <3>1 DEF SlotOf, IsSourceA, IsSourceB
      <4> QED BY <2>2, <3>1, <4>1
    <3>2. CASE SlotOf(p) = "B" /\ a[p].ip # None
      <4>1. a[p].ip # handling.sender
        BY <2>0, <3>2 DEF SlotOf, IsSourceA, IsSourceB
      <4> QED BY <2>2, <3>2, <4>1
    <3> QED BY <3>1, <3>2 DEF Merges
  <2> QED BY <2>3, <2>4
<1>2. IInv => OutputFromSources
  BY <1>1 DEF OutputFromSources
<1> QED BY <1>2, Invariance, PTL

----------------------------------------------------------------------------
(* Priorities                                                               *)

\* A source that has been heard within the network's timeout does not have a higher
\* priority than the one packets are compared with, unless it has been undercut.
Ranked(source) ==
  source.ip # None /\ source.age < LossTimeout /\ ~source.undercut
    => source.priority <= priority

\* No source has been heard later than the last packet, and the packet in hand has
\* just arrived: when the network is lost, no source is recent.
Heard(source) == source.age >= packetAge
Recent == handling # NoPacket => packetAge = 0

RankInv == /\ \A p \in Ports : /\ Ranked(a[p]) /\ Ranked(b[p])
                               /\ Heard(a[p]) /\ Heard(b[p])
           /\ Recent

\* A source that was not heard again: forgotten, or the source it was.
Left(new, old) == new \in {old, Gone(old)}

LEMMA LeftByChecks ==
  ASSUME NEW s
  PROVE  Left(s, s) /\ Left(Gone(s), s) /\ Left(Unexpired(s), s)
  BY DEF Left, Unexpired

LEMMA LeftIsRanked ==
  ASSUME NEW old \in Source, NEW new, Left(new, old), Ranked(old), Heard(old)
  PROVE  Ranked(new) /\ Heard(new)
  BY GoneSource DEF Left, Ranked, Heard

\* Sources that are left so, with the priority as it was, keep their rank.
LEMMA RankKept ==
  ASSUME IInv, RankInv, UNCHANGED <<priority, packetAge>>, handling' # NoPacket => packetAge = 0,
         \A p \in Ports : Left(a'[p], a[p]) /\ Left(b'[p], b[p])
  PROVE  RankInv'
<1>1. ASSUME NEW p \in Ports
      PROVE  Ranked(a'[p]) /\ Ranked(b'[p]) /\ Heard(a'[p]) /\ Heard(b'[p])
  BY LeftIsRanked DEF IInv, TypeOK, RankInv
<1>2. \A s : (Ranked(s) => Ranked(s)') /\ (Heard(s) => Heard(s)')
  BY DEF Ranked, Heard
<1> QED BY <1>1, <1>2 DEF RankInv, Ranked, Heard, Recent

\* A packet lowers the priority only when every source of its port is silent.
LEMMA AcceptedPriority ==
  ASSUME IInv, NEW p \in Ports, TakeDmx(p), ~(Packet.priority > priority),
         NEW s \in {SourceA(p), SourceB(p)}, s.ip # None, s.age < LossTimeout
  PROVE  Packet.priority = priority
<1>1. priority \in Nat /\ Packet.priority \in Nat
  <2>1. Packet.priority \in Priorities
    BY HandlingPacket, PacketFields DEF IInv, TakeDmx, Live
  <2> QED BY <2>1 DEF IInv, TypeOK
<1>2. s.age \in Nat
  BY CheckedSources DEF IInv, Source, Old
<1>3. ~IsPriorityTimeOut(p)
  <2>1. ~(s.age >= PriorityTimeout) /\ ~(s.age > PriorityTimeout)
    BY <1>2
  <2> QED BY <2>1, Zenon DEF IsPriorityTimeOut
<1>4. ~(Packet.priority < priority)
  BY <1>3 DEF TakeDmx, Refused
<1> QED BY <1>1, <1>4

\* The slots after a packet: the sender's own, with the packet's priority, or a source
\* that was there and is, if it is recent and not undercut, of no higher priority.
LEMMA SlotsAfter ==
  ASSUME IInv, RankInv, NEW p \in Ports, TakeDmx(p), NEW s \in {a'[p], b'[p]}
  PROVE  \/ /\ s.age = 0 /\ s.ip \in {handling.sender, None}
            /\ s.ip # None => s.priority = Packet.priority
         \/ /\ Heard(s)
            /\ s.ip # None /\ s.age < LossTimeout /\ ~s.undercut => s.priority <= Packet.priority
<1>1. /\ a'[p] = IF SlotOf(p) = "A" THEN Taken(HeldA(p), p) ELSE HeldA(p)
      /\ b'[p] = IF SlotOf(p) = "B" THEN Taken(HeldB(p), p) ELSE HeldB(p)
  BY SourcesAfter DEF IInv
<1>2. a \in [Ports -> Source] /\ b \in [Ports -> Source]
  BY DEF IInv, TypeOK
<1>3. ASSUME NEW old \in {a[p], b[p]}, NEW t, t = Unexpired(old), t \in {SourceA(p), SourceB(p)},
             NEW held, held = IF Packet.priority > priority THEN Gone(t) ELSE t
      PROVE  /\ Heard(held) /\ held.ip \in {old.ip, None}
             /\ held.ip # None /\ held.age < LossTimeout /\ ~held.undercut
                  => held.priority <= Packet.priority
  <2>1. old \in Source /\ Ranked(old) /\ Heard(old)
    BY <1>2 DEF RankInv
  <2>2. Left(t, old)
    BY <1>3, LeftByChecks
  <2>3. t \in Source /\ Ranked(t) /\ Heard(t)
    BY <1>3, <2>1, <2>2, CheckedSources, LeftIsRanked DEF IInv
  <2>4. t.ip \in {old.ip, None}
    BY <2>1, <2>2, GoneSource DEF Left
  <2>5. CASE Packet.priority > priority
    BY <1>3, <2>3, <2>5, GoneSource DEF Heard
  <2>6. CASE ~(Packet.priority > priority)
    BY <1>3, <2>3, <2>4, <2>6, AcceptedPriority DEF Ranked
  <2> QED BY <2>5, <2>6
<1>4. /\ Heard(HeldA(p)) /\ HeldA(p).ip \in {a[p].ip, None}
      /\ HeldA(p).ip # None /\ HeldA(p).age < LossTimeout /\ ~HeldA(p).undercut
           => HeldA(p).priority <= Packet.priority
  BY <1>3 DEF SourceA, HeldA
<1>5. /\ Heard(HeldB(p)) /\ HeldB(p).ip \in {b[p].ip, None}
      /\ HeldB(p).ip # None /\ HeldB(p).age < LossTimeout /\ ~HeldB(p).undercut
           => HeldB(p).priority <= Packet.priority
  BY <1>3 DEF SourceB, HeldB
<1>6. ASSUME NEW t
      PROVE  /\ Taken(t, p).age = 0
             /\ Taken(t, p).ip = IF IsSourceA(p) \/ IsSourceB(p) THEN t.ip ELSE handling.sender
             /\ Taken(t, p).ip # None => Taken(t, p).priority = Packet.priority
  BY TakenFields
<1>7. ASSUME SlotOf(p) = "A" PROVE Taken(HeldA(p), p).ip \in {handling.sender, None}
  BY <1>4, <1>6, <1>7 DEF SlotOf, IsSourceA, IsSourceB
<1>8. ASSUME SlotOf(p) = "B" PROVE Taken(HeldB(p), p).ip \in {handling.sender, None}
  <2>1. ~IsSourceA(p)
    BY <1>8, OneSlot DEF IInv, TakeDmx, Live, SlotOf
  <2> QED BY <1>5, <1>6, <2>1 DEF IsSourceA, IsSourceB
<1>9. CASE s = HeldA(p) \/ s = HeldB(p)
  BY <1>4, <1>5, <1>9
<1>10. CASE s = Taken(HeldA(p), p) /\ SlotOf(p) = "A"
  BY <1>6, <1>7, <1>10
<1>11. CASE s = Taken(HeldB(p), p) /\ SlotOf(p) = "B"
  BY <1>6, <1>8, <1>11
<1> QED BY <1>1, <1>9, <1>10, <1>11

\* The sources of the other ports: whoever has a higher priority than the packet is
\* undercut by it.
LEMMA RankAfterPacket ==
  ASSUME IInv, RankInv, NEW p \in Ports, TakeDmx(p)
  PROVE  RankInv'
<1>2. /\ priority' = Packet.priority /\ packetAge' = packetAge /\ handling # NoPacket
      /\ packetAge = 0
  BY DEF TakeDmx, Live, At, Idle, RankInv, Recent
<1>3. ASSUME NEW s \in {a'[p], b'[p]}
      PROVE  /\ s.ip # None /\ s.age < LossTimeout /\ ~s.undercut => s.priority <= priority'
             /\ s.age >= packetAge'
  <2>1. Packet.priority <= Packet.priority
    BY HandlingPacket, PacketFields DEF IInv, TakeDmx, Live
  <2> QED BY <1>2, <2>1, SlotsAfter DEF Heard
<1>4. ASSUME NEW s \in Source, Heard(s)
      PROVE  /\ Passed(s).ip # None /\ Passed(s).age < LossTimeout /\ ~Passed(s).undercut
                  => Passed(s).priority <= priority'
             /\ Passed(s).age >= packetAge'
  <2>1. s.priority \in Nat /\ Packet.priority \in Nat
    BY HandlingPacket, PacketFields DEF IInv, TakeDmx, Live, Source
  <2> QED BY <1>2, <1>4, <2>1, PassedIsSource DEF Heard
<1>5. \A q \in Ports \ {p} : /\ a'[q] = Passed(a[q]) /\ b'[q] = Passed(b[q])
                             /\ a[q] \in Source /\ b[q] \in Source
                             /\ Heard(a[q]) /\ Heard(b[q])
  BY SourcesAfter DEF IInv, TypeOK, RankInv
<1>6. ASSUME NEW q \in Ports, NEW s \in {a'[q], b'[q]}
      PROVE  /\ s.ip # None /\ s.age < LossTimeout /\ ~s.undercut => s.priority <= priority'
             /\ s.age >= packetAge'
  <2>1. CASE q = p
    BY <1>3, <1>6, <2>1
  <2>2. CASE q # p
    BY <1>4, <1>5, <1>6, <2>2
  <2> QED BY <2>1, <2>2
<1> QED BY <1>2, <1>6 DEF RankInv, Ranked, Heard, Recent

\* When the network is lost no source is recent: every age is the timeout at least.
LEMMA RankAfterLoss ==
  ASSUME IInv, RankInv, SetNetworkDataLossCondition
  PROVE  RankInv'
<1>1. /\ packetAge' = packetAge /\ packetAge >= LossTimeout /\ handling' = NoPacket
  BY DEF SetNetworkDataLossCondition, LoseNetwork, Idle
<1>2. ASSUME NEW p \in Ports PROVE Left(a'[p], a[p]) /\ Left(b'[p], b[p])
  BY <1>2 DEF SetNetworkDataLossCondition, LoseNetwork, Left, IInv, TypeOK
<1>3. ASSUME NEW old \in Source, NEW new, Left(new, old), Heard(old)
      PROVE  new.age >= packetAge' /\ ~(new.age < LossTimeout)
  <2>1. new.age = old.age /\ old.age \in 0 .. Old
    BY <1>3, GoneSource DEF Left, Source
  <2>2. old.age >= packetAge /\ packetAge \in 0 .. LossTimeout
    BY <1>3 DEF Heard, IInv, TypeOK
  <2> QED BY <1>1, <2>1, <2>2 DEF Old
<1> QED BY <1>1, <1>2, <1>3 DEF RankInv, IInv, TypeOK, Ranked, Heard, Recent

LEMMA RankAfterTick == ASSUME IInv, RankInv, Tick PROVE RankInv'
<1>1. ASSUME NEW old \in Source, Ranked(old), Heard(old)
      PROVE  /\ OlderSource(old).ip # None /\ OlderSource(old).age < LossTimeout
                  /\ ~OlderSource(old).undercut
                => OlderSource(old).priority <= priority'
             /\ OlderSource(old).age >= packetAge'
  <2>1. /\ OlderSource(old).ip = old.ip /\ OlderSource(old).priority = old.priority
        /\ OlderSource(old).age = Older(old.age, Old)
        /\ OlderSource(old).undercut = old.undercut
    BY <1>1, OlderIsSource
  <2>2. /\ priority' = priority /\ packetAge' = Older(packetAge, LossTimeout)
        /\ packetAge \in 0 .. LossTimeout /\ old.age \in 0 .. Old
    BY <1>1 DEF Tick, IInv, TypeOK, Source
  <2> QED BY <1>1, <2>1, <2>2 DEF Older, Old, Ranked, Heard
<1> QED BY <1>1 DEF Tick, RankInv, IInv, TypeOK, Ranked, Heard, Recent, Idle

LEMMA RankStep ==
  ASSUME IInv, RankInv, [Next]_vars
  PROVE  RankInv'
<1> DEFINE AllLeft == \A p \in Ports : Left(a'[p], a[p]) /\ Left(b'[p], b[p])
<1>0. UNCHANGED <<a, b>> => AllLeft
  BY LeftByChecks
<1>a. AllLeft /\ UNCHANGED <<priority, packetAge>> /\ (handling' # NoPacket => packetAge = 0)
      => RankInv'
  BY RankKept
<1>b. ASSUME UNCHANGED <<a, b, priority>>, packetAge' = 0 PROVE RankInv'
  BY <1>b DEF RankInv, Ranked, Heard, Recent, IInv, TypeOK, Source, Old
<1>c. ASSUME NEW p \in Ports, At(p) PROVE packetAge = 0
  BY <1>c DEF RankInv, Recent, At, Idle
<1> HIDE DEF AllLeft
<1>1. ASSUME NEW packet \in DataPacket, Receive(packet) PROVE RankInv'
  BY <1>b, <1>1 DEF Receive, Arrival, merge
<1>2. ASSUME NEW address, HandleSynchronization(address) PROVE RankInv'
  BY <1>b, <1>2 DEF HandleSynchronization, Arrival
<1>3. CASE OtherPacket
  BY <1>b, <1>3 DEF OtherPacket, Arrival, merge
<1>4. ASSUME NEW p \in Ports, Ignore(p) PROVE RankInv'
  BY <1>0, <1>a, <1>c, <1>4 DEF Ignore, merge
<1>5. ASSUME NEW p \in Ports, Terminate(p) PROVE RankInv'
  <2>1. LoseSource(IsSourceA(p))
    BY <1>5, OneSlot DEF IInv, Terminate
  <2>2. UNCHANGED <<priority, packetAge>>
    BY <2>1, Zenon DEF LoseSource
  <2>3. AllLeft
    BY <2>1 DEF LoseSource, AllLeft, Left, IInv, TypeOK
  <2> QED BY <1>5, <1>a, <1>c, <2>2, <2>3 DEF Terminate
<1>6. ASSUME NEW p \in Ports, Refuse(p) PROVE RankInv'
  <2>1. UNCHANGED <<priority, packetAge>>
    BY <1>6, Zenon DEF Refuse
  <2>2. /\ a' = [a EXCEPT ![p] = Unexpired(a[p])]
        /\ b' = [b EXCEPT ![p] = Unexpired(b[p])]
    BY <1>6 DEF Refuse, SourceA, SourceB
  <2>3. AllLeft
    BY <2>2, LeftByChecks DEF AllLeft, IInv, TypeOK
  <2> QED BY <1>6, <1>a, <1>c, <2>1, <2>3 DEF Refuse, Live
<1>7. ASSUME NEW p \in Ports, TakeDmx(p) PROVE RankInv'
  BY <1>7, RankAfterPacket
<1>8. CASE SetNetworkDataLossCondition
  BY <1>8, RankAfterLoss
<1>9. ASSUME NEW p \in Ports, Clear(p) PROVE RankInv'
  BY <1>0, <1>a, <1>9 DEF Clear, Idle
<1>10. CASE Tick
  BY <1>10, RankAfterTick
<1>11. CASE UNCHANGED vars
  BY <1>0, <1>a, <1>11 DEF vars, merge, RankInv, Recent
<1> QED BY <1>1, <1>2, <1>3, <1>4, <1>5, <1>6, <1>7, <1>8, <1>9, <1>10, <1>11
        DEF Next, HandleDmx

\* HigherPriorityWins: no packet goes out while another source of its port, of a higher
\* priority, has been heard within the network's timeout, and no other port has taken a
\* packet of a lower priority since.
THEOREM HigherPriority == Spec => HigherPriorityWins
<1>1. Init => RankInv
  BY DEF Init, RankInv, Ranked, Heard, Recent
<1>2. ASSUME IInv, RankInv, NEW p \in Ports, TakeDmx(p), NEW s \in {a'[p], b'[p]},
             s.ip \notin {None, handling.sender}, s.age < LossTimeout, ~s.undercut
      PROVE  s.priority <= Packet.priority
  BY <1>2, SlotsAfter
<1>3. IInv /\ RankInv /\ [Next]_vars =>
        [\A p \in Ports : TakeDmx(p) =>
           \A s \in {a'[p], b'[p]} :
             s.ip \notin {None, handling.sender} /\ s.age < LossTimeout /\ ~s.undercut
               => s.priority <= Packet.priority]_vars
  BY <1>2
<1>4. IInv /\ RankInv /\ [Next]_vars => RankInv'
  BY RankStep
<1> QED BY <1>1, <1>3, <1>4, Invariance, PTL DEF Spec, HigherPriorityWins
==============================================================================
