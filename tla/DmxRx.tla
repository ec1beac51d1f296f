------------------------------- MODULE DmxRx -------------------------------
(***************************************************************************)
(* The receiving side of one port of lib-dmx/src/gd32/dmx.cpp.  Every idle *)
(* frame, framing error (a break) and byte on the line is an interrupt,    *)
(* whose handler takes DMX packets, RDM messages and the replies of RDM    *)
(* discovery apart; the superloop polls for what is complete, and takes it *)
(* with a read and a later write of the word the interrupt writes too.     *)
(*                                                                         *)
(* Of the data only what steers the handler is kept: the start code and an *)
(* RDM message's length.  intact counts the slots that are where they      *)
(* belong: data[0 .. intact - 1] are the start code and the slots that     *)
(* followed it on the line.                                                *)
(***************************************************************************)
EXTENDS Integers

CONSTANTS
  ChannelsMax,   \* kChannelsMax: the slots of a full packet
  LengthAt,      \* where an RDM message has its length
  LengthMin,     \* e120::kMessageLengthMin
  MessageSize,   \* sizeof(TRdmMessage): the longest message and its checksum
  DiscoveryMax,  \* 24, the length of a discovery reply
  Bytes,         \* bytes on the line
  MaxNoise,      \* bound: noise on the line, and stops of the input or the sender
  MaxTorn        \* bound: start codes between a poll's read and its write

StartCode == 0          \* dmx::kStartCode
ScRdm     == 1          \* E120_SC_RDM; no length is as small

ASSUME SizeAssumption ==
  /\ ChannelsMax \in Nat \ {0} /\ LengthAt \in Nat /\ LengthMin \in Nat
  /\ LengthAt > 0 /\ LengthAt < LengthMin /\ ScRdm < LengthMin
  /\ MessageSize \in Nat /\ LengthMin + 2 <= MessageSize
  /\ DiscoveryMax \in Nat \ {0} /\ DiscoveryMax <= MessageSize
ASSUME ByteAssumption ==
  /\ Bytes \subseteq 0 .. MessageSize - 2 /\ {StartCode, ScRdm} \subseteq Bytes
ASSUME BoundAssumption == MaxNoise \in Nat /\ MaxTorn \in {0, 1}

VARIABLES
  rx,        \* rx_buffer.state
  slots,     \* dmx.current.slots_in_packet: its count and its kDmxSlotsCompleteFlag
  rdm,       \* rdm.index with its kRdmSlotsCompleteFlag; rdm.data[LengthAt]
  packets,   \* sv_rx_dmx_packets: count # count_previous, per_second # 0
  listening, \* the interrupts are enabled: sv_port_state is kRx
  taking,    \* the count GetDmxAvailable() has read and not yet written back, or None
  line,      \* the line: its phase, and the place of the next byte after a break
  noise,     \* counts against MaxNoise
  torn,      \* counts against MaxTorn
  intact,    \* the slots that are where they belong
  spoiled    \* this packet was written over, or two packets had no gap between them

receiver == <<rx, slots, rdm, packets, intact, spoiled>>
driver   == <<listening, taking>>
wire     == <<line, noise>>
rxvars   == <<receiver, driver, wire, torn>>

None == -1
States == {"Idle", "Break", "Data", "RdmData", "Checksumh", "Checksuml", "Disc"}

InitRx ==
  /\ rx = "Idle" /\ listening = TRUE /\ taking = None
  /\ slots = [n |-> 0, complete |-> FALSE]
  /\ rdm = [index |-> 0, complete |-> FALSE, length |-> 0]
  /\ packets = [counted |-> FALSE, rate |-> FALSE]
  /\ line \in [phase : {"Quiet"}, place : {0}]
  /\ noise = 0 /\ torn = 0 /\ intact = 0 /\ spoiled = FALSE

----------------------------------------------------------------------------
(* IrqHandlerDmxRdmInput() *)

\* USART_FLAG_IDLE
IdleFrame ==
  /\ rx' = IF rx \in {"Data", "Disc"} THEN "Idle" ELSE rx
  /\ slots' = IF rx = "Data" THEN [slots EXCEPT !.complete = TRUE] ELSE slots
  /\ rdm' = IF rx = "Disc" THEN [rdm EXCEPT !.complete = TRUE] ELSE rdm
  /\ UNCHANGED <<packets, intact, spoiled>>

\* USART_FLAG_FERR.  A break in a DMX packet is not seen.
FrameError ==
  /\ rx' = IF rx = "Idle" THEN "Break" ELSE rx
  /\ spoiled' = (spoiled \/ rx = "Data")
  /\ UNCHANGED <<slots, rdm, packets, intact>>

\* rdm.data[index] = kData
StoreRdm(i, b) == [rdm EXCEPT !.index = i + 1,
                              !.length = IF i = LengthAt THEN b ELSE @]

\* Mutant: the count goes on from the last packet.
ByteStart_CountsOn(b) ==
  /\ rx = "Break"
  /\ IF b = StartCode
     THEN /\ rx' = "Data" /\ intact' = 1 /\ spoiled' = FALSE
          /\ slots' = [n |-> IF slots.n > 0 THEN slots.n ELSE 1, complete |-> FALSE]
          /\ packets' = [packets EXCEPT !.counted = TRUE]
          /\ UNCHANGED rdm
     ELSE /\ rx' = "Idle" /\ UNCHANGED <<slots, rdm, packets, intact, spoiled>>

\* The byte after a break: the start code.
ByteStart(b) ==
  /\ rx = "Break"
  /\ \/ /\ b = StartCode
        /\ rx' = "Data" /\ slots' = [n |-> 1, complete |-> FALSE]
        /\ packets' = [packets EXCEPT !.counted = TRUE]
        /\ intact' = 1 /\ spoiled' = FALSE
        /\ UNCHANGED rdm
     \/ /\ b = ScRdm
        /\ rx' = "RdmData"
        /\ rdm' = [rdm EXCEPT !.index = 1, !.complete = FALSE]
        /\ UNCHANGED <<slots, packets, intact, spoiled>>
     \/ /\ b \notin {StartCode, ScRdm}
        /\ rx' = "Idle" /\ slots' = [n |-> 0, complete |-> FALSE]
        /\ rdm' = [rdm EXCEPT !.index = 0, !.complete = FALSE]
        /\ UNCHANGED <<packets, intact, spoiled>>

\* A slot of a DMX packet.  intact grows by the slot that comes next, and shrinks
\* to where a slot is written that belongs elsewhere.
ByteData ==
  /\ rx = "Data"
  /\ LET i == slots.n
         full == i + 1 > ChannelsMax
     IN  /\ slots' = [n |-> i + 1, complete |-> full]
         /\ rx' = IF full THEN "Idle" ELSE rx
         /\ intact' = IF i < intact THEN i
                      ELSE IF i = intact /\ line.place = i THEN i + 1 ELSE intact
  /\ UNCHANGED <<rdm, packets, spoiled>>

\* Mutant: a message that does not fit is stored no further but never given up.
ByteRdm_NeverGivesUp(b) ==
  /\ rx \in {"RdmData", "Checksumh", "Checksuml"}
  /\ LET stored == StoreRdm(rdm.index, b)
     IN  \/ /\ rx = "RdmData" /\ rdm.index < MessageSize
            /\ rdm' = stored
            /\ rx' = IF stored.index >= LengthMin /\ stored.index = stored.length
                     THEN "Checksumh" ELSE rx
         \/ /\ rx = "RdmData" /\ rdm.index >= MessageSize
            /\ UNCHANGED <<rx, rdm>>
         \/ /\ rx = "Checksumh" /\ rdm' = stored /\ rx' = "Checksuml"
         \/ /\ rx = "Checksuml" /\ rdm' = [rdm EXCEPT !.complete = TRUE] /\ rx' = "Idle"
  /\ UNCHANGED <<slots, packets, intact, spoiled>>

\* A byte of an RDM message.  What ends in a length nobody believes goes on to the
\* end of the buffer, and one byte past it.
ByteRdm(b) ==
  /\ rx \in {"RdmData", "Checksumh", "Checksuml"}
  /\ LET stored == StoreRdm(rdm.index, b)
         n == stored.index
         whole == n >= LengthMin /\ n <= MessageSize /\ n = stored.length
     IN  \/ /\ rx = "RdmData"
            /\ rdm' = stored
            /\ rx' = IF whole THEN "Checksumh" ELSE IF n > MessageSize THEN "Idle" ELSE rx
         \/ /\ rx = "Checksumh" /\ rdm' = stored /\ rx' = "Checksuml"
         \/ /\ rx = "Checksuml"
            /\ rdm' = [stored EXCEPT !.index = rdm.index, !.complete = TRUE]
            /\ rx' = "Idle"
  /\ UNCHANGED <<slots, packets, intact, spoiled>>

\* A byte without a break is the reply of an RDM device to a discovery request.
ByteDiscovery(b) ==
  /\ \/ /\ rx = "Idle" /\ rx' = "Disc"
        /\ rdm' = [rdm EXCEPT !.index = 1, !.complete = FALSE]
     \/ /\ rx = "Disc" /\ rx' = rx
        /\ rdm' = IF rdm.index < DiscoveryMax THEN StoreRdm(rdm.index, b) ELSE rdm
  /\ UNCHANGED <<slots, packets, intact, spoiled>>

IrqByte(b) == ByteStart(b) \/ ByteData \/ ByteRdm(b) \/ ByteDiscovery(b)

----------------------------------------------------------------------------
(* The line.  A sender of DMX512 keeps an idle frame before each break, sends at *)
(* least one slot and at most ChannelsMax; anything else counts as noise.        *)

Counts(odd) == noise' = noise + (IF odd THEN 1 ELSE 0) /\ noise' <= MaxNoise

LineIdle ==
  /\ line.phase = "Data" /\ line.place > 1
  /\ line' = [phase |-> "Quiet", place |-> 0]
  /\ UNCHANGED noise
  /\ IF listening THEN IdleFrame ELSE UNCHANGED receiver
  /\ UNCHANGED <<driver, torn>>

LineBreak ==
  /\ line.phase # "Break"
  /\ line' = [phase |-> "Break", place |-> 0]
  /\ Counts(line.phase = "Data")
  /\ IF listening THEN FrameError ELSE UNCHANGED receiver
  /\ UNCHANGED <<driver, torn>>

LineByte(b) ==
  /\ line.place <= MessageSize
  /\ line' = [phase |-> "Data", place |-> line.place + 1]
  /\ Counts(\/ line.phase = "Quiet"
            \/ line.phase = "Break" /\ b # StartCode
            \/ line.phase = "Data" /\ line.place = ChannelsMax + 1)
  /\ IF listening THEN IrqByte(b) ELSE UNCHANGED receiver
  /\ torn' = torn + (IF listening /\ rx = "Break" /\ b = StartCode /\ taking # None
                     THEN 1 ELSE 0)
  /\ torn' <= MaxTorn
  /\ UNCHANGED driver

Line == LineIdle \/ LineBreak \/ \E b \in Bytes : LineByte(b)

----------------------------------------------------------------------------
(* The calls of the driver *)

\* GetDmxAvailable(), to where it has read the count of a complete packet.
GetDmxAvailable_Read ==
  /\ slots.complete
  /\ taking' = slots.n
  /\ UNCHANGED <<receiver, listening, wire, torn>>

\* The rest of it: the count is written back without flag and start code.
GetDmxAvailable_Write ==
  /\ taking # None
  /\ slots' = [n |-> taking - 1, complete |-> FALSE]
  /\ taking' = None
  /\ spoiled' = (spoiled \/ rx = "Data")
  /\ UNCHANGED <<rx, rdm, packets, listening, wire, torn, intact>>

\* RdmReceive() of a message it has seen complete: index and flag are cleared, then
\* the buffer is read.
RdmReceive ==
  /\ rdm' = [rdm EXCEPT !.index = 0, !.complete = FALSE]
  /\ UNCHANGED <<rx, slots, packets, intact, spoiled, driver, wire, torn>>

\* DataDisable() and DataEnable() of an input port.
DataDisable ==
  /\ listening /\ listening' = FALSE
  /\ rx' = "Idle"
  /\ UNCHANGED <<slots, rdm, packets, intact, spoiled, taking>>

DataEnable ==
  /\ ~listening /\ listening' = TRUE
  /\ rx' = "Idle"
  /\ UNCHANGED <<slots, rdm, packets, intact, spoiled, taking>>

\* Mutant: the rate is that of all the time since the start.
Timer6_NeverResets ==
  /\ packets' = [packets EXCEPT !.rate = packets.counted]
  /\ UNCHANGED <<rx, slots, rdm, intact, spoiled, driver, wire, torn>>

\* TIMER6_IRQHandler(), every second.
Timer6 ==
  /\ packets' = [counted |-> FALSE, rate |-> packets.counted]
  /\ UNCHANGED <<rx, slots, rdm, intact, spoiled, driver, wire, torn>>

----------------------------------------------------------------------------
(* Properties *)

TypeOKRx ==
  /\ rx \in States
  /\ slots \in [n : 0 .. ChannelsMax + 1, complete : BOOLEAN]
  /\ rdm \in [index : 0 .. MessageSize + 1, complete : BOOLEAN, length : Bytes]
  /\ packets \in [counted : BOOLEAN, rate : BOOLEAN]
  /\ listening \in BOOLEAN /\ taking \in {None} \cup 1 .. ChannelsMax + 1
  /\ line \in [phase : {"Quiet", "Break", "Data"}, place : 0 .. MessageSize + 1]
  /\ noise \in 0 .. MaxNoise /\ torn \in 0 .. MaxTorn
  /\ intact \in 0 .. ChannelsMax + 1 /\ spoiled \in BOOLEAN

\* What a count says of the slots: a poll that is overtaken by a start code (once)
\* still writes back a count of one or more, and so none ever falls below zero.
Counted ==
  /\ rx = "Data" => ~slots.complete /\ slots.n >= 1
  /\ slots.complete => slots.n >= 1
  /\ taking # None /\ rx = "Data" => taking >= 2
  /\ torn = 0 => /\ rx = "Data" => slots.n >= line.place
                 /\ slots.complete => slots.n >= 2
                 /\ taking # None => taking >= 2 /\ rx # "Data"
  /\ line.phase = "Data" => line.place >= 1
  /\ ~listening => rx = "Idle"

\* Where a packet that is not spoiled stands: CompleteIsWhole, made inductive.
InStep ==
  /\ (rx = "Data" \/ slots.complete) /\ ~spoiled => intact = slots.n
  /\ rx = "Data" /\ ~spoiled => line.phase = "Data" /\ line.place = slots.n
  /\ rx = "Break" => line.place = 0

\* The interrupt stores no slot outside data[], and of an RDM message at most one
\* byte in the padding behind rdm.data[] (dmx.cpp:302, :305).
InBuffers ==
  /\ rx = "Data" => slots.n <= ChannelsMax
  /\ rx = "RdmData" => rdm.index <= MessageSize
  /\ rx = "Checksumh" => rdm.index <= MessageSize - 2
  /\ rx = "Checksuml" => rdm.index <= MessageSize - 1

\* A packet that is complete is one packet of the line: the start code and the
\* slots after it, each in its place, whatever noise and RDM came before and
\* whenever the superloop polled.  Excepted are a packet whose start code came
\* between a poll's read and its write (dmx.cpp:2070-2079), and one whose sender
\* left no gap before the next break (dmx.cpp:240).
CompleteIsWhole == slots.complete /\ ~spoiled => intact = slots.n
=============================================================================
