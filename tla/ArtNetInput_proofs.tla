------------------------- MODULE ArtNetInput_proofs -------------------------
(* Proofs about DmxRx and ArtNetInput, for packets and messages of any size. *)
EXTENDS ArtNetInput, TLAPS

\* The part of the invariant that is the receiver's.
RxInv == TypeOKRx /\ InBuffers /\ Counted /\ InStep

USE DEF None, StartCode, ScRdm

Slots == [n : 0 .. ChannelsMax + 1, complete : BOOLEAN]
RdmBuffer == [index : 0 .. MessageSize + 1, complete : BOOLEAN, length : Bytes]

\* The updates of the records have their types.
LEMMA Updates ==
  /\ \A s \in Slots, c \in BOOLEAN : [s EXCEPT !.complete = c] \in Slots
  /\ \A r \in RdmBuffer, c \in BOOLEAN : [r EXCEPT !.complete = c] \in RdmBuffer
  /\ \A r \in RdmBuffer, i \in 0 .. MessageSize + 1, c \in BOOLEAN :
       [r EXCEPT !.index = i, !.complete = c] \in RdmBuffer
  /\ \A r \in RdmBuffer, i \in 0 .. MessageSize + 1, c \in BOOLEAN :
       [r EXCEPT !.index = i, !.complete = c].index = i
  /\ \A r \in RdmBuffer, c \in BOOLEAN : [r EXCEPT !.complete = c].index = r.index
<1>1. \A s \in Slots, c \in BOOLEAN : [s EXCEPT !.complete = c] \in Slots
  BY DEF Slots
<1>2. \A r \in RdmBuffer, c \in BOOLEAN : [r EXCEPT !.complete = c] \in RdmBuffer
  BY DEF RdmBuffer
<1>3. \A r \in RdmBuffer, i \in 0 .. MessageSize + 1, c \in BOOLEAN :
        [r EXCEPT !.index = i, !.complete = c] \in RdmBuffer
  BY DEF RdmBuffer
<1>4. \A r \in RdmBuffer, i \in 0 .. MessageSize + 1, c \in BOOLEAN :
        [r EXCEPT !.index = i, !.complete = c].index = i
  BY DEF RdmBuffer
<1>5. \A r \in RdmBuffer, c \in BOOLEAN : [r EXCEPT !.complete = c].index = r.index
  BY DEF RdmBuffer
<1> QED BY <1>1, <1>2, <1>3, <1>4, <1>5

----------------------------------------------------------------------------
(* The interrupt.  Of the rest of the step each lemma is told where the byte stood. *)

\* What of RxInv an interrupt can disturb, apart from the line.
LEMMA IdleFrameOK ==
  ASSUME RxInv, IdleFrame, UNCHANGED <<driver, torn>>, noise' \in 0 .. MaxNoise,
         line' = [phase |-> "Quiet", place |-> 0],
         rx = "Data" /\ torn = 0 => slots.n >= 2
  PROVE  RxInv'
<1> USE SizeAssumption DEF IdleFrame, driver
<1>0. slots \in Slots /\ rdm \in RdmBuffer /\ rx \in States
  BY DEF RxInv, TypeOKRx, Slots, RdmBuffer
<1>1. TypeOKRx'
  <2>1. slots' \in Slots /\ rdm' \in RdmBuffer /\ rx' \in States
    BY <1>0, Updates DEF States
  <2> QED BY <2>1 DEF RxInv, TypeOKRx, Slots, RdmBuffer
<1>2. InBuffers'
  BY DEF RxInv, InBuffers, TypeOKRx
<1>3. Counted'
  BY DEF RxInv, Counted, TypeOKRx
<1>4. InStep'
  BY DEF RxInv, InStep, TypeOKRx
<1> QED BY <1>1, <1>2, <1>3, <1>4 DEF RxInv

LEMMA FrameErrorOK ==
  ASSUME RxInv, FrameError, listening, UNCHANGED <<driver, torn>>, noise' \in 0 .. MaxNoise,
         line' = [phase |-> "Break", place |-> 0]
  PROVE  RxInv'
<1> USE SizeAssumption DEF FrameError, driver
<1>1. TypeOKRx'
  BY DEF RxInv, TypeOKRx, States
<1>2. InBuffers'
  BY DEF RxInv, InBuffers, TypeOKRx
<1>3. Counted'
  BY DEF RxInv, Counted, TypeOKRx
<1>4. InStep'
  BY DEF RxInv, InStep, TypeOKRx
<1> QED BY <1>1, <1>2, <1>3, <1>4 DEF RxInv

\* The byte on the line, as LineByte(b) has it, and its count against MaxTorn.
ByteOnLine(b) ==
  /\ b \in Bytes /\ listening /\ line.place <= MessageSize
  /\ line' = [phase |-> "Data", place |-> line.place + 1]
  /\ noise' \in 0 .. MaxNoise /\ torn' \in 0 .. MaxTorn
  /\ torn' = torn + (IF rx = "Break" /\ b = StartCode /\ taking # None THEN 1 ELSE 0)
  /\ UNCHANGED driver

LEMMA ByteStartOK ==
  ASSUME RxInv, NEW b, ByteOnLine(b), ByteStart(b)
  PROVE  RxInv'
<1> USE SizeAssumption DEF ByteOnLine, driver
<1>0. rx = "Break" /\ line.place = 0 /\ line' = [phase |-> "Data", place |-> 1]
  BY DEF ByteStart, RxInv, InStep, TypeOKRx
<1>1. CASE b = StartCode
  <2>1. /\ rx' = "Data" /\ slots' = [n |-> 1, complete |-> FALSE]
        /\ packets' = [packets EXCEPT !.counted = TRUE]
        /\ intact' = 1 /\ spoiled' = FALSE /\ rdm' = rdm
    BY <1>1 DEF ByteStart
  <2>2. TypeOKRx'
    <3>1. packets' \in [counted : BOOLEAN, rate : BOOLEAN]
      BY <2>1 DEF RxInv, TypeOKRx
    <3>2. slots' \in Slots /\ intact' \in 0 .. ChannelsMax + 1
      BY <2>1 DEF Slots
    <3>3. line' \in [phase : {"Quiet", "Break", "Data"}, place : 0 .. MessageSize + 1]
      BY <1>0
    <3>4. rx' \in States /\ rdm' \in RdmBuffer /\ spoiled' \in BOOLEAN
      BY <2>1 DEF RxInv, TypeOKRx, States, RdmBuffer
    <3>5. listening' \in BOOLEAN /\ taking' \in {None} \cup 1 .. ChannelsMax + 1
      BY DEF RxInv, TypeOKRx
    <3> QED BY <3>1, <3>2, <3>3, <3>4, <3>5 DEF TypeOKRx, Slots, RdmBuffer
  <2>3. InBuffers'
    BY <1>0, <2>1 DEF InBuffers
  <2>4. Counted'
    BY <1>0, <1>1, <2>1, BoundAssumption DEF RxInv, Counted, TypeOKRx
  <2>5. InStep'
    BY <1>0, <2>1 DEF InStep
  <2> QED BY <2>2, <2>3, <2>4, <2>5 DEF RxInv
<1>2. CASE b # StartCode
  <2>1. /\ rx' \in {"RdmData", "Idle"} /\ UNCHANGED <<packets, intact, spoiled>>
        /\ slots' \in {slots, [n |-> 0, complete |-> FALSE]} /\ torn' = torn
    BY <1>2 DEF ByteStart, RxInv, TypeOKRx
  <2>2. rdm' = [rdm EXCEPT !.index = IF b = ScRdm THEN 1 ELSE 0, !.complete = FALSE]
    BY <1>2 DEF ByteStart
  <2>3. rdm' \in RdmBuffer /\ rdm'.index <= MessageSize
    <3>1. rdm \in RdmBuffer
      BY DEF RxInv, TypeOKRx, RdmBuffer
    <3>2. (IF b = ScRdm THEN 1 ELSE 0) \in 0 .. 1 /\ 1 <= MessageSize /\ MessageSize \in Nat
      OBVIOUS
    <3> DEFINE i == IF b = ScRdm THEN 1 ELSE 0
    <3>3. i \in 0 .. MessageSize + 1 /\ i <= MessageSize
      BY <3>2
    <3> HIDE DEF i
    <3>4. rdm' = [rdm EXCEPT !.index = i, !.complete = FALSE]
      BY <2>2 DEF i
    <3> QED BY <3>1, <3>3, <3>4, Updates
  <2>4. TypeOKRx'
    <3>1. slots' \in Slots
      <4>1. slots \in Slots
        BY DEF RxInv, TypeOKRx, Slots
      <4>2. [n |-> 0, complete |-> FALSE] \in Slots
        BY DEF Slots
      <4> QED BY <2>1, <4>1, <4>2
    <3> QED BY <1>0, <2>1, <2>3, <3>1 DEF RxInv, TypeOKRx, States, Slots, RdmBuffer
  <2>5. InBuffers'
    BY <2>1, <2>3 DEF InBuffers
  <2>6. Counted'
    BY <1>0, <2>1 DEF RxInv, Counted
  <2>7. InStep'
    BY <1>2, <2>1 DEF ByteStart, RxInv, InStep
  <2> QED BY <2>4, <2>5, <2>6, <2>7 DEF RxInv
<1> QED BY <1>1, <1>2

LEMMA ByteDataOK ==
  ASSUME RxInv, NEW b, ByteOnLine(b), ByteData
  PROVE  RxInv'
<1> USE SizeAssumption DEF ByteOnLine, ByteData, driver
<1>1. slots.n \in 1 .. ChannelsMax /\ torn' = torn
  BY DEF RxInv, Counted, InBuffers, TypeOKRx
<1>2. TypeOKRx'
  BY <1>1 DEF RxInv, TypeOKRx, States
<1>3. InBuffers'
  BY <1>1 DEF RxInv, InBuffers, TypeOKRx
<1>4. Counted'
  BY <1>1 DEF RxInv, Counted, TypeOKRx
<1>5. InStep'
  BY <1>1 DEF RxInv, InStep, TypeOKRx
<1> QED BY <1>2, <1>3, <1>4, <1>5 DEF RxInv

LEMMA StoreRdmType ==
  ASSUME RxInv, NEW b \in Bytes, NEW i \in 0 .. MessageSize
  PROVE  /\ StoreRdm(i, b) \in [index : 0 .. MessageSize + 1, complete : BOOLEAN, length : Bytes]
         /\ StoreRdm(i, b).index = i + 1
<1>1. rdm \in [index : 0 .. MessageSize + 1, complete : BOOLEAN, length : Bytes]
  BY DEF RxInv, TypeOKRx
<1>2. i + 1 \in 0 .. MessageSize + 1
  BY SizeAssumption
<1>3. (IF i = LengthAt THEN b ELSE rdm.length) \in Bytes
  BY <1>1
<1> QED BY <1>1, <1>2, <1>3 DEF StoreRdm

LEMMA ByteRdmOK ==
  ASSUME RxInv, NEW b, ByteOnLine(b), ByteRdm(b)
  PROVE  RxInv'
<1> DEFINE stored == StoreRdm(rdm.index, b)
           Record == [index : 0 .. MessageSize + 1, complete : BOOLEAN, length : Bytes]
<1>1. torn' = torn /\ UNCHANGED <<slots, packets, intact, spoiled>> /\ rx # "Data" /\ rx' # "Data"
  BY DEF ByteOnLine, ByteRdm, RxInv, TypeOKRx
<1>2. rdm \in Record /\ rdm.index \in 0 .. MessageSize
  BY SizeAssumption DEF ByteRdm, RxInv, TypeOKRx, InBuffers
<1>3. stored \in Record /\ stored.index = rdm.index + 1
  BY <1>2, StoreRdmType DEF ByteOnLine
<1>4. stored.length \in 0 .. MessageSize - 2
  BY <1>3, ByteAssumption
<1> HIDE DEF stored
<1>5. /\ rx' \in {"RdmData", "Checksumh", "Checksuml", "Idle"} /\ rdm' \in Record
      /\ rx' = "RdmData" => rdm'.index <= MessageSize
      /\ rx' = "Checksumh" => rdm'.index <= MessageSize - 2
      /\ rx' = "Checksuml" => rdm'.index <= MessageSize - 1
  <2>1. CASE rx = "RdmData"
    <3>1. /\ rdm' = stored
          /\ rx' = IF /\ stored.index >= LengthMin /\ stored.index <= MessageSize
                      /\ stored.index = stored.length
                   THEN "Checksumh" ELSE IF stored.index > MessageSize THEN "Idle" ELSE rx
      BY <2>1 DEF ByteRdm, stored
    <3>2. stored.index \in Nat /\ MessageSize \in Nat
      BY <1>2, <1>3, SizeAssumption
    <3> QED BY <1>3, <1>4, <2>1, <3>1, <3>2
  <2>2. CASE rx = "Checksumh"
    <3>1. rdm' = stored /\ rx' = "Checksuml"
      BY <2>2 DEF ByteRdm, stored
    <3>2. rdm.index <= MessageSize - 2
      BY <2>2 DEF RxInv, InBuffers
    <3> QED BY <1>2, <1>3, <3>1, <3>2, SizeAssumption
  <2>3. CASE rx = "Checksuml"
    <3>1. rdm' = [stored EXCEPT !.index = rdm.index, !.complete = TRUE] /\ rx' = "Idle"
      BY <2>3 DEF ByteRdm, stored
    <3> QED BY <1>2, <1>3, <3>1
  <2> QED BY <2>1, <2>2, <2>3 DEF ByteRdm
<1>6. TypeOKRx'
  BY <1>1, <1>5, SizeAssumption DEF ByteOnLine, driver, RxInv, TypeOKRx, States
<1>7. InBuffers'
  BY <1>1, <1>5 DEF InBuffers
<1>8. Counted'
  BY <1>1 DEF ByteOnLine, driver, RxInv, Counted, TypeOKRx
<1>9. InStep'
  BY <1>1, <1>5 DEF RxInv, InStep
<1> QED BY <1>6, <1>7, <1>8, <1>9 DEF RxInv

LEMMA ByteDiscoveryOK ==
  ASSUME RxInv, NEW b, ByteOnLine(b), ByteDiscovery(b)
  PROVE  RxInv'
<1> USE SizeAssumption DEF ByteOnLine, driver
<1>1. /\ torn' = torn /\ rx \in {"Idle", "Disc"} /\ rx' = "Disc"
      /\ UNCHANGED <<slots, packets, intact, spoiled>>
  BY DEF ByteDiscovery, RxInv, TypeOKRx
<1>2. rdm' \in [index : 0 .. MessageSize + 1, complete : BOOLEAN, length : Bytes]
  <2>1. CASE rx = "Idle"
    <3>1. rdm \in RdmBuffer /\ 1 \in 0 .. MessageSize + 1
      BY DEF RxInv, TypeOKRx, RdmBuffer
    <3>2. rdm' = [rdm EXCEPT !.index = 1, !.complete = FALSE]
      BY <2>1 DEF ByteDiscovery
    <3> QED BY <3>1, <3>2, Updates DEF RdmBuffer
  <2>2. CASE rx = "Disc" /\ rdm.index < DiscoveryMax
    <3>1. rdm' = StoreRdm(rdm.index, b) /\ rdm.index \in 0 .. MessageSize
      BY <2>2 DEF ByteDiscovery, RxInv, TypeOKRx
    <3> QED BY <3>1, StoreRdmType
  <2>3. CASE rx = "Disc" /\ ~(rdm.index < DiscoveryMax)
    BY <2>3 DEF ByteDiscovery, RxInv, TypeOKRx
  <2> QED BY <1>1, <2>1, <2>2, <2>3
<1>3. TypeOKRx'
  BY <1>1, <1>2 DEF RxInv, TypeOKRx, States
<1>4. InBuffers'
  BY <1>1 DEF RxInv, InBuffers
<1>5. Counted'
  BY <1>1 DEF RxInv, Counted, TypeOKRx
<1>6. InStep'
  BY <1>1 DEF RxInv, InStep
<1> QED BY <1>3, <1>4, <1>5, <1>6 DEF RxInv

\* While the interrupts are off the line goes by.
LEMMA DeafOK ==
  ASSUME RxInv, ~listening, UNCHANGED <<receiver, driver, torn>>, noise' \in 0 .. MaxNoise,
         line' \in [phase : {"Quiet", "Break", "Data"}, place : 0 .. MessageSize + 1],
         line'.phase = "Data" => line'.place >= 1
  PROVE  RxInv'
<1> USE DEF receiver, driver
<1>1. rx = "Idle"
  BY DEF RxInv, Counted
<1>2. TypeOKRx'
  BY DEF RxInv, TypeOKRx
<1>3. InBuffers'
  BY <1>1 DEF RxInv, InBuffers
<1>4. Counted'
  BY <1>1 DEF RxInv, Counted
<1>5. InStep'
  BY <1>1 DEF RxInv, InStep
<1> QED BY <1>2, <1>3, <1>4, <1>5 DEF RxInv

----------------------------------------------------------------------------
(* The line *)

LEMMA LineIdleOK ==
  ASSUME RxInv, LineIdle
  PROVE  RxInv'
<1> USE DEF LineIdle, wire
<1>1. CASE listening
  <2>1. rx = "Data" /\ torn = 0 => slots.n >= 2
    BY DEF RxInv, Counted, TypeOKRx
  <2>2. noise' \in 0 .. MaxNoise
    BY DEF RxInv, TypeOKRx
  <2> QED BY <1>1, <2>1, <2>2, IdleFrameOK
<1>2. CASE ~listening
  <2>1. noise' \in 0 .. MaxNoise /\ line' \in [phase : {"Quiet"}, place : {0}]
    BY DEF RxInv, TypeOKRx
  <2>2. /\ line' \in [phase : {"Quiet", "Break", "Data"}, place : 0 .. MessageSize + 1]
        /\ line'.phase # "Data"
    BY <2>1, SizeAssumption
  <2> QED BY <1>2, <2>1, <2>2, DeafOK
<1> QED BY <1>1, <1>2

LEMMA LineBreakOK ==
  ASSUME RxInv, LineBreak
  PROVE  RxInv'
<1> USE DEF LineBreak
<1>1. noise' \in 0 .. MaxNoise
  BY BoundAssumption DEF RxInv, TypeOKRx, Counts
<1>2. CASE listening
  BY <1>1, <1>2, FrameErrorOK
<1>3. CASE ~listening
  <2>1. /\ line' \in [phase : {"Quiet", "Break", "Data"}, place : 0 .. MessageSize + 1]
        /\ line'.phase # "Data"
    BY SizeAssumption
  <2> QED BY <1>1, <1>3, <2>1, DeafOK
<1> QED BY <1>2, <1>3

LEMMA LineByteOK ==
  ASSUME RxInv, NEW b \in Bytes, LineByte(b)
  PROVE  RxInv'
<1> USE DEF LineByte
<1>1. noise' \in 0 .. MaxNoise
  BY BoundAssumption DEF RxInv, TypeOKRx, Counts
<1>2. CASE listening
  <2>1. torn' \in 0 .. MaxTorn
    BY BoundAssumption DEF RxInv, TypeOKRx
  <2>2. ByteOnLine(b)
    BY <1>1, <1>2, <2>1 DEF ByteOnLine
  <2> QED BY <1>2, <2>2, ByteStartOK, ByteDataOK, ByteRdmOK, ByteDiscoveryOK DEF IrqByte
<1>3. CASE ~listening
  <2>1. torn' = torn
    BY <1>3 DEF RxInv, TypeOKRx
  <2>2. /\ line' \in [phase : {"Quiet", "Break", "Data"}, place : 0 .. MessageSize + 1]
        /\ line'.place >= 1
    BY SizeAssumption DEF RxInv, TypeOKRx
  <2> QED BY <1>1, <1>3, <2>1, <2>2, DeafOK
<1> QED BY <1>2, <1>3

LEMMA CableOK ==
  ASSUME RxInv, Cable
  PROVE  RxInv'
<1> USE DEF Cable
<1>1. noise' \in 0 .. MaxNoise
  BY BoundAssumption DEF RxInv, TypeOKRx, Counts
<1>2. CASE plugged /\ listening /\ line.phase = "Data"
  <2>1. line.place >= 2
    BY <1>2 DEF RxInv, Counted, TypeOKRx
  <2>2. rx = "Data" /\ torn = 0 => slots.n >= 2
    BY <2>1 DEF RxInv, Counted, TypeOKRx
  <2> QED BY <1>1, <1>2, <2>2, IdleFrameOK
<1>3. CASE plugged /\ ~(listening /\ line.phase = "Data")
  <2>1. line' = [phase |-> "Quiet", place |-> 0] /\ UNCHANGED <<receiver, driver, torn>>
    BY <1>3
  <2> USE DEF receiver, driver
  <2>2. TypeOKRx'
    BY <1>1, <2>1, SizeAssumption DEF RxInv, TypeOKRx
  <2>3. InBuffers'
    BY <2>1 DEF RxInv, InBuffers
  <2>4. Counted'
    BY <2>1 DEF RxInv, Counted, TypeOKRx
  <2>5. InStep'
    BY <1>3, <2>1 DEF RxInv, InStep, Counted
  <2> QED BY <2>2, <2>3, <2>4, <2>5 DEF RxInv
<1>4. CASE ~plugged
  BY <1>1, <1>4 DEF RxInv, TypeOKRx, InBuffers, Counted, InStep, receiver, driver
<1> QED BY <1>2, <1>3, <1>4

----------------------------------------------------------------------------
(* The driver's calls *)

LEMMA ReadOK ==
  ASSUME RxInv, GetDmxAvailable_Read
  PROVE  RxInv'
<1> USE DEF GetDmxAvailable_Read, receiver, wire
<1>1. TypeOKRx'
  BY SizeAssumption DEF RxInv, TypeOKRx, Counted
<1>2. InBuffers' /\ InStep'
  BY DEF RxInv, InBuffers, InStep
<1>3. Counted'
  BY DEF RxInv, Counted, TypeOKRx
<1> QED BY <1>1, <1>2, <1>3 DEF RxInv

LEMMA WriteOK ==
  ASSUME RxInv, GetDmxAvailable_Write
  PROVE  RxInv'
<1> USE SizeAssumption
<1>1. /\ taking \in 1 .. ChannelsMax + 1
      /\ rx = "Data" => taking >= 2
      /\ torn = 0 => taking >= 2 /\ rx # "Data"
  BY DEF GetDmxAvailable_Write, RxInv, TypeOKRx, Counted
<1>2. /\ slots' = [n |-> taking - 1, complete |-> FALSE] /\ taking' = None
      /\ spoiled' = (spoiled \/ rx = "Data")
      /\ UNCHANGED <<rx, rdm, packets, listening, line, noise, torn, intact>>
  BY DEF GetDmxAvailable_Write, wire
<1>3. slots'.n = taking - 1 /\ ~slots'.complete /\ slots' \in Slots
  <2>1. taking - 1 \in 0 .. ChannelsMax + 1
    BY <1>1
  <2>2. [n |-> taking - 1, complete |-> FALSE] \in Slots
    BY <2>1 DEF Slots
  <2>3. slots'.n = taking - 1
    BY <1>2
  <2>4. ~slots'.complete
    BY <1>2
  <2> QED BY <1>2, <2>2, <2>3, <2>4
<1>4. TypeOKRx'
  BY <1>2, <1>3 DEF RxInv, TypeOKRx, Slots
<1>5. InBuffers'
  BY <1>1, <1>2, <1>3 DEF RxInv, InBuffers
<1>6. Counted'
  BY <1>1, <1>2, <1>3 DEF RxInv, Counted
<1>7. InStep'
  BY <1>2, <1>3 DEF RxInv, InStep
<1> QED BY <1>4, <1>5, <1>6, <1>7 DEF RxInv

LEMMA RdmReceiveOK ==
  ASSUME RxInv, RdmReceive
  PROVE  RxInv'
<1> USE SizeAssumption DEF driver, wire
<1>1. rdm' \in RdmBuffer /\ rdm'.index = 0
  <2>1. rdm \in RdmBuffer /\ 0 \in 0 .. MessageSize + 1
    BY DEF RxInv, TypeOKRx, RdmBuffer
  <2> QED BY <2>1, Updates DEF RdmReceive
<1>2. TypeOKRx'
  BY <1>1 DEF RdmReceive, RxInv, TypeOKRx, RdmBuffer
<1>3. InBuffers'
  BY <1>1 DEF RdmReceive, RxInv, InBuffers
<1>4. Counted' /\ InStep'
  BY DEF RdmReceive, RxInv, Counted, InStep
<1> QED BY <1>2, <1>3, <1>4 DEF RxInv

LEMMA PortDirectionOK ==
  ASSUME RxInv, SetPortDirection
  PROVE  RxInv'
<1>1. noise' \in 0 .. MaxNoise
  BY BoundAssumption DEF SetPortDirection, RxInv, TypeOKRx, Counts
<1>2. /\ rx' = "Idle" /\ listening' \in BOOLEAN
      /\ UNCHANGED <<slots, rdm, packets, intact, spoiled, taking, line, torn>>
  BY DEF SetPortDirection, DataDisable, DataEnable
<1>3. TypeOKRx'
  BY <1>1, <1>2 DEF RxInv, TypeOKRx, States
<1>4. InBuffers' /\ Counted' /\ InStep'
  BY <1>2 DEF RxInv, InBuffers, Counted, InStep
<1> QED BY <1>3, <1>4 DEF RxInv

----------------------------------------------------------------------------
(* The invariant *)

Inv == TypeOK /\ RxInv

LEMMA Initially == Init => Inv
<1> SUFFICES ASSUME Init PROVE Inv
  OBVIOUS
<1> USE SizeAssumption, ByteAssumption, BoundAssumption DEF Init, InitRx
<1>1. slots \in Slots /\ rdm \in RdmBuffer /\ packets \in [counted : BOOLEAN, rate : BOOLEAN]
  BY DEF Slots, RdmBuffer
<1>2. TypeOKRx
  <2>1. line \in [phase : {"Quiet", "Break", "Data"}, place : 0 .. MessageSize + 1]
    OBVIOUS
  <2>2. rx \in States /\ listening \in BOOLEAN /\ spoiled \in BOOLEAN
    BY DEF States
  <2>3. noise \in 0 .. MaxNoise /\ torn \in 0 .. MaxTorn /\ intact \in 0 .. ChannelsMax + 1
    OBVIOUS
  <2>4. taking \in {None} \cup 1 .. ChannelsMax + 1
    OBVIOUS
  <2> QED BY <1>1, <2>1, <2>2, <2>3, <2>4 DEF TypeOKRx, Slots, RdmBuffer
<1>3. InBuffers /\ Counted /\ InStep
  BY DEF InBuffers, Counted, InStep
<1>4. good \in [received : BOOLEAN, disabled : BOOLEAN]
  OBVIOUS
<1>5. at = "Take" <=> taking # None
  <2>1. at # "Take" /\ taking = None
    OBVIOUS
  <2> QED BY <2>1
<1>6. previous \in 0 .. 2 * ChannelsMax + 3 /\ sent \in {None} \cup 0 .. 2 * ChannelsMax + 4
  OBVIOUS
<1>7. told \in BOOLEAN /\ plugged \in BOOLEAN
  OBVIOUS
<1>8. at = "Loop"
  OBVIOUS
<1> QED BY <1>2, <1>3, <1>4, <1>5, <1>6, <1>7, <1>8 DEF Inv, TypeOK, RxInv

\* What Inv says besides RxInv.
NodeOK == 
  /\ at \in {"Loop", "Take", "Compare", "Send", "Rate", "Repeat", "Rdm", "RdmReceive"}
  /\ at = "Take" <=> taking # None
  /\ previous \in 0 .. 2 * ChannelsMax + 3
  /\ good \in [received : BOOLEAN, disabled : BOOLEAN] /\ told \in BOOLEAN
  /\ sent \in {None} \cup 0 .. 2 * ChannelsMax + 4 /\ plugged \in BOOLEAN

LEMMA Split == /\ Inv => RxInv /\ NodeOK
               /\ (RxInv' /\ NodeOK') => Inv'
BY DEF Inv, TypeOK, NodeOK, RxInv

LEMMA LengthType ==
  ASSUME RxInv
  PROVE  /\ Length \in 0 .. 2 * ChannelsMax + 4
         /\ SlotsInPacket \in 0 .. 2 * ChannelsMax + 3
<1>1. SlotsInPacket \in 0 .. 2 * ChannelsMax + 3
  BY SizeAssumption DEF RxInv, TypeOKRx, SlotsInPacket
<1>2. SlotsInPacket % 2 \in 0 .. 1
  BY <1>1, SizeAssumption
<1>3. \A n \in 0 .. 2 * ChannelsMax + 3, r \in 0 .. 1 : n + r \in 0 .. 2 * ChannelsMax + 4
  BY SizeAssumption
<1> QED BY <1>1, <1>2, <1>3 DEF Length

LEMMA Unchanged ==
  ASSUME RxInv, UNCHANGED rxvars
  PROVE  RxInv' /\ taking' = taking
BY DEF RxInv, TypeOKRx, InBuffers, Counted, InStep, rxvars, receiver, driver, wire

\* No step but the two of GetDmxAvailable() writes taking.
LEMMA RunOK ==
  ASSUME Inv, Run
  PROVE  Inv'
<1>0. RxInv /\ NodeOK
  BY Split
<1>1. CASE Poll
  <2>1. CASE GetDmxAvailable_Read /\ at' = "Take"
    <3>1. taking' # None
      BY <1>0, <2>1 DEF GetDmxAvailable_Read, RxInv, TypeOKRx
    <3>2. NodeOK'
      BY <1>0, <1>1, <2>1, <3>1 DEF Poll, NodeOK, node
    <3> QED BY <1>0, <2>1, <3>2, ReadOK, Split
  <2>2. CASE ~slots.complete /\ at' = "Rate" /\ UNCHANGED rxvars
    <3>1. RxInv' /\ taking' = taking
      BY <1>0, <2>2, Unchanged
    <3>2. NodeOK'
      BY <1>0, <1>1, <2>2, <3>1 DEF Poll, NodeOK, node
    <3> QED BY <3>1, <3>2, Split
  <2> QED BY <1>1, <2>1, <2>2 DEF Poll
<1>2. CASE Take
  <2>1. RxInv'
    BY <1>0, <1>2, WriteOK DEF Take
  <2>2. NodeOK'
    BY <1>0, <1>2 DEF Take, GetDmxAvailable_Write, NodeOK, node
  <2> QED BY <2>1, <2>2, Split
<1>3. CASE RdmIn
  <2>1. RxInv'
    BY <1>0, <1>3, RdmReceiveOK DEF RdmIn
  <2>2. NodeOK'
    BY <1>0, <1>3 DEF RdmIn, RdmReceive, driver, NodeOK, node
  <2> QED BY <2>1, <2>2, Split
<1>4. CASE Compare \/ Send \/ Rate \/ Repeat \/ HandleRdmIn
  <2>1. RxInv' /\ taking' = taking
    BY <1>0, <1>4, Unchanged DEF Compare, Send, Rate, Repeat, HandleRdmIn
  <2>2. /\ SlotsInPacket \in 0 .. 2 * ChannelsMax + 3
        /\ Length \in 0 .. 2 * ChannelsMax + 4
    BY <1>0, LengthType
  <2>3. NodeOK'
    <3>1. CASE Compare
      BY <1>0, <2>1, <2>2, <3>1 DEF Compare, NodeOK
    <3>2. CASE Send
      BY <1>0, <2>1, <2>2, <3>2 DEF Send, NodeOK
    <3>3. CASE Rate
      BY <1>0, <2>1, <3>3 DEF Rate, NodeOK
    <3>4. CASE Repeat
      BY <1>0, <2>1, <2>2, <3>4 DEF Repeat, NodeOK
    <3>5. CASE HandleRdmIn
      BY <1>0, <2>1, <3>5 DEF HandleRdmIn, NodeOK
    <3> QED BY <1>4, <3>1, <3>2, <3>3, <3>4, <3>5
  <2> QED BY <2>1, <2>3, Split
<1> QED BY <1>1, <1>2, <1>3, <1>4 DEF Run

LEMMA WorldOK ==
  ASSUME Inv, HandleInput \/ SetPortDirection \/ Cable \/ Sender \/ Second
  PROVE  Inv'
<1>0. RxInv /\ NodeOK
  BY Split
<1>1. CASE HandleInput
  <2>1. noise' \in 0 .. MaxNoise
    BY <1>0, <1>1, BoundAssumption DEF HandleInput, RxInv, TypeOKRx, Counts
  <2>2. RxInv'
    BY <1>0, <1>1, <2>1
       DEF HandleInput, receiver, driver, RxInv, TypeOKRx, InBuffers, Counted, InStep
  <2>3. NodeOK'
    BY <1>0, <1>1 DEF HandleInput, driver, NodeOK
  <2> QED BY <2>2, <2>3, Split
<1>2. CASE SetPortDirection
  <2>1. NodeOK'
    BY <1>0, <1>2 DEF SetPortDirection, DataDisable, DataEnable, NodeOK, node
  <2> QED BY <1>0, <1>2, <2>1, PortDirectionOK, Split
<1>3. CASE Cable
  <2>1. NodeOK'
    BY <1>0, <1>3 DEF Cable, driver, NodeOK, node
  <2> QED BY <1>0, <1>3, <2>1, CableOK, Split
<1>4. CASE Sender
  <2>1. RxInv'
    BY <1>0, <1>4, LineIdleOK, LineBreakOK, LineByteOK DEF Sender, Line
  <2>2. UNCHANGED <<at, node, plugged, taking>>
    BY <1>4 DEF Sender, Line, LineIdle, LineBreak, LineByte, driver
  <2>3. NodeOK'
    BY <1>0, <2>2 DEF NodeOK, node
  <2> QED BY <2>1, <2>3, Split
<1>5. CASE Second
  <2>1. RxInv'
    BY <1>0, <1>5
       DEF Second, Timer6, driver, wire, RxInv, TypeOKRx, InBuffers, Counted, InStep
  <2>2. NodeOK'
    BY <1>0, <1>5 DEF Second, Timer6, driver, NodeOK, node
  <2> QED BY <2>1, <2>2, Split
<1> QED BY <1>1, <1>2, <1>3, <1>4, <1>5

\* The invariant of the receiver and of the node that polls it, whatever the sizes
\* of packets, messages and buffers.
THEOREM Invariance == Spec => []Inv
<1>1. Inv /\ [Next]_vars => Inv'
  <2> SUFFICES ASSUME Inv, [Next]_vars PROVE Inv'
    OBVIOUS
  <2>1. CASE UNCHANGED vars
    <3>1. RxInv' /\ taking' = taking
      BY <2>1, Split, Unchanged DEF vars
    <3>2. NodeOK'
      BY <2>1, <3>1, Split DEF vars, node, NodeOK
    <3> QED BY <3>1, <3>2, Split
  <2> QED BY <2>1, RunOK, WorldOK DEF Next
<1> QED BY <1>1, Initially, PTL DEF Spec

\* Types: no count falls below zero, none exceeds a buffer.
THEOREM TypeCorrect == Spec => []TypeOK
<1>1. Inv => TypeOK
  BY DEF Inv
<1> QED BY <1>1, Invariance, PTL

\* The interrupt writes inside its buffers (dmx.cpp:291-334).
THEOREM InBuffersHolds == Spec => []InBuffers
<1>1. Inv => InBuffers
  BY DEF Inv, RxInv
<1> QED BY <1>1, Invariance, PTL

\* A complete packet is one packet of the line (dmx.cpp:250-299, :2067-2085).
THEOREM CompleteIsWholeHolds == Spec => []CompleteIsWhole
<1>1. Inv => CompleteIsWhole
  BY DEF Inv, RxInv, InStep, CompleteIsWhole
<1> QED BY <1>1, Invariance, PTL
=============================================================================
