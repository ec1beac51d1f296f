----------------------------- MODULE DmxTx_proofs -----------------------------
(* Proofs about DmxTx, for any ports and packets.                              *)
EXTENDS DmxTx, FiniteSetTheorems, SequenceTheorems, TLAPS

----------------------------------------------------------------------------
(* The inductive invariants *)

\* The steps of a hand-over.
Begins == {"BeginDirect", "BeginSync"}
Copies == Begins \cup {"Direct", "Sync"}

\* The steps a program is made of, with the argument each of them takes.
Step ==
  [do : Steps \ ({"DirectionEnable", "DirectionDisable", "SetOutputStyle"} \cup Copies),
   port : Ports, with : {"None"}]
  \cup [do : {"DirectionEnable", "DirectionDisable"}, port : Ports, with : {"Input", "Output"}]
  \cup [do : {"SetOutputStyle"}, port : Ports, with : Styles]
  \cup [do : Copies, port : Ports, with : Packets]

TypeInv ==
  /\ TypeOK
  /\ todo \in Seq(Step)
  /\ \A p \in Ports : port[p].style \in Styles

\* The write buffer holds a packet that is due, unless it is being filled.
DueInv ==
  \A p \in Ports : ~Copying(p) => port[p].buffer[port[p].write] \in expected[p]

\* What the transmitter does when the timer or the DMA interrupts.
LineInv ==
  \A p \in Ports :
    /\ port[p].tc => port[p].line = "Quiet"
    /\ port[p].line = "Dmx" => port[p].tx \in {"Idle", "Mab"}
    /\ port[p].line = "Dmx" /\ port[p].tx = "Mab" => ~port[p].timer

\* The superloop waits for the end of the packet on p.
Waiting(p) == Now("Drain", p) \/ Now("DrainComplete", p)

\* A port has work of one kind at a time, unless its cycle has got astray.
Kind(p) ==
  /\ port[p].tx # "Idle" /\ port[p].rdm # "Idle" => port[p].stray
  /\ port[p].line = "Dmx" /\ port[p].rdm # "Idle" => port[p].tx # "Idle"
  /\ port[p].line = "Rdm" => port[p].tx = "Idle" /\ port[p].rdm = "Mab"
  /\ port[p].state = "Tx" => port[p].rdm = "Idle" /\ port[p].direction = "Output"

\* A port that transmits packets is enabled, or waited for, or astray.
Enabled(p) ==
  port[p].state # "Tx" /\ port[p].tx # "Idle" => port[p].stray \/ Waiting(p)

KindInv == \A p \in Ports : Kind(p) /\ Enabled(p)

\* What a step still to be done knows of its port.
\* A packet is handed over at once.
HandInv == \A i \in DOMAIN todo : todo[i].do \in Begins => i = 1

\* A port is enabled when no RDM message is under way.
EnableInv ==
  \A i \in DOMAIN todo :
    todo[i].do \in {"DirectionEnable", "DataEnable", "BlackoutPort"}
      => port[todo[i].port].rdm = "Idle"

\* A port becomes an input when it does not transmit DMX.
InputInv ==
  \A i \in DOMAIN todo :
    todo[i].do \in {"DirectionEnable", "DirectionDisable"} /\ todo[i].with = "Input"
      => /\ port[todo[i].port].state # "Tx"
         /\ \A j \in 1 .. i - 1 :
              todo[j].do \in {"DirectionDisable", "DataDisable", "Drain", "DrainComplete",
                              "WriteResponse"}

\* An RDM message is started last, after the port was disabled.
RdmInv ==
  \A i \in DOMAIN todo :
    todo[i].do = "StartRdmOutput" =>
      LET p == todo[i].port
      IN  /\ i = Len(todo) /\ i <= 3 /\ port[p].rdm = "Idle"
          /\ i = 1 => port[p].state # "Tx"
          /\ i = 2 => /\ todo[1].port = p
                      /\ \/ todo[1].do = "DirectionDisable" /\ todo[1].with = "Output"
                         \/ todo[1].do = "DataDisable" /\ port[p].direction = "Output"
                         \/ todo[1].do = "Drain" /\ port[p].state # "Tx"
          /\ i = 3 => /\ todo[1].do = "DrainComplete" /\ todo[1].port = p
                      /\ todo[2].do = "Drain" /\ todo[2].port = p
                      /\ port[p].state # "Tx"

WorkInv == KindInv /\ HandInv /\ EnableInv /\ InputInv /\ RdmInv

----------------------------------------------------------------------------
(* Sequences *)

LEMMA SetToSeqType ==
  ASSUME NEW S, IsFiniteSet(S)
  PROVE  SetToSeq(S) \in Seq(S)
<1>1. Cardinality(S) \in Nat /\ ExistsBijection(1 .. Cardinality(S), S)
  BY FS_CardinalityType
<1>2. \E f \in [1 .. Cardinality(S) -> S] : IsInjective(f)
  BY <1>1 DEF ExistsBijection, Bijection, Injection
<1>3. SetToSeq(S) \in [1 .. Cardinality(S) -> S]
  BY <1>2 DEF SetToSeq
<1> QED BY <1>1, <1>3, SeqDef

\* What is left of the program when its first step is replaced.
LEMMA ThenShape ==
  ASSUME NEW steps \in Seq(Step), todo \in Seq(Step), todo # <<>>, Then(steps)
  PROVE  /\ todo' \in Seq(Step)
         /\ Len(todo') = Len(steps) + Len(todo) - 1
         /\ \A i \in 1 .. Len(steps) : todo'[i] = steps[i]
         /\ \A i \in Len(steps) + 1 .. Len(todo') :
              /\ i - Len(steps) + 1 \in 2 .. Len(todo)
              /\ todo'[i] = todo[i - Len(steps) + 1]
<1>1. /\ Tail(todo) \in Seq(Step) /\ Len(Tail(todo)) = Len(todo) - 1
      /\ \A i \in 1 .. Len(Tail(todo)) : Tail(todo)[i] = todo[i + 1]
      /\ Len(todo) \in Nat /\ Len(steps) \in Nat
  BY HeadTailProperties, LenProperties
<1> DEFINE t == Tail(todo)
<1>2. todo' = steps \o t /\ t \in Seq(Step) /\ Len(t) = Len(todo) - 1
      /\ \A i \in 1 .. Len(t) : t[i] = todo[i + 1]
  BY <1>1 DEF Then
<1> HIDE DEF t
<1>3. /\ steps \o t \in Seq(Step) /\ Len(steps \o t) = Len(steps) + Len(t)
      /\ \A i \in 1 .. Len(steps) + Len(t) :
           (steps \o t)[i] = IF i <= Len(steps) THEN steps[i] ELSE t[i - Len(steps)]
  BY <1>2, ConcatProperties
<1> QED BY <1>1, <1>2, <1>3

----------------------------------------------------------------------------
(* Types *)

Plain == Steps \ ({"DirectionEnable", "DirectionDisable", "SetOutputStyle"} \cup Copies)

LEMMA StepTypes ==
  /\ \A what \in Plain, p \in Ports : Do(what, p) \in Step
  /\ \A p \in Ports, d \in {"Input", "Output"}, e \in BOOLEAN :
       SetPortDirection(p, d, e) \in Step
  /\ \A p \in Ports, s \in Styles : DoWith("SetOutputStyle", p, s) \in Step
  /\ \A p \in Ports, x \in Packets, s \in Copies : DoWith(s, p, x) \in Step
<1>1. \A what \in Plain, p \in Ports : Do(what, p) \in Step
  BY DEF Plain, Step, Do, Copies, Begins
<1>2. \A p \in Ports, d \in {"Input", "Output"}, e \in BOOLEAN :
       SetPortDirection(p, d, e) \in Step
  BY DEF SetPortDirection, Step, DoWith, Copies, Begins
<1>3. \A p \in Ports, s \in Styles : DoWith("SetOutputStyle", p, s) \in Step
  BY DEF Step, DoWith, Copies, Begins
<1>4. \A p \in Ports, x \in Packets, s \in Copies : DoWith(s, p, x) \in Step
  BY DEF Step, DoWith, Copies, Begins
<1> QED BY <1>1, <1>2, <1>3, <1>4

LEMMA StepFacts ==
  ASSUME NEW s \in Step
  PROVE  /\ s.do \in Steps /\ s.port \in Ports
         /\ s.do \in {"DirectionEnable", "DirectionDisable"} => s.with \in {"Input", "Output"}
         /\ s.do = "SetOutputStyle" => s.with \in Styles
         /\ s.do \in Copies => s.with \in Packets
BY DEF Step, Steps, Copies, Begins

LEMMA ProgramType ==
  ASSUME NEW s \in Seq(Step)
  PROVE  /\ \A i \in DOMAIN s : s[i].do \in Steps /\ s[i].port \in Ports
         /\ s # <<>> => Head(s) \in Step
<1>1. \A i \in DOMAIN s : s[i] \in Step
  BY LenProperties
<1> QED BY <1>1, StepFacts, HeadTailProperties

\* Programs of up to three steps.
LEMMA ShortPrograms ==
  /\ <<>> \in Seq(Step)
  /\ \A a \in Step : <<a>> \in Seq(Step)
  /\ \A a \in Step, b \in Step : <<a, b>> \in Seq(Step)
  /\ \A a \in Step, b \in Step, c \in Step : <<a, b, c>> \in Seq(Step)
OBVIOUS

\* The program of a call that goes through all ports.
LEMMA EachPort ==
  ASSUME NEW what \in Plain
  PROVE  [i \in 1 .. Len(PortOrder) |-> Do(what, PortOrder[i])] \in Seq(Step)
<1>1. PortOrder \in Seq(Ports)
  BY SetToSeqType, PortAssumption DEF PortOrder
<1>2. Len(PortOrder) \in Nat /\ \A i \in 1 .. Len(PortOrder) : PortOrder[i] \in Ports
  BY <1>1, LenProperties
<1>3. \A i \in 1 .. Len(PortOrder) : Do(what, PortOrder[i]) \in Step
  BY <1>2, StepTypes
<1>4. [i \in 1 .. Len(PortOrder) |-> Do(what, PortOrder[i])] \in [1 .. Len(PortOrder) -> Step]
  BY <1>3
<1> QED BY <1>2, <1>4, SeqDef

\* Types, apart from what follows from the type of the program.
Typed ==
  /\ port \in [Ports -> PortRecord]
  /\ \A p \in Ports : port[p].style \in Styles
  /\ continuous \in BOOLEAN
  /\ started \in [Ports -> BOOLEAN]
  /\ todo \in Seq(Step)
  /\ expected \in [Ports -> SUBSET (Packets \cup {Dark})]
  /\ wire \in [Ports -> Packets \cup {Dark, Partial}]

LEMMA TypedIsTypeInv == TypeInv <=> Typed
BY ProgramType DEF TypeInv, Typed, TypeOK

\* The record of one port is replaced.
LEMMA PortUpdate ==
  ASSUME Typed, NEW p \in Ports, NEW r \in PortRecord, r.style \in Styles,
         port' = [port EXCEPT ![p] = r]
  PROVE  port' \in [Ports -> PortRecord] /\ \A q \in Ports : port'[q].style \in Styles
BY DEF Typed

LEMMA PortType == ASSUME Typed, NEW p \in Ports
                  PROVE  port[p] \in PortRecord /\ port[p].style \in Styles
BY DEF Typed

LEMMA TypeCalls ==
  ASSUME Typed, Calls
  PROVE  Typed'
<1> USE StyleAssumption, PortAssumption
<1>1. ASSUME NEW p \in Ports, Start(p) \/ Stop(p) PROVE Typed'
  BY <1>1, StepTypes, ShortPrograms DEF Start, Stop, Call, Typed
<1>2. ASSUME NEW p \in InputPorts, StartInput(p) \/ StopInput(p) PROVE Typed'
  BY <1>2, StepTypes, ShortPrograms DEF StartInput, StopInput, Call, Only, Typed
<1>3. ASSUME NEW p \in Ports, NEW x \in Packets, NEW s \in Begins, SetSendData(p, x, s)
      PROVE  Typed'
  <2>1. todo' \in Seq(Step)
    BY <1>3, StepTypes, ShortPrograms DEF SetSendData, Call, Copies
  <2> DEFINE w == IF port[p].read = port[p].write THEN 1 - port[p].write ELSE port[p].write
             r == [port[p] EXCEPT !.write = w, !.raced = FALSE]
  <2>0. w \in {0, 1} /\ port[p] \in PortRecord /\ port[p].style \in Styles
    BY PortType DEF PortRecord
  <2>3. port' = [port EXCEPT ![p] = r]
    BY <1>3 DEF SetSendData
  <2> HIDE DEF w
  <2>2. r \in PortRecord /\ r.style \in Styles
    BY <2>0 DEF PortRecord
  <2>4. port' \in [Ports -> PortRecord] /\ \A q \in Ports : port'[q].style \in Styles
    BY <2>2, <2>3, PortUpdate
  <2> QED BY <1>3, <2>1, <2>4 DEF SetSendData, Only, Typed
<1>4. CASE Sync
  BY <1>4, EachPort DEF Sync, Call, Only, Typed, Plain, Steps, Copies, Begins
<1>5. ASSUME NEW p \in Ports, NEW s \in Styles, ChangeStyle(p, s) PROVE Typed'
  BY <1>5, StepTypes, ShortPrograms DEF ChangeStyle, Call, Only, Typed
<1>6. CASE Blackout
  BY <1>6, EachPort DEF Blackout, Call, Only, Typed, Plain, Steps, Copies, Begins
<1>7. ASSUME NEW p \in RdmPorts, RdmTransmit(p) PROVE Typed'
  BY <1>7, StepTypes, ShortPrograms DEF RdmTransmit, Call, Only, Typed, Plain, Steps, Copies, Begins
<1>8. ASSUME NEW p \in RdmPorts, RdmTransmitDiscoveryRespondMessage(p) PROVE Typed'
  BY <1>8, StepTypes, ShortPrograms
     DEF RdmTransmitDiscoveryRespondMessage, Call, Only, Typed, Plain, Steps, Copies, Begins
<1> QED BY <1>1, <1>2, <1>3, <1>4, <1>5, <1>6, <1>7, <1>8 DEF Calls, Begins

LEMMA TypeSuperloop ==
  ASSUME Typed, NEW p \in Ports
  PROVE  /\ ChangeDirection(p) => Typed'
         /\ DataEnableOutput(p) \/ DataEnableInput(p) => Typed'
         /\ DataDisableIdle(p) \/ DataDisableOutput(p) \/ DataDisableInput(p) => Typed'
         /\ DrainIdle(p) \/ DrainInter(p) \/ DrainComplete(p) => Typed'
         /\ SetOutputStyle(p) \/ StartDmxOutput(p) => Typed'
         /\ BeginCopy(p) \/ EndCopy(p) => Typed'
         /\ SyncPort(p) \/ ClearData(p) \/ BlackoutPort(p) => Typed'
         /\ StartRdmOutput(p) \/ WriteResponse(p) => Typed'
<1>0. port[p] \in PortRecord /\ port[p].style \in Styles
  BY PortType
<1> DEFINE n(what) == Now(what, p)
<1>1. \A steps \in Seq(Step) : todo # <<>> /\ Then(steps) => todo' \in Seq(Step)
  BY ThenShape DEF Typed
<1>2. ASSUME todo # <<>>
      PROVE  /\ Head(todo).do \in {"DirectionEnable", "DirectionDisable"} => With \in {"Input", "Output"}
             /\ Head(todo).do = "SetOutputStyle" => With \in Styles
             /\ Head(todo).do \in Copies => With \in Packets
  BY <1>2, ProgramType, StepFacts DEF With, Typed
<1>3. ChangeDirection(p) => Typed'
  <2> SUFFICES ASSUME ChangeDirection(p) PROVE Typed'
    OBVIOUS
  <2>1. todo # <<>> /\ With \in {"Input", "Output"}
    BY <1>2 DEF ChangeDirection, Now
  <2>2. port' \in [Ports -> PortRecord] /\ \A q \in Ports : port'[q].style \in Styles
    <3>1. ASSUME ChangeDirection(p) PROVE port' \in [Ports -> PortRecord] /\ \A q \in Ports : port'[q].style \in Styles
      <4> DEFINE r == [port[p] EXCEPT !.direction = With]
      <4>1. r \in PortRecord /\ r.style \in Styles
        BY <2>1, <1>0, StyleAssumption DEF PortRecord
      <4>2. port' = [port EXCEPT ![p] = r]
        BY <3>1 DEF ChangeDirection
      <4> QED BY <4>1, <4>2, PortUpdate
    <3> QED BY <3>1
  <2>3. todo' \in Seq(Step)
    <3> DEFINE a == IF port[p].direction # With \/ ~(Head(todo).do = "DirectionEnable")
                    THEN <<Do("DataDisable", p)>> ELSE <<>>
               b == IF Head(todo).do = "DirectionEnable" THEN <<Do("DataEnable", p)>> ELSE <<>>
    <3>1. a \in Seq(Step) /\ b \in Seq(Step)
      BY StepTypes, ShortPrograms DEF Plain, Steps, Copies, Begins
    <3>2. Then(a \o b)
      BY DEF ChangeDirection
    <3> HIDE DEF a, b
    <3> QED BY <1>1, <2>1, <3>1, <3>2, ConcatProperties
  <2> QED BY <2>2, <2>3 DEF ChangeDirection, Only, Typed
<1>4. DataEnableOutput(p) \/ DataEnableInput(p) => Typed'
  <2> SUFFICES ASSUME DataEnableOutput(p) \/ DataEnableInput(p) PROVE Typed'
    OBVIOUS
  <2>1. port' \in [Ports -> PortRecord] /\ \A q \in Ports : port'[q].style \in Styles
    <3>1. ASSUME DataEnableOutput(p) PROVE port' \in [Ports -> PortRecord] /\ \A q \in Ports : port'[q].style \in Styles
      <4> DEFINE r == [port[p] EXCEPT !.state = "Tx", !.tx = "Idle"]
      <4>1. r \in PortRecord /\ r.style \in Styles
        BY <1>0 DEF PortRecord
      <4>2. port' = [port EXCEPT ![p] = r]
        BY <3>1 DEF DataEnableOutput
      <4> QED BY <4>1, <4>2, PortUpdate
    <3>2. ASSUME DataEnableInput(p) PROVE port' \in [Ports -> PortRecord] /\ \A q \in Ports : port'[q].style \in Styles
      <4> DEFINE r == [port[p] EXCEPT !.state = "Rx", !.listening = TRUE]
      <4>1. r \in PortRecord /\ r.style \in Styles
        BY <1>0, StyleAssumption DEF PortRecord
      <4>2. port' = [port EXCEPT ![p] = r]
        BY <3>2 DEF DataEnableInput
      <4> QED BY <4>1, <4>2, PortUpdate
    <3> QED BY <3>1, <3>2
  <2>2. todo' \in Seq(Step)
    BY <1>1, StepTypes, ShortPrograms DEF DataEnableOutput, DataEnableInput, Now, Typed
  <2> QED BY <2>1, <2>2 DEF DataEnableOutput, DataEnableInput, Only, Typed
<1>5. DataDisableIdle(p) \/ DataDisableOutput(p) \/ DataDisableInput(p) => Typed'
  <2> SUFFICES ASSUME DataDisableIdle(p) \/ DataDisableOutput(p) \/ DataDisableInput(p)
               PROVE  Typed'
    OBVIOUS
  <2>1. port' \in [Ports -> PortRecord] /\ \A q \in Ports : port'[q].style \in Styles
    <3>1. DataDisableIdle(p) =>
             port' \in [Ports -> PortRecord] /\ \A q \in Ports : port'[q].style \in Styles
      BY DEF DataDisableIdle, Typed
    <3>2. ASSUME DataDisableOutput(p) PROVE port' \in [Ports -> PortRecord] /\ \A q \in Ports : port'[q].style \in Styles
      <4> DEFINE r == [port[p] EXCEPT !.state = "Idle"]
      <4>1. r \in PortRecord /\ r.style \in Styles
        BY <1>0, StyleAssumption DEF PortRecord
      <4>2. port' = [port EXCEPT ![p] = r]
        BY <3>2 DEF DataDisableOutput
      <4> QED BY <4>1, <4>2, PortUpdate
    <3>3. ASSUME DataDisableInput(p) PROVE port' \in [Ports -> PortRecord] /\ \A q \in Ports : port'[q].style \in Styles
      <4> DEFINE r == [port[p] EXCEPT !.state = "Idle", !.listening = FALSE]
      <4>1. r \in PortRecord /\ r.style \in Styles
        BY <1>0, StyleAssumption DEF PortRecord
      <4>2. port' = [port EXCEPT ![p] = r]
        BY <3>3 DEF DataDisableInput
      <4> QED BY <4>1, <4>2, PortUpdate
    <3> QED BY <3>1, <3>2, <3>3
  <2>2. todo' \in Seq(Step)
    BY <1>1, StepTypes, ShortPrograms
       DEF DataDisableIdle, DataDisableOutput, DataDisableInput, Now, Plain, Steps, Copies, Begins
  <2> QED BY <2>1, <2>2 DEF DataDisableIdle, DataDisableOutput, DataDisableInput, Only, Typed
<1>6. DrainIdle(p) \/ DrainInter(p) \/ DrainComplete(p) => Typed'
  <2> SUFFICES ASSUME DrainIdle(p) \/ DrainInter(p) \/ DrainComplete(p) PROVE Typed'
    OBVIOUS
  <2>1. port' \in [Ports -> PortRecord] /\ \A q \in Ports : port'[q].style \in Styles
    <3>1. DrainIdle(p) =>
             port' \in [Ports -> PortRecord] /\ \A q \in Ports : port'[q].style \in Styles
      BY DEF DrainIdle, Typed
    <3>2. ASSUME DrainInter(p) PROVE port' \in [Ports -> PortRecord] /\ \A q \in Ports : port'[q].style \in Styles
      <4> DEFINE r == [port[p] EXCEPT !.tc = FALSE]
      <4>1. r \in PortRecord /\ r.style \in Styles
        BY <1>0, StyleAssumption DEF PortRecord
      <4>2. port' = [port EXCEPT ![p] = r]
        BY <3>2 DEF DrainInter
      <4> QED BY <4>1, <4>2, PortUpdate
    <3>3. ASSUME DrainComplete(p) PROVE port' \in [Ports -> PortRecord] /\ \A q \in Ports : port'[q].style \in Styles
      <4> DEFINE r == [port[p] EXCEPT !.tx = "Idle"]
      <4>1. r \in PortRecord /\ r.style \in Styles
        BY <1>0, StyleAssumption DEF PortRecord
      <4>2. port' = [port EXCEPT ![p] = r]
        BY <3>3 DEF DrainComplete
      <4> QED BY <4>1, <4>2, PortUpdate
    <3> QED BY <3>1, <3>2, <3>3
  <2>2. todo' \in Seq(Step)
    BY <1>1, StepTypes, ShortPrograms DEF DrainIdle, DrainInter, DrainComplete, Now, Plain, Steps, Copies, Begins
  <2> QED BY <2>1, <2>2 DEF DrainIdle, DrainInter, DrainComplete, Only, Typed
<1>7. SetOutputStyle(p) => Typed'
  <2> SUFFICES ASSUME SetOutputStyle(p) PROVE Typed'
    OBVIOUS
  <2>1. todo # <<>> /\ With \in Styles
    BY <1>2 DEF SetOutputStyle, Now
  <2>2. port' \in [Ports -> PortRecord] /\ \A q \in Ports : port'[q].style \in Styles
    <3>1. ASSUME SetOutputStyle(p) PROVE port' \in [Ports -> PortRecord] /\ \A q \in Ports : port'[q].style \in Styles
      <4> DEFINE r == [port[p] EXCEPT !.style = With]
      <4>1. r \in PortRecord /\ r.style \in Styles
        BY <2>1, <1>0, StyleAssumption DEF PortRecord
      <4>2. port' = [port EXCEPT ![p] = r]
        BY <3>1 DEF SetOutputStyle
      <4> QED BY <4>1, <4>2, PortUpdate
    <3> QED BY <3>1
  <2>3. continuous' \in BOOLEAN
    BY DEF SetOutputStyle
  <2>4. todo' \in Seq(Step)
    <3> DEFINE S == {q \in Ports : port'[q].style = "Constant" /\ port[q].direction = "Output"}
               together == SetToSeq(S)
               each(what) == [i \in 1 .. Len(together) |-> Do(what, together[i])]
               steps == CASE With = "Delta" -> <<>>
                          [] With = "Constant" /\ continuous ->
                               each("DataDisable") \o each("StartDmxOutput")
                          [] OTHER -> IF port[p].direction = "Output"
                                      THEN <<Do("StartDmxOutput", p)>> ELSE <<>>
    <3>1. IsFiniteSet(S)
      BY PortAssumption, FS_Subset
    <3>2. together \in Seq(Ports)
      <4>1. together \in Seq(S)
        BY <3>1, SetToSeqType
      <4> QED BY <4>1, SeqMonotonic
    <3> HIDE DEF together
    <3>3. \A what \in Plain : each(what) \in Seq(Step)
      <4> TAKE what \in Plain
      <4>1. Len(together) \in Nat /\ \A i \in 1 .. Len(together) : together[i] \in Ports
        BY <3>2, LenProperties
      <4>2. each(what) \in [1 .. Len(together) -> Step]
        BY <4>1, StepTypes
      <4> QED BY <4>1, <4>2, SeqDef
    <3> HIDE DEF each
    <3>4. each("DataDisable") \in Seq(Step) /\ each("StartDmxOutput") \in Seq(Step)
      BY <3>3 DEF Plain, Steps, Copies, Begins
    <3>5. each("DataDisable") \o each("StartDmxOutput") \in Seq(Step)
      BY <3>4, ConcatProperties
    <3>6. <<Do("StartDmxOutput", p)>> \in Seq(Step) /\ <<>> \in Seq(Step)
      BY StepTypes, ShortPrograms DEF Plain, Steps, Copies, Begins
    <3>7. steps \in Seq(Step)
      BY <3>5, <3>6
    <3>8. Then(steps)
      BY DEF SetOutputStyle, each, together
    <3> HIDE DEF steps
    <3> QED BY <1>1, <2>1, <3>7, <3>8
  <2> QED BY <2>2, <2>3, <2>4 DEF SetOutputStyle, Typed
<1>8. StartDmxOutput(p) => Typed'
  <2> SUFFICES ASSUME StartDmxOutput(p) PROVE Typed'
    OBVIOUS
  <2>1. port' \in [Ports -> PortRecord] /\ \A q \in Ports : port'[q].style \in Styles
    <3>1. ASSUME StartDmxOutput(p) PROVE port' \in [Ports -> PortRecord] /\ \A q \in Ports : port'[q].style \in Styles
      <4> DEFINE r == [port[p] EXCEPT !.tx = "Break", !.timer = TRUE,
                                      !.stray = port[p].state # "Tx"]
      <4>1. r \in PortRecord /\ r.style \in Styles
        BY <1>0, StyleAssumption DEF PortRecord
      <4>2. port' = [port EXCEPT ![p] = r]
        BY <3>1 DEF StartDmxOutput
      <4> QED BY <4>1, <4>2, PortUpdate
    <3> QED BY <3>1
  <2>2. todo' \in Seq(Step)
    BY <1>1, ShortPrograms DEF StartDmxOutput, Now
  <2> QED BY <2>1, <2>2 DEF StartDmxOutput, Only, Typed
<1>9. Trigger(p) \in Seq(Step)
  BY StepTypes, ShortPrograms DEF Trigger, Plain, Steps, Copies, Begins
<1>10. EndCopy(p) => Typed'
  <2> SUFFICES ASSUME EndCopy(p) PROVE Typed'
    OBVIOUS
  <2>1. todo # <<>> /\ With \in Packets
    BY <1>2 DEF EndCopy, Now, Copies
  <2>2. port' \in [Ports -> PortRecord] /\ \A q \in Ports : port'[q].style \in Styles
    <3>1. ASSUME EndCopy(p) PROVE port' \in [Ports -> PortRecord] /\ \A q \in Ports : port'[q].style \in Styles
      <4> DEFINE r == [port[p] EXCEPT !.buffer[port[p].write] = With]
      <4>1. r \in PortRecord /\ r.style \in Styles
        BY <2>1, <1>0, StyleAssumption DEF PortRecord
      <4>2. port' = [port EXCEPT ![p] = r]
        BY <3>1 DEF EndCopy
      <4> QED BY <4>1, <4>2, PortUpdate
    <3> QED BY <3>1
  <2>3. todo' \in Seq(Step)
    BY <1>1, <1>9, <2>1, ShortPrograms DEF EndCopy
  <2>4. expected' \in [Ports -> SUBSET (Packets \cup {Dark})]
    BY <2>1 DEF EndCopy, Typed
  <2> QED BY <2>2, <2>3, <2>4 DEF EndCopy, Typed
<1>15. BeginCopy(p) => Typed'
  <2> SUFFICES ASSUME BeginCopy(p) PROVE Typed'
    OBVIOUS
  <2>1. todo # <<>> /\ With \in Packets
    BY <1>2 DEF BeginCopy, Now, Copies, Begins
  <2>2. port' \in [Ports -> PortRecord] /\ \A q \in Ports : port'[q].style \in Styles
    <3> DEFINE w == port[p].write
               b == [port[p].buffer EXCEPT ![w] = Partial]
               r == [port[p] EXCEPT !.pending = TRUE, !.buffer = b]
    <3>1. b \in [{0, 1} -> Packets \cup {Dark, Partial}]
      BY <1>0 DEF PortRecord
    <3>2. port' = [port EXCEPT ![p] = r]
      BY DEF BeginCopy
    <3> HIDE DEF b
    <3>3. r \in PortRecord /\ r.style \in Styles
      BY <1>0, <3>1 DEF PortRecord
    <3> QED BY <3>2, <3>3, PortUpdate
  <2>3. todo' \in Seq(Step)
    <3> DEFINE a == DoWith(IF Head(todo).do = "BeginDirect" THEN "Direct" ELSE "Sync", p, With)
    <3>1. a \in Step
      BY <2>1, StepTypes DEF Copies
    <3>2. <<a>> \in Seq(Step) /\ Then(<<a>>)
      BY <3>1, ShortPrograms DEF BeginCopy
    <3> QED BY <1>1, <2>1, <3>2
  <2>4. wire' \in [Ports -> Packets \cup {Dark, Partial}]
    BY DEF BeginCopy, Typed
  <2> QED BY <2>2, <2>3, <2>4 DEF BeginCopy, Typed
<1>11. SyncPort(p) => Typed'
  <2> SUFFICES ASSUME SyncPort(p) PROVE Typed'
    OBVIOUS
  <2>1. port' \in [Ports -> PortRecord] /\ \A q \in Ports : port'[q].style \in Styles
    <3>1. ASSUME SyncPort(p) PROVE port' \in [Ports -> PortRecord] /\ \A q \in Ports : port'[q].style \in Styles
      <4> DEFINE r == [port[p] EXCEPT !.pending = FALSE]
      <4>1. r \in PortRecord /\ r.style \in Styles
        BY <1>0, StyleAssumption DEF PortRecord
      <4>2. port' = [port EXCEPT ![p] = r]
        BY <3>1 DEF SyncPort
      <4> QED BY <4>1, <4>2, PortUpdate
    <3> QED BY <3>1
  <2>2. todo' \in Seq(Step)
    BY <1>1, <1>9, ShortPrograms DEF SyncPort, Now
  <2> QED BY <2>1, <2>2 DEF SyncPort, Only, Typed
<1>12. ClearData(p) => Typed'
  <2> SUFFICES ASSUME ClearData(p) PROVE Typed'
    OBVIOUS
  <2>1. port' \in [Ports -> PortRecord] /\ \A q \in Ports : port'[q].style \in Styles
    <3>1. ASSUME ClearData(p) PROVE port' \in [Ports -> PortRecord] /\ \A q \in Ports : port'[q].style \in Styles
      <4> DEFINE r == [port[p] EXCEPT !.buffer[0] = Dark]
      <4>1. r \in PortRecord /\ r.style \in Styles
        BY <1>0, StyleAssumption DEF PortRecord
      <4>2. port' = [port EXCEPT ![p] = r]
        BY <3>1 DEF ClearData
      <4> QED BY <4>1, <4>2, PortUpdate
    <3> QED BY <3>1
  <2>2. todo' \in Seq(Step)
    BY <1>1, ShortPrograms DEF ClearData, Now
  <2> QED BY <2>1, <2>2 DEF ClearData, Typed
<1>13. BlackoutPort(p) => Typed'
  <2> SUFFICES ASSUME BlackoutPort(p) PROVE Typed'
    OBVIOUS
  <2>1. todo' \in Seq(Step)
    BY <1>1, StepTypes, ShortPrograms DEF BlackoutPort, Now, Plain, Steps, Copies, Begins
  <2> QED BY <2>1 DEF BlackoutPort, Only, Typed
<1>14. StartRdmOutput(p) \/ WriteResponse(p) => Typed'
  <2> SUFFICES ASSUME StartRdmOutput(p) \/ WriteResponse(p) PROVE Typed'
    OBVIOUS
  <2>1. port' \in [Ports -> PortRecord] /\ \A q \in Ports : port'[q].style \in Styles
    <3>1. ASSUME StartRdmOutput(p) PROVE port' \in [Ports -> PortRecord] /\ \A q \in Ports : port'[q].style \in Styles
      <4> DEFINE r == [port[p] EXCEPT !.rdm = "Break", !.timer = TRUE]
      <4>1. r \in PortRecord /\ r.style \in Styles
        BY <1>0, StyleAssumption DEF PortRecord
      <4>2. port' = [port EXCEPT ![p] = r]
        BY <3>1 DEF StartRdmOutput
      <4> QED BY <4>1, <4>2, PortUpdate
    <3>2. WriteResponse(p) =>
             port' \in [Ports -> PortRecord] /\ \A q \in Ports : port'[q].style \in Styles
      BY DEF WriteResponse, Typed
    <3> QED BY <3>1, <3>2
  <2>2. todo' \in Seq(Step)
    BY <1>1, ShortPrograms DEF StartRdmOutput, WriteResponse, Now
  <2> QED BY <2>1, <2>2 DEF StartRdmOutput, WriteResponse, Only, Typed
<1> QED BY <1>3, <1>4, <1>5, <1>6, <1>7, <1>8, <1>10, <1>11, <1>12, <1>13, <1>14, <1>15

LEMMA TypeInterrupts ==
  ASSUME Typed, NEW p \in Ports, Interrupts(p)
  PROVE  Typed'
<1>0. port[p] \in PortRecord /\ port[p].style \in Styles
  BY PortType
<1>1. CounterWraps(p) => Typed'
  <2> SUFFICES ASSUME CounterWraps(p) PROVE Typed'
    OBVIOUS
  <2> DEFINE r == [port[p] EXCEPT !.timer = TRUE]
  <2>2. r \in PortRecord /\ r.style \in Styles
    BY <1>0 DEF PortRecord
  <2>3. port' = [port EXCEPT ![p] = r]
    BY DEF CounterWraps
  <2>1. port' \in [Ports -> PortRecord] /\ \A q \in Ports : port'[q].style \in Styles
    BY <2>2, <2>3, PortUpdate
  <2> QED BY <2>1 DEF CounterWraps, InterruptOnly, Typed
<1>2. TimerDmx(p) => Typed'
  <2> SUFFICES ASSUME TimerDmx(p) PROVE Typed'
    OBVIOUS
  <2> DEFINE brk == [port[p] EXCEPT !.tx = "Break", !.timer = TRUE]
  <2> DEFINE mab == [port[p] EXCEPT !.tx = "Mab", !.timer = TRUE]
  <2> DEFINE packet == [port[p] EXCEPT !.read = port[p].write, !.timer = FALSE,
                                       !.line = "Dmx", !.tc = FALSE, !.raced = Copying(p)]
  <2>2. /\ brk \in PortRecord /\ brk.style \in Styles
        /\ mab \in PortRecord /\ mab.style \in Styles
        /\ packet \in PortRecord /\ packet.style \in Styles
    <3>1. brk \in PortRecord /\ brk.style \in Styles
      BY <1>0 DEF PortRecord
    <3>2. mab \in PortRecord /\ mab.style \in Styles
      BY <1>0 DEF PortRecord
    <3>3. packet \in PortRecord /\ packet.style \in Styles
      <4>1. Copying(p) \in BOOLEAN
        BY DEF Copying
      <4> HIDE DEF Copying
      <4> QED BY <1>0, <4>1 DEF PortRecord
    <3> QED BY <3>1, <3>2, <3>3
  <2>3. \/ port' = [port EXCEPT ![p] = brk]
        \/ port' = [port EXCEPT ![p] = mab]
        \/ port' = [port EXCEPT ![p] = packet]
    BY DEF TimerDmx, DmaRestartDmxTx
  <2> HIDE DEF brk, mab, packet
  <2>1. port' \in [Ports -> PortRecord] /\ \A q \in Ports : port'[q].style \in Styles
    BY <2>2, <2>3, PortUpdate
  <2>4. port[p].buffer[port[p].write] \in Packets \cup {Dark, Partial}
    BY <1>0 DEF PortRecord
  <2>5. wire' \in [Ports -> Packets \cup {Dark, Partial}]
    BY <2>4 DEF TimerDmx, DmaRestartDmxTx, Typed
  <2> QED BY <2>1, <2>5 DEF TimerDmx, InterruptOnly, Typed
<1>3. TimerRdm(p) => Typed'
  <2> SUFFICES ASSUME TimerRdm(p) PROVE Typed'
    OBVIOUS
  <2> DEFINE mab == [port[p] EXCEPT !.rdm = "Mab", !.timer = TRUE]
  <2> DEFINE message == [port[p] EXCEPT !.timer = FALSE, !.line = "Rdm", !.tc = FALSE]
  <2> DEFINE turned == [port[p] EXCEPT !.rdm = "Idle", !.timer = FALSE, !.direction = "Input",
                                     !.state = "Rx", !.listening = TRUE]
  <2>2. /\ mab \in PortRecord /\ mab.style \in Styles
        /\ message \in PortRecord /\ message.style \in Styles
        /\ turned \in PortRecord /\ turned.style \in Styles
    <3>1. mab \in PortRecord /\ mab.style \in Styles
      BY <1>0 DEF PortRecord
    <3>2. message \in PortRecord /\ message.style \in Styles
      BY <1>0 DEF PortRecord
    <3>3. turned \in PortRecord /\ turned.style \in Styles
      BY <1>0 DEF PortRecord
    <3> QED BY <3>1, <3>2, <3>3
  <2>3. \/ port' = [port EXCEPT ![p] = mab]
        \/ port' = [port EXCEPT ![p] = message]
        \/ port' = [port EXCEPT ![p] = turned]
    BY DEF TimerRdm, DmaRestartDmxTx
  <2> HIDE DEF mab, message, turned
  <2>1. port' \in [Ports -> PortRecord] /\ \A q \in Ports : port'[q].style \in Styles
    BY <2>2, <2>3, PortUpdate
  <2> QED BY <2>1 DEF TimerRdm, InterruptOnly, Typed
<1>4. TimerIdle(p) => Typed'
  <2> SUFFICES ASSUME TimerIdle(p) PROVE Typed'
    OBVIOUS
  <2> DEFINE r == [port[p] EXCEPT !.timer = FALSE]
  <2>2. r \in PortRecord /\ r.style \in Styles
    BY <1>0 DEF PortRecord
  <2>3. port' = [port EXCEPT ![p] = r]
    BY DEF TimerIdle
  <2>1. port' \in [Ports -> PortRecord] /\ \A q \in Ports : port'[q].style \in Styles
    BY <2>2, <2>3, PortUpdate
  <2> QED BY <2>1 DEF TimerIdle, InterruptOnly, Typed
<1>5. DmaIsr(p) => Typed'
  <2> SUFFICES ASSUME DmaIsr(p) PROVE Typed'
    OBVIOUS
  <2>1. port' \in [Ports -> PortRecord] /\ \A q \in Ports : port'[q].style \in Styles
    <3>1. ASSUME DmaIsr(p) PROVE port' \in [Ports -> PortRecord] /\ \A q \in Ports : port'[q].style \in Styles
      <4> DEFINE dmx == port[p].tx # "Idle"
                 rdm == ~dmx /\ port[p].rdm # "Idle"
                 gap == dmx /\ port[p].style = "Constant"
                 timer == port[p].timer \/ gap \/ rdm
                 tx == IF gap THEN "Inter" ELSE "Idle"
                 turn == IF rdm THEN "Direction" ELSE port[p].rdm
                 r == [port[p] EXCEPT !.line = "Shifting", !.timer = timer, !.tx = tx, !.rdm = turn]
      <4>2. port' = [port EXCEPT ![p] = r]
        BY <3>1 DEF DmaIsr
      <4>3. timer \in BOOLEAN /\ tx \in {"Inter", "Idle"}
        OBVIOUS
      <4>4. port[p].rdm \in {"Idle", "Break", "Mab", "Direction"}
        BY <1>0 DEF PortRecord
      <4>5. turn \in {"Idle", "Break", "Mab", "Direction"}
        BY <4>4
      <4> HIDE DEF timer, tx, turn
      <4>6. r \in PortRecord
        BY <4>3, <4>5, <1>0 DEF PortRecord
      <4>1. r \in PortRecord /\ r.style \in Styles
        BY <1>0, <4>6 DEF PortRecord
      <4> QED BY <4>1, <4>2, PortUpdate
    <3> QED BY <3>1
  <2> QED BY <2>1 DEF DmaIsr, InterruptOnly, Typed
<1>6. TransmissionComplete(p) => Typed'
  <2> SUFFICES ASSUME TransmissionComplete(p) PROVE Typed'
    OBVIOUS
  <2> DEFINE r == [port[p] EXCEPT !.line = "Quiet", !.tc = TRUE]
  <2>2. r \in PortRecord /\ r.style \in Styles
    BY <1>0 DEF PortRecord
  <2>3. port' = [port EXCEPT ![p] = r]
    BY DEF TransmissionComplete
  <2>1. port' \in [Ports -> PortRecord] /\ \A q \in Ports : port'[q].style \in Styles
    BY <2>2, <2>3, PortUpdate
  <2> QED BY <2>1 DEF TransmissionComplete, InterruptOnly, Typed
<1> QED BY <1>1, <1>2, <1>3, <1>4, <1>5, <1>6 DEF Interrupts

LEMMA TypeNext == Typed /\ [Next]_vars => Typed'
<1>1. Typed /\ Superloop => Typed'
  BY TypeSuperloop DEF Superloop
<1>2. Typed /\ UNCHANGED vars => Typed'
  BY DEF Typed, vars
<1> QED BY <1>1, <1>2, TypeCalls, TypeInterrupts DEF Next

LEMMA TypeInit == Init => Typed
<1>1. PowerOn \in PortRecord /\ PowerOn.style \in Styles
  BY StyleAssumption DEF PowerOn, PortRecord
<1> QED BY <1>1, ShortPrograms DEF Init, Typed

LEMMA TypeInductive == Spec => []Typed
BY TypeInit, TypeNext, PTL DEF Spec

\* The types, for any ports, packets and styles: in particular every step of a
\* program comes with the argument it needs.
THEOREM TypeCorrect == Spec => []TypeOK
<1>1. Typed => TypeOK
  BY TypedIsTypeInv DEF TypeInv
<1> QED BY <1>1, TypeInductive, PTL

----------------------------------------------------------------------------
(* What each action does to the ports. *)

\* The control state of p is this, all other ports are as they were.
Becomes(p, direction, state, tx, rdm, style, line, timer, tc) ==
  /\ \A q \in Ports \ {p} : port'[q] = port[q]
  /\ port'[p].direction = direction /\ port'[p].state = state
  /\ port'[p].tx = tx /\ port'[p].rdm = rdm /\ port'[p].style = style
  /\ port'[p].line = line /\ port'[p].timer = timer /\ port'[p].tc = tc

KeepsBuffers ==
  \A q \in Ports : port'[q].buffer = port[q].buffer /\ port'[q].write = port[q].write

LEMMA ChangeDirectionEffect ==
  ASSUME Typed, NEW p \in Ports, ChangeDirection(p)
  PROVE  /\ Becomes(p, With, port[p].state, port[p].tx, port[p].rdm, port[p].style, port[p].line, port[p].timer, port[p].tc)
         /\ KeepsBuffers
<1>0. port \in [Ports -> PortRecord] /\ port[p] \in PortRecord
  BY PortType DEF Typed
<1>1. port' = [port EXCEPT ![p] = [port[p] EXCEPT !.direction = With]]
  BY DEF ChangeDirection
<1> QED BY <1>0, <1>1 DEF PortRecord, Becomes, KeepsBuffers

LEMMA DataEnableOutputEffect ==
  ASSUME Typed, NEW p \in Ports, DataEnableOutput(p)
  PROVE  /\ Becomes(p, port[p].direction, "Tx", "Idle", port[p].rdm, port[p].style, port[p].line, port[p].timer, port[p].tc)
         /\ KeepsBuffers
<1>0. port \in [Ports -> PortRecord] /\ port[p] \in PortRecord
  BY PortType DEF Typed
<1>1. port' = [port EXCEPT ![p] = [port[p] EXCEPT !.state = "Tx", !.tx = "Idle"]]
  BY DEF DataEnableOutput
<1> QED BY <1>0, <1>1 DEF PortRecord, Becomes, KeepsBuffers

LEMMA DataEnableInputEffect ==
  ASSUME Typed, NEW p \in Ports, DataEnableInput(p)
  PROVE  /\ Becomes(p, port[p].direction, "Rx", port[p].tx, port[p].rdm, port[p].style, port[p].line, port[p].timer, port[p].tc)
         /\ KeepsBuffers
<1>0. port \in [Ports -> PortRecord] /\ port[p] \in PortRecord
  BY PortType DEF Typed
<1>1. port' = [port EXCEPT ![p] = [port[p] EXCEPT !.state = "Rx", !.listening = TRUE]]
  BY DEF DataEnableInput
<1> QED BY <1>0, <1>1 DEF PortRecord, Becomes, KeepsBuffers

LEMMA DataDisableOutputEffect ==
  ASSUME Typed, NEW p \in Ports, DataDisableOutput(p)
  PROVE  /\ Becomes(p, port[p].direction, "Idle", port[p].tx, port[p].rdm, port[p].style, port[p].line, port[p].timer, port[p].tc)
         /\ KeepsBuffers
<1>0. port \in [Ports -> PortRecord] /\ port[p] \in PortRecord
  BY PortType DEF Typed
<1>1. port' = [port EXCEPT ![p] = [port[p] EXCEPT !.state = "Idle"]]
  BY DEF DataDisableOutput
<1> QED BY <1>0, <1>1 DEF PortRecord, Becomes, KeepsBuffers

LEMMA DataDisableInputEffect ==
  ASSUME Typed, NEW p \in Ports, DataDisableInput(p)
  PROVE  /\ Becomes(p, port[p].direction, "Idle", port[p].tx, port[p].rdm, port[p].style, port[p].line, port[p].timer, port[p].tc)
         /\ KeepsBuffers
<1>0. port \in [Ports -> PortRecord] /\ port[p] \in PortRecord
  BY PortType DEF Typed
<1>1. port' = [port EXCEPT ![p] = [port[p] EXCEPT !.state = "Idle", !.listening = FALSE]]
  BY DEF DataDisableInput
<1> QED BY <1>0, <1>1 DEF PortRecord, Becomes, KeepsBuffers

LEMMA DrainInterEffect ==
  ASSUME Typed, NEW p \in Ports, DrainInter(p)
  PROVE  /\ Becomes(p, port[p].direction, port[p].state, port[p].tx, port[p].rdm, port[p].style, port[p].line, port[p].timer, FALSE)
         /\ KeepsBuffers
<1>0. port \in [Ports -> PortRecord] /\ port[p] \in PortRecord
  BY PortType DEF Typed
<1>1. port' = [port EXCEPT ![p] = [port[p] EXCEPT !.tc = FALSE]]
  BY DEF DrainInter
<1> QED BY <1>0, <1>1 DEF PortRecord, Becomes, KeepsBuffers

LEMMA DrainCompleteEffect ==
  ASSUME Typed, NEW p \in Ports, DrainComplete(p)
  PROVE  /\ Becomes(p, port[p].direction, port[p].state, "Idle", port[p].rdm, port[p].style, port[p].line, port[p].timer, port[p].tc)
         /\ KeepsBuffers
<1>0. port \in [Ports -> PortRecord] /\ port[p] \in PortRecord
  BY PortType DEF Typed
<1>1. port' = [port EXCEPT ![p] = [port[p] EXCEPT !.tx = "Idle"]]
  BY DEF DrainComplete
<1> QED BY <1>0, <1>1 DEF PortRecord, Becomes, KeepsBuffers

LEMMA SetOutputStyleEffect ==
  ASSUME Typed, NEW p \in Ports, SetOutputStyle(p)
  PROVE  /\ Becomes(p, port[p].direction, port[p].state, port[p].tx, port[p].rdm, With, port[p].line, port[p].timer, port[p].tc)
         /\ KeepsBuffers
<1>0. port \in [Ports -> PortRecord] /\ port[p] \in PortRecord
  BY PortType DEF Typed
<1>1. port' = [port EXCEPT ![p] = [port[p] EXCEPT !.style = With]]
  BY DEF SetOutputStyle
<1> QED BY <1>0, <1>1 DEF PortRecord, Becomes, KeepsBuffers

LEMMA StartDmxOutputEffect ==
  ASSUME Typed, NEW p \in Ports, StartDmxOutput(p)
  PROVE  /\ Becomes(p, port[p].direction, port[p].state, "Break", port[p].rdm, port[p].style, port[p].line, TRUE, port[p].tc)
         /\ KeepsBuffers
         /\ port'[p].stray = (port[p].state # "Tx")
<1>0. port \in [Ports -> PortRecord] /\ port[p] \in PortRecord
  BY PortType DEF Typed
<1>1. port' = [port EXCEPT ![p] = [port[p] EXCEPT !.tx = "Break", !.timer = TRUE,
                                                     !.stray = port[p].state # "Tx"]]
  BY DEF StartDmxOutput
<1> QED BY <1>0, <1>1 DEF PortRecord, Becomes, KeepsBuffers

LEMMA EndCopyEffect ==
  ASSUME Typed, NEW p \in Ports, EndCopy(p)
  PROVE  /\ Becomes(p, port[p].direction, port[p].state, port[p].tx, port[p].rdm, port[p].style, port[p].line, port[p].timer, port[p].tc)
         /\ port'[p].buffer = [port[p].buffer EXCEPT ![port[p].write] = With]
         /\ port'[p].write = port[p].write
<1>0. port \in [Ports -> PortRecord] /\ port[p] \in PortRecord
  BY PortType DEF Typed
<1>1. port' = [port EXCEPT ![p] = [port[p] EXCEPT !.buffer[port[p].write] = With]]
  BY DEF EndCopy
<1> QED BY <1>0, <1>1 DEF PortRecord, Becomes, KeepsBuffers

LEMMA SyncPortEffect ==
  ASSUME Typed, NEW p \in Ports, SyncPort(p)
  PROVE  /\ Becomes(p, port[p].direction, port[p].state, port[p].tx, port[p].rdm, port[p].style, port[p].line, port[p].timer, port[p].tc)
         /\ KeepsBuffers
<1>0. port \in [Ports -> PortRecord] /\ port[p] \in PortRecord
  BY PortType DEF Typed
<1>1. port' = [port EXCEPT ![p] = [port[p] EXCEPT !.pending = FALSE]]
  BY DEF SyncPort
<1> QED BY <1>0, <1>1 DEF PortRecord, Becomes, KeepsBuffers

LEMMA ClearDataEffect ==
  ASSUME Typed, NEW p \in Ports, ClearData(p)
  PROVE  /\ Becomes(p, port[p].direction, port[p].state, port[p].tx, port[p].rdm, port[p].style, port[p].line, port[p].timer, port[p].tc)
         /\ port'[p].buffer = [port[p].buffer EXCEPT ![0] = Dark]
         /\ port'[p].write = port[p].write
<1>0. port \in [Ports -> PortRecord] /\ port[p] \in PortRecord
  BY PortType DEF Typed
<1>1. port' = [port EXCEPT ![p] = [port[p] EXCEPT !.buffer[0] = Dark]]
  BY DEF ClearData
<1> QED BY <1>0, <1>1 DEF PortRecord, Becomes, KeepsBuffers

LEMMA StartRdmOutputEffect ==
  ASSUME Typed, NEW p \in Ports, StartRdmOutput(p)
  PROVE  /\ Becomes(p, port[p].direction, port[p].state, port[p].tx, "Break", port[p].style, port[p].line, TRUE, port[p].tc)
         /\ KeepsBuffers
<1>0. port \in [Ports -> PortRecord] /\ port[p] \in PortRecord
  BY PortType DEF Typed
<1>1. port' = [port EXCEPT ![p] = [port[p] EXCEPT !.rdm = "Break", !.timer = TRUE]]
  BY DEF StartRdmOutput
<1> QED BY <1>0, <1>1 DEF PortRecord, Becomes, KeepsBuffers

LEMMA CounterWrapsEffect ==
  ASSUME Typed, NEW p \in Ports, CounterWraps(p)
  PROVE  /\ Becomes(p, port[p].direction, port[p].state, port[p].tx, port[p].rdm, port[p].style, port[p].line, TRUE, port[p].tc)
         /\ KeepsBuffers
<1>0. port \in [Ports -> PortRecord] /\ port[p] \in PortRecord
  BY PortType DEF Typed
<1>1. port' = [port EXCEPT ![p] = [port[p] EXCEPT !.timer = TRUE]]
  BY DEF CounterWraps
<1> QED BY <1>0, <1>1 DEF PortRecord, Becomes, KeepsBuffers

LEMMA TimerIdleEffect ==
  ASSUME Typed, NEW p \in Ports, TimerIdle(p)
  PROVE  /\ Becomes(p, port[p].direction, port[p].state, port[p].tx, port[p].rdm, port[p].style, port[p].line, FALSE, port[p].tc)
         /\ KeepsBuffers
<1>0. port \in [Ports -> PortRecord] /\ port[p] \in PortRecord
  BY PortType DEF Typed
<1>1. port' = [port EXCEPT ![p] = [port[p] EXCEPT !.timer = FALSE]]
  BY DEF TimerIdle
<1> QED BY <1>0, <1>1 DEF PortRecord, Becomes, KeepsBuffers

LEMMA TransmissionCompleteEffect ==
  ASSUME Typed, NEW p \in Ports, TransmissionComplete(p)
  PROVE  /\ Becomes(p, port[p].direction, port[p].state, port[p].tx, port[p].rdm, port[p].style, "Quiet", port[p].timer, TRUE)
         /\ KeepsBuffers
<1>0. port \in [Ports -> PortRecord] /\ port[p] \in PortRecord
  BY PortType DEF Typed
<1>1. port' = [port EXCEPT ![p] = [port[p] EXCEPT !.line = "Quiet", !.tc = TRUE]]
  BY DEF TransmissionComplete
<1> QED BY <1>0, <1>1 DEF PortRecord, Becomes, KeepsBuffers

LEMMA TimerDmxEffect ==
  ASSUME Typed, NEW p \in Ports, TimerDmx(p)
  PROVE  /\ \/ /\ port[p].tx = "Inter"
               /\ wire' = wire
               /\ Becomes(p, port[p].direction, port[p].state, "Break", port[p].rdm, port[p].style, port[p].line, TRUE, port[p].tc)
            \/ /\ port[p].tx = "Break"
               /\ wire' = wire
               /\ Becomes(p, port[p].direction, port[p].state, "Mab", port[p].rdm, port[p].style, port[p].line, TRUE, port[p].tc)
            \/ /\ port[p].tx = "Mab"
               /\ wire' = [wire EXCEPT ![p] = port[p].buffer[port[p].write]]
               /\ Becomes(p, port[p].direction, port[p].state, port[p].tx, port[p].rdm, port[p].style, "Dmx", FALSE, FALSE)
         /\ KeepsBuffers
<1>0. port \in [Ports -> PortRecord] /\ port[p] \in PortRecord
  BY PortType DEF Typed
<1>1. \/ /\ port[p].tx = "Inter"
         /\ wire' = wire
         /\ port' = [port EXCEPT ![p] = [port[p] EXCEPT !.tx = "Break", !.timer = TRUE]]
      \/ /\ port[p].tx = "Break"
         /\ wire' = wire
         /\ port' = [port EXCEPT ![p] = [port[p] EXCEPT !.tx = "Mab", !.timer = TRUE]]
      \/ /\ port[p].tx = "Mab"
         /\ wire' = [wire EXCEPT ![p] = port[p].buffer[port[p].write]]
         /\ port' = [port EXCEPT ![p] = [port[p] EXCEPT !.read = port[p].write, !.timer = FALSE,
                                       !.line = "Dmx", !.tc = FALSE, !.raced = Copying(p)]]
  BY DEF TimerDmx, DmaRestartDmxTx
<1>2. ASSUME port' = [port EXCEPT ![p] = [port[p] EXCEPT !.tx = "Break", !.timer = TRUE]]
      PROVE  Becomes(p, port[p].direction, port[p].state, "Break", port[p].rdm, port[p].style, port[p].line, TRUE, port[p].tc) /\ KeepsBuffers
  BY <1>0, <1>2 DEF PortRecord, Becomes, KeepsBuffers
<1>3. ASSUME port' = [port EXCEPT ![p] = [port[p] EXCEPT !.tx = "Mab", !.timer = TRUE]]
      PROVE  Becomes(p, port[p].direction, port[p].state, "Mab", port[p].rdm, port[p].style, port[p].line, TRUE, port[p].tc) /\ KeepsBuffers
  BY <1>0, <1>3 DEF PortRecord, Becomes, KeepsBuffers
<1>4. ASSUME port' = [port EXCEPT ![p] = [port[p] EXCEPT !.read = port[p].write, !.timer = FALSE,
                                       !.line = "Dmx", !.tc = FALSE, !.raced = Copying(p)]]
      PROVE  Becomes(p, port[p].direction, port[p].state, port[p].tx, port[p].rdm, port[p].style, "Dmx", FALSE, FALSE) /\ KeepsBuffers
  BY <1>0, <1>4 DEF PortRecord, Becomes, KeepsBuffers
<1> QED BY <1>1, <1>2, <1>3, <1>4

LEMMA TimerRdmEffect ==
  ASSUME Typed, NEW p \in Ports, TimerRdm(p)
  PROVE  /\ \/ /\ port[p].rdm = "Break"
               /\ Becomes(p, port[p].direction, port[p].state, port[p].tx, "Mab", port[p].style, port[p].line, TRUE, port[p].tc)
            \/ /\ port[p].rdm = "Mab"
               /\ Becomes(p, port[p].direction, port[p].state, port[p].tx, port[p].rdm, port[p].style, "Rdm", FALSE, FALSE)
            \/ /\ port[p].rdm = "Direction"
               /\ Becomes(p, "Input", "Rx", port[p].tx, "Idle", port[p].style, port[p].line, FALSE, port[p].tc)
         /\ KeepsBuffers
<1>0. port \in [Ports -> PortRecord] /\ port[p] \in PortRecord
  BY PortType DEF Typed
<1>1. \/ /\ port[p].rdm = "Break"
         /\ port' = [port EXCEPT ![p] = [port[p] EXCEPT !.rdm = "Mab", !.timer = TRUE]]
      \/ /\ port[p].rdm = "Mab"
         /\ port' = [port EXCEPT ![p] = [port[p] EXCEPT !.timer = FALSE, !.line = "Rdm", !.tc = FALSE]]
      \/ /\ port[p].rdm = "Direction"
         /\ port' = [port EXCEPT ![p] = [port[p] EXCEPT !.rdm = "Idle", !.timer = FALSE, !.direction = "Input", !.state = "Rx", !.listening = TRUE]]
  BY DEF TimerRdm, DmaRestartDmxTx
<1>2. ASSUME port' = [port EXCEPT ![p] = [port[p] EXCEPT !.rdm = "Mab", !.timer = TRUE]]
      PROVE  Becomes(p, port[p].direction, port[p].state, port[p].tx, "Mab", port[p].style, port[p].line, TRUE, port[p].tc) /\ KeepsBuffers
  BY <1>0, <1>2 DEF PortRecord, Becomes, KeepsBuffers
<1>3. ASSUME port' = [port EXCEPT ![p] = [port[p] EXCEPT !.timer = FALSE, !.line = "Rdm", !.tc = FALSE]]
      PROVE  Becomes(p, port[p].direction, port[p].state, port[p].tx, port[p].rdm, port[p].style, "Rdm", FALSE, FALSE) /\ KeepsBuffers
  BY <1>0, <1>3 DEF PortRecord, Becomes, KeepsBuffers
<1>4. ASSUME port' = [port EXCEPT ![p] = [port[p] EXCEPT !.rdm = "Idle", !.timer = FALSE, !.direction = "Input", !.state = "Rx", !.listening = TRUE]]
      PROVE  Becomes(p, "Input", "Rx", port[p].tx, "Idle", port[p].style, port[p].line, FALSE, port[p].tc) /\ KeepsBuffers
  BY <1>0, <1>4 DEF PortRecord, Becomes, KeepsBuffers
<1> QED BY <1>1, <1>2, <1>3, <1>4

LEMMA DmaIsrEffect ==
  ASSUME Typed, NEW p \in Ports, DmaIsr(p)
  PROVE  /\ Becomes(p, port[p].direction, port[p].state,
                    IF port[p].tx # "Idle" /\ port[p].style = "Constant" THEN "Inter" ELSE "Idle",
                    IF port[p].tx = "Idle" /\ port[p].rdm # "Idle" THEN "Direction" ELSE port[p].rdm,
                    port[p].style, "Shifting", port'[p].timer, port[p].tc)
         /\ KeepsBuffers
<1>0. port \in [Ports -> PortRecord] /\ port[p] \in PortRecord
  BY PortType DEF Typed
<1> DEFINE dmx == port[p].tx # "Idle"
           rdm == ~dmx /\ port[p].rdm # "Idle"
           gap == dmx /\ port[p].style = "Constant"
           timer == port[p].timer \/ gap \/ rdm
           tx == IF gap THEN "Inter" ELSE "Idle"
           turn == IF rdm THEN "Direction" ELSE port[p].rdm
<1>1. port' = [port EXCEPT ![p] = [port[p] EXCEPT !.line = "Shifting", !.timer = timer,
                                                  !.tx = tx, !.rdm = turn]]
  BY DEF DmaIsr
<1>2. tx = (IF port[p].tx # "Idle" /\ port[p].style = "Constant" THEN "Inter" ELSE "Idle")
      /\ turn = (IF port[p].tx = "Idle" /\ port[p].rdm # "Idle" THEN "Direction" ELSE port[p].rdm)
  OBVIOUS
<1> HIDE DEF timer, tx, turn
<1>3. /\ Becomes(p, port[p].direction, port[p].state, tx, turn, port[p].style, "Shifting",
                 port'[p].timer, port[p].tc)
      /\ KeepsBuffers
  BY <1>0, <1>1 DEF PortRecord, Becomes, KeepsBuffers
<1> QED BY <1>2, <1>3

LEMMA SetSendDataEffect ==
  ASSUME Typed, NEW p \in Ports, NEW x, NEW s, SetSendData(p, x, s)
  PROVE  /\ Becomes(p, port[p].direction, port[p].state, port[p].tx, port[p].rdm, port[p].style, port[p].line, port[p].timer, port[p].tc)
         /\ wire' = wire
         /\ port'[p].write # port'[p].read /\ port'[p].stray = port[p].stray
<1>0. port \in [Ports -> PortRecord] /\ port[p] \in PortRecord
  BY PortType DEF Typed
<1> DEFINE w == IF port[p].read = port[p].write THEN 1 - port[p].write ELSE port[p].write
<1>1. port' = [port EXCEPT ![p] = [port[p] EXCEPT !.write = w, !.raced = FALSE]] /\ wire' = wire
  BY DEF SetSendData, Only
<1>2. w # port[p].read
  BY <1>0 DEF PortRecord
<1> HIDE DEF w
<1> QED BY <1>0, <1>1, <1>2 DEF PortRecord, Becomes

LEMMA BeginCopyEffect ==
  ASSUME Typed, NEW p \in Ports, BeginCopy(p)
  PROVE  Becomes(p, port[p].direction, port[p].state, port[p].tx, port[p].rdm, port[p].style, port[p].line, port[p].timer, port[p].tc)
<1>0. port \in [Ports -> PortRecord] /\ port[p] \in PortRecord
  BY PortType DEF Typed
<1> DEFINE w == port[p].write
<1>1. port' = [port EXCEPT ![p] = [port[p] EXCEPT !.pending = TRUE, !.buffer[w] = Partial]]
  BY DEF BeginCopy
<1> QED BY <1>0, <1>1 DEF PortRecord, Becomes

----------------------------------------------------------------------------
(* What goes out: the packet that is due, and undisturbed. *)

\* A call does nothing to a port but to choose the buffer.
LEMMA CallsKeep ==
  ASSUME Typed, Calls, NEW q \in Ports
  PROVE  /\ port'[q].direction = port[q].direction /\ port'[q].state = port[q].state
         /\ port'[q].tx = port[q].tx /\ port'[q].rdm = port[q].rdm
         /\ port'[q].style = port[q].style /\ port'[q].line = port[q].line
         /\ port'[q].timer = port[q].timer /\ port'[q].tc = port[q].tc
         /\ wire'[q] = wire[q]
<1>1. CASE \E p \in Ports, x \in Packets, s \in Begins : SetSendData(p, x, s)
  BY <1>1, SetSendDataEffect DEF Becomes
<1>2. CASE ~ \E p \in Ports, x \in Packets, s \in Begins : SetSendData(p, x, s)
  <2>1. port' = port /\ wire' = wire
    BY <1>2 DEF Calls, Start, Stop, StartInput, StopInput, Sync, ChangeStyle, Blackout,
                RdmTransmit, RdmTransmitDiscoveryRespondMessage, Only, Begins
  <2> QED BY <2>1
<1> QED BY <1>1, <1>2

\* Only the hand-over of a packet and a blackout write to the buffers.
LEMMA BuffersKept ==
  ASSUME Typed, Next,
         ~ \E p \in Ports : \/ BeginCopy(p) \/ EndCopy(p) \/ ClearData(p)
                            \/ \E x \in Packets, s \in Begins : SetSendData(p, x, s)
  PROVE  KeepsBuffers /\ expected' = expected
<1>1. ASSUME Calls PROVE KeepsBuffers /\ expected' = expected
  <2>1. port' = port /\ expected' = expected
    BY <1>1 DEF Calls, Start, Stop, StartInput, StopInput, Sync, ChangeStyle, Blackout,
                RdmTransmit, RdmTransmitDiscoveryRespondMessage, Only, Begins
  <2> QED BY <2>1 DEF KeepsBuffers
<1>2. ASSUME NEW p \in Ports, Interrupts(p) PROVE KeepsBuffers /\ expected' = expected
  <2>1. KeepsBuffers
    BY <1>2, CounterWrapsEffect, TimerDmxEffect, TimerRdmEffect, TimerIdleEffect, DmaIsrEffect,
       TransmissionCompleteEffect DEF Interrupts
  <2>2. expected' = expected
    BY <1>2 DEF Interrupts, CounterWraps, TimerDmx, TimerRdm, TimerIdle, DmaIsr,
                TransmissionComplete, InterruptOnly
  <2> QED BY <2>1, <2>2
<1>3. ASSUME Superloop PROVE KeepsBuffers /\ expected' = expected
  <2>1. PICK p \in Ports :
          \/ ChangeDirection(p)
          \/ DataEnableOutput(p) \/ DataEnableInput(p)
          \/ DataDisableIdle(p) \/ DataDisableOutput(p) \/ DataDisableInput(p)
          \/ DrainIdle(p) \/ DrainInter(p) \/ DrainComplete(p)
          \/ SetOutputStyle(p) \/ StartDmxOutput(p) \/ SyncPort(p) \/ BlackoutPort(p)
          \/ StartRdmOutput(p) \/ WriteResponse(p)
    BY <1>3 DEF Superloop
  <2>2. expected' = expected
    BY <2>1 DEF ChangeDirection, DataEnableOutput, DataEnableInput, DataDisableIdle,
         DataDisableOutput, DataDisableInput, DrainIdle, DrainInter, DrainComplete,
         SetOutputStyle, StartDmxOutput, SyncPort, BlackoutPort, StartRdmOutput, WriteResponse,
         Only
  <2>3. CASE DataDisableIdle(p) \/ DrainIdle(p) \/ BlackoutPort(p) \/ WriteResponse(p)
    BY <2>2, <2>3 DEF DataDisableIdle, DrainIdle, BlackoutPort, WriteResponse, KeepsBuffers
  <2>4. CASE ~(DataDisableIdle(p) \/ DrainIdle(p) \/ BlackoutPort(p) \/ WriteResponse(p))
    BY <2>1, <2>2, <2>4, ChangeDirectionEffect, DataEnableOutputEffect, DataEnableInputEffect,
       DataDisableOutputEffect, DataDisableInputEffect, DrainInterEffect, DrainCompleteEffect,
       SetOutputStyleEffect, StartDmxOutputEffect, SyncPortEffect, StartRdmOutputEffect
  <2> QED BY <2>3, <2>4
<1> QED BY <1>1, <1>2, <1>3 DEF Next

\* The program goes from one copy to the next only by the end of the first.
LEMMA CopyingKept ==
  ASSUME Next, NEW q \in Ports, Copying(q)
  PROVE  Copying(q)' \/ EndCopy(q)
<1> USE DEF Copying, Now, Only, InterruptOnly
<1>1. ~Calls
  BY DEF Calls, Start, Stop, StartInput, StopInput, SetSendData, Sync, ChangeStyle, Blackout,
         RdmTransmit, RdmTransmitDiscoveryRespondMessage, Call
<1>2. Superloop => Copying(q)' \/ EndCopy(q)
  <2>1. Superloop => BeginCopy(q) \/ EndCopy(q)
    BY DEF Superloop, ChangeDirection, DataEnableOutput, DataEnableInput, DataDisableIdle,
           DataDisableOutput, DataDisableInput, DrainIdle, DrainInter, DrainComplete,
           SetOutputStyle, StartDmxOutput, BeginCopy, EndCopy, SyncPort, ClearData,
           BlackoutPort, StartRdmOutput, WriteResponse
  <2>2. BeginCopy(q) => Copying(q)'
    BY DEF BeginCopy, Then, DoWith
  <2> QED BY <2>1, <2>2
<1>3. ASSUME NEW p \in Ports, Interrupts(p) PROVE todo' = todo
  BY <1>3 DEF Interrupts, CounterWraps, TimerDmx, TimerRdm, TimerIdle, DmaIsr,
              TransmissionComplete
<1> QED BY <1>1, <1>2, <1>3 DEF Next

LEMMA DueNext == Typed /\ DueInv /\ [Next]_vars => DueInv'
<1> SUFFICES ASSUME Typed, DueInv, [Next]_vars, NEW q \in Ports, ~Copying(q)'
             PROVE  port'[q].buffer[port'[q].write] \in expected'[q]
  BY DEF DueInv
<1>1. CASE UNCHANGED vars
  BY <1>1 DEF vars, DueInv, Copying, Now
<1>2. ASSUME NEW p \in Ports, NEW x \in Packets, NEW s \in Begins, SetSendData(p, x, s)
      PROVE  port'[q].buffer[port'[q].write] \in expected'[q]
  <2>1. ~Copying(q)
    BY <1>2 DEF SetSendData, Call, Copying, Now
  <2>2. Copying(p)'
    BY <1>2 DEF SetSendData, Call, Copying, Now, DoWith, Begins
  <2>3. q # p
    BY <2>2
  <2>4. port'[q] = port[q] /\ expected' = expected
    BY <1>2, <2>3 DEF SetSendData, Only, Typed
  <2> QED BY <2>1, <2>4 DEF DueInv
<1>6. ASSUME NEW p \in Ports, BeginCopy(p)
      PROVE  port'[q].buffer[port'[q].write] \in expected'[q]
  <2>1. ~Copying(p) \/ q # p
    <3>1. Copying(p)'
      BY <1>6 DEF BeginCopy, Then, Copying, Now, DoWith
    <3> QED BY <3>1
  <2>2. q # p
    BY <1>6, <2>1 DEF BeginCopy, Copying
  <2>3. ~Copying(q)
    BY <1>6, <2>2 DEF BeginCopy, Copying, Now
  <2>4. port'[q] = port[q] /\ expected' = expected
    BY <1>6, <2>2 DEF BeginCopy, Typed
  <2> QED BY <2>3, <2>4 DEF DueInv
<1>3. ASSUME NEW p \in Ports, EndCopy(p)
      PROVE  port'[q].buffer[port'[q].write] \in expected'[q]
  <2>1. CASE q = p
    <3>1. port[q].buffer \in [{0, 1} -> Packets \cup {Dark, Partial}] /\ port[q].write \in {0, 1}
      BY PortType DEF PortRecord
    <3>2. /\ port'[q].buffer = [port[q].buffer EXCEPT ![port[q].write] = With]
          /\ port'[q].write = port[q].write /\ expected'[q] = {With}
      BY <1>3, <2>1, EndCopyEffect DEF EndCopy, Typed
    <3> QED BY <3>1, <3>2
  <2>2. CASE q # p
    <3>1. ~Copying(q)
      BY <1>3, <2>2 DEF EndCopy, Copying, Now
    <3>2. port'[q] = port[q] /\ expected'[q] = expected[q]
      BY <1>3, <2>2 DEF EndCopy, Typed
    <3> QED BY <3>1, <3>2 DEF DueInv
  <2> QED BY <2>1, <2>2
<1>4. ASSUME NEW p \in Ports, ClearData(p)
      PROVE  port'[q].buffer[port'[q].write] \in expected'[q]
  <2>1. ~Copying(q)
    BY <1>4 DEF ClearData, Copying, Now
  <2>2. CASE q = p
    <3>1. port[q].buffer \in [{0, 1} -> Packets \cup {Dark, Partial}] /\ port[q].write \in {0, 1}
      BY PortType DEF PortRecord
    <3>2. /\ port'[q].buffer = [port[q].buffer EXCEPT ![0] = Dark]
          /\ port'[q].write = port[q].write /\ expected'[q] = expected[q] \cup {Dark}
      BY <1>4, <2>2, ClearDataEffect DEF ClearData, Typed
    <3>3. port[q].buffer[port[q].write] \in expected[q]
      BY <2>1 DEF DueInv
    <3> QED BY <3>1, <3>2, <3>3
  <2>3. CASE q # p
    <3>1. port'[q] = port[q] /\ expected'[q] = expected[q]
      BY <1>4, <2>3 DEF ClearData, Typed
    <3> QED BY <2>1, <3>1 DEF DueInv
  <2> QED BY <2>2, <2>3
<1>5. ASSUME Next,
             ~ \E p \in Ports : \/ BeginCopy(p) \/ EndCopy(p) \/ ClearData(p)
                                \/ \E x \in Packets, s \in Begins : SetSendData(p, x, s)
      PROVE  port'[q].buffer[port'[q].write] \in expected'[q]
  <2>1. ~Copying(q)
    BY <1>5, CopyingKept
  <2>2. KeepsBuffers /\ expected' = expected
    BY <1>5, BuffersKept
  <2> QED BY <2>1, <2>2 DEF DueInv, KeepsBuffers
<1> QED BY <1>1, <1>2, <1>3, <1>4, <1>5, <1>6

LEMMA DueInductive == Spec => [](Typed /\ DueInv)
<1>1. Init => DueInv
  BY DEF Init, PowerOn, DueInv
<1> QED BY <1>1, TypeInit, TypeNext, DueNext, PTL DEF Spec

\* Only the timer starts a packet.
LEMMA SuperloopKeepsLine ==
  ASSUME Typed, Superloop, NEW q \in Ports
  PROVE  port'[q].line = port[q].line
<1>1. PICK p \in Ports :
        \/ ChangeDirection(p)
        \/ DataEnableOutput(p) \/ DataEnableInput(p)
        \/ DataDisableIdle(p) \/ DataDisableOutput(p) \/ DataDisableInput(p)
        \/ DrainIdle(p) \/ DrainInter(p) \/ DrainComplete(p)
        \/ SetOutputStyle(p) \/ StartDmxOutput(p)
        \/ BeginCopy(p) \/ EndCopy(p) \/ SyncPort(p) \/ ClearData(p) \/ BlackoutPort(p)
        \/ StartRdmOutput(p) \/ WriteResponse(p)
  BY DEF Superloop
<1>2. CASE ChangeDirection(p)
  BY <1>2, ChangeDirectionEffect DEF Becomes
<1>3. CASE DataEnableOutput(p)
  BY <1>3, DataEnableOutputEffect DEF Becomes
<1>4. CASE DataEnableInput(p)
  BY <1>4, DataEnableInputEffect DEF Becomes
<1>5. CASE DataDisableIdle(p)
  BY <1>5 DEF DataDisableIdle
<1>6. CASE DataDisableOutput(p)
  BY <1>6, DataDisableOutputEffect DEF Becomes
<1>7. CASE DataDisableInput(p)
  BY <1>7, DataDisableInputEffect DEF Becomes
<1>8. CASE DrainIdle(p)
  BY <1>8 DEF DrainIdle
<1>9. CASE DrainInter(p)
  BY <1>9, DrainInterEffect DEF Becomes
<1>10. CASE DrainComplete(p)
  BY <1>10, DrainCompleteEffect DEF Becomes
<1>11. CASE SetOutputStyle(p)
  BY <1>11, SetOutputStyleEffect DEF Becomes
<1>12. CASE StartDmxOutput(p)
  BY <1>12, StartDmxOutputEffect DEF Becomes
<1>13. CASE EndCopy(p)
  BY <1>13, EndCopyEffect DEF Becomes
<1>14. CASE SyncPort(p)
  BY <1>14, SyncPortEffect DEF Becomes
<1>15. CASE ClearData(p)
  BY <1>15, ClearDataEffect DEF Becomes
<1>16. CASE BlackoutPort(p)
  BY <1>16 DEF BlackoutPort
<1>17. CASE StartRdmOutput(p)
  BY <1>17, StartRdmOutputEffect DEF Becomes
<1>18. CASE WriteResponse(p)
  BY <1>18 DEF WriteResponse
<1>19. CASE BeginCopy(p)
  BY <1>19, BeginCopyEffect DEF Becomes
<1> QED
  BY <1>1, <1>2, <1>3, <1>4, <1>5, <1>6, <1>7, <1>8, <1>9, <1>10, <1>11, <1>12, <1>13, <1>14,
     <1>15, <1>16, <1>17, <1>18, <1>19

\* A packet that starts carries the data handed over last, for any ports and packets.
THEOREM PacketIsNewest == Spec => NewestPacket
<1>1. ASSUME Typed, DueInv, Next, NEW p \in Ports,
             port[p].line # "Dmx", port'[p].line = "Dmx", ~Copying(p)
      PROVE  wire'[p] \in expected[p]
  <2> USE <1>1
  <2>1. ~Calls /\ ~Superloop
    BY CallsKeep, SuperloopKeepsLine
  <2>2. PICK q \in Ports : Interrupts(q)
    BY <2>1 DEF Next
  <2>3. TimerDmx(q)
    <3>1. CASE CounterWraps(q) \/ TimerIdle(q)
      BY <3>1, CounterWrapsEffect, TimerIdleEffect DEF Becomes
    <3>2. CASE TimerRdm(q)
      <4>1. port'[q].line \in {port[q].line, "Rdm"} /\ \A r \in Ports \ {q} : port'[r] = port[r]
        BY <3>2, TimerRdmEffect DEF Becomes
      <4> QED BY <4>1
    <3>3. CASE DmaIsr(q) \/ TransmissionComplete(q)
      BY <3>3, DmaIsrEffect, TransmissionCompleteEffect DEF Becomes
    <3> QED BY <2>2, <3>1, <3>2, <3>3 DEF Interrupts
  <2>4. q = p /\ wire' = [wire EXCEPT ![p] = port[p].buffer[port[p].write]]
    BY <2>3, TimerDmxEffect DEF Becomes
  <2>5. wire'[p] = port[p].buffer[port[p].write]
    BY <2>4 DEF Typed
  <2> QED BY <2>5 DEF DueInv
<1>2. Typed /\ DueInv /\ [Next]_vars
        => [\A p \in Ports : port[p].line # "Dmx" /\ port'[p].line = "Dmx" /\ ~Copying(p)
              => wire'[p] \in expected[p]]_vars
  BY <1>1
<1> QED BY <1>2, DueInductive, PTL DEF Spec, NewestPacket

LEMMA LineNext == Typed /\ LineInv /\ [Next]_vars => LineInv'
<1> SUFFICES ASSUME Typed, LineInv, [Next]_vars, NEW q \in Ports
             PROVE  /\ port'[q].tc => port'[q].line = "Quiet"
                    /\ port'[q].line = "Dmx" => port'[q].tx \in {"Idle", "Mab"}
                    /\ port'[q].line = "Dmx" /\ port'[q].tx = "Mab" => ~port'[q].timer
  BY DEF LineInv
<1>1. /\ port[q].tc => port[q].line = "Quiet"
      /\ port[q].line = "Dmx" => port[q].tx \in {"Idle", "Mab"}
      /\ port[q].line = "Dmx" /\ port[q].tx = "Mab" => ~port[q].timer
  BY DEF LineInv
<1> DEFINE Ok == /\ port'[q].tc => port'[q].line = "Quiet"
                 /\ port'[q].line = "Dmx" => port'[q].tx \in {"Idle", "Mab"}
                 /\ port'[q].line = "Dmx" /\ port'[q].tx = "Mab" => ~port'[q].timer
<1>2. CASE Calls
  BY <1>1, <1>2, CallsKeep
<1>3. CASE UNCHANGED vars
  BY <1>1, <1>3 DEF vars
<1>4. CASE Superloop
  <2>1. PICK p \in Ports :
          \/ ChangeDirection(p)
          \/ DataEnableOutput(p) \/ DataEnableInput(p)
          \/ DataDisableIdle(p) \/ DataDisableOutput(p) \/ DataDisableInput(p)
          \/ DrainIdle(p) \/ DrainInter(p) \/ DrainComplete(p)
          \/ SetOutputStyle(p) \/ StartDmxOutput(p)
          \/ BeginCopy(p) \/ EndCopy(p) \/ SyncPort(p) \/ ClearData(p) \/ BlackoutPort(p)
          \/ StartRdmOutput(p) \/ WriteResponse(p)
    BY <1>4 DEF Superloop
  <2>2. CASE ChangeDirection(p)
    BY <1>1, <2>2, ChangeDirectionEffect DEF Becomes
  <2>3. CASE DataEnableOutput(p)
    BY <1>1, <2>3, DataEnableOutputEffect DEF Becomes
  <2>4. CASE DataEnableInput(p)
    BY <1>1, <2>4, DataEnableInputEffect DEF Becomes
  <2>5. CASE DataDisableIdle(p)
    BY <1>1, <2>5 DEF DataDisableIdle
  <2>6. CASE DataDisableOutput(p)
    BY <1>1, <2>6, DataDisableOutputEffect DEF Becomes
  <2>7. CASE DataDisableInput(p)
    BY <1>1, <2>7, DataDisableInputEffect DEF Becomes
  <2>8. CASE DrainIdle(p)
    BY <1>1, <2>8 DEF DrainIdle
  <2>9. CASE DrainInter(p)
    BY <1>1, <2>9, DrainInterEffect DEF Becomes
  <2>10. CASE DrainComplete(p)
    BY <1>1, <2>10, DrainCompleteEffect DEF Becomes
  <2>11. CASE SetOutputStyle(p)
    BY <1>1, <2>11, SetOutputStyleEffect DEF Becomes
  <2>12. CASE StartDmxOutput(p)
    <3>1. /\ \A r \in Ports \ {p} : port'[r] = port[r]
          /\ port[p].tc /\ port'[p].line = port[p].line /\ port'[p].tc = port[p].tc
          /\ port'[p].tx = "Break"
      BY <2>12, StartDmxOutputEffect DEF Becomes, StartDmxOutput
    <3> QED BY <1>1, <3>1
  <2>13. CASE EndCopy(p)
    BY <1>1, <2>13, EndCopyEffect DEF Becomes
  <2>14. CASE SyncPort(p)
    BY <1>1, <2>14, SyncPortEffect DEF Becomes
  <2>15. CASE ClearData(p)
    BY <1>1, <2>15, ClearDataEffect DEF Becomes
  <2>16. CASE BlackoutPort(p)
    BY <1>1, <2>16 DEF BlackoutPort
  <2>17. CASE StartRdmOutput(p)
    <3>1. /\ \A r \in Ports \ {p} : port'[r] = port[r]
          /\ port[p].tc /\ port'[p].line = port[p].line /\ port'[p].tx = port[p].tx
      BY <2>17, StartRdmOutputEffect DEF Becomes, StartRdmOutput
    <3> QED BY <1>1, <3>1
  <2>18. CASE WriteResponse(p)
    BY <1>1, <2>18 DEF WriteResponse
  <2>19. CASE BeginCopy(p)
    BY <1>1, <2>19, BeginCopyEffect DEF Becomes
  <2> QED
    BY <2>1, <2>2, <2>3, <2>4, <2>5, <2>6, <2>7, <2>8, <2>9, <2>10, <2>11, <2>12, <2>13, <2>14,
       <2>15, <2>16, <2>17, <2>18, <2>19
<1>5. ASSUME NEW p \in Ports, Interrupts(p) PROVE Ok
  <2>1. CASE CounterWraps(p)
    BY <1>1, <2>1, CounterWrapsEffect DEF Becomes, CounterWraps
  <2>2. CASE TimerDmx(p)
    BY <1>1, <2>2, TimerDmxEffect DEF Becomes
  <2>3. CASE TimerRdm(p)
    <3>1. CASE q # p
      BY <1>1, <2>3, <3>1, TimerRdmEffect DEF Becomes
    <3>2. CASE q = p
      <4>1. port[q].tx = "Idle"
        BY <2>3, <3>2 DEF TimerRdm
      <4>2. /\ port'[q].tx = port[q].tx
            /\ \/ port'[q].line = port[q].line /\ port'[q].tc = port[q].tc
               \/ port'[q].line = "Rdm" /\ port'[q].tc = FALSE
        BY <2>3, <3>2, TimerRdmEffect DEF Becomes
      <4> QED BY <1>1, <4>1, <4>2
    <3> QED BY <3>1, <3>2
  <2>4. CASE TimerIdle(p)
    BY <1>1, <2>4, TimerIdleEffect DEF Becomes
  <2>5. CASE DmaIsr(p)
    <3>1. /\ \A r \in Ports \ {p} : port'[r] = port[r]
          /\ port[p].line # "Quiet" /\ port'[p].line = "Shifting" /\ port'[p].tc = port[p].tc
      BY <2>5, DmaIsrEffect DEF Becomes, DmaIsr
    <3> QED BY <1>1, <3>1
  <2>6. CASE TransmissionComplete(p)
    BY <1>1, <2>6, TransmissionCompleteEffect DEF Becomes
  <2> QED BY <1>5, <2>1, <2>2, <2>3, <2>4, <2>5, <2>6 DEF Interrupts
<1> QED BY <1>2, <1>3, <1>4, <1>5 DEF Next

LEMMA LineInductive == Spec => [](Typed /\ LineInv)
<1>1. Init => LineInv
  BY DEF Init, PowerOn, LineInv
<1> QED BY <1>1, TypeInit, TypeNext, LineNext, PTL DEF Spec

----------------------------------------------------------------------------
(* One kind of work at a time, whatever the styles. *)

LEMMA HeadFacts ==
  ASSUME Typed, todo # <<>>
  PROVE  /\ Head(todo) = todo[1] /\ Len(todo) \in Nat \ {0} /\ todo[1] \in Step
         /\ DOMAIN todo = 1 .. Len(todo)
         /\ \A i \in 1 .. Len(todo) : todo[i] \in Step
BY LenProperties, EmptySeq, ElementOfSeq DEF Typed

LEMMA PairOfSteps ==
  ASSUME NEW a \in Step, NEW b \in Step
  PROVE  <<a>> \o <<b>> = <<a, b>>
<1> DEFINE c == <<a>> \o <<b>>
           d == <<a, b>>
<1>1. <<a>> \in Seq(Step) /\ <<b>> \in Seq(Step) /\ d \in Seq(Step)
  BY ShortPrograms
<1>2. Len(<<a>>) = 1 /\ Len(<<b>>) = 1 /\ Len(d) = 2 /\ d[1] = a /\ d[2] = b
  OBVIOUS
<1>3. /\ c \in Seq(Step) /\ Len(c) = Len(<<a>>) + Len(<<b>>)
      /\ \A i \in 1 .. Len(<<a>>) + Len(<<b>>) :
           c[i] = IF i <= Len(<<a>>) THEN <<a>>[i] ELSE <<b>>[i - Len(<<a>>)]
  BY <1>1, ConcatProperties
<1>4. Len(c) = 2 /\ c[1] = a /\ c[2] = b
  BY <1>2, <1>3
<1> HIDE DEF c, d
<1>5. c = d
  BY <1>1, <1>2, <1>3, <1>4, SeqEqual
<1> QED BY <1>5 DEF c, d

\* Every element of a set is in its sequence.
LEMMA SetToSeqIsOnto ==
  ASSUME NEW S, IsFiniteSet(S)
  PROVE  \A x \in S : \E i \in 1 .. Len(SetToSeq(S)) : SetToSeq(S)[i] = x
<1> DEFINE n == Cardinality(S)
           f == SetToSeq(S)
<1>1. n \in Nat /\ ExistsBijection(1 .. n, S)
  BY FS_CardinalityType
<1>2. \E g \in [1 .. n -> S] : IsInjective(g)
  BY <1>1 DEF ExistsBijection, Bijection, Injection
<1>3. f \in [1 .. n -> S] /\ IsInjective(f)
  BY <1>2 DEF SetToSeq
<1>4. Cardinality(1 .. n) = n
  BY <1>1, FS_Interval
<1> HIDE DEF f
<1>5. f \in Injection(1 .. n, S)
  BY <1>3 DEF Injection
<1>6. f \in Surjection(1 .. n, S)
  BY <1>4, <1>5, FS_Injection DEF n
<1>7. Len(f) = n
  BY <1>1, <1>3
<1>8. \A x \in S : \E i \in 1 .. n : f[i] = x
  BY <1>6 DEF Surjection
<1> QED BY <1>7, <1>8 DEF f

\* One program after another of the same length.
LEMMA TwoRounds ==
  ASSUME NEW n \in Nat, NEW x \in Seq(Step), NEW y \in Seq(Step), Len(x) = n, Len(y) = n
  PROVE  \E s \in Seq(Step) :
           /\ s = x \o y /\ Len(s) = n + n
           /\ \A i \in 1 .. n : /\ s[i] = x[i] /\ s[i + n] = y[i]
                                /\ i + n \in i + 1 .. n + n /\ i + n \in 1 .. n + n
           /\ \A i \in 1 .. n + n : i \notin 1 .. n => \E k \in 1 .. n : s[i] = y[k]
<1> DEFINE s == x \o y
<1>1. /\ s \in Seq(Step) /\ Len(s) = n + n
      /\ \A i \in 1 .. n + n : s[i] = IF i <= n THEN x[i] ELSE y[i - n]
  <2>1. /\ x \o y \in Seq(Step) /\ Len(x \o y) = Len(x) + Len(y)
        /\ \A i \in 1 .. Len(x) + Len(y) :
             (x \o y)[i] = IF i <= Len(x) THEN x[i] ELSE y[i - Len(x)]
    <3> HIDE DEF s
    <3> QED BY ConcatProperties, ZenonT(30)
  <2> QED BY <2>1
<1>0. s = x \o y
  OBVIOUS
<1> HIDE DEF s
<1>2. ASSUME NEW i \in 1 .. n
      PROVE  /\ s[i] = x[i] /\ s[i + n] = y[i]
             /\ i + n \in i + 1 .. n + n /\ i + n \in 1 .. n + n
  <2>1. i \in 1 .. n + n /\ i + n \in 1 .. n + n /\ ~(i + n <= n) /\ (i + n) - n = i
    OBVIOUS
  <2> QED BY <1>1, <2>1
<1>3. ASSUME NEW i \in 1 .. n + n, i \notin 1 .. n PROVE \E k \in 1 .. n : s[i] = y[k]
  <2>1. i - n \in 1 .. n /\ ~(i <= n)
    BY <1>3
  <2> QED BY <1>1, <2>1
<1> QED BY <1>0, <1>1, <1>2, <1>3

\* The program by which continuous ports are stopped and then started together.
EachOf(t, what) == [i \in 1 .. Len(t) |-> Do(what, t[i])]
Together(ports) ==
  EachOf(SetToSeq(ports), "DataDisable") \o EachOf(SetToSeq(ports), "StartDmxOutput")

LEMMA TogetherSteps ==
  ASSUME NEW ports \in SUBSET Ports, NEW s, s = Together(ports)
  PROVE  /\ s \in Seq(Step)
         /\ \A i \in 1 .. Len(s) : s[i].do \in {"DataDisable", "StartDmxOutput"}
         /\ \A i \in 1 .. Len(s) : s[i].do = "DataDisable" =>
              \E k \in i + 1 .. Len(s) : s[k].do = "StartDmxOutput" /\ s[k].port = s[i].port
         /\ \A q \in ports : \E k \in 1 .. Len(s) : s[k].do = "StartDmxOutput" /\ s[k].port = q
<1> DEFINE t == SetToSeq(ports)
           n == Len(t)
           each(what) == [i \in 1 .. n |-> Do(what, t[i])]
<1>1. IsFiniteSet(ports)
  BY PortAssumption, FS_Subset
<1>2. t \in Seq(ports) /\ \A q \in ports : \E i \in 1 .. n : t[i] = q
  BY <1>1, SetToSeqType, SetToSeqIsOnto
<1>3. n \in Nat /\ \A i \in 1 .. n : t[i] \in Ports
  BY <1>2, LenProperties, ElementOfSeq
<1> HIDE DEF t, n
<1>4. ASSUME NEW what \in {"DataDisable", "StartDmxOutput"}
      PROVE  /\ each(what) \in Seq(Step) /\ Len(each(what)) = n
             /\ \A i \in 1 .. n : each(what)[i].do = what /\ each(what)[i].port = t[i]
  <2>1. \A i \in 1 .. n : Do(what, t[i]) \in Step
    BY <1>3, StepTypes DEF Plain, Steps, Copies, Begins
  <2>2. each(what) \in [1 .. n -> Step]
    BY <2>1
  <2>3. each(what) \in Seq(Step) /\ Len(each(what)) = n
    BY <1>3, <2>2, SeqDef
  <2> QED BY <2>3 DEF Do
<1> DEFINE x == each("DataDisable")
           y == each("StartDmxOutput")
<1>5. /\ x \in Seq(Step) /\ Len(x) = n /\ y \in Seq(Step) /\ Len(y) = n
      /\ \A i \in 1 .. n : /\ x[i].do = "DataDisable" /\ x[i].port = t[i]
                           /\ y[i].do = "StartDmxOutput" /\ y[i].port = t[i]
  BY <1>4
<1>6. s = x \o y
  BY DEF t, n, Together, EachOf
<1> HIDE DEF x, y
<1>7. /\ s \in Seq(Step) /\ Len(s) = n + n
      /\ \A i \in 1 .. n : /\ s[i] = x[i] /\ s[i + n] = y[i]
                           /\ i + n \in i + 1 .. n + n /\ i + n \in 1 .. n + n
      /\ \A i \in 1 .. n + n : i \notin 1 .. n => \E k \in 1 .. n : s[i] = y[k]
  <2>1. n \in Nat /\ x \in Seq(Step) /\ y \in Seq(Step) /\ Len(x) = n /\ Len(y) = n
    BY <1>3, <1>5
  <2>2. PICK z \in Seq(Step) :
          /\ z = x \o y /\ Len(z) = n + n
          /\ \A i \in 1 .. n : /\ z[i] = x[i] /\ z[i + n] = y[i]
                               /\ i + n \in i + 1 .. n + n /\ i + n \in 1 .. n + n
          /\ \A i \in 1 .. n + n : i \notin 1 .. n => \E k \in 1 .. n : z[i] = y[k]
    BY <2>1, TwoRounds
  <2>3. s = z
    BY <1>6, <2>2
  <2> QED BY <2>2, <2>3
<1>9. ASSUME NEW i \in 1 .. n + n, ~(i \in 1 .. n) PROVE s[i].do = "StartDmxOutput"
  BY <1>5, <1>7, <1>9
<1>10. ASSUME NEW i \in 1 .. n
       PROVE  /\ s[i].do = "DataDisable" /\ s[i].port = t[i]
              /\ s[i + n].do = "StartDmxOutput" /\ s[i + n].port = t[i]
              /\ i + n \in i + 1 .. n + n /\ i + n \in 1 .. n + n
  BY <1>5, <1>7
<1>11. \A i \in 1 .. Len(s) : s[i].do \in {"DataDisable", "StartDmxOutput"}
  BY <1>7, <1>9, <1>10
<1>12. ASSUME NEW i \in 1 .. Len(s), s[i].do = "DataDisable"
       PROVE  \E k \in i + 1 .. Len(s) : s[k].do = "StartDmxOutput" /\ s[k].port = s[i].port
  <2>1. i \in 1 .. n
    BY <1>7, <1>9, <1>12
  <2>2. /\ i + n \in i + 1 .. Len(s)
        /\ s[i + n].do = "StartDmxOutput" /\ s[i + n].port = s[i].port
    BY <1>7, <1>10, <2>1
  <2> QED BY <2>2
<1>13. ASSUME NEW q \in ports
       PROVE  \E k \in 1 .. Len(s) : s[k].do = "StartDmxOutput" /\ s[k].port = q
  <2>1. PICK i \in 1 .. n : t[i] = q
    BY <1>2
  <2> QED BY <1>7, <1>10, <2>1
<1> QED BY <1>7, <1>11, <1>12, <1>13

\* The steps that replace others.
Follow == {"DataDisable", "DataEnable", "Drain", "DrainComplete", "SetOutputStyle",
           "StartDmxOutput", "ClearData", "Direct", "Sync"}

\* How a step of the superloop goes on: which steps take its place and what becomes of
\* its port.
Continues(p, steps) ==
  /\ todo # <<>> /\ todo[1].port = p /\ Then(steps)
  /\ \A i \in 1 .. Len(steps) :
       /\ steps[i].do \in Follow
       /\ steps[i].do = "DataEnable" => steps[i].port = p /\ port[p].rdm = "Idle"
  /\ todo[1].do = "DirectionDisable" =>
       steps = <<Do("DataDisable", p)>> /\ port'[p].direction = todo[1].with
  /\ todo[1].do = "DataDisable" =>
       /\ port'[p].direction = port[p].direction
       /\ \/ steps = <<>> /\ (port[p].direction = "Output" => port'[p].state # "Tx")
          \/ steps = <<Do("Drain", p)>> /\ port'[p].state # "Tx"
  /\ todo[1].do = "Drain" =>
       steps = <<>> \/ steps = <<Do("DrainComplete", p), Do("Drain", p)>>
  /\ todo[1].do \in {"DrainComplete", "WriteResponse", "StartRdmOutput"} => steps = <<>>
  /\ \A q \in Ports :
       /\ q # p => port'[q] = port[q]
       /\ todo[1].do # "StartRdmOutput" => port'[q].rdm = port[q].rdm
       /\ todo[1].do # "DataEnable" => (port[q].state # "Tx" => port'[q].state # "Tx")

LEMMA SuperloopContinues ==
  ASSUME Typed, WorkInv, Superloop
  PROVE  \E p \in Ports, steps \in Seq(Step) : Continues(p, steps)
<1>0. todo # <<>> /\ Head(todo) = todo[1] /\ todo[1] \in Step
  <2>1. todo # <<>>
    BY DEF Superloop, ChangeDirection, DataEnableOutput, DataEnableInput, DataDisableIdle,
         DataDisableOutput, DataDisableInput, DrainIdle, DrainInter, DrainComplete,
         SetOutputStyle, StartDmxOutput, BeginCopy, EndCopy, SyncPort, ClearData, BlackoutPort,
         StartRdmOutput, WriteResponse, Now
  <2> QED BY <2>1, HeadFacts
<1>1. PICK p \in Ports :
        \/ ChangeDirection(p)
        \/ DataEnableOutput(p) \/ DataEnableInput(p)
        \/ DataDisableIdle(p) \/ DataDisableOutput(p) \/ DataDisableInput(p)
        \/ DrainIdle(p) \/ DrainInter(p) \/ DrainComplete(p)
        \/ SetOutputStyle(p) \/ StartDmxOutput(p)
        \/ BeginCopy(p) \/ EndCopy(p) \/ SyncPort(p) \/ ClearData(p) \/ BlackoutPort(p)
        \/ StartRdmOutput(p) \/ WriteResponse(p)
  BY DEF Superloop
<1>2. <<>> \in Seq(Step) /\ Len(<<>>) = 0
  BY ShortPrograms
<1>3. \A what \in Plain : <<Do(what, p)>> \in Seq(Step)
  BY StepTypes, ShortPrograms
<1> USE DEF Now, With, Follow
<1>5. CASE DataEnableOutput(p)
  <2> DEFINE s == DoWith("SetOutputStyle", p, port[p].style)
  <2>1. <<s>> \in Seq(Step) /\ s.do \in Follow \ {"StartDmxOutput", "DataEnable"} /\ s.port = p
    BY StepTypes, ShortPrograms, PortType DEF Plain, Steps, Copies, Begins, Do, DoWith
  <2>2. /\ \A q \in Ports \ {p} : port'[q] = port[q]
        /\ port'[p].direction = port[p].direction
        /\ port'[p].state = "Tx"
        /\ port'[p].rdm = port[p].rdm
    BY <1>5, DataEnableOutputEffect DEF Becomes
  <2>3. Then(<<s>>) /\ Now("DataEnable", p)
    BY <1>5 DEF DataEnableOutput
  <2>4. TRUE
    OBVIOUS
  <2> HIDE DEF s
  <2>5. Len(<<s>>) = 1 /\ <<s>>[1] = s
    OBVIOUS
  <2>6. Continues(p, <<s>>)
    BY <1>0, <2>1, <2>2, <2>3, <2>4, <2>5 DEF Continues
  <2> QED BY <2>1, <2>6
<1>6. CASE DataEnableInput(p)
  <2>1. /\ \A q \in Ports \ {p} : port'[q] = port[q]
        /\ port'[p].direction = port[p].direction
        /\ port'[p].state = "Rx"
        /\ port'[p].rdm = port[p].rdm
    BY <1>6, DataEnableInputEffect DEF Becomes
  <2>2. Then(<<>>) /\ Now("DataEnable", p) /\ port[p].direction = "Input"
    BY <1>6 DEF DataEnableInput
  <2>3. Continues(p, <<>>)
    BY <1>0, <1>2, <2>1, <2>2 DEF Continues
  <2> QED BY <1>2, <2>3
<1>7. CASE DataDisableIdle(p)
  <2>1. Continues(p, <<>>)
    BY <1>0, <1>2, <1>7 DEF DataDisableIdle, Continues
  <2> QED BY <1>2, <2>1
<1>8. CASE DataDisableInput(p)
  <2>1. /\ \A q \in Ports \ {p} : port'[q] = port[q]
        /\ port'[p].direction = port[p].direction
        /\ port'[p].state = "Idle"
        /\ port'[p].rdm = port[p].rdm
    BY <1>8, DataDisableInputEffect DEF Becomes
  <2>2. Then(<<>>) /\ Now("DataDisable", p) /\ port[p].direction = "Input"
    BY <1>8 DEF DataDisableInput
  <2>3. Continues(p, <<>>)
    BY <1>0, <1>2, <2>1, <2>2 DEF Continues
  <2> QED BY <1>2, <2>3
<1>9. CASE DrainIdle(p)
  <2>1. Continues(p, <<>>)
    BY <1>0, <1>2, <1>9 DEF DrainIdle, Continues
  <2> QED BY <1>2, <2>1
<1>10. CASE DrainComplete(p)
  <2>1. /\ \A q \in Ports \ {p} : port'[q] = port[q]
        /\ port'[p].direction = port[p].direction
        /\ port'[p].state = port[p].state
        /\ port'[p].rdm = port[p].rdm
    BY <1>10, DrainCompleteEffect DEF Becomes
  <2>2. Then(<<>>) /\ Now("DrainComplete", p)
    BY <1>10 DEF DrainComplete
  <2>3. Continues(p, <<>>)
    BY <1>0, <1>2, <2>1, <2>2 DEF Continues
  <2> QED BY <1>2, <2>3
<1>11. CASE StartDmxOutput(p)
  <2>1. /\ \A q \in Ports \ {p} : port'[q] = port[q]
        /\ port'[p].direction = port[p].direction
        /\ port'[p].state = port[p].state
        /\ port'[p].rdm = port[p].rdm
    BY <1>11, StartDmxOutputEffect DEF Becomes
  <2>2. Then(<<>>) /\ Now("StartDmxOutput", p)
    BY <1>11 DEF StartDmxOutput
  <2>3. Continues(p, <<>>)
    BY <1>0, <1>2, <2>1, <2>2 DEF Continues
  <2> QED BY <1>2, <2>3
<1>12. CASE ClearData(p)
  <2>1. /\ \A q \in Ports \ {p} : port'[q] = port[q]
        /\ port'[p].direction = port[p].direction
        /\ port'[p].state = port[p].state
        /\ port'[p].rdm = port[p].rdm
    BY <1>12, ClearDataEffect DEF Becomes
  <2>2. Then(<<>>) /\ Now("ClearData", p)
    BY <1>12 DEF ClearData
  <2>3. Continues(p, <<>>)
    BY <1>0, <1>2, <2>1, <2>2 DEF Continues
  <2> QED BY <1>2, <2>3
<1>13. CASE StartRdmOutput(p)
  <2>1. /\ \A q \in Ports \ {p} : port'[q] = port[q]
        /\ port'[p].direction = port[p].direction
        /\ port'[p].state = port[p].state
    BY <1>13, StartRdmOutputEffect DEF Becomes
  <2>2. Then(<<>>) /\ Now("StartRdmOutput", p)
    BY <1>13 DEF StartRdmOutput
  <2>3. Continues(p, <<>>)
    BY <1>0, <1>2, <2>1, <2>2 DEF Continues
  <2> QED BY <1>2, <2>3
<1>14. CASE WriteResponse(p)
  <2>1. Continues(p, <<>>)
    BY <1>0, <1>2, <1>14 DEF WriteResponse, Continues
  <2> QED BY <1>2, <2>1
<1>15. CASE DataDisableOutput(p)
  <2> DEFINE s == Do("Drain", p)
  <2>1. <<s>> \in Seq(Step) /\ s.do \in Follow \ {"StartDmxOutput", "DataEnable"} /\ s.port = p
    BY StepTypes, ShortPrograms, PortType DEF Plain, Steps, Copies, Begins, Do, DoWith
  <2>2. /\ \A q \in Ports \ {p} : port'[q] = port[q]
        /\ port'[p].direction = port[p].direction
        /\ port'[p].state = "Idle"
        /\ port'[p].rdm = port[p].rdm
    BY <1>15, DataDisableOutputEffect DEF Becomes
  <2>3. Then(<<s>>) /\ Now("DataDisable", p)
    BY <1>15 DEF DataDisableOutput
  <2>4. s = Do("Drain", p)
    OBVIOUS
  <2> HIDE DEF s
  <2>5. Len(<<s>>) = 1 /\ <<s>>[1] = s
    OBVIOUS
  <2>6. Continues(p, <<s>>)
    BY <1>0, <2>1, <2>2, <2>3, <2>4, <2>5 DEF Continues
  <2> QED BY <2>1, <2>6
<1>16. CASE DrainInter(p)
  <2> DEFINE s == <<Do("DrainComplete", p), Do("Drain", p)>>
  <2>1. /\ s \in Seq(Step) /\ Len(s) = 2
        /\ s[1] = Do("DrainComplete", p) /\ s[2] = Do("Drain", p)
    BY StepTypes, ShortPrograms DEF Plain, Steps, Copies, Begins
  <2>2. Then(s) /\ Now("Drain", p) /\ s = <<Do("DrainComplete", p), Do("Drain", p)>>
    BY <1>16 DEF DrainInter
  <2>3. /\ \A q \in Ports \ {p} : port'[q] = port[q]
        /\ port'[p].state = port[p].state /\ port'[p].rdm = port[p].rdm
    BY <1>16, DrainInterEffect DEF Becomes
  <2> HIDE DEF s
  <2>4. \A i \in 1 .. Len(s) : s[i].do \in {"DrainComplete", "Drain"}
    <3>1. 1 .. Len(s) = {1, 2}
      BY <2>1
    <3> QED BY <2>1, <3>1 DEF Do
  <2>5. Continues(p, s)
    BY <1>0, <2>2, <2>3, <2>4 DEF Continues
  <2> QED BY <2>1, <2>5
<1>17. CASE SetOutputStyle(p)
  <2> DEFINE ports == {q \in Ports : port'[q].style = "Constant" /\ port[q].direction = "Output"}
  <2>1. /\ \A q \in Ports \ {p} : port'[q] = port[q]
        /\ port'[p].state = port[p].state /\ port'[p].rdm = port[p].rdm
        /\ Now("SetOutputStyle", p)
    BY <1>17, SetOutputStyleEffect DEF SetOutputStyle, Becomes
  <2>2. With \in {"Delta", "Constant"}
    BY <1>0, <2>1, StepFacts, StyleAssumption
  <2>4. CASE Then(<<>>)
    <3>1. Continues(p, <<>>)
      BY <1>0, <1>2, <2>1, <2>4 DEF Continues
    <3> QED BY <1>2, <3>1
  <2>5. CASE Then(<<Do("StartDmxOutput", p)>>)
    <3> DEFINE a == Do("StartDmxOutput", p)
    <3>1. <<a>> \in Seq(Step) /\ a.do = "StartDmxOutput"
      BY <1>3 DEF Plain, Steps, Copies, Begins, Do
    <3> HIDE DEF a
    <3>2. Len(<<a>>) = 1 /\ <<a>>[1] = a
      OBVIOUS
    <3>3. Then(<<a>>)
      BY <2>5 DEF a
    <3>4. Continues(p, <<a>>)
      BY <1>0, <2>1, <3>1, <3>2, <3>3 DEF Continues
    <3> QED BY <3>1, <3>4
  <2>6. CASE Then(Together(ports))
    <3> DEFINE t == Together(ports)
    <3>1. ports \in SUBSET Ports
      OBVIOUS
    <3> HIDE DEF ports
    <3>2. t = Together(ports)
      OBVIOUS
    <3> HIDE DEF t
    <3>3. t \in Seq(Step) /\ \A i \in 1 .. Len(t) : t[i].do \in {"DataDisable", "StartDmxOutput"}
      BY <3>1, <3>2, TogetherSteps
    <3>4. Then(t)
      BY <2>6, <3>2
    <3>5. Continues(p, t)
      BY <1>0, <2>1, <3>3, <3>4 DEF Continues
    <3> QED BY <3>3, <3>5
  <2>7. Then(<<>>) \/ Then(<<Do("StartDmxOutput", p)>>) \/ Then(Together(ports))
    BY <1>17, <2>2 DEF SetOutputStyle, Together, EachOf
  <2> QED BY <2>4, <2>5, <2>6, <2>7
<1>22. CASE BeginCopy(p)
  <2> DEFINE a == DoWith(IF Head(todo).do = "BeginDirect" THEN "Direct" ELSE "Sync", p, With)
  <2>1. With \in Packets /\ todo[1].do \in Begins /\ todo[1].port = p
    BY <1>0, <1>22, StepFacts DEF BeginCopy, Begins, Copies
  <2>2. a \in Step /\ a.do \in {"Direct", "Sync"}
    <3>1. \A w \in {"Direct", "Sync"} : DoWith(w, p, With) \in Step
      BY <2>1, StepTypes DEF Copies
    <3> QED BY <3>1 DEF DoWith
  <2>3. Then(<<a>>)
    BY <1>22 DEF BeginCopy
  <2> HIDE DEF a
  <2>4. <<a>> \in Seq(Step) /\ Len(<<a>>) = 1 /\ <<a>>[1] = a
    BY <2>2, ShortPrograms
  <2>5. /\ \A q \in Ports \ {p} : port'[q] = port[q]
        /\ port'[p].state = port[p].state /\ port'[p].rdm = port[p].rdm
    BY <1>22, BeginCopyEffect DEF Becomes
  <2>6. Continues(p, <<a>>)
    BY <1>0, <2>1, <2>2, <2>3, <2>4, <2>5 DEF Continues, Begins
  <2> QED BY <2>4, <2>6
<1>18. CASE EndCopy(p)
  <2>1. CASE MayTrigger(p) /\ Head(todo).do = "Direct"
    <3> DEFINE s == Do("StartDmxOutput", p)
    <3>1. <<s>> \in Seq(Step) /\ Len(<<s>>) = 1 /\ <<s>>[1] = s
      BY <1>3 DEF Plain, Steps, Copies, Begins
    <3>2. Continues(p, <<s>>)
      BY <1>0, <1>18, <2>1, <3>1, EndCopyEffect
         DEF EndCopy, Becomes, Continues, Do, Trigger, MayTrigger
    <3> QED BY <3>1, <3>2
  <2>2. CASE ~(MayTrigger(p) /\ Head(todo).do = "Direct")
    <3>1. Continues(p, <<>>)
      BY <1>0, <1>2, <1>18, <2>2, EndCopyEffect DEF EndCopy, Becomes, Continues, Trigger
    <3> QED BY <1>2, <3>1
  <2> QED BY <2>1, <2>2
<1>19. CASE SyncPort(p)
  <2>1. CASE MayTrigger(p) /\ port[p].pending
    <3> DEFINE s == Do("StartDmxOutput", p)
    <3>1. <<s>> \in Seq(Step) /\ Len(<<s>>) = 1 /\ <<s>>[1] = s
      BY <1>3 DEF Plain, Steps, Copies, Begins
    <3>2. Continues(p, <<s>>)
      BY <1>0, <1>19, <2>1, <3>1, SyncPortEffect
         DEF SyncPort, Becomes, Continues, Do, Trigger, MayTrigger
    <3> QED BY <3>1, <3>2
  <2>2. CASE ~(MayTrigger(p) /\ port[p].pending)
    <3>1. Continues(p, <<>>)
      BY <1>0, <1>2, <1>19, <2>2, SyncPortEffect DEF SyncPort, Becomes, Continues, Trigger
    <3> QED BY <1>2, <3>1
  <2> QED BY <2>1, <2>2
<1>20. CASE BlackoutPort(p)
  <2>0. port[p].rdm = "Idle"
    BY <1>0, <1>20, HeadFacts DEF BlackoutPort, WorkInv, EnableInv
  <2>1. CASE port[p].direction = "Output"
    <3> DEFINE s == <<Do("DataDisable", p), Do("ClearData", p), Do("DataEnable", p)>>
    <3>1. /\ s \in Seq(Step) /\ Len(s) = 3
          /\ s[1] = Do("DataDisable", p) /\ s[2] = Do("ClearData", p) /\ s[3] = Do("DataEnable", p)
      BY StepTypes, ShortPrograms DEF Plain, Steps, Copies, Begins
    <3>2. Then(s) /\ port' = port /\ Now("BlackoutPort", p)
      BY <1>20, <2>1 DEF BlackoutPort
    <3> HIDE DEF s
    <3>3. \A i \in 1 .. Len(s) :
            /\ s[i].do \in {"DataDisable", "ClearData", "DataEnable"} /\ s[i].port = p
      <4>1. 1 .. Len(s) = {1, 2, 3}
        BY <3>1
      <4> QED BY <3>1, <4>1 DEF Do
    <3>4. Continues(p, s)
      BY <1>0, <2>0, <3>2, <3>3 DEF Continues
    <3> QED BY <3>1, <3>4
  <2>2. CASE port[p].direction # "Output"
    <3>1. Continues(p, <<>>)
      BY <1>0, <1>2, <1>20, <2>2 DEF BlackoutPort, Continues
    <3> QED BY <1>2, <3>1
  <2> QED BY <2>1, <2>2
<1>21. CASE ChangeDirection(p)
  <2>0. Head(todo).do = "DirectionEnable" => port[p].rdm = "Idle"
    <3>1. 1 \in DOMAIN todo /\ Head(todo).port = p
      BY <1>0, <1>21, HeadFacts DEF ChangeDirection
    <3> QED BY <1>0, <3>1 DEF WorkInv, EnableInv
  <2> DEFINE a == Do("DataDisable", p)
             b == Do("DataEnable", p)
             s == (IF port[p].direction # With \/ ~(Head(todo).do = "DirectionEnable")
                   THEN <<a>> ELSE <<>>)
                  \o (IF Head(todo).do = "DirectionEnable" THEN <<b>> ELSE <<>>)
  <2>1. a \in Step /\ b \in Step /\ a.port = p /\ b.port = p
        /\ a.do = "DataDisable" /\ b.do = "DataEnable"
    BY StepTypes DEF Plain, Steps, Copies, Begins, Do
  <2>2. Then(s)
    BY <1>21 DEF ChangeDirection
  <2>3. \/ s = <<a>> /\ Head(todo).do = "DirectionDisable"
        \/ s \in {<<a, b>>, <<b>>} /\ Head(todo).do = "DirectionEnable"
    <3> HIDE DEF a, b
    <3>1. <<a>> \o <<>> = <<a>> /\ <<>> \o <<b>> = <<b>>
      BY <2>1, ShortPrograms, ConcatEmptySeq
    <3>3. <<a>> \o <<b>> = <<a, b>>
      BY <2>1, PairOfSteps
    <3>2. Head(todo).do \in {"DirectionEnable", "DirectionDisable"}
      BY <1>21 DEF ChangeDirection
    <3> QED BY <3>1, <3>2, <3>3
  <2> HIDE DEF s
  <2>4. s \in Seq(Step)
    BY <2>1, <2>3, ShortPrograms
  <2>5. \A i \in 1 .. Len(s) :
          /\ s[i].do \in {"DataDisable", "DataEnable"} /\ s[i].port = p
          /\ s[i].do = "DataEnable" => Head(todo).do = "DirectionEnable"
    <3> HIDE DEF a, b
    <3>1. CASE s = <<a>>
      BY <2>1, <2>3, <3>1
    <3>2. CASE s = <<b>>
      BY <2>1, <2>3, <3>2
    <3>3. CASE s = <<a, b>>
      <4>1. Len(s) = 2 /\ s[1] = a /\ s[2] = b /\ 1 .. 2 = {1, 2}
        BY <3>3
      <4> QED BY <2>1, <2>3, <4>1
    <3> QED BY <2>3, <3>1, <3>2, <3>3
  <2>6. Now("DirectionEnable", p) \/ Now("DirectionDisable", p)
    BY <1>21 DEF ChangeDirection
  <2>7. Continues(p, s)
    BY <1>0, <1>21, <2>0, <2>2, <2>3, <2>5, <2>6, ChangeDirectionEffect DEF Becomes, Continues
  <2> QED BY <2>4, <2>7
<1> QED
  BY <1>1, <1>5, <1>6, <1>7, <1>8, <1>9, <1>10, <1>11, <1>12, <1>13, <1>14, <1>15, <1>16,
     <1>17, <1>18, <1>19, <1>20, <1>21, <1>22

\* What the superloop leaves of its program, and what it adds.
LEMMA ProgramNext ==
  ASSUME Typed, WorkInv, Superloop
  PROVE  /\ (HandInv /\ EnableInv /\ InputInv /\ RdmInv)'
         /\ \A i \in DOMAIN todo' : todo'[i].do \notin Begins
<1>1. PICK p \in Ports, steps \in Seq(Step) : Continues(p, steps)
  BY SuperloopContinues
<1> DEFINE n == Len(steps)
           old(i) == i - n + 1
<1>2. /\ todo # <<>> /\ todo[1].port = p /\ Then(steps)
      /\ \A i \in 1 .. n :
           /\ steps[i].do \in Follow
           /\ steps[i].do = "DataEnable" => steps[i].port = p /\ port[p].rdm = "Idle"
  BY <1>1 DEF Continues
<1>3. /\ \A q \in Ports : q # p => port'[q] = port[q]
      /\ \A q \in Ports : todo[1].do # "StartRdmOutput" => port'[q].rdm = port[q].rdm
      /\ \A q \in Ports : todo[1].do # "DataEnable" =>
           (port[q].state # "Tx" => port'[q].state # "Tx")
  BY <1>1 DEF Continues
<1>4. /\ n \in Nat /\ Len(todo) \in Nat \ {0} /\ todo' \in Seq(Step)
      /\ Len(todo') = n + Len(todo) - 1
      /\ \A i \in 1 .. n : todo'[i] = steps[i]
      /\ \A i \in n + 1 .. Len(todo') : old(i) \in 2 .. Len(todo) /\ todo'[i] = todo[old(i)]
  BY <1>2, ThenShape, HeadFacts, LenProperties DEF Typed
<1>5. DOMAIN todo' = 1 .. Len(todo') /\ DOMAIN todo = 1 .. Len(todo)
      /\ \A i \in 1 .. Len(todo) : todo[i].port \in Ports
  BY <1>2, <1>4, HeadFacts, LenProperties, StepFacts
<1> HIDE DEF n
<1>6. ASSUME NEW i \in DOMAIN todo' PROVE todo'[i].do \notin Begins
  <2>1. CASE i \in 1 .. n
    BY <1>2, <1>4, <2>1 DEF Follow, Begins
  <2>2. CASE i \in n + 1 .. Len(todo')
    <3>1. old(i) \in 2 .. Len(todo) /\ todo'[i] = todo[old(i)]
      BY <1>4, <2>2
    <3> HIDE DEF old
    <3> QED BY <1>4, <1>5, <3>1 DEF WorkInv, HandInv
  <2> QED BY <1>4, <1>5, <2>1, <2>2
\* While an RDM message waits to be started, a step that is not the last one is not
\* the start itself.
<1>7. Len(todo) >= 2 => todo[1].do # "StartRdmOutput"
  BY <1>4, <1>5 DEF WorkInv, RdmInv
<1>8. EnableInv'
  <2> SUFFICES ASSUME NEW i \in 1 .. Len(todo'),
                      todo'[i].do \in {"DirectionEnable", "DataEnable", "BlackoutPort"}
               PROVE  port'[todo'[i].port].rdm = "Idle"
    BY <1>5 DEF EnableInv
  <2>1. CASE i \in 1 .. n
    <3>1. todo'[i].port = p /\ port[p].rdm = "Idle"
      BY <1>2, <1>4, <2>1 DEF Follow
    <3>2. todo[1].do # "StartRdmOutput"
      <4>1. todo[1].do = "StartRdmOutput" => steps = <<>>
        BY <1>1 DEF Continues
      <4> QED BY <2>1, <4>1 DEF n
    <3> QED BY <1>3, <3>1, <3>2
  <2>2. CASE i \in n + 1 .. Len(todo')
    <3>1. /\ todo[old(i)].do \in {"DirectionEnable", "DataEnable", "BlackoutPort"}
          /\ old(i) \in 2 .. Len(todo) /\ todo'[i].port = todo[old(i)].port
      BY <1>4, <2>2
    <3> HIDE DEF old
    <3>2. port[todo[old(i)].port].rdm = "Idle" /\ todo[old(i)].port \in Ports
      BY <1>5, <3>1 DEF WorkInv, EnableInv
    <3>3. Len(todo) >= 2
      BY <1>4, <3>1
    <3> QED BY <1>3, <1>7, <3>1, <3>2, <3>3
  <2> QED BY <1>4, <2>1, <2>2
<1>9. InputInv'
  <2> DEFINE Before == {"DirectionDisable", "DataDisable", "Drain", "DrainComplete", "WriteResponse"}
  <2> SUFFICES ASSUME NEW i \in 1 .. Len(todo'),
                      todo'[i].do \in {"DirectionEnable", "DirectionDisable"},
                      todo'[i].with = "Input"
               PROVE  /\ port'[todo'[i].port].state # "Tx"
                      /\ \A j \in 1 .. i - 1 : todo'[j].do \in Before
    BY <1>5 DEF InputInv
  <2>1. i \in n + 1 .. Len(todo')
    <3>1. i \notin 1 .. n
      BY <1>2, <1>4 DEF Follow
    <3> QED BY <1>4, <3>1
  <2>2. /\ todo[old(i)].do \in {"DirectionEnable", "DirectionDisable"}
        /\ todo[old(i)].with = "Input"
        /\ old(i) \in 2 .. Len(todo) /\ todo'[i].port = todo[old(i)].port
    BY <1>4, <2>1
  <2>3. /\ port[todo[old(i)].port].state # "Tx" /\ todo[old(i)].port \in Ports
        /\ \A j \in 1 .. old(i) - 1 : todo[j].do \in Before
    <3> HIDE DEF old
    <3> QED BY <1>4, <1>5, <2>2 DEF WorkInv, InputInv
  <2>4. todo[1].do \in Before
    BY <2>2, <2>3
  <2>5. port'[todo'[i].port].state # "Tx"
    <3> HIDE DEF old
    <3> QED BY <1>3, <2>2, <2>3, <2>4
  <2>6. ASSUME NEW j \in 1 .. i - 1 PROVE todo'[j].do \in Before
    <3>1. CASE j \in 1 .. n
      <4>1. \/ steps = <<>>
            \/ steps \in {<<Do("DataDisable", p)>>, <<Do("Drain", p)>>}
            \/ steps = <<Do("DrainComplete", p), Do("Drain", p)>>
        BY <1>1, <2>4 DEF Continues
      <4>2. CASE steps = <<>>
        BY <3>1, <4>2 DEF n
      <4>3. CASE steps \in {<<Do("DataDisable", p)>>, <<Do("Drain", p)>>}
        <5>1. n = 1 /\ steps[1].do \in {"DataDisable", "Drain"}
          BY <4>3 DEF n, Do
        <5> QED BY <1>4, <3>1, <5>1
      <4>4. CASE steps = <<Do("DrainComplete", p), Do("Drain", p)>>
        <5>1. n = 2 /\ steps[1].do = "DrainComplete" /\ steps[2].do = "Drain"
          BY <4>4 DEF n, Do
        <5> QED BY <1>4, <3>1, <5>1
      <4> QED BY <4>1, <4>2, <4>3, <4>4
    <3>2. CASE j \in n + 1 .. Len(todo')
      <4>1. old(j) \in 1 .. old(i) - 1 /\ todo'[j] = todo[old(j)]
        BY <1>4, <2>1, <3>2
      <4> HIDE DEF old
      <4> QED BY <2>3, <4>1
    <3> QED BY <1>4, <3>1, <3>2
  <2> QED BY <2>5, <2>6
<1>10. RdmInv'
  <2> SUFFICES ASSUME NEW i \in 1 .. Len(todo'), todo'[i].do = "StartRdmOutput"
               PROVE  LET q == todo'[i].port
                      IN  /\ i = Len(todo') /\ i <= 3 /\ port'[q].rdm = "Idle"
                          /\ i = 1 => port'[q].state # "Tx"
                          /\ i = 2 => /\ todo'[1].port = q
                                      /\ \/ todo'[1].do = "DirectionDisable" /\ todo'[1].with = "Output"
                                         \/ todo'[1].do = "DataDisable" /\ port'[q].direction = "Output"
                                         \/ todo'[1].do = "Drain" /\ port'[q].state # "Tx"
                          /\ i = 3 => /\ todo'[1].do = "DrainComplete" /\ todo'[1].port = q
                                      /\ todo'[2].do = "Drain" /\ todo'[2].port = q
                                      /\ port'[q].state # "Tx"
    BY <1>5 DEF RdmInv
  <2>1. i \in n + 1 .. Len(todo')
    <3>1. \A j \in 1 .. n : todo'[j].do \in Follow
      BY <1>2, <1>4
    <3>2. ~(i \in 1 .. n)
      BY <3>1 DEF Follow
    <3> QED BY <1>4, <3>2
  <2>2. /\ todo[old(i)].do = "StartRdmOutput"
        /\ old(i) \in 2 .. Len(todo) /\ todo'[i] = todo[old(i)]
    BY <1>4, <2>1
  <2>3. old(i) = Len(todo) /\ Len(todo) \in {2, 3}
    <3> HIDE DEF old
    <3>1. old(i) = Len(todo) /\ old(i) <= 3
      BY <1>5, <2>2 DEF WorkInv, RdmInv
    <3> QED BY <1>4, <2>2, <3>1
  <2>4. i = n + Len(todo) - 1 /\ i = Len(todo') /\ todo'[i] = todo[Len(todo)]
        /\ todo[Len(todo)].do = "StartRdmOutput"
    BY <1>4, <2>1, <2>2, <2>3
  <2>5. /\ todo[Len(todo)].port = p /\ port[p].rdm = "Idle"
        /\ Len(todo) = 2 =>
             \/ todo[1].do = "DirectionDisable" /\ todo[1].with = "Output"
             \/ todo[1].do = "DataDisable" /\ port[p].direction = "Output"
             \/ todo[1].do = "Drain" /\ port[p].state # "Tx"
        /\ Len(todo) = 3 => /\ todo[1].do = "DrainComplete" /\ port[p].state # "Tx"
                            /\ todo[2].do = "Drain" /\ todo[2].port = p
    <3>1. Len(todo) \in DOMAIN todo
      BY <1>4, <1>5
    <3> QED BY <1>2, <2>3, <2>4, <3>1 DEF WorkInv, RdmInv
  <2>6. port'[p].rdm = "Idle"
    BY <1>3, <2>5, <2>3
  <2>7. CASE Len(todo) = 2 /\ todo[1].do = "DirectionDisable" /\ todo[1].with = "Output"
    <3>1. steps = <<Do("DataDisable", p)>> /\ port'[p].direction = "Output"
      BY <1>1, <2>7 DEF Continues
    <3>2. n = 1 /\ todo'[1].do = "DataDisable" /\ todo'[1].port = p
      BY <1>4, <3>1 DEF Do, n
    <3> QED BY <2>4, <2>5, <2>6, <2>7, <3>1, <3>2
  <2>8. CASE Len(todo) = 2 /\ todo[1].do = "DataDisable" /\ port[p].direction = "Output"
    <3>1. port'[p].state # "Tx" /\ steps \in {<<>>, <<Do("Drain", p)>>}
      BY <1>1, <2>8 DEF Continues
    <3>2. n = 0 \/ (n = 1 /\ todo'[1].do = "Drain" /\ todo'[1].port = p)
      <4>1. CASE steps = <<>>
        <5>1. n = 0
          BY <4>1 DEF n
        <5> QED BY <5>1
      <4>2. CASE steps = <<Do("Drain", p)>>
        BY <1>4, <4>2 DEF Do, n
      <4> QED BY <3>1, <4>1, <4>2
    <3> QED BY <2>4, <2>5, <2>6, <2>8, <3>1, <3>2
  <2>9. CASE Len(todo) = 2 /\ todo[1].do = "Drain" /\ port[p].state # "Tx"
    <3>1. port'[p].state # "Tx"
          /\ (steps = <<>> \/ steps = <<Do("DrainComplete", p), Do("Drain", p)>>)
      BY <1>1, <2>9 DEF Continues
    <3>2. \/ n = 0
          \/ /\ n = 2 /\ todo'[1].do = "DrainComplete" /\ todo'[1].port = p
             /\ todo'[2].do = "Drain" /\ todo'[2].port = p
      <4>1. CASE steps = <<>>
        <5>1. n = 0
          BY <4>1 DEF n
        <5> QED BY <5>1
      <4>2. CASE steps = <<Do("DrainComplete", p), Do("Drain", p)>>
        BY <1>4, <4>2 DEF Do, n
      <4> QED BY <3>1, <4>1, <4>2
    <3> QED BY <2>4, <2>5, <2>6, <2>9, <3>1, <3>2
  <2>10. CASE Len(todo) = 3
    <3>1. n = 0 /\ port'[p].state # "Tx"
      <4>1. steps = <<>> /\ port'[p].state # "Tx"
        BY <1>1, <2>5, <2>10 DEF Continues
      <4> QED BY <4>1 DEF n
    <3>2. todo'[1] = todo[2] /\ i = 2 /\ Len(todo') = 2
      <4>1. i = 2 /\ Len(todo') = 2 /\ 1 \in n + 1 .. Len(todo') /\ old(1) = 2
        BY <2>4, <2>10, <3>1
      <4> QED BY <1>4, <4>1
    <3> QED BY <2>4, <2>5, <2>6, <2>10, <3>1, <3>2
  <2> QED BY <2>3, <2>5, <2>7, <2>8, <2>9, <2>10
<1>11. HandInv'
  BY <1>6 DEF HandInv
<1> QED BY <1>6, <1>8, <1>9, <1>10, <1>11

\* Only the start of a packet, or of the cycle of packets, changes the history.
LEMMA StrayKept ==
  ASSUME Typed, Superloop, NEW q \in Ports, Head(todo).do # "StartDmxOutput"
  PROVE  port'[q].stray = port[q].stray
<1>1. PICK p \in Ports :
        \/ ChangeDirection(p)
        \/ DataEnableOutput(p) \/ DataEnableInput(p)
        \/ DataDisableIdle(p) \/ DataDisableOutput(p) \/ DataDisableInput(p)
        \/ DrainIdle(p) \/ DrainInter(p) \/ DrainComplete(p)
        \/ SetOutputStyle(p)
        \/ BeginCopy(p) \/ EndCopy(p) \/ SyncPort(p) \/ ClearData(p) \/ BlackoutPort(p)
        \/ StartRdmOutput(p) \/ WriteResponse(p)
  BY DEF Superloop, StartDmxOutput, Now
<1>2. port \in [Ports -> PortRecord] /\ port[p] \in PortRecord /\ port[q] \in PortRecord
  BY PortType DEF Typed
<1>3. CASE DataDisableIdle(p) \/ DrainIdle(p) \/ BlackoutPort(p) \/ WriteResponse(p)
  BY <1>3 DEF DataDisableIdle, DrainIdle, BlackoutPort, WriteResponse
<1>4. CASE ChangeDirection(p) \/ DataEnableOutput(p) \/ DataEnableInput(p)
  BY <1>2, <1>4 DEF ChangeDirection, DataEnableOutput, DataEnableInput, PortRecord
<1>5. CASE DataDisableOutput(p) \/ DataDisableInput(p) \/ DrainInter(p) \/ DrainComplete(p)
  BY <1>2, <1>5 DEF DataDisableOutput, DataDisableInput, DrainInter, DrainComplete, PortRecord
<1>6. CASE SetOutputStyle(p)
  <2>1. port' = [port EXCEPT ![p].style = With]
    BY <1>6 DEF SetOutputStyle
  <2> QED BY <1>2, <2>1 DEF PortRecord
<1>7. CASE SyncPort(p) \/ StartRdmOutput(p)
  BY <1>2, <1>7 DEF SyncPort, StartRdmOutput, PortRecord
<1>8. CASE BeginCopy(p) \/ EndCopy(p) \/ ClearData(p)
  BY <1>2, <1>8 DEF BeginCopy, EndCopy, ClearData, PortRecord
<1> QED BY <1>1, <1>3, <1>4, <1>5, <1>6, <1>7, <1>8

LEMMA InterruptHistory ==
  ASSUME Typed, NEW p \in Ports, Interrupts(p)
  PROVE  /\ port'[p].stray = port[p].stray /\ port'[p].write = port[p].write
         /\ \/ port'[p].raced = Copying(p)
            \/ /\ port'[p].raced = port[p].raced /\ port'[p].read = port[p].read
               /\ port'[p].line = "Dmx" => port[p].line = "Dmx"
<1>1. port \in [Ports -> PortRecord] /\ port[p] \in PortRecord
  BY PortType DEF Typed
<1>2. CASE CounterWraps(p) \/ TimerIdle(p) \/ TransmissionComplete(p)
  BY <1>1, <1>2 DEF CounterWraps, TimerIdle, TransmissionComplete, PortRecord
<1>3. CASE TimerDmx(p)
  <2>1. CASE port' = [port EXCEPT ![p].tx = "Break", ![p].timer = TRUE]
    BY <1>1, <2>1 DEF PortRecord
  <2>2. CASE port' = [port EXCEPT ![p].tx = "Mab", ![p].timer = TRUE]
    BY <1>1, <2>2 DEF PortRecord
  <2>3. CASE DmaRestartDmxTx(p)
    <3> DEFINE c == Copying(p)
    <3>1. port' = [port EXCEPT ![p].read = port[p].write, ![p].timer = FALSE,
                               ![p].line = "Dmx", ![p].tc = FALSE, ![p].raced = c]
      BY <2>3 DEF DmaRestartDmxTx
    <3> HIDE DEF c
    <3>2. port'[p].raced = c /\ port'[p].stray = port[p].stray /\ port'[p].write = port[p].write
      BY <1>1, <3>1 DEF PortRecord
    <3> QED BY <3>2 DEF c
  <2> QED BY <1>3, <2>1, <2>2, <2>3 DEF TimerDmx
<1>4. CASE TimerRdm(p)
  BY <1>1, <1>4 DEF TimerRdm, PortRecord
<1>5. CASE DmaIsr(p)
  BY <1>1, <1>5 DEF DmaIsr, PortRecord
<1> QED BY <1>2, <1>3, <1>4, <1>5 DEF Interrupts

\* A port that transmits outside its own wait for the end of the packet is enabled.
LEMMA KindSuperloop ==
  ASSUME Typed, LineInv, WorkInv, Superloop
  PROVE  KindInv'
<1>0. todo # <<>> /\ Head(todo) = todo[1] /\ todo[1] \in Step /\ 1 \in DOMAIN todo
  <2>1. todo # <<>>
    BY SuperloopContinues DEF Continues
  <2> QED BY <2>1, HeadFacts
<1> SUFFICES ASSUME NEW q \in Ports
             PROVE  Kind(q)' /\ Enabled(q)'
  BY DEF KindInv
<1>1. PICK p \in Ports :
        \/ ChangeDirection(p)
        \/ DataEnableOutput(p) \/ DataEnableInput(p)
        \/ DataDisableIdle(p) \/ DataDisableOutput(p) \/ DataDisableInput(p)
        \/ DrainIdle(p) \/ DrainInter(p) \/ DrainComplete(p)
        \/ SetOutputStyle(p) \/ StartDmxOutput(p)
        \/ BeginCopy(p) \/ EndCopy(p) \/ SyncPort(p) \/ ClearData(p) \/ BlackoutPort(p)
        \/ StartRdmOutput(p) \/ WriteResponse(p)
  BY DEF Superloop
<1>2. Kind(q) /\ Enabled(q)
  BY DEF WorkInv, KindInv
\* A step that is not a wait leaves no port waiting.
<1>3. ASSUME ~Waiting(q) PROVE port[q].state # "Tx" => port[q].tx = "Idle" \/ port[q].stray
  BY <1>2, <1>3 DEF Enabled
<1>4. Head(todo).do # "StartDmxOutput" => port'[q].stray = port[q].stray
  BY StrayKept
<1> USE DEF Now, Waiting, Enabled
<1>5. CASE DataEnableOutput(p)
  <2>1. Head(todo).do \notin {"Drain", "DrainComplete", "StartDmxOutput"}
    BY <1>5 DEF DataEnableOutput
  <2>2. port[p].rdm = "Idle" /\ port[p].direction = "Output"
    BY <1>0, <1>5 DEF DataEnableOutput, WorkInv, EnableInv
  <2>3. port[q].state # "Tx" => port[q].tx = "Idle" \/ port[q].stray
    BY <1>3, <2>1
  <2>4. CASE q = p
    BY <1>2, <1>4, <2>1, <1>5, <2>2, <2>3, <2>4, DataEnableOutputEffect DEF Becomes, Kind
  <2>5. CASE q # p
    <3>1. port'[q] = port[q]
      BY <1>5, <2>5, DataEnableOutputEffect DEF Becomes
    <3> QED BY <1>2, <2>3, <3>1 DEF Kind
  <2> QED BY <2>4, <2>5
<1>6. CASE DataEnableInput(p)
  <2>1. Head(todo).do \notin {"Drain", "DrainComplete", "StartDmxOutput"}
    BY <1>6 DEF DataEnableInput
  <2>2. port[p].direction = "Input"
    BY <1>6 DEF DataEnableInput
  <2>3. port[q].state # "Tx" => port[q].tx = "Idle" \/ port[q].stray
    BY <1>3, <2>1
  <2>4. CASE q = p
    BY <1>2, <1>4, <2>1, <1>6, <2>2, <2>3, <2>4, DataEnableInputEffect DEF Becomes, Kind
  <2>5. CASE q # p
    <3>1. port'[q] = port[q]
      BY <1>6, <2>5, DataEnableInputEffect DEF Becomes
    <3> QED BY <1>2, <2>3, <3>1 DEF Kind
  <2> QED BY <2>4, <2>5
<1>7. CASE DataDisableInput(p)
  <2>1. Head(todo).do \notin {"Drain", "DrainComplete", "StartDmxOutput"}
    BY <1>7 DEF DataDisableInput
  <2>2. port[p].direction = "Input"
    BY <1>7 DEF DataDisableInput
  <2>3. port[q].state # "Tx" => port[q].tx = "Idle" \/ port[q].stray
    BY <1>3, <2>1
  <2>4. CASE q = p
    BY <1>2, <1>4, <2>1, <1>7, <2>2, <2>3, <2>4, DataDisableInputEffect DEF Becomes, Kind
  <2>5. CASE q # p
    <3>1. port'[q] = port[q]
      BY <1>7, <2>5, DataDisableInputEffect DEF Becomes
    <3> QED BY <1>2, <2>3, <3>1 DEF Kind
  <2> QED BY <2>4, <2>5
<1>8. CASE DrainComplete(p)
  <2>1. /\ Head(todo).do # "StartDmxOutput" /\ Head(todo).port = p
        /\ port[p].line = "Quiet"
    BY <1>8 DEF DrainComplete, LineInv
  <2>2. CASE q = p
    BY <1>2, <1>8, <2>1, <2>2, DrainCompleteEffect DEF Becomes, Kind
  <2>3. CASE q # p
    <3>1. port'[q] = port[q]
      BY <1>8, <2>3, DrainCompleteEffect DEF Becomes
    <3> QED BY <1>2, <2>1, <2>3, <3>1 DEF Kind
  <2> QED BY <2>2, <2>3
<1>9. CASE SetOutputStyle(p)
  <2>1. Head(todo).do \notin {"Drain", "DrainComplete", "StartDmxOutput"}
    BY <1>9 DEF SetOutputStyle
  <2>3. port[q].state # "Tx" => port[q].tx = "Idle" \/ port[q].stray
    BY <1>3, <2>1
  <2>4. CASE q = p
    BY <1>2, <1>4, <2>1, <1>9, <2>3, <2>4, SetOutputStyleEffect DEF Becomes, Kind
  <2>5. CASE q # p
    <3>1. port'[q] = port[q]
      BY <1>9, <2>5, SetOutputStyleEffect DEF Becomes
    <3> QED BY <1>2, <2>3, <3>1 DEF Kind
  <2> QED BY <2>4, <2>5
<1>10. CASE EndCopy(p)
  <2>1. Head(todo).do \notin {"Drain", "DrainComplete", "StartDmxOutput"}
    BY <1>10 DEF EndCopy
  <2>3. port[q].state # "Tx" => port[q].tx = "Idle" \/ port[q].stray
    BY <1>3, <2>1
  <2>4. CASE q = p
    BY <1>2, <1>4, <2>1, <1>10, <2>3, <2>4, EndCopyEffect DEF Becomes, Kind
  <2>5. CASE q # p
    <3>1. port'[q] = port[q]
      BY <1>10, <2>5, EndCopyEffect DEF Becomes
    <3> QED BY <1>2, <2>3, <3>1 DEF Kind
  <2> QED BY <2>4, <2>5
<1>22. CASE BeginCopy(p)
  <2>1. Head(todo).do \notin {"Drain", "DrainComplete", "StartDmxOutput"}
    BY <1>22 DEF BeginCopy
  <2>3. port[q].state # "Tx" => port[q].tx = "Idle" \/ port[q].stray
    BY <1>3, <2>1
  <2>4. CASE q = p
    BY <1>2, <1>4, <2>1, <1>22, <2>3, <2>4, BeginCopyEffect DEF Becomes, Kind
  <2>5. CASE q # p
    <3>1. port'[q] = port[q]
      BY <1>22, <2>5, BeginCopyEffect DEF Becomes
    <3> QED BY <1>2, <2>3, <3>1 DEF Kind
  <2> QED BY <2>4, <2>5
<1>11. CASE SyncPort(p)
  <2>1. Head(todo).do \notin {"Drain", "DrainComplete", "StartDmxOutput"}
    BY <1>11 DEF SyncPort
  <2>3. port[q].state # "Tx" => port[q].tx = "Idle" \/ port[q].stray
    BY <1>3, <2>1
  <2>4. CASE q = p
    BY <1>2, <1>4, <2>1, <1>11, <2>3, <2>4, SyncPortEffect DEF Becomes, Kind
  <2>5. CASE q # p
    <3>1. port'[q] = port[q]
      BY <1>11, <2>5, SyncPortEffect DEF Becomes
    <3> QED BY <1>2, <2>3, <3>1 DEF Kind
  <2> QED BY <2>4, <2>5
<1>12. CASE ClearData(p)
  <2>1. Head(todo).do \notin {"Drain", "DrainComplete", "StartDmxOutput"}
    BY <1>12 DEF ClearData
  <2>3. port[q].state # "Tx" => port[q].tx = "Idle" \/ port[q].stray
    BY <1>3, <2>1
  <2>4. CASE q = p
    BY <1>2, <1>4, <2>1, <1>12, <2>3, <2>4, ClearDataEffect DEF Becomes, Kind
  <2>5. CASE q # p
    <3>1. port'[q] = port[q]
      BY <1>12, <2>5, ClearDataEffect DEF Becomes
    <3> QED BY <1>2, <2>3, <3>1 DEF Kind
  <2> QED BY <2>4, <2>5
<1>13. CASE StartDmxOutput(p)
  <2>1. Head(todo).do = "StartDmxOutput" /\ port[p].line = "Quiet"
    BY <1>13 DEF StartDmxOutput, LineInv
  <2>2. port[q].state # "Tx" => port[q].tx = "Idle" \/ port[q].stray
    BY <1>3, <2>1
  <2>3. CASE q = p
    <3>1. /\ port'[p].tx = "Break" /\ port'[p].stray = (port[p].state # "Tx")
          /\ port'[p].state = port[p].state /\ port'[p].rdm = port[p].rdm
          /\ port'[p].line = port[p].line /\ port'[p].direction = port[p].direction
      BY <1>13, StartDmxOutputEffect DEF Becomes
    <3> QED BY <1>2, <2>1, <2>3, <3>1 DEF Kind
  <2>4. CASE q # p
    <3>1. port'[q] = port[q]
      BY <1>13, <2>4, StartDmxOutputEffect DEF Becomes
    <3> QED BY <1>2, <2>2, <3>1 DEF Kind
  <2> QED BY <2>3, <2>4
<1>14. CASE StartRdmOutput(p)
  <2>1. Head(todo).do \notin {"Drain", "DrainComplete", "StartDmxOutput"}
    BY <1>14 DEF StartRdmOutput
  <2>2. port[p].state # "Tx" /\ port[p].line = "Quiet"
    <3>1. port[p].line = "Quiet" /\ Now("StartRdmOutput", p)
      BY <1>14 DEF StartRdmOutput, LineInv
    <3> QED BY <1>0, <3>1 DEF WorkInv, RdmInv
  <2>3. port[q].state # "Tx" => port[q].tx = "Idle" \/ port[q].stray
    BY <1>3, <2>1
  <2>4. CASE q = p
    BY <1>2, <1>4, <2>1, <1>14, <2>2, <2>3, <2>4, StartRdmOutputEffect DEF Becomes, Kind
  <2>5. CASE q # p
    <3>1. port'[q] = port[q]
      BY <1>14, <2>5, StartRdmOutputEffect DEF Becomes
    <3> QED BY <1>2, <2>3, <3>1 DEF Kind
  <2> QED BY <2>4, <2>5
<1>15. CASE ChangeDirection(p)
  <2>1. Head(todo).do \notin {"Drain", "DrainComplete", "StartDmxOutput"}
    BY <1>15 DEF ChangeDirection
  <2>2. With \in {"Input", "Output"} /\ (With = "Input" => port[p].state # "Tx")
    <3>1. Head(todo).do \in {"DirectionEnable", "DirectionDisable"} /\ todo[1].port = p
      BY <1>0, <1>15 DEF ChangeDirection
    <3> QED BY <1>0, <3>1, StepFacts DEF With, WorkInv, InputInv
  <2>3. port[q].state # "Tx" => port[q].tx = "Idle" \/ port[q].stray
    BY <1>3, <2>1
  <2>4. CASE q = p
    BY <1>2, <1>4, <2>1, <1>15, <2>2, <2>3, <2>4, ChangeDirectionEffect DEF Becomes, Kind
  <2>5. CASE q # p
    <3>1. port'[q] = port[q]
      BY <1>15, <2>5, ChangeDirectionEffect DEF Becomes
    <3> QED BY <1>2, <2>3, <3>1 DEF Kind
  <2> QED BY <2>4, <2>5
<1>16. CASE DataDisableIdle(p)
  <2>1. Head(todo).do \notin {"Drain", "DrainComplete", "StartDmxOutput"} /\ port' = port
    BY <1>16 DEF DataDisableIdle
  <2> QED BY <1>2, <1>3, <2>1 DEF Kind
<1>17. CASE BlackoutPort(p)
  <2>1. Head(todo).do \notin {"Drain", "DrainComplete", "StartDmxOutput"} /\ port' = port
    BY <1>17 DEF BlackoutPort
  <2> QED BY <1>2, <1>3, <2>1 DEF Kind
<1>18. CASE WriteResponse(p)
  <2>1. Head(todo).do \notin {"Drain", "DrainComplete", "StartDmxOutput"} /\ port' = port
    BY <1>18 DEF WriteResponse
  <2> QED BY <1>2, <1>3, <2>1 DEF Kind
<1>19. CASE DrainIdle(p)
  <2>1. Head(todo).port = p /\ port[p].tx = "Idle" /\ port' = port
    BY <1>19 DEF DrainIdle
  <2>2. port[q].state # "Tx" => port[q].tx = "Idle" \/ port[q].stray
    BY <1>2, <2>1
  <2> QED BY <1>2, <2>1, <2>2 DEF Kind
<1>20. CASE DrainInter(p)
  <2>1. /\ Head(todo).do = "Drain" /\ Head(todo).port = p
        /\ Then(<<Do("DrainComplete", p), Do("Drain", p)>>)
    BY <1>20 DEF DrainInter
  <2>2. CASE q = p
    <3>1. Now("DrainComplete", p)'
      <4> DEFINE s == <<Do("DrainComplete", p), Do("Drain", p)>>
      <4>1. s \in Seq(Step) /\ Len(s) = 2 /\ s[1] = Do("DrainComplete", p) /\ Then(s)
        BY <2>1, StepTypes, ShortPrograms DEF Plain, Steps, Copies, Begins
      <4> HIDE DEF s
      <4>2. /\ todo' \in Seq(Step) /\ Len(todo') = Len(todo) + 1
            /\ todo'[1] = Do("DrainComplete", p) /\ Len(todo) \in Nat \ {0}
        <5>1. todo \in Seq(Step) /\ Len(todo) \in Nat \ {0}
          BY <1>0, HeadFacts DEF Typed
        <5>2. /\ todo' \in Seq(Step) /\ Len(todo') = Len(s) + Len(todo) - 1
              /\ \A i \in 1 .. Len(s) : todo'[i] = s[i]
          BY <1>0, <4>1, <5>1, ThenShape
        <5> QED BY <4>1, <5>1, <5>2
      <4>3. todo' # <<>> /\ Head(todo') = todo'[1]
        BY <4>2
      <4> QED BY <4>2, <4>3 DEF Do
    <3> QED BY <1>2, <1>4, <1>20, <2>1, <2>2, <3>1, DrainInterEffect DEF Becomes, Kind
  <2>3. CASE q # p
    <3>1. port'[q] = port[q]
      BY <1>20, <2>3, DrainInterEffect DEF Becomes
    <3> QED BY <1>2, <2>1, <2>3, <3>1 DEF Kind
  <2> QED BY <2>2, <2>3
<1>21. CASE DataDisableOutput(p)
  <2>1. Head(todo).do \notin {"Drain", "DrainComplete", "StartDmxOutput"} /\ Then(<<Do("Drain", p)>>)
    BY <1>21 DEF DataDisableOutput
  <2>2. port[q].state # "Tx" => port[q].tx = "Idle" \/ port[q].stray
    BY <1>3, <2>1
  <2>3. CASE q = p
    <3>1. Now("Drain", p)'
      <4> DEFINE s == <<Do("Drain", p)>>
      <4>1. s \in Seq(Step) /\ Len(s) = 1 /\ s[1] = Do("Drain", p) /\ Then(s)
        BY <2>1, StepTypes, ShortPrograms DEF Plain, Steps, Copies, Begins
      <4> HIDE DEF s
      <4>2. /\ todo' \in Seq(Step) /\ Len(todo') = Len(todo) /\ todo'[1] = Do("Drain", p)
            /\ Len(todo) \in Nat \ {0}
        <5>1. todo \in Seq(Step) /\ Len(todo) \in Nat \ {0}
          BY <1>0, HeadFacts DEF Typed
        <5>2. /\ todo' \in Seq(Step) /\ Len(todo') = Len(s) + Len(todo) - 1
              /\ \A i \in 1 .. Len(s) : todo'[i] = s[i]
          BY <1>0, <4>1, <5>1, ThenShape
        <5> QED BY <4>1, <5>1, <5>2
      <4>3. todo' # <<>> /\ Head(todo') = todo'[1]
        BY <4>2
      <4> QED BY <4>2, <4>3 DEF Do
    <3> QED BY <1>2, <1>4, <1>21, <2>1, <2>3, <3>1, DataDisableOutputEffect DEF Becomes, Kind
  <2>4. CASE q # p
    <3>1. port'[q] = port[q]
      BY <1>21, <2>4, DataDisableOutputEffect DEF Becomes
    <3> QED BY <1>2, <2>2, <3>1 DEF Kind
  <2> QED BY <2>3, <2>4
<1> QED
  BY <1>1, <1>5, <1>6, <1>7, <1>8, <1>9, <1>10, <1>11, <1>12, <1>13, <1>14, <1>15, <1>16,
     <1>17, <1>18, <1>19, <1>20, <1>21, <1>22

\* An interrupt on port p, seen from port q.
LEMMA KindInterrupts ==
  ASSUME Typed, LineInv, WorkInv, NEW p \in Ports, Interrupts(p)
  PROVE  /\ KindInv'
         /\ todo' = todo
         /\ \A q \in Ports :
              /\ port[q].rdm = "Idle" => /\ port'[q].rdm = "Idle"
                                         /\ port'[q].direction = port[q].direction
                                         /\ port'[q].state = port[q].state
              /\ port[q].state # "Tx" => port'[q].state # "Tx"
<1>1. todo' = todo
  BY DEF Interrupts, CounterWraps, TimerDmx, TimerRdm, TimerIdle, DmaIsr, TransmissionComplete,
         InterruptOnly
<1>2. \A q \in Ports : Kind(q) /\ Enabled(q)
  BY DEF WorkInv, KindInv
<1>3. port'[p].stray = port[p].stray
  BY InterruptHistory
<1> DEFINE Ok(q) == /\ Kind(q)'
                    /\ port'[q].state # "Tx" /\ port'[q].tx # "Idle"
                         => port[q].state # "Tx" /\ port[q].tx # "Idle"
                    /\ port'[q].stray = port[q].stray
                    /\ port[q].rdm = "Idle" => /\ port'[q].rdm = "Idle"
                                               /\ port'[q].direction = port[q].direction
                                               /\ port'[q].state = port[q].state
                    /\ port[q].state # "Tx" => port'[q].state # "Tx"
<1>4. \A q \in Ports \ {p} : port'[q] = port[q]
  BY CounterWrapsEffect, TimerDmxEffect, TimerRdmEffect, TimerIdleEffect, DmaIsrEffect,
     TransmissionCompleteEffect DEF Interrupts, Becomes
<1>5. \A q \in Ports \ {p} : Ok(q)
  BY <1>2, <1>4 DEF Kind
<1>6. Kind(p)
  BY <1>2
<1>7. Ok(p)
  <2>1. CASE CounterWraps(p)
    BY <1>3, <1>6, <2>1, CounterWrapsEffect DEF Becomes, Kind
  <2>2. CASE TimerDmx(p)
    BY <1>3, <1>6, <2>2, TimerDmxEffect DEF Becomes, Kind
  <2>3. CASE TimerRdm(p)
    <3>1. port[p].tx = "Idle"
      BY <2>3 DEF TimerRdm
    <3> QED BY <1>3, <1>6, <2>3, <3>1, TimerRdmEffect DEF Becomes, Kind
  <2>4. CASE TimerIdle(p)
    BY <1>3, <1>6, <2>4, TimerIdleEffect DEF Becomes, Kind
  <2>5. CASE DmaIsr(p)
    <3>1. port[p].line \in {"Dmx", "Rdm"}
      BY <2>5 DEF DmaIsr
    <3> QED BY <1>3, <1>6, <2>5, <3>1, DmaIsrEffect DEF Becomes, Kind
  <2>6. CASE TransmissionComplete(p)
    BY <1>3, <1>6, <2>6, TransmissionCompleteEffect DEF Becomes, Kind
  <2> QED BY <2>1, <2>2, <2>3, <2>4, <2>5, <2>6 DEF Interrupts
<1>8. \A q \in Ports : Ok(q)
  BY <1>5, <1>7
<1>9. \A q \in Ports : Waiting(q)' <=> Waiting(q)
  BY <1>1 DEF Waiting, Now
<1>10. KindInv'
  BY <1>2, <1>8, <1>9 DEF KindInv, Enabled
<1> QED BY <1>1, <1>8, <1>10

LEMMA WorkInterrupts ==
  ASSUME Typed, LineInv, WorkInv, NEW p \in Ports, Interrupts(p)
  PROVE  WorkInv'
<1>1. /\ KindInv' /\ todo' = todo
      /\ \A q \in Ports :
           /\ port[q].rdm = "Idle" => /\ port'[q].rdm = "Idle"
                                      /\ port'[q].direction = port[q].direction
                                      /\ port'[q].state = port[q].state
           /\ port[q].state # "Tx" => port'[q].state # "Tx"
  BY KindInterrupts
<1>2. \A i \in DOMAIN todo : todo[i].port \in Ports
  BY ProgramType DEF Typed
<1>3. HandInv'
  BY <1>1 DEF WorkInv, HandInv
<1>4. EnableInv'
  BY <1>1, <1>2 DEF WorkInv, EnableInv
<1>5. InputInv'
  BY <1>1, <1>2 DEF WorkInv, InputInv
<1>6. RdmInv'
  BY <1>1, <1>2 DEF WorkInv, RdmInv
<1> QED BY <1>1, <1>3, <1>4, <1>5, <1>6 DEF WorkInv

LEMMA CallsKeepStray ==
  ASSUME Typed, Calls, NEW q \in Ports
  PROVE  port'[q].stray = port[q].stray
<1>1. ASSUME NEW p \in Ports, NEW x \in Packets, NEW s \in Begins, SetSendData(p, x, s)
      PROVE  port'[q].stray = port[q].stray
  <2>1. CASE q = p
    BY <1>1, <2>1, SetSendDataEffect
  <2>2. CASE q # p
    <3>1. port'[q] = port[q]
      BY <1>1, <2>2, SetSendDataEffect DEF Becomes
    <3> QED BY <3>1
  <2> QED BY <2>1, <2>2
<1>2. CASE ~ \E p \in Ports, x \in Packets, s \in Begins : SetSendData(p, x, s)
  <2>1. port' = port
    BY <1>2 DEF Calls, Start, Stop, StartInput, StopInput, Sync, ChangeStyle, Blackout,
                RdmTransmit, RdmTransmitDiscoveryRespondMessage, Only, Begins
  <2> QED BY <2>1
<1> QED BY <1>1, <1>2

\* A call finds the ports with nothing under way, and its program starts harmlessly.
LEMMA WorkCalls ==
  ASSUME Typed, WorkInv, Calls
  PROVE  WorkInv'
<1>1. todo = <<>>
  BY DEF Calls, Start, Stop, StartInput, StopInput, SetSendData, Sync, ChangeStyle, Blackout,
         RdmTransmit, RdmTransmitDiscoveryRespondMessage, Call
<1>2. \A q \in Ports :
        /\ port'[q].direction = port[q].direction /\ port'[q].state = port[q].state
        /\ port'[q].tx = port[q].tx /\ port'[q].rdm = port[q].rdm /\ port'[q].line = port[q].line
  BY CallsKeep
<1>3. KindInv'
  <2>1. \A q \in Ports : port[q].state # "Tx" => port[q].tx = "Idle" \/ port[q].stray
    BY <1>1 DEF WorkInv, KindInv, Enabled, Waiting, Now
  <2>2. \A q \in Ports : port'[q].stray = port[q].stray
    BY CallsKeepStray
  <2> QED BY <1>2, <2>1, <2>2 DEF WorkInv, KindInv, Kind, Enabled
<1>4. \A q \in Ports : port[q].state = "Tx" => port[q].direction = "Output"
  BY DEF WorkInv, KindInv, Kind
<1> DEFINE Harmless == (HandInv /\ EnableInv /\ InputInv /\ RdmInv)'
<1> USE DEF HandInv, EnableInv, InputInv, RdmInv
<1>5. ASSUME NEW a \in Step, todo' = <<a>>,
             a.do \notin {"DataEnable", "BlackoutPort", "StartRdmOutput"},
             a.do = "DirectionEnable" => port[a.port].rdm = "Idle",
             a.do \in {"DirectionEnable", "DirectionDisable"} /\ a.with = "Input"
               => port[a.port].direction = "Input"
      PROVE  Harmless
  <2>1. DOMAIN todo' = {1} /\ todo'[1] = a /\ Len(todo') = 1 /\ a.port \in Ports
    BY <1>5, StepFacts
  <2> QED BY <1>2, <1>4, <1>5, <2>1
<1>6. ASSUME NEW what \in {"SyncPort", "BlackoutPort"},
             todo' = [i \in 1 .. Len(PortOrder) |-> Do(what, PortOrder[i])],
             what = "BlackoutPort" => \A p \in Ports : port[p].rdm = "Idle"
      PROVE  Harmless
  <2>1. \A i \in DOMAIN todo' : todo'[i].do = what /\ todo'[i].port \in Ports
    <3>1. PortOrder \in Seq(Ports)
      BY SetToSeqType, PortAssumption DEF PortOrder
    <3>2. \A i \in 1 .. Len(PortOrder) : PortOrder[i] \in Ports
      BY <3>1, LenProperties
    <3> QED BY <1>6, <3>2 DEF Do
  <2> QED BY <1>2, <1>6, <2>1 DEF Begins
<1>7. ASSUME NEW p \in Ports, Start(p) \/ Stop(p) PROVE Harmless
  <2>1. PICK e \in BOOLEAN : /\ todo' = <<SetPortDirection(p, "Output", e)>>
                             /\ e => port[p].rdm = "Idle"
    BY <1>7 DEF Start, Stop, Call, Free
  <2> DEFINE a == SetPortDirection(p, "Output", e)
  <2>2. /\ a \in Step /\ a.do \in {"DirectionEnable", "DirectionDisable"}
        /\ a.do = "DirectionEnable" => e
        /\ a.port = p /\ a.with = "Output"
    BY StepTypes DEF SetPortDirection, DoWith
  <2> HIDE DEF a
  <2>3. todo' = <<a>>
    BY <2>1 DEF a
  <2> QED BY <1>5, <2>1, <2>2, <2>3
<1>8. ASSUME NEW p \in InputPorts, StartInput(p) \/ StopInput(p) PROVE Harmless
  <2>1. PICK e \in BOOLEAN : /\ todo' = <<SetPortDirection(p, "Input", e)>>
                             /\ port[p].rdm = "Idle" /\ port[p].direction = "Input"
    BY <1>8 DEF StartInput, StopInput, Call, Free
  <2> DEFINE a == SetPortDirection(p, "Input", e)
  <2>2. /\ a \in Step /\ a.do \in {"DirectionEnable", "DirectionDisable"} /\ a.port = p
    BY StepTypes, PortAssumption DEF SetPortDirection, DoWith
  <2> HIDE DEF a
  <2>3. todo' = <<a>>
    BY <2>1 DEF a
  <2> QED BY <1>5, <2>1, <2>2, <2>3
<1>9. ASSUME NEW p \in Ports, NEW x \in Packets, NEW s \in Begins, SetSendData(p, x, s)
      PROVE  Harmless
  <2> DEFINE a == DoWith(s, p, x)
  <2>1. a \in Step /\ a.do \in Begins
    BY StepTypes DEF DoWith, Copies
  <2>2. todo' = <<a>>
    BY <1>9 DEF SetSendData, Call
  <2> HIDE DEF a
  <2> QED BY <1>5, <2>1, <2>2 DEF Begins
<1>10. ASSUME NEW p \in Ports, NEW s \in Styles, ChangeStyle(p, s) PROVE Harmless
  <2> DEFINE a == DoWith("SetOutputStyle", p, s)
  <2>1. a \in Step /\ a.do = "SetOutputStyle"
    BY StepTypes DEF DoWith
  <2>2. todo' = <<a>>
    BY <1>10 DEF ChangeStyle, Call
  <2> HIDE DEF a
  <2> QED BY <1>5, <2>1, <2>2
<1>11. Sync => Harmless
  BY <1>6 DEF Sync, Call
<1>12. Blackout => Harmless
  BY <1>6 DEF Blackout, Call, Free
<1>13. ASSUME NEW p \in RdmPorts, RdmTransmit(p) PROVE Harmless
  <2> DEFINE a == SetPortDirection(p, "Output", FALSE)
             b == Do("StartRdmOutput", p)
  <2>1. /\ a.do = "DirectionDisable" /\ a.with = "Output" /\ a.port = p
        /\ b.do = "StartRdmOutput" /\ b.port = p /\ p \in Ports
    BY PortAssumption DEF SetPortDirection, DoWith, Do
  <2>2. todo' = <<a, b>> /\ port[p].rdm = "Idle"
    BY <1>13 DEF RdmTransmit, Call, Free
  <2> HIDE DEF a, b
  <2>3. DOMAIN todo' = {1, 2} /\ todo'[1] = a /\ todo'[2] = b /\ Len(todo') = 2
    BY <2>2
  <2>4. HandInv' /\ EnableInv' /\ InputInv'
    BY <1>2, <2>1, <2>2, <2>3 DEF Begins
  <2>5. RdmInv'
    BY <1>2, <2>1, <2>2, <2>3
  <2> QED BY <2>4, <2>5
<1>14. ASSUME NEW p \in RdmPorts, RdmTransmitDiscoveryRespondMessage(p) PROVE Harmless
  <2> DEFINE a == SetPortDirection(p, "Output", FALSE)
             b == Do("WriteResponse", p)
             c == SetPortDirection(p, "Input", TRUE)
  <2>1. /\ a.do = "DirectionDisable" /\ a.with = "Output" /\ a.port = p
        /\ b.do = "WriteResponse" /\ b.port = p
        /\ c.do = "DirectionEnable" /\ c.port = p /\ p \in Ports
    BY PortAssumption DEF SetPortDirection, DoWith, Do
  <2>2. todo' = <<a, b, c>> /\ port[p].rdm = "Idle" /\ port[p].state = "Rx"
    BY <1>14 DEF RdmTransmitDiscoveryRespondMessage, Call, Free
  <2> HIDE DEF a, b, c
  <2>3. DOMAIN todo' = {1, 2, 3} /\ todo'[1] = a /\ todo'[2] = b /\ todo'[3] = c
    BY <2>2
  <2>4. /\ \A j \in 1 .. 3 - 1 : todo'[j].do \in {"DirectionDisable", "WriteResponse"}
        /\ \A j \in 1 .. 1 - 1 : FALSE
    BY <2>1, <2>3
  <2>5. HandInv' /\ EnableInv' /\ RdmInv'
    BY <1>2, <2>1, <2>2, <2>3 DEF Begins
  <2>6. InputInv'
    BY <1>2, <2>1, <2>2, <2>3, <2>4
  <2> QED BY <2>5, <2>6
<1>15. Harmless
  BY <1>7, <1>8, <1>9, <1>10, <1>11, <1>12, <1>13, <1>14 DEF Calls, Begins
<1> QED BY <1>3, <1>15 DEF WorkInv

LEMMA WorkNext == Typed /\ LineInv /\ WorkInv /\ [Next]_vars => WorkInv'
<1>1. ASSUME Typed, LineInv, WorkInv, Superloop PROVE WorkInv'
  BY <1>1, KindSuperloop, ProgramNext DEF WorkInv
<1>2. WorkInv /\ UNCHANGED vars => WorkInv'
  BY DEF WorkInv, KindInv, Kind, Enabled, Waiting, HandInv, EnableInv, InputInv, RdmInv, Now,
         vars
<1> QED BY <1>1, <1>2, WorkCalls, WorkInterrupts DEF Next

LEMMA WorkInductive == Spec => [](Typed /\ LineInv /\ WorkInv)
<1>1. Init => LineInv
  BY DEF Init, PowerOn, LineInv
<1>2. Init => WorkInv
  BY DEF Init, PowerOn, WorkInv, KindInv, Kind, Enabled, HandInv, EnableInv, InputInv, RdmInv
<1> QED BY <1>1, <1>2, TypeInit, TypeNext, LineNext, WorkNext, PTL DEF Spec

\* DMX and RDM are never both on one line, for any ports, packets and styles and however
\* the calls and interrupts interleave, unless the port's cycle was begun on a port that
\* was not enabled.
THEOREM OneKindOnTheLine == Spec => []LineExclusive
<1>1. WorkInv => LineExclusive
  BY DEF WorkInv, KindInv, Kind, LineExclusive, Astray
<1> QED BY <1>1, WorkInductive, PTL

\* A port that was stopped no longer transmits, with triggered and with continuous
\* output, unless its cycle was begun on a port that was not enabled.
THEOREM StoppedIsStopped == Spec => []StopStops
<1>1. WorkInv => StopStops
  BY DEF WorkInv, KindInv, Enabled, Waiting, StopStops, Astray, Now
<1> QED BY <1>1, WorkInductive, PTL

----------------------------------------------------------------------------
(* Two buffers are enough. *)

\* A copy that is about to begin goes to the other buffer than the packet on the wire,
\* unless that packet was begun since the buffer was chosen.
FreshInv ==
  \A p \in Ports :
    (\E s \in Begins : Now(s, p)) /\ port[p].line = "Dmx" /\ ~port[p].raced
      => port[p].read # port[p].write

LEMMA FreshNext == Typed /\ WorkInv /\ FreshInv /\ [Next]_vars => FreshInv'
<1> SUFFICES ASSUME Typed, WorkInv, FreshInv, [Next]_vars, NEW q \in Ports, NEW s \in Begins,
                    Now(s, q)', port'[q].line = "Dmx", ~port'[q].raced
             PROVE  port'[q].read # port'[q].write
  BY DEF FreshInv
<1>1. CASE UNCHANGED vars
  BY <1>1 DEF vars, FreshInv, Now
<1>2. CASE Calls
  <2>1. PICK p \in Ports, x \in Packets, b \in Begins : SetSendData(p, x, b)
    <3>1. Sync \/ Blackout => FALSE
      <4>1. ASSUME NEW what \in {"SyncPort", "BlackoutPort"},
                   todo' = [i \in 1 .. Len(PortOrder) |-> Do(what, PortOrder[i])]
            PROVE  FALSE
        <5>1. todo' \in Seq(Step)
          BY <4>1, EachPort DEF Plain, Steps, Copies, Begins
        <5>2. todo' # <<>> /\ Head(todo').do \in Begins
          BY DEF Now
        <5>3. Len(todo') \in Nat \ {0} /\ Head(todo') = todo'[1] /\ DOMAIN todo' = 1 .. Len(todo')
          BY <5>1, <5>2, LenProperties, EmptySeq
        <5>4. todo'[1].do = what
          <6>1. DOMAIN todo' = 1 .. Len(PortOrder)
            BY <4>1
          <6>2. 1 \in 1 .. Len(PortOrder)
            BY <5>3, <6>1
          <6> QED BY <4>1, <6>2 DEF Do
        <5> QED BY <5>2, <5>3, <5>4 DEF Begins
      <4> QED BY <4>1 DEF Sync, Blackout, Call
    <3> QED BY <1>2, <3>1 DEF Calls, Begins, Now, Start, Stop, StartInput, StopInput,
              ChangeStyle, RdmTransmit, RdmTransmitDiscoveryRespondMessage, Call,
              SetPortDirection, DoWith
  <2>2. q = p
    BY <2>1 DEF SetSendData, Call, Now, DoWith
  <2> QED BY <2>1, <2>2, SetSendDataEffect
<1>3. CASE Superloop
  <2>1. todo' # <<>> /\ Head(todo').do \in Begins
    BY DEF Now
  <2>2. todo' \in Seq(Step) /\ \A i \in DOMAIN todo' : todo'[i].do \notin Begins
    BY <1>3, ProgramNext, TypeNext DEF Typed
  <2>3. 1 \in DOMAIN todo' /\ Head(todo') = todo'[1]
    BY <2>1, <2>2, LenProperties, EmptySeq
  <2> QED BY <2>1, <2>2, <2>3
<1>4. ASSUME NEW p \in Ports, Interrupts(p) PROVE port'[q].read # port'[q].write
  <2>1. todo' = todo
    BY <1>4 DEF Interrupts, CounterWraps, TimerDmx, TimerRdm, TimerIdle, DmaIsr,
                TransmissionComplete, InterruptOnly
  <2>2. Now(s, q)
    BY <2>1 DEF Now
  <2>3. CASE q # p
    <3>1. \A r \in Ports \ {p} : port'[r] = port[r]
      BY <1>4, CounterWrapsEffect, TimerDmxEffect, TimerRdmEffect, TimerIdleEffect,
         DmaIsrEffect, TransmissionCompleteEffect DEF Interrupts, Becomes
    <3> QED BY <2>2, <2>3, <3>1 DEF FreshInv
  <2>4. CASE q = p
    <3>1. Copying(q)
      BY <2>2 DEF Copying, Begins
    <3>2. /\ port'[q].write = port[q].write /\ port'[q].raced = port[q].raced
          /\ port'[q].read = port[q].read /\ port[q].line = "Dmx"
      BY <1>4, <2>4, <3>1, InterruptHistory
    <3> QED BY <2>2, <3>2 DEF FreshInv
  <2> QED BY <2>3, <2>4
<1> QED BY <1>1, <1>2, <1>3, <1>4 DEF Next

\* A packet on the wire is not written over, for any ports, packets and styles, if it
\* did not begin while the next one was handed over.
THEOREM PacketIsUndisturbed == Spec => PacketUndisturbed
<1>1. ASSUME Typed, LineInv, FreshInv, Next, NEW p \in Ports,
             port[p].line = "Dmx", port'[p].line = "Dmx", ~port[p].raced,
             ~Now("ClearData", p)
      PROVE  wire'[p] = wire[p]
  <2> USE <1>1
  <2>1. ASSUME Calls PROVE wire'[p] = wire[p]
    BY <2>1, CallsKeep
  <2>2. ASSUME Superloop PROVE wire'[p] = wire[p]
    <3>1. \/ wire' = wire
          \/ \E q \in Ports : ClearData(q) \/ BeginCopy(q)
      BY <2>2 DEF Superloop, ChangeDirection, DataEnableOutput, DataEnableInput, DataDisableIdle,
           DataDisableOutput, DataDisableInput, DrainIdle, DrainInter, DrainComplete,
           SetOutputStyle, StartDmxOutput, EndCopy, SyncPort, BlackoutPort, StartRdmOutput,
           WriteResponse, Only
    <3>2. ASSUME NEW q \in Ports, ClearData(q) PROVE wire'[p] = wire[p]
      <4>1. q # p
        BY <3>2 DEF ClearData
      <4> QED BY <3>2, <4>1 DEF ClearData, Typed
    <3>3. ASSUME NEW q \in Ports, BeginCopy(q) PROVE wire'[p] = wire[p]
      <4>1. CASE q = p
        <5>1. port[p].read # port[p].write
          BY <3>3, <4>1 DEF BeginCopy, FreshInv, Begins
        <5> QED BY <3>3, <4>1, <5>1 DEF BeginCopy, Typed
      <4>2. CASE q # p
        BY <3>3, <4>2 DEF BeginCopy, Typed
      <4> QED BY <4>1, <4>2
    <3> QED BY <3>1, <3>2, <3>3
  <2>3. ASSUME NEW q \in Ports, Interrupts(q) PROVE wire'[p] = wire[p]
    <3>1. CASE TimerDmx(q)
      <4>1. (port[p].tx = "Mab" /\ ~port[p].timer) \/ port[p].tx = "Idle"
        BY DEF LineInv
      <4>2. q # p
        BY <3>1, <4>1 DEF TimerDmx
      <4>3. wire' = wire \/ wire' = [wire EXCEPT ![q] = port[q].buffer[port[q].write]]
        BY <3>1, TimerDmxEffect
      <4> QED BY <4>2, <4>3 DEF Typed
    <3>2. CASE ~TimerDmx(q)
      <4>1. wire' = wire
        BY <2>3, <3>2 DEF Interrupts, CounterWraps, TimerRdm, TimerIdle, DmaIsr,
                          TransmissionComplete
      <4> QED BY <4>1
    <3> QED BY <3>1, <3>2
  <2> QED BY <2>1, <2>2, <2>3 DEF Next
<1>2. Typed /\ LineInv /\ FreshInv /\ [Next]_vars
        => [\A p \in Ports :
              port[p].line = "Dmx" /\ port'[p].line = "Dmx" /\ ~port[p].raced /\ ~Now("ClearData", p)
                => wire'[p] = wire[p]]_vars
  BY <1>1
<1>3. Init => FreshInv
  BY DEF Init, FreshInv, Now
<1> QED BY <1>2, <1>3, WorkInductive, FreshNext, PTL DEF Spec, PacketUndisturbed

----------------------------------------------------------------------------
(* A port that was started with continuous output keeps running: whatever stops it *)
(* in the superloop's program is followed by what starts it again.                 *)

Stops == {"DataDisable", "Drain", "DrainComplete"}

\* A step that starts a continuous port p again, or leads to one that does.
Restart(s, p) ==
  /\ s.port = p
  /\ \/ s.do \in {"DirectionEnable", "DataEnable", "StartDmxOutput"}
     \/ s.do = "SetOutputStyle" /\ s.with = "Constant"

\* A port that was started is not turned round to receive, and does no RDM.
Turns(s) == \/ s.do \in {"StartRdmOutput", "DirectionDisable"}
            \/ s.do = "DirectionEnable" /\ s.with = "Input"

StartedInv ==
  /\ \A p \in Ports : started[p] =>
       /\ port[p].rdm = "Idle"
       /\ port[p].direction = "Output" \/ Now("DirectionEnable", p)
  /\ \A i \in DOMAIN todo : Turns(todo[i]) => ~started[todo[i].port]

\* An enabled port that was started transmits, or will be enabled again.
EnabledInv ==
  \A p \in Ports : started[p] /\ port[p].state = "Rx" =>
    \E k \in DOMAIN todo : todo[k].port = p /\ todo[k].do \in {"DirectionEnable", "DataEnable"}

RestartInv ==
  \A p \in Ports : started[p] /\ port[p].style = "Constant" /\ port[p].tx = "Idle" =>
    \E k \in DOMAIN todo : Restart(todo[k], p)

StopInv ==
  \A i \in DOMAIN todo : todo[i].do \in Stops /\ started[todo[i].port] =>
    \E k \in DOMAIN todo : k > i /\ Restart(todo[k], todo[i].port)

ContinuousInv == StartedInv /\ EnabledInv /\ RestartInv /\ StopInv

\* How a step of the superloop goes on.
Resumes(p, steps) ==
  /\ todo # <<>> /\ todo[1].port = p /\ Then(steps) /\ started' = started
  /\ \A i \in 1 .. Len(steps) :
       /\ ~Turns(steps[i])
       /\ steps[i].do \in Stops =>
            \/ \E k \in i + 1 .. Len(steps) : Restart(steps[k], steps[i].port)
            \/ steps[i].port = p /\ (todo[1].do \in Stops \/ ~started[p])
  /\ \A q \in Ports : q # p => port'[q] = port[q]
  /\ started[p] =>
       /\ port'[p].rdm = "Idle"
       /\ port'[p].direction = "Output"
       /\ port'[p].state = "Rx" =>
            \/ port[p].state = "Rx" /\ todo[1].do \notin {"DirectionEnable", "DataEnable"}
            \/ \E k \in 1 .. Len(steps) : steps[k].port = p /\ steps[k].do = "DataEnable"
       /\ port'[p].style = "Constant" /\ port'[p].tx = "Idle" =>
            \/ port[p].style = "Constant" /\ port[p].tx = "Idle" /\ ~Restart(todo[1], p)
            \/ todo[1].do \in Stops
            \/ \E k \in 1 .. Len(steps) : Restart(steps[k], p)

LEMMA ResumesKeeps ==
  ASSUME Typed, ContinuousInv, NEW p \in Ports, NEW steps \in Seq(Step), Resumes(p, steps)
  PROVE  ContinuousInv'
<1> DEFINE n == Len(steps)
           old(i) == i - n + 1
           new(k) == k + n - 1
<1>1. /\ todo # <<>> /\ todo[1].port = p /\ Then(steps) /\ started' = started
      /\ \A i \in 1 .. n :
           /\ ~Turns(steps[i])
           /\ steps[i].do \in Stops =>
                \/ \E k \in i + 1 .. n : Restart(steps[k], steps[i].port)
                \/ steps[i].port = p /\ (todo[1].do \in Stops \/ ~started[p])
      /\ \A q \in Ports : q # p => port'[q] = port[q]
  BY DEF Resumes
<1>2. /\ n \in Nat /\ Len(todo) \in Nat \ {0} /\ todo' \in Seq(Step)
      /\ Len(todo') = n + Len(todo) - 1
      /\ \A i \in 1 .. n : todo'[i] = steps[i]
      /\ \A i \in n + 1 .. Len(todo') : old(i) \in 2 .. Len(todo) /\ todo'[i] = todo[old(i)]
  BY <1>1, ThenShape, HeadFacts, LenProperties DEF Typed
<1>3. /\ DOMAIN todo' = 1 .. Len(todo') /\ DOMAIN todo = 1 .. Len(todo)
      /\ \A i \in 1 .. Len(todo) : todo[i].port \in Ports
      /\ \A i \in 1 .. n : steps[i].port \in Ports
  BY <1>1, <1>2, HeadFacts, LenProperties, StepFacts
<1> HIDE DEF n
<1>4. ASSUME NEW k \in 2 .. Len(todo)
      PROVE  new(k) \in DOMAIN todo' /\ todo'[new(k)] = todo[k] /\ new(k) > n
  <2>1. new(k) \in n + 1 .. Len(todo') /\ old(new(k)) = k
    BY <1>2
  <2> QED BY <1>2, <1>3, <2>1
<1>5. \A k \in 1 .. n : k \in DOMAIN todo'
  BY <1>2, <1>3
\* What is restarted later is still to be restarted later.
<1>6. ASSUME NEW q \in Ports, NEW k \in DOMAIN todo, k > 1, Restart(todo[k], q)
      PROVE  \E l \in DOMAIN todo' : l > n /\ Restart(todo'[l], q)
  <2>1. k \in 2 .. Len(todo)
    BY <1>2, <1>3, <1>6
  <2>2. new(k) \in DOMAIN todo' /\ todo'[new(k)] = todo[k] /\ new(k) > n
    BY <1>4, <2>1
  <2> QED BY <1>6, <2>2
<1>7. StartedInv'
  <2>1. ASSUME NEW q \in Ports, started[q]
        PROVE  port'[q].rdm = "Idle" /\ (port'[q].direction = "Output" \/ Now("DirectionEnable", q)')
    <3>1. CASE q = p
      BY <2>1, <3>1 DEF Resumes
    <3>2. CASE q # p
      <4>1. ~Now("DirectionEnable", q)
        BY <1>1, <3>2, HeadFacts DEF Now
      <4> QED BY <1>1, <2>1, <3>2, <4>1 DEF ContinuousInv, StartedInv
    <3> QED BY <3>1, <3>2
  <2>2. ASSUME NEW i \in DOMAIN todo', Turns(todo'[i]) PROVE ~started[todo'[i].port]
    <3>1. CASE i \in 1 .. n
      BY <1>1, <1>2, <2>2, <3>1
    <3>2. CASE i \in n + 1 .. Len(todo')
      <4> DEFINE j == old(i)
      <4>1. j \in DOMAIN todo /\ todo'[i] = todo[j]
        <5>1. j \in 2 .. Len(todo) /\ todo'[i] = todo[j]
          BY <1>2, <3>2
        <5> HIDE DEF j
        <5> QED BY <1>2, <1>3, <5>1
      <4> HIDE DEF j
      <4> QED BY <2>2, <4>1 DEF ContinuousInv, StartedInv
    <3> QED BY <1>2, <1>3, <3>1, <3>2
  <2> QED BY <1>1, <2>1, <2>2 DEF StartedInv
<1>8. EnabledInv'
  <2> SUFFICES ASSUME NEW q \in Ports, started[q], port'[q].state = "Rx"
               PROVE  \E k \in DOMAIN todo' :
                        todo'[k].port = q /\ todo'[k].do \in {"DirectionEnable", "DataEnable"}
    BY <1>1 DEF EnabledInv
  <2>1. ASSUME NEW k \in DOMAIN todo, k > 1, todo[k].port = q,
               todo[k].do \in {"DirectionEnable", "DataEnable"}
        PROVE  \E l \in DOMAIN todo' :
                 todo'[l].port = q /\ todo'[l].do \in {"DirectionEnable", "DataEnable"}
    <3>1. k \in 2 .. Len(todo)
      BY <1>2, <1>3, <2>1
    <3>2. new(k) \in DOMAIN todo' /\ todo'[new(k)] = todo[k]
      BY <1>4, <3>1
    <3> QED BY <2>1, <3>2
  <2>2. CASE q # p
    <3>1. port[q].state = "Rx"
      BY <1>1, <2>2
    <3>2. PICK k \in DOMAIN todo :
            todo[k].port = q /\ todo[k].do \in {"DirectionEnable", "DataEnable"}
      BY <3>1 DEF ContinuousInv, EnabledInv
    <3>3. k > 1
      BY <1>1, <1>2, <1>3, <2>2, <3>2
    <3> QED BY <2>1, <3>2, <3>3
  <2>3. CASE q = p
    <3>1. CASE port[p].state = "Rx" /\ todo[1].do \notin {"DirectionEnable", "DataEnable"}
      <4>1. PICK k \in DOMAIN todo :
              todo[k].port = q /\ todo[k].do \in {"DirectionEnable", "DataEnable"}
        BY <2>3, <3>1 DEF ContinuousInv, EnabledInv
      <4>2. k > 1
        BY <1>2, <1>3, <3>1, <4>1
      <4> QED BY <2>1, <4>1, <4>2
    <3>2. CASE \E k \in 1 .. n : steps[k].port = p /\ steps[k].do = "DataEnable"
      BY <1>2, <1>5, <2>3, <3>2
    <3> QED BY <2>3, <3>1, <3>2 DEF Resumes, n
  <2> QED BY <2>2, <2>3
<1>9. RestartInv'
  <2> SUFFICES ASSUME NEW q \in Ports, started[q], port'[q].style = "Constant",
                      port'[q].tx = "Idle"
               PROVE  \E k \in DOMAIN todo' : Restart(todo'[k], q)
    BY <1>1 DEF RestartInv, Restart
  <2>1. CASE q # p
    <3>1. PICK k \in DOMAIN todo : Restart(todo[k], q)
      BY <1>1, <2>1 DEF ContinuousInv, RestartInv
    <3>2. k > 1
      BY <1>1, <1>2, <1>3, <2>1, <3>1 DEF Restart
    <3> QED BY <1>6, <3>1, <3>2
  <2>2. CASE q = p
    <3>1. CASE port[p].style = "Constant" /\ port[p].tx = "Idle" /\ ~Restart(todo[1], p)
      <4>1. PICK k \in DOMAIN todo : Restart(todo[k], q)
        BY <2>2, <3>1 DEF ContinuousInv, RestartInv
      <4>2. k > 1
        BY <1>2, <1>3, <2>2, <3>1, <4>1
      <4> QED BY <1>6, <4>1, <4>2
    <3>2. CASE todo[1].do \in Stops
      <4>1. 1 \in DOMAIN todo
        BY <1>2, <1>3
      <4>2. PICK k \in DOMAIN todo : k > 1 /\ Restart(todo[k], p)
        BY <1>1, <2>2, <3>2, <4>1 DEF ContinuousInv, StopInv
      <4> QED BY <1>6, <2>2, <4>2
    <3>3. CASE \E k \in 1 .. n : Restart(steps[k], p)
      BY <1>2, <1>5, <2>2, <3>3
    <3> QED BY <2>2, <3>1, <3>2, <3>3 DEF Resumes, n
  <2> QED BY <2>1, <2>2
<1>10. StopInv'
  <2> SUFFICES ASSUME NEW i \in DOMAIN todo', todo'[i].do \in Stops, started[todo'[i].port]
               PROVE  \E k \in DOMAIN todo' : k > i /\ Restart(todo'[k], todo'[i].port)
    BY <1>1 DEF StopInv, Restart
  <2>1. CASE i \in n + 1 .. Len(todo')
    <3> DEFINE j == old(i)
    <3>1. j \in 2 .. Len(todo) /\ todo'[i] = todo[j] /\ new(j) = i /\ j \in DOMAIN todo
      <4>0. j \in 2 .. Len(todo) /\ todo'[i] = todo[j]
        BY <1>2, <2>1
      <4>1. j \in 2 .. Len(todo) /\ todo'[i] = todo[j] /\ i \in Int /\ n \in Int
        <5>1. Len(todo') \in Int
          BY <1>2
        <5> QED BY <1>2, <2>1, <4>0, <5>1
      <4>2. new(j) = i
        BY <4>1
      <4> HIDE DEF j
      <4> QED BY <1>2, <1>3, <4>1, <4>2
    <3> HIDE DEF j
    <3>2. PICK k \in DOMAIN todo : k > j /\ Restart(todo[k], todo[j].port)
      BY <3>1 DEF ContinuousInv, StopInv
    <3>3. k \in 2 .. Len(todo) /\ new(k) > new(j)
      BY <1>2, <1>3, <3>1, <3>2
    <3>4. new(k) \in DOMAIN todo' /\ todo'[new(k)] = todo[k]
      BY <1>4, <3>3
    <3> QED BY <3>1, <3>2, <3>3, <3>4
  <2>2. CASE i \in 1 .. n
    <3>1. todo'[i] = steps[i] /\ i \in Nat /\ i <= n
      BY <1>2, <2>2
    <3>2. CASE \E k \in i + 1 .. n : Restart(steps[k], steps[i].port)
      <4>1. PICK k \in i + 1 .. n : Restart(steps[k], steps[i].port)
        BY <3>2
      <4>2. k \in 1 .. n /\ k > i
        BY <1>2, <3>1
      <4> QED BY <1>2, <1>5, <3>1, <4>1, <4>2
    <3>3. CASE steps[i].port = p /\ todo[1].do \in Stops
      <4>1. 1 \in DOMAIN todo
        BY <1>2, <1>3
      <4>2. PICK k \in DOMAIN todo : k > 1 /\ Restart(todo[k], p)
        BY <1>1, <3>1, <3>3, <4>1 DEF ContinuousInv, StopInv
      <4>3. PICK l \in DOMAIN todo' : l > n /\ Restart(todo'[l], p)
        BY <1>6, <4>2
      <4>4. l > i
        BY <1>2, <1>3, <3>1, <4>3
      <4> QED BY <3>1, <3>3, <4>3, <4>4
    <3> QED BY <1>1, <2>2, <3>1, <3>2, <3>3
  <2> QED BY <1>2, <1>3, <2>1, <2>2
<1> QED BY <1>7, <1>8, <1>9, <1>10 DEF ContinuousInv

LEMMA SuperloopResumes ==
  ASSUME Typed, ContinuousInv, Superloop
  PROVE  \E p \in Ports, steps \in Seq(Step) : Resumes(p, steps)
<1>0. todo # <<>> /\ Head(todo) = todo[1] /\ todo[1] \in Step /\ 1 \in DOMAIN todo
  <2>1. todo # <<>>
    BY DEF Superloop, ChangeDirection, DataEnableOutput, DataEnableInput, DataDisableIdle,
         DataDisableOutput, DataDisableInput, DrainIdle, DrainInter, DrainComplete,
         SetOutputStyle, StartDmxOutput, BeginCopy, EndCopy, SyncPort, ClearData, BlackoutPort,
         StartRdmOutput, WriteResponse, Now
  <2> QED BY <2>1, HeadFacts
<1>1. PICK p \in Ports :
        \/ ChangeDirection(p)
        \/ DataEnableOutput(p) \/ DataEnableInput(p)
        \/ DataDisableIdle(p) \/ DataDisableOutput(p) \/ DataDisableInput(p)
        \/ DrainIdle(p) \/ DrainInter(p) \/ DrainComplete(p)
        \/ SetOutputStyle(p) \/ StartDmxOutput(p)
        \/ BeginCopy(p) \/ EndCopy(p) \/ SyncPort(p) \/ ClearData(p) \/ BlackoutPort(p)
        \/ StartRdmOutput(p) \/ WriteResponse(p)
  BY DEF Superloop
<1>2. <<>> \in Seq(Step) /\ Len(<<>>) = 0
  BY ShortPrograms
<1>3. \A what \in Plain : <<Do(what, p)>> \in Seq(Step)
  BY StepTypes, ShortPrograms
<1>4. Head(todo).port = p /\ started' = started
  BY <1>1 DEF ChangeDirection, DataEnableOutput, DataEnableInput, DataDisableIdle,
       DataDisableOutput, DataDisableInput, DrainIdle, DrainInter, DrainComplete,
       SetOutputStyle, StartDmxOutput, BeginCopy, EndCopy, SyncPort, ClearData, BlackoutPort,
       StartRdmOutput, WriteResponse, Now, Only
<1>a. started[p] => /\ port[p].rdm = "Idle"
                    /\ port[p].direction = "Output" \/ todo[1].do = "DirectionEnable"
                    /\ ~Turns(todo[1])
  BY <1>0, <1>4 DEF ContinuousInv, StartedInv, Now
<1> USE DEF Now, With, Stops
<1>5. CASE DataEnableOutput(p)
  <2> DEFINE s == DoWith("SetOutputStyle", p, port[p].style)
  <2>1. <<s>> \in Seq(Step) /\ s.do = "SetOutputStyle" /\ s.port = p /\ s.with = port[p].style
    BY StepTypes, ShortPrograms, PortType DEF DoWith
  <2>2. /\ \A q \in Ports \ {p} : port'[q] = port[q]
        /\ port'[p].direction = port[p].direction
        /\ port'[p].state = "Tx" /\ port'[p].style = port[p].style
        /\ port'[p].rdm = port[p].rdm
    BY <1>5, DataEnableOutputEffect DEF Becomes
  <2>3. Then(<<s>>) /\ todo[1].do = "DataEnable"
    BY <1>0, <1>5 DEF DataEnableOutput
  <2> HIDE DEF s
  <2>4. Len(<<s>>) = 1 /\ <<s>>[1] = s /\ ~Turns(s) /\ (s.with = "Constant" => Restart(s, p))
    BY <2>1 DEF Turns, Restart
  <2>5. Resumes(p, <<s>>)
    BY <1>0, <1>4, <1>a, <2>1, <2>2, <2>3, <2>4 DEF Resumes
  <2> QED BY <2>1, <2>5
<1>6. CASE DataEnableInput(p)
  <2>1. /\ \A q \in Ports \ {p} : port'[q] = port[q]
        /\ ~started[p]
    BY <1>0, <1>a, <1>6, DataEnableInputEffect DEF DataEnableInput, Becomes
  <2>2. Then(<<>>)
    BY <1>6 DEF DataEnableInput
  <2>3. Resumes(p, <<>>)
    BY <1>0, <1>2, <1>4, <2>1, <2>2 DEF Resumes
  <2> QED BY <1>2, <2>3
<1>7. CASE DataDisableIdle(p)
  <2>1. Resumes(p, <<>>)
    BY <1>0, <1>2, <1>4, <1>a, <1>7 DEF DataDisableIdle, Resumes
  <2> QED BY <1>2, <2>1
<1>8. CASE DataDisableInput(p)
  <2>1. /\ \A q \in Ports \ {p} : port'[q] = port[q]
        /\ todo[1].do = "DataDisable" /\ Then(<<>>)
        /\ port[p].direction = "Input" /\ ~started[p]
    BY <1>0, <1>4, <1>a, <1>8, DataDisableInputEffect DEF DataDisableInput, Becomes
  <2>2. Resumes(p, <<>>)
    BY <1>0, <1>2, <1>4, <2>1 DEF Resumes
  <2> QED BY <1>2, <2>2
<1>9. CASE DrainIdle(p)
  <2>1. Resumes(p, <<>>)
    BY <1>0, <1>2, <1>4, <1>a, <1>9 DEF DrainIdle, Resumes
  <2> QED BY <1>2, <2>1
<1>10. CASE DrainComplete(p)
  <2>1. Resumes(p, <<>>)
    BY <1>0, <1>2, <1>4, <1>a, <1>10, DrainCompleteEffect DEF DrainComplete, Becomes, Resumes
  <2> QED BY <1>2, <2>1
<1>11. CASE StartDmxOutput(p)
  <2>1. /\ \A q \in Ports \ {p} : port'[q] = port[q]
        /\ port'[p].direction = port[p].direction /\ port'[p].state = port[p].state
        /\ port'[p].rdm = port[p].rdm /\ port'[p].tx = "Break"
    BY <1>11, StartDmxOutputEffect DEF Becomes
  <2>2. todo[1].do = "StartDmxOutput" /\ Then(<<>>)
    BY <1>0, <1>11 DEF StartDmxOutput
  <2>3. Resumes(p, <<>>)
    BY <1>0, <1>2, <1>4, <1>a, <2>1, <2>2 DEF Resumes
  <2> QED BY <1>2, <2>3
<1>12. CASE ClearData(p)
  <2>1. ~Restart(todo[1], p)
    BY <1>0, <1>12 DEF ClearData, Restart
  <2>2. Resumes(p, <<>>)
    BY <1>0, <1>2, <1>4, <1>a, <1>12, <2>1, ClearDataEffect DEF ClearData, Becomes, Resumes
  <2> QED BY <1>2, <2>2
<1>13. CASE StartRdmOutput(p)
  <2>1. ~started[p]
    BY <1>0, <1>a, <1>13 DEF StartRdmOutput, Turns
  <2>2. \A q \in Ports \ {p} : port'[q] = port[q]
    BY <1>13, StartRdmOutputEffect DEF Becomes
  <2>3. todo[1].do = "StartRdmOutput" /\ Then(<<>>)
    BY <1>0, <1>13 DEF StartRdmOutput
  <2>4. Resumes(p, <<>>)
    BY <1>0, <1>2, <1>4, <2>1, <2>2, <2>3 DEF Resumes
  <2> QED BY <1>2, <2>4
<1>14. CASE WriteResponse(p)
  <2>1. ~Restart(todo[1], p)
    BY <1>0, <1>14 DEF WriteResponse, Restart
  <2>2. Resumes(p, <<>>)
    BY <1>0, <1>2, <1>4, <1>a, <1>14, <2>1 DEF WriteResponse, Resumes
  <2> QED BY <1>2, <2>2
<1>15. CASE DataDisableOutput(p)
  <2> DEFINE s == Do("Drain", p)
  <2>1. <<s>> \in Seq(Step) /\ Len(<<s>>) = 1 /\ <<s>>[1] = s /\ s.port = p /\ ~Turns(s)
    BY <1>3 DEF Plain, Steps, Copies, Begins, Do, Turns
  <2>2. Resumes(p, <<s>>)
    BY <1>0, <1>4, <1>a, <1>15, <2>1, DataDisableOutputEffect
       DEF DataDisableOutput, Becomes, Resumes
  <2> QED BY <2>1, <2>2
<1>16. CASE DrainInter(p)
  <2> DEFINE s == <<Do("DrainComplete", p), Do("Drain", p)>>
  <2>1. s \in Seq(Step) /\ Len(s) = 2 /\ s[1] = Do("DrainComplete", p) /\ s[2] = Do("Drain", p)
    BY StepTypes, ShortPrograms DEF Plain, Steps, Copies, Begins
  <2>2. Then(s) /\ todo[1].do = "Drain"
    BY <1>0, <1>16 DEF DrainInter
  <2> HIDE DEF s
  <2>3. \A i \in 1 .. Len(s) : s[i].port = p /\ ~Turns(s[i])
    <3>1. 1 .. Len(s) = {1, 2}
      BY <2>1
    <3> QED BY <2>1, <3>1 DEF Do, Turns
  <2>4. Resumes(p, s)
    BY <1>0, <1>4, <1>a, <1>16, <2>2, <2>3, DrainInterEffect DEF Becomes, Resumes
  <2> QED BY <2>1, <2>4
<1>17. CASE SetOutputStyle(p)
  <2>0. /\ \A q \in Ports \ {p} : port'[q] = port[q]
        /\ port'[p].direction = port[p].direction /\ port'[p].state = port[p].state
        /\ port'[p].rdm = port[p].rdm /\ port'[p].style = With
        /\ todo[1].do = "SetOutputStyle"
    BY <1>0, <1>17, SetOutputStyleEffect DEF SetOutputStyle, Becomes
  <2>1. With \in {"Delta", "Constant"}
    BY <1>0, <2>0, StepFacts, StyleAssumption
  <2>2. CASE With = "Delta"
    <3>1. Then(<<>>)
      BY <1>17, <2>2 DEF SetOutputStyle
    <3>2. Resumes(p, <<>>)
      BY <1>0, <1>2, <1>4, <1>a, <2>0, <2>2, <3>1 DEF Resumes
    <3> QED BY <1>2, <3>2
  <2>3. CASE With = "Constant" /\ ~continuous /\ port[p].direction = "Output"
    <3> DEFINE s == Do("StartDmxOutput", p)
    <3>1. /\ <<s>> \in Seq(Step) /\ Len(<<s>>) = 1 /\ <<s>>[1] = s
          /\ ~Turns(s) /\ Restart(s, p) /\ s.do \notin Stops
      BY <1>3 DEF Plain, Steps, Copies, Begins, Do, Turns, Restart
    <3>2. Then(<<s>>)
      BY <1>17, <2>3 DEF SetOutputStyle
    <3> HIDE DEF s
    <3>3. Resumes(p, <<s>>)
      BY <1>0, <1>4, <1>a, <2>0, <3>1, <3>2 DEF Resumes
    <3> QED BY <3>1, <3>3
  <2>4. CASE With = "Constant" /\ ~continuous /\ port[p].direction # "Output"
    <3>1. Then(<<>>) /\ ~started[p]
      BY <1>a, <1>17, <2>0, <2>4 DEF SetOutputStyle
    <3>2. Resumes(p, <<>>)
      BY <1>0, <1>2, <1>4, <2>0, <3>1 DEF Resumes
    <3> QED BY <1>2, <3>2
  <2>5. CASE With = "Constant" /\ continuous
    <3> DEFINE ports == {q \in Ports : port'[q].style = "Constant" /\ port[q].direction = "Output"}
               s == Together(ports)
    <3>1. Then(s)
      BY <1>17, <2>5 DEF SetOutputStyle, Together, EachOf
    <3>2. ports \in SUBSET Ports /\ (port[p].direction = "Output" => p \in ports)
      BY <2>0, <2>5
    <3> HIDE DEF ports
    <3>3. /\ s \in Seq(Step)
          /\ \A i \in 1 .. Len(s) : s[i].do \in {"DataDisable", "StartDmxOutput"}
          /\ \A i \in 1 .. Len(s) : s[i].do = "DataDisable" =>
               \E k \in i + 1 .. Len(s) : s[k].do = "StartDmxOutput" /\ s[k].port = s[i].port
          /\ \A q \in ports : \E k \in 1 .. Len(s) : s[k].do = "StartDmxOutput" /\ s[k].port = q
      BY <3>2, TogetherSteps
    <3> HIDE DEF s
    <3>4. /\ \A i \in 1 .. Len(s) :
               /\ ~Turns(s[i])
               /\ s[i].do \in Stops => \E k \in i + 1 .. Len(s) : Restart(s[k], s[i].port)
          /\ port[p].direction = "Output" => \E k \in 1 .. Len(s) : Restart(s[k], p)
      BY <3>2, <3>3 DEF Turns, Restart
    <3>5. Resumes(p, s)
      BY <1>0, <1>4, <1>a, <2>0, <3>1, <3>4 DEF Resumes
    <3> QED BY <3>3, <3>5
  <2> QED BY <2>1, <2>2, <2>3, <2>4, <2>5
<1>18. ASSUME EndCopy(p) \/ SyncPort(p)
       PROVE  \E q \in Ports, steps \in Seq(Step) : Resumes(q, steps)
  <2> DEFINE s == Do("StartDmxOutput", p)
  <2>1. /\ <<s>> \in Seq(Step) /\ Len(<<s>>) = 1 /\ <<s>>[1] = s
        /\ ~Turns(s) /\ s.do \notin Stops
    BY <1>3 DEF Plain, Steps, Copies, Begins, Do, Turns
  <2>2. /\ \A q \in Ports \ {p} : port'[q] = port[q]
        /\ port'[p].direction = port[p].direction /\ port'[p].state = port[p].state
        /\ port'[p].rdm = port[p].rdm /\ port'[p].style = port[p].style
        /\ port'[p].tx = port[p].tx
    BY <1>18, EndCopyEffect, SyncPortEffect DEF Becomes
  <2>3. todo[1].do \in {"Direct", "Sync", "SyncPort"} /\ ~Restart(todo[1], p)
    BY <1>0, <1>18 DEF EndCopy, SyncPort, Restart
  <2>4. Then(<<s>>) \/ Then(<<>>)
    BY <1>18 DEF EndCopy, SyncPort, Trigger
  <2> HIDE DEF s
  <2>5. Then(<<s>>) => Resumes(p, <<s>>)
    BY <1>0, <1>4, <1>a, <2>1, <2>2, <2>3 DEF Resumes
  <2>6. Then(<<>>) => Resumes(p, <<>>)
    BY <1>0, <1>2, <1>4, <1>a, <2>2, <2>3 DEF Resumes
  <2> QED BY <1>2, <2>1, <2>4, <2>5, <2>6
<1>21. CASE BeginCopy(p)
  <2> DEFINE s == DoWith(IF Head(todo).do = "BeginDirect" THEN "Direct" ELSE "Sync", p, With)
  <2>1. With \in Packets /\ todo[1].do \in Begins /\ todo[1].port = p
    BY <1>0, <1>21, StepFacts DEF BeginCopy, Begins, Copies
  <2>2. s \in Step /\ s.do \in {"Direct", "Sync"}
    <3>1. \A w \in {"Direct", "Sync"} : DoWith(w, p, With) \in Step
      BY <2>1, StepTypes DEF Copies
    <3> QED BY <3>1 DEF DoWith
  <2>3. Then(<<s>>)
    BY <1>21 DEF BeginCopy
  <2> HIDE DEF s
  <2>4. <<s>> \in Seq(Step) /\ Len(<<s>>) = 1 /\ <<s>>[1] = s /\ ~Turns(s)
    BY <2>2, ShortPrograms DEF Turns
  <2>5. /\ \A q \in Ports \ {p} : port'[q] = port[q]
        /\ port'[p].direction = port[p].direction /\ port'[p].state = port[p].state
        /\ port'[p].rdm = port[p].rdm /\ port'[p].style = port[p].style
        /\ port'[p].tx = port[p].tx
    BY <1>21, BeginCopyEffect DEF Becomes
  <2>6. ~Restart(todo[1], p) /\ todo[1].do \notin {"DirectionEnable", "DataEnable"}
    BY <2>1 DEF Begins, Restart
  <2>7. started' = started
    BY <1>21 DEF BeginCopy
  <2>8. Resumes(p, <<s>>)
    BY <1>0, <1>4, <1>a, <2>1, <2>2, <2>3, <2>4, <2>5, <2>6, <2>7 DEF Resumes
  <2> QED BY <2>4, <2>8
<1>19. CASE BlackoutPort(p)
  <2>0. port' = port /\ ~Restart(todo[1], p) /\ todo[1].do = "BlackoutPort"
    BY <1>0, <1>19 DEF BlackoutPort, Restart
  <2>1. CASE port[p].direction = "Output"
    <3> DEFINE s == <<Do("DataDisable", p), Do("ClearData", p), Do("DataEnable", p)>>
    <3>1. /\ s \in Seq(Step) /\ Len(s) = 3
          /\ s[1] = Do("DataDisable", p) /\ s[2] = Do("ClearData", p) /\ s[3] = Do("DataEnable", p)
      BY StepTypes, ShortPrograms DEF Plain, Steps, Copies, Begins
    <3>2. Then(s)
      BY <1>19, <2>1 DEF BlackoutPort
    <3> HIDE DEF s
    <3>3. Restart(s[3], p) /\ 3 \in 1 + 1 .. Len(s)
      BY <3>1 DEF Do, Restart
    <3>4. \A i \in 1 .. Len(s) : /\ ~Turns(s[i])
                                 /\ s[i].do \in Stops => i = 1 /\ s[i].port = p
      <4>1. 1 .. Len(s) = {1, 2, 3}
        BY <3>1
      <4> QED BY <3>1, <4>1 DEF Do, Turns
    <3>5. Resumes(p, s)
      BY <1>0, <1>4, <1>a, <2>0, <3>2, <3>3, <3>4 DEF Resumes
    <3> QED BY <3>1, <3>5
  <2>2. CASE port[p].direction # "Output"
    <3>1. Resumes(p, <<>>)
      BY <1>0, <1>2, <1>4, <1>a, <1>19, <2>0, <2>2 DEF BlackoutPort, Resumes
    <3> QED BY <1>2, <3>1
  <2> QED BY <2>1, <2>2
<1>20. CASE ChangeDirection(p)
  <2> DEFINE a == Do("DataDisable", p)
             b == Do("DataEnable", p)
             s == (IF port[p].direction # With \/ ~(Head(todo).do = "DirectionEnable")
                   THEN <<a>> ELSE <<>>)
                  \o (IF Head(todo).do = "DirectionEnable" THEN <<b>> ELSE <<>>)
  <2>1. /\ a \in Step /\ b \in Step /\ a.port = p /\ ~Turns(a) /\ ~Turns(b)
        /\ a.do = "DataDisable" /\ b.do = "DataEnable" /\ b.port = p /\ Restart(b, p)
    BY StepTypes DEF Plain, Steps, Copies, Begins, Do, Turns, Restart
  <2>2. Then(s) /\ todo[1].do \in {"DirectionEnable", "DirectionDisable"}
    BY <1>0, <1>20 DEF ChangeDirection
  <2>3. \/ s = <<a>> /\ todo[1].do = "DirectionDisable"
        \/ s \in {<<a, b>>, <<b>>} /\ todo[1].do = "DirectionEnable"
    <3> HIDE DEF a, b
    <3>1. <<a>> \o <<>> = <<a>> /\ <<>> \o <<b>> = <<b>>
      BY <2>1, ShortPrograms, ConcatEmptySeq
    <3>2. <<a>> \o <<b>> = <<a, b>>
      BY <2>1, PairOfSteps
    <3> QED BY <1>0, <2>2, <3>1, <3>2
  <2> HIDE DEF s
  <2>4. s \in Seq(Step)
    BY <2>1, <2>3, ShortPrograms
  <2>5. /\ \A q \in Ports \ {p} : port'[q] = port[q]
        /\ port'[p].direction = todo[1].with /\ port'[p].state = port[p].state
        /\ port'[p].rdm = port[p].rdm /\ todo[1].with \in {"Input", "Output"}
    BY <1>0, <1>20, <2>2, ChangeDirectionEffect, StepFacts DEF Becomes
  <2> HIDE DEF a, b
  <2>6. CASE todo[1].do = "DirectionDisable"
    <3>1. s = <<a>> /\ Len(<<a>>) = 1 /\ <<a>>[1] = a /\ ~started[p]
      BY <1>a, <2>3, <2>6 DEF Turns
    <3>2. Resumes(p, s)
      BY <1>0, <1>4, <2>1, <2>2, <2>5, <3>1 DEF Resumes
    <3> QED BY <2>4, <3>2
  <2>7. CASE todo[1].do = "DirectionEnable"
    <3>1. /\ \A i \in 1 .. Len(s) : /\ ~Turns(s[i])
                                    /\ s[i].do \in Stops =>
                                         \E k \in i + 1 .. Len(s) : Restart(s[k], s[i].port)
          /\ \E k \in 1 .. Len(s) : Restart(s[k], p) /\ s[k].do = "DataEnable" /\ s[k].port = p
      <4>1. CASE s = <<b>>
        <5>1. Len(s) = 1 /\ s[1] = b
          BY <4>1
        <5> QED BY <2>1, <5>1
      <4>2. CASE s = <<a, b>>
        <5>1. Len(s) = 2 /\ s[1] = a /\ s[2] = b /\ 1 .. 2 = {1, 2} /\ 2 \in 1 + 1 .. 2
          BY <4>2
        <5> QED BY <2>1, <5>1
      <4> QED BY <2>3, <2>7, <4>1, <4>2
    <3>2. started[p] => port'[p].direction = "Output"
      BY <1>a, <2>5, <2>7 DEF Turns
    <3>3. Resumes(p, s)
      BY <1>0, <1>4, <1>a, <2>2, <2>5, <3>1, <3>2 DEF Resumes
    <3> QED BY <2>4, <3>3
  <2> QED BY <2>2, <2>6, <2>7
<1> QED
  BY <1>1, <1>5, <1>6, <1>7, <1>8, <1>9, <1>10, <1>11, <1>12, <1>13, <1>14, <1>15, <1>16,
     <1>17, <1>18, <1>19, <1>20, <1>21

\* A call finds every port that was started running.
LEMMA ContinuousCalls ==
  ASSUME Typed, ContinuousInv, Calls
  PROVE  ContinuousInv'
<1>1. todo = <<>>
  BY DEF Calls, Start, Stop, StartInput, StopInput, SetSendData, Sync, ChangeStyle, Blackout,
         RdmTransmit, RdmTransmitDiscoveryRespondMessage, Call
<1>2. \A q \in Ports :
        /\ port'[q].direction = port[q].direction /\ port'[q].state = port[q].state
        /\ port'[q].tx = port[q].tx /\ port'[q].rdm = port[q].rdm
        /\ port'[q].style = port[q].style
  BY CallsKeep
<1>3. \A q \in Ports : started[q] =>
        /\ port[q].rdm = "Idle" /\ port[q].direction = "Output" /\ port[q].state # "Rx"
        /\ port[q].style = "Constant" => port[q].tx # "Idle"
  <2>1. DOMAIN todo = {} /\ \A q \in Ports : ~Now("DirectionEnable", q)
    BY <1>1 DEF Now
  <2> QED BY <2>1 DEF ContinuousInv, StartedInv, EnabledInv, RestartInv
\* Most calls start and stop nothing, and turn only ports that were not started.
<1>4. ASSUME started' = started,
             \A i \in DOMAIN todo' : /\ todo'[i].do \notin Stops
                                     /\ Turns(todo'[i]) => ~started[todo'[i].port]
      PROVE  ContinuousInv'
  BY <1>2, <1>3, <1>4 DEF ContinuousInv, StartedInv, EnabledInv, RestartInv, StopInv
<1>5. ASSUME NEW a \in Step, todo' = <<a>>, started' = started, a.do \notin Stops,
             Turns(a) => ~started[a.port]
      PROVE  ContinuousInv'
  <2>1. DOMAIN todo' = {1} /\ todo'[1] = a
    BY <1>5
  <2> QED BY <1>4, <1>5, <2>1
<1>6. ASSUME NEW what \in {"SyncPort", "BlackoutPort"}, started' = started,
             todo' = [i \in 1 .. Len(PortOrder) |-> Do(what, PortOrder[i])]
      PROVE  ContinuousInv'
  <2>1. \A i \in DOMAIN todo' : todo'[i].do = what
    BY <1>6 DEF Do
  <2> QED BY <1>4, <1>6, <2>1 DEF Stops, Turns
<1>7. ASSUME NEW p \in Ports, Start(p) PROVE ContinuousInv'
  <2> DEFINE a == SetPortDirection(p, "Output", TRUE)
  <2>1. a.do = "DirectionEnable" /\ a.port = p /\ a.with = "Output"
    BY DEF SetPortDirection, DoWith
  <2>2. todo' = <<a>> /\ port[p].rdm = "Idle"
    BY <1>7 DEF Start, Call, Free
  <2>3. \A q \in Ports : started'[q] => q = p \/ started[q]
    BY <1>7 DEF Start, Typed
  <2> HIDE DEF a
  <2>4. DOMAIN todo' = {1} /\ todo'[1] = a /\ Head(todo') = a /\ todo' # <<>>
    BY <2>2
  <2>5. Now("DirectionEnable", p)' /\ Restart(a, p) /\ ~Turns(a) /\ a.do \notin Stops
    BY <2>1, <2>4 DEF Now, Restart, Turns, Stops
  <2>6. StartedInv'
    BY <1>2, <1>3, <2>2, <2>3, <2>4, <2>5 DEF StartedInv
  <2>7. EnabledInv'
    BY <1>2, <1>3, <2>1, <2>3, <2>4 DEF EnabledInv
  <2>8. RestartInv'
    BY <1>2, <1>3, <2>3, <2>4, <2>5 DEF RestartInv, Restart
  <2>9. StopInv'
    BY <2>4, <2>5 DEF StopInv
  <2> QED BY <2>6, <2>7, <2>8, <2>9 DEF ContinuousInv
<1>8. ASSUME NEW p \in Ports, Stop(p) PROVE ContinuousInv'
  <2> DEFINE a == SetPortDirection(p, "Output", FALSE)
  <2>1. a.do = "DirectionDisable" /\ a.port = p
    BY DEF SetPortDirection, DoWith
  <2>2. todo' = <<a>>
    BY <1>8 DEF Stop, Call
  <2>3. ~started'[p] /\ \A q \in Ports : started'[q] => started[q]
    BY <1>8 DEF Stop, Typed
  <2> HIDE DEF a
  <2>4. DOMAIN todo' = {1} /\ todo'[1] = a
    BY <2>2
  <2>5. StartedInv'
    BY <1>2, <1>3, <2>1, <2>3, <2>4 DEF StartedInv
  <2>6. EnabledInv' /\ RestartInv'
    BY <1>2, <1>3, <2>3 DEF EnabledInv, RestartInv
  <2>7. StopInv'
    BY <2>1, <2>4 DEF StopInv, Stops
  <2> QED BY <2>5, <2>6, <2>7 DEF ContinuousInv
<1>9. ASSUME NEW p \in InputPorts, StartInput(p) \/ StopInput(p) PROVE ContinuousInv'
  <2>1. PICK e \in BOOLEAN : /\ todo' = <<SetPortDirection(p, "Input", e)>>
                             /\ port[p].direction = "Input" /\ started' = started
    BY <1>9 DEF StartInput, StopInput, Call, Only
  <2> DEFINE a == SetPortDirection(p, "Input", e)
  <2>2. /\ a \in Step /\ a.do \in {"DirectionEnable", "DirectionDisable"} /\ a.port = p
        /\ p \in Ports
    BY StepTypes, PortAssumption DEF SetPortDirection, DoWith
  <2>3. todo' = <<a>>
    BY <2>1
  <2> HIDE DEF a
  <2>4. ~started[p] /\ a.do \notin Stops
    BY <1>3, <2>1, <2>2 DEF Stops
  <2> QED BY <1>5, <2>1, <2>2, <2>3, <2>4
<1>10. ASSUME NEW p \in Ports, NEW x \in Packets, NEW s \in Begins, SetSendData(p, x, s)
       PROVE  ContinuousInv'
  <2> DEFINE a == DoWith(s, p, x)
  <2>1. a \in Step /\ a.do \in Begins
    BY StepTypes DEF DoWith, Copies
  <2>2. todo' = <<a>> /\ started' = started
    BY <1>10 DEF SetSendData, Call, Only
  <2> HIDE DEF a
  <2> QED BY <1>5, <2>1, <2>2 DEF Stops, Turns, Begins
<1>11. ASSUME NEW p \in Ports, NEW s \in Styles, ChangeStyle(p, s) PROVE ContinuousInv'
  <2> DEFINE a == DoWith("SetOutputStyle", p, s)
  <2>1. a \in Step /\ a.do = "SetOutputStyle"
    BY StepTypes DEF DoWith
  <2>2. todo' = <<a>> /\ started' = started
    BY <1>11 DEF ChangeStyle, Call, Only
  <2> HIDE DEF a
  <2> QED BY <1>5, <2>1, <2>2 DEF Stops, Turns
<1>12. Sync \/ Blackout => ContinuousInv'
  BY <1>6 DEF Sync, Blackout, Call, Only
<1>13. ASSUME NEW p \in RdmPorts, RdmTransmit(p) PROVE ContinuousInv'
  <2> DEFINE a == SetPortDirection(p, "Output", FALSE)
             b == Do("StartRdmOutput", p)
  <2>1. /\ a.do = "DirectionDisable" /\ a.port = p
        /\ b.do = "StartRdmOutput" /\ b.port = p
    BY DEF SetPortDirection, DoWith, Do
  <2>2. todo' = <<a, b>> /\ ~started[p] /\ started' = started
    BY <1>13 DEF RdmTransmit, Call, Only
  <2> HIDE DEF a, b
  <2>3. DOMAIN todo' = {1, 2} /\ todo'[1] = a /\ todo'[2] = b
    BY <2>2
  <2> QED BY <1>4, <2>1, <2>2, <2>3 DEF Stops
<1>14. ASSUME NEW p \in RdmPorts, RdmTransmitDiscoveryRespondMessage(p) PROVE ContinuousInv'
  <2> DEFINE a == SetPortDirection(p, "Output", FALSE)
             b == Do("WriteResponse", p)
             c == SetPortDirection(p, "Input", TRUE)
  <2>1. /\ a.do = "DirectionDisable" /\ a.port = p
        /\ b.do = "WriteResponse" /\ b.port = p
        /\ c.do = "DirectionEnable" /\ c.port = p
    BY DEF SetPortDirection, DoWith, Do
  <2>2. todo' = <<a, b, c>> /\ ~started[p] /\ started' = started
    BY <1>3, <1>14, PortAssumption DEF RdmTransmitDiscoveryRespondMessage, Call, Only
  <2> HIDE DEF a, b, c
  <2>3. DOMAIN todo' = {1, 2, 3} /\ todo'[1] = a /\ todo'[2] = b /\ todo'[3] = c
    BY <2>2
  <2> QED BY <1>4, <2>1, <2>2, <2>3 DEF Stops
<1> QED BY <1>7, <1>8, <1>9, <1>10, <1>11, <1>12, <1>13, <1>14 DEF Calls, Begins

\* An interrupt takes a continuous port from one part of its cycle to the next.
LEMMA ContinuousInterrupts ==
  ASSUME Typed, ContinuousInv, NEW p \in Ports, Interrupts(p)
  PROVE  ContinuousInv'
<1>1. todo' = todo /\ started' = started
  BY DEF Interrupts, CounterWraps, TimerDmx, TimerRdm, TimerIdle, DmaIsr, TransmissionComplete,
         InterruptOnly
<1>2. \A q \in Ports \ {p} : port'[q] = port[q]
  BY CounterWrapsEffect, TimerDmxEffect, TimerRdmEffect, TimerIdleEffect, DmaIsrEffect,
     TransmissionCompleteEffect DEF Interrupts, Becomes
<1>3. ASSUME started[p]
      PROVE  /\ port'[p].rdm = "Idle"
             /\ port'[p].direction = port[p].direction /\ port'[p].state = port[p].state
             /\ port'[p].style = port[p].style
             /\ port'[p].style = "Constant" /\ port'[p].tx = "Idle" => port[p].tx = "Idle"
  <2>1. port[p].rdm = "Idle"
    BY <1>3 DEF ContinuousInv, StartedInv
  <2>2. CASE CounterWraps(p)
    BY <2>1, <2>2, CounterWrapsEffect DEF Becomes
  <2>3. CASE TimerDmx(p)
    BY <2>1, <2>3, TimerDmxEffect DEF Becomes
  <2>4. CASE TimerRdm(p)
    BY <2>1, <2>4 DEF TimerRdm
  <2>5. CASE TimerIdle(p)
    BY <2>1, <2>5, TimerIdleEffect DEF Becomes
  <2>6. CASE DmaIsr(p)
    BY <2>1, <2>6, DmaIsrEffect DEF Becomes
  <2>7. CASE TransmissionComplete(p)
    BY <2>1, <2>7, TransmissionCompleteEffect DEF Becomes
  <2> QED BY <2>2, <2>3, <2>4, <2>5, <2>6, <2>7 DEF Interrupts
<1>4. \A q \in Ports : Now("DirectionEnable", q)' <=> Now("DirectionEnable", q)
  BY <1>1 DEF Now
<1>5. \A q \in Ports : started[q] =>
        /\ port'[q].rdm = "Idle"
        /\ port'[q].direction = port[q].direction /\ port'[q].state = port[q].state
        /\ port'[q].style = port[q].style
        /\ port'[q].style = "Constant" /\ port'[q].tx = "Idle" => port[q].tx = "Idle"
  BY <1>2, <1>3 DEF ContinuousInv, StartedInv
<1>6. StartedInv'
  BY <1>1, <1>4, <1>5 DEF ContinuousInv, StartedInv
<1>7. EnabledInv'
  BY <1>1, <1>5 DEF ContinuousInv, EnabledInv
<1>8. RestartInv'
  BY <1>1, <1>5 DEF ContinuousInv, RestartInv, Restart
<1>9. StopInv'
  BY <1>1 DEF ContinuousInv, StopInv, Restart
<1> QED BY <1>6, <1>7, <1>8, <1>9 DEF ContinuousInv

LEMMA ContinuousInductive == Spec => [](Typed /\ ContinuousInv)
<1>1. Init => ContinuousInv
  BY DEF Init, ContinuousInv, StartedInv, EnabledInv, RestartInv, StopInv
<1>2. ASSUME Typed, ContinuousInv, Superloop PROVE ContinuousInv'
  <2>1. PICK p \in Ports, steps \in Seq(Step) : Resumes(p, steps)
    BY <1>2, SuperloopResumes
  <2> QED BY <1>2, <2>1, ResumesKeeps
<1>3. ContinuousInv /\ UNCHANGED vars => ContinuousInv'
  BY DEF ContinuousInv, StartedInv, EnabledInv, RestartInv, StopInv, Restart, Now, vars
<1>4. Typed /\ ContinuousInv /\ [Next]_vars => ContinuousInv'
  BY <1>2, <1>3, ContinuousCalls, ContinuousInterrupts DEF Next
<1> QED BY <1>1, <1>4, TypeInit, TypeNext, PTL DEF Spec

\* A port that was started with continuous output has its cycle running whenever the
\* superloop is between two calls, for any ports, packets and styles, whatever the
\* other ports were asked to do and wherever the interrupts came.
THEOREM ContinuousKeepsRunning == Spec => []ConstantRuns
<1>1. ContinuousInv => ConstantRuns
  BY DEF ContinuousInv, RestartInv, ConstantRuns
<1> QED BY <1>1, ContinuousInductive, PTL

==============================================================================
