------------------------------- MODULE DmxTx -------------------------------
(***************************************************************************)
(* The transmitting half of the DMX512/RDM driver, lib-dmx/src/gd32/dmx.cpp.*)
(*                                                                         *)
(* Three parties share a port without a lock: the superloop, which calls   *)
(* the Dmx class; the timer interrupt, which times break, mark-after-break *)
(* and the gap between packets; and the DMA interrupt at the end of a      *)
(* packet.  The superloop is a program of small steps, `todo', so that the *)
(* interrupts can come between any two of them; an interrupt handler runs  *)
(* to its end (one port's timer and DMA interrupts never nest, because the *)
(* timer is not running while its DMA is).                                 *)
(*                                                                         *)
(* A packet is one value.  Copying it takes a moment in which the buffer   *)
(* holds Partial, and a packet whose buffer is written while the DMA reads *)
(* it goes out as Partial.                                                 *)
(***************************************************************************)
EXTENDS Naturals, Sequences, SequencesExt, FiniteSets

CONSTANTS
  Ports,        \* the ports, all of Usage::kTxRx
  Packets,      \* the DMX packets callers hand over
  Styles,       \* the output styles that are ever set
  RdmPorts,     \* the ports on which RDM is done
  InputPorts    \* the ports also used as DMX inputs

Dark    == "Dark"      \* the packet ClearData() makes (FullOn() makes another)
Partial == "Partial"   \* neither the old packet nor the new one

ASSUME PacketAssumption == {Dark, Partial} \cap Packets = {}
ASSUME PortAssumption == /\ IsFiniteSet(Ports)
                         /\ RdmPorts \subseteq Ports /\ InputPorts \subseteq Ports
ASSUME StyleAssumption == "Delta" \in Styles /\ Styles \subseteq {"Delta", "Constant"}

VARIABLES
  port,         \* the driver's and the peripheral's state of each port
  continuous,   \* has_continuous_output_
  started,      \* DmxSend::started_
  todo,         \* what the superloop has still to do in its current call
  expected,     \* history: the packets of which the next one on the wire is due
  wire          \* history: the packet last put on the wire, per port

vars == <<port, continuous, started, todo, expected, wire>>

\* line: what the transmitter of the USART does.  tc: its flag TC, transmission
\* complete.  timer: a compare match is due.
PortRecord ==
  [direction : {"Input", "Output"},
   state     : {"Idle", "Tx", "Rx"},                  \* sv_port_state
   tx        : {"Idle", "Inter", "Break", "Mab"},     \* s_DmxTxBuffer.state
   rdm       : {"Idle", "Break", "Mab", "Direction"}, \* s_RdmTxBuffer.state
   style     : {"Delta", "Constant"},
   read      : {0, 1},
   write     : {0, 1},
   pending   : BOOLEAN,                               \* data_pending
   buffer    : [{0, 1} -> Packets \cup {Dark, Partial}],
   listening : BOOLEAN,                               \* receive interrupts enabled
   timer     : BOOLEAN,
   line      : {"Quiet", "Dmx", "Rdm", "Shifting"},
   tc        : BOOLEAN,
   raced     : BOOLEAN,    \* history: the packet on the wire was begun while a new
                           \* one was handed over
   stray     : BOOLEAN]    \* history: the latest break was driven on a port that was
                           \* not enabled

PowerOn == [direction |-> "Input", state |-> "Idle", tx |-> "Idle", rdm |-> "Idle",
            style |-> "Delta", read |-> 0, write |-> 0, pending |-> FALSE,
            buffer |-> [i \in {0, 1} |-> Dark], listening |-> FALSE,
            timer |-> FALSE, line |-> "Quiet", tc |-> TRUE,
            raced |-> FALSE, stray |-> FALSE]

Init ==
  /\ port = [p \in Ports |-> PowerOn]
  /\ continuous = FALSE
  /\ started = [p \in Ports |-> FALSE]
  /\ todo = <<>>
  /\ expected = [p \in Ports |-> {Dark}]
  /\ wire = [p \in Ports |-> Dark]

----------------------------------------------------------------------------
(* The superloop's program. *)

Do(what, p)       == [do |-> what, port |-> p, with |-> "None"]
DoWith(what, p, x) == [do |-> what, port |-> p, with |-> x]

SetPortDirection(p, direction, enable) ==
  DoWith(IF enable THEN "DirectionEnable" ELSE "DirectionDisable", p, direction)

Now(what, p) == todo # <<>> /\ Head(todo).do = what /\ Head(todo).port = p
With         == Head(todo).with
Then(steps)  == todo' = steps \o Tail(todo)
Call(steps)  == todo = <<>> /\ todo' = steps

PortOrder == SetToSeq(Ports)

\* Changes nothing but the program, the ports and the named history.
Only == UNCHANGED <<continuous, started, expected, wire>>

\* Dmx::SetPortDirection()
ChangeDirection(p) ==
  /\ Now("DirectionEnable", p) \/ Now("DirectionDisable", p)
  /\ LET enable == Head(todo).do = "DirectionEnable"
     IN  Then((IF port[p].direction # With \/ ~enable THEN <<Do("DataDisable", p)>> ELSE <<>>)
              \o (IF enable THEN <<Do("DataEnable", p)>> ELSE <<>>))
  /\ port' = [port EXCEPT ![p].direction = With]
  /\ Only

\* Dmx::DataEnable()
DataEnableOutput(p) ==
  /\ Now("DataEnable", p)
  /\ port[p].direction = "Output"
  /\ port' = [port EXCEPT ![p].state = "Tx", ![p].tx = "Idle"]
  /\ Then(<<DoWith("SetOutputStyle", p, port[p].style)>>)
  /\ Only

DataEnableInput(p) ==
  /\ Now("DataEnable", p)
  /\ port[p].direction = "Input"
  /\ port' = [port EXCEPT ![p].state = "Rx", ![p].listening = TRUE]
  /\ Then(<<>>)
  /\ Only

\* Dmx::DataDisable().  The branch is taken by the direction, which the caller
\* has already changed.
DataDisableIdle(p) ==
  /\ Now("DataDisable", p)
  /\ port[p].state = "Idle"
  /\ Then(<<>>)
  /\ UNCHANGED port /\ Only

\* Mutant: without the wait for the packet under way.
DataDisableOutput_NoDrain(p) ==
  /\ Now("DataDisable", p)
  /\ port[p].state # "Idle"
  /\ port[p].direction = "Output"
  /\ port' = [port EXCEPT ![p].state = "Idle"]
  /\ Then(<<>>)
  /\ Only

DataDisableOutput(p) ==
  /\ Now("DataDisable", p)
  /\ port[p].state # "Idle"
  /\ port[p].direction = "Output"
  /\ port' = [port EXCEPT ![p].state = "Idle"]
  /\ Then(<<Do("Drain", p)>>)
  /\ Only

DataDisableInput(p) ==
  /\ Now("DataDisable", p)
  /\ port[p].state # "Idle"
  /\ port[p].direction = "Input"
  /\ port' = [port EXCEPT ![p].state = "Idle", ![p].listening = FALSE]
  /\ Then(<<>>)
  /\ Only

\* Its spin loop: wait for the end of the packet; in the gap between two, clear
\* TC, wait for it, and go idle.
DrainIdle(p) ==
  /\ Now("Drain", p)
  /\ port[p].tx = "Idle"
  /\ Then(<<>>)
  /\ UNCHANGED port /\ Only

DrainInter(p) ==
  /\ Now("Drain", p)
  /\ port[p].tx = "Inter"
  /\ port' = [port EXCEPT ![p].tc = FALSE]
  /\ Then(<<Do("DrainComplete", p), Do("Drain", p)>>)
  /\ Only

DrainComplete(p) ==
  /\ Now("DrainComplete", p)
  /\ port[p].tc
  /\ port' = [port EXCEPT ![p].tx = "Idle"]
  /\ Then(<<>>)
  /\ Only

\* Mutant: an idle port is not restarted when another port is continuous already.
SetOutputStyle_FirstOnly(p) ==
  /\ Now("SetOutputStyle", p)
  /\ port' = [port EXCEPT ![p].style = With]
  /\ continuous' = (With = "Constant" \/ \E q \in Ports : port'[q].style = "Constant")
  /\ Then(IF With = "Constant" /\ ~continuous /\ port[p].direction = "Output"
          THEN <<Do("StartDmxOutput", p)>> ELSE <<>>)
  /\ UNCHANGED <<started, expected, wire>>

\* Dmx::SetOutputStyle().  When a port is continuous already, all continuous
\* ports are stopped and then started together.
SetOutputStyle(p) ==
  /\ Now("SetOutputStyle", p)
  /\ port' = [port EXCEPT ![p].style = With]
  /\ continuous' = (With = "Constant" \/ \E q \in Ports : port'[q].style = "Constant")
  /\ LET together == SetToSeq({q \in Ports : /\ port'[q].style = "Constant"
                                               /\ port[q].direction = "Output"})
         each(what) == [i \in 1 .. Len(together) |-> Do(what, together[i])]
     IN  Then(CASE With = "Delta" -> <<>>
                [] With = "Constant" /\ continuous ->
                     each("DataDisable") \o each("StartDmxOutput")
                [] OTHER -> IF port[p].direction = "Output"
                            THEN <<Do("StartDmxOutput", p)>> ELSE <<>>)
  /\ UNCHANGED <<started, expected, wire>>

\* Mutant: the break is driven, but its end is not programmed.
StartDmxOutput_NoTimer(p) ==
  /\ Now("StartDmxOutput", p)
  /\ port[p].tc
  /\ port' = [port EXCEPT ![p].tx = "Break"]
  /\ Then(<<>>)
  /\ Only

\* Dmx::StartDmxOutput(): wait for TC, then drive the break.
StartDmxOutput(p) ==
  /\ Now("StartDmxOutput", p)
  /\ port[p].tc
  /\ port' = [port EXCEPT ![p].tx = "Break", ![p].timer = TRUE,
                          ![p].stray = port[p].state # "Tx"]
  /\ Then(<<>>)
  /\ Only

----------------------------------------------------------------------------
(* Handing over a packet: Dmx::SetSendDataInternal(). *)

\* The direct start needs an enabled, triggered, idle port.
MayTrigger(p) == port[p].state = "Tx" /\ port[p].style = "Delta" /\ port[p].tx = "Idle"

Trigger(p) == IF MayTrigger(p) THEN <<Do("StartDmxOutput", p)>> ELSE <<>>

\* Mutant: the write index is switched although a packet is pending.
SetSendData_AlwaysSwitch(p, x, begin) ==
  /\ Call(<<DoWith(begin, p, x)>>)
  /\ port' = [port EXCEPT ![p].write = 1 - @, ![p].raced = FALSE]
  /\ Only

\* The two indices are compared, and the write index is switched if they are equal.
\* Nothing can come between the two: the interrupt moves the read index only when they
\* differ, and then the write index stays.
SetSendData(p, x, begin) ==
  /\ Call(<<DoWith(begin, p, x)>>)
  /\ port' = [port EXCEPT ![p].write = IF port[p].read = @ THEN 1 - @ ELSE @,
                          ![p].raced = FALSE]
  /\ Only

\* The length is set and the copy under way, into a buffer the interrupt may have begun
\* to send since.
BeginCopy(p) ==
  /\ Now("BeginDirect", p) \/ Now("BeginSync", p)
  /\ LET w == port[p].write
     IN  /\ port' = [port EXCEPT ![p].pending = TRUE, ![p].buffer[w] = Partial]
         /\ wire' = [wire EXCEPT ![p] = IF port[p].line = "Dmx" /\ port[p].read = w
                                        THEN Partial ELSE @]
  /\ Then(<<DoWith(IF Head(todo).do = "BeginDirect" THEN "Direct" ELSE "Sync", p, With)>>)
  /\ UNCHANGED <<continuous, started, expected>>

\* SendStyle::kDirect triggers a packet, SendStyle::kSync leaves it to Sync().
EndCopy(p) ==
  /\ Now("Direct", p) \/ Now("Sync", p)
  /\ port' = [port EXCEPT ![p].buffer[port[p].write] = With]
  /\ expected' = [expected EXCEPT ![p] = {With}]
  /\ Then(IF Head(todo).do = "Direct" THEN Trigger(p) ELSE <<>>)
  /\ UNCHANGED <<continuous, started, wire>>

\* Dmx::Sync(), port by port
SyncPort(p) ==
  /\ Now("SyncPort", p)
  /\ port' = [port EXCEPT ![p].pending = FALSE]
  /\ Then(IF port[p].pending THEN Trigger(p) ELSE <<>>)
  /\ Only

\* Dmx::ClearData() and the fill of FullOn(): always buffer 0
ClearData(p) ==
  /\ Now("ClearData", p)
  /\ port' = [port EXCEPT ![p].buffer[0] = Dark]
  /\ expected' = [expected EXCEPT ![p] = @ \cup {Dark}]
  /\ wire' = [wire EXCEPT ![p] = IF port[p].line = "Dmx" /\ port[p].read = 0
                                 THEN Partial ELSE @]
  /\ Then(<<>>)
  /\ UNCHANGED <<continuous, started>>

\* Dmx::Blackout() and FullOn(), port by port
BlackoutPort(p) ==
  /\ Now("BlackoutPort", p)
  /\ Then(IF port[p].direction = "Output"
          THEN <<Do("DataDisable", p), Do("ClearData", p), Do("DataEnable", p)>>
          ELSE <<>>)
  /\ UNCHANGED port /\ Only

\* Mutant: without the wait for TC.
StartRdmOutput_NoWait(p) ==
  /\ Now("StartRdmOutput", p)
  /\ port' = [port EXCEPT ![p].rdm = "Break", ![p].timer = TRUE]
  /\ Then(<<>>)
  /\ Only

\* Dmx::StartRdmOutput(): the message has been copied; wait for TC, drive the break.
StartRdmOutput(p) ==
  /\ Now("StartRdmOutput", p)
  /\ port[p].tc
  /\ port' = [port EXCEPT ![p].rdm = "Break", ![p].timer = TRUE]
  /\ Then(<<>>)
  /\ Only

\* The processor writes a discovery response to the USART itself and waits for TC.
WriteResponse(p) ==
  /\ Now("WriteResponse", p)
  /\ port[p].tc
  /\ Then(<<>>)
  /\ UNCHANGED port /\ Only

Superloop ==
  \E p \in Ports :
    \/ ChangeDirection(p)
    \/ DataEnableOutput(p) \/ DataEnableInput(p)
    \/ DataDisableIdle(p) \/ DataDisableOutput(p) \/ DataDisableInput(p)
    \/ DrainIdle(p) \/ DrainInter(p) \/ DrainComplete(p)
    \/ SetOutputStyle(p) \/ StartDmxOutput(p)
    \/ BeginCopy(p) \/ EndCopy(p) \/ SyncPort(p) \/ ClearData(p) \/ BlackoutPort(p)
    \/ StartRdmOutput(p) \/ WriteResponse(p)

----------------------------------------------------------------------------
(* The calls. *)

\* Assumed of the callers, nothing in the driver enforces it: they leave a port
\* alone while its RDM message goes out.
Free(p) == port[p].rdm = "Idle"

\* DmxSend::Start() and Stop()
Start(p) ==
  /\ ~started[p] /\ Free(p)
  /\ Call(<<SetPortDirection(p, "Output", TRUE)>>)
  /\ started' = [started EXCEPT ![p] = TRUE]
  /\ UNCHANGED <<port, continuous, expected, wire>>

Stop(p) ==
  /\ started[p]
  /\ Call(<<SetPortDirection(p, "Output", FALSE)>>)
  /\ started' = [started EXCEPT ![p] = FALSE]
  /\ UNCHANGED <<port, continuous, expected, wire>>

\* ArtNetNode::Start() and Stop() for an input port, as DMXReceiver does.
StartInput(p) ==
  /\ port[p].direction = "Input" /\ port[p].state = "Idle" /\ Free(p)
  /\ Call(<<SetPortDirection(p, "Input", TRUE)>>)
  /\ UNCHANGED port /\ Only

StopInput(p) ==
  /\ port[p].direction = "Input" /\ Free(p)
  /\ Call(<<SetPortDirection(p, "Input", FALSE)>>)
  /\ UNCHANGED port /\ Only

Sync ==
  /\ Call([i \in 1 .. Len(PortOrder) |-> Do("SyncPort", PortOrder[i])])
  /\ UNCHANGED port /\ Only

ChangeStyle(p, style) ==
  /\ Free(p)
  /\ Call(<<DoWith("SetOutputStyle", p, style)>>)
  /\ UNCHANGED port /\ Only

Blackout ==
  /\ \A p \in Ports : Free(p)
  /\ Call([i \in 1 .. Len(PortOrder) |-> Do("BlackoutPort", PortOrder[i])])
  /\ UNCHANGED port /\ Only

\* Dmx::RdmTransmit(): the node has stopped the port, or it is an input.
RdmTransmit(p) ==
  /\ ~started[p] /\ Free(p)
  /\ Call(<<SetPortDirection(p, "Output", FALSE), Do("StartRdmOutput", p)>>)
  /\ UNCHANGED port /\ Only

\* Dmx::RdmTransmitDiscoveryRespondMessage(): a responder answers what it received.
RdmTransmitDiscoveryRespondMessage(p) ==
  /\ port[p].state = "Rx" /\ Free(p)
  /\ Call(<<SetPortDirection(p, "Output", FALSE), Do("WriteResponse", p),
            SetPortDirection(p, "Input", TRUE)>>)
  /\ UNCHANGED port /\ Only

Calls ==
  \/ \E p \in Ports : Start(p) \/ Stop(p)
  \/ \E p \in InputPorts : StartInput(p) \/ StopInput(p)
  \/ \E p \in Ports, x \in Packets, s \in {"BeginDirect", "BeginSync"} : SetSendData(p, x, s)
  \/ Sync
  \/ \E p \in Ports, s \in Styles : ChangeStyle(p, s)
  \/ Blackout
  \/ \E p \in RdmPorts : RdmTransmit(p) \/ RdmTransmitDiscoveryRespondMessage(p)

----------------------------------------------------------------------------
(* The interrupts. *)

InterruptOnly == UNCHANGED <<continuous, started, todo, expected>>

\* A packet is being handed over to p.
Copying(p) == \E s \in {"BeginDirect", "BeginSync", "Direct", "Sync"} : Now(s, p)

\* Mutant: the index is counted up instead of toggled.
DmaRestartDmxTx_Increment(p) ==
  /\ port' = [port EXCEPT ![p].read = IF @ # port[p].write THEN @ + 1 ELSE @,
                          ![p].timer = FALSE, ![p].line = "Dmx", ![p].tc = FALSE,
                          ![p].raced = Copying(p)]
  /\ wire' = [wire EXCEPT ![p] = port[p].buffer[port[p].write]]

\* Mutant: the new packet is never taken up.
DmaRestartDmxTx_Stuck(p) ==
  /\ port' = [port EXCEPT ![p].timer = FALSE, ![p].line = "Dmx", ![p].tc = FALSE,
                          ![p].raced = Copying(p)]
  /\ wire' = [wire EXCEPT ![p] = port[p].buffer[port[p].read]]

\* DmaRestartDmxTx(): take up a new packet if there is one and send it.
DmaRestartDmxTx(p) ==
  LET r == port[p].write
  IN  /\ port' = [port EXCEPT ![p].read = r, ![p].timer = FALSE,
                              ![p].line = "Dmx", ![p].tc = FALSE,
                              ![p].raced = Copying(p)]
      /\ wire' = [wire EXCEPT ![p] = port[p].buffer[r]]

\* TIMER1_IRQHandler(), TIMER4_IRQHandler(): compare match of the port's channel.
\* Gap, break and mark after break outlast the two slots the transmitter holds when
\* a packet's DMA ends.
TimerDmx(p) ==
  /\ port[p].timer
  /\ \/ /\ port[p].tx = "Inter"
        /\ port' = [port EXCEPT ![p].tx = "Break", ![p].timer = TRUE]
        /\ UNCHANGED wire
     \/ /\ port[p].tx = "Break"
        /\ port' = [port EXCEPT ![p].tx = "Mab", ![p].timer = TRUE]
        /\ UNCHANGED wire
     \/ /\ port[p].tx = "Mab" /\ port[p].line # "Shifting"
        /\ DmaRestartDmxTx(p)
  /\ InterruptOnly

TimerRdm(p) ==
  /\ port[p].timer
  /\ port[p].tx = "Idle"
  /\ \/ /\ port[p].rdm = "Break"
        /\ port' = [port EXCEPT ![p].rdm = "Mab", ![p].timer = TRUE]
     \/ /\ port[p].rdm = "Mab"
        /\ port' = [port EXCEPT ![p].timer = FALSE, ![p].line = "Rdm", ![p].tc = FALSE]
     \/ /\ port[p].rdm = "Direction"
        /\ port' = [port EXCEPT ![p].rdm = "Idle", ![p].timer = FALSE,
                                ![p].direction = "Input", ![p].state = "Rx",
                                ![p].listening = TRUE]
  /\ UNCHANGED wire /\ InterruptOnly

TimerIdle(p) ==
  /\ port[p].timer
  /\ port[p].tx = "Idle" /\ port[p].rdm = "Idle"
  /\ port' = [port EXCEPT ![p].timer = FALSE]
  /\ UNCHANGED wire /\ InterruptOnly

\* Mutant: at the end of a packet the gap's timer is not started.
DmaIsr_NoGap(p) ==
  /\ port[p].line \in {"Dmx", "Rdm"}
  /\ port' = [port EXCEPT ![p].line = "Shifting",
                          ![p].tx = IF @ # "Idle" /\ port[p].style = "Constant"
                                    THEN "Inter" ELSE "Idle",
                          ![p].rdm = IF port[p].tx = "Idle" /\ @ # "Idle"
                                     THEN "Direction" ELSE @]
  /\ UNCHANGED wire /\ InterruptOnly

\* The DMA channel's full-transfer interrupt: the last slot is in the transmitter.
\* Which of the two messages it was is told by the DMX state alone.
DmaIsr(p) ==
  /\ port[p].line \in {"Dmx", "Rdm"}
  /\ LET dmx == port[p].tx # "Idle"
         rdm == ~dmx /\ port[p].rdm # "Idle"
         gap == dmx /\ port[p].style = "Constant"
     IN  port' = [port EXCEPT
           ![p].line  = "Shifting",
           ![p].timer = @ \/ gap \/ rdm,
           ![p].tx    = IF gap THEN "Inter" ELSE "Idle",
           ![p].rdm   = IF rdm THEN "Direction" ELSE @]
  /\ UNCHANGED wire /\ InterruptOnly

\* The transmitter has sent the last slot and sets TC.
TransmissionComplete(p) ==
  /\ port[p].line = "Shifting"
  /\ port' = [port EXCEPT ![p].line = "Quiet", ![p].tc = TRUE]
  /\ UNCHANGED wire /\ InterruptOnly

\* The counter comes round to an old compare value: far longer than a packet.
CounterWraps(p) ==
  /\ ~port[p].timer
  /\ port[p].line = "Quiet"
  /\ port' = [port EXCEPT ![p].timer = TRUE]
  /\ UNCHANGED wire /\ InterruptOnly

Interrupts(p) == \/ CounterWraps(p) \/ TimerDmx(p) \/ TimerRdm(p) \/ TimerIdle(p)
                 \/ DmaIsr(p) \/ TransmissionComplete(p)

Next ==
  \/ Calls
  \/ Superloop
  \/ \E p \in Ports : Interrupts(p)

Spec == Init /\ [][Next]_vars

\* Compare matches come when programmed (never by a wrap of the counter),
\* transfers end, and the processor goes on with its program when no interrupt
\* holds it; nothing obliges the superloop to make another call.  Strong fairness:
\* a spin loop polls TC many times in a gap, break and mark after break, so it
\* sees the flag if it is set again and again.
FairSpec ==
  /\ Spec
  /\ SF_vars(Superloop)
  /\ \A p \in Ports : WF_vars(TimerDmx(p) \/ TimerRdm(p) \/ TimerIdle(p))
                      /\ WF_vars(DmaIsr(p)) /\ WF_vars(TransmissionComplete(p))

----------------------------------------------------------------------------
(* Properties *)

Steps == {"DirectionEnable", "DirectionDisable", "DataEnable", "DataDisable", "Drain",
          "DrainComplete", "SetOutputStyle", "StartDmxOutput", "BeginDirect", "BeginSync",
          "Direct", "Sync", "SyncPort", "ClearData", "BlackoutPort", "StartRdmOutput", "WriteResponse"}

TypeOK ==
  /\ port \in [Ports -> PortRecord]
  /\ continuous \in BOOLEAN
  /\ started \in [Ports -> BOOLEAN]
  /\ \A i \in DOMAIN todo : todo[i].do \in Steps /\ todo[i].port \in Ports
  /\ expected \in [Ports -> SUBSET (Packets \cup {Dark})]
  /\ wire \in [Ports -> Packets \cup {Dark, Partial}]

\* A packet that starts while no new one is handed over carries the data handed over
\* last (or the dark packet of a blackout since): the two indices, moved by the
\* superloop and by the interrupt, never lead the DMA to the older buffer.
NewestPacket ==
  [][\A p \in Ports :
       port[p].line # "Dmx" /\ port'[p].line = "Dmx" /\ ~Copying(p)
         => wire'[p] \in expected[p]]_vars

\* A packet on the wire is not written over by the next one handed over, however many
\* come while it is sent: two buffers are enough, except for a packet that begins
\* between the comparison of the indices and the end of the copy (dmx.cpp:1593-1613).
PacketUndisturbed ==
  [][\A p \in Ports :
       port[p].line = "Dmx" /\ port'[p].line = "Dmx" /\ ~port[p].raced /\ ~Now("ClearData", p)
         => wire'[p] = wire[p]]_vars

\* The cycle of break, packet and gap runs although the port was not enabled when it
\* was begun: SetOutputStyle() disables the port, or finds it disabled, and drives the
\* break all the same.  DataDisable() passes such a port by.
Astray(p) == port[p].stray /\ port[p].tx # "Idle"

\* DMX and RDM are never both on one line: the interrupts tell them apart by the
\* DMX state alone, so a message of each kind would break both.  For every port whose
\* output was begun on an enabled port, whatever its style.
LineExclusive ==
  \A p \in Ports :
    ~Astray(p) => /\ ~(port[p].tx # "Idle" /\ port[p].rdm # "Idle")
                  /\ port[p].line = "Dmx" => port[p].rdm = "Idle"
                  /\ port[p].line = "Rdm" => port[p].tx = "Idle" /\ port[p].rdm = "Mab"

\* Every call returns: none of the waits for the flag TC and for the state the
\* interrupts set, which have no timeout ("TODO(a): Do we need a timeout just to
\* be safe?", dmx.cpp:1644), holds the superloop for ever.
CallsReturn == todo # <<>> ~> todo = <<>>

\* An RDM message, once begun, is sent and the port turned round to receive, unless the
\* latest cycle of packets on the port has got astray.
RdmTurnsRound ==
  \A p \in RdmPorts :
    port[p].rdm = "Break" /\ ~port[p].stray
      ~> \/ /\ port[p].rdm = "Idle" /\ port[p].direction = "Input"
            /\ port[p].state = "Rx" /\ port[p].listening
         \/ port[p].stray

\* A port that was started with continuous output has its cycle of break, packet
\* and gap running whenever the superloop is between two calls, whatever styles
\* the other ports were given meanwhile (dmxconst.h:40).
ConstantRuns ==
  \A p \in Ports : todo = <<>> /\ started[p] /\ port[p].style = "Constant"
                     => port[p].tx # "Idle"

\* The cycle never stops by itself: packets go on for ever.
ConstantRepeats ==
  \A p \in Ports :
    []<>(\/ port[p].line = "Dmx"
         \/ todo # <<>>
         \/ port[p].style = "Delta" \/ port[p].tx = "Idle")

\* A port that was stopped, and not enabled again by a blackout, no longer transmits,
\* with triggered and with continuous output, unless its cycle has got astray.
StopStops ==
  \A p \in Ports : todo = <<>> /\ ~started[p] /\ port[p].direction = "Output"
                     /\ port[p].state = "Idle" /\ ~Astray(p) => port[p].tx = "Idle"

\* The call that stops a port returns.
StopReturns(p) ==
  /\ ~started[p] /\ port[p].direction = "Output"
  /\ Now("DataDisable", p) \/ Now("Drain", p)
  /\ todo' = <<>>

\* "dmxnode_output_type_->Stop(port_index); // Stop DMX if was running",
\* lib-artnet/include/artnetnode_inline_impl.h:248: a port that has been stopped is
\* silent when the call returns, whatever its style.
StoppedIsSilent ==
  [][\A p \in Ports : StopReturns(p) => port'[p].tx = "Idle"]_vars
============================================================================
