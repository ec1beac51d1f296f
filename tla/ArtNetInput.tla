---------------------------- MODULE ArtNetInput ----------------------------
(***************************************************************************)
(* An input port of the Art-Net node,                                      *)
(* lib-artnet/src/node/dmxin/handledmxin.cpp: the superloop polls the      *)
(* receiver (DmxRx) for DMX that changed, sends it as ArtDmx, and when     *)
(* nothing came for a second tells so and repeats the last data.  The      *)
(* interrupts go on between the reads of one call.                         *)
(***************************************************************************)
EXTENDS DmxRx

CONSTANT
  Quick       \* no packet ends while HandleDmxIn() is between two reads

ASSUME QuickAssumption == Quick \in BOOLEAN

VARIABLES
  at,        \* where the superloop is
  previous,  \* dmx.previous.slots_in_packet
  good,      \* good_input: kDataRecieved and kDisabled
  sent,      \* the length of the ArtDmx of this turn, or None
  told,      \* input_port_.millis # 0: the loss was told
  plugged    \* the line comes from a sender

node == <<previous, good, told, sent>>
vars == <<rxvars, at, node, plugged>>

Init ==
  /\ InitRx /\ at = "Loop" /\ previous = 0
  /\ good = [received |-> FALSE, disabled |-> FALSE]
  /\ told = FALSE /\ sent = None /\ plugged = TRUE

----------------------------------------------------------------------------
(* HandleDmxIn() *)

\* The word slots_in_packet: with the flag in it, it is above every count.
SlotsInPacket == IF slots.complete THEN ChannelsMax + 2 + slots.n ELSE slots.n

\* The call begins, and asks GetDmxChanged().
Poll ==
  /\ at = "Loop" /\ ~good.disabled
  /\ \/ GetDmxAvailable_Read /\ at' = "Take"
     \/ ~slots.complete /\ at' = "Rate" /\ UNCHANGED rxvars
  /\ UNCHANGED <<node, plugged>>

Take ==
  /\ at = "Take" /\ GetDmxAvailable_Write /\ at' = "Compare"
  /\ UNCHANGED <<node, plugged>>

\* GetDmxChanged() compares the counts, then the data.
Compare ==
  /\ at = "Compare"
  /\ \/ SlotsInPacket # previous /\ at' = "Send"
     \/ SlotsInPacket = previous /\ at' \in {"Send", "Rate"}
  /\ previous' = SlotsInPacket
  /\ UNCHANGED <<rxvars, good, told, sent, plugged>>

\* The length of an ArtDmx: slots_in_packet as it is, made even.
Length == SlotsInPacket + (SlotsInPacket % 2)

\* The length and the data are read from the receiver's buffer again.
Send ==
  /\ at = "Send" /\ at' = "Rdm"
  /\ sent' = Length
  /\ good' = [good EXCEPT !.received = TRUE]
  /\ UNCHANGED <<rxvars, previous, told, plugged>>

\* No packet was counted in a whole second: loss of data, or again a second later.
Rate ==
  /\ at = "Rate"
  /\ \/ packets.rate /\ at' = "Rdm" /\ UNCHANGED <<good, told>>
     \/ /\ ~packets.rate /\ good.received /\ at' = "Repeat"
        /\ good' = [good EXCEPT !.received = FALSE] /\ told' = TRUE
     \/ /\ ~packets.rate /\ ~good.received
        /\ at' = "Rdm" \/ (told /\ at' = "Repeat")
        /\ UNCHANGED <<good, told>>
  /\ UNCHANGED <<rxvars, previous, sent, plugged>>

Repeat ==
  /\ at = "Repeat" /\ at' = "Rdm"
  /\ sent' = Length
  /\ UNCHANGED <<rxvars, previous, good, told, plugged>>

\* The rest of ArtNetNode::Run(): HandleRdmIn() polls the same receiver.
HandleRdmIn ==
  /\ at = "Rdm" \/ (at = "Loop" /\ good.disabled)
  /\ \/ rdm.complete /\ at' = "RdmReceive"
     \/ ~rdm.complete /\ at' = "Loop"
  /\ sent' = None
  /\ UNCHANGED <<rxvars, previous, good, told, plugged>>

RdmIn ==
  /\ at = "RdmReceive" /\ at' = "Loop"
  /\ RdmReceive
  /\ UNCHANGED <<node, plugged>>

Run == \/ Poll \/ Take \/ Compare \/ Send \/ Rate \/ Repeat
       \/ HandleRdmIn \/ RdmIn

----------------------------------------------------------------------------
\* HandleInput(): ArtInput disables the input or enables it again.
HandleInput ==
  /\ at = "Loop"
  /\ good' = [good EXCEPT !.disabled = ~@]
  /\ Counts(~good.disabled)
  /\ UNCHANGED <<receiver, driver, line, torn, at, previous, told, sent, plugged>>

\* SetPortDirection() for an input port.
SetPortDirection ==
  /\ at = "Loop"
  /\ Counts(listening)
  /\ DataDisable \/ DataEnable
  /\ UNCHANGED <<line, torn, at, node, plugged>>

\* The cable is pulled, and the line idle from then on, or put back.
Cable ==
  /\ \/ /\ plugged /\ line.place # 1
        /\ Quick => at = "Loop"
        /\ line' = [phase |-> "Quiet", place |-> 0]
        /\ IF listening /\ line.phase = "Data" THEN IdleFrame ELSE UNCHANGED receiver
     \/ ~plugged /\ UNCHANGED <<receiver, line>>
  /\ plugged' = ~plugged
  /\ Counts(plugged)
  /\ UNCHANGED <<driver, torn, at, node>>

Sender ==
  /\ plugged /\ Line
  /\ Quick /\ at # "Loop" => slots.complete \/ ~slots'.complete
  /\ UNCHANGED <<at, node, plugged>>

Second == Timer6 /\ UNCHANGED <<at, node, plugged>>

Next == Run \/ HandleInput \/ SetPortDirection \/ Cable \/ Sender \/ Second

Spec == Init /\ [][Next]_vars

\* The superloop turns, the timer ticks, and a sender goes on with its packets:
\* strongly, as a packet that ends during a call ends between two if Quick.
FairSpec == Spec /\ WF_vars(Run) /\ WF_vars(Second) /\ SF_vars(Sender)

----------------------------------------------------------------------------
(* Properties *)

TypeOK ==
  /\ TypeOKRx
  /\ at \in {"Loop", "Take", "Compare", "Send", "Rate", "Repeat", "Rdm", "RdmReceive"}
  /\ at = "Take" <=> taking # None
  /\ previous \in 0 .. 2 * ChannelsMax + 3
  /\ good \in [received : BOOLEAN, disabled : BOOLEAN] /\ told \in BOOLEAN
  /\ sent \in {None} \cup 0 .. 2 * ChannelsMax + 4 /\ plugged \in BOOLEAN

\* After any noise, truncated RDM message or cut-off packet the receiver finds back
\* to whole packets for as long as a sender sends them: no state of the handler,
\* some of which ignore breaks and idle frames, is for ever.
Recovers ==
  <>[](plugged /\ listening) => []<>(slots.complete /\ intact = slots.n)

\* When the DMX stops, the node comes to tell so: "data received" is not left set
\* by a packet that came just before, or was only polled after, the silence.
LossReported == <>[](~plugged /\ ~good.disabled) => <>[](~good.received)

\* An ArtDmx has a length of 2 .. 512 ("This value should be an even number in the
\* range 2 - 512", lib-artnet/include/artnet.h:458): not one with the flag in it
\* that the interrupt sets between GetDmxChanged() and the read of the length.
LengthInRange == sent # None => sent \in 2 .. 2 * ((ChannelsMax + 1) \div 2)
=============================================================================
