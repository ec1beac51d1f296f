-------------------------- MODULE RdmScheduler_proofs --------------------------
(* Proofs about RdmScheduler, for any number of ports. *)
EXTENDS RdmScheduler, TLAPS

Inv == TypeOK /\ SearchOfTurn /\ NoRequestAsleep

LEMMA InitInv == Init => Inv
<1> SUFFICES ASSUME Init PROVE Inv
  OBVIOUS
<1>1. 0 \in Ports /\ 0 \in 0 .. Stops
  BY CountAssumption DEF Ports
<1>2. active \in BOOLEAN /\ (enabled # {} => active)
  BY ZenonT(20) DEF Init
<1> QED BY <1>1, <1>2 DEF Init, Inv, TypeOK, SearchOfTurn, NoRequestAsleep

LEMMA SuccInPorts == ASSUME NEW p \in Ports PROVE Succ(p) \in Ports
BY CountAssumption DEF Succ, Ports

\* What a call of Run() that finds the machine idle leaves.
LEMMA ServeInv ==
  ASSUME Inv, NEW finished \in BOOLEAN, Serve(finished)
  PROVE  Inv'
<1> DEFINE t == TurnAfter(finished)
<1>1. t \in Ports /\ Succ(t) \in Ports
  BY SuccInPorts, CountAssumption DEF TurnAfter, Inv, TypeOK, Ports
<1>2. CASE t \in waiting
  BY <1>1, <1>2 DEF Serve, Inv, TypeOK, SearchOfTurn, NoRequestAsleep
<1>3. CASE t \notin waiting
  BY <1>1, <1>3 DEF Serve, Inv, TypeOK, SearchOfTurn, NoRequestAsleep
<1> QED BY <1>2, <1>3

LEMMA StopSearchInv ==
  ASSUME Inv, NEW P \in SUBSET Ports, StopSearch(P),
         UNCHANGED <<port, turn, active, enabled>>
  PROVE  /\ phase' \in {"idle", "searching", "stopping"}
         /\ waiting' \subseteq waiting /\ stops' \in 0 .. Stops
         /\ phase' # "idle" => phase # "idle"
BY CountAssumption DEF StopSearch, Inv, TypeOK

LEMMA NextInv == Inv /\ [Next]_vars => Inv'
<1> SUFFICES ASSUME Inv, [Next]_vars PROVE Inv'
  OBVIOUS
<1>1. ASSUME NEW P \in SUBSET Ports, Flush(P) PROVE Inv'
  BY <1>1 DEF Flush, Request, machine, Inv, TypeOK, SearchOfTurn, NoRequestAsleep
<1>2. ASSUME NEW P \in SUBSET Ports, End(P) PROVE Inv'
  BY <1>2, StopSearchInv DEF End, Inv, TypeOK, SearchOfTurn, NoRequestAsleep
<1>3. ASSUME NEW P \in SUBSET Ports, IncOn(P) PROVE Inv'
  BY <1>3 DEF IncOn, machine, Inv, TypeOK, SearchOfTurn, NoRequestAsleep
<1>4. ASSUME NEW P \in SUBSET Ports, IncOff(P) PROVE Inv'
  BY <1>4, StopSearchInv DEF IncOff, Inv, TypeOK, SearchOfTurn, NoRequestAsleep
<1>5. CASE TimerBackGround
  BY <1>5 DEF TimerBackGround, Request, machine, Inv, TypeOK, SearchOfTurn, NoRequestAsleep
<1>6. ASSUME NEW p \in Ports, SetRdm(p) PROVE Inv'
  BY <1>6 DEF SetRdm, machine, Inv, TypeOK, SearchOfTurn, NoRequestAsleep
<1>7. CASE Run
  BY <1>7, ServeInv DEF Run, SearchEnds, SearchStops, NextTurn
<1>8. CASE UNCHANGED vars
  BY <1>8 DEF vars, machine, Inv, TypeOK, SearchOfTurn, NoRequestAsleep
<1> QED BY <1>1, <1>2, <1>3, <1>4, <1>5, <1>6, <1>7, <1>8 DEF Next

THEOREM Invariance == Spec => []Inv
BY InitInv, NextInv, PTL DEF Spec

\* The bit masks hold ports, and the turn is a port.
THEOREM TypeCorrect == Spec => []TypeOK
BY Invariance, PTL DEF Inv

\* A search is looked after until it is over, and reported for its own port.
THEOREM SearchOfTurnHolds == Spec => []SearchOfTurn
BY Invariance, PTL DEF Inv

\* The scheduler runs as long as a port waits.
THEOREM NoRequestAsleepHolds == Spec => []NoRequestAsleep
BY Invariance, PTL DEF Inv

===============================================================================
