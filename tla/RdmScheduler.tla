----------------------------- MODULE RdmScheduler -----------------------------
(***************************************************************************)
(* Who is searched for RDM devices, and when: the class rdm::Discovery of  *)
(* lib-rdm/include/rdm_discovery.h.  One state machine serves all ports in *)
(* turn.  Searches are asked for by ArtTodControl and by a timer in the    *)
(* background, and are stopped by ArtTodControl.  The search itself is     *)
(* RdmDiscovery; here it runs, ends or dies down after it was stopped.     *)
(***************************************************************************)
EXTENDS Naturals, FiniteSets

CONSTANTS
  PortCount,   \* kPorts
  Stops        \* bound: searches stopped

ASSUME CountAssumption == PortCount \in Nat \ {0} /\ Stops \in Nat

Ports    == 0 .. PortCount - 1
Succ(p)  == IF p + 1 = PortCount THEN 0 ELSE p + 1

VARIABLES
  phase,        \* the state machine: "idle", "searching" or "stopping"
  port,         \* StateMachine::port_index_
  incremental,  \* StateMachine::do_incremental_
  turn,         \* Discovery::port_index_
  waiting,      \* the bits of waiting_
  full,         \* the bits of type_
  enabled,      \* the bits of enabled_
  background,   \* the bits of s_bg_discovery; the timer runs while there are any
  active,       \* running_
  stops         \* counts against Stops

machine == <<phase, port, incremental>>
vars == <<machine, turn, waiting, full, enabled, background, active, stops>>

\* RDM is enabled for the ports of the configuration, which are searched at the start.
Init ==
  /\ phase = "idle" /\ port = 0 /\ incremental = FALSE /\ turn = 0
  /\ enabled \in SUBSET Ports
  /\ waiting = enabled /\ full = enabled /\ active = (enabled # {})
  /\ background = {} /\ stops = 0

----------------------------------------------------------------------------
\* Full() and Incremental() for the ports P.
Request(P, all) ==
  LET asked == P \cap enabled
  IN  /\ waiting' = waiting \cup asked
      /\ full' = IF all THEN full \cup asked ELSE full \ asked
      /\ active' = (active \/ asked # {})

\* Stop() for the ports P, of which only the one that is searched is concerned.
StopSearch(P) ==
  IF phase # "idle" /\ port \in P \cap enabled
  THEN /\ stops < Stops /\ stops' = stops + 1
       /\ phase' \in {"stopping", "idle"}
       /\ phase = "searching" \/ phase' = "idle"
       /\ waiting' = waiting \ {port}
  ELSE UNCHANGED <<phase, waiting, stops>>

\* HandleTodControl(): the commands, for the ports P that have the port address
\* and that have RDM enabled.
Flush(P) ==
  /\ Request(P, TRUE)
  /\ UNCHANGED <<machine, turn, enabled, background, stops>>

End(P) ==
  /\ StopSearch(P)
  /\ UNCHANGED <<port, incremental, turn, full, enabled, background, active>>

IncOn(P) ==
  /\ background' = background \cup (P \cap enabled)
  /\ UNCHANGED <<machine, turn, waiting, full, enabled, active, stops>>

IncOff(P) ==
  /\ background' = background \ (P \cap enabled)
  /\ StopSearch(P)
  /\ UNCHANGED <<port, incremental, turn, full, enabled, active>>

TimerBackGround ==
  /\ background # {}
  /\ Request(background, FALSE)
  /\ UNCHANGED <<machine, turn, enabled, background, stops>>

\* SetRdm(), which leaves a request and a search of the port as they are.
SetRdm(p) ==
  /\ enabled' = IF p \in enabled THEN enabled \ {p} ELSE enabled \cup {p}
  /\ UNCHANGED <<machine, turn, waiting, full, background, active, stops>>

----------------------------------------------------------------------------
(* Run() of a machine that is idle or becomes idle in this call *)

\* The turn after the search has ended; it stays where a search was stopped.
TurnAfter(finished) ==
  IF ~finished THEN turn ELSE IF waiting = {} THEN 0 ELSE Succ(turn)

\* Mutants: the turn moves on after a search was stopped and started; it does not move
\* on; running_ is reset while ports wait.
ServeWith(t, turnThen, goesOn) ==
  /\ active /\ active' = goesOn
  /\ IF t \in waiting
     THEN /\ phase' = "searching" /\ port' = t /\ incremental' = (t \notin full)
          /\ waiting' = waiting \ {t} /\ turn' = turnThen
     ELSE /\ phase' = "idle" /\ turn' = turnThen
          /\ UNCHANGED <<port, incremental, waiting>>
  /\ UNCHANGED <<full, enabled, background, stops>>
ServeMovesOn(finished) == ServeWith(TurnAfter(finished), Succ(TurnAfter(finished)), TRUE)
ServeStays(finished)   == ServeWith(TurnAfter(finished), TurnAfter(finished), TRUE)
ServeSleeps(finished)  == ServeWith(TurnAfter(finished), TurnAfter(finished), ~finished)

Serve(finished) ==
  LET t == TurnAfter(finished)
  IN  /\ active
      /\ active' = ~(finished /\ waiting = {})
      /\ IF t \in waiting
         THEN /\ phase' = "searching" /\ port' = t /\ incremental' = (t \notin full)
              /\ waiting' = waiting \ {t} /\ turn' = t
         ELSE /\ phase' = "idle" /\ turn' = IF waiting = {} THEN t ELSE Succ(t)
              /\ UNCHANGED <<port, incremental, waiting>>
      /\ UNCHANGED <<full, enabled, background, stops>>

\* A search comes to its end, in its own time.
SearchEnds  == phase = "searching" /\ Serve(TRUE)
SearchStops == phase = "stopping" /\ Serve(FALSE)
NextTurn    == phase = "idle" /\ Serve(FALSE)
Run == SearchEnds \/ SearchStops \/ NextTurn

Next ==
  \/ \E P \in SUBSET Ports : Flush(P) \/ End(P) \/ IncOn(P) \/ IncOff(P)
  \/ TimerBackGround
  \/ \E p \in Ports : SetRdm(p)
  \/ Run

\* The superloop calls Run() for ever, and a search ends: so it does as long as no
\* device leaves after it answered (RdmDiscovery, SearchEnds).
Spec == Init /\ [][Next]_vars /\ WF_vars(Run)

----------------------------------------------------------------------------
(* Properties *)

TypeOK ==
  /\ phase \in {"idle", "searching", "stopping"}
  /\ port \in Ports /\ turn \in Ports /\ incremental \in BOOLEAN
  /\ waiting \subseteq Ports /\ full \subseteq Ports
  /\ enabled \subseteq Ports /\ background \subseteq Ports
  /\ active \in BOOLEAN /\ stops \in 0 .. Stops

\* Run() looks after a search until it is over, and when it ends its result is
\* reported for the port it was made on (the assertion at line 186).
SearchOfTurn == phase # "idle" => active /\ port = turn

\* No request is left behind when running_ is reset.
NoRequestAsleep == waiting # {} => active

\* Every port that is asked for is searched or its search stopped, however often
\* the other ports are asked for again.
Served == \A p \in Ports : p \in waiting ~> p \notin waiting

\* "AtcFlush The node flushes its TOD and instigates full discovery"
\* (artnet.h:638): the full search that is asked for is the one that is made.
FlushIsFull == [][\A p \in waiting \cap full : p \in waiting' => p \in full']_vars

===============================================================================
