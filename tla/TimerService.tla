--------------------------- MODULE TimerService ---------------------------
(***************************************************************************)
(* What the software timers promise their callers: a timer that has been   *)
(* added fires no earlier than one interval after it was added or changed, *)
(* and when its callback returns its next deadline is one interval after   *)
(* it was called.  Nothing else moves a deadline, with one exception: a    *)
(* callback that has deleted a timer, its own included, hands the next     *)
(* deadline to one timer, and which one is left open.                      *)
(*                                                                         *)
(* The timers are a partial function from ids to the milliseconds left     *)
(* and the period; the array, the cursor and the wrapping clock of         *)
(* lib-superloop are the business of SoftwareTimers, which implements this *)
(* module.                                                                 *)
(***************************************************************************)
EXTENDS Integers

CONSTANTS
  Ids,        \* the handles a timer can have
  Intervals   \* the intervals callers ask for, in ticks

VARIABLES
  service,   \* [ids of the running timers -> [left : Int, period : Intervals]]
  calling    \* the timer whose callback is being called, what is left of its
             \* next period, and whether the callback has deleted a timer

vars == <<service, calling>>

NoOne == [timer |-> -1, left |-> 0, deleted |-> FALSE]

Init ==
  /\ service = [i \in {} |-> [left |-> 0, period |-> 0]]
  /\ calling = NoOne

Add(i, p) ==
  /\ i \notin DOMAIN service
  /\ service' = [j \in DOMAIN service \cup {i} |->
                   IF j = i THEN [left |-> p, period |-> p] ELSE service[j]]
  /\ UNCHANGED calling

Delete(i) ==
  /\ i \in DOMAIN service
  /\ service' = [j \in DOMAIN service \ {i} |-> service[j]]
  /\ calling' = IF calling = NoOne THEN NoOne ELSE [calling EXCEPT !.deleted = TRUE]

Change(i, p) ==
  /\ i \in DOMAIN service
  /\ service' = [service EXCEPT ![i] = [left |-> p, period |-> p]]
  /\ UNCHANGED calling

\* The callback is called: the next period runs from this moment.
Fire(i) ==
  /\ calling = NoOne
  /\ i \in DOMAIN service
  /\ service[i].left <= 0
  /\ calling' = [timer |-> i, left |-> service[i].period, deleted |-> FALSE]
  /\ UNCHANGED service

\* The callback returns: the timer waits for what is left of its next period.
\* When a timer has been deleted meanwhile it may be any one that waits instead.
Return ==
  /\ calling # NoOne
  /\ calling' = NoOne
  /\ \/ DOMAIN service = {} /\ UNCHANGED service
     \/ \E i \in DOMAIN service :
          /\ i = calling.timer \/ calling.deleted
          /\ service' = [service EXCEPT ![i].left = calling.left]

Tick ==
  /\ service' = [i \in DOMAIN service |-> [service[i] EXCEPT !.left = @ - 1]]
  /\ calling' = IF calling = NoOne THEN NoOne ELSE [calling EXCEPT !.left = @ - 1]

Next ==
  \/ \E i \in Ids, p \in Intervals : Add(i, p) \/ Change(i, p)
  \/ \E i \in Ids : Delete(i) \/ Fire(i)
  \/ Return
  \/ Tick

Spec == Init /\ [][Next]_vars
===========================================================================
