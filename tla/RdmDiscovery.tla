----------------------------- MODULE RdmDiscovery -----------------------------
(***************************************************************************)
(* The search for RDM devices on one port, the class StateMachine of       *)
(* lib-rdm/src/controller/rdm_discovery_statemachine.cpp: unmute all,      *)
(* mute the devices already known (incremental search), then a binary      *)
(* search over the UIDs with DISC_UNIQUE_BRANCH messages.  A valid answer  *)
(* is followed up at once (quick find); a collision splits the range.      *)
(*                                                                         *)
(* An action is one call of Process() that changes something, named for    *)
(* the branch it takes.  A call that only polls is a stuttering step.      *)
(*                                                                         *)
(* The line is half duplex and unreliable.  `flight' is the answer that    *)
(* is on its way, `buffer' the message RdmReceive() would return.  A       *)
(* transmission ends the reception of what is in flight and leaves what    *)
(* has been received.  Three things cost an error: a device that does not  *)
(* understand a message, an answer that is lost, and an answer that comes  *)
(* after the timeout.                                                      *)
(***************************************************************************)
EXTENDS Naturals, Sequences, FiniteSets

CONSTANTS
  Bits,                    \* the width of a UID, 48
  Pow,                     \* the powers of two
  Devices,                 \* the UIDs of the devices there are
  None,                    \* no message
  Errors,                  \* bound: errors on the line during one search
  Changes,                 \* bound: devices plugged in or out
  TableSize,               \* Tod::kTableSize
  UnmuteCounter,           \* kUnmuteCounter
  MuteCounter,             \* kMuteCounter
  DiscoveryCounter,        \* kDiscoveryCounter
  QuickfindCounter,        \* kQuikfindCounter
  QuickfindDiscoveryCounter

ASSUME PowAssumption ==
  /\ Bits \in Nat \ {0} /\ Pow \in [0 .. Bits -> Nat \ {0}]
  /\ Pow[0] = 1 /\ \A n \in 0 .. Bits - 1 : Pow[n + 1] = 2 * Pow[n]
ASSUME CounterAssumption ==
  /\ {UnmuteCounter, MuteCounter, DiscoveryCounter, QuickfindDiscoveryCounter}
       \subseteq Nat \ {0}
  /\ QuickfindCounter \in Nat \ {0, 1}

LastUid == Pow[Bits] - 2           \* 0xfffffffffffe, below the broadcast UID
Uids    == 0 .. LastUid
UidRange(l, u) == [lower |-> l, upper |-> u]
Ranges  == [lower : Uids, upper : Uids]

ASSUME DeviceAssumption == /\ Devices \subseteq Uids /\ None \notin Nat
                           /\ Errors \in Nat /\ Changes \in Nat /\ TableSize \in Nat

Commands == {"Unmute", "Mute", "Discovery", "Single", "Quickfind", "QuickfindDiscovery"}
States   == Commands \cup {"Idle", "Dub", "LateResponse", "Finished"}

VARIABLES
  state, saved,          \* state_, saved_state_
  incremental, finished, \* do_incremental_, is_finished_
  counter,               \* the counter of each command
  running,               \* the is_command_running of each command
  stack,                 \* discovery_.stack, its top is the last element
  range,                 \* discovery_.lower_bound and upper_bound
  response,              \* response_, where DUB reads it
  quick,                 \* quick_find_.uid
  tod,                   \* the table of devices
  entries,               \* mute_.tod_entries
  present, muted,        \* the devices on the line, and those that are mute
  flight, buffer,        \* the answer on its way, and the one received
  errors, changes,       \* counts against the bounds
  stable, seen,          \* devices there all the time, and at any time, of the search
  joined                 \* a device was plugged in while it ran

machine == <<state, saved, incremental, finished, counter, running, stack, range,
             response, quick, tod, entries>>
line    == <<muted, flight, buffer, errors>>
world   == <<present, changes, stable, seen, joined>>
vars    == <<machine, line, world>>

Message == [kind : {"branch", "mute"}, uid : Uids] \cup {[kind |-> "collision"]}
ASSUME NoneAssumption == None \notin Message

Members(s) == {s[i] : i \in DOMAIN s}

Init ==
  /\ state = "Idle" /\ saved = "Idle"
  /\ incremental = FALSE /\ finished = FALSE
  /\ counter = [c \in Commands |-> 0]
  /\ running = [c \in Commands |-> FALSE]
  /\ stack = <<>> /\ range = UidRange(0, 0)
  /\ response = None /\ quick = 0
  /\ tod = <<>> /\ entries = 0
  /\ present \in SUBSET Devices /\ muted = {}
  /\ flight = None /\ buffer = None
  /\ errors = 0 /\ changes = 0
  /\ stable = {} /\ seen = {} /\ joined = FALSE

----------------------------------------------------------------------------
(* The line *)

UnmuteAll    == [pid |-> "unmute"]
Mute(u)      == [pid |-> "mute", uid |-> u]
Branch(r)    == [pid |-> "branch", range |-> r]

\* The devices of `ears' that have to answer a branch message.
Responders(r, ears) == {d \in ears \ muted : r.lower <= d /\ d <= r.upper}

Answers(m, ears) ==
  CASE m.pid = "mute" /\ m.uid \in ears -> {[kind |-> "mute", uid |-> m.uid]}
    [] m.pid = "branch" /\ Responders(m.range, ears) # {} ->
         LET R == Responders(m.range, ears)
         IN  {[kind |-> "branch", uid |-> d] : d \in R} \cup
             (IF Cardinality(R) > 1 THEN {[kind |-> "collision"]} ELSE {})
    [] OTHER -> {None}

MutedBy(m, ears) ==
  CASE m.pid = "unmute" -> muted \ ears
    [] m.pid = "mute"   -> muted \cup (ears \cap {m.uid})
    [] OTHER            -> muted

\* RdmMessage::Transmit(), with what the devices make of it.
Transmit(m, late) ==
  \E deaf \in SUBSET present, lost \in 0 .. 1 :
    /\ errors' = errors + late + lost + Cardinality(deaf)
    /\ errors' <= Errors
    /\ \E answer \in Answers(m, present \ deaf) :
         /\ lost = 1 => answer # None
         /\ flight' = IF lost = 1 THEN None ELSE answer
    /\ muted' = MutedBy(m, present \ deaf)

\* RdmMessage::Receive() of a message, and of nothing.
Received   == buffer # None /\ buffer' = None /\ UNCHANGED <<muted, flight, errors>>
Late       == IF flight = None THEN 0 ELSE 1
NoAnswer   == buffer = None /\ errors + Late <= Errors

\* The answer has been received.
Arrive ==
  /\ flight # None
  /\ buffer' = flight /\ flight' = None
  /\ UNCHANGED <<machine, muted, errors, world>>

Unplug(d) ==
  /\ d \in present /\ changes < Changes
  /\ present' = present \ {d} /\ muted' = muted \ {d}
  /\ stable' = stable \ {d}
  /\ changes' = changes + 1
  /\ UNCHANGED <<machine, flight, buffer, errors, seen, joined>>

Plug(d) ==
  /\ d \in Devices \ present /\ changes < Changes
  /\ present' = present \cup {d} /\ seen' = seen \cup {d}
  /\ joined' = (joined \/ state # "Idle")
  /\ changes' = changes + 1
  /\ UNCHANGED <<machine, line, stable>>

----------------------------------------------------------------------------
(* Start and stop *)

\* Full() and Incremental(), which refuse to start a search unless the state is
\* kIdle; Discovery::Run() calls them then only, so the reset of the tod and of
\* tod_entries that comes before the check finds no search under way.
Start(inc) ==
  /\ state = "Idle"
  /\ tod' = IF inc THEN tod ELSE <<>>
  /\ entries' = IF inc THEN Len(tod) ELSE entries
  /\ incremental' = inc /\ finished' = FALSE
  /\ counter' = [Unmute |-> UnmuteCounter, Mute |-> MuteCounter,
                 Discovery |-> DiscoveryCounter, Single |-> MuteCounter,
                 Quickfind |-> QuickfindCounter,
                 QuickfindDiscovery |-> QuickfindDiscoveryCounter]
  /\ running' = [c \in Commands |-> FALSE]
  /\ stack' = <<UidRange(0, LastUid)>>
  /\ state' = "Unmute"
  /\ errors' = 0 /\ stable' = present /\ seen' = present /\ joined' = FALSE
  /\ UNCHANGED <<saved, range, response, quick, muted, flight, buffer, present, changes>>

NewState(s, late) ==
  IF late /\ state # "LateResponse"
  THEN state' = "LateResponse" /\ saved' = s
  ELSE state' = s /\ UNCHANGED saved

Stop ==
  /\ state # "Idle"
  /\ finished' = FALSE
  /\ NewState("Idle", TRUE)
  /\ UNCHANGED <<incremental, counter, running, stack, range, response, quick, tod,
                 entries, line, world>>

\* IsFinished(), which resets the flag.
Collect ==
  /\ state = "Idle" /\ finished
  /\ finished' = FALSE
  /\ UNCHANGED <<state, saved, incremental, counter, running, stack, range, response,
                 quick, tod, entries, line, world>>

search == <<incremental, finished, stack, range, response, quick, tod, entries>>

\* A command is sent, or counted down and sent again or left for the next call.
Send(c, m) ==
  /\ state = c /\ counter[c] > 0 /\ ~running[c]
  /\ running' = [running EXCEPT ![c] = TRUE]
  /\ Transmit(m, 0)
  /\ UNCHANGED <<state, saved, counter, search, buffer, world>>

Again(c, m) ==
  /\ state = c /\ counter[c] > 0 /\ running[c]
  /\ NoAnswer
  /\ counter' = [counter EXCEPT ![c] = @ - 1]
  /\ Transmit(m, Late)
  /\ UNCHANGED <<state, saved, running, search, buffer, world>>

Withdraw(c) ==
  /\ state = c /\ counter[c] > 0 /\ running[c]
  /\ NoAnswer
  /\ counter' = [counter EXCEPT ![c] = @ - 1]
  /\ running' = [running EXCEPT ![c] = FALSE]
  /\ errors' = errors + Late
  /\ UNCHANGED <<state, saved, search, muted, flight, buffer, world>>

End(c, fresh) ==
  /\ counter' = [counter EXCEPT ![c] = fresh]
  /\ running' = [running EXCEPT ![c] = FALSE]

----------------------------------------------------------------------------
(* LATE_RESPONSE, DUB and FINISHED *)

\* What arrives is thrown away until kLateResponseTimeOut.
Drain == state = "LateResponse" /\ Received /\ UNCHANGED <<machine, world>>

EndLateResponse ==
  /\ state = "LateResponse"
  /\ state' = saved /\ buffer' = None
  /\ UNCHANGED <<saved, search, counter, running, muted, flight, errors, world>>

DubNone ==
  /\ state = "Dub" /\ response = None
  /\ NewState("Discovery", FALSE)
  /\ UNCHANGED <<search, counter, running, line, world>>

DubValid ==
  /\ state = "Dub" /\ response # None /\ response.kind = "branch"
  /\ quick' = response.uid
  /\ NewState("Quickfind", TRUE)
  /\ UNCHANGED <<incremental, finished, stack, range, response, tod, entries,
                 counter, running, line, world>>

Middle == (range.lower + range.upper) \div 2

SplitInto(ranges) ==
  /\ state = "Dub" /\ response # None /\ response.kind # "branch"
  /\ stack' = stack \o ranges
  /\ NewState("Discovery", TRUE)
  /\ UNCHANGED <<incremental, finished, range, response, quick, tod, entries,
                 counter, running, line, world>>

\* Mutants: the upper half is the whole range; it overlaps the lower half by one;
\* the lower half is forgotten.
SplitWhole     == SplitInto(<<UidRange(range.lower, Middle), range>>)
SplitOverlaps  == SplitInto(<<UidRange(range.lower, Middle), UidRange(Middle, range.upper)>>)
SplitUpperOnly == SplitInto(<<UidRange(Middle + 1, range.upper)>>)

DubSplit == SplitInto(<<UidRange(range.lower, Middle), UidRange(Middle + 1, range.upper)>>)

Finish ==
  /\ state = "Finished"
  /\ finished' = TRUE
  /\ NewState("Idle", FALSE)
  /\ UNCHANGED <<incremental, stack, range, response, quick, tod, entries,
                 counter, running, line, world>>

----------------------------------------------------------------------------
(* UNMUTE and MUTE *)

UnmuteDone ==
  /\ state = "Unmute" /\ counter["Unmute"] = 0
  /\ End("Unmute", UnmuteCounter)
  /\ NewState(IF incremental THEN "Mute" ELSE "Discovery", FALSE)
  /\ UNCHANGED <<search, line, world>>

\* No answer is expected to a broadcast: what comes is read and dropped.
UnmuteDrain == state = "Unmute" /\ running["Unmute"] /\ Received /\ UNCHANGED <<machine, world>>

UnmuteSend == Send("Unmute", UnmuteAll)

UnmuteTimeOut == Withdraw("Unmute")

MuteAllDone ==
  /\ state = "Mute" /\ entries = 0
  /\ running' = [running EXCEPT !["Mute"] = FALSE]
  /\ NewState("Discovery", FALSE)
  /\ UNCHANGED <<search, counter, line, world>>

\* Tod::Delete() and AddUid().
Delete(s, u) ==
  LET i == CHOOSE i \in DOMAIN s : s[i] = u
  IN  [j \in 1 .. Len(s) - 1 |-> IF j < i THEN s[j] ELSE s[j + 1]]
AddUid(s, u) == IF Len(s) = TableSize \/ u \in Members(s) THEN s ELSE Append(s, u)

\* Mutant: a device that does not answer stays in the table.
MuteForgives ==
  /\ state = "Mute" /\ entries > 0 /\ counter["Mute"] = 0
  /\ End("Mute", MuteCounter)
  /\ entries' = entries - 1
  /\ UNCHANGED <<state, saved, incremental, finished, stack, range, response, quick,
                 tod, line, world>>

MuteGone ==
  /\ state = "Mute" /\ entries > 0 /\ counter["Mute"] = 0
  /\ End("Mute", MuteCounter)
  /\ tod' = Delete(tod, tod[entries])
  /\ entries' = entries - 1
  /\ UNCHANGED <<state, saved, incremental, finished, stack, range, response, quick,
                 line, world>>

MuteSend == entries > 0 /\ Send("Mute", Mute(tod[entries]))

\* Any message counts as the answer.
MuteAnswered ==
  /\ state = "Mute" /\ entries > 0 /\ counter["Mute"] > 0 /\ running["Mute"]
  /\ Received
  /\ entries' = entries - 1
  /\ running' = [running EXCEPT !["Mute"] = FALSE]
  /\ UNCHANGED <<state, saved, incremental, finished, stack, range, response, quick, tod,
                 counter, world>>

MuteTimeOut == entries > 0 /\ Again("Mute", Mute(tod[entries]))

----------------------------------------------------------------------------
(* DISCOVERY and DISCOVERY_SINGLE_DEVICE *)

\* An answer, or none after the last of the attempts.
DiscoveryAnswered ==
  /\ state = "Discovery" /\ running["Discovery"]
  /\ buffer # None \/ counter["Discovery"] = 0
  /\ response' = buffer /\ buffer' = None
  /\ running' = [running EXCEPT !["Discovery"] = FALSE]
  /\ NewState("Dub", FALSE)
  /\ UNCHANGED <<incremental, finished, stack, range, quick, tod, entries, counter,
                 muted, flight, errors, world>>

DiscoveryTimeOut == Again("Discovery", Branch(range))

DiscoveryEmpty ==
  /\ state = "Discovery" /\ ~running["Discovery"] /\ stack = <<>>
  /\ NewState("Finished", TRUE)
  /\ UNCHANGED <<search, counter, running, line, world>>

Pop ==
  /\ state = "Discovery" /\ ~running["Discovery"] /\ stack # <<>>
  /\ range' = stack[Len(stack)]
  /\ stack' = SubSeq(stack, 1, Len(stack) - 1)
  /\ UNCHANGED <<incremental, finished, response, quick, tod, entries, world>>

DiscoverySingle ==
  /\ Pop /\ range'.lower = range'.upper
  /\ running' = [running EXCEPT !["QuickfindDiscovery"] = FALSE]
  /\ NewState("Single", TRUE)
  /\ UNCHANGED <<counter, line>>

DiscoverySend ==
  /\ Pop /\ range'.lower # range'.upper
  /\ Transmit(Branch(range'), 0)
  /\ counter' = [counter EXCEPT !["Discovery"] = DiscoveryCounter]
  /\ running' = [running EXCEPT !["Discovery"] = TRUE]
  /\ UNCHANGED <<state, saved, buffer>>

SingleGivesUp ==
  /\ state = "Single" /\ counter["Single"] = 0
  /\ End("Single", QuickfindDiscoveryCounter)
  /\ NewState("Discovery", TRUE)
  /\ UNCHANGED <<search, line, world>>

SingleSend    == Send("Single", Mute(range.lower))
SingleTimeOut == Again("Single", Mute(range.lower))

SingleAnswered ==
  /\ state = "Single" /\ counter["Single"] > 0 /\ running["Single"]
  /\ Received
  /\ buffer = [kind |-> "mute", uid |-> range.lower]
  /\ tod' = AddUid(tod, range.lower)
  /\ End("Single", QuickfindDiscoveryCounter)
  /\ NewState("Discovery", FALSE)
  /\ UNCHANGED <<incremental, finished, stack, range, response, quick, entries, world>>

\* Another message is read and leaves the search as it is.
SingleIgnores ==
  /\ state = "Single" /\ counter["Single"] > 0 /\ running["Single"]
  /\ Received
  /\ buffer # [kind |-> "mute", uid |-> range.lower]
  /\ UNCHANGED <<state, saved, search, counter, running, world>>

----------------------------------------------------------------------------
(* QUICKFIND and QUICKFIND_DISCOVERY *)

\* The mute message and, as each sending sets the counter, no end of them.
QuickfindSend ==
  /\ state = "Quickfind" /\ counter["Quickfind"] > 0 /\ ~running["Quickfind"]
  /\ Transmit(Mute(quick), 0)
  /\ counter' = [counter EXCEPT !["Quickfind"] = QuickfindCounter]
  /\ running' = [running EXCEPT !["Quickfind"] = TRUE]
  /\ UNCHANGED <<state, saved, search, buffer, world>>

QuickfindTimeOut == Withdraw("Quickfind")

QuickfindAnswered ==
  /\ state = "Quickfind" /\ counter["Quickfind"] > 0 /\ running["Quickfind"]
  /\ Received
  /\ buffer.kind = "mute"
  /\ tod' = IF buffer.uid = quick THEN AddUid(tod, quick) ELSE tod
  /\ End("Quickfind", QuickfindCounter)
  /\ NewState("QuickfindDiscovery", FALSE)
  /\ UNCHANGED <<incremental, finished, stack, range, response, quick, entries, world>>

QuickfindIgnores ==
  /\ state = "Quickfind" /\ counter["Quickfind"] > 0 /\ running["Quickfind"]
  /\ Received
  /\ buffer.kind # "mute"
  /\ UNCHANGED <<state, saved, search, counter, running, world>>

QuickfindDiscoveryGivesUp ==
  /\ state = "QuickfindDiscovery" /\ counter["QuickfindDiscovery"] = 0
  /\ End("QuickfindDiscovery", QuickfindDiscoveryCounter)
  /\ NewState("Discovery", TRUE)
  /\ UNCHANGED <<search, line, world>>

\* Mutant: an attempt that times out is not counted.
QuickfindDiscoveryForEver ==
  /\ state = "QuickfindDiscovery" /\ running["QuickfindDiscovery"]
  /\ NoAnswer
  /\ running' = [running EXCEPT !["QuickfindDiscovery"] = FALSE]
  /\ errors' = errors + Late
  /\ UNCHANGED <<state, saved, counter, search, muted, flight, buffer, world>>

QuickfindDiscoverySend    == Send("QuickfindDiscovery", Branch(range))
QuickfindDiscoveryTimeOut == Withdraw("QuickfindDiscovery")

\* One more device answers alone, or the range has to be split after all.
QuickfindDiscoveryAnswered ==
  /\ state = "QuickfindDiscovery"
  /\ counter["QuickfindDiscovery"] > 0 /\ running["QuickfindDiscovery"]
  /\ Received
  /\ response' = buffer
  /\ End("QuickfindDiscovery", QuickfindDiscoveryCounter)
  /\ IF buffer.kind = "branch"
     THEN quick' = buffer.uid /\ NewState("Quickfind", TRUE)
     ELSE UNCHANGED quick /\ NewState("Dub", FALSE)
  /\ UNCHANGED <<incremental, finished, stack, range, tod, entries, world>>

----------------------------------------------------------------------------
Process ==
  \/ Drain \/ EndLateResponse \/ DubNone \/ DubValid \/ DubSplit \/ Finish
  \/ UnmuteDone \/ UnmuteDrain \/ UnmuteSend \/ UnmuteTimeOut
  \/ MuteAllDone \/ MuteGone \/ MuteSend \/ MuteAnswered \/ MuteTimeOut
  \/ DiscoveryAnswered \/ DiscoveryTimeOut \/ DiscoveryEmpty
  \/ DiscoverySingle \/ DiscoverySend
  \/ SingleGivesUp \/ SingleSend \/ SingleTimeOut \/ SingleAnswered \/ SingleIgnores
  \/ QuickfindSend \/ QuickfindTimeOut \/ QuickfindAnswered \/ QuickfindIgnores
  \/ QuickfindDiscoveryGivesUp \/ QuickfindDiscoverySend
  \/ QuickfindDiscoveryTimeOut \/ QuickfindDiscoveryAnswered

Next ==
  \/ Process \/ Arrive
  \/ \E inc \in BOOLEAN : Start(inc)
  \/ Stop \/ Collect
  \/ \E d \in Devices : Plug(d) \/ Unplug(d)

\* The superloop calls Run() for ever, and an answer takes only so long.
Spec == Init /\ [][Next]_vars /\ WF_vars(Process) /\ WF_vars(Arrive)

----------------------------------------------------------------------------
(* Properties *)

TypeOK ==
  /\ state \in States /\ saved \in States
  /\ incremental \in BOOLEAN /\ finished \in BOOLEAN
  /\ counter \in [Commands -> Nat] /\ running \in [Commands -> BOOLEAN]
  /\ stack \in Seq(Ranges) /\ range \in Ranges
  /\ response \in Message \cup {None} /\ quick \in Uids
  /\ tod \in Seq(Uids) /\ entries \in Nat
  /\ present \subseteq Devices /\ muted \subseteq present
  /\ flight \in Message \cup {None} /\ buffer \in Message \cup {None}
  /\ errors \in Nat /\ changes \in Nat
  /\ stable \subseteq present /\ seen \subseteq Devices /\ joined \in BOOLEAN

\* The stack of ranges never overflows: kDiscoveryStackSize is far more than
\* one range per bit of a UID and one, and nobody looks at what Push() returns.
StackBound == Len(stack) <= Bits + 1

\* No UID is skipped and none is asked for twice: what is left to search, the
\* range in hand and those on the stack, is one interval from 0 without a gap.
InHand ==
  \/ state \in {"Dub", "Single", "Quickfind", "QuickfindDiscovery"}
  \/ state = "LateResponse" /\ saved \in {"Single", "Quickfind"}
  \/ state = "Discovery" /\ running["Discovery"]
Above(n) == IF n = 0 THEN 0 ELSE stack[n].upper + 1
Contiguous ==
  /\ \A i \in DOMAIN stack : stack[i].lower = Above(i - 1)
  /\ InHand => range.lower = Above(Len(stack))

\* The assertions before the counters are taken down: the number of attempts
\* never wraps below zero (lines 283, 341, 361, 458, 548 and 595).
CountersPositive ==
  /\ state # "Idle" => counter["Quickfind"] > 0
  /\ state = "Single" => counter["Mute"] > 0

\* Fewer messages went wrong than one message has attempts.
FewErrors == \A attempts \in {UnmuteCounter, MuteCounter, DiscoveryCounter,
                              QuickfindDiscoveryCounter} : errors < attempts

\* No device joined while the entries of the table were muted: the last attempt to mute
\* one is not waited for, and what answers it counts as the answer of the next.
NoneJoined == incremental => ~joined

\* A search that has come to its end has found every device that was there all the
\* time, as long as fewer messages went wrong than one message has attempts, no device
\* joined an incremental search, and the table has room.
CompleteTod ==
  state = "Idle" /\ finished /\ FewErrors /\ NoneJoined /\ Len(tod) < TableSize
    => stable \subseteq Members(tod)

\* The table holds nothing that was not there during a search in which no message went
\* wrong and, if it was incremental, no device joined: devices that are gone are deleted.
NoGhosts == state = "Idle" /\ finished /\ errors = 0 /\ NoneJoined => Members(tod) \subseteq seen

\* A search comes to its end, or keeps asking for a device that left after it
\* answered: QUICKFIND has no end of attempts.
SearchEnds ==
  state # "Idle" ~> \/ state = "Idle"
                    \/ state = "Quickfind" /\ quick \notin present

\* A search comes to its end, "discovery could take minutes" (handlerdm.cpp:58).
SearchTerminates == state # "Idle" ~> state = "Idle"

===============================================================================
