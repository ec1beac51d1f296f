-------------------------- MODULE RdmDiscovery_proofs --------------------------
(* Proofs about RdmDiscovery, for UIDs of any width and for any devices. *)
EXTENDS RdmDiscovery, FiniteSetTheorems, SequenceTheorems, TLAPS

----------------------------------------------------------------------------
(* Types *)

LEMMA UidsFacts == /\ LastUid \in Nat /\ 0 \in Uids /\ Uids \subseteq Nat
                   /\ IsFiniteSet(Devices)
<1>1. /\ Bits \in Nat \ {0} /\ Pow[Bits - 1] \in Nat \ {0}
      /\ Pow[Bits] = 2 * Pow[Bits - 1]
  <2> DEFINE n == Bits - 1
  <2>1. n \in 0 .. Bits - 1 /\ n + 1 = Bits /\ n \in 0 .. Bits
    BY PowAssumption
  <2> HIDE DEF n
  <2>2. Pow[n + 1] = 2 * Pow[n] /\ Pow[n] \in Nat \ {0}
    BY <2>1, PowAssumption
  <2> QED BY <2>1, <2>2, PowAssumption DEF n
<1>2. LastUid \in Nat
  BY <1>1 DEF LastUid
<1>3. IsFiniteSet(Uids)
  BY <1>2, FS_Interval DEF Uids
<1>4. IsFiniteSet(Devices)
  BY <1>3, FS_Subset, DeviceAssumption
<1> QED BY <1>2, <1>4 DEF Uids

\* What the state machine sends.
Sent == {UnmuteAll} \cup {Mute(u) : u \in Uids} \cup {Branch(r) : r \in Ranges}

LEMMA AnswersType ==
  ASSUME NEW m \in Sent, NEW ears \in SUBSET Devices
  PROVE  Answers(m, ears) \subseteq Message \cup {None}
<1>1. CASE m = UnmuteAll
  BY <1>1 DEF UnmuteAll, Answers
<1>2. ASSUME NEW u \in Uids, m = Mute(u) PROVE Answers(m, ears) \subseteq Message \cup {None}
  BY <1>2 DEF Mute, Answers, Message
<1>3. ASSUME NEW r \in Ranges, m = Branch(r)
      PROVE  Answers(m, ears) \subseteq Message \cup {None}
  <2>1. m.pid = "branch" /\ m.range = r
    BY <1>3 DEF Branch
  <2>2. Responders(r, ears) \subseteq Uids
    BY DeviceAssumption DEF Responders
  <2> QED BY <2>1, <2>2 DEF Answers, Message
<1> QED BY <1>1, <1>2, <1>3 DEF Sent

LEMMA MutedByType ==
  ASSUME TypeOK, NEW m \in Sent, NEW ears \in SUBSET present
  PROVE  MutedBy(m, ears) \subseteq present
BY DEF MutedBy, TypeOK

LEMMA TransmitType ==
  ASSUME TypeOK, NEW m \in Sent, NEW late \in Nat, Transmit(m, late)
  PROVE  errors' \in Nat /\ muted' \subseteq present /\ flight' \in Message \cup {None}
<1>1. PICK deaf \in SUBSET present, lost \in 0 .. 1 :
        /\ errors' = errors + late + lost + Cardinality(deaf)
        /\ \E answer \in Answers(m, present \ deaf) :
             flight' = IF lost = 1 THEN None ELSE answer
        /\ muted' = MutedBy(m, present \ deaf)
  BY DEF Transmit
<1>2. deaf \subseteq Devices /\ present \ deaf \subseteq Devices
  BY DEF TypeOK
<1>3. Cardinality(deaf) \in Nat
  BY <1>2, UidsFacts, FS_Subset, FS_CardinalityType
<1>4. Answers(m, present \ deaf) \subseteq Message \cup {None}
  BY <1>2, AnswersType
<1>5. MutedBy(m, present \ deaf) \subseteq present
  BY MutedByType
<1>6. errors' \in Nat
  BY <1>1, <1>3 DEF TypeOK
<1>7. flight' \in Message \cup {None}
  BY <1>1, <1>4
<1> QED BY <1>1, <1>5, <1>6, <1>7

LEMMA LateType == Late \in Nat
BY DEF Late

LEMMA NewStateType ==
  ASSUME TypeOK, NEW s \in States, NewState(s, TRUE) \/ NewState(s, FALSE)
  PROVE  state' \in States /\ saved' \in States
BY DEF NewState, TypeOK, States

LEMMA EndType ==
  ASSUME TypeOK, NEW c \in Commands, NEW fresh \in Nat, End(c, fresh)
  PROVE  counter' \in [Commands -> Nat] /\ running' \in [Commands -> BOOLEAN]
BY DEF End, TypeOK

LEMMA SendType ==
  ASSUME TypeOK, NEW c \in Commands, NEW m \in Sent, Send(c, m) \/ Again(c, m)
  PROVE  TypeOK'
<1>1. errors' \in Nat /\ muted' \subseteq present /\ flight' \in Message \cup {None}
  BY TransmitType, LateType DEF Send, Again
<1>2. counter' \in [Commands -> Nat] /\ running' \in [Commands -> BOOLEAN]
  <2>1. CASE Send(c, m)
    BY <2>1 DEF Send, TypeOK
  <2>2. CASE Again(c, m)
    BY <2>2 DEF Again, TypeOK
  <2> QED BY <2>1, <2>2
<1> QED BY <1>1, <1>2 DEF Send, Again, search, world, TypeOK

LEMMA WithdrawType == ASSUME TypeOK, NEW c \in Commands, Withdraw(c) PROVE TypeOK'
<1>1. errors' \in Nat
  BY LateType DEF Withdraw, TypeOK
<1>2. counter' \in [Commands -> Nat] /\ running' \in [Commands -> BOOLEAN]
  BY DEF Withdraw, TypeOK
<1> QED BY <1>1, <1>2 DEF Withdraw, search, world, TypeOK

LEMMA DeleteType ==
  ASSUME NEW s \in Seq(Uids), s # <<>>, NEW u
  PROVE  Delete(s, u) \in Seq(Uids) /\ Len(Delete(s, u)) = Len(s) - 1
<1> DEFINE i == CHOOSE i \in DOMAIN s : s[i] = u
           t == [j \in 1 .. Len(s) - 1 |-> IF j < i THEN s[j] ELSE s[j + 1]]
<1>1. Len(s) \in Nat /\ Len(s) - 1 \in Nat
  BY EmptySeq
<1>2. \A j \in 1 .. Len(s) - 1 : s[j] \in Uids /\ s[j + 1] \in Uids
  BY <1>1, ElementOfSeq
<1>3. t \in [1 .. Len(s) - 1 -> Uids]
  BY <1>2
<1> HIDE DEF t
<1>4. t \in Seq(Uids) /\ Len(t) = Len(s) - 1
  BY <1>1, <1>3, SeqDef, LenProperties
<1> QED BY <1>4 DEF Delete, t

LEMMA AddUidType == ASSUME NEW s \in Seq(Uids), NEW u \in Uids PROVE AddUid(s, u) \in Seq(Uids)
BY AppendProperties DEF AddUid

----------------------------------------------------------------------------
(* The states of the machine *)

\* When a message of DISCOVERY may be running, what is saved for after
\* LATE_RESPONSE, and that the devices to mute are entries of the table.
Phase ==
  /\ running["Discovery"] =>
       state \in {"Discovery", "Idle"} \/ (state = "LateResponse" /\ saved = "Idle")
  /\ state = "LateResponse" =>
       saved \in {"Idle", "Discovery", "Single", "Quickfind", "Finished"}
  /\ state = "Mute" => incremental
  /\ state \in {"Unmute", "Mute"} /\ incremental => entries <= Len(tod)

LEMMA MuteSent ==
  ASSUME TypeOK, Phase, state = "Mute", entries > 0
  PROVE  tod # <<>> /\ tod[entries] \in Uids /\ Mute(tod[entries]) \in Sent
<1>1. Len(tod) \in Nat /\ entries \in 1 .. Len(tod)
  BY LenProperties DEF TypeOK, Phase
<1>2. tod[entries] \in Uids
  BY <1>1, ElementOfSeq DEF TypeOK
<1>3. tod # <<>>
  BY <1>1, EmptySeq
<1> QED BY <1>2, <1>3 DEF Sent

LEMMA PoppedRange ==
  ASSUME TypeOK, Pop
  PROVE  range' \in Ranges /\ stack' \in Seq(Ranges) /\ Len(stack) \in Nat \ {0}
<1>1. Len(stack) \in Nat \ {0} /\ stack \in Seq(Ranges)
  BY EmptySeq DEF Pop, TypeOK
<1>2. \A i \in 1 .. Len(stack) - 1 : stack[i] \in Ranges
  BY <1>1, ElementOfSeq
<1>3. SubSeq(stack, 1, Len(stack) - 1) \in Seq(Ranges)
  BY <1>1, <1>2, SubSeqProperties
<1>4. stack[Len(stack)] \in Ranges
  BY <1>1, ElementOfSeq
<1> QED BY <1>1, <1>3, <1>4 DEF Pop

\* The halves of a range of two or more UIDs.
Proper(r) == r.lower < r.upper

LEMMA SplitType ==
  ASSUME TypeOK
  PROVE  /\ Middle \in Uids
         /\ UidRange(range.lower, Middle) \in Ranges
         /\ (Proper(range) => UidRange(Middle + 1, range.upper) \in Ranges)
<1>1. range.lower \in 0 .. LastUid /\ range.upper \in 0 .. LastUid /\ LastUid \in Nat
  BY UidsFacts DEF TypeOK, Ranges, Uids
<1>2. Middle \in 0 .. LastUid /\ (Proper(range) => Middle + 1 \in 0 .. LastUid)
  BY <1>1 DEF Middle, Proper
<1> QED BY <1>1, <1>2 DEF UidRange, Ranges, Uids

\* The range is one that was asked for, of two UIDs or more.
Searching ==
  \/ state \in {"Dub", "Quickfind", "QuickfindDiscovery"}
  \/ state = "LateResponse" /\ saved = "Quickfind"
  \/ state = "Discovery" /\ running["Discovery"]

LEMMA ProcessType ==
  ASSUME TypeOK, Phase, Searching => Proper(range), Process
  PROVE  TypeOK'
<1> USE CounterAssumption
<1>1. CASE Drain
  BY <1>1, UidsFacts DEF Drain, Received, machine, world, search, States, Commands, TypeOK
<1>2. CASE EndLateResponse
  BY <1>2, UidsFacts DEF EndLateResponse, world, search, States, Commands, TypeOK
<1>3. CASE DubNone
  BY <1>3, UidsFacts DEF DubNone, NewState, line, world, search, States, Commands, TypeOK
<1>4. CASE DubValid
  <2>1. quick' \in Uids
    BY <1>4 DEF DubValid, TypeOK, Message
  <2>2. state' \in States /\ saved' \in States
    BY <1>4 DEF DubValid, NewState, States, Commands, TypeOK
  <2> QED BY <1>4, <2>1, <2>2 DEF DubValid, line, world, TypeOK
<1>5. CASE DubSplit
  <2>1. UidRange(range.lower, Middle) \in Ranges /\ UidRange(Middle + 1, range.upper) \in Ranges
    BY <1>5, SplitType DEF DubSplit, SplitInto, Searching
  <2>2. stack' \in Seq(Ranges)
    BY <1>5, <2>1, ConcatProperties DEF DubSplit, SplitInto, TypeOK
  <2>3. state' \in States /\ saved' \in States
    BY <1>5 DEF DubSplit, SplitInto, NewState, States, Commands, TypeOK
  <2> QED
    BY <1>5, <2>2, <2>3 DEF DubSplit, SplitInto, line, world, TypeOK
<1>6. CASE Finish
  BY <1>6, UidsFacts DEF Finish, NewState, line, world, States, Commands, TypeOK
<1>7. CASE UnmuteDone
  BY <1>7, UidsFacts DEF UnmuteDone, NewState, End, line, world, search, States, Commands, TypeOK
<1>8. CASE UnmuteDrain
  BY <1>8, UidsFacts DEF UnmuteDrain, Received, machine, world, search, States, Commands, TypeOK
<1>9. CASE UnmuteSend
  BY <1>9, SendType DEF UnmuteSend, Sent, Commands
<1>10. CASE UnmuteTimeOut
  BY <1>10, WithdrawType DEF UnmuteTimeOut, Commands
<1>11. CASE MuteAllDone
  BY <1>11, UidsFacts DEF MuteAllDone, NewState, line, world, search, States, Commands, TypeOK
<1>12. CASE MuteGone
  <2>1. tod' \in Seq(Uids)
    BY <1>12, MuteSent, DeleteType DEF MuteGone, TypeOK
  <2>2. entries' \in Nat
    BY <1>12 DEF MuteGone, TypeOK
  <2>3. counter' \in [Commands -> Nat] /\ running' \in [Commands -> BOOLEAN]
    BY <1>12, EndType DEF MuteGone, Commands
  <2> QED BY <1>12, <2>1, <2>2, <2>3 DEF MuteGone, line, world, TypeOK
<1>13. CASE MuteSend
  BY <1>13, SendType, MuteSent DEF MuteSend, Send, Commands
<1>14. CASE MuteAnswered
  BY <1>14, UidsFacts DEF MuteAnswered, Received, world, States, Commands, TypeOK
<1>15. CASE MuteTimeOut
  BY <1>15, SendType, MuteSent DEF MuteTimeOut, Again, Commands
<1>16. CASE DiscoveryAnswered
  BY <1>16, UidsFacts DEF DiscoveryAnswered, NewState, world, States, Commands, TypeOK
<1>17. CASE DiscoveryTimeOut
  BY <1>17, SendType DEF DiscoveryTimeOut, Sent, Commands, TypeOK
<1>18. CASE DiscoveryEmpty
  BY <1>18, UidsFacts DEF DiscoveryEmpty, NewState, line, world, search, States, Commands, TypeOK
<1>19. CASE DiscoverySingle
  <2>1. state' \in States /\ saved' \in States
    BY <1>19 DEF DiscoverySingle, NewState, States, Commands, TypeOK
  <2>2. running' \in [Commands -> BOOLEAN]
    BY <1>19 DEF DiscoverySingle, TypeOK
  <2> QED
    BY <1>19, <2>1, <2>2, PoppedRange DEF DiscoverySingle, Pop, line, world, TypeOK
<1>20. CASE DiscoverySend
  <2>1. range' \in Ranges /\ stack' \in Seq(Ranges) /\ Branch(range') \in Sent
    BY <1>20, PoppedRange DEF DiscoverySend, Sent
  <2>2. errors' \in Nat /\ muted' \subseteq present /\ flight' \in Message \cup {None}
    BY <1>20, <2>1, TransmitType DEF DiscoverySend
  <2>3. counter' \in [Commands -> Nat] /\ running' \in [Commands -> BOOLEAN]
    BY <1>20 DEF DiscoverySend, TypeOK
  <2> QED BY <1>20, <2>1, <2>2, <2>3 DEF DiscoverySend, Pop, world, TypeOK
<1>21. CASE SingleGivesUp
  BY <1>21, UidsFacts DEF SingleGivesUp, NewState, End, line, world, search, States, Commands, TypeOK
<1>22. CASE SingleSend
  BY <1>22, SendType DEF SingleSend, Sent, Commands, TypeOK, Ranges
<1>23. CASE SingleTimeOut
  BY <1>23, SendType DEF SingleTimeOut, Sent, Commands, TypeOK, Ranges
<1>24. CASE SingleAnswered
  <2>1. tod' \in Seq(Uids)
    BY <1>24, AddUidType DEF SingleAnswered, TypeOK, Ranges
  <2> QED
    BY <1>24, <2>1 DEF SingleAnswered, NewState, End, Received, world, States, Commands, TypeOK
<1>25. CASE SingleIgnores
  BY <1>25, UidsFacts DEF SingleIgnores, Received, world, search, States, Commands, TypeOK
<1>26. CASE QuickfindSend
  <2>1. Mute(quick) \in Sent
    BY DEF Sent, TypeOK
  <2>2. errors' \in Nat /\ muted' \subseteq present /\ flight' \in Message \cup {None}
    BY <1>26, <2>1, TransmitType DEF QuickfindSend
  <2>3. counter' \in [Commands -> Nat] /\ running' \in [Commands -> BOOLEAN]
    BY <1>26 DEF QuickfindSend, TypeOK
  <2> QED BY <1>26, <2>2, <2>3 DEF QuickfindSend, search, world, TypeOK
<1>27. CASE QuickfindTimeOut
  BY <1>27, WithdrawType DEF QuickfindTimeOut, Commands
<1>28. CASE QuickfindAnswered
  <2>1. tod' \in Seq(Uids)
    BY <1>28, AddUidType DEF QuickfindAnswered, TypeOK
  <2> QED
    BY <1>28, <2>1 DEF QuickfindAnswered, NewState, End, Received, world, States, Commands, TypeOK
<1>29. CASE QuickfindIgnores
  BY <1>29, UidsFacts DEF QuickfindIgnores, Received, world, search, States, Commands, TypeOK
<1>30. CASE QuickfindDiscoveryGivesUp
  BY <1>30, UidsFacts DEF QuickfindDiscoveryGivesUp, NewState, End, line, world, search, States, Commands, TypeOK
<1>31. CASE QuickfindDiscoverySend
  BY <1>31, SendType DEF QuickfindDiscoverySend, Sent, Commands, TypeOK
<1>32. CASE QuickfindDiscoveryTimeOut
  BY <1>32, WithdrawType DEF QuickfindDiscoveryTimeOut, Commands
<1>33. CASE QuickfindDiscoveryAnswered
  <2>1. quick' \in Uids
    <3>1. buffer.kind = "branch" => buffer.uid \in Uids
      BY <1>33 DEF QuickfindDiscoveryAnswered, Received, Message, TypeOK
    <3> QED BY <1>33, <3>1 DEF QuickfindDiscoveryAnswered, TypeOK
  <2>2. state' \in States /\ saved' \in States
    BY <1>33 DEF QuickfindDiscoveryAnswered, NewState, States, Commands, TypeOK
  <2>3. counter' \in [Commands -> Nat] /\ running' \in [Commands -> BOOLEAN]
    BY <1>33, EndType DEF QuickfindDiscoveryAnswered, Commands
  <2> QED
    BY <1>33, <2>1, <2>2, <2>3 DEF QuickfindDiscoveryAnswered, Received, world, TypeOK
<1> QED
  BY <1>1, <1>2, <1>3, <1>4, <1>5, <1>6, <1>7, <1>8, <1>9, <1>10, <1>11, <1>12, <1>13, <1>14, <1>15, <1>16, <1>17, <1>18, <1>19, <1>20, <1>21, <1>22, <1>23, <1>24, <1>25, <1>26, <1>27, <1>28, <1>29, <1>30, <1>31, <1>32, <1>33 DEF Process

----------------------------------------------------------------------------
(* The inductive invariant *)

\* A command always has an attempt left where an assertion wants one.
Counters ==
  /\ state # "Idle" => counter["Quickfind"] > 0
  /\ running["Quickfind"] => counter["Quickfind"] = QuickfindCounter
  /\ \/ counter["Mute"] > 0
     \/ state = "Idle"
     \/ state = "LateResponse" /\ saved = "Idle"
     \/ state = "Mute" /\ entries > 0

\* Each range is at most half as wide as the one below it on the stack.
Halved ==
  /\ Len(stack) <= Bits + 1
  /\ \A i \in 1 .. Len(stack) :
       /\ stack[i].lower <= stack[i].upper
       /\ stack[i].upper < stack[i].lower + Pow[Bits + 1 - i]
  /\ Searching => /\ Proper(range) /\ Len(stack) <= Bits
                  /\ range.upper < range.lower + Pow[Bits - Len(stack)]

IInv == TypeOK /\ Phase /\ Counters /\ Halved /\ Contiguous

\* A step that leaves the ranges alone and begins nothing new with them.
Quiet == /\ UNCHANGED <<stack, range>>
         /\ (Searching' => Searching) /\ (InHand' => InHand)

LEMMA QuietKeeps ==
  ASSUME IInv, Quiet PROVE Halved' /\ Contiguous'
BY DEF IInv, Quiet, Halved, Contiguous, Above

LEMMA ProcessControl ==
  ASSUME TypeOK, Phase, Counters, Process
  PROVE  /\ Phase' /\ Counters'
         /\ Quiet \/ DubSplit \/ DiscoverySingle \/ DiscoverySend
<1> DEFINE Goal == /\ Phase' /\ Counters'
                   /\ Quiet \/ DubSplit \/ DiscoverySingle \/ DiscoverySend
<1> USE CounterAssumption
<1>1. CASE Drain
  BY <1>1 DEF Drain, machine, Phase, Counters, Quiet, Searching, InHand, Commands, States, TypeOK
<1>2. CASE EndLateResponse
  BY <1>2 DEF EndLateResponse, search, Phase, Counters, Quiet, Searching, InHand, Commands, States, TypeOK
<1>3. CASE DubNone
  BY <1>3 DEF DubNone, NewState, search, Phase, Counters, Quiet, Searching, InHand, Commands, States, TypeOK
<1>4. CASE DubValid
  BY <1>4 DEF DubValid, NewState, Phase, Counters, Quiet, Searching, InHand, Commands, States, TypeOK
<1>5. CASE DubSplit
  BY <1>5 DEF DubSplit, SplitInto, NewState, Phase, Counters, Quiet, Searching, InHand, Commands, States, TypeOK
<1>6. CASE Finish
  BY <1>6 DEF Finish, NewState, Phase, Counters, Quiet, Searching, InHand, Commands, States, TypeOK
<1>7. CASE UnmuteDone
  BY <1>7 DEF UnmuteDone, NewState, End, search, Phase, Counters, Quiet, Searching, InHand, Commands, States, TypeOK
<1>8. CASE UnmuteDrain
  BY <1>8 DEF UnmuteDrain, machine, Phase, Counters, Quiet, Searching, InHand, Commands, States, TypeOK
<1>9. CASE UnmuteSend
  BY <1>9 DEF UnmuteSend, Send, search, Phase, Counters, Quiet, Searching, InHand, Commands, States, TypeOK
<1>10. CASE UnmuteTimeOut
  BY <1>10 DEF UnmuteTimeOut, Withdraw, search, Phase, Counters, Quiet, Searching, InHand, Commands, States, TypeOK
<1>11. CASE MuteAllDone
  BY <1>11 DEF MuteAllDone, NewState, search, Phase, Counters, Quiet, Searching, InHand, Commands, States, TypeOK
<1>12. CASE MuteGone
  <2>1. Len(tod') = Len(tod) - 1 /\ Len(tod) \in Nat /\ tod \in Seq(Uids)
    BY <1>12, MuteSent, DeleteType, LenProperties DEF MuteGone, TypeOK
  <2> QED
    BY <1>12, <2>1 DEF MuteGone, End, Phase, Counters, Quiet, Searching, InHand, Commands, TypeOK
<1>13. CASE MuteSend
  BY <1>13 DEF MuteSend, Send, search, Phase, Counters, Quiet, Searching, InHand, Commands, States, TypeOK
<1>14. CASE MuteAnswered
  BY <1>14 DEF MuteAnswered, Phase, Counters, Quiet, Searching, InHand, Commands, States, TypeOK
<1>15. CASE MuteTimeOut
  BY <1>15 DEF MuteTimeOut, Again, search, Phase, Counters, Quiet, Searching, InHand, Commands, States, TypeOK
<1>16. CASE DiscoveryAnswered
  BY <1>16 DEF DiscoveryAnswered, NewState, Phase, Counters, Quiet, Searching, InHand, Commands, States, TypeOK
<1>17. CASE DiscoveryTimeOut
  BY <1>17 DEF DiscoveryTimeOut, Again, search, Phase, Counters, Quiet, Searching, InHand, Commands, States, TypeOK
<1>18. CASE DiscoveryEmpty
  BY <1>18 DEF DiscoveryEmpty, NewState, search, Phase, Counters, Quiet, Searching, InHand, Commands, States, TypeOK
<1>19. CASE DiscoverySingle
  BY <1>19 DEF DiscoverySingle, Pop, NewState, Phase, Counters, Quiet, Searching, InHand, Commands, States, TypeOK
<1>20. CASE DiscoverySend
  <2>1. /\ state = "Discovery" /\ state' = state /\ incremental' = incremental
        /\ counter'["Quickfind"] = counter["Quickfind"] /\ counter'["Mute"] = counter["Mute"]
        /\ running'["Quickfind"] = running["Quickfind"]
    BY <1>20 DEF DiscoverySend, Pop, Commands, TypeOK
  <2>2. Phase'
    BY <2>1 DEF Phase
  <2>3. Counters'
    BY <2>1 DEF Counters
  <2> QED BY <1>20, <2>2, <2>3
<1>21. CASE SingleGivesUp
  BY <1>21 DEF SingleGivesUp, NewState, End, search, Phase, Counters, Quiet, Searching, InHand, Commands, States, TypeOK
<1>22. CASE SingleSend
  BY <1>22 DEF SingleSend, Send, search, Phase, Counters, Quiet, Searching, InHand, Commands, States, TypeOK
<1>23. CASE SingleTimeOut
  BY <1>23 DEF SingleTimeOut, Again, search, Phase, Counters, Quiet, Searching, InHand, Commands, States, TypeOK
<1>24. CASE SingleAnswered
  BY <1>24 DEF SingleAnswered, NewState, End, Phase, Counters, Quiet, Searching, InHand, Commands, States, TypeOK
<1>25. CASE SingleIgnores
  BY <1>25 DEF SingleIgnores, search, Phase, Counters, Quiet, Searching, InHand, Commands, States, TypeOK
<1>26. CASE QuickfindSend
  BY <1>26 DEF QuickfindSend, search, Phase, Counters, Quiet, Searching, InHand, Commands, States, TypeOK
<1>27. CASE QuickfindTimeOut
  BY <1>27 DEF QuickfindTimeOut, Withdraw, search, Phase, Counters, Quiet, Searching, InHand, Commands, States, TypeOK
<1>28. CASE QuickfindAnswered
  BY <1>28 DEF QuickfindAnswered, NewState, End, Phase, Counters, Quiet, Searching, InHand, Commands, States, TypeOK
<1>29. CASE QuickfindIgnores
  BY <1>29 DEF QuickfindIgnores, search, Phase, Counters, Quiet, Searching, InHand, Commands, States, TypeOK
<1>30. CASE QuickfindDiscoveryGivesUp
  BY <1>30 DEF QuickfindDiscoveryGivesUp, NewState, End, search, Phase, Counters, Quiet, Searching, InHand, Commands, States, TypeOK
<1>31. CASE QuickfindDiscoverySend
  BY <1>31 DEF QuickfindDiscoverySend, Send, search, Phase, Counters, Quiet, Searching, InHand, Commands, States, TypeOK
<1>32. CASE QuickfindDiscoveryTimeOut
  BY <1>32 DEF QuickfindDiscoveryTimeOut, Withdraw, search, Phase, Counters, Quiet, Searching, InHand, Commands, States, TypeOK
<1>33. CASE QuickfindDiscoveryAnswered
  BY <1>33 DEF QuickfindDiscoveryAnswered, NewState, End, Phase, Counters, Quiet, Searching, InHand, Commands, States, TypeOK
<1> QED
  BY <1>1, <1>2, <1>3, <1>4, <1>5, <1>6, <1>7, <1>8, <1>9, <1>10, <1>11, <1>12, <1>13, <1>14, <1>15, <1>16, <1>17, <1>18, <1>19, <1>20, <1>21, <1>22, <1>23, <1>24, <1>25, <1>26, <1>27, <1>28, <1>29, <1>30, <1>31, <1>32, <1>33 DEF Process

LEMMA PopRanges ==
  ASSUME IInv, Pop
  PROVE  /\ Len(stack') = Len(stack) - 1 /\ Len(stack') \in 0 .. Bits
         /\ \A i \in 1 .. Len(stack') : stack'[i] = stack[i]
         /\ range'.lower <= range'.upper
         /\ range'.upper < range'.lower + Pow[Bits - Len(stack')]
         /\ range'.lower = IF Len(stack') = 0 THEN 0 ELSE stack'[Len(stack')].upper + 1
<1>1. PICK n \in Nat \ {0} : n = Len(stack)
  BY PoppedRange DEF IInv
<1>2. stack \in Seq(Ranges) /\ \A i \in 1 .. n - 1 : stack[i] \in Ranges
  BY <1>1, ElementOfSeq DEF IInv, TypeOK
<1>3. stack' = SubSeq(stack, 1, n - 1) /\ range' = stack[n]
  BY <1>1 DEF Pop
<1>4. Len(stack') = n - 1 /\ \A i \in 1 .. n - 1 : stack'[i] = stack[i]
  <2>1. \A i \in 1 .. (n - 1) - 1 + 1 : SubSeq(stack, 1, n - 1)[i] = stack[1 + i - 1]
    BY <1>2, SubSeqProperties
  <2>2. Len(SubSeq(stack, 1, n - 1)) = IF 1 <= n - 1 THEN (n - 1) - 1 + 1 ELSE 0
    BY <1>2, SubSeqProperties
  <2> QED BY <1>3, <2>1, <2>2
<1>5. n \in 1 .. n /\ n <= Bits + 1 /\ Bits \in Nat
  BY <1>1, PowAssumption DEF IInv, Halved
<1>6. Bits + 1 - n = Bits - Len(stack') /\ Len(stack') \in 0 .. Bits
  BY <1>4, <1>5
<1>7. stack[n].lower <= stack[n].upper /\ stack[n].upper < stack[n].lower + Pow[Bits + 1 - n]
  BY <1>1, <1>5 DEF IInv, Halved
<1>8. range'.lower = IF n - 1 = 0 THEN 0 ELSE stack'[n - 1].upper + 1
  <2>1. n \in DOMAIN stack
    BY <1>1, <1>2, LenProperties
  <2>2. stack[n].lower = Above(n - 1)
    BY <2>1 DEF IInv, Contiguous
  <2> QED BY <2>2, <1>3, <1>4 DEF Above
<1> QED BY <1>1, <1>3, <1>4, <1>6, <1>7, <1>8

LEMMA PopKeeps ==
  ASSUME IInv, DiscoverySingle \/ DiscoverySend PROVE Halved' /\ Contiguous'
<1>1. Pop /\ (Searching' => range'.lower # range'.upper)
  <2>1. CASE DiscoverySingle
    BY <2>1 DEF DiscoverySingle, Pop, NewState, Searching, IInv, TypeOK, Commands
  <2>2. CASE DiscoverySend
    BY <2>2 DEF DiscoverySend
  <2> QED BY <2>1, <2>2
<1>2. stack' \in Seq(Ranges) /\ range' \in Ranges
  BY <1>1, PoppedRange DEF IInv
<1>3. DOMAIN stack' = 1 .. Len(stack') /\ DOMAIN stack = 1 .. Len(stack)
  BY <1>2, LenProperties DEF IInv, TypeOK
<1>4. Halved'
  <2>1. Len(stack') <= Bits + 1 /\ Bits \in Nat
    BY <1>1, PopRanges, PowAssumption
  <2>2. \A i \in 1 .. Len(stack') : i \in 1 .. Len(stack) /\ stack'[i] = stack[i]
    BY <1>1, PopRanges, PoppedRange DEF IInv
  <2>3. Searching' => Proper(range)'
    <3>1. range'.lower \in Nat /\ range'.upper \in Nat
      BY <1>2, UidsFacts DEF Ranges
    <3>2. range'.lower <= range'.upper
      BY <1>1, PopRanges
    <3> QED BY <1>1, <3>1, <3>2 DEF Proper
  <2>4. \A i \in 1 .. Len(stack') : /\ stack'[i].lower <= stack'[i].upper
                                   /\ stack'[i].upper < stack'[i].lower + Pow[Bits + 1 - i]
    BY <2>2 DEF IInv, Halved
  <2>5. Len(stack') <= Bits /\ range'.upper < range'.lower + Pow[Bits - Len(stack')]
    BY <1>1, PopRanges, PowAssumption
  <2> QED BY <2>1, <2>3, <2>4, <2>5 DEF Halved
<1>5. Contiguous'
  <2>1. \A i \in DOMAIN stack' : stack'[i].lower = IF i - 1 = 0 THEN 0 ELSE stack'[i - 1].upper + 1
    <3> TAKE i \in DOMAIN stack'
    <3>1. i \in DOMAIN stack /\ stack'[i] = stack[i] /\ i \in 1 .. Len(stack')
      BY <1>1, <1>3, PopRanges, PoppedRange DEF IInv
    <3>2. i - 1 # 0 => stack'[i - 1] = stack[i - 1]
      BY <1>1, <3>1, PopRanges
    <3> QED BY <3>1, <3>2 DEF IInv, Contiguous, Above
  <2> QED BY <1>1, <2>1, PopRanges DEF Contiguous, Above
<1> QED BY <1>4, <1>5

LEMMA SplitKeeps ==
  ASSUME IInv, DubSplit PROVE Halved' /\ Contiguous'
<1> DEFINE low == UidRange(range.lower, Middle)
           high == UidRange(Middle + 1, range.upper)
<1>1. PICK n \in Nat : n = Len(stack)
  BY LenProperties DEF IInv, TypeOK
<1>2. /\ Proper(range) /\ n <= Bits /\ range.upper < range.lower + Pow[Bits - n]
      /\ range.lower = Above(n)
  BY <1>1 DEF DubSplit, SplitInto, Searching, InHand, IInv, Halved, Contiguous
<1>3. range.lower \in Nat /\ range.upper \in Nat /\ range.upper - range.lower \in Nat \ {0}
  <2>1. range.lower \in Nat /\ range.upper \in Nat
    BY UidsFacts DEF IInv, TypeOK, Ranges
  <2> QED BY <1>2, <2>1 DEF Proper
<1>4. Bits - n >= 1 /\ Pow[Bits - n] = 2 * Pow[Bits - n - 1] /\ Pow[Bits - n - 1] \in Nat
  <2>1. Bits - n # 0
    BY <1>2, <1>3, PowAssumption
  <2> DEFINE k == Bits - n - 1
  <2>2. k \in 0 .. Bits - 1 /\ k \in 0 .. Bits
    <3>1. Bits \in Nat /\ n \in Nat /\ n <= Bits /\ Bits - n # 0
      BY <1>1, <1>2, <2>1, PowAssumption
    <3> QED BY <3>1
  <2> HIDE DEF k
  <2>3. Pow[k + 1] = 2 * Pow[k] /\ Pow[k] \in Nat
    BY <2>2, PowAssumption
  <2>4. k + 1 = Bits - n /\ k = Bits - n - 1
    BY <1>1, PowAssumption DEF k
  <2> QED BY <2>2, <2>3, <2>4
<1>5. /\ range.lower <= Middle /\ Middle < range.lower + Pow[Bits - n - 1]
      /\ Middle + 1 <= range.upper /\ range.upper < Middle + 1 + Pow[Bits - n - 1]
      /\ Middle \in Nat
  BY <1>2, <1>3, <1>4 DEF Middle
<1>6. /\ stack' = stack \o <<low, high>> /\ stack \in Seq(Ranges)
      /\ low \in Ranges /\ high \in Ranges /\ <<low, high>> \in Seq(Ranges)
  BY <1>2, SplitType DEF DubSplit, SplitInto, IInv, TypeOK
<1> HIDE DEF low, high
<1>7. /\ Len(stack') = n + 2 /\ stack' \in Seq(Ranges)
      /\ \A i \in 1 .. n : stack'[i] = stack[i]
      /\ stack'[n + 1] = low /\ stack'[n + 2] = high
  BY <1>1, <1>6, ConcatProperties
<1>8. /\ low.lower = range.lower /\ low.upper = Middle
      /\ high.lower = Middle + 1 /\ high.upper = range.upper
  BY DEF low, high, UidRange
<1>9. ~Searching' /\ ~InHand'
  BY DEF DubSplit, SplitInto, NewState, Searching, InHand, IInv, TypeOK, Phase, Commands
<1>10. Halved'
  <2>1. \A i \in 1 .. n + 2 : /\ stack'[i].lower <= stack'[i].upper
                              /\ stack'[i].upper < stack'[i].lower + Pow[Bits + 1 - i]
    <3> TAKE i \in 1 .. n + 2
    <3>1. CASE i \in 1 .. n
      BY <3>1, <1>1, <1>7 DEF IInv, Halved
    <3>2. CASE i = n + 1
      <4>1. Bits + 1 - i = Bits - n
        BY <3>2, <1>1, PowAssumption
      <4> QED BY <3>2, <4>1, <1>3, <1>4, <1>5, <1>7, <1>8
    <3>3. CASE i = n + 2
      <4>1. Bits + 1 - i = Bits - n - 1
        BY <3>3, <1>1, PowAssumption
      <4> QED BY <3>3, <4>1, <1>5, <1>7, <1>8
    <3> QED BY <3>1, <3>2, <3>3, <1>1
  <2>2. n + 2 <= Bits + 1
    BY <1>1, <1>4, PowAssumption
  <2> QED BY <1>7, <1>9, <2>1, <2>2 DEF Halved
<1>11. Contiguous'
  <2>1. DOMAIN stack' = 1 .. n + 2 /\ DOMAIN stack = 1 .. n
    BY <1>1, <1>6, <1>7, LenProperties
  <2>2. \A i \in 1 .. n + 2 : stack'[i].lower = IF i - 1 = 0 THEN 0 ELSE stack'[i - 1].upper + 1
    <3> TAKE i \in 1 .. n + 2
    <3>1. CASE i \in 1 .. n
      <4>1. i - 1 # 0 => stack'[i - 1] = stack[i - 1]
        BY <3>1, <1>1, <1>7
      <4> QED BY <3>1, <4>1, <2>1, <1>7 DEF IInv, Contiguous, Above
    <3>2. CASE i = n + 1
      <4>1. i - 1 = n /\ (n # 0 => stack'[n] = stack[n])
        BY <3>2, <1>1, <1>7
      <4> QED BY <3>2, <4>1, <1>2, <1>7, <1>8 DEF Above
    <3>3. CASE i = n + 2
      <4>1. i - 1 = n + 1 /\ n + 1 # 0
        BY <3>3, <1>1
      <4> QED BY <3>3, <4>1, <1>7, <1>8
    <3> QED BY <3>1, <3>2, <3>3, <1>1
  <2> QED BY <1>9, <2>1, <2>2 DEF Contiguous, Above
<1> QED BY <1>10, <1>11

LEMMA StartInv == ASSUME IInv, NEW inc \in BOOLEAN, Start(inc) PROVE IInv'
<1> DEFINE r == UidRange(0, LastUid)
<1>1. r \in Ranges /\ r.lower = 0 /\ r.upper = LastUid
  BY UidsFacts DEF UidRange, Ranges, Uids
<1> HIDE DEF r
<1>2. /\ stack' = <<r>> /\ stack' \in Seq(Ranges) /\ Len(stack') = 1 /\ stack'[1] = r
      /\ DOMAIN stack' = 1 .. 1
  <2>1. stack' = <<r>>
    BY DEF Start, r
  <2> QED BY <1>1, <2>1
<1>3. tod' \in Seq(Uids) /\ entries' \in Nat /\ (inc => entries' = Len(tod'))
  BY LenProperties DEF Start, IInv, TypeOK
<1>4. counter' \in [Commands -> Nat] /\ running' \in [Commands -> BOOLEAN]
  BY CounterAssumption DEF Start, Commands
<1>5. TypeOK'
  BY <1>2, <1>3, <1>4 DEF Start, IInv, TypeOK, States, Commands
<1>6. Phase' /\ Counters'
  <2>1. state' = "Unmute" /\ incremental' = inc
    BY DEF Start
  <2>2. \A c \in Commands : ~running'[c]
    BY DEF Start
  <2>3. counter'["Quickfind"] = QuickfindCounter /\ counter'["Mute"] = MuteCounter
    BY DEF Start
  <2>4. Phase'
    BY <1>3, <2>1, <2>2 DEF Phase, Commands
  <2>5. Counters'
    BY <2>1, <2>2, <2>3, CounterAssumption DEF Counters, Commands
  <2> QED BY <2>4, <2>5
<1>7. ~Searching' /\ ~InHand'
  BY DEF Start, Searching, InHand
<1>8. Halved'
  <2>1. Bits \in Nat /\ 1 <= Bits + 1 /\ Bits + 1 - 1 = Bits /\ Pow[Bits] \in Nat
    BY PowAssumption
  <2>2. LastUid < 0 + Pow[Bits] /\ 0 <= LastUid
    BY <2>1, UidsFacts DEF LastUid
  <2>3. \A i \in 1 .. 1 : i = 1
    OBVIOUS
  <2> QED BY <1>1, <1>2, <1>7, <2>1, <2>2, <2>3 DEF Halved
<1>9. Contiguous'
  BY <1>1, <1>2, <1>7 DEF Contiguous, Above
<1> QED BY <1>5, <1>6, <1>8, <1>9 DEF IInv

LEMMA InitInv == Init => IInv
<1> SUFFICES ASSUME Init PROVE IInv
  OBVIOUS
<1>1. UidRange(0, 0) \in Ranges /\ 0 \in Uids
  BY UidsFacts DEF UidRange, Ranges
<1>2. <<>> \in Seq(Ranges) /\ <<>> \in Seq(Uids) /\ Len(<<>>) = 0
  OBVIOUS
<1>3. TypeOK
  BY <1>1, <1>2 DEF Init, TypeOK, States, Commands
<1>4. Phase /\ Counters
  BY DEF Init, Phase, Counters, Commands
<1>5. ~Searching /\ ~InHand
  BY DEF Init, Searching, InHand, Commands
<1>6. Halved
  BY <1>2, <1>5, PowAssumption DEF Init, Halved
<1>7. Contiguous
  BY <1>2, <1>5 DEF Init, Contiguous
<1> QED BY <1>3, <1>4, <1>6, <1>7 DEF IInv

\* The steps that do not touch the machine but its line and its devices, and those
\* that stop a search or fetch its result.
LEMMA OutsideInv ==
  ASSUME IInv, \/ Arrive \/ Stop \/ Collect \/ UNCHANGED vars
               \/ \E d \in Devices : Plug(d) \/ Unplug(d)
  PROVE  IInv'
<1>1. TypeOK'
  <2>1. CASE Arrive
    BY <2>1 DEF Arrive, machine, world, IInv, TypeOK
  <2>2. CASE Stop
    <3>1. state' \in States /\ saved' \in States
      BY <2>2 DEF Stop, NewState, States, Commands, IInv, TypeOK
    <3> QED BY <2>2, <3>1 DEF Stop, line, world, IInv, TypeOK
  <2>3. CASE Collect
    BY <2>3 DEF Collect, line, world, IInv, TypeOK
  <2>4. CASE UNCHANGED vars
    BY <2>4 DEF vars, machine, line, world, IInv, TypeOK
  <2>5. ASSUME NEW d \in Devices, Plug(d) PROVE TypeOK'
    BY <2>5 DEF Plug, machine, line, IInv, TypeOK
  <2>6. ASSUME NEW d \in Devices, Unplug(d) PROVE TypeOK'
    BY <2>6 DEF Unplug, machine, IInv, TypeOK
  <2> QED BY <2>1, <2>2, <2>3, <2>4, <2>5, <2>6
<1>2. Phase' /\ Counters' /\ Quiet
  <2>1. CASE Stop
    BY <2>1 DEF Stop, NewState, Phase, Counters, Quiet, Searching, InHand, IInv, TypeOK
  <2>2. CASE ~Stop
    <3>1. UNCHANGED <<state, saved, incremental, counter, running, stack, range, tod, entries>>
      BY <2>2 DEF Arrive, Collect, Plug, Unplug, vars, machine
    <3> QED BY <3>1 DEF Phase, Counters, Quiet, Searching, InHand, IInv
  <2> QED BY <2>1, <2>2
<1> QED BY <1>1, <1>2, QuietKeeps DEF IInv

LEMMA NextInv == IInv /\ [Next]_vars => IInv'
<1> SUFFICES ASSUME IInv, [Next]_vars PROVE IInv'
  OBVIOUS
<1>1. CASE Process
  <2>1. TypeOK'
    BY <1>1, ProcessType DEF IInv, Halved
  <2>2. Phase' /\ Counters' /\ (Quiet \/ DubSplit \/ DiscoverySingle \/ DiscoverySend)
    BY <1>1, ProcessControl DEF IInv
  <2>3. Halved' /\ Contiguous'
    BY <2>2, QuietKeeps, SplitKeeps, PopKeeps
  <2> QED BY <2>1, <2>2, <2>3 DEF IInv
<1>2. ASSUME NEW inc \in BOOLEAN, Start(inc) PROVE IInv'
  BY <1>2, StartInv
<1>3. CASE \/ Arrive \/ Stop \/ Collect \/ UNCHANGED vars
           \/ \E d \in Devices : Plug(d) \/ Unplug(d)
  BY <1>3, OutsideInv
<1> QED BY <1>1, <1>2, <1>3 DEF Next

----------------------------------------------------------------------------
(* Theorems *)

\* The inductive invariant holds of every search.
THEOREM Invariance == Spec => []IInv
BY InitInv, NextInv, PTL DEF Spec

\* Types: in particular no counter of attempts is taken below zero.
THEOREM TypeCorrect == Spec => []TypeOK
BY Invariance, PTL DEF IInv

\* With UIDs of b bits the stack of ranges never holds more than b + 1 of them:
\* 49 of the 200 entries of UidStack, whatever answers come from the line.
THEOREM StackBoundHolds == Spec => []StackBound
<1>1. IInv => StackBound
  BY DEF IInv, Halved, StackBound
<1> QED BY <1>1, Invariance, PTL

\* What is left to search is always one interval from 0: no range of UIDs is
\* lost or searched twice by the splitting.
THEOREM ContiguousHolds == Spec => []Contiguous
BY Invariance, PTL DEF IInv

\* The assertions on the counters of QUICKFIND and MUTE hold: the branch of
\* QUICKFIND that gives up is never taken.
THEOREM CountersPositiveHolds == Spec => []CountersPositive
<1>1. IInv => CountersPositive
  BY DEF IInv, Counters, CountersPositive
<1> QED BY <1>1, Invariance, PTL

----------------------------------------------------------------------------
(* What a search has found.  The invariant follows, through the phases of a   *)
(* search, where a device that is there all the time can be: in the table, in *)
(* a range still to be asked for, or among those being asked; and that each   *)
(* attempt which brought no answer from it cost an error, so that attempts    *)
(* run out on it only when there were as many errors.                         *)

\* The phase of the search, to which LATE_RESPONSE comes back.
At        == IF state = "LateResponse" THEN saved ELSE state
Branching == {"Discovery", "Dub", "Single", "Quickfind", "QuickfindDiscovery", "Finished"}
Done      == state = "Idle" /\ finished

Silent        == flight = None /\ buffer = None
IsMute(m)     == m # None /\ m.kind = "mute"
MuteAnswer(u) == [kind |-> "mute", uid |-> u]

\* Of n attempts of the command c, those counted down have cost an error each ...
Paid(n, c) == n <= errors + counter[c]
\* ... and so has the one under way.
PaidAll(n, c) == n < errors + counter[c]

\* Who answers was seen, from UNMUTE on, which silences the line first.
SeenInv ==
  /\ state # "Idle" => present \subseteq seen /\ ~finished
  /\ state = "Unmute" => /\ running["Unmute"] => flight = None
                         /\ counter["Unmute"] < UnmuteCounter => Silent
  /\ At \notin {"Idle", "Unmute"} =>
       \A m \in {flight, buffer} : IsMute(m) => m.uid \in seen

\* The commands that have not begun have all their attempts.
Fresh ==
  /\ state = "Unmute" =>
       /\ counter["Mute"] = MuteCounter /\ ~running["Mute"]
       /\ IF incremental THEN entries = Len(tod) ELSE tod = <<>>
  /\ state \in {"Unmute", "Mute"} => Len(stack) = 1 /\ stack[1].upper = LastUid
  /\ At \notin {"QuickfindDiscovery", "Idle"} =>
       /\ counter["QuickfindDiscovery"] = QuickfindDiscoveryCounter
       /\ ~running["QuickfindDiscovery"]
  /\ state # "Single" /\ At # "Idle" =>
       /\ counter["Single"] \in {MuteCounter, QuickfindDiscoveryCounter}
       /\ ~running["Single"]
  /\ At = "Finished" => stack = <<>>
  /\ At = "Single" => range.lower = range.upper

\* The entries muted so far were seen, and a device that is gone does not answer.
MutedSeen ==
  state = "Mute" /\ errors = 0 /\ NoneJoined =>
    /\ \A i \in entries + 1 .. Len(tod) : tod[i] \in seen
    /\ flight = None \/ buffer = None
    /\ ~running["Mute"] => Silent
    /\ running["Mute"] /\ entries > 0 =>
         IF Silent THEN tod[entries] \notin present ELSE tod[entries] \in seen
    /\ counter["Mute"] < MuteCounter => running["Mute"] /\ Silent

\* From then on the table holds what was seen.
TodSeen ==
  errors = 0 /\ NoneJoined /\ (At \in Branching \/ Done) => Members(tod) \subseteq seen

\* A device that is still mute did not hear the messages to unmute.
UnmutePaid ==
  state = "Unmute" /\ stable \cap muted # {} =>
    /\ Paid(UnmuteCounter, "Unmute")
    /\ running["Unmute"] => PaidAll(UnmuteCounter, "Unmute")

\* Only entries of the table are muted, and one is deleted only if it is gone.
MutePaid ==
  state = "Mute" /\ NoneJoined =>
    /\ FewErrors => \A d \in stable : d \in Members(tod) \/ d \notin muted
    /\ ~running["Mute"] => Paid(MuteCounter, "Mute")
    /\ entries > 0 /\ (tod[entries] \in present \/ ~Silent) => Paid(MuteCounter, "Mute")
    /\ entries > 0 /\ tod[entries] \in present /\ running["Mute"] /\ Silent
         => PaidAll(MuteCounter, "Mute")

\* A device that has to answer a branch message.
Hears(d) == d \notin muted /\ range.lower <= d /\ d <= range.upper

BranchPaid ==
  (\E d \in stable : Hears(d)) =>
    /\ state = "Discovery" /\ running["Discovery"] =>
         /\ Paid(DiscoveryCounter, "Discovery")
         /\ Silent => PaidAll(DiscoveryCounter, "Discovery")
    /\ state = "QuickfindDiscovery" =>
         /\ Paid(QuickfindDiscoveryCounter, "QuickfindDiscovery")
         /\ Silent /\ running["QuickfindDiscovery"]
              => PaidAll(QuickfindDiscoveryCounter, "QuickfindDiscovery")

SinglePaid ==
  state = "Single" /\ range.lower \in stable =>
    \E n \in {MuteCounter, QuickfindDiscoveryCounter} :
      /\ Paid(n, "Single")
      /\ running["Single"] /\ MuteAnswer(range.lower) \notin {flight, buffer}
           => PaidAll(n, "Single")

\* An answer to a message to mute is that of the device asked.
MuteAnswers ==
  /\ (\/ state = "Dub"
      \/ state = "Discovery" /\ running["Discovery"]
      \/ state = "QuickfindDiscovery" /\ running["QuickfindDiscovery"])
       => ~IsMute(flight)
  /\ At = "Quickfind" /\ IsMute(flight) => flight.uid = quick
  /\ state = "Quickfind" /\ IsMute(buffer) => buffer.uid = quick
  /\ state = "Single" /\ running["Single"] => flight \in {None, MuteAnswer(range.lower)}

\* Where a device is that is there all the time and not yet in the table: still to be
\* asked for, being asked for, or found by the quick find and being muted.
Frontier   == Above(Len(stack))
Waiting(d) == At \in Branching /\ d \notin muted /\ d < Frontier
Asked(d)   == /\ InHand /\ range.lower <= d /\ d <= range.upper
              /\ d \notin muted \/ At = "Single"
              /\ ~(state = "Dub" /\ response = None)

Covered ==
  (At \in Branching \/ Done) /\ FewErrors /\ NoneJoined /\ Len(tod) < TableSize =>
    \A d \in stable : \/ d \in Members(tod)
                      \/ Waiting(d) \/ Asked(d)
                      \/ At = "Quickfind" /\ d = quick

Search == /\ SeenInv /\ Fresh /\ MutedSeen /\ TodSeen /\ UnmutePaid /\ MutePaid
          /\ BranchPaid /\ SinglePaid /\ MuteAnswers /\ Covered

----------------------------------------------------------------------------
(* What the operators do to it *)

LEMMA Kinds ==
  /\ \A u : MuteAnswer(u).kind = "mute" /\ MuteAnswer(u).uid = u
  /\ \A u \in Uids : MuteAnswer(u) # None
  /\ ~IsMute(None) /\ None \notin Message
BY NoneAssumption DEF MuteAnswer, IsMute, Message

\* The numbers that are compared.
LEMMA Budget ==
  ASSUME TypeOK
  PROVE  /\ errors \in Nat /\ \A c \in Commands : counter[c] \in Nat
         /\ UnmuteCounter \in Nat \ {0} /\ MuteCounter \in Nat \ {0}
         /\ DiscoveryCounter \in Nat \ {0} /\ QuickfindDiscoveryCounter \in Nat \ {0}
         /\ FewErrors => /\ errors < UnmuteCounter /\ errors < MuteCounter
                         /\ errors < DiscoveryCounter /\ errors < QuickfindDiscoveryCounter
BY CounterAssumption DEF TypeOK, FewErrors

\* What comes of a message that is sent.
LEMMA TransmitFacts ==
  ASSUME TypeOK, NEW m \in Sent, NEW late \in Nat, Transmit(m, late)
  PROVE  /\ errors \in Nat /\ errors' \in Nat /\ errors + late <= errors'
         /\ m = UnmuteAll =>
              /\ flight' = None /\ muted' \subseteq muted
              /\ muted' # {} => errors + late < errors'
         /\ \A u \in Uids : m = Mute(u) =>
              /\ flight' = None \/ (flight' = MuteAnswer(u) /\ u \in present)
              /\ u \in present /\ flight' = None => errors + late < errors'
              /\ muted' \subseteq muted \cup {u}
         /\ \A r \in Ranges : m = Branch(r) =>
              /\ muted' = muted /\ ~IsMute(flight')
              /\ \A d \in present \ muted : r.lower <= d /\ d <= r.upper /\ flight' = None
                                          => errors + late < errors'
<1>1. PICK deaf \in SUBSET present, lost \in 0 .. 1 :
        /\ errors' = errors + late + lost + Cardinality(deaf)
        /\ \E answer \in Answers(m, present \ deaf) :
             /\ lost = 1 => answer # None
             /\ flight' = IF lost = 1 THEN None ELSE answer
        /\ muted' = MutedBy(m, present \ deaf)
  BY DEF Transmit
<1>2. PICK answer \in Answers(m, present \ deaf) :
        /\ lost = 1 => answer # None
        /\ flight' = IF lost = 1 THEN None ELSE answer
  BY <1>1
<1>3. IsFiniteSet(deaf) /\ Cardinality(deaf) \in Nat
  BY UidsFacts, FS_Subset, FS_CardinalityType DEF TypeOK
<1>4. Cardinality(deaf) = 0 <=> deaf = {}
  BY <1>3, FS_EmptySet
<1>5. /\ errors \in Nat /\ errors' \in Nat /\ errors + late <= errors'
      /\ deaf # {} \/ lost = 1 => errors + late < errors'
  BY <1>1, <1>3, <1>4 DEF TypeOK
<1>6. ASSUME m = UnmuteAll
      PROVE  /\ flight' = None /\ muted' \subseteq muted
             /\ muted' # {} => errors + late < errors'
  <2>1. m.pid = "unmute"
    BY <1>6 DEF UnmuteAll
  <2>2. answer = None /\ muted' = muted \ (present \ deaf)
    BY <1>1, <1>2, <2>1 DEF Answers, MutedBy
  <2> QED BY <1>2, <1>5, <2>2 DEF TypeOK
<1>7. ASSUME NEW u \in Uids, m = Mute(u)
      PROVE  /\ flight' = None \/ (flight' = MuteAnswer(u) /\ u \in present)
             /\ u \in present /\ flight' = None => errors + late < errors'
             /\ muted' \subseteq muted \cup {u}
  <2>1. m.pid = "mute" /\ m.uid = u
    BY <1>7 DEF Mute
  <2>2. muted' \subseteq muted \cup {u}
    BY <1>1, <2>1 DEF MutedBy
  <2>3. CASE u \in present \ deaf
    <3>1. answer = MuteAnswer(u)
      BY <2>1, <2>3 DEF Answers, MuteAnswer
    <3> QED BY <1>2, <1>5, <2>2, <2>3, <3>1, Kinds
  <2>4. CASE u \notin present \ deaf
    <3>1. answer = None
      BY <2>1, <2>4 DEF Answers
    <3> QED BY <1>2, <1>5, <2>2, <2>4, <3>1
  <2> QED BY <2>3, <2>4
<1>8. ASSUME NEW r \in Ranges, m = Branch(r)
      PROVE  /\ muted' = muted /\ ~IsMute(flight')
             /\ \A d \in present \ muted : r.lower <= d /\ d <= r.upper /\ flight' = None
                                         => errors + late < errors'
  <2>1. m.pid = "branch" /\ m.range = r
    BY <1>8 DEF Branch
  <2>2. muted' = muted
    BY <1>1, <2>1 DEF MutedBy
  <2>3. CASE Responders(r, present \ deaf) = {}
    <3>1. answer = None
      BY <2>1, <2>3 DEF Answers
    <3>2. \A d \in present \ muted : r.lower <= d /\ d <= r.upper => d \in deaf
      BY <2>3 DEF Responders
    <3> QED BY <1>2, <1>5, <2>2, <3>1, <3>2, Kinds
  <2>4. CASE Responders(r, present \ deaf) # {}
    <3> DEFINE R == Responders(r, present \ deaf)
    <3>1. Answers(m, present \ deaf) =
            {[kind |-> "branch", uid |-> d] : d \in R} \cup
            (IF Cardinality(R) > 1 THEN {[kind |-> "collision"]} ELSE {})
      BY <2>1, <2>4 DEF Answers
    <3>2. answer.kind # "mute"
      BY <3>1
    <3>3. answer \in Message \cup {None}
      BY AnswersType, <1>2 DEF TypeOK
    <3>4. R \subseteq Uids
      BY DeviceAssumption DEF Responders, TypeOK
    <3>5. answer \in Message
      BY <3>1, <3>4 DEF Message
    <3> QED BY <1>2, <1>5, <2>2, <3>2, <3>5, Kinds DEF IsMute
  <2> QED BY <2>3, <2>4
<1> QED BY <1>5, <1>6, <1>7, <1>8

\* Tod::AddUid()
LEMMA AddUidMembers ==
  ASSUME NEW s \in Seq(Uids), NEW u \in Uids
  PROVE  /\ Members(s) \subseteq Members(AddUid(s, u))
         /\ Members(AddUid(s, u)) \subseteq Members(s) \cup {u}
         /\ Len(AddUid(s, u)) < TableSize => Len(s) < TableSize /\ u \in Members(AddUid(s, u))
<1>1. CASE Len(s) = TableSize \/ u \in Members(s)
  BY <1>1, DeviceAssumption DEF AddUid
<1>2. CASE ~(Len(s) = TableSize \/ u \in Members(s))
  <2>1. AddUid(s, u) = Append(s, u)
    BY <1>2 DEF AddUid
  <2>2. /\ Len(s) \in Nat /\ DOMAIN s = 1 .. Len(s)
        /\ Len(Append(s, u)) = Len(s) + 1 /\ DOMAIN Append(s, u) = 1 .. Len(s) + 1
        /\ \A i \in 1 .. Len(s) : Append(s, u)[i] = s[i]
        /\ Append(s, u)[Len(s) + 1] = u
    BY AppendProperties, LenProperties
  <2> QED BY <2>1, <2>2, DeviceAssumption DEF Members
<1> QED BY <1>1, <1>2

\* Tod::Delete() of the entry n: what is behind it stays behind it, but for an entry
\* that is equal to it.
LEMMA DeleteMembers ==
  ASSUME NEW s \in Seq(Uids), NEW n \in 1 .. Len(s)
  PROVE  /\ Members(Delete(s, s[n])) \subseteq Members(s)
         /\ \A v \in Members(s) : v # s[n] => v \in Members(Delete(s, s[n]))
         /\ Len(Delete(s, s[n])) = Len(s) - 1
         /\ \A j \in n .. Len(s) - 1 : \E i \in n + 1 .. Len(s) : Delete(s, s[n])[j] = s[i]
<1> DEFINE i == CHOOSE i \in DOMAIN s : s[i] = s[n]
<1>1. Len(s) \in Nat /\ DOMAIN s = 1 .. Len(s) /\ s # <<>>
  BY LenProperties, EmptySeq
<1>2. i \in 1 .. Len(s) /\ s[i] = s[n]
  BY <1>1
<1>3. Delete(s, s[n]) = [j \in 1 .. Len(s) - 1 |-> IF j < i THEN s[j] ELSE s[j + 1]]
  BY DEF Delete
<1> HIDE DEF i
<1> DEFINE t == Delete(s, s[n])
<1>4. Len(t) = Len(s) - 1 /\ DOMAIN t = 1 .. Len(s) - 1
  BY <1>1, <1>3, DeleteType
<1>5. \A j \in 1 .. Len(s) - 1 : t[j] = IF j < i THEN s[j] ELSE s[j + 1]
  BY <1>3
<1> HIDE DEF t
<1>6. Members(t) \subseteq Members(s)
  BY <1>1, <1>4, <1>5 DEF Members
<1>7. ASSUME NEW v \in Members(s), v # s[n] PROVE v \in Members(t)
  <2>1. PICK k \in 1 .. Len(s) : s[k] = v
    BY <1>1 DEF Members
  <2>2. k # i
    BY <1>2, <1>7, <2>1
  <2>3. CASE k < i
    <3>1. k \in 1 .. Len(s) - 1 /\ t[k] = v
      BY <1>1, <1>2, <1>5, <2>1, <2>3
    <3> QED BY <1>4, <3>1 DEF Members
  <2>4. CASE k > i
    <3>1. k - 1 \in 1 .. Len(s) - 1 /\ t[k - 1] = v
      BY <1>1, <1>2, <1>5, <2>1, <2>4
    <3> QED BY <1>4, <3>1 DEF Members
  <2> QED BY <1>1, <1>2, <2>1, <2>2, <2>3, <2>4
<1>8. ASSUME NEW j \in n .. Len(s) - 1 PROVE \E k \in n + 1 .. Len(s) : t[j] = s[k]
  <2>1. j \in 1 .. Len(s) - 1 /\ j + 1 \in n + 1 .. Len(s)
    BY <1>1
  <2>2. CASE j < i
    <3>1. CASE j = n
      BY <1>1, <1>2, <1>5, <2>1, <2>2, <3>1
    <3>2. CASE j # n
      BY <1>1, <1>5, <2>1, <2>2, <3>2
    <3> QED BY <3>1, <3>2
  <2>3. CASE ~(j < i)
    BY <1>5, <2>1, <2>3
  <2> QED BY <2>2, <2>3
<1> QED BY <1>4, <1>6, <1>7, <1>8 DEF t

----------------------------------------------------------------------------
(* The steps of a search: what each does to Search. Most leave the members of the *)
(* table and the branches alone; the ones that consume an attempt pay for it in   *)
(* errors, which is what BranchPaid, SinglePaid, MutePaid and UnmutePaid count.    *)

LEMMA DrainSearch == ASSUME IInv, Search, Drain PROVE Search'
<1>1. SeenInv' /\ Fresh' /\ MuteAnswers'
  BY DEF Search, Silent, At, IsMute, Received, machine, world, SeenInv, Fresh, MuteAnswers,
     Drain
<1>2. MutedSeen' /\ UnmutePaid' /\ MutePaid'
  BY DEF machine, world, MutedSeen, UnmutePaid, MutePaid, Drain
<1>3. BranchPaid' /\ SinglePaid'
  BY DEF machine, BranchPaid, SinglePaid, Drain
<1>4. TodSeen' /\ Covered'
  BY DEF Search, NoneJoined, At, Branching, Done, FewErrors, Waiting, Asked, InHand,
     Frontier, Above, Received, machine, world, NewState, TodSeen, Covered, Drain
<1> QED BY <1>1, <1>2, <1>3, <1>4 DEF Search

LEMMA DubNoneSearch == ASSUME IInv, Search, DubNone PROVE Search'
<1>1. SeenInv' /\ Fresh' /\ MuteAnswers'
  BY DEF Search, Silent, At, IsMute, NewState, search, line, world, SeenInv, Fresh,
     MuteAnswers, DubNone
<1>2. MutedSeen' /\ UnmutePaid' /\ MutePaid'
  BY DEF NewState, MutedSeen, UnmutePaid, MutePaid, DubNone
<1>3. BranchPaid' /\ SinglePaid'
  BY DEF IInv, Phase, NewState, search, BranchPaid, SinglePaid, DubNone
<1>4. TodSeen' /\ Covered'
  BY DEF Search, NoneJoined, At, Branching, Done, FewErrors, Waiting, Asked, InHand,
     Frontier, Above, NewState, search, line, world, TodSeen, Covered, DubNone
<1> QED BY <1>1, <1>2, <1>3, <1>4 DEF Search

LEMMA UnmuteDrainSearch == ASSUME IInv, Search, UnmuteDrain PROVE Search'
<1>1. SeenInv' /\ Fresh' /\ MuteAnswers'
  BY DEF Search, Silent, At, IsMute, Received, machine, world, SeenInv, Fresh, MuteAnswers,
     UnmuteDrain
<1>2. MutedSeen' /\ UnmutePaid' /\ MutePaid'
  BY DEF Search, Paid, PaidAll, FewErrors, Received, machine, world, MutedSeen, UnmutePaid,
     MutePaid, UnmuteDrain
<1>3. BranchPaid' /\ SinglePaid'
  BY DEF machine, BranchPaid, SinglePaid, UnmuteDrain
<1>4. TodSeen' /\ Covered'
  BY DEF At, Branching, Done, FewErrors, Waiting, machine, TodSeen, Covered, UnmuteDrain
<1> QED BY <1>1, <1>2, <1>3, <1>4 DEF Search

LEMMA UnmuteTimeOutSearch == ASSUME IInv, Search, UnmuteTimeOut PROVE Search'
<1>1. SeenInv' /\ Fresh' /\ MuteAnswers'
  BY DEF Search, Silent, At, IsMute, Withdraw, NoAnswer, Late, search, world, SeenInv,
     Fresh, MuteAnswers, UnmuteTimeOut
<1>2. MutedSeen' /\ UnmutePaid' /\ MutePaid'
  BY CounterAssumption, Kinds DEF IInv, Phase, Counters, TypeOK, States, Commands, Search,
     NoneJoined, Silent, Paid, PaidAll, FewErrors, Withdraw, NoAnswer, Late, search, world,
     MutedSeen, UnmutePaid, MutePaid, UnmuteTimeOut
<1>3. BranchPaid' /\ SinglePaid'
  BY DEF Withdraw, BranchPaid, SinglePaid, UnmuteTimeOut
<1>4. TodSeen' /\ Covered'
  BY DEF At, Branching, Done, FewErrors, Above, Withdraw, TodSeen, Covered, UnmuteTimeOut
<1> QED BY <1>1, <1>2, <1>3, <1>4 DEF Search

LEMMA MuteAnsweredSearch == ASSUME IInv, Search, MuteAnswered PROVE Search'
<1>1. SeenInv' /\ Fresh' /\ MuteAnswers'
  BY DEF Search, Silent, At, IsMute, Received, world, SeenInv, Fresh, MuteAnswers,
     MuteAnswered
<1>2. MutedSeen' /\ UnmutePaid' /\ MutePaid'
  BY DEF IInv, Phase, Counters, TypeOK, States, Commands, Search, NoneJoined, Silent, Paid,
     PaidAll, FewErrors, Received, world, MutedSeen, UnmutePaid, MutePaid, MuteAnswered
<1>3. BranchPaid' /\ SinglePaid'
  BY DEF BranchPaid, SinglePaid, MuteAnswered
<1>4. TodSeen' /\ Covered'
  BY DEF At, Branching, Done, FewErrors, TodSeen, Covered, MuteAnswered
<1> QED BY <1>1, <1>2, <1>3, <1>4 DEF Search

LEMMA DiscoveryEmptySearch == ASSUME IInv, Search, DiscoveryEmpty PROVE Search'
<1>1. SeenInv' /\ Fresh' /\ MuteAnswers'
  BY DEF Search, Silent, At, IsMute, NewState, search, line, world, SeenInv, Fresh,
     MuteAnswers, DiscoveryEmpty
<1>2. MutedSeen' /\ UnmutePaid' /\ MutePaid'
  BY DEF NewState, MutedSeen, UnmutePaid, MutePaid, DiscoveryEmpty
<1>3. BranchPaid' /\ SinglePaid'
  BY DEF NewState, BranchPaid, SinglePaid, DiscoveryEmpty
<1>4. TodSeen' /\ Covered'
  BY DEF Search, NoneJoined, At, Branching, Done, FewErrors, Waiting, Asked, InHand,
     Frontier, Above, NewState, search, line, world, TodSeen, Covered, DiscoveryEmpty
<1> QED BY <1>1, <1>2, <1>3, <1>4 DEF Search

LEMMA QuickfindTimeOutSearch == ASSUME IInv, Search, QuickfindTimeOut PROVE Search'
<1>1. SeenInv' /\ Fresh' /\ MuteAnswers'
  BY DEF Search, Silent, At, IsMute, Withdraw, search, world, SeenInv, Fresh, MuteAnswers,
     QuickfindTimeOut
<1>2. MutedSeen' /\ UnmutePaid' /\ MutePaid'
  BY DEF Withdraw, MutedSeen, UnmutePaid, MutePaid, QuickfindTimeOut
<1>3. BranchPaid' /\ SinglePaid'
  BY DEF Withdraw, BranchPaid, SinglePaid, QuickfindTimeOut
<1>4. TodSeen' /\ Covered'
  BY CounterAssumption, Kinds DEF IInv, Phase, Counters, TypeOK, Search, NoneJoined, At,
     Branching, Done, FewErrors, Waiting, Asked, InHand, Frontier, Above, Withdraw,
     NoAnswer, Late, search, world, TodSeen, Covered, QuickfindTimeOut
<1> QED BY <1>1, <1>2, <1>3, <1>4 DEF Search

LEMMA QuickfindIgnoresSearch == ASSUME IInv, Search, QuickfindIgnores PROVE Search'
<1>1. SeenInv' /\ Fresh' /\ MuteAnswers'
  BY DEF Search, Silent, At, IsMute, Received, search, world, SeenInv, Fresh, MuteAnswers,
     QuickfindIgnores
<1>2. MutedSeen' /\ UnmutePaid' /\ MutePaid'
  BY DEF MutedSeen, UnmutePaid, MutePaid, QuickfindIgnores
<1>3. BranchPaid' /\ SinglePaid'
  BY DEF BranchPaid, SinglePaid, QuickfindIgnores
<1>4. TodSeen' /\ Covered'
  BY DEF Search, NoneJoined, At, Branching, Done, FewErrors, Waiting, Asked, InHand,
     Frontier, Above, Received, search, world, TodSeen, Covered, QuickfindIgnores
<1> QED BY <1>1, <1>2, <1>3, <1>4 DEF Search

LEMMA QuickfindDiscoveryTimeOutSearch == ASSUME IInv, Search, QuickfindDiscoveryTimeOut PROVE Search'
<1>1. SeenInv' /\ Fresh' /\ MuteAnswers'
  BY DEF Search, Silent, At, IsMute, Withdraw, search, world, SeenInv, Fresh, MuteAnswers,
     QuickfindDiscoveryTimeOut
<1>2. MutedSeen' /\ UnmutePaid' /\ MutePaid'
  BY DEF Withdraw, MutedSeen, UnmutePaid, MutePaid, QuickfindDiscoveryTimeOut
<1>3. BranchPaid' /\ SinglePaid'
  BY CounterAssumption, Kinds DEF IInv, Phase, Counters, TypeOK, States, Commands, Search,
     Hears, Paid, PaidAll, Silent, Withdraw, NoAnswer, Late, search, world, BranchPaid,
     SinglePaid, QuickfindDiscoveryTimeOut
<1>4. TodSeen' /\ Covered'
  BY CounterAssumption, Kinds DEF IInv, Phase, Counters, TypeOK, Search, NoneJoined, At,
     Branching, Done, FewErrors, Waiting, Asked, InHand, Frontier, Above, Withdraw,
     NoAnswer, Late, search, world, TodSeen, Covered, QuickfindDiscoveryTimeOut
<1> QED BY <1>1, <1>2, <1>3, <1>4 DEF Search

LEMMA QuickfindDiscoveryAnsweredSearch == ASSUME IInv, Search, QuickfindDiscoveryAnswered PROVE Search'
<1>1. SeenInv' /\ Fresh' /\ MuteAnswers'
  BY DEF IInv, Phase, Counters, TypeOK, States, Commands, Search, Silent, At, IsMute, End,
     Received, NewState, world, SeenInv, Fresh, MuteAnswers, QuickfindDiscoveryAnswered
<1>2. MutedSeen' /\ UnmutePaid' /\ MutePaid'
  BY DEF NewState, MutedSeen, UnmutePaid, MutePaid, QuickfindDiscoveryAnswered
<1>3. BranchPaid' /\ SinglePaid'
  BY DEF NewState, world, BranchPaid, SinglePaid, QuickfindDiscoveryAnswered
<1>4. TodSeen' /\ Covered'
  BY DEF Search, NoneJoined, At, Branching, Done, FewErrors, Waiting, Asked, InHand,
     Frontier, Above, End, Received, NewState, world, TodSeen, Covered,
     QuickfindDiscoveryAnswered
<1> QED BY <1>1, <1>2, <1>3, <1>4 DEF Search

LEMMA EndLateResponseSearch == ASSUME IInv, Search, EndLateResponse PROVE Search'
<1> USE DEF IInv, Phase
<1>1. /\ state = "LateResponse" /\ state' = saved /\ At' = At /\ ~finished /\ buffer' = None
      /\ saved \in {"Idle", "Discovery", "Single", "Quickfind", "Finished"}
      /\ UNCHANGED <<counter, running, stack, range, response, quick, tod, incremental, joined,
                     finished, muted, flight, errors, stable, present, seen>>
  BY DEF EndLateResponse, search, world, At, Search, SeenInv
<1>2. TodSeen'
  BY <1>1 DEF Search, TodSeen, NoneJoined, Done
<1>3. SinglePaid'
  BY <1>1, CounterAssumption DEF At, Search, Fresh, SinglePaid, Paid, PaidAll, TypeOK, Commands
<1>4. MuteAnswers'
  BY <1>1, Kinds DEF At, Search, MuteAnswers, Fresh
<1>5. Covered'
  <2>1. \A d : (Waiting(d)' <=> Waiting(d)) /\ (Asked(d) => Asked(d)')
    BY <1>1 DEF Waiting, Frontier, Above, Asked, InHand, At
  <2> QED BY <1>1, <2>1 DEF Search, Covered, FewErrors, NoneJoined, Done
<1>6. SeenInv' /\ Fresh'
  BY DEF Search, Silent, At, IsMute, search, world, SeenInv, Fresh, EndLateResponse
<1>7. MutedSeen' /\ UnmutePaid' /\ MutePaid'
  BY DEF MutedSeen, UnmutePaid, MutePaid, EndLateResponse
<1>8. BranchPaid'
  BY DEF BranchPaid, EndLateResponse
<1> QED BY <1>2, <1>3, <1>4, <1>5, <1>6, <1>7, <1>8 DEF Search

LEMMA DubValidSearch == ASSUME IInv, Search, DubValid PROVE Search'
<1>1. MuteAnswers'
  <2>1. /\ state = "Dub" /\ flight' = flight
        /\ state' = "LateResponse" /\ saved' = "Quickfind"
    BY DEF DubValid, NewState, line
  <2>2. ~IsMute(flight)
    BY <2>1 DEF Search, MuteAnswers
  <2> QED BY <2>1, <2>2 DEF MuteAnswers, At, IsMute
<1>2. SeenInv' /\ Fresh'
  BY DEF Search, Silent, At, IsMute, NewState, line, world, SeenInv, Fresh, DubValid
<1>3. MutedSeen' /\ UnmutePaid' /\ MutePaid'
  BY DEF NewState, MutedSeen, UnmutePaid, MutePaid, DubValid
<1>4. BranchPaid' /\ SinglePaid'
  BY DEF NewState, BranchPaid, SinglePaid, DubValid
<1>5. TodSeen' /\ Covered'
  BY DEF Search, NoneJoined, At, Branching, Done, FewErrors, Waiting, Asked, InHand,
     Frontier, Above, NewState, line, world, TodSeen, Covered, DubValid
<1> QED BY <1>1, <1>2, <1>3, <1>4, <1>5 DEF Search

LEMMA DubSplitSearch == ASSUME IInv, Search, DubSplit PROVE Search'
<1>1. /\ state = "Dub" /\ response # None /\ At' = "Discovery" /\ At = "Dub"
      /\ UNCHANGED <<range, tod, incremental, joined, muted, errors, stable>>
  BY DEF DubSplit, SplitInto, NewState, line, world, At
<1>2. Proper(range) /\ range.lower = Frontier
  BY <1>1 DEF IInv, Halved, Searching, Contiguous, InHand, Frontier
<1>3. Frontier' = range.upper + 1
  <2> DEFINE low == UidRange(range.lower, Middle)
             high == UidRange(Middle + 1, range.upper)
  <2>1. low \in Ranges /\ high \in Ranges /\ high.upper = range.upper /\ stack \in Seq(Ranges)
    BY <1>2, SplitType DEF IInv, TypeOK, UidRange
  <2>2. stack' = stack \o <<low, high>>
    BY DEF DubSplit, SplitInto
  <2> HIDE DEF low, high
  <2>3. Len(stack') = Len(stack) + 2 /\ stack'[Len(stack) + 2] = high /\ Len(stack) \in Nat
    BY <2>1, <2>2, ConcatProperties, LenProperties
  <2> QED BY <2>1, <2>3 DEF Frontier, Above
<1>4. Covered'
  <2> SUFFICES ASSUME FewErrors, NoneJoined, Len(tod) < TableSize, NEW d \in stable,
                      d \notin Members(tod)
               PROVE  Waiting(d)'
    BY <1>1 DEF Covered, FewErrors, NoneJoined
  <2>1. Waiting(d) \/ Asked(d)
    BY <1>1 DEF Search, Covered, Branching
  <2>2. d \in Nat /\ range.upper \in Nat /\ range.lower \in Nat
    BY UidsFacts, DeviceAssumption DEF IInv, TypeOK, Ranges
  <2> QED BY <1>1, <1>2, <1>3, <2>1, <2>2 DEF Waiting, Asked, Branching, Proper
<1>5. SeenInv' /\ Fresh' /\ MuteAnswers'
  BY DEF Search, Silent, At, IsMute, SplitInto, NewState, line, world, SeenInv, Fresh,
     MuteAnswers, DubSplit
<1>6. MutedSeen' /\ UnmutePaid' /\ MutePaid'
  BY DEF SplitInto, NewState, MutedSeen, UnmutePaid, MutePaid, DubSplit
<1>7. BranchPaid' /\ SinglePaid'
  BY DEF SplitInto, NewState, BranchPaid, SinglePaid, DubSplit
<1>8. TodSeen'
  BY DEF Search, NoneJoined, At, Branching, Done, SplitInto, NewState, line, world, TodSeen,
     DubSplit
<1> QED BY <1>4, <1>5, <1>6, <1>7, <1>8 DEF Search

LEMMA FinishSearch == ASSUME IInv, Search, Finish PROVE Search'
<1>1. Covered'
  <2>1. At = "Finished" /\ stack = <<>> /\ state = "Finished"
        /\ UNCHANGED <<tod, incremental, joined, errors, stable>>
    BY DEF Finish, line, world, At, Search, Fresh
  <2>2. Frontier = 0 /\ ~InHand
    BY <2>1 DEF Frontier, Above, InHand
  <2>3. \A d \in stable : ~Waiting(d) /\ ~Asked(d)
    BY <2>2, UidsFacts, DeviceAssumption DEF Waiting, Asked, IInv, TypeOK
  <2> QED BY <2>1, <2>3 DEF Search, Covered, FewErrors, NoneJoined, Branching
<1>2. SeenInv' /\ Fresh' /\ MuteAnswers'
  BY DEF At, IsMute, NewState, line, SeenInv, Fresh, MuteAnswers, Finish
<1>3. MutedSeen' /\ UnmutePaid' /\ MutePaid'
  BY DEF NewState, MutedSeen, UnmutePaid, MutePaid, Finish
<1>4. BranchPaid' /\ SinglePaid'
  BY DEF NewState, BranchPaid, SinglePaid, Finish
<1>5. TodSeen'
  BY DEF Search, NoneJoined, At, Branching, Done, NewState, line, world, TodSeen, Finish
<1> QED BY <1>1, <1>2, <1>3, <1>4, <1>5 DEF Search

LEMMA UnmuteDoneSearch == ASSUME IInv, Search, UnmuteDone PROVE Search'
<1>1. /\ state = "Unmute" /\ counter["Unmute"] = 0 /\ Silent
      /\ state' = (IF incremental THEN "Mute" ELSE "Discovery") /\ At' = state'
      /\ counter' = [counter EXCEPT !["Unmute"] = UnmuteCounter]
      /\ running' = [running EXCEPT !["Unmute"] = FALSE]
      /\ UNCHANGED <<incremental, stack, tod, entries, muted, flight, buffer, errors, present,
                     stable, seen, joined>>
  BY CounterAssumption DEF UnmuteDone, End, NewState, search, line, world, At, Search, SeenInv
<1>2. /\ counter'["Mute"] = MuteCounter /\ ~running'["Mute"]
      /\ IF incremental THEN entries = Len(tod) ELSE tod = <<>>
  BY <1>1 DEF Search, Fresh, IInv, TypeOK, Commands
<1>3. FewErrors => \A d \in stable : d \notin muted
  BY <1>1, Budget DEF Search, UnmutePaid, Paid, IInv
<1>4. MutedSeen'
  BY <1>1, <1>2, LenProperties, CounterAssumption DEF MutedSeen, Silent, IInv, TypeOK
<1>5. TodSeen'
  BY <1>1, <1>2 DEF TodSeen, Branching, Done, Members
<1>6. MutePaid'
  BY <1>1, <1>2, <1>3, CounterAssumption DEF MutePaid, FewErrors, Paid, IInv, TypeOK
<1>7. Covered'
  <2>1. Frontier' = LastUid + 1
    <3>1. Len(stack) = 1 /\ stack[1].upper = LastUid /\ stack' = stack
      BY <1>1 DEF Search, Fresh
    <3>2. Frontier = LastUid + 1
      BY <3>1 DEF Frontier, Above
    <3> QED BY <3>1, <3>2 DEF Frontier, Above
  <2>2. \A d \in stable : d \in Nat /\ d < LastUid + 1
    BY UidsFacts, DeviceAssumption DEF Uids, IInv, TypeOK
  <2> QED BY <1>1, <1>3, <2>1, <2>2 DEF Covered, FewErrors, Waiting, Branching, Done
<1>8. SeenInv' /\ Fresh' /\ MuteAnswers'
  BY CounterAssumption, Kinds DEF Search, Silent, At, IsMute, End, NewState, search, line,
     world, SeenInv, Fresh, MuteAnswers, UnmuteDone
<1>9. UnmutePaid'
  BY DEF NewState, search, UnmutePaid, UnmuteDone
<1>10. BranchPaid' /\ SinglePaid'
  BY DEF IInv, Phase, End, NewState, BranchPaid, SinglePaid, UnmuteDone
<1> QED BY <1>4, <1>5, <1>6, <1>7, <1>8, <1>9, <1>10 DEF Search

LEMMA UnmuteSendSearch == ASSUME IInv, Search, UnmuteSend PROVE Search'
<1>1. /\ state = "Unmute" /\ running' = [running EXCEPT !["Unmute"] = TRUE] /\ At = state
      /\ UNCHANGED <<state, saved, counter, buffer, present, stable, seen, finished>>
  BY DEF UnmuteSend, Send, search, world, At
<1>2. /\ flight' = None /\ muted' \subseteq muted /\ errors \in Nat /\ errors' \in Nat
      /\ errors <= errors' /\ (muted' # {} => errors < errors')
  <2>1. UnmuteAll \in Sent /\ Transmit(UnmuteAll, 0)
    BY DEF UnmuteSend, Send, Sent
  <2>2. /\ errors \in Nat /\ errors' \in Nat /\ errors + 0 <= errors'
        /\ flight' = None /\ muted' \subseteq muted
        /\ muted' # {} => errors + 0 < errors'
    BY <2>1, TransmitFacts DEF IInv
  <2> QED BY <2>2
<1>3. SeenInv'
  BY <1>1, <1>2, Kinds DEF Search, SeenInv, Silent, At, IInv, TypeOK, Commands
<1>4. UnmutePaid'
  <2>1. stable' \cap muted' # {} => stable \cap muted # {} /\ errors < errors'
    BY <1>1, <1>2
  <2>2. counter'["Unmute"] = counter["Unmute"] /\ counter["Unmute"] \in Nat
    BY <1>1, Budget DEF IInv, Commands
  <2>3. stable \cap muted # {} => UnmuteCounter <= errors + counter["Unmute"]
    BY <1>1 DEF Search, UnmutePaid, Paid
  <2> QED BY <1>1, <1>2, <2>1, <2>2, <2>3, Budget DEF UnmutePaid, Paid, PaidAll, IInv
<1>5. Fresh' /\ MuteAnswers'
  BY DEF Search, At, IsMute, Send, search, Fresh, MuteAnswers, UnmuteSend
<1>6. MutedSeen' /\ MutePaid'
  BY DEF Send, MutedSeen, MutePaid, UnmuteSend
<1>7. BranchPaid' /\ SinglePaid'
  BY DEF Send, BranchPaid, SinglePaid, UnmuteSend
<1>8. TodSeen' /\ Covered'
  BY DEF At, Branching, Done, FewErrors, Above, Send, TodSeen, Covered, UnmuteSend
<1> QED BY <1>3, <1>4, <1>5, <1>6, <1>7, <1>8 DEF Search

LEMMA MuteAllDoneSearch == ASSUME IInv, Search, MuteAllDone PROVE Search'
<1>1. /\ state = "Mute" /\ entries = 0 /\ At' = "Discovery" /\ state' = "Discovery"
      /\ UNCHANGED <<incremental, stack, tod, muted, errors, stable, seen, joined>>
  BY DEF MuteAllDone, NewState, search, line, world, At
<1>2. TodSeen'
  <2>1. DOMAIN tod = 1 .. Len(tod)
    BY LenProperties DEF IInv, TypeOK
  <2> QED BY <1>1, <2>1 DEF TodSeen, NoneJoined, Search, MutedSeen, Members
<1>3. Covered'
  <2>1. Frontier' = LastUid + 1
    <3>1. Len(stack) = 1 /\ stack[1].upper = LastUid /\ stack' = stack
      BY <1>1 DEF Search, Fresh
    <3>2. Frontier = LastUid + 1
      BY <3>1 DEF Frontier, Above
    <3> QED BY <3>1, <3>2 DEF Frontier, Above
  <2>2. \A d \in stable : d \in Nat /\ d < LastUid + 1
    BY UidsFacts, DeviceAssumption DEF Uids, IInv, TypeOK
  <2> QED BY <1>1, <2>1, <2>2 DEF Covered, FewErrors, NoneJoined, Waiting, Branching, Done,
                                  Search, MutePaid
<1>4. SeenInv' /\ Fresh' /\ MuteAnswers'
  BY DEF IInv, Phase, Search, Silent, At, IsMute, NewState, search, line, world, SeenInv,
     Fresh, MuteAnswers, MuteAllDone
<1>5. MutedSeen' /\ UnmutePaid' /\ MutePaid'
  BY DEF NewState, MutedSeen, UnmutePaid, MutePaid, MuteAllDone
<1>6. BranchPaid' /\ SinglePaid'
  BY DEF IInv, Phase, NewState, search, BranchPaid, SinglePaid, MuteAllDone
<1> QED BY <1>2, <1>3, <1>4, <1>5, <1>6 DEF Search

\* The entry that MUTE is at.
LEMMA Entry ==
  ASSUME IInv, state = "Mute", entries > 0
  PROVE  /\ entries \in 1 .. Len(tod) /\ Len(tod) \in Nat /\ tod[entries] \in Uids
         /\ tod[entries] \in Members(tod) /\ Mute(tod[entries]) \in Sent
<1>1. Len(tod) \in Nat /\ entries \in 1 .. Len(tod) /\ DOMAIN tod = 1 .. Len(tod)
  BY LenProperties DEF IInv, TypeOK, Phase
<1> QED BY <1>1, MuteSent DEF IInv, Members

LEMMA MuteGoneSearch == ASSUME IInv, Search, MuteGone PROVE Search'
<1>1. /\ state = "Mute" /\ entries > 0 /\ counter["Mute"] = 0
      /\ counter' = [counter EXCEPT !["Mute"] = MuteCounter]
      /\ running' = [running EXCEPT !["Mute"] = FALSE]
      /\ tod' = Delete(tod, tod[entries]) /\ entries' = entries - 1
      /\ UNCHANGED <<state, incremental, muted, flight, buffer, errors, present, stable, seen,
                     joined, stack>>
  BY DEF MuteGone, End, line, world
<1>2. /\ entries \in 1 .. Len(tod) /\ Len(tod) \in Nat
      /\ \A v \in Members(tod) : v # tod[entries] => v \in Members(tod')
      /\ Len(tod') = Len(tod) - 1
      /\ \A j \in entries .. Len(tod) - 1 : \E i \in entries + 1 .. Len(tod) : tod'[j] = tod[i]
  BY <1>1, Entry, DeleteMembers DEF IInv, TypeOK
<1>3. counter'["Mute"] = MuteCounter /\ ~running'["Mute"]
  BY <1>1 DEF IInv, TypeOK, Commands
<1>4. MutedSeen'
  <2> SUFFICES ASSUME errors = 0, NoneJoined PROVE MutedSeen'
    BY <1>1 DEF MutedSeen, NoneJoined
  <2>1. Silent /\ \A i \in entries + 1 .. Len(tod) : tod[i] \in seen
    BY <1>1, CounterAssumption DEF Search, MutedSeen
  <2>2. \A j \in entries' + 1 .. Len(tod') : tod'[j] \in seen'
    BY <1>1, <1>2, <2>1
  <2> QED BY <1>1, <1>3, <2>1, <2>2, CounterAssumption DEF MutedSeen, Silent
<1>5. MutePaid'
  <2>1. NoneJoined /\ FewErrors => tod[entries] \notin stable
    BY <1>1, Budget DEF Search, MutePaid, Paid, IInv, TypeOK
  <2> QED BY <1>1, <1>2, <1>3, <2>1, CounterAssumption
          DEF Search, MutePaid, Paid, FewErrors, NoneJoined, IInv, TypeOK
<1>6. SeenInv' /\ Fresh' /\ MuteAnswers'
  BY DEF Search, Silent, At, IsMute, End, line, world, SeenInv, Fresh, MuteAnswers, MuteGone
<1>7. UnmutePaid'
  BY DEF UnmutePaid, MuteGone
<1>8. BranchPaid' /\ SinglePaid'
  BY DEF BranchPaid, SinglePaid, MuteGone
<1>9. TodSeen' /\ Covered'
  BY DEF At, Branching, Done, FewErrors, TodSeen, Covered, MuteGone
<1> QED BY <1>4, <1>5, <1>6, <1>7, <1>8, <1>9 DEF Search

LEMMA MuteSendSearch == ASSUME IInv, Search, MuteSend PROVE Search'
<1>1. /\ state = "Mute" /\ entries > 0 /\ ~running["Mute"] /\ running'["Mute"] /\ At = state
      /\ UNCHANGED <<state, saved, counter, incremental, finished, tod, entries, buffer, present,
                     stable, seen, joined>>
  BY DEF MuteSend, Send, search, world, At, IInv, TypeOK, Commands
<1>2. /\ tod[entries] \in Uids /\ tod[entries] \in Members(tod)
      /\ Mute(tod[entries]) \in Sent /\ Transmit(Mute(tod[entries]), 0)
  BY <1>1, Entry DEF MuteSend, Send
<1>3. /\ errors \in Nat /\ errors' \in Nat /\ errors <= errors'
      /\ flight' = None \/ (flight' = MuteAnswer(tod[entries]) /\ tod[entries] \in present)
      /\ tod[entries] \in present /\ flight' = None => errors < errors'
      /\ muted' \subseteq muted \cup {tod[entries]}
  BY <1>2, TransmitFacts DEF IInv
<1>4. SeenInv'
  BY <1>1, <1>3, Kinds DEF Search, SeenInv, At
<1>5. MutedSeen'
  BY <1>1, <1>2, <1>3, Kinds DEF Search, SeenInv, MutedSeen, Silent, NoneJoined
<1>6. MutePaid'
  <2>1. NoneJoined' = NoneJoined /\ (FewErrors' => FewErrors)
    BY <1>1, <1>3, CounterAssumption DEF NoneJoined, FewErrors
  <2>2. counter["Mute"] \in Nat /\ counter'["Mute"] = counter["Mute"]
    BY <1>1, Budget DEF IInv, Commands
  <2>3. NoneJoined => /\ Paid(MuteCounter, "Mute")'
                      /\ tod[entries] \in present /\ Silent' => PaidAll(MuteCounter, "Mute")'
    BY <1>1, <1>3, <2>2, CounterAssumption DEF Search, MutePaid, Paid, PaidAll, Silent
  <2> QED BY <1>1, <1>2, <1>3, <2>1, <2>3 DEF Search, MutePaid
<1>7. Fresh' /\ MuteAnswers'
  BY DEF Search, At, IsMute, Send, search, Fresh, MuteAnswers, MuteSend
<1>8. UnmutePaid'
  BY DEF Send, UnmutePaid, MuteSend
<1>9. BranchPaid' /\ SinglePaid'
  BY DEF Send, BranchPaid, SinglePaid, MuteSend
<1>10. TodSeen' /\ Covered'
  BY DEF At, Branching, Done, FewErrors, Above, Send, TodSeen, Covered, MuteSend
<1> QED BY <1>4, <1>5, <1>6, <1>7, <1>8, <1>9, <1>10 DEF Search

LEMMA MuteTimeOutSearch == ASSUME IInv, Search, MuteTimeOut PROVE Search'
<1>1. /\ state = "Mute" /\ entries > 0 /\ running["Mute"] /\ buffer = None /\ At = state
      /\ counter["Mute"] \in Nat \ {0} /\ counter'["Mute"] = counter["Mute"] - 1
      /\ UNCHANGED <<state, saved, running, incremental, finished, tod, entries, buffer, present,
                     stable, seen, joined>>
  BY DEF MuteTimeOut, Again, NoAnswer, search, world, At, IInv, TypeOK, Commands
<1>2. /\ tod[entries] \in Uids /\ tod[entries] \in Members(tod)
      /\ Mute(tod[entries]) \in Sent /\ Transmit(Mute(tod[entries]), Late)
  BY <1>1, Entry DEF MuteTimeOut, Again
<1>3. /\ errors \in Nat /\ errors' \in Nat /\ errors + Late <= errors'
      /\ flight' = None \/ (flight' = MuteAnswer(tod[entries]) /\ tod[entries] \in present)
      /\ tod[entries] \in present /\ flight' = None => errors + Late < errors'
      /\ muted' \subseteq muted \cup {tod[entries]}
  BY <1>2, TransmitFacts, LateType DEF IInv
<1>4. Late = (IF Silent THEN 0 ELSE 1)
  BY <1>1 DEF Late, Silent
<1>5. SeenInv'
  BY <1>1, <1>3, Kinds DEF Search, SeenInv, At
<1>6. MutedSeen'
  BY <1>1, <1>2, <1>3, <1>4, Kinds DEF Search, MutedSeen, Silent, NoneJoined
<1>7. MutePaid'
  <2>1. NoneJoined' = NoneJoined /\ (FewErrors' => FewErrors)
    BY <1>1, <1>3, <1>4, CounterAssumption DEF NoneJoined, FewErrors
  <2>2. NoneJoined /\ tod[entries] \in present =>
          Paid(MuteCounter, "Mute")' /\ (Silent' => PaidAll(MuteCounter, "Mute")')
    BY <1>1, <1>3, <1>4, CounterAssumption DEF Search, MutePaid, Paid, PaidAll, Silent
  <2>3. tod[entries] \in present \/ Silent'
    BY <1>1, <1>3 DEF Silent
  <2> QED BY <1>1, <1>2, <1>3, <2>1, <2>2, <2>3 DEF Search, MutePaid
<1>8. Fresh' /\ MuteAnswers'
  BY DEF Search, At, IsMute, Again, NoAnswer, search, world, Fresh, MuteAnswers, MuteTimeOut
<1>9. UnmutePaid'
  BY DEF Again, UnmutePaid, MuteTimeOut
<1>10. BranchPaid' /\ SinglePaid'
  BY DEF Again, BranchPaid, SinglePaid, MuteTimeOut
<1>11. TodSeen' /\ Covered'
  BY DEF At, Branching, Done, FewErrors, Above, Again, TodSeen, Covered, MuteTimeOut
<1> QED BY <1>5, <1>6, <1>7, <1>8, <1>9, <1>10, <1>11 DEF Search

LEMMA DiscoveryAnsweredSearch == ASSUME IInv, Search, DiscoveryAnswered PROVE Search'
<1>1. Covered'
  <2>1. /\ state = "Discovery" /\ running["Discovery"] /\ state' = "Dub" /\ response' = buffer
        /\ buffer # None \/ counter["Discovery"] = 0
        /\ UNCHANGED <<incremental, finished, stack, range, tod, muted, errors, stable, joined>>
    BY DEF DiscoveryAnswered, NewState, world
  <2>2. FewErrors /\ buffer = None => ~\E d \in stable : Hears(d)
    BY <2>1, Budget DEF Search, BranchPaid, Paid, Silent, IInv
  <2>3. FewErrors => \A d \in stable : Asked(d) => Asked(d)'
    BY <2>1, <2>2 DEF Asked, InHand, Hears, At
  <2>4. \A d : Waiting(d) => Waiting(d)'
    BY <2>1 DEF Waiting, Frontier, Above, At, Branching
  <2> QED BY <2>1, <2>3, <2>4 DEF Search, Covered, FewErrors, NoneJoined, At, Branching
<1>2. SeenInv' /\ Fresh' /\ MuteAnswers'
  BY DEF Search, Silent, At, IsMute, NewState, world, SeenInv, Fresh, MuteAnswers,
     DiscoveryAnswered
<1>3. MutedSeen' /\ UnmutePaid' /\ MutePaid'
  BY DEF NewState, MutedSeen, UnmutePaid, MutePaid, DiscoveryAnswered
<1>4. BranchPaid' /\ SinglePaid'
  BY DEF NewState, BranchPaid, SinglePaid, DiscoveryAnswered
<1>5. TodSeen'
  BY DEF Search, NoneJoined, At, Branching, Done, NewState, world, TodSeen,
     DiscoveryAnswered
<1> QED BY <1>1, <1>2, <1>3, <1>4, <1>5 DEF Search

LEMMA DiscoveryTimeOutSearch == ASSUME IInv, Search, DiscoveryTimeOut PROVE Search'
<1>1. /\ state = "Discovery" /\ running["Discovery"] /\ buffer = None /\ At = state
      /\ counter["Discovery"] \in Nat \ {0} /\ counter'["Discovery"] = counter["Discovery"] - 1
      /\ UNCHANGED <<state, saved, running, incremental, finished, stack, range, response, quick,
                     tod, entries, buffer, present, stable, seen, joined>>
  BY DEF DiscoveryTimeOut, Again, NoAnswer, search, world, At, IInv, TypeOK, Commands
<1>2. range \in Ranges /\ Branch(range) \in Sent /\ Transmit(Branch(range), Late)
  BY DEF DiscoveryTimeOut, Again, Sent, IInv, TypeOK
<1>3. /\ errors \in Nat /\ errors' \in Nat /\ errors + Late <= errors'
      /\ muted' = muted /\ ~IsMute(flight')
      /\ \A d \in stable : Hears(d) /\ flight' = None => errors + Late < errors'
  BY <1>2, TransmitFacts, LateType DEF IInv, TypeOK, Hears
<1>4. Late = (IF Silent THEN 0 ELSE 1)
  BY <1>1 DEF Late, Silent
<1>5. At' = At /\ InHand' = InHand /\ Frontier' = Frontier
  BY <1>1 DEF At, InHand, Frontier, Above
<1>6. SeenInv'
  BY <1>1, <1>3, Kinds DEF Search, SeenInv, At
<1>7. TodSeen'
  BY <1>1, <1>3, <1>4, <1>5 DEF Search, TodSeen, NoneJoined, Done
<1>8. BranchPaid'
  BY <1>1, <1>3, <1>4, CounterAssumption DEF Search, BranchPaid, Hears, Silent, Paid, PaidAll
<1>9. Covered'
  BY <1>1, <1>3, <1>4, <1>5, CounterAssumption
     DEF Search, Covered, FewErrors, NoneJoined, Done, Waiting, Asked
<1>10. MuteAnswers'
  BY <1>1, <1>3, <1>5 DEF MuteAnswers
<1>11. Fresh'
  BY DEF Search, At, Again, Fresh, DiscoveryTimeOut
<1>12. MutedSeen' /\ UnmutePaid' /\ MutePaid'
  BY DEF Again, MutedSeen, UnmutePaid, MutePaid, DiscoveryTimeOut
<1>13. SinglePaid'
  BY DEF Again, SinglePaid, DiscoveryTimeOut
<1> QED BY <1>6, <1>7, <1>8, <1>9, <1>10, <1>11, <1>12, <1>13 DEF Search

\* The range that is popped: what waited is among it or goes on waiting.
LEMMA PopWaiting ==
  ASSUME IInv, Pop, NEW d \in stable, d < Frontier
  PROVE  d < Frontier' \/ (range'.lower <= d /\ d <= range'.upper)
<1>1. Len(stack) \in Nat \ {0} /\ range' = stack[Len(stack)] /\ range' \in Ranges
  BY PoppedRange DEF Pop, IInv
<1>2. Frontier = range'.upper + 1
  BY <1>1 DEF Frontier, Above
<1>3. Frontier' = range'.lower
  BY PopRanges DEF Frontier, Above
<1>4. d \in Nat /\ range'.lower \in Nat /\ range'.upper \in Nat
  BY <1>1, UidsFacts, DeviceAssumption DEF IInv, TypeOK, Ranges
<1> QED BY <1>2, <1>3, <1>4

LEMMA DiscoverySingleSearch == ASSUME IInv, Search, DiscoverySingle PROVE Search'
<1>1. Covered'
  <2>1. /\ Pop /\ state = "Discovery" /\ ~running["Discovery"]
        /\ state' = "LateResponse" /\ saved' = "Single"
        /\ UNCHANGED <<incremental, finished, tod, muted, errors, stable, joined>>
    BY DEF DiscoverySingle, Pop, NewState, line, world
  <2>2. ASSUME NEW d \in stable, Waiting(d) PROVE Waiting(d)' \/ Asked(d)'
    BY <2>1, <2>2, PopWaiting DEF Waiting, Asked, InHand, At, Branching
  <2>3. \A d : ~Asked(d)
    BY <2>1 DEF Asked, InHand
  <2> QED BY <2>1, <2>2, <2>3 DEF Search, Covered, FewErrors, NoneJoined, At, Branching
<1>2. SeenInv' /\ Fresh' /\ MuteAnswers'
  BY DEF Search, Silent, At, IsMute, Pop, NewState, line, world, SeenInv, Fresh,
     MuteAnswers, DiscoverySingle
<1>3. MutedSeen' /\ UnmutePaid' /\ MutePaid'
  BY DEF NewState, line, MutedSeen, UnmutePaid, MutePaid, DiscoverySingle
<1>4. BranchPaid' /\ SinglePaid'
  BY DEF Pop, NewState, BranchPaid, SinglePaid, DiscoverySingle
<1>5. TodSeen'
  BY DEF Search, NoneJoined, At, Branching, Done, Pop, NewState, line, world, TodSeen,
     DiscoverySingle
<1> QED BY <1>1, <1>2, <1>3, <1>4, <1>5 DEF Search

LEMMA DiscoverySendSearch == ASSUME IInv, Search, DiscoverySend PROVE Search'
<1>1. /\ Pop /\ state = "Discovery" /\ ~running["Discovery"] /\ running'["Discovery"]
      /\ counter'["Discovery"] = DiscoveryCounter /\ At = state
      /\ UNCHANGED <<state, saved, incremental, finished, response, quick,
                     tod, entries, buffer, present, stable, seen, joined>>
  BY DEF DiscoverySend, Pop, world, At, IInv, TypeOK, Commands
<1>2. range' \in Ranges /\ Branch(range') \in Sent /\ Transmit(Branch(range'), 0)
  BY PoppedRange DEF DiscoverySend, Sent, IInv
<1>3. /\ errors \in Nat /\ errors' \in Nat /\ errors <= errors'
      /\ muted' = muted /\ ~IsMute(flight')
      /\ \A d \in stable : Hears(d)' /\ flight' = None => errors < errors'
  BY <1>1, <1>2, TransmitFacts DEF IInv, TypeOK, Hears
<1>4. At' = At /\ InHand'
  BY <1>1 DEF At, InHand
<1>5. SeenInv'
  BY <1>1, <1>3, <1>4, Kinds DEF Search, SeenInv
<1>6. TodSeen'
  BY <1>1, <1>3, <1>4 DEF Search, TodSeen, NoneJoined, Done
<1>7. BranchPaid'
  BY <1>1, <1>3, CounterAssumption DEF BranchPaid, Silent, Paid, PaidAll
<1>8. Covered'
  <2>1. ASSUME NEW d \in stable, Waiting(d) PROVE Waiting(d)' \/ Asked(d)'
    BY <1>1, <1>3, <1>4, <2>1, PopWaiting DEF Waiting, Asked, Branching
  <2>2. \A d : ~Asked(d)
    BY <1>1 DEF Asked, InHand
  <2> QED BY <1>1, <1>3, <1>4, <2>1, <2>2, CounterAssumption
          DEF Search, Covered, FewErrors, NoneJoined, Done, Branching
<1>9. MuteAnswers'
  BY <1>1, <1>3, <1>4 DEF MuteAnswers
<1>10. Fresh'
  BY DEF Search, At, Pop, Fresh, DiscoverySend
<1>11. MutedSeen' /\ UnmutePaid' /\ MutePaid'
  BY DEF Pop, MutedSeen, UnmutePaid, MutePaid, DiscoverySend
<1>12. SinglePaid'
  BY DEF Pop, SinglePaid, DiscoverySend
<1> QED BY <1>5, <1>6, <1>7, <1>8, <1>9, <1>10, <1>11, <1>12 DEF Search

LEMMA SingleGivesUpSearch == ASSUME IInv, Search, SingleGivesUp PROVE Search'
<1>1. Covered'
  <2>1. /\ state = "Single" /\ counter["Single"] = 0 /\ At = "Single"
        /\ state' = "LateResponse" /\ saved' = "Discovery"
        /\ UNCHANGED <<incremental, finished, tod, stack, range, muted, errors, stable, joined>>
    BY DEF SingleGivesUp, NewState, search, line, world, At
  <2>2. FewErrors => range.lower \notin stable
    BY <2>1, Budget DEF Search, SinglePaid, Paid, IInv
  <2>3. FewErrors => \A d \in stable : ~Asked(d)
    <3>1. range.lower = range.upper /\ range.lower \in Nat
      BY <2>1, UidsFacts DEF Search, Fresh, IInv, TypeOK, Ranges
    <3>2. \A d \in stable : d \in Nat
      BY UidsFacts, DeviceAssumption DEF IInv, TypeOK
    <3> QED BY <2>2, <3>1, <3>2 DEF Asked
  <2>4. \A d : Waiting(d) => Waiting(d)'
    BY <2>1 DEF Waiting, Frontier, Above, At, Branching
  <2> QED BY <2>1, <2>3, <2>4 DEF Search, Covered, FewErrors, NoneJoined, At, Branching
<1>2. SeenInv' /\ Fresh' /\ MuteAnswers'
  BY DEF IInv, Phase, Counters, TypeOK, States, Commands, Search, Silent, At, IsMute, End,
     NewState, search, line, world, SeenInv, Fresh, MuteAnswers, SingleGivesUp
<1>3. MutedSeen' /\ UnmutePaid' /\ MutePaid'
  BY DEF NewState, search, MutedSeen, UnmutePaid, MutePaid, SingleGivesUp
<1>4. BranchPaid' /\ SinglePaid'
  BY DEF NewState, BranchPaid, SinglePaid, SingleGivesUp
<1>5. TodSeen'
  BY DEF Search, NoneJoined, At, Branching, Done, search, line, world, TodSeen,
     SingleGivesUp
<1> QED BY <1>1, <1>2, <1>3, <1>4, <1>5 DEF Search

\* The device asked for alone, and those that wait.
LEMMA SingleWaiting ==
  ASSUME IInv, Search, state = "Single"
  PROVE  /\ At = "Single" /\ range.lower \in Uids /\ Mute(range.lower) \in Sent
         /\ \A d \in stable : Waiting(d) => d # range.lower
         /\ \A d \in stable : Asked(d) <=> d = range.lower
<1>1. /\ At = "Single" /\ range.lower \in Uids /\ range.lower = range.upper
      /\ range.lower = Frontier /\ InHand
  BY DEF At, IInv, TypeOK, Ranges, Search, Fresh, Contiguous, InHand, Frontier
<1>2. range.lower \in Nat /\ \A d \in stable : d \in Nat
  BY UidsFacts, DeviceAssumption DEF IInv, TypeOK, Ranges
<1> QED BY <1>1, <1>2 DEF Sent, Waiting, Asked

LEMMA SingleSendSearch == ASSUME IInv, Search, SingleSend PROVE Search'
<1>1. /\ state = "Single" /\ ~running["Single"]
      /\ UNCHANGED <<state, saved, counter, incremental, finished, stack, range, response, quick,
                     tod, entries, buffer, present, stable, seen, joined>>
  BY DEF SingleSend, Send, search, world
<1>2. /\ At = "Single" /\ range.lower \in Uids /\ Transmit(Mute(range.lower), 0)
      /\ Mute(range.lower) \in Sent
  BY <1>1, SingleWaiting DEF SingleSend, Send
<1>3. /\ errors \in Nat /\ errors' \in Nat /\ errors <= errors'
      /\ flight' = None \/ (flight' = MuteAnswer(range.lower) /\ range.lower \in present)
      /\ range.lower \in present /\ flight' = None => errors < errors'
      /\ muted' \subseteq muted \cup {range.lower}
  BY <1>2, TransmitFacts DEF IInv
<1>4. At' = At /\ InHand' = InHand /\ Frontier' = Frontier
  BY <1>1 DEF At, InHand, Frontier, Above
<1>5. SeenInv'
  BY <1>1, <1>2, <1>3, <1>4, Kinds DEF Search, SeenInv
<1>6. TodSeen'
  BY <1>1, <1>3, <1>4 DEF Search, TodSeen, NoneJoined, Done
<1>7. SinglePaid'
  <2>1. /\ counter["Single"] \in Nat /\ MuteCounter \in Nat /\ QuickfindDiscoveryCounter \in Nat
        /\ stable \subseteq present
    BY CounterAssumption DEF IInv, TypeOK, Commands
  <2> QED BY <1>1, <1>3, <2>1 DEF Search, SinglePaid, Paid, PaidAll
<1>8. MuteAnswers'
  BY <1>1, <1>2, <1>3, <1>4, Kinds DEF MuteAnswers
<1>9. Covered'
  BY <1>1, <1>2, <1>3, <1>4, SingleWaiting, CounterAssumption
     DEF Search, Covered, FewErrors, NoneJoined, Done, Waiting, Asked
<1>10. Fresh'
  BY DEF Search, At, Send, search, world, Fresh, SingleSend
<1>11. MutedSeen' /\ UnmutePaid' /\ MutePaid'
  BY DEF Send, MutedSeen, UnmutePaid, MutePaid, SingleSend
<1>12. BranchPaid'
  BY DEF Send, BranchPaid, SingleSend
<1> QED BY <1>5, <1>6, <1>7, <1>8, <1>9, <1>10, <1>11, <1>12 DEF Search

LEMMA SingleTimeOutSearch == ASSUME IInv, Search, SingleTimeOut PROVE Search'
<1>1. /\ state = "Single" /\ running["Single"] /\ buffer = None
      /\ counter["Single"] \in Nat \ {0} /\ counter'["Single"] = counter["Single"] - 1
      /\ UNCHANGED <<state, saved, running, incremental, finished, stack, range, response, quick,
                     tod, entries, buffer, present, stable, seen, joined>>
  BY DEF SingleTimeOut, Again, NoAnswer, search, world, IInv, TypeOK, Commands
<1>2. /\ At = "Single" /\ range.lower \in Uids /\ Transmit(Mute(range.lower), Late)
      /\ Mute(range.lower) \in Sent
  BY <1>1, SingleWaiting DEF SingleTimeOut, Again
<1>3. /\ errors \in Nat /\ errors' \in Nat /\ errors + Late <= errors'
      /\ flight' = None \/ (flight' = MuteAnswer(range.lower) /\ range.lower \in present)
      /\ range.lower \in present /\ flight' = None => errors + Late < errors'
      /\ muted' \subseteq muted \cup {range.lower}
  BY <1>2, TransmitFacts, LateType DEF IInv
<1>4. Late = (IF flight = None THEN 0 ELSE 1) /\ MuteAnswer(range.lower) # None
  BY <1>2, Kinds DEF Late
<1>5. At' = At /\ InHand' = InHand /\ Frontier' = Frontier
  BY <1>1 DEF At, InHand, Frontier, Above
<1>6. SeenInv'
  BY <1>1, <1>2, <1>3, <1>5, Kinds DEF Search, SeenInv
<1>7. TodSeen'
  BY <1>1, <1>3, <1>4, <1>5 DEF Search, TodSeen, NoneJoined, Done
<1>8. SinglePaid'
  <2>1. /\ counter["Single"] \in Nat /\ MuteCounter \in Nat /\ QuickfindDiscoveryCounter \in Nat
        /\ stable \subseteq present
    BY CounterAssumption DEF IInv, TypeOK, Commands
  <2> QED BY <1>1, <1>3, <1>4, <2>1 DEF Search, SinglePaid, Paid, PaidAll
<1>9. MuteAnswers'
  BY <1>1, <1>2, <1>3, <1>5, Kinds DEF MuteAnswers
<1>10. Covered'
  BY <1>1, <1>2, <1>3, <1>4, <1>5, SingleWaiting, CounterAssumption
     DEF Search, Covered, FewErrors, NoneJoined, Done, Waiting, Asked
<1>11. Fresh'
  BY DEF Search, At, Again, NoAnswer, search, Fresh, SingleTimeOut
<1>12. MutedSeen' /\ UnmutePaid' /\ MutePaid'
  BY DEF Again, MutedSeen, UnmutePaid, MutePaid, SingleTimeOut
<1>13. BranchPaid'
  BY DEF Again, BranchPaid, SingleTimeOut
<1> QED BY <1>6, <1>7, <1>8, <1>9, <1>10, <1>11, <1>12, <1>13 DEF Search

LEMMA SingleAnsweredSearch == ASSUME IInv, Search, SingleAnswered PROVE Search'
<1>1. /\ state = "Single" /\ buffer = MuteAnswer(range.lower) /\ tod' = AddUid(tod, range.lower)
      /\ state' = "Discovery"
      /\ UNCHANGED <<incremental, finished, stack, range, muted, errors, stable, seen, joined>>
  BY DEF SingleAnswered, NewState, Received, world, MuteAnswer
<1>2. /\ At = "Single" /\ range.lower \in Uids
      /\ Members(tod) \subseteq Members(tod') /\ Members(tod') \subseteq Members(tod) \cup {range.lower}
      /\ Len(tod') < TableSize => Len(tod) < TableSize /\ range.lower \in Members(tod')
  BY <1>1, SingleWaiting, AddUidMembers DEF IInv, TypeOK
<1>3. TodSeen'
  <2>1. range.lower \in seen
    BY <1>1, <1>2, Kinds DEF Search, SeenInv, IsMute
  <2> QED BY <1>1, <1>2, <2>1 DEF Search, TodSeen, NoneJoined, Branching, Done
<1>4. Covered'
  <2>1. \A d : Waiting(d) => Waiting(d)'
    BY <1>1 DEF Waiting, Frontier, Above, At, Branching
  <2> QED BY <1>1, <1>2, <2>1, SingleWaiting DEF Search, Covered, FewErrors, NoneJoined, Branching
<1>5. SeenInv' /\ Fresh' /\ MuteAnswers'
  BY DEF IInv, Phase, Counters, TypeOK, States, Commands, Search, Silent, At, IsMute, End,
     Received, NewState, world, SeenInv, Fresh, MuteAnswers, SingleAnswered
<1>6. MutedSeen' /\ UnmutePaid' /\ MutePaid'
  BY DEF NewState, MutedSeen, UnmutePaid, MutePaid, SingleAnswered
<1>7. BranchPaid' /\ SinglePaid'
  BY DEF IInv, Phase, End, Received, NewState, world, BranchPaid, SinglePaid, SingleAnswered
<1> QED BY <1>3, <1>4, <1>5, <1>6, <1>7 DEF Search

LEMMA SingleIgnoresSearch == ASSUME IInv, Search, SingleIgnores PROVE Search'
<1>1. SinglePaid'
  BY Kinds DEF SingleIgnores, Received, search, world, MuteAnswer, Search, SinglePaid, Paid, PaidAll
<1>2. SeenInv' /\ Fresh' /\ MuteAnswers'
  BY DEF Search, Silent, At, IsMute, Received, search, world, SeenInv, Fresh, MuteAnswers,
     SingleIgnores
<1>3. MutedSeen' /\ UnmutePaid' /\ MutePaid'
  BY DEF MutedSeen, UnmutePaid, MutePaid, SingleIgnores
<1>4. BranchPaid'
  BY DEF BranchPaid, SingleIgnores
<1>5. TodSeen' /\ Covered'
  BY DEF Search, NoneJoined, At, Branching, Done, FewErrors, Waiting, Asked, InHand,
     Frontier, Above, Received, search, world, TodSeen, Covered, SingleIgnores
<1> QED BY <1>1, <1>2, <1>3, <1>4, <1>5 DEF Search

LEMMA QuickfindSendSearch == ASSUME IInv, Search, QuickfindSend PROVE Search'
<1>1. /\ state = "Quickfind" /\ At = state
      /\ UNCHANGED <<state, saved, incremental, finished, stack, range, response, quick,
                     tod, entries, buffer, present, stable, seen, joined>>
      /\ running'["Discovery"] = running["Discovery"]
  BY DEF QuickfindSend, search, world, At, IInv, TypeOK, Commands
<1>2. quick \in Uids /\ Mute(quick) \in Sent /\ Transmit(Mute(quick), 0)
  BY DEF QuickfindSend, Sent, IInv, TypeOK
<1>3. /\ errors \in Nat /\ errors' \in Nat /\ errors <= errors'
      /\ flight' = None \/ (flight' = MuteAnswer(quick) /\ quick \in present)
      /\ muted' \subseteq muted \cup {quick}
  BY <1>2, TransmitFacts DEF IInv
<1>4. At' = At /\ InHand' = InHand /\ Frontier' = Frontier
  BY <1>1 DEF At, InHand, Frontier, Above
<1>5. SeenInv'
  BY <1>1, <1>2, <1>3, <1>4, Kinds DEF Search, SeenInv
<1>6. TodSeen'
  BY <1>1, <1>3, <1>4 DEF Search, TodSeen, NoneJoined, Done
<1>7. MuteAnswers'
  BY <1>1, <1>2, <1>3, <1>4, Kinds DEF Search, MuteAnswers
<1>8. Covered'
  BY <1>1, <1>2, <1>3, <1>4, CounterAssumption
     DEF Search, Covered, FewErrors, NoneJoined, Done, Waiting, Asked
<1>9. Fresh'
  BY DEF Search, At, Fresh, QuickfindSend
<1>10. MutedSeen' /\ UnmutePaid' /\ MutePaid'
  BY DEF MutedSeen, UnmutePaid, MutePaid, QuickfindSend
<1>11. BranchPaid' /\ SinglePaid'
  BY DEF BranchPaid, SinglePaid, QuickfindSend
<1> QED BY <1>5, <1>6, <1>7, <1>8, <1>9, <1>10, <1>11 DEF Search

LEMMA QuickfindAnsweredSearch == ASSUME IInv, Search, QuickfindAnswered PROVE Search'
<1>1. /\ state = "Quickfind" /\ At = state /\ IsMute(buffer) /\ state' = "QuickfindDiscovery"
      /\ tod' = IF buffer.uid = quick THEN AddUid(tod, quick) ELSE tod
      /\ counter' = [counter EXCEPT !["Quickfind"] = QuickfindCounter]
      /\ running' = [running EXCEPT !["Quickfind"] = FALSE]
      /\ UNCHANGED <<incremental, finished, stack, range, muted, errors, stable, seen, joined>>
  BY DEF QuickfindAnswered, End, NewState, Received, world, At, IsMute
<1>2. buffer.uid = quick /\ quick \in Uids /\ quick \in seen
  BY <1>1 DEF Search, MuteAnswers, SeenInv, IInv, TypeOK
<1>3. /\ Members(tod) \subseteq Members(tod') /\ Members(tod') \subseteq Members(tod) \cup {quick}
      /\ Len(tod') < TableSize => Len(tod) < TableSize /\ quick \in Members(tod')
  BY <1>1, <1>2, AddUidMembers DEF IInv, TypeOK
<1>4. counter'["QuickfindDiscovery"] = QuickfindDiscoveryCounter /\ ~running'["QuickfindDiscovery"]
  BY <1>1 DEF Search, Fresh, IInv, TypeOK, Commands
<1>5. TodSeen'
  BY <1>1, <1>2, <1>3 DEF Search, TodSeen, NoneJoined, Branching, Done
<1>6. BranchPaid'
  BY <1>1, <1>4, CounterAssumption DEF BranchPaid, Paid, IInv, TypeOK
<1>7. MuteAnswers'
  BY <1>1, <1>4 DEF MuteAnswers, At
<1>8. Covered'
  <2>1. \A d : (Waiting(d) => Waiting(d)') /\ (Asked(d) => Asked(d)')
    BY <1>1 DEF Waiting, Frontier, Above, At, Branching, Asked, InHand
  <2> QED BY <1>1, <1>3, <2>1 DEF Search, Covered, FewErrors, NoneJoined, Branching
<1>9. SeenInv' /\ Fresh'
  BY DEF Search, Silent, At, IsMute, End, Received, NewState, world, SeenInv, Fresh,
     QuickfindAnswered
<1>10. MutedSeen' /\ UnmutePaid' /\ MutePaid'
  BY DEF NewState, MutedSeen, UnmutePaid, MutePaid, QuickfindAnswered
<1>11. SinglePaid'
  BY DEF NewState, SinglePaid, QuickfindAnswered
<1> QED BY <1>5, <1>6, <1>7, <1>8, <1>9, <1>10, <1>11 DEF Search

LEMMA QuickfindDiscoveryGivesUpSearch ==
  ASSUME IInv, Search, QuickfindDiscoveryGivesUp PROVE Search'
<1>1. Covered'
  <2>1. /\ state = "QuickfindDiscovery" /\ counter["QuickfindDiscovery"] = 0
        /\ state' = "LateResponse" /\ saved' = "Discovery"
        /\ UNCHANGED <<incremental, finished, tod, stack, range, muted, errors, stable, joined>>
    BY DEF QuickfindDiscoveryGivesUp, NewState, search, line, world
  <2>2. FewErrors => ~\E d \in stable : Hears(d)
    BY <2>1, Budget DEF Search, BranchPaid, Paid, IInv
  <2>3. FewErrors => \A d \in stable : ~Asked(d)
    BY <2>1, <2>2 DEF Asked, Hears, At
  <2>4. \A d : Waiting(d) => Waiting(d)'
    BY <2>1 DEF Waiting, Frontier, Above, At, Branching
  <2> QED BY <2>1, <2>3, <2>4 DEF Search, Covered, FewErrors, NoneJoined, At, Branching
<1>2. SeenInv' /\ Fresh' /\ MuteAnswers'
  BY DEF IInv, Phase, Counters, TypeOK, States, Commands, Search, Silent, At, IsMute, End,
     NewState, search, line, world, SeenInv, Fresh, MuteAnswers, QuickfindDiscoveryGivesUp
<1>3. MutedSeen' /\ UnmutePaid' /\ MutePaid'
  BY DEF NewState, search, MutedSeen, UnmutePaid, MutePaid, QuickfindDiscoveryGivesUp
<1>4. BranchPaid' /\ SinglePaid'
  BY DEF NewState, BranchPaid, SinglePaid, QuickfindDiscoveryGivesUp
<1>5. TodSeen'
  BY DEF Search, NoneJoined, At, Branching, Done, search, line, world, TodSeen,
     QuickfindDiscoveryGivesUp
<1> QED BY <1>1, <1>2, <1>3, <1>4, <1>5 DEF Search

LEMMA QuickfindDiscoverySendSearch ==
  ASSUME IInv, Search, QuickfindDiscoverySend PROVE Search'
<1>1. /\ state = "QuickfindDiscovery" /\ ~running["QuickfindDiscovery"] /\ At = state
      /\ running'["Discovery"] = running["Discovery"]
      /\ UNCHANGED <<state, saved, counter, incremental, finished, stack, range, response, quick,
                     tod, entries, buffer, present, stable, seen, joined>>
  BY DEF QuickfindDiscoverySend, Send, search, world, At, IInv, TypeOK, Commands
<1>2. range \in Ranges /\ Branch(range) \in Sent /\ Transmit(Branch(range), 0)
  BY DEF QuickfindDiscoverySend, Send, Sent, IInv, TypeOK
<1>3. /\ errors \in Nat /\ errors' \in Nat /\ errors <= errors'
      /\ muted' = muted /\ ~IsMute(flight')
      /\ \A d \in stable : Hears(d) /\ flight' = None => errors < errors'
  BY <1>2, TransmitFacts DEF IInv, TypeOK, Hears
<1>4. At' = At /\ InHand' = InHand /\ Frontier' = Frontier
  BY <1>1 DEF At, InHand, Frontier, Above
<1>5. SeenInv'
  BY <1>1, <1>3, <1>4, Kinds DEF Search, SeenInv
<1>6. TodSeen'
  BY <1>1, <1>3, <1>4 DEF Search, TodSeen, NoneJoined, Done
<1>7. BranchPaid'
  <2>1. /\ counter["Discovery"] \in Nat /\ counter["QuickfindDiscovery"] \in Nat
        /\ DiscoveryCounter \in Nat /\ QuickfindDiscoveryCounter \in Nat
    BY CounterAssumption DEF IInv, TypeOK, Commands
  <2> QED BY <1>1, <1>3, <2>1 DEF Search, BranchPaid, Hears, Silent, Paid, PaidAll
<1>8. MuteAnswers'
  BY <1>1, <1>3, <1>4 DEF MuteAnswers
<1>9. Covered'
  BY <1>1, <1>3, <1>4, CounterAssumption
     DEF Search, Covered, FewErrors, NoneJoined, Done, Waiting, Asked
<1>10. Fresh'
  BY DEF Search, At, Send, Fresh, QuickfindDiscoverySend
<1>11. MutedSeen' /\ UnmutePaid' /\ MutePaid'
  BY DEF Send, MutedSeen, UnmutePaid, MutePaid, QuickfindDiscoverySend
<1>12. SinglePaid'
  BY DEF Send, SinglePaid, QuickfindDiscoverySend
<1> QED BY <1>5, <1>6, <1>7, <1>8, <1>9, <1>10, <1>11, <1>12 DEF Search

LEMMA InitSearch == Init => Search
BY DEF Init, Search, SeenInv, Fresh, MutedSeen, TodSeen, UnmutePaid, MutePaid, BranchPaid,
       SinglePaid, MuteAnswers, Covered, At, Branching, Done

LEMMA StartSearch == ASSUME IInv, NEW inc \in BOOLEAN, Start(inc) PROVE Search'
<1>1. /\ state' = "Unmute" /\ At' = "Unmute" /\ finished' = FALSE /\ errors' = 0
      /\ stable' = present /\ seen' = present /\ present' = present
      /\ incremental' = inc
      /\ tod' = (IF inc THEN tod ELSE <<>>) /\ entries' = (IF inc THEN Len(tod) ELSE entries)
  BY DEF Start, At
<1>2. /\ counter'["Unmute"] = UnmuteCounter /\ counter'["Mute"] = MuteCounter
      /\ counter'["Single"] = MuteCounter
      /\ counter'["QuickfindDiscovery"] = QuickfindDiscoveryCounter
      /\ \A c \in Commands : ~running'[c]
  BY DEF Start
<1>3. Len(stack') = 1 /\ stack'[1].upper = LastUid
  BY DEF Start, UidRange
<1>4. SeenInv'
  BY <1>1, <1>2, CounterAssumption DEF SeenInv, Commands
<1>5. Fresh'
  BY <1>1, <1>2, <1>3 DEF Fresh, Commands
<1>6. UnmutePaid'
  BY <1>1, <1>2, CounterAssumption DEF UnmutePaid, Paid, Commands
<1>7. /\ MutedSeen' /\ TodSeen' /\ MutePaid' /\ BranchPaid' /\ SinglePaid' /\ MuteAnswers'
      /\ Covered'
  BY <1>1 DEF MutedSeen, TodSeen, MutePaid, BranchPaid, SinglePaid, MuteAnswers, Covered,
     Branching, Done
<1> QED BY <1>4, <1>5, <1>6, <1>7 DEF Search

LEMMA ArriveSearch == ASSUME IInv, Search, Arrive PROVE Search'
<1>1. /\ flight # None /\ buffer' = flight /\ flight' = None
      /\ UNCHANGED <<state, saved, incremental, finished, counter, running, stack, range,
                     response, quick, tod, entries, present, muted, errors, stable, seen, joined>>
  BY DEF Arrive, machine, world
<1>2. At' = At /\ ~Silent /\ ~Silent' /\ Done' = Done /\ NoneJoined' = NoneJoined
  BY <1>1 DEF At, Silent, Done, NoneJoined
<1>3. SeenInv' /\ MuteAnswers'
  <2>1. ~IsMute(flight') /\ (IsMute(buffer') => IsMute(flight) /\ buffer'.uid = flight.uid)
    BY <1>1, Kinds DEF IsMute
  <2>2. SeenInv'
    BY <1>1, <1>2, <2>1 DEF Search, SeenInv
  <2>3. MuteAnswers'
    BY <1>1, <1>2, <2>1 DEF Search, MuteAnswers, At
  <2> QED BY <2>2, <2>3
<1>4. Fresh' /\ UnmutePaid' /\ TodSeen'
  BY <1>1, <1>2 DEF Search, Fresh, UnmutePaid, TodSeen, Paid, PaidAll
<1>5. MutedSeen' /\ MutePaid'
  BY <1>1, <1>2 DEF Search, MutedSeen, MutePaid, Paid, PaidAll, FewErrors
<1>6. BranchPaid'
  BY <1>1, <1>2 DEF Search, BranchPaid, Hears, Paid, PaidAll
<1>7. SinglePaid'
  BY <1>1, <1>2, Kinds DEF Search, SinglePaid, MuteAnswers, Paid, PaidAll
<1>8. Covered'
  BY <1>1, <1>2
     DEF Search, Covered, Waiting, Asked, InHand, Frontier, Above, FewErrors
<1> QED BY <1>3, <1>4, <1>5, <1>6, <1>7, <1>8 DEF Search

LEMMA StopSearch == ASSUME IInv, Search, Stop \/ Collect PROVE Search'
<1>1. /\ At' = "Idle" /\ state' \in {"Idle", "LateResponse"} /\ finished' = FALSE
      /\ state = "Idle" => state' = "Idle"
      /\ UNCHANGED <<running, present, seen, counter>>
  BY DEF Stop, Collect, NewState, At, line, world
<1>2. SeenInv'
  BY <1>1 DEF Search, SeenInv
<1>3. /\ Fresh' /\ MutedSeen' /\ TodSeen' /\ UnmutePaid' /\ MutePaid' /\ BranchPaid'
      /\ SinglePaid' /\ MuteAnswers' /\ Covered'
  BY <1>1 DEF Fresh, MutedSeen, TodSeen, UnmutePaid, MutePaid, BranchPaid, SinglePaid,
     MuteAnswers, Covered, Branching, Done
<1> QED BY <1>2, <1>3 DEF Search

LEMMA PlugSearch == ASSUME IInv, Search, NEW d \in Devices, Plug(d) PROVE Search'
<1>1. /\ present' = present \cup {d} /\ seen' = seen \cup {d}
      /\ joined' = (joined \/ state # "Idle")
      /\ UNCHANGED <<state, saved, incremental, finished, counter, running, stack, range,
                     response, quick, tod, entries, muted, flight, buffer, errors, stable>>
  BY DEF Plug, machine, line
<1>2. /\ At' = At /\ Silent' = Silent /\ Done' = Done /\ (NoneJoined' => NoneJoined)
      /\ state = "Mute" => ~NoneJoined'
  BY <1>1 DEF At, Silent, Done, NoneJoined, IInv, Phase
<1>3. SeenInv' /\ Fresh' /\ TodSeen'
  BY <1>1, <1>2 DEF Search, SeenInv, Fresh, TodSeen
<1>4. MutedSeen' /\ MutePaid'
  BY <1>1, <1>2 DEF MutedSeen, MutePaid
<1>5. UnmutePaid' /\ MuteAnswers' /\ SinglePaid'
  BY <1>1, <1>2 DEF Search, UnmutePaid, MuteAnswers, SinglePaid, Paid, PaidAll
<1>6. BranchPaid'
  BY <1>1, <1>2 DEF Search, BranchPaid, Hears, Paid, PaidAll
<1>7. Covered'
  BY <1>1, <1>2
     DEF Search, Covered, Waiting, Asked, InHand, Frontier, Above, FewErrors
<1> QED BY <1>3, <1>4, <1>5, <1>6, <1>7 DEF Search

LEMMA UnplugSearch == ASSUME IInv, Search, NEW d \in Devices, Unplug(d) PROVE Search'
<1>1. /\ present' = present \ {d} /\ muted' = muted \ {d} /\ stable' = stable \ {d}
      /\ UNCHANGED <<state, saved, incremental, finished, counter, running, stack, range,
                     response, quick, tod, entries, flight, buffer, errors, seen, joined>>
  BY DEF Unplug, machine
<1>2. At' = At /\ Silent' = Silent /\ Done' = Done /\ NoneJoined' = NoneJoined
  BY <1>1 DEF At, Silent, Done, NoneJoined
<1>3. SeenInv' /\ Fresh' /\ TodSeen' /\ MuteAnswers'
  BY <1>1, <1>2 DEF Search, SeenInv, Fresh, TodSeen, MuteAnswers
<1>4. MutedSeen' /\ MutePaid'
  BY <1>1, <1>2 DEF Search, MutedSeen, MutePaid, Paid, PaidAll, FewErrors
<1>5. UnmutePaid' /\ SinglePaid'
  BY <1>1, <1>2 DEF Search, UnmutePaid, SinglePaid, Paid, PaidAll
<1>6. BranchPaid'
  BY <1>1, <1>2 DEF Search, BranchPaid, Hears, Paid, PaidAll, Silent
<1>7. Covered'
  <2>1. \A x \in stable' : x \in stable /\ (x \in muted' <=> x \in muted)
    BY <1>1
  <2> QED BY <1>1, <1>2, <2>1
          DEF Search, Covered, Waiting, Asked, InHand, Frontier, Above, FewErrors
<1> QED BY <1>3, <1>4, <1>5, <1>6, <1>7 DEF Search

LEMMA StutterSearch == ASSUME Search, UNCHANGED vars PROVE Search'
<1>1. /\ UNCHANGED <<state, saved, incremental, finished, counter, running, stack, range>>
      /\ UNCHANGED <<response, quick, tod, entries, present, muted, flight, buffer, errors,
                     stable, seen, joined>>
  BY DEF vars, machine, line, world
<1>2. At' = At /\ Silent' = Silent /\ Done' = Done /\ NoneJoined' = NoneJoined
  BY <1>1 DEF At, Silent, Done, NoneJoined
<1>3. SeenInv' /\ Fresh' /\ TodSeen' /\ MuteAnswers'
  BY <1>1, <1>2 DEF Search, SeenInv, Fresh, TodSeen, MuteAnswers
<1>4. MutedSeen' /\ MutePaid'
  BY <1>1, <1>2 DEF Search, MutedSeen, MutePaid, Paid, PaidAll, FewErrors
<1>5. UnmutePaid' /\ SinglePaid' /\ BranchPaid'
  BY <1>1, <1>2 DEF Search, UnmutePaid, SinglePaid, BranchPaid, Hears, Paid, PaidAll
<1>6. Covered'
  BY <1>1, <1>2
     DEF Search, Covered, Waiting, Asked, InHand, Frontier, Above, FewErrors
<1> QED BY <1>3, <1>4, <1>5, <1>6 DEF Search

LEMMA NextSearch == IInv /\ Search /\ [Next]_vars => Search'
<1> SUFFICES ASSUME IInv, Search, [Next]_vars PROVE Search'
  OBVIOUS
<1>1. CASE Process
  BY <1>1, DrainSearch, EndLateResponseSearch, DubNoneSearch, DubValidSearch,
     DubSplitSearch, FinishSearch, UnmuteDoneSearch, UnmuteDrainSearch, UnmuteSendSearch,
     UnmuteTimeOutSearch, MuteAllDoneSearch, MuteGoneSearch, MuteSendSearch,
     MuteAnsweredSearch, MuteTimeOutSearch, DiscoveryAnsweredSearch, DiscoveryTimeOutSearch,
     DiscoveryEmptySearch, DiscoverySingleSearch, DiscoverySendSearch, SingleGivesUpSearch,
     SingleSendSearch, SingleTimeOutSearch, SingleAnsweredSearch, SingleIgnoresSearch,
     QuickfindSendSearch, QuickfindTimeOutSearch, QuickfindAnsweredSearch,
     QuickfindIgnoresSearch, QuickfindDiscoveryGivesUpSearch, QuickfindDiscoverySendSearch,
     QuickfindDiscoveryTimeOutSearch, QuickfindDiscoveryAnsweredSearch
  DEF Process
<1>2. ASSUME NEW inc \in BOOLEAN, Start(inc) PROVE Search'
  BY <1>2, StartSearch
<1>3. CASE Arrive \/ Stop \/ Collect \/ UNCHANGED vars
  BY <1>3, ArriveSearch, StopSearch, StutterSearch
<1>4. ASSUME NEW d \in Devices, Plug(d) \/ Unplug(d) PROVE Search'
  BY <1>4, PlugSearch, UnplugSearch
<1> QED BY <1>1, <1>2, <1>3, <1>4 DEF Next

----------------------------------------------------------------------------
(* What a search that has come to its end promises *)

\* What a search knows at each of its phases (Search) holds of every search.
THEOREM SearchInvariance == Spec => []Search
BY Invariance, InitSearch, NextSearch, PTL DEF Spec

\* A search in which no message went wrong leaves only devices in the table that
\* were there while it ran; the ones that were gone have been deleted.
THEOREM NoGhostsHolds == Spec => []NoGhosts
<1>1. Search => NoGhosts
  BY DEF Search, TodSeen, NoGhosts, Done
<1> QED BY <1>1, SearchInvariance, PTL

\* A search finds every device that was there all the time as long as fewer messages
\* went wrong than one message has attempts, for UIDs of any width, any devices and
\* any moment at which others come and go.
THEOREM CompleteTodHolds == Spec => []CompleteTod
<1>1. Search => CompleteTod
  BY DEF Search, Covered, CompleteTod, Done, Waiting, Asked, InHand, At, Branching
<1> QED BY <1>1, SearchInvariance, PTL

==============================================================================
