-------------------------- MODULE SoftwareTimers --------------------------
(***************************************************************************)
(* lib-superloop/src/softwaretimers.cpp: the periodic timers every         *)
(* protocol of the firmware runs on.  They live in a small array; one call *)
(* of SoftwareTimerRun() per turn of the superloop looks at the one timer  *)
(* under a round-robin cursor, calls its callback when it is due, and      *)
(* reschedules it.  A callback may itself add, delete and change timers    *)
(* (Display::SleepTimer and ConfigStore delete theirs), so a call of       *)
(* SoftwareTimerRun() is two steps, RunFire and RunReturn, and the API     *)
(* calls of the callback happen in between.                                *)
(*                                                                         *)
(* Millis() is a machine word: all time arithmetic is modulo Word, and the *)
(* comparison is signed, as in the code.                                   *)
(***************************************************************************)
EXTENDS Integers, Sequences

CONSTANTS
  MaxTimers,    \* kSoftwareTimersMax
  Word,         \* 2^32: the values of uint32_t
  IdWord,       \* 2^32: the values of s_next_id before it comes round again
  Intervals,    \* the intervals the callers ask for
  MaxLate,      \* bound: the superloop is never away for longer
  CallbackOps   \* the API calls made from within callbacks

ASSUME SizeAssumption == MaxTimers \in Nat \ {0} /\ IdWord \in Nat /\ IdWord > MaxTimers
ASSUME WordAssumption == Word \in Nat \ {0}
ASSUME IntervalAssumption == Intervals \subseteq Nat /\ MaxLate \in Nat
ASSUME CallbackAssumption == CallbackOps \subseteq {"Add", "Delete", "Change"}

VARIABLES
  now,       \* timing::Millis()
  timers,    \* the first s_timers_count entries of s_timers
  nextId,    \* s_next_id
  current,   \* s_timer_current, an index from 0
  call       \* the locals of a SoftwareTimerRun() that is in a callback, and
             \* whether that callback has deleted a timer (a history variable)

vars == <<now, timers, nextId, current, call>>

NoCall == [id |-> -1, interval |-> 0, start |-> 0, deleted |-> FALSE]
Calls  == [id : 0 .. IdWord - 1, interval : Intervals, start : 0 .. Word - 1,
           deleted : BOOLEAN]
Timers == [expire : 0 .. Word - 1, interval : Intervals, id : 0 .. IdWord - 1]

Count == Len(timers)
Ids   == 0 .. IdWord - 1
LiveIds == {timers[i].id : i \in 1 .. Count}

\* static_cast<int32_t>(a - b)
SignedDiff(a, b) ==
  LET d == (a - b) % Word IN IF d < Word \div 2 THEN d ELSE d - Word

\* Mutant: a plain comparison of the two words.
Due_PlainCompare(t) == now >= t.expire

Due(t) == SignedDiff(now, t.expire) >= 0

Init ==
  /\ now \in 0 .. Word - 1
  /\ timers = <<>>
  /\ nextId = 0
  /\ current = 0
  /\ call = NoCall

---------------------------------------------------------------------------
(* The API, called from the superloop or from a callback. *)

MayCall(op) == call = NoCall \/ op \in CallbackOps

\* An id is handed out again only after 2^32 additions: no timer lives so long.
SoftwareTimerAdd(interval) ==
  /\ MayCall("Add")
  /\ Count < MaxTimers
  /\ nextId \notin LiveIds
  /\ timers' = Append(timers, [expire   |-> (now + interval) % Word,
                               interval |-> interval,
                               id       |-> nextId])
  /\ nextId' = (nextId + 1) % IdWord
  /\ UNCHANGED <<now, current, call>>

\* Entry i leaves the array: the last entry takes its place.
SwapOut(s, i) == SubSeq([s EXCEPT ![i] = s[Len(s)]], 1, Len(s) - 1)

\* Mutant: a hole in the middle is filled, but the count is decremented only
\* for the last entry.
SoftwareTimerDelete_KeepLast(id) ==
  /\ MayCall("Delete")
  /\ \E i \in 1 .. Count :
       /\ timers[i].id = id
       /\ timers' = IF i = Count THEN SubSeq(timers, 1, Count - 1)
                                 ELSE [timers EXCEPT ![i] = timers[Count]]
  /\ current' = IF current >= Count - 1 THEN 0 ELSE current
  /\ call' = [call EXCEPT !.deleted = call # NoCall]
  /\ UNCHANGED <<now, nextId>>

SoftwareTimerDelete(id) ==
  /\ MayCall("Delete")
  /\ \E i \in 1 .. Count :
       /\ timers[i].id = id
       /\ timers' = SwapOut(timers, i)
  /\ current' = IF current >= Count - 1 THEN 0 ELSE current
  /\ call' = [call EXCEPT !.deleted = call # NoCall]
  /\ UNCHANGED <<now, nextId>>

SoftwareTimerChange(id, interval) ==
  /\ MayCall("Change")
  /\ \E i \in 1 .. Count :
       /\ timers[i].id = id
       /\ timers' = [timers EXCEPT ![i].expire   = (now + interval) % Word,
                                   ![i].interval = interval]
  /\ UNCHANGED <<now, nextId, current, call>>

---------------------------------------------------------------------------
(* SoftwareTimerRun() *)

\* Mutant: at the end of the array the cursor stays there.
Advance_NoWrap == current' = IF current + 1 >= Count THEN current ELSE current + 1

Advance == current' = IF current + 1 >= Count THEN 0 ELSE current + 1

RunNotDue ==
  /\ call = NoCall
  /\ Count > 0
  /\ ~Due(timers[current + 1])
  /\ Advance
  /\ UNCHANGED <<now, timers, nextId, call>>

RunFire ==
  /\ call = NoCall
  /\ Count > 0
  /\ Due(timers[current + 1])
  /\ call' = [id       |-> timers[current + 1].id,
              interval |-> timers[current + 1].interval,
              start    |-> now,
              deleted  |-> FALSE]
  /\ UNCHANGED <<now, timers, nextId, current>>

\* Mutant: the cursor is advanced before the reschedule.
RunReturn_AdvanceFirst ==
  /\ call # NoCall
  /\ Advance
  /\ timers' = IF Count > 0
               THEN [timers EXCEPT ![current' + 1].expire =
                                     (call.start + call.interval) % Word]
               ELSE timers
  /\ call' = NoCall
  /\ UNCHANGED <<now, nextId>>

\* The reschedule writes to whatever entry is under the cursor by now; when the
\* array has become empty that entry is not in use.
RunReturn ==
  /\ call # NoCall
  /\ timers' = IF current < Count
               THEN [timers EXCEPT ![current + 1].expire =
                                     (call.start + call.interval) % Word]
               ELSE timers
  /\ Advance
  /\ call' = NoCall
  /\ UNCHANGED <<now, nextId>>

SoftwareTimerRun == RunNotDue \/ RunFire \/ RunReturn

\* SysTick.  MaxLate bounds how long a due timer waits and a callback takes.
Tick ==
  /\ \A i \in 1 .. Count : SignedDiff(now, timers[i].expire) < MaxLate
  /\ call = NoCall \/ SignedDiff(now, call.start) < MaxLate
  /\ now' = (now + 1) % Word
  /\ UNCHANGED <<timers, nextId, current, call>>

Next ==
  \/ \E p \in Intervals : SoftwareTimerAdd(p)
  \/ \E id \in Ids : SoftwareTimerDelete(id)
  \/ \E id \in Ids, p \in Intervals : SoftwareTimerChange(id, p)
  \/ RunNotDue
  \/ RunFire
  \/ RunReturn
  \/ Tick

Spec == Init /\ [][Next]_vars

\* The superloop keeps calling SoftwareTimerRun() and every callback returns.
FairSpec == Spec /\ WF_vars(SoftwareTimerRun)

---------------------------------------------------------------------------
(* Properties *)

TypeOK ==
  /\ now \in 0 .. Word - 1
  /\ timers \in Seq(Timers)
  /\ Count <= MaxTimers
  /\ nextId \in Ids
  /\ current \in Nat
  /\ call \in Calls \cup {NoCall}

\* The cursor is always on an entry in use, or at the start of the empty array,
\* also after deletions from within a callback (softwaretimers.cpp, "Keep the
\* round-robin cursor within bounds").
CursorInBounds == current < Count \/ (Count = 0 /\ current = 0)

\* No two entries of the array have one id, so a handle denotes one timer:
\* swapping the last entry into a hole neither loses nor doubles a timer.
UniqueIds == \A i, j \in 1 .. Count : timers[i].id = timers[j].id => i = j

\* The timer at i is at j after the step, with another deadline.
Moved(i, j) == timers[i].id = timers'[j].id /\ timers[i].expire # timers'[j].expire
Moves == {i \in 1 .. Count : \E j \in 1 .. Count' : Moved(i, j)}

\* Its owner changes it, or the callback returns that it was called for.
MovedBy(i, j) ==
  \/ /\ call' = call
     /\ \E p \in Intervals : SoftwareTimerChange(timers[i].id, p)
  \/ /\ call # NoCall /\ call' = NoCall
     /\ timers[i].id = call.id \/ call.deleted
     /\ timers'[j].expire = (call.start + call.interval) % Word

\* Nothing moves a deadline but the owner's SoftwareTimerChange() and the end
\* of the timer's own callback: additions, deletions elsewhere in the array, the
\* swap and the cursor do not (softwaretimers.cpp:116-120).  A callback that has
\* deleted a timer, its own as Display and ConfigStore do, is the exception: its
\* end may move the deadline of one other timer, the one that has come under the
\* cursor (softwaretimers.cpp:168).  The deadline set at the end of a callback is
\* one interval after the call, whatever the callback asked for meanwhile.
DeadlinesKept ==
  [][/\ \A i \in 1 .. Count, j \in 1 .. Count' : Moved(i, j) => MovedBy(i, j)
     /\ \A i, k \in Moves : i = k]_vars

\* What the comment on interval_millis makes of it: a timer's next deadline is
\* at most its own period away (softwaretimers.cpp:69, "Period in milliseconds").
NeverPostponed == \A i \in 1 .. Count :
                    SignedDiff(timers[i].expire, now) <= timers[i].interval

\* Every due timer is eventually called, unless it is deleted or its deadline is
\* moved (see DeadlinesKept): the callers' additions and deletions, from within
\* callbacks too, cannot make the cursor pass it by for ever.
IsDue(id) == \E i \in 1 .. Count : timers[i].id = id /\ Due(timers[i])
DueTimerFires == \A id \in Ids : IsDue(id) ~> (call.id = id \/ ~IsDue(id))

\* Refinement: the milliseconds left follow from the wrapped deadline, and what
\* is left of the next period from the locals of SoftwareTimerRun().
Service ==
  INSTANCE TimerService WITH
    service <- [i \in LiveIds |->
                  LET t == timers[CHOOSE k \in 1 .. Count : timers[k].id = i]
                  IN  [left |-> SignedDiff(t.expire, now), period |-> t.interval]],
    calling <- [timer   |-> call.id,
                left    |-> IF call = NoCall THEN 0
                            ELSE call.interval - SignedDiff(now, call.start),
                deleted |-> call.deleted]

\* The array, cursor and wrapping clock implement the timer service.
ImplementsService == Service!Spec
===========================================================================
