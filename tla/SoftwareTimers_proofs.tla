----------------------- MODULE SoftwareTimers_proofs -----------------------
(***************************************************************************)
(* Proofs about SoftwareTimers, for every size of the array, every word    *)
(* width and every set of intervals.  Whatever API calls the callbacks     *)
(* make, the cursor and the handles survive any sequence of additions and  *)
(* deletions, from the superloop or from within a callback; nothing but    *)
(* its owner and the end of a callback moves a deadline; and the array and *)
(* its wrapping clock implement TimerService.                              *)
(***************************************************************************)
EXTENDS SoftwareTimers, SequenceTheorems, TLAPS

Inv == TypeOK /\ CursorInBounds /\ UniqueIds

(* Clock and id arithmetic stays within its word. *)
LEMMA WordArithmetic == \A a \in Int : a % Word \in 0 .. Word - 1
  BY WordAssumption

LEMMA IdArithmetic == \A a \in Int : a % IdWord \in 0 .. IdWord - 1
  BY SizeAssumption

(* Taking entry i out keeps every other entry, at its place or, for the last *)
(* one, at place i.                                                          *)
LEMMA SwapOutProperties ==
  ASSUME NEW S, NEW s \in Seq(S), NEW i \in 1 .. Len(s)
  PROVE  /\ SwapOut(s, i) \in Seq(S)
         /\ Len(SwapOut(s, i)) = Len(s) - 1
         /\ \A j \in 1 .. Len(s) - 1 :
              SwapOut(s, i)[j] = IF j = i THEN s[Len(s)] ELSE s[j]
<1> DEFINE t == [s EXCEPT ![i] = s[Len(s)]]
<1>1. Len(s) \in Nat /\ Len(s) >= 1 /\ s[Len(s)] \in S
  BY LenProperties, ElementOfSeq
<1>2. t \in Seq(S) /\ Len(t) = Len(s)
  BY <1>1, ExceptSeq
<1>3. \A j \in 1 .. Len(s) : t[j] = IF j = i THEN s[Len(s)] ELSE s[j]
  BY <1>1, ExceptSeq
<1>4. \A j \in 1 .. Len(s) - 1 : t[j] \in S
  BY <1>1, <1>2, ElementOfSeq
<1>5. /\ SubSeq(t, 1, Len(s) - 1) \in Seq(S)
      /\ Len(SubSeq(t, 1, Len(s) - 1)) = Len(s) - 1
      /\ \A j \in 1 .. Len(s) - 1 : SubSeq(t, 1, Len(s) - 1)[j] = t[j]
  <2> DEFINE n == Len(s) - 1
  <2>1. n \in Nat
    BY <1>1
  <2>2. \A j \in 1 .. n : t[j] \in S
    BY <1>4
  <2> HIDE DEF t, n
  <2>3. /\ SubSeq(t, 1, n) \in Seq(S)
        /\ Len(SubSeq(t, 1, n)) = IF 1 <= n THEN n - 1 + 1 ELSE 0
        /\ \A j \in 1 .. n - 1 + 1 : SubSeq(t, 1, n)[j] = t[1 + j - 1]
    BY <2>1, <2>2, SubSeqProperties
  <2>4. Len(SubSeq(t, 1, n)) = n
    BY <2>1, <2>3
  <2>5. \A j \in 1 .. n : SubSeq(t, 1, n)[j] = t[j]
    <3> SUFFICES ASSUME NEW j \in 1 .. n PROVE SubSeq(t, 1, n)[j] = t[j]
      OBVIOUS
    <3>1. j \in 1 .. n - 1 + 1 /\ 1 + j - 1 = j
      BY <2>1
    <3>2. QED
      BY <2>3, <3>1
  <2>6. QED
    BY <2>3, <2>4, <2>5 DEF n
<1>6. QED
  BY <1>3, <1>5, <1>1 DEF SwapOut

----------------------------------------------------------------------------
LEMMA InitInv == Init => Inv
<1> SUFFICES ASSUME Init PROVE Inv
  OBVIOUS
<1>1. TypeOK
  BY SizeAssumption, WordAssumption, EmptySeq DEF Init, TypeOK, Count, Ids, NoCall
<1>2. CursorInBounds /\ UniqueIds
  BY DEF Init, CursorInBounds, UniqueIds, Count
<1>3. QED
  BY <1>1, <1>2 DEF Inv

LEMMA AddInv ==
  ASSUME Inv, NEW p \in Intervals, SoftwareTimerAdd(p)
  PROVE  Inv'
<1> DEFINE new == [expire |-> (now + p) % Word, interval |-> p, id |-> nextId]
<1> USE DEF Inv
<1>1. /\ timers \in Seq(Timers) /\ Len(timers) \in Nat
      /\ now \in Int /\ nextId \in Ids /\ current \in Nat
  BY WordAssumption, LenProperties DEF TypeOK
<1>2. new \in Timers
  <2>1. now + p \in Int
    BY <1>1, IntervalAssumption
  <2>2. (now + p) % Word \in 0 .. Word - 1
    BY <2>1, WordArithmetic
  <2>3. QED
    BY <1>1, <2>2 DEF Timers, Ids
<1>3. /\ timers' = Append(timers, new) /\ timers' \in Seq(Timers)
      /\ Len(timers') = Len(timers) + 1
      /\ \A i \in 1 .. Len(timers) : timers'[i] = timers[i]
      /\ timers'[Len(timers) + 1] = new
  BY <1>1, <1>2, AppendProperties DEF SoftwareTimerAdd
<1>4. nextId' \in Ids
  BY <1>1, IdArithmetic DEF SoftwareTimerAdd, Ids
<1>5. TypeOK'
  BY <1>1, <1>3, <1>4, SizeAssumption DEF TypeOK, SoftwareTimerAdd, Count, Ids
<1>6. CursorInBounds'
  BY <1>1, <1>3 DEF CursorInBounds, SoftwareTimerAdd, Count
<1>7. UniqueIds'
  <2>1. \A i \in 1 .. Len(timers) : timers[i].id # nextId
    BY DEF SoftwareTimerAdd, LiveIds, Count
  <2>2. QED
    BY <1>1, <1>3, <2>1 DEF UniqueIds, Count
<1>8. QED
  BY <1>5, <1>6, <1>7

LEMMA DeleteInv ==
  ASSUME Inv, NEW id \in Ids, SoftwareTimerDelete(id)
  PROVE  Inv'
<1> USE DEF Inv
<1>1. /\ timers \in Seq(Timers) /\ Len(timers) \in Nat
      /\ current \in Nat /\ Len(timers) <= MaxTimers
  BY LenProperties DEF TypeOK, Count
<1>2. PICK i \in 1 .. Len(timers) : timers' = SwapOut(timers, i)
  BY DEF SoftwareTimerDelete, Count
<1>3. /\ timers' \in Seq(Timers)
      /\ Len(timers') = Len(timers) - 1
      /\ \A j \in 1 .. Len(timers) - 1 :
           timers'[j] = IF j = i THEN timers[Len(timers)] ELSE timers[j]
  BY <1>1, <1>2, SwapOutProperties
<1>4. current' = IF current >= Len(timers) - 1 THEN 0 ELSE current
  BY DEF SoftwareTimerDelete, Count
<1>5. TypeOK'
  <2>1. call' = [call EXCEPT !.deleted = call # NoCall]
    BY DEF SoftwareTimerDelete
  <2>2. call' \in Calls \cup {NoCall}
    <3>1. CASE call = NoCall
      BY <2>1, <3>1 DEF NoCall
    <3>2. CASE call # NoCall
      <4>1. call \in Calls
        BY <3>2 DEF TypeOK
      <4> QED BY <2>1, <4>1 DEF Calls
    <3> QED BY <3>1, <3>2
  <2>3. current' \in Nat
    BY <1>1, <1>4
  <2>4. UNCHANGED <<now, nextId>> /\ Len(timers') <= MaxTimers
    BY <1>1, <1>3, SizeAssumption DEF SoftwareTimerDelete
  <2> HIDE DEF Inv
  <2>5. now \in 0 .. Word - 1 /\ nextId \in Ids
    BY DEF Inv, TypeOK
  <2> QED
    BY <1>3, <2>2, <2>3, <2>4, <2>5 DEF TypeOK, Count, Ids
<1>6. CursorInBounds'
  BY <1>1, <1>3, <1>4 DEF CursorInBounds, Count
<1>7. UniqueIds'
  BY <1>1, <1>3 DEF UniqueIds, Count
<1>8. QED
  BY <1>5, <1>6, <1>7

LEMMA ChangeInv ==
  ASSUME Inv, NEW id \in Ids, NEW p \in Intervals, SoftwareTimerChange(id, p)
  PROVE  Inv'
<1> USE DEF Inv
<1>1. /\ timers \in Seq(Timers) /\ Len(timers) \in Nat /\ now \in Int
  BY WordAssumption, LenProperties DEF TypeOK
<1>2. PICK i \in 1 .. Len(timers) :
        timers' = [timers EXCEPT ![i].expire = (now + p) % Word, ![i].interval = p]
  BY DEF SoftwareTimerChange, Count
<1> DEFINE e == [timers[i] EXCEPT !.expire = (now + p) % Word, !.interval = p]
<1>3. timers[i] \in Timers /\ e \in Timers /\ e.id = timers[i].id
  <2>1. now + p \in Int
    BY <1>1, IntervalAssumption
  <2>2. (now + p) % Word \in 0 .. Word - 1
    BY <2>1, WordArithmetic
  <2>3. timers[i] \in Timers
    BY <1>1, ElementOfSeq
  <2>4. QED
    BY <2>2, <2>3 DEF Timers
<1>4. timers' = [timers EXCEPT ![i] = e]
  BY <1>1, <1>2, <1>3, LenProperties
<1>5. /\ timers' \in Seq(Timers) /\ Len(timers') = Len(timers)
      /\ \A j \in 1 .. Len(timers) : timers'[j].id = timers[j].id
  <2> HIDE DEF e
  <2>1. QED
    BY <1>1, <1>3, <1>4, ExceptSeq
<1>6. TypeOK'
  BY <1>5 DEF TypeOK, SoftwareTimerChange, Count
<1>7. CursorInBounds' /\ UniqueIds'
  BY <1>5 DEF CursorInBounds, UniqueIds, SoftwareTimerChange, Count
<1>8. QED
  BY <1>6, <1>7

LEMMA AdvanceInBounds ==
  ASSUME Inv, Advance, Len(timers') = Len(timers)
  PROVE  current' \in Nat /\ CursorInBounds'
<1>1. Len(timers) \in Nat /\ current \in Nat
  BY LenProperties DEF Inv, TypeOK
<1>2. QED
  BY <1>1 DEF Inv, CursorInBounds, Advance, Count

LEMMA ReturnInv == ASSUME Inv, RunReturn PROVE Inv'
<1> USE DEF Inv
<1>1. /\ timers \in Seq(Timers) /\ Len(timers) \in Nat /\ current \in Nat
      /\ call.start \in Int /\ call.interval \in Int
  BY WordAssumption, IntervalAssumption, LenProperties
  DEF TypeOK, RunReturn, Calls
<1> DEFINE x == (call.start + call.interval) % Word
<1>2. x \in 0 .. Word - 1
  <2>1. call.start + call.interval \in Int
    BY <1>1
  <2>2. QED
    BY <2>1, WordArithmetic
<1>3. /\ timers' \in Seq(Timers) /\ Len(timers') = Len(timers)
      /\ \A j \in 1 .. Len(timers) : timers'[j].id = timers[j].id
  <2>1. CASE current < Len(timers)
    <3> DEFINE i == current + 1
               e == [timers[i] EXCEPT !.expire = x]
    <3>1. i \in 1 .. Len(timers)
      BY <1>1, <2>1
    <3>2. timers[i] \in Timers /\ e \in Timers /\ e.id = timers[i].id
      <4> HIDE DEF x, i
      <4>1. timers[i] \in Timers
        BY <1>1, <3>1, ElementOfSeq
      <4>2. QED
        BY <1>2, <4>1 DEF Timers
    <3>3. timers' = [timers EXCEPT ![i] = e]
      BY <1>1, <2>1, <3>1, LenProperties DEF RunReturn, Count
    <3>4. QED
      <4> HIDE DEF e, i
      <4>1. QED
        BY <1>1, <3>1, <3>2, <3>3, ExceptSeq
  <2>2. CASE ~(current < Len(timers))
    BY <1>1, <2>2 DEF RunReturn, Count
  <2>3. QED
    BY <2>1, <2>2
<1>4. current' \in Nat /\ CursorInBounds'
  BY <1>3, AdvanceInBounds DEF RunReturn
<1>5. TypeOK'
  BY <1>3, <1>4 DEF TypeOK, RunReturn, Count
<1>6. UniqueIds'
  BY <1>3 DEF UniqueIds, Count
<1>7. QED
  BY <1>4, <1>5, <1>6

LEMMA RunInv == ASSUME Inv, RunNotDue \/ RunFire PROVE Inv'
<1> USE DEF Inv
<1>1. timers \in Seq(Timers) /\ Len(timers) \in Nat /\ timers' = timers
  BY LenProperties DEF TypeOK, RunNotDue, RunFire
<1>2. CASE RunNotDue
  <2>1. current' \in Nat /\ CursorInBounds'
    BY <1>1, <1>2, AdvanceInBounds DEF RunNotDue
  <2>2. QED
    BY <1>1, <1>2, <2>1 DEF RunNotDue, TypeOK, UniqueIds, Count
<1>3. CASE RunFire
  <2>1. current + 1 \in 1 .. Len(timers)
    BY <1>1, <1>3 DEF RunFire, TypeOK, CursorInBounds, Count
  <2>2. timers[current + 1] \in Timers
    BY <1>1, <2>1, ElementOfSeq
  <2>3. call' \in Calls
    BY <1>3, <2>2 DEF RunFire, TypeOK, Timers, Calls
  <2>4. QED
    BY <1>1, <1>3, <2>3 DEF RunFire, TypeOK, CursorInBounds, UniqueIds, Count
<1>4. QED
  BY <1>2, <1>3

LEMMA TickInv == ASSUME Inv, Tick PROVE Inv'
<1>1. now' \in 0 .. Word - 1
  BY WordArithmetic, WordAssumption DEF Inv, TypeOK, Tick
<1>2. QED
  BY <1>1 DEF Inv, TypeOK, CursorInBounds, UniqueIds, Tick, Count

LEMMA StepInv == Inv /\ [Next]_vars => Inv'
<1> SUFFICES ASSUME Inv, [Next]_vars PROVE Inv'
  OBVIOUS
<1>1. ASSUME NEW p \in Intervals, SoftwareTimerAdd(p) PROVE Inv'
  BY <1>1, AddInv
<1>2. ASSUME NEW id \in Ids, SoftwareTimerDelete(id) PROVE Inv'
  BY <1>2, DeleteInv
<1>3. ASSUME NEW id \in Ids, NEW p \in Intervals, SoftwareTimerChange(id, p)
      PROVE  Inv'
  BY <1>3, ChangeInv
<1>4. CASE RunNotDue \/ RunFire
  BY <1>4, RunInv
<1>5. CASE RunReturn
  BY <1>5, ReturnInv
<1>6. CASE Tick
  BY <1>6, TickInv
<1>7. CASE UNCHANGED vars
  BY <1>7 DEF vars, Inv, TypeOK, CursorInBounds, UniqueIds, Count
<1>8. QED
  BY <1>1, <1>2, <1>3, <1>4, <1>5, <1>6, <1>7 DEF Next

(* The state of the timers is well typed, and never more than MaxTimers run. *)
THEOREM TypeCorrect == Spec => []TypeOK
<1>1. Inv => TypeOK
  BY DEF Inv
<1>2. QED
  BY InitInv, StepInv, <1>1, PTL DEF Spec

(* SoftwareTimerRun() never looks at an entry that is not in use, whatever a  *)
(* callback deletes under it.                                                *)
THEOREM CursorSafe == Spec => []CursorInBounds
<1>1. Inv => CursorInBounds
  BY DEF Inv
<1>2. QED
  BY InitInv, StepInv, <1>1, PTL DEF Spec

(* A handle denotes at most one timer, however often the array is compacted. *)
THEOREM HandlesUnique == Spec => []UniqueIds
<1>1. Inv => UniqueIds
  BY DEF Inv
<1>2. QED
  BY InitInv, StepInv, <1>1, PTL DEF Spec

---------------------------------------------------------------------------
(* Deadlines and the timer service.  The service needs that the word is wide  *)
(* enough for the signed comparison.                                          *)

Wide == MaxLate < Word \div 2 /\ \A p \in Intervals : p < Word \div 2

Clock == 0 .. Word - 1

LEMMA Modulo ==
  ASSUME NEW x \in Int, 0 - Word <= x, x < 2 * Word
  PROVE  x % Word = IF x < 0 THEN x + Word ELSE IF x < Word THEN x ELSE x - Word
BY WordAssumption, SMT

LEMMA Half == Word \div 2 \in Nat /\ 2 * (Word \div 2) <= Word /\ Word <= 2 * (Word \div 2) + 1
BY WordAssumption, SMT

(* The signed difference is the difference, when it is less than half a word. *)
LEMMA Difference ==
  ASSUME NEW a \in Clock, NEW b \in Clock
  PROVE  /\ SignedDiff(a, b) \in Int
         /\ \A x \in Int : /\ x < Word \div 2 /\ 0 - x < Word \div 2
                           /\ a - b \in {x, x + Word, x - Word}
                           => SignedDiff(a, b) = x
         /\ a - b \in {SignedDiff(a, b), SignedDiff(a, b) + Word, SignedDiff(a, b) - Word}
<1> DEFINE d == (a - b) % Word
           h == Word \div 2
<1>1. a \in Int /\ b \in Int /\ Word \in Nat /\ 0 <= a /\ a < Word /\ 0 <= b /\ b < Word
  BY WordAssumption DEF Clock
<1>2. d = IF a - b < 0 THEN a - b + Word ELSE a - b
  BY <1>1, Modulo
<1>3. SignedDiff(a, b) = IF d < h THEN d ELSE d - Word
  BY DEF SignedDiff
<1>4. h \in Nat /\ 2 * h <= Word /\ Word <= 2 * h + 1
  BY Half
<1> HIDE DEF d, h
<1>5. SignedDiff(a, b) \in Int
  BY <1>1, <1>2, <1>3
<1>6. ASSUME NEW x \in Int, x < h, 0 - x < h, a - b \in {x, x + Word, x - Word}
      PROVE  SignedDiff(a, b) = x
  BY <1>1, <1>2, <1>3, <1>4, <1>6
<1>7. a - b \in {SignedDiff(a, b), SignedDiff(a, b) + Word, SignedDiff(a, b) - Word}
  BY <1>1, <1>2, <1>3
<1> QED BY <1>5, <1>6, <1>7 DEF h

(* A deadline that is set. *)
LEMMA Later ==
  ASSUME NEW n \in Clock, NEW a \in Clock, NEW p \in Nat, p < Word \div 2, Wide,
         SignedDiff(n, a) \in 0 .. MaxLate
  PROVE  /\ (a + p) % Word \in Clock
         /\ SignedDiff((a + p) % Word, n) = p - SignedDiff(n, a)
<1> DEFINE e == (a + p) % Word
           k == SignedDiff(n, a)
           h == Word \div 2
<1>1. /\ n \in Int /\ a \in Int /\ Word \in Nat /\ 0 <= a /\ a < Word
      /\ h \in Nat /\ 2 * h <= Word /\ MaxLate \in Nat /\ MaxLate < h
  BY WordAssumption, IntervalAssumption, Half DEF Clock, Wide
<1>2. e = IF a + p < Word THEN a + p ELSE a + p - Word
  BY <1>1, Modulo
<1>3. n - a \in {k, k + Word, k - Word} /\ k \in Int /\ 0 <= k /\ k < h
  BY <1>1, Difference
<1> HIDE DEF e, k, h
<1>4. e \in Clock
  BY <1>1, <1>2 DEF Clock, h
<1>5. /\ p - k \in Int /\ p - k < h /\ 0 - (p - k) < h
      /\ e - n \in {p - k, p - k + Word, p - k - Word}
  <2>1. p < h /\ 0 <= n /\ n < Word
    BY <1>1 DEF h, Clock
  <2>2. e \in Int /\ 0 <= e /\ e < Word
    BY <1>1, <1>4 DEF Clock
  <2>3. CASE n - a = k
    BY <1>1, <1>2, <1>3, <2>1, <2>2, <2>3
  <2>4. CASE n - a = k + Word
    BY <1>1, <1>2, <1>3, <2>1, <2>2, <2>4
  <2>5. CASE n - a = k - Word
    BY <1>1, <1>2, <1>3, <2>1, <2>2, <2>5
  <2> QED BY <1>3, <2>3, <2>4, <2>5
<1>6. SignedDiff(e, n) = p - k
  BY <1>4, <1>5, Difference DEF h
<1> QED BY <1>4, <1>6 DEF e, k

(* What is left of a deadline when the clock goes on. *)
LEMMA Ticked ==
  ASSUME NEW n \in Clock, NEW e \in Clock, Wide,
         SignedDiff(e, n) < Word \div 2, SignedDiff(n, e) < MaxLate,
         SignedDiff(e, n) >= 0 - MaxLate
  PROVE  /\ (n + 1) % Word \in Clock
         /\ SignedDiff(e, (n + 1) % Word) = SignedDiff(e, n) - 1
         /\ SignedDiff(e, n) - 1 >= 0 - MaxLate
<1> DEFINE m == (n + 1) % Word
           k == SignedDiff(e, n)
           l == SignedDiff(n, e)
           h == Word \div 2
<1>1. /\ n \in Int /\ e \in Int /\ Word \in Nat /\ 0 <= n /\ n < Word
      /\ h \in Nat /\ 2 * h <= Word /\ MaxLate \in Nat /\ MaxLate < h
  BY WordAssumption, IntervalAssumption, Half DEF Clock, Wide
<1>2. m = IF n + 1 < Word THEN n + 1 ELSE n + 1 - Word
  BY <1>1, Modulo
<1>3. e - n \in {k, k + Word, k - Word} /\ k \in Int
  BY Difference
<1>4. l = 0 - k
  <2>1. k < h /\ k >= 0 - MaxLate
    OBVIOUS
  <2> HIDE DEF k, h
  <2>2. 0 - k \in Int /\ 0 - k < h /\ 0 - (0 - k) < h
        /\ n - e \in {0 - k, 0 - k + Word, 0 - k - Word}
    BY <1>1, <1>3, <2>1
  <2> QED BY <2>2, Difference DEF h
<1> HIDE DEF m, k, l, h
<1>5. m \in Clock
  BY <1>1, <1>2 DEF Clock
<1>6. k - 1 \in Int /\ k < h /\ k >= 0 - MaxLate /\ 0 - k < MaxLate
  BY <1>3, <1>4 DEF k, h, l
<1>7. k - 1 < h /\ 0 - (k - 1) < h /\ e - m \in {k - 1, k - 1 + Word, k - 1 - Word}
  <2>1. 0 <= e /\ e < Word
    BY <1>1 DEF Clock
  <2>2. m \in Int /\ 0 <= m /\ m < Word
    BY <1>1, <1>5 DEF Clock
  <2> QED BY <1>1, <1>2, <1>3, <1>6, <2>1, <2>2
<1>8. SignedDiff(e, m) = k - 1
  BY <1>5, <1>6, <1>7, Difference DEF h
<1>9. k - 1 >= 0 - MaxLate
  BY <1>1, <1>3, <1>6
<1> QED BY <1>5, <1>8, <1>9 DEF k, m

(* The time that has passed when the clock goes on.                           *)
LEMMA TickedSince ==
  ASSUME NEW n \in Clock, NEW a \in Clock, Wide,
         SignedDiff(n, a) \in 0 .. MaxLate, SignedDiff(n, a) < MaxLate
  PROVE  SignedDiff((n + 1) % Word, a) = SignedDiff(n, a) + 1
         /\ SignedDiff((n + 1) % Word, a) \in 0 .. MaxLate
<1> DEFINE m == (n + 1) % Word
           k == SignedDiff(n, a)
           h == Word \div 2
<1>1. /\ n \in Int /\ a \in Int /\ Word \in Nat /\ 0 <= n /\ n < Word /\ 0 <= a /\ a < Word
      /\ h \in Nat /\ 2 * h <= Word /\ MaxLate \in Nat /\ MaxLate < h
  BY WordAssumption, IntervalAssumption, Half DEF Clock, Wide
<1>2. m = IF n + 1 < Word THEN n + 1 ELSE n + 1 - Word
  BY <1>1, Modulo
<1>3. n - a \in {k, k + Word, k - Word} /\ k \in Int /\ 0 <= k /\ k < MaxLate
  BY <1>1, Difference
<1> HIDE DEF m, k, h
<1>4. m \in Clock
  BY <1>1, <1>2 DEF Clock
<1>5. m \in Int /\ 0 <= m /\ m < Word
  BY <1>1, <1>2
<1>6. k + 1 \in Int /\ k + 1 < h /\ 0 - (k + 1) < h /\ m - a \in {k + 1, (k + 1) + Word, (k + 1) - Word}
  BY <1>1, <1>2, <1>3, <1>5
<1>7. SignedDiff(m, a) = k + 1
  BY <1>4, <1>6, Difference DEF h
<1>8. k + 1 \in 0 .. MaxLate
  BY <1>1, <1>3
<1> QED BY <1>7, <1>8 DEF m, k

(* The two comparisons say the same.                                          *)
LEMMA DueLeft ==
  ASSUME NEW n \in Clock, NEW e \in Clock, SignedDiff(n, e) >= 0, SignedDiff(e, n) < Word \div 2
  PROVE  SignedDiff(e, n) <= 0
<1> DEFINE k == SignedDiff(e, n)
           l == SignedDiff(n, e)
           h == Word \div 2
<1>1. /\ n \in Int /\ e \in Int /\ Word \in Nat /\ h \in Nat /\ 2 * h <= Word
  BY WordAssumption, Half DEF Clock
<1>2. k \in Int /\ e - n \in {k, k + Word, k - Word}
  BY Difference
<1>3. SUFFICES ASSUME k > 0 PROVE FALSE
  BY <1>2
<1>4. l = 0 - k
  <2>1. k < h
    OBVIOUS
  <2> HIDE DEF k, h
  <2>2. 0 - k \in Int /\ 0 - k < h /\ 0 - (0 - k) < h /\ n - e \in {0 - k, 0 - k + Word, (0 - k) - Word}
    BY <1>1, <1>2, <1>3, <2>1
  <2> QED BY <2>2, Difference DEF h
<1>5. l >= 0
  OBVIOUS
<1> HIDE DEF k, l
<1> QED BY <1>2, <1>3, <1>4, <1>5

(* Every timer is due in some interval at most and, while the superloop is    *)
(* never away for longer, overdue by MaxLate at most.                         *)
InTime(t, n) ==
  /\ 0 - MaxLate <= SignedDiff(t.expire, n)
  /\ \E p \in Intervals : SignedDiff(t.expire, n) <= p

(* A callback that has deleted nothing is that of the timer under the cursor, *)
(* which stays there.                                                         *)
OfCursor ==
  call # NoCall /\ ~call.deleted => current < Count /\ timers[current + 1].id = call.id

Recent == call # NoCall => SignedDiff(now, call.start) \in 0 .. MaxLate

OnTime == (\A i \in 1 .. Count : InTime(timers[i], now)) /\ Recent

(* What the steps do to the entries.                                          *)
LEMMA Entries ==
  ASSUME TypeOK
  PROVE  /\ timers \in Seq(Timers) /\ Count \in Nat /\ now \in Clock /\ now \in Int
         /\ \A i \in 1 .. Count : /\ timers[i] \in Timers /\ timers[i].expire \in Clock
                                  /\ timers[i].interval \in Nat
                                  /\ timers[i].interval \in Intervals
                                  /\ timers[i].id \in Ids /\ timers[i].id # -1
         /\ call # NoCall => /\ call \in Calls /\ call.start \in Clock /\ call.id \in Ids
                             /\ call.interval \in Nat /\ call.interval \in Intervals
                             /\ call.deleted \in BOOLEAN
<1>1. timers \in Seq(Timers) /\ Count \in Nat
  BY LenProperties DEF TypeOK, Count
<1>2. \A i \in 1 .. Count : timers[i] \in Timers
  BY <1>1, ElementOfSeq DEF Count
<1>3. now \in Clock /\ now \in Int
  BY WordAssumption DEF TypeOK, Clock
<1>4. call # NoCall => call \in Calls
  BY DEF TypeOK
<1>5. \A i \in Ids : i # -1
  BY SizeAssumption DEF Ids
<1> QED BY <1>1, <1>2, <1>3, <1>4, <1>5, IntervalAssumption DEF Timers, Calls, Clock, Ids

LEMMA AddEffect ==
  ASSUME TypeOK, NEW p \in Intervals, SoftwareTimerAdd(p)
  PROVE  /\ Count' = Count + 1 /\ \A i \in 1 .. Count : timers'[i] = timers[i]
         /\ timers'[Count + 1] = [expire |-> (now + p) % Word, interval |-> p, id |-> nextId]
         /\ \A i \in 1 .. Count : timers[i].id # nextId
         /\ UNCHANGED <<now, current, call>> /\ nextId \in Ids
<1> DEFINE new == [expire |-> (now + p) % Word, interval |-> p, id |-> nextId]
<1>1. timers \in Seq(Timers) /\ Len(timers) \in Nat /\ now + p \in Int
  BY Entries, IntervalAssumption DEF Count
<1>2. new \in Timers
  BY <1>1, WordArithmetic DEF Timers, TypeOK, Ids
<1> HIDE DEF new
<1>3. /\ timers' = Append(timers, new) /\ Len(timers') = Len(timers) + 1
      /\ \A i \in 1 .. Len(timers) : timers'[i] = timers[i]
      /\ timers'[Len(timers) + 1] = new
  BY <1>1, <1>2, AppendProperties DEF SoftwareTimerAdd, new
<1>4. \A i \in 1 .. Count : timers[i].id # nextId
  BY DEF SoftwareTimerAdd, LiveIds
<1> QED BY <1>3, <1>4 DEF Count, SoftwareTimerAdd, new, TypeOK

LEMMA DeleteEffect ==
  ASSUME TypeOK, NEW id \in Ids, SoftwareTimerDelete(id)
  PROVE  /\ now' = now /\ Count' = Count - 1
         /\ call' = [call EXCEPT !.deleted = call # NoCall]
         /\ IF call = NoCall THEN call' = NoCall
            ELSE /\ call' # NoCall /\ call'.deleted /\ call'.id = call.id
                 /\ call'.start = call.start /\ call'.interval = call.interval
         /\ \E i \in 1 .. Count :
              /\ timers[i].id = id
              /\ \A j \in 1 .. Count - 1 :
                   timers'[j] = IF j = i THEN timers[Count] ELSE timers[j]
<1>1. PICK i \in 1 .. Len(timers) : timers[i].id = id /\ timers' = SwapOut(timers, i)
  BY DEF SoftwareTimerDelete, Count
<1>2. /\ Len(timers') = Len(timers) - 1
      /\ \A j \in 1 .. Len(timers) - 1 :
           timers'[j] = IF j = i THEN timers[Len(timers)] ELSE timers[j]
  BY <1>1, Entries, SwapOutProperties
<1>3. now' = now /\ call' = [call EXCEPT !.deleted = call # NoCall]
  BY DEF SoftwareTimerDelete
<1>4. CASE call = NoCall
  <2>1. call' = NoCall
    BY <1>3, <1>4 DEF NoCall
  <2> QED BY <1>1, <1>2, <1>3, <1>4, <2>1 DEF Count
<1>5. CASE call # NoCall
  <2>1. call \in Calls
    BY <1>5, Entries
  <2>2. call'.deleted = TRUE /\ call'.id = call.id /\ call'.start = call.start
        /\ call'.interval = call.interval
    BY <1>3, <1>5, <2>1 DEF Calls
  <2>3. call' # NoCall
    BY <2>2 DEF NoCall
  <2> QED BY <1>1, <1>2, <1>3, <1>5, <2>2, <2>3 DEF Count
<1> QED BY <1>4, <1>5

LEMMA ChangeEffect ==
  ASSUME TypeOK, NEW id \in Ids, NEW p \in Intervals, SoftwareTimerChange(id, p)
  PROVE  /\ UNCHANGED <<now, call, current>> /\ Count' = Count
         /\ \E i \in 1 .. Count :
              /\ timers[i].id = id
              /\ timers'[i] = [expire |-> (now + p) % Word, interval |-> p, id |-> id]
              /\ \A j \in 1 .. Count : j # i => timers'[j] = timers[j]
<1>1. PICK i \in 1 .. Len(timers) :
        /\ timers[i].id = id
        /\ timers' = [timers EXCEPT ![i].expire = (now + p) % Word, ![i].interval = p]
  BY DEF SoftwareTimerChange, Count
<1> DEFINE x == (now + p) % Word
           e == [expire |-> x, interval |-> p, id |-> id]
<1>2. timers \in Seq(Timers) /\ timers[i] \in Timers /\ now + p \in Int
  BY Entries, IntervalAssumption DEF Count
<1>3. e \in Timers
  BY <1>2, WordArithmetic DEF Timers, Ids
<1>4. timers' = [timers EXCEPT ![i] = e]
  <2> HIDE DEF x
  <2>1. [timers[i] EXCEPT !.expire = x, !.interval = p] = e
    <3> DEFINE f == [timers[i] EXCEPT !.expire = x, !.interval = p]
    <3>1. x \in 0 .. Word - 1
      BY <1>2, WordArithmetic DEF x
    <3>2. f \in Timers /\ f.expire = x /\ f.interval = p /\ f.id = id
      BY <1>1, <1>2, <3>1 DEF Timers
    <3> HIDE DEF f
    <3>3. f = [expire |-> f.expire, interval |-> f.interval, id |-> f.id]
      BY <3>2 DEF Timers
    <3> QED BY <3>2, <3>3 DEF f
  <2>2. timers' = [timers EXCEPT ![i] = [timers[i] EXCEPT !.expire = x, !.interval = p]]
    BY <1>1, <1>2, LenProperties DEF x
  <2> QED BY <2>1, <2>2
<1> HIDE DEF e
<1>5. /\ Len(timers') = Len(timers) /\ timers'[i] = e
      /\ \A j \in 1 .. Len(timers) : j # i => timers'[j] = timers[j]
  BY <1>2, <1>3, <1>4, ExceptSeq
<1>6. UNCHANGED <<now, call, current>>
  BY DEF SoftwareTimerChange
<1> QED BY <1>1, <1>5, <1>6 DEF Count, e

LEMMA ReturnEffect ==
  ASSUME Inv, RunReturn
  PROVE  /\ call # NoCall /\ call' = NoCall /\ now' = now /\ Count' = Count
         /\ \/ Count = 0 /\ timers' = timers
            \/ /\ current + 1 \in 1 .. Count
               /\ timers'[current + 1] =
                    [expire   |-> (call.start + call.interval) % Word,
                     interval |-> timers[current + 1].interval,
                     id       |-> timers[current + 1].id]
               /\ \A j \in 1 .. Count : j # current + 1 => timers'[j] = timers[j]
<1> DEFINE i == current + 1
           x == (call.start + call.interval) % Word
<1>1. /\ call # NoCall /\ call' = NoCall /\ now' = now
      /\ timers' = IF current < Count THEN [timers EXCEPT ![i].expire = x] ELSE timers
  BY DEF RunReturn
<1>2. /\ timers \in Seq(Timers) /\ Count \in Nat /\ current \in Nat
      /\ current < Count \/ (Count = 0 /\ current = 0)
  BY Entries DEF Inv, TypeOK, CursorInBounds
<1>3. CASE Count = 0
  BY <1>1, <1>2, <1>3 DEF Count
<1>4. CASE current < Count
  <2> DEFINE e == [expire |-> x, interval |-> timers[i].interval, id |-> timers[i].id]
  <2>1. i \in 1 .. Len(timers) /\ i \in 1 .. Count
    BY <1>2, <1>4 DEF Count
  <2>2. timers[i] \in Timers /\ call.start + call.interval \in Int
    BY <1>1, <2>1, Entries, WordAssumption DEF Count, Clock, Inv
  <2>3. x \in 0 .. Word - 1
    BY <2>2, WordArithmetic
  <2> HIDE DEF x, i
  <2>4. e \in Timers /\ [timers[i] EXCEPT !.expire = x] = e
    BY <2>2, <2>3 DEF Timers
  <2>5. timers' = [timers EXCEPT ![i] = e]
    BY <1>1, <1>2, <1>4, <2>1, <2>4, LenProperties
  <2> HIDE DEF e
  <2>6. /\ Len(timers') = Len(timers) /\ timers'[i] = e
        /\ \A j \in 1 .. Len(timers) : j # i => timers'[j] = timers[j]
    BY <1>2, <2>1, <2>4, <2>5, ExceptSeq
  <2> QED BY <1>1, <2>1, <2>6 DEF Count, e, i, x
<1> QED BY <1>2, <1>3, <1>4

----------------------------------------------------------------------------
(* Who moves a deadline.                                                      *)

LEMMA OfCursorStep == ASSUME Inv, OfCursor, [Next]_vars PROVE OfCursor'
<1>0. /\ TypeOK /\ Count \in Nat /\ current \in Nat
      /\ current < Count \/ (Count = 0 /\ current = 0)
  BY Entries DEF Inv, TypeOK, CursorInBounds
<1>1. ASSUME NEW p \in Intervals, SoftwareTimerAdd(p) PROVE OfCursor'
  <2>1. /\ Count' = Count + 1 /\ \A i \in 1 .. Count : timers'[i] = timers[i]
        /\ UNCHANGED <<current, call>>
    BY <1>0, <1>1, AddEffect
  <2> QED BY <1>0, <2>1 DEF OfCursor
<1>2. ASSUME NEW id \in Ids, SoftwareTimerDelete(id) PROVE OfCursor'
  BY <1>0, <1>2, DeleteEffect DEF OfCursor
<1>3. ASSUME NEW id \in Ids, NEW p \in Intervals, SoftwareTimerChange(id, p) PROVE OfCursor'
  <2>1. PICK i \in 1 .. Count :
          /\ timers[i].id = id
          /\ timers'[i] = [expire |-> (now + p) % Word, interval |-> p, id |-> id]
          /\ \A j \in 1 .. Count : j # i => timers'[j] = timers[j]
    BY <1>0, <1>3, ChangeEffect
  <2>2. \A j \in 1 .. Count : timers'[j].id = timers[j].id
    BY <2>1
  <2>3. Count' = Count /\ UNCHANGED <<current, call>>
    BY <1>0, <1>3, ChangeEffect
  <2> QED BY <1>0, <2>2, <2>3 DEF OfCursor
<1>4. CASE RunNotDue
  BY <1>4 DEF RunNotDue, OfCursor
<1>5. CASE RunFire
  <2>1. call' = [id |-> timers[current + 1].id, interval |-> timers[current + 1].interval,
                 start |-> now, deleted |-> FALSE] /\ UNCHANGED <<timers, current>> /\ Count > 0
    BY <1>5 DEF RunFire
  <2> QED BY <1>0, <2>1 DEF OfCursor, Count
<1>6. CASE RunReturn
  BY <1>6 DEF RunReturn, OfCursor
<1>7. CASE Tick
  BY <1>7 DEF Tick, OfCursor, Count
<1>8. CASE UNCHANGED vars
  BY <1>8 DEF vars, OfCursor, Count
<1> QED BY <1>1, <1>2, <1>3, <1>4, <1>5, <1>6, <1>7, <1>8 DEF Next

Kept ==
  /\ \A i \in 1 .. Count, j \in 1 .. Count' : Moved(i, j) => MovedBy(i, j)
  /\ \A i, k \in Moves : i = k

(* A step that keeps the deadline of every id.                                *)
LEMMA NoneMoved ==
  ASSUME \A i \in 1 .. Count, j \in 1 .. Count' : ~Moved(i, j)
  PROVE  Kept
BY DEF Kept, Moves

(* A step that moves the deadline of one entry.                               *)
LEMMA OneMoved ==
  ASSUME NEW n \in 1 .. Count,
         \A i \in 1 .. Count, j \in 1 .. Count' : Moved(i, j) => i = n /\ MovedBy(i, j)
  PROVE  Kept
BY DEF Kept, Moves

LEMMA KeptStep == ASSUME Inv, OfCursor, [Next]_vars PROVE Kept \/ UNCHANGED vars
<1>0. /\ TypeOK /\ Count \in Nat /\ current \in Nat
      /\ current < Count \/ (Count = 0 /\ current = 0)
      /\ \A i, j \in 1 .. Count : timers[i].id = timers[j].id => i = j
  BY Entries DEF Inv, TypeOK, CursorInBounds, UniqueIds
<1>1. ASSUME NEW p \in Intervals, SoftwareTimerAdd(p) PROVE Kept
  <2>1. /\ Count' = Count + 1 /\ \A i \in 1 .. Count : timers'[i] = timers[i]
        /\ timers'[Count + 1] = [expire |-> (now + p) % Word, interval |-> p, id |-> nextId]
        /\ \A i \in 1 .. Count : timers[i].id # nextId
    BY <1>0, <1>1, AddEffect
  <2> QED BY <1>0, <2>1, NoneMoved DEF Moved
<1>2. ASSUME NEW id \in Ids, SoftwareTimerDelete(id) PROVE Kept
  <2>1. PICK n \in 1 .. Count :
          \A j \in 1 .. Count - 1 : timers'[j] = IF j = n THEN timers[Count] ELSE timers[j]
    BY <1>0, <1>2, DeleteEffect
  <2>2. Count' = Count - 1
    BY <1>0, <1>2, DeleteEffect
  <2>3. ASSUME NEW i \in 1 .. Count, NEW j \in 1 .. Count' PROVE ~Moved(i, j)
    <3>1. PICK k \in 1 .. Count : timers'[j] = timers[k]
      BY <1>0, <2>1, <2>2
    <3> QED BY <1>0, <3>1 DEF Moved
  <2> QED BY <2>3, NoneMoved
<1>3. ASSUME NEW id \in Ids, NEW p \in Intervals, SoftwareTimerChange(id, p) PROVE Kept
  <2>1. PICK n \in 1 .. Count :
          /\ timers[n].id = id
          /\ timers'[n] = [expire |-> (now + p) % Word, interval |-> p, id |-> id]
          /\ \A j \in 1 .. Count : j # n => timers'[j] = timers[j]
    BY <1>0, <1>3, ChangeEffect
  <2>2. Count' = Count /\ call' = call
    BY <1>0, <1>3, ChangeEffect
  <2>3. ASSUME NEW i \in 1 .. Count, NEW j \in 1 .. Count', Moved(i, j)
        PROVE  i = n /\ MovedBy(i, j)
    <3>1. i = j
      BY <1>0, <2>1, <2>2, <2>3 DEF Moved
    <3>2. i = n
      BY <2>1, <2>2, <2>3, <3>1 DEF Moved
    <3> QED BY <1>3, <2>1, <2>2, <3>2 DEF MovedBy
  <2> QED BY <2>3, OneMoved
<1>4. CASE RunReturn
  <2>1. CASE Count = 0
    <3>1. Count' = 0
      BY <1>4, <2>1, ReturnEffect
    <3> QED BY <1>0, <2>1, <3>1, NoneMoved
  <2>2. CASE current < Count
    <3> DEFINE n == current + 1
    <3>1. /\ n \in 1 .. Count /\ Count' = Count /\ call # NoCall /\ call' = NoCall
          /\ timers'[n].expire = (call.start + call.interval) % Word
          /\ timers'[n].id = timers[n].id
          /\ \A j \in 1 .. Count : j # n => timers'[j] = timers[j]
      BY <1>0, <1>4, <2>2, ReturnEffect
    <3>2. timers[n].id = call.id \/ call.deleted
      BY <3>1, Entries DEF OfCursor, Inv
    <3> HIDE DEF n
    <3>3. ASSUME NEW i \in 1 .. Count, NEW j \in 1 .. Count', Moved(i, j)
          PROVE  i = n /\ MovedBy(i, j)
      <4>1. i = j
        BY <1>0, <3>1, <3>3 DEF Moved
      <4>2. i = n
        BY <3>1, <3>3, <4>1 DEF Moved
      <4> QED BY <3>1, <3>2, <4>1, <4>2 DEF MovedBy
    <3> QED BY <3>1, <3>3, OneMoved
  <2> QED BY <1>0, <2>1, <2>2
<1>5. CASE RunNotDue \/ RunFire \/ Tick
  <2>1. timers' = timers
    BY <1>5 DEF RunNotDue, RunFire, Tick
  <2> QED BY <1>0, <2>1, NoneMoved DEF Moved, Count
<1> QED BY <1>1, <1>2, <1>3, <1>4, <1>5 DEF Next

(* Nothing but its owner's calls and the end of a callback moves a deadline,   *)
(* and the end of a callback moves one: that of its own timer, unless it has   *)
(* deleted a timer.  For any number of timers, any word and any callbacks.     *)
THEOREM DeadlinesKeptHolds == Spec => DeadlinesKept
<1>1. Init => Inv /\ OfCursor
  BY InitInv DEF Init, OfCursor
<1>2. Inv /\ OfCursor /\ [Next]_vars => Inv' /\ OfCursor'
  BY StepInv, OfCursorStep
<1>3. Inv /\ OfCursor /\ [Next]_vars =>
        [/\ \A i \in 1 .. Count, j \in 1 .. Count' : Moved(i, j) => MovedBy(i, j)
         /\ \A i, k \in Moves : i = k]_vars
  BY KeptStep DEF Kept
<1> QED BY <1>1, <1>2, <1>3, PTL DEF Spec, DeadlinesKept

----------------------------------------------------------------------------
(* The invariant of the deadlines.                                            *)
LEMMA NewDeadline ==
  ASSUME TypeOK, Wide, NEW p \in Intervals
  PROVE  SignedDiff((now + p) % Word, now) = p /\ 0 - MaxLate <= p /\ p \in Nat
<1>1. p \in Nat /\ p < Word \div 2 /\ now \in Clock /\ MaxLate \in Nat
  BY Entries, IntervalAssumption DEF Wide
<1>2. SignedDiff(now, now) = 0
  <2>1. now \in Int /\ now - now = 0 /\ 0 < Word \div 2
    BY <1>1, Entries, Half
  <2> QED BY <1>1, <2>1, Difference
<1>3. SignedDiff((now + p) % Word, now) = p - 0
  BY <1>1, <1>2, Later
<1> QED BY <1>1, <1>3

(* A new deadline is in time.                                                 *)
LEMMA NewInTime ==
  ASSUME TypeOK, Wide, NEW p \in Intervals, NEW t, t.expire = (now + p) % Word
  PROVE  InTime(t, now)
<1>1. SignedDiff(t.expire, now) = p /\ p \in Int /\ 0 - MaxLate <= p
  BY NewDeadline
<1>2. p <= p
  BY <1>1
<1> QED BY <1>1, <1>2 DEF InTime

LEMMA OnTimeStep == ASSUME Wide, Inv, OnTime, [Next]_vars PROVE OnTime'
<1>0. /\ TypeOK /\ Count \in Nat /\ now \in Clock /\ current \in Nat /\ MaxLate \in Nat
      /\ \A i \in 1 .. Count : timers[i].expire \in Clock
      /\ \A p \in Intervals : p \in Nat /\ p < Word \div 2
  BY Entries, IntervalAssumption DEF TypeOK, Wide, Inv
<1>1. ASSUME NEW p \in Intervals, SoftwareTimerAdd(p) PROVE OnTime'
  <2>1. /\ Count' = Count + 1 /\ \A i \in 1 .. Count : timers'[i] = timers[i]
        /\ timers'[Count + 1] = [expire |-> (now + p) % Word, interval |-> p, id |-> nextId]
        /\ UNCHANGED <<now, current, call>>
    BY <1>0, <1>1, AddEffect
  <2>2. InTime(timers'[Count + 1], now)
    BY <1>0, <2>1, NewInTime
  <2>3. \A i \in 1 .. Count' : InTime(timers'[i], now')
    BY <1>0, <2>1, <2>2 DEF OnTime
  <2>4. Recent'
    BY <2>1 DEF OnTime, Recent
  <2> QED BY <2>3, <2>4 DEF OnTime
<1>2. ASSUME NEW id \in Ids, SoftwareTimerDelete(id) PROVE OnTime'
  <2>1. now' = now /\ Count' = Count - 1
        /\ IF call = NoCall THEN call' = NoCall ELSE call'.start = call.start
    BY <1>0, <1>2, DeleteEffect
  <2>2. PICK i \in 1 .. Count :
          \A j \in 1 .. Count - 1 : timers'[j] = IF j = i THEN timers[Count] ELSE timers[j]
    BY <1>0, <1>2, DeleteEffect
  <2>3. ASSUME NEW j \in 1 .. Count' PROVE InTime(timers'[j], now')
    <3>1. PICK k \in 1 .. Count : timers'[j] = timers[k]
      BY <1>0, <2>1, <2>2
    <3> QED BY <2>1, <3>1 DEF OnTime
  <2>4. Recent'
    BY <2>1 DEF OnTime, Recent
  <2> QED BY <2>3, <2>4 DEF OnTime
<1>3. ASSUME NEW id \in Ids, NEW p \in Intervals, SoftwareTimerChange(id, p) PROVE OnTime'
  <2>1. PICK i \in 1 .. Count :
          /\ timers'[i] = [expire |-> (now + p) % Word, interval |-> p, id |-> id]
          /\ \A j \in 1 .. Count : j # i => timers'[j] = timers[j]
    BY <1>0, <1>3, ChangeEffect
  <2>2. InTime(timers'[i], now)
    BY <1>0, <2>1, NewInTime
  <2>3. Count' = Count /\ UNCHANGED <<now, call>>
    BY <1>0, <1>3, ChangeEffect
  <2>4. \A j \in 1 .. Count' : InTime(timers'[j], now')
    BY <2>1, <2>2, <2>3 DEF OnTime
  <2>5. Recent'
    BY <2>3 DEF OnTime, Recent
  <2> QED BY <2>4, <2>5 DEF OnTime
<1>4. CASE RunNotDue
  BY <1>4 DEF RunNotDue, OnTime, Recent, Count
<1>5. CASE RunFire
  <2>1. SignedDiff(now, now) \in 0 .. MaxLate
    BY <1>0, Entries, Half, Difference DEF Wide
  <2>2. call'.start = now /\ UNCHANGED <<now, timers>>
    BY <1>5 DEF RunFire
  <2> QED BY <2>1, <2>2 DEF OnTime, Recent, Count
<1>6. CASE RunReturn
  <2>1. /\ SignedDiff((call.start + call.interval) % Word, now) =
             call.interval - SignedDiff(now, call.start)
        /\ SignedDiff(now, call.start) \in 0 .. MaxLate /\ call.interval \in Intervals
    BY <1>0, <1>6, ReturnEffect, Entries, Later DEF OnTime, Recent, Wide
  <2>2. call' = NoCall /\ now' = now /\ Count' = Count
    BY <1>6, ReturnEffect
  <2>3. ASSUME NEW j \in 1 .. Count PROVE InTime(timers'[j], now)
    <3>1. CASE timers'[j] = timers[j]
      BY <3>1 DEF OnTime
    <3>2. CASE timers'[j].expire = (call.start + call.interval) % Word
      <4>1. call.interval \in Nat
        BY <1>0, <2>1
      <4>2. /\ 0 - MaxLate <= SignedDiff(timers'[j].expire, now)
            /\ SignedDiff(timers'[j].expire, now) <= call.interval
        BY <1>0, <2>1, <3>2, <4>1
      <4> QED BY <2>1, <4>2 DEF InTime
    <3> QED BY <1>0, <1>6, <3>1, <3>2, ReturnEffect
  <2> QED BY <2>2, <2>3 DEF OnTime, Recent
<1>7. CASE Tick
  <2>1. /\ UNCHANGED <<timers, call, current>> /\ now' = (now + 1) % Word
        /\ \A i \in 1 .. Count : SignedDiff(now, timers[i].expire) < MaxLate
        /\ call # NoCall => SignedDiff(now, call.start) < MaxLate
    BY <1>7 DEF Tick
  <2>2. ASSUME NEW i \in 1 .. Count PROVE InTime(timers'[i], now')
    <3>1. SignedDiff(timers[i].expire, now) \in Int
      BY <1>0, Difference
    <3>2. PICK p \in Intervals : SignedDiff(timers[i].expire, now) <= p
      BY DEF OnTime, InTime
    <3>3. /\ SignedDiff(timers[i].expire, now) < Word \div 2
          /\ SignedDiff(timers[i].expire, now) >= 0 - MaxLate
      BY <1>0, <3>1, <3>2, Half DEF OnTime, InTime
    <3>4. /\ SignedDiff(timers[i].expire, now') = SignedDiff(timers[i].expire, now) - 1
          /\ SignedDiff(timers[i].expire, now) - 1 >= 0 - MaxLate
      BY <1>0, <2>1, <3>3, Ticked
    <3>5. SignedDiff(timers[i].expire, now) - 1 <= p
      BY <1>0, <3>1, <3>2
    <3> QED BY <1>0, <2>1, <3>1, <3>4, <3>5 DEF InTime
  <2>3. Recent'
    <3> SUFFICES ASSUME call # NoCall PROVE SignedDiff(now', call.start) \in 0 .. MaxLate
      BY <2>1 DEF OnTime, Recent
    <3>1. /\ call.start \in Clock /\ SignedDiff(now, call.start) \in 0 .. MaxLate
          /\ SignedDiff(now, call.start) < MaxLate
      BY <1>0, <2>1, Entries DEF OnTime, Recent
    <3> QED BY <1>0, <2>1, <3>1, TickedSince
  <2> QED BY <2>1, <2>2, <2>3 DEF OnTime, Count
<1>8. CASE UNCHANGED vars
  BY <1>8 DEF vars, OnTime, Recent, Count
<1> QED BY <1>1, <1>2, <1>3, <1>4, <1>5, <1>6, <1>7, <1>8 DEF Next

---------------------------------------------------------------------------
(* The refinement: what TimerService sees of the timers.                      *)

Services ==
  [i \in LiveIds |->
     LET t == timers[CHOOSE k \in 1 .. Count : timers[k].id = i]
     IN  [left |-> SignedDiff(t.expire, now), period |-> t.interval]]

(* What is left of the timer t at the time n.                                 *)
Entry(t, n) == [left |-> SignedDiff(t.expire, n), period |-> t.interval]

(* What it sees of the callback.                                              *)
Calling ==
  [timer   |-> call.id,
   left    |-> IF call = NoCall THEN 0 ELSE call.interval - SignedDiff(now, call.start),
   deleted |-> call.deleted]

LEMMA NoCalling ==
  ASSUME TypeOK
  PROVE  /\ call = NoCall => Calling = Service!NoOne
         /\ call' = NoCall => Calling' = Service!NoOne
         /\ call # NoCall => Calling # Service!NoOne
<1>1. call = NoCall => Calling = Service!NoOne
  BY DEF Calling, NoCall, Service!NoOne
<1>2. call' = NoCall => Calling' = Service!NoOne
  BY DEF Calling, NoCall, Service!NoOne
<1>3. ASSUME call # NoCall PROVE Calling # Service!NoOne
  <2>1. call.id # -1
    BY <1>3, Entries, SizeAssumption DEF Ids
  <2> QED BY <2>1 DEF Calling, Service!NoOne
<1> QED BY <1>1, <1>2, <1>3

(* The place of an id.                                                        *)
LEMMA Lookup ==
  ASSUME NEW ts, NEW n \in Nat, \A i, j \in 1 .. n : ts[i].id = ts[j].id => i = j,
         NEW k \in 1 .. n
  PROVE  (CHOOSE j \in 1 .. n : ts[j].id = ts[k].id) = k
OBVIOUS

LEMMA Served ==
  ASSUME Count \in Nat, UniqueIds
  PROVE  /\ Services = [i \in LiveIds |-> Services[i]]
         /\ \A k \in 1 .. Count : /\ timers[k].id \in LiveIds
                                  /\ Services[timers[k].id] = Entry(timers[k], now)
<1>1. Services = [i \in LiveIds |-> Services[i]]
  BY DEF Services
<1>2. ASSUME NEW k \in 1 .. Count
      PROVE  /\ timers[k].id \in LiveIds
             /\ Services[timers[k].id] = Entry(timers[k], now)
  <2>1. (CHOOSE j \in 1 .. Count : timers[j].id = timers[k].id) = k
    BY Lookup DEF UniqueIds
  <2>2. timers[k].id \in LiveIds
    BY DEF LiveIds
  <2> QED BY <2>1, <2>2 DEF Services, Entry
<1> QED BY <1>1, <1>2

LEMMA ServedNext ==
  ASSUME Count' \in Nat, UniqueIds'
  PROVE  /\ Services' = [i \in LiveIds' |-> Services'[i]]
         /\ \A k \in 1 .. Count' : /\ timers'[k].id \in LiveIds'
                                   /\ Services'[timers'[k].id] = Entry(timers'[k], now')
<1>1. Services' = [i \in LiveIds' |-> Services'[i]]
  BY DEF Services
<1>2. ASSUME NEW k \in 1 .. Count'
      PROVE  /\ timers'[k].id \in LiveIds'
             /\ Services'[timers'[k].id] = Entry(timers'[k], now')
  <2>1. (CHOOSE j \in 1 .. Count' : timers'[j].id = timers'[k].id) = k
    BY Lookup DEF UniqueIds
  <2>2. timers'[k].id \in LiveIds'
    BY DEF LiveIds
  <2> QED BY <2>1, <2>2 DEF Services, Entry
<1> QED BY <1>1, <1>2

LEMMA AddServed ==
  ASSUME Inv, Inv', Wide, NEW p \in Intervals, SoftwareTimerAdd(p)
  PROVE  Service!Add(nextId, p) /\ nextId \in Ids
<1>1. /\ Count \in Nat /\ Count' = Count + 1 /\ nextId \in Ids
      /\ timers'[Count + 1] = [expire |-> (now + p) % Word, interval |-> p, id |-> nextId]
      /\ \A i \in 1 .. Count : timers'[i] = timers[i]
      /\ UNCHANGED <<now, call>>
  BY AddEffect, Entries DEF Inv
<1>2. nextId \notin LiveIds
  BY DEF SoftwareTimerAdd
<1>3. LiveIds' = LiveIds \cup {nextId}
  <2>1. ASSUME NEW i \in LiveIds' PROVE i \in LiveIds \cup {nextId}
    <3>1. PICK k \in 1 .. Count + 1 : i = timers'[k].id
      BY <1>1 DEF LiveIds
    <3> QED BY <1>1, <3>1 DEF LiveIds
  <2>2. ASSUME NEW i \in LiveIds \cup {nextId} PROVE i \in LiveIds'
    <3>1. \A k \in 1 .. Count + 1 : timers'[k].id \in LiveIds'
      BY <1>1 DEF LiveIds
    <3>2. CASE i = nextId
      BY <1>1, <3>1, <3>2
    <3>3. CASE i \in LiveIds
      BY <1>1, <3>1, <3>3 DEF LiveIds
    <3> QED BY <3>2, <3>3
  <2> QED BY <2>1, <2>2
<1>4. Services'[nextId] = [left |-> p, period |-> p]
  <2>1. Services'[timers'[Count + 1].id] = Entry(timers'[Count + 1], now')
    BY <1>1, ServedNext DEF Inv
  <2> QED BY <1>1, <2>1, NewDeadline DEF Entry, Inv
<1>5. \A i \in LiveIds : Services'[i] = Services[i]
  BY <1>1, Served, ServedNext DEF Inv, LiveIds
<1>6. Services' = [i \in DOMAIN Services \cup {nextId} |->
                     IF i = nextId THEN [left |-> p, period |-> p] ELSE Services[i]]
  BY <1>1, <1>3, <1>4, <1>5, Served, ServedNext DEF Inv
<1>7. nextId \notin DOMAIN Services /\ Calling' = Calling
  BY <1>1, <1>2, Served DEF Inv, Calling
<1> QED BY <1>1, <1>6, <1>7 DEF Service!Add, Services, Calling

LEMMA DeleteServed ==
  ASSUME Inv, Inv', NEW id \in Ids, SoftwareTimerDelete(id)
  PROVE  Service!Delete(id)
<1>1. /\ TypeOK /\ Count \in Nat /\ Count' = Count - 1 /\ now' = now
      /\ \A i, j \in 1 .. Count : timers[i].id = timers[j].id => i = j
  BY DeleteEffect, Entries DEF Inv, UniqueIds
<1>2. PICK i \in 1 .. Count :
        /\ timers[i].id = id
        /\ \A j \in 1 .. Count - 1 : timers'[j] = IF j = i THEN timers[Count] ELSE timers[j]
  BY DeleteEffect DEF Inv
<1>3. ASSUME NEW k \in 1 .. Count - 1
      PROVE  \E j \in 1 .. Count : j # i /\ timers'[k] = timers[j]
  <2>1. CASE k = i
    BY <1>1, <1>2, <2>1
  <2>2. CASE k # i
    BY <1>1, <1>2, <2>2
  <2> QED BY <2>1, <2>2
<1>4. ASSUME NEW j \in 1 .. Count, j # i
      PROVE  \E k \in 1 .. Count - 1 : timers'[k] = timers[j]
  <2>1. CASE j = Count
    BY <1>1, <1>2, <1>4, <2>1
  <2>2. CASE j # Count
    BY <1>1, <1>2, <1>4, <2>2
  <2> QED BY <2>1, <2>2
<1>5. LiveIds' = LiveIds \ {id}
  <2>1. ASSUME NEW x \in LiveIds' PROVE x \in LiveIds \ {id}
    <3>1. PICK k \in 1 .. Count - 1 : x = timers'[k].id
      BY <1>1 DEF LiveIds
    <3> QED BY <1>1, <1>2, <1>3, <3>1 DEF LiveIds
  <2>2. ASSUME NEW x \in LiveIds \ {id} PROVE x \in LiveIds'
    <3>1. PICK j \in 1 .. Count : x = timers[j].id
      BY DEF LiveIds
    <3> QED BY <1>1, <1>2, <1>4, <3>1 DEF LiveIds
  <2> QED BY <2>1, <2>2
<1>6. ASSUME NEW x \in LiveIds' PROVE Services'[x] = Services[x]
  <2>1. PICK k \in 1 .. Count - 1 : x = timers'[k].id
    BY <1>1 DEF LiveIds
  <2>2. PICK j \in 1 .. Count : timers'[k] = timers[j]
    BY <1>3
  <2>3. Services'[timers'[k].id] = Entry(timers'[k], now')
    BY <1>1, ServedNext DEF Inv
  <2> QED BY <1>1, <2>1, <2>2, <2>3, Served DEF Inv
<1>7. Services' = [x \in DOMAIN Services \ {id} |-> Services[x]]
  BY <1>1, <1>5, <1>6, Served, ServedNext DEF Inv
<1>8. id \in DOMAIN Services
  BY <1>1, <1>2, Served DEF Inv
<1>9. Calling' = IF Calling = Service!NoOne THEN Service!NoOne
                 ELSE [Calling EXCEPT !.deleted = TRUE]
  <2>1. CASE call = NoCall
    <3>1. call' = NoCall
      BY <1>1, <2>1, DeleteEffect
    <3> QED BY <1>1, <2>1, <3>1, NoCalling
  <2>2. CASE call # NoCall
    <3>1. /\ call' # NoCall /\ call'.deleted = TRUE /\ call'.id = call.id
          /\ call'.start = call.start /\ call'.interval = call.interval
      BY <1>1, <2>2, DeleteEffect, Entries DEF Inv, TypeOK, Calls
    <3>2. Calling # Service!NoOne
      BY <1>1, <2>2, NoCalling
    <3> DEFINE l == call.interval - SignedDiff(now, call.start)
    <3>3. Calling' = [timer |-> call.id, left |-> l, deleted |-> TRUE]
      BY <1>1, <3>1 DEF Calling
    <3>4. Calling = [timer |-> call.id, left |-> l, deleted |-> call.deleted]
      BY <2>2 DEF Calling
    <3> DEFINE e == [Calling EXCEPT !.deleted = TRUE]
               R == [timer : {call.id}, left : {l}, deleted : {call.deleted, TRUE}]
    <3> HIDE DEF l
    <3>5. Calling \in R /\ Calling' \in R /\ Calling'.deleted = TRUE
      BY <3>3, <3>4
    <3>6. e \in R /\ e.deleted = TRUE
      BY <3>5
    <3>7. \A x, y \in R : x.deleted = y.deleted => x = y
      OBVIOUS
    <3> HIDE DEF e, R
    <3>8. Calling' = e
      BY <3>5, <3>6, <3>7
    <3> QED BY <3>2, <3>8 DEF e
  <2> QED BY <2>1, <2>2
<1> QED BY <1>7, <1>8, <1>9 DEF Service!Delete, Services, Calling

(* A step that keeps the ids and what is left of every timer but one.         *)
LEMMA OneServed ==
  ASSUME Inv, Inv', Count' = Count, NEW i \in 1 .. Count,
         \A j \in 1 .. Count : timers'[j].id = timers[j].id,
         \A j \in 1 .. Count : j # i => Entry(timers'[j], now') = Entry(timers[j], now)
  PROVE  Services' = [Services EXCEPT ![timers[i].id] = Entry(timers'[i], now')]
<1>1. Count \in Nat /\ \A j, k \in 1 .. Count : timers[j].id = timers[k].id => j = k
  BY Entries DEF Inv, UniqueIds
<1>2. LiveIds' = LiveIds
  BY DEF LiveIds
<1>3. ASSUME NEW x \in LiveIds
      PROVE  Services'[x] = IF x = timers[i].id THEN Entry(timers'[i], now')
                                                ELSE Services[x]
  <2>1. PICK j \in 1 .. Count : timers[j].id = x
    BY DEF LiveIds
  <2>2. Services'[timers'[j].id] = Entry(timers'[j], now')
    BY <1>1, ServedNext DEF Inv
  <2>3. Services[timers[j].id] = Entry(timers[j], now)
    BY <1>1, Served DEF Inv
  <2>4. CASE j = i
    BY <2>1, <2>2, <2>4
  <2>5. CASE j # i
    BY <1>1, <2>1, <2>2, <2>3, <2>5
  <2> QED BY <2>4, <2>5
<1>4. Services' = [x \in LiveIds |-> Services'[x]] /\ Services = [x \in LiveIds |-> Services[x]]
  BY <1>1, <1>2, Served, ServedNext DEF Inv
<1> DEFINE e == Entry(timers'[i], now')
           y == timers[i].id
           f == Services
           g == Services'
<1>5. g = [x \in LiveIds |-> IF x = y THEN e ELSE f[x]]
  BY <1>3, <1>4
<1>6. f = [x \in LiveIds |-> f[x]]
  BY <1>4
<1> HIDE DEF e, y, f, g
<1>7. g = [f EXCEPT ![y] = e]
  BY <1>5, <1>6
<1> QED BY <1>7 DEF e, y, f, g

LEMMA ChangeServed ==
  ASSUME Inv, Inv', Wide, NEW id \in Ids, NEW p \in Intervals,
         SoftwareTimerChange(id, p)
  PROVE  Service!Change(id, p)
<1>1. /\ TypeOK /\ Count \in Nat /\ Count' = Count /\ UNCHANGED <<now, call>>
  BY ChangeEffect, Entries DEF Inv
<1>2. PICK i \in 1 .. Count :
        /\ timers[i].id = id
        /\ timers'[i] = [expire |-> (now + p) % Word, interval |-> p, id |-> id]
        /\ \A j \in 1 .. Count : j # i => timers'[j] = timers[j]
  BY ChangeEffect DEF Inv
<1>3. Entry(timers'[i], now') = [left |-> p, period |-> p]
  BY <1>1, <1>2, NewDeadline DEF Entry
<1>4. Services' = [Services EXCEPT ![id] = [left |-> p, period |-> p]]
  BY <1>1, <1>2, <1>3, OneServed
<1>5. id \in DOMAIN Services /\ Calling' = Calling
  BY <1>1, <1>2, Served DEF Inv, Calling
<1> QED BY <1>4, <1>5 DEF Service!Change, Services, Calling

LEMMA RunServed ==
  ASSUME Inv, Inv', OfCursor, OnTime, Wide, SoftwareTimerRun
  PROVE  \/ UNCHANGED <<Services, Calling>>
         \/ \E id \in Ids : Service!Fire(id)
         \/ Service!Return
<1>0. /\ TypeOK /\ Count \in Nat /\ now \in Clock /\ current \in Nat
      /\ \A j \in 1 .. Count : timers[j].id \in Ids /\ timers[j].expire \in Clock
      /\ \A p \in Intervals : p \in Nat /\ p < Word \div 2
  BY Entries, IntervalAssumption DEF Inv, TypeOK, Wide
<1>1. CASE RunNotDue
  <2>1. UNCHANGED <<timers, now, call>>
    BY <1>1 DEF RunNotDue
  <2> QED BY <2>1 DEF Services, Calling, LiveIds, Count
<1>2. CASE RunFire
  <2> DEFINE i == current + 1
             t == timers[i]
  <2>1. i \in 1 .. Count
    BY <1>0, <1>2 DEF RunFire, CursorInBounds, Inv
  <2>2. /\ call = NoCall /\ Due(t) /\ UNCHANGED <<timers, now>>
        /\ call' = [id |-> t.id, interval |-> t.interval, start |-> now, deleted |-> FALSE]
    BY <1>2 DEF RunFire
  <2>3. SignedDiff(now, now) = 0
    <3>1. now \in Int /\ now - now = 0 /\ 0 < Word \div 2
      BY <1>0, Entries, Half, IntervalAssumption DEF Wide
    <3> QED BY <1>0, <3>1, Difference
  <2>4. t.interval \in Nat /\ t.expire \in Clock /\ t.id \in Ids /\ t.id # -1
    BY <1>0, <2>1, Entries
  <2>5. SignedDiff(t.expire, now) <= 0
    <3>1. SignedDiff(t.expire, now) \in Int
      BY <1>0, <2>4, Difference
    <3>2. PICK p \in Intervals : SignedDiff(t.expire, now) <= p
      BY <2>1 DEF OnTime, InTime
    <3>3. SignedDiff(t.expire, now) < Word \div 2
      BY <1>0, <3>1, <3>2, Half
    <3> QED BY <1>0, <2>2, <2>4, <3>3, DueLeft DEF Due
  <2>6. t.id \in DOMAIN Services /\ Services[t.id] = Entry(t, now)
    BY <1>0, <2>1, Served DEF Inv
  <2> HIDE DEF i
  <2>7. Services' = Services
    BY <2>2 DEF Services, LiveIds, Count
  <2>8. Calling' = [timer |-> t.id, left |-> t.interval, deleted |-> FALSE]
    <3>1. call' # NoCall
      BY <2>2, <2>4 DEF NoCall
    <3>2. /\ call'.id = t.id /\ call'.interval = t.interval /\ call'.deleted = FALSE
          /\ call'.start = now /\ now' = now
      BY <2>2
    <3>3. t.interval - 0 = t.interval
      BY <2>4
    <3> QED BY <2>3, <3>1, <3>2, <3>3 DEF Calling
  <2>9. Calling = Service!NoOne
    BY <1>0, <2>2, NoCalling
  <2>10. Services[t.id].left <= 0 /\ Services[t.id].period = t.interval
    BY <2>5, <2>6 DEF Entry
  <2> DEFINE x == t.id
  <2>11. x \in Ids /\ Service!Fire(x)
    BY <2>4, <2>6, <2>7, <2>8, <2>9, <2>10 DEF Service!Fire, Services, Calling
  <2> HIDE DEF x
  <2> QED BY <2>11 DEF Service!Fire
<1>3. CASE RunReturn
  <2>1. call # NoCall /\ call' = NoCall /\ now' = now /\ Count' = Count
    BY <1>3, ReturnEffect
  <2>2. Calling # Service!NoOne /\ Calling' = Service!NoOne
    BY <1>0, <2>1, NoCalling
  <2>3. CASE Count = 0
    <3>1. timers' = timers
      BY <1>0, <1>3, <2>3, ReturnEffect
    <3>2. Services' = Services
      BY <2>1, <3>1 DEF Services, LiveIds, Count
    <3>3. LiveIds = {}
      BY <2>3 DEF LiveIds
    <3>4. DOMAIN Services = {}
      BY <3>3 DEF Services
    <3> QED BY <2>2, <3>2, <3>4 DEF Service!Return, Services, Calling
  <2>4. CASE Count # 0
    <3> DEFINE i == current + 1
               x == timers[i].id
               l == call.interval - SignedDiff(now, call.start)
    <3>1. /\ i \in 1 .. Count
          /\ timers'[i] = [expire   |-> (call.start + call.interval) % Word,
                           interval |-> timers[i].interval, id |-> timers[i].id]
          /\ \A j \in 1 .. Count : j # i => timers'[j] = timers[j]
      BY <1>0, <1>3, <2>4, ReturnEffect
    <3>2. SignedDiff((call.start + call.interval) % Word, now) = l
      <4>1. /\ call.start \in Clock /\ call.interval \in Nat /\ call.interval < Word \div 2
            /\ SignedDiff(now, call.start) \in 0 .. MaxLate
        BY <1>0, <2>1, Entries DEF OnTime, Recent
      <4> QED BY <1>0, <4>1, Later
    <3>3. x = call.id \/ call.deleted
      BY <2>1 DEF OfCursor
    <3> HIDE DEF i, l
    <3>4. Services' = [Services EXCEPT ![x] = Entry(timers'[i], now')]
      BY <2>1, <3>1, OneServed
    <3>5. x \in DOMAIN Services /\ Services[x] = Entry(timers[i], now)
      BY <1>0, <3>1, Served DEF Inv
    <3>6. Entry(timers'[i], now') = [Services[x] EXCEPT !.left = l]
      BY <2>1, <3>1, <3>2, <3>5 DEF Entry
    <3>7. Calling.timer = call.id /\ Calling.left = l /\ Calling.deleted = call.deleted
      BY <2>1 DEF Calling, l
    <3>8. Services' = [Services EXCEPT ![x].left = Calling.left]
      BY <3>4, <3>6, <3>7
    <3>9. x = Calling.timer \/ Calling.deleted
      BY <3>3, <3>7
    <3> HIDE DEF x
    <3> QED BY <2>2, <3>5, <3>8, <3>9 DEF Service!Return, Services, Calling
  <2> QED BY <2>3, <2>4
<1> QED BY <1>1, <1>2, <1>3 DEF SoftwareTimerRun

LEMMA TickServed ==
  ASSUME Inv, Inv', OnTime, Wide, Tick
  PROVE  Service!Tick
<1>1. /\ UNCHANGED <<timers, call>> /\ now' = (now + 1) % Word /\ Count' = Count
      /\ \A i \in 1 .. Count : SignedDiff(now, timers[i].expire) < MaxLate
      /\ call # NoCall => SignedDiff(now, call.start) < MaxLate
  BY DEF Tick, Count
<1>2. /\ TypeOK /\ Count \in Nat /\ now \in Clock /\ MaxLate \in Nat
      /\ \A i \in 1 .. Count : timers[i].expire \in Clock
      /\ \A p \in Intervals : p \in Nat /\ p < Word \div 2
  BY Entries, IntervalAssumption DEF Inv, Wide
<1>3. ASSUME NEW i \in 1 .. Count
      PROVE  Entry(timers'[i], now') = [Entry(timers[i], now) EXCEPT !.left = @ - 1]
  <2>1. SignedDiff(timers[i].expire, now) \in Int
    BY <1>2, Difference
  <2>2. PICK p \in Intervals : SignedDiff(timers[i].expire, now) <= p
    BY DEF OnTime, InTime
  <2>3. /\ SignedDiff(timers[i].expire, now) < Word \div 2
        /\ SignedDiff(timers[i].expire, now) >= 0 - MaxLate
    BY <1>2, <2>1, <2>2, Half DEF OnTime, InTime
  <2>4. SignedDiff(timers[i].expire, now') = SignedDiff(timers[i].expire, now) - 1
    BY <1>1, <1>2, <2>3, Ticked
  <2> QED BY <1>1, <2>4 DEF Entry
<1>4. Calling' = IF Calling = Service!NoOne THEN Service!NoOne
                 ELSE [Calling EXCEPT !.left = @ - 1]
  <2>1. CASE call = NoCall
    BY <1>1, <1>2, <2>1, NoCalling
  <2>2. CASE call # NoCall
    <3>1. /\ call.interval \in Nat /\ call.start \in Clock
          /\ SignedDiff(now, call.start) \in 0 .. MaxLate
          /\ SignedDiff(now, call.start) < MaxLate
      BY <1>1, <1>2, <2>2, Entries DEF OnTime, Recent
    <3>2. SignedDiff(now', call.start) = SignedDiff(now, call.start) + 1
      BY <1>1, <1>2, <3>1, TickedSince
    <3>3. call.interval - SignedDiff(now', call.start)
          = (call.interval - SignedDiff(now, call.start)) - 1
      BY <1>2, <3>1, <3>2
    <3>4. Calling # Service!NoOne
      BY <1>2, <2>2, NoCalling
    <3> QED BY <1>1, <2>2, <3>3, <3>4 DEF Calling
  <2> QED BY <2>1, <2>2
<1>5. LiveIds' = LiveIds
  BY <1>1 DEF LiveIds
<1>6. ASSUME NEW x \in LiveIds PROVE Services'[x] = [Services[x] EXCEPT !.left = @ - 1]
  <2>1. PICK i \in 1 .. Count : timers[i].id = x
    BY DEF LiveIds
  <2>2. Services'[timers'[i].id] = Entry(timers'[i], now')
    BY <1>1, <1>2, ServedNext DEF Inv
  <2>3. Services[timers[i].id] = Entry(timers[i], now)
    BY <1>2, Served DEF Inv
  <2> QED BY <1>1, <1>3, <2>1, <2>2, <2>3
<1>7. Services' = [x \in DOMAIN Services |-> [Services[x] EXCEPT !.left = @ - 1]]
  BY <1>1, <1>2, <1>5, <1>6, Served, ServedNext DEF Inv
<1> QED BY <1>4, <1>7 DEF Service!Tick, Services, Calling

LEMMA OnTimeInvariant == Wide /\ Spec => [](Inv /\ OfCursor /\ OnTime)
<1>1. Init => Inv /\ OfCursor /\ OnTime
  BY InitInv, EmptySeq DEF Init, OnTime, OfCursor, Recent, Count
<1>2. CASE Wide
  <2>1. Inv /\ OfCursor /\ OnTime /\ [Next]_vars => Inv' /\ OfCursor' /\ OnTime'
    BY <1>2, StepInv, OfCursorStep, OnTimeStep
  <2> QED BY <1>1, <2>1, PTL DEF Spec
<1>3. CASE ~Wide
  BY <1>3
<1> QED BY <1>2, <1>3

(* The array, the cursor and the wrapping clock are a timer service: every     *)
(* step is one of TimerService's or changes nothing its users can see.         *)
THEOREM Refinement == Wide /\ Spec => ImplementsService
<1>1. Init => Service!Init
  <2> SUFFICES ASSUME Init PROVE Service!Init
    OBVIOUS
  <2>1. LiveIds = {} /\ Calling = Service!NoOne
    BY InitInv, EmptySeq, NoCalling DEF Init, LiveIds, Count, Inv
  <2> QED BY <2>1 DEF Service!Init, Calling
<1>2. Wide /\ Inv /\ Inv' /\ OfCursor /\ OnTime /\ [Next]_vars => [Service!Next]_(Service!vars)
  <2> SUFFICES ASSUME Wide, Inv, Inv', OfCursor, OnTime, [Next]_vars
               PROVE  [Service!Next]_(Service!vars)
    OBVIOUS
  <2>1. ASSUME NEW p \in Intervals, SoftwareTimerAdd(p) PROVE Service!Next
    <3>1. Service!Add(nextId, p) /\ nextId \in Ids
      BY <2>1, AddServed
    <3> QED BY <3>1 DEF Service!Next, Service!Add
  <2>2. ASSUME NEW id \in Ids, SoftwareTimerDelete(id) PROVE Service!Next
    <3>1. Service!Delete(id)
      BY <2>2, DeleteServed
    <3> QED BY <3>1 DEF Service!Next, Service!Delete
  <2>3. ASSUME NEW id \in Ids, NEW p \in Intervals, SoftwareTimerChange(id, p)
        PROVE  Service!Next
    <3>1. Service!Change(id, p)
      BY <2>3, ChangeServed
    <3> QED BY <3>1 DEF Service!Next, Service!Change
  <2>4. CASE SoftwareTimerRun
    <3>1. CASE UNCHANGED <<Services, Calling>>
      BY <3>1 DEF Service!vars, Services, Calling
    <3>2. ASSUME NEW id \in Ids, Service!Fire(id) PROVE Service!Next
      BY <3>2 DEF Service!Next, Service!Fire
    <3>3. CASE Service!Return
      BY <3>3 DEF Service!Next
    <3> QED BY <2>4, <3>1, <3>2, <3>3, RunServed
  <2>5. CASE Tick
    <3>1. Service!Tick
      BY <2>5, TickServed
    <3> QED BY <3>1 DEF Service!Next
  <2>6. CASE UNCHANGED vars
    <3>1. Services' = Services /\ Calling' = Calling
      BY <2>6 DEF vars, Services, Calling, LiveIds, Count
    <3> QED BY <3>1 DEF Service!vars, Services, Calling
  <2> QED BY <2>1, <2>2, <2>3, <2>4, <2>5, <2>6 DEF Next, SoftwareTimerRun
<1>3. CASE Wide
  <2>1. Inv /\ Inv' /\ OfCursor /\ OnTime /\ [Next]_vars => [Service!Next]_(Service!vars)
    BY <1>2, <1>3
  <2> QED BY <1>1, <1>3, <2>1, OnTimeInvariant, PTL DEF Spec, ImplementsService, Service!Spec
<1>4. CASE ~Wide
  BY <1>4
<1> QED BY <1>3, <1>4

==============================================================================
