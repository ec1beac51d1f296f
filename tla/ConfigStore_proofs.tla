-------------------------- MODULE ConfigStore_proofs --------------------------
(* Proofs about ConfigStore, for any sizes of pages, sector and settings.  The *)
(* invariant follows a save: what an erase has emptied so far, that nothing is *)
(* left before the write begins, and what the write has put back so far.       *)
(* The last section is about FirmwareInstall, where an installer shares the    *)
(* flash controller with the store.                                            *)
EXTENDS FirmwareInstall, TLAPS

End      == ConfigStart + SectorWords
Multiple == {l \in Nat : \E n \in Nat : l = n * PageWords}
Word0    == address - ConfigStart      \* the word being written

\* An idle store is saved, and its controller at rest.
IdleInv == state = "Idle" => /\ Stored(flash) = store /\ version = store
                             /\ fmc = "Idle" /\ job = Ready

\* What the hardware does is part of a save.
JobInv ==
  /\ job.op = "Ready" => job = Ready
  /\ job.op = "Program" => \E w \in Words : job.at = Cell(w) /\ job.word = version[w]
  /\ job.op = "Erase" => fmc = "EraseBusy" /\ job.at >= ConfigStart

\* An erase has emptied the cells before its address, but for the page at work.
EraseInv ==
  fmc \in {"EraseBusy", "EraseProgram"} =>
    /\ state \in {"Changed", "ChangedWaiting", "Erasing"}
    /\ ConfigStart <= address /\ address + left = End /\ left \in Multiple
    /\ \A c \in Cells : ConfigStart <= c /\ c < address
                          => flash[c] = Erased \/ (job.op = "Erase" /\ c \in Page(job.at))
    /\ job.op = "Program" => address = ConfigStart
    /\ fmc = "EraseProgram" => job = Ready /\ left > 0

\* Before a write begins the sector is empty.
CleanInv ==
  state \in {"ErasedWaiting", "Erased"} \/ (state = "Writing" /\ fmc = "Idle") =>
    /\ fmc = "Idle" /\ job = Ready
    /\ \A c \in Cells : ConfigStart <= c => flash[c] = Erased

\* A write has put back the words before its address.
WriteInv ==
  state = "Writing" /\ fmc # "Idle" =>
    /\ fmc \in {"WriteBusy", "WriteProgram"} /\ data = "store" /\ version = store
    /\ Word0 \in Words
    /\ \A w \in Words : /\ w < Word0 => flash[Cell(w)] = store[w]
                        /\ w > Word0 => flash[Cell(w)] = Erased
    /\ fmc = "WriteProgram" => /\ left = StoreWords - Word0
                               /\ job = Ready /\ flash[address] = Erased
    /\ fmc = "WriteBusy" =>
         /\ left = StoreWords - Word0 - 1
         /\ \/ job = Ready /\ flash[address] = store[Word0]
            \/ /\ job = [op |-> "Program", at |-> address, word |-> store[Word0]]
               /\ flash[address] = Erased

Inv == TypeOK /\ OneVersion /\ IdleInv /\ JobInv /\ EraseInv /\ CleanInv /\ WriteInv

----------------------------------------------------------------------------
LEMMA Sizes ==
  /\ PageWords \in Nat \ {0} /\ SectorWords \in Nat /\ FirmwareWords \in Nat
  /\ ConfigStart \in Nat /\ StoreWords \in Nat \ {0} /\ StoreWords <= SectorWords
  /\ 0 \in Words /\ 0 \in Cells
  /\ \A w \in Words : w \in Nat /\ w < StoreWords /\ Cell(w) \in Cells
                       /\ Cell(w) = ConfigStart + w
  /\ Cells \subseteq Nat
  /\ \A c \in Cells : c < End
BY SizeAssumption DEF Words, Cells, Cell, ConfigStart, End

LEMMA Word_Values == /\ Erased \in WordValues /\ Magic \in WordValues /\ Zero \in WordValues
                     /\ Defaults \in [Words -> WordValues]
BY ValueAssumption DEF WordValues, Defaults

\* A multiple of the page that is not zero holds a page.
LEMMA WholePage ==
  ASSUME NEW l \in Multiple, l > 0
  PROVE  l - PageWords \in Multiple
<1>1. PICK n \in Nat : l = n * PageWords
  BY DEF Multiple
<1>2. n # 0
  BY <1>1, Sizes
<1>3. n - 1 \in Nat /\ l - PageWords = (n - 1) * PageWords
  BY <1>1, <1>2, Sizes
<1>4. (n - 1) * PageWords \in Nat
  BY <1>3, Sizes
<1> QED BY <1>3, <1>4 DEF Multiple

LEMMA SectorMultiple == SectorWords \in Multiple
<1>1. PICK n \in 1..SectorWords : SectorWords = n * PageWords
  BY SizeAssumption
<1> QED BY <1>1, Sizes DEF Multiple

LEMMA ReadyJob == Ready \in Jobs /\ Ready.op = "Ready"
BY Sizes, Word_Values DEF Ready, Jobs

LEMMA InitInv == Init => Inv
<1> SUFFICES ASSUME Init PROVE Inv
  OBVIOUS
<1>1. TypeOK
  BY Sizes, Word_Values, ReadyJob DEF Init, TypeOK, States
<1>2. OneVersion
  BY Sizes DEF Init, OneVersion
<1>3. IdleInv /\ JobInv /\ EraseInv /\ CleanInv /\ WriteInv
  BY ReadyJob DEF Init, IdleInv, JobInv, EraseInv, CleanInv, WriteInv
<1> QED BY <1>1, <1>2, <1>3 DEF Inv

\* A start of the processor on cells that hold one version.
LEMMA BootInv ==
  ASSUME Inv, NEW f \in [Cells -> WordValues \cup Images], Boot(f),
         \A w \in Words : f[Cell(w)] \in {Erased, version[w]}
  PROVE  Inv'
<1>1. Stored(f) \in [Words -> WordValues]
  BY Sizes, Word_Values DEF Inv, TypeOK, Stored
<1>2. TypeOK'
  BY <1>1, Sizes, Word_Values, ReadyJob DEF Boot, Load, Inv, TypeOK, States
<1>3. OneVersion'
  BY DEF Boot, OneVersion, Stored
<1>4. IdleInv'
  BY DEF Boot, IdleInv, Load, Stored
<1>5. JobInv' /\ EraseInv' /\ CleanInv' /\ WriteInv'
  BY ReadyJob DEF Boot, JobInv, EraseInv, CleanInv, WriteInv
<1> QED BY <1>2, <1>3, <1>4, <1>5 DEF Inv

\* What a job does, wholly or in part, stays within the version.
LEMMA EffectVersion ==
  ASSUME Inv, NEW set \in SUBSET Cells
  PROVE  /\ Effect(set) \in [Cells -> WordValues \cup Images]
         /\ \A w \in Words : Effect(set)[Cell(w)] \in {Erased, version[w]}
<1>1. Effect(set) \in [Cells -> WordValues \cup Images]
  BY Word_Values DEF Effect, Inv, TypeOK, Jobs
<1>2. ASSUME NEW w \in Words PROVE Effect(set)[Cell(w)] \in {Erased, version[w]}
  <2>1. Cell(w) \in Cells /\ flash[Cell(w)] \in {Erased, version[w]}
    BY Sizes DEF Inv, OneVersion
  <2>2. CASE job.op = "Program" /\ Cell(w) = job.at
    <3>1. PICK v \in Words : job.at = Cell(v) /\ job.word = version[v]
      BY <2>2 DEF Inv, JobInv
    <3>2. v = w
      BY <2>2, <3>1, Sizes
    <3> QED BY <2>1, <2>2, <3>1, <3>2 DEF Effect
  <2>3. CASE ~(job.op = "Program" /\ Cell(w) = job.at)
    BY <2>1, <2>3 DEF Effect
  <2> QED BY <2>2, <2>3
<1> QED BY <1>1, <1>2

LEMMA PowerLossInv == Inv /\ PowerLoss => Inv'
<1> SUFFICES ASSUME Inv, PowerLoss PROVE Inv'
  OBVIOUS
<1>1. PICK set \in SUBSET (IF job = Ready THEN {} ELSE Page(job.at)) : Boot(Effect(set))
  BY DEF PowerLoss
<1>2. set \in SUBSET Cells
  BY DEF Page
<1> QED BY <1>1, <1>2, EffectVersion, BootInv

LEMMA RestartInv == Inv /\ Restart => Inv'
<1> SUFFICES ASSUME Inv, Restart PROVE Inv'
  OBVIOUS
<1>1. flash \in [Cells -> WordValues \cup Images]
      /\ \A w \in Words : flash[Cell(w)] \in {Erased, version[w]}
  BY DEF Inv, TypeOK, OneVersion
<1> QED BY <1>1, BootInv DEF Restart

\* A change of the settings: the save begins anew.
LEMMA ChangeInv ==
  ASSUME Inv, Changing, SetStatusChanged, store' \in [Words -> WordValues],
         rebooting' \in BOOLEAN
  PROVE  Inv'
<1>1. TypeOK'
  BY DEF Inv, TypeOK, Changing, SetStatusChanged, States, fmcVars
<1>2. OneVersion' /\ IdleInv' /\ JobInv' /\ CleanInv' /\ WriteInv'
  BY DEF Inv, OneVersion, IdleInv, JobInv, CleanInv, WriteInv, Changing, SetStatusChanged,
         fmcVars
<1>3. EraseInv'
  BY DEF Inv, EraseInv, Changing, SetStatusChanged, fmcVars, Page
<1> QED BY <1>1, <1>2, <1>3 DEF Inv

LEMMA UpdateInv ==
  ASSUME Inv, NEW w \in Words \ {0}, NEW v \in Values, Update(w, v)
  PROVE  Inv'
<1>1. store' \in [Words -> WordValues]
  BY DEF Update, Inv, TypeOK, WordValues
<1> QED BY <1>1, ChangeInv DEF Update, Inv, TypeOK

LEMMA HandleFactoryInv == Inv /\ HandleFactory => Inv'
<1> SUFFICES ASSUME Inv, HandleFactory PROVE Inv'
  OBVIOUS
<1>1. store' \in [Words -> WordValues]
  BY Word_Values DEF HandleFactory
<1> QED BY <1>1, ChangeInv DEF HandleFactory

LEMMA RebootInv == Inv /\ Reboot => Inv'
BY DEF Reboot, fmcVars, Inv, TypeOK, OneVersion, IdleInv, JobInv, EraseInv, CleanInv,
       WriteInv, Word0

\* The hardware finishes.
LEMMA JobDoneInv == Inv /\ JobDone => Inv'
<1> SUFFICES ASSUME Inv, JobDone PROVE Inv'
  OBVIOUS
<1> USE DEF storeVars, fmcVars
<1>1. flash' \in [Cells -> WordValues \cup Images]
      /\ \A w \in Words : flash'[Cell(w)] \in {Erased, version[w]}
  BY EffectVersion DEF JobDone
<1>2. TypeOK'
  BY <1>1, ReadyJob DEF JobDone, Inv, TypeOK
<1>3. OneVersion'
  BY <1>1 DEF JobDone, OneVersion
<1>4. state # "Idle" /\ job.op \in {"Erase", "Program"}
  BY DEF JobDone, Inv, IdleInv, JobInv, TypeOK, Jobs
<1>5. IdleInv' /\ JobInv'
  BY <1>4, ReadyJob DEF JobDone, IdleInv, JobInv
<1>6. EraseInv'
  <2> SUFFICES ASSUME fmc \in {"EraseBusy", "EraseProgram"} PROVE EraseInv'
    BY DEF JobDone, EraseInv
  <2>1. CASE job.op = "Program"
    BY <2>1, <1>1, ReadyJob, Sizes DEF JobDone, EraseInv, Inv, TypeOK
  <2>2. CASE job.op = "Erase"
    <3>1. \A c \in Cells : flash'[c] = IF c \in Page(job.at) THEN Erased ELSE flash[c]
      BY <2>2 DEF JobDone, Effect
    <3> QED BY <2>2, <3>1, ReadyJob DEF JobDone, EraseInv, Inv
  <2> QED BY <1>4, <2>1, <2>2
<1>7. CleanInv'
  BY DEF JobDone, Inv, CleanInv
<1>8. WriteInv'
  <2> SUFFICES ASSUME state = "Writing", fmc # "Idle" PROVE WriteInv'
    BY DEF JobDone, WriteInv
  <2>1. fmc = "WriteBusy" /\ Word0 \in Words /\ address = Cell(Word0)
        /\ job = [op |-> "Program", at |-> address, word |-> store[Word0]]
        /\ flash[address] = Erased
    BY Sizes DEF JobDone, Inv, WriteInv, Word0, TypeOK
  <2>2. \A c \in Cells : flash'[c] = IF c = address THEN store[Word0] ELSE flash[c]
    BY <2>1 DEF JobDone, Effect
  <2>3. flash'[address] = store[Word0]
    BY <2>1, <2>2, Sizes
  <2>4. \A w \in Words : w # Word0 => flash'[Cell(w)] = flash[Cell(w)]
    BY <2>1, <2>2, Sizes
  <2> QED BY <2>1, <2>3, <2>4, Sizes DEF JobDone, Inv, WriteInv, Word0
<1> QED BY <1>2, <1>3, <1>5, <1>6, <1>7, <1>8 DEF Inv

\* A step of the save that only moves on leaves the rest as it is.
LEMMA ToInv ==
  ASSUME Inv, NEW next \in {"ChangedWaiting", "Erasing"}, To(next),
         state \in {"Changed", "ChangedWaiting"}, UNCHANGED <<store, flash, rebooting>>,
         timer' \in BOOLEAN
  PROVE  Inv'
<1> USE DEF To, fmcVars
<1>1. TypeOK' /\ OneVersion' /\ IdleInv' /\ JobInv'
  BY DEF Inv, TypeOK, States, OneVersion, IdleInv, JobInv
<1>2. EraseInv' /\ CleanInv' /\ WriteInv'
  BY DEF Inv, EraseInv, Page, CleanInv, WriteInv
<1> QED BY <1>1, <1>2 DEF Inv

LEMMA ToWriteInv ==
  ASSUME Inv, NEW next \in {"Erased", "Writing"}, To(next),
         state \in {"ErasedWaiting", "Erased"}, UNCHANGED <<store, flash, rebooting>>,
         timer' \in BOOLEAN
  PROVE  Inv'
<1> USE DEF To, fmcVars
<1>1. TypeOK' /\ OneVersion' /\ IdleInv' /\ JobInv'
  BY DEF Inv, TypeOK, States, OneVersion, IdleInv, JobInv
<1>2. EraseInv' /\ CleanInv' /\ WriteInv'
  BY DEF Inv, EraseInv, Page, CleanInv, WriteInv
<1> QED BY <1>1, <1>2 DEF Inv

LEMMA ErasingInv ==
  ASSUME Inv, state = "Erasing", NEW done \in BOOLEAN,
         EraseCall(ConfigStart, SectorWords, done),
         state' = IF done THEN "ErasedWaiting" ELSE "Erasing",
         UNCHANGED <<store, flash, rebooting, version>>, timer' \in BOOLEAN
  PROVE  Inv'
<1> USE DEF fmcVars
<1>1. CASE fmc = "Idle"
  <2>1. TypeOK' /\ OneVersion' /\ IdleInv' /\ CleanInv' /\ WriteInv'
    BY <1>1, Sizes DEF EraseCall, Inv, TypeOK, States, OneVersion, IdleInv, CleanInv, WriteInv
  <2>2. JobInv'
    BY <1>1 DEF EraseCall, Inv, JobInv
  <2>3. EraseInv'
    BY <1>1, Sizes, SectorMultiple DEF EraseCall, EraseInv, End
  <2> QED BY <2>1, <2>2, <2>3 DEF Inv
<1>2. CASE fmc = "EraseBusy" /\ ~done
  <2>1. TypeOK' /\ OneVersion' /\ IdleInv' /\ CleanInv' /\ WriteInv'
    BY <1>2 DEF EraseCall, Inv, TypeOK, States, OneVersion, IdleInv, CleanInv, WriteInv
  <2>2. JobInv'
    BY <1>2, ReadyJob DEF EraseCall, Inv, JobInv
  <2>3. EraseInv'
    BY <1>2 DEF EraseCall, Inv, EraseInv, Multiple, Page
  <2> QED BY <2>1, <2>2, <2>3 DEF Inv
<1>3. CASE fmc = "EraseBusy" /\ done
  <2>1. job = Ready /\ left = 0 /\ fmc' = "Idle" /\ UNCHANGED <<address, left, data, job>>
    BY <1>3 DEF EraseCall
  <2>2. TypeOK' /\ OneVersion' /\ IdleInv' /\ EraseInv' /\ WriteInv'
    BY <1>3, <2>1 DEF Inv, TypeOK, States, OneVersion, IdleInv, EraseInv, WriteInv
  <2>3. JobInv'
    BY <2>1, ReadyJob DEF JobInv
  <2>4. CleanInv'
    BY <1>3, <2>1, ReadyJob, Sizes DEF Inv, TypeOK, EraseInv, CleanInv
  <2> QED BY <2>2, <2>3, <2>4 DEF Inv
<1>4. CASE fmc = "EraseProgram"
  <2>1. /\ ~done /\ job' = [op |-> "Erase", at |-> address, word |-> Erased]
        /\ fmc' = "EraseBusy" /\ UNCHANGED data
        /\ address' = address + PageWords /\ left' = left - PageWords
    BY <1>4 DEF EraseCall
  <2>2. /\ ConfigStart <= address /\ address + left = End /\ left \in Multiple
        /\ job = Ready /\ left > 0
        /\ \A c \in Cells : ConfigStart <= c /\ c < address => flash[c] = Erased
    BY <1>4, ReadyJob DEF Inv, EraseInv
  <2>3. left - PageWords \in Multiple /\ left \in Nat /\ address \in Nat
    BY <2>2, WholePage DEF Inv, TypeOK
  <2>4. address \in Cells
    BY <2>2, <2>3, Sizes DEF Cells, End, ConfigStart
  <2>5. address' \in Nat /\ left' \in Nat
    BY <2>1, <2>3, Sizes DEF Multiple
  <2>6. TypeOK'
    BY <2>1, <2>4, <2>5, Word_Values DEF Inv, TypeOK, Jobs, States
  <2>7. OneVersion' /\ IdleInv' /\ CleanInv' /\ WriteInv'
    BY <2>1 DEF Inv, OneVersion, IdleInv, CleanInv, WriteInv
  <2>8. JobInv'
    BY <2>1, <2>2 DEF JobInv, ConfigStart
  <2>9. EraseInv'
    BY <2>1, <2>2, <2>3, Sizes DEF Inv, EraseInv, Page, End
  <2> QED BY <2>6, <2>7, <2>8, <2>9 DEF Inv
<1>5. CASE fmc \in {"WriteBusy", "WriteProgram"}
  <2>1. TypeOK' /\ OneVersion' /\ IdleInv' /\ EraseInv' /\ CleanInv' /\ WriteInv'
    BY <1>5 DEF EraseCall, Inv, TypeOK, States, OneVersion, IdleInv, EraseInv, CleanInv, WriteInv
  <2>2. JobInv'
    BY <1>5 DEF EraseCall, Inv, JobInv
  <2> QED BY <2>1, <2>2 DEF Inv
<1> QED BY <1>1, <1>2, <1>3, <1>4, <1>5 DEF Inv, TypeOK

LEMMA WritingInv ==
  ASSUME Inv, state = "Writing", NEW done \in BOOLEAN,
         WriteCall(ConfigStart, StoreWords, "store", done),
         state' = IF done THEN "Idle" ELSE "Writing",
         version' = IF fmc = "Idle" THEN store ELSE version,
         UNCHANGED <<store, flash, rebooting>>, timer' \in BOOLEAN
  PROVE  Inv'
<1> USE DEF fmcVars
<1>1. CASE fmc = "Idle"
  <2>1. /\ ~done /\ fmc' = "WriteProgram" /\ address' = ConfigStart /\ left' = StoreWords
        /\ data' = "store" /\ job' = job /\ version' = store /\ job = Ready
        /\ \A w \in Words : flash[Cell(w)] = Erased
    BY <1>1, Sizes DEF WriteCall, Inv, CleanInv
  <2>2. TypeOK'
    BY <2>1, Sizes DEF Inv, TypeOK, States
  <2>3. OneVersion'
    BY <2>1 DEF OneVersion
  <2>4. IdleInv' /\ JobInv' /\ EraseInv' /\ CleanInv'
    BY <2>1, ReadyJob DEF IdleInv, JobInv, EraseInv, CleanInv
  <2>5. WriteInv'
    <3>1. Word0' = 0 /\ flash[ConfigStart] = Erased
      BY <2>1, Sizes DEF Word0
    <3> QED BY <2>1, <3>1, Sizes DEF WriteInv
  <2> QED BY <2>2, <2>3, <2>4, <2>5 DEF Inv
<1>2. CASE fmc # "Idle"
  <2>0. /\ fmc \in {"WriteBusy", "WriteProgram"} /\ data = "store" /\ version = store
        /\ version' = version /\ Word0 \in Words /\ address = Cell(Word0)
        /\ \A w \in Words : /\ w < Word0 => flash[Cell(w)] = store[w]
                            /\ w > Word0 => flash[Cell(w)] = Erased
    BY <1>2, Sizes DEF Inv, WriteInv, TypeOK, Word0
  <2>1. OneVersion' /\ EraseInv' /\ CleanInv'
    BY <2>0 DEF WriteCall, Inv, OneVersion, EraseInv, CleanInv
  <2>2. CASE fmc = "WriteBusy" /\ job # Ready
    <3>1. ~done /\ UNCHANGED <<fmc, address, left, data, job>>
      BY <2>2 DEF WriteCall
    <3>2. TypeOK' /\ IdleInv' /\ JobInv' /\ WriteInv'
      BY <2>0, <2>2, <3>1 DEF Inv, TypeOK, States, IdleInv, JobInv, WriteInv, Word0
    <3> QED BY <2>1, <3>2 DEF Inv
  <2>3. CASE fmc = "WriteBusy" /\ job = Ready
    <3>1. /\ (done => left = 0) /\ (~done => left # 0)
          /\ fmc' = (IF done THEN "Idle" ELSE "WriteProgram")
          /\ address' = (IF done THEN address ELSE address + 1)
          /\ UNCHANGED <<left, data, job>>
      BY <2>3 DEF WriteCall
    <3>2. left = StoreWords - Word0 - 1 /\ flash[address] = store[Word0]
      BY <2>3, ReadyJob DEF Inv, WriteInv
    <3>3. CASE done
      <4>1. Word0 = StoreWords - 1
        BY <3>1, <3>2, <3>3, <2>0, Sizes
      <4>2. \A w \in Words : flash[Cell(w)] = store[w]
        BY <4>1, <3>2, <2>0, Sizes
      <4>3. Stored(flash) = store
        BY <4>2 DEF Stored, Inv, TypeOK
      <4>4. IdleInv'
        BY <4>3, <2>0, <2>3, <3>1, <3>3 DEF IdleInv, Stored
      <4>5. TypeOK' /\ WriteInv'
        BY <2>0, <3>1, <3>3 DEF Inv, TypeOK, States, WriteInv
      <4>6. JobInv'
        BY <2>3, <3>1, ReadyJob DEF JobInv
      <4> QED BY <2>1, <4>4, <4>5, <4>6 DEF Inv
    <3>4. CASE ~done
      <4>1. Word0' = Word0 + 1 /\ Word0 + 1 \in Words /\ address' = Cell(Word0 + 1)
        <5>1. Word0 + 1 \in Words
          BY <2>0, <3>1, <3>2, <3>4, Sizes DEF Words
        <5>2. address' = address + 1 /\ address \in Nat
          BY <3>1, <3>4 DEF Inv, TypeOK
        <5> QED BY <5>1, <5>2, <2>0, Sizes DEF Word0
      <4>2. TypeOK' /\ IdleInv'
        BY <2>0, <3>1, <3>4 DEF Inv, TypeOK, States, IdleInv
      <4>3. JobInv'
        BY <2>3, <3>1, ReadyJob DEF JobInv
      <4>4. \A w \in Words : /\ w < Word0 + 1 => flash[Cell(w)] = store[w]
                             /\ w > Word0 + 1 => flash[Cell(w)] = Erased
        BY <2>0, <3>2, Sizes
      <4>5. flash[Cell(Word0 + 1)] = Erased /\ left = StoreWords - (Word0 + 1)
        BY <2>0, <3>2, <4>1, Sizes
      <4>6. WriteInv'
        <5>1. /\ fmc' = "WriteProgram" /\ data' = "store" /\ version' = store'
              /\ left' = StoreWords - Word0' /\ job' = Ready /\ flash'[address'] = Erased
          BY <2>0, <2>3, <3>1, <3>4, <4>1, <4>5
        <5>2. /\ Word0' \in Words
              /\ \A w \in Words : /\ w < Word0' => flash'[Cell(w)] = store'[w]
                                  /\ w > Word0' => flash'[Cell(w)] = Erased
          BY <4>1, <4>4
        <5> QED BY <5>1, <5>2 DEF WriteInv
      <4> QED BY <2>1, <4>2, <4>3, <4>6 DEF Inv
    <3> QED BY <3>3, <3>4
  <2>4. CASE fmc = "WriteProgram"
    <3>1. /\ ~done /\ job' = [op |-> "Program", at |-> address, word |-> store[Word0]]
          /\ fmc' = "WriteBusy" /\ left' = left - 1 /\ UNCHANGED <<address, data>>
      BY <2>0, <2>4 DEF WriteCall, Word, Word0
    <3>2. left = StoreWords - Word0 /\ flash[address] = Erased
      BY <2>4 DEF Inv, WriteInv
    <3>3. left' \in Nat /\ job' \in Jobs
      BY <2>0, <3>1, <3>2, Sizes DEF Jobs, Inv, TypeOK
    <3>4. TypeOK'
      BY <2>0, <3>1, <3>3 DEF Inv, TypeOK, States
    <3>5. IdleInv' /\ JobInv'
      BY <2>0, <3>1 DEF IdleInv, JobInv
    <3>6. WriteInv'
      BY <2>0, <3>1, <3>2 DEF WriteInv, Word0
    <3> QED BY <2>1, <3>4, <3>5, <3>6 DEF Inv
  <2> QED BY <2>0, <2>2, <2>3, <2>4
<1> QED BY <1>1, <1>2

LEMMA FlashInv ==
  ASSUME Inv, NEW again \in BOOLEAN, Flash(again), UNCHANGED <<store, flash, rebooting>>,
         timer' \in BOOLEAN
  PROVE  Inv'
<1>1. CASE state = "Idle"
  BY <1>1 DEF Flash, To, fmcVars, Inv, TypeOK, OneVersion, IdleInv, JobInv, EraseInv,
              CleanInv, WriteInv, States, Page
<1>2. CASE state \in {"Changed", "ChangedWaiting"}
  BY <1>2, ToInv DEF Flash
<1>3. CASE state = "Erasing"
  BY <1>3, ErasingInv DEF Flash
<1>4. CASE state \in {"ErasedWaiting", "Erased"}
  BY <1>4, ToWriteInv DEF Flash
<1>5. CASE state = "Writing"
  <2>1. /\ WriteCall(ConfigStart, StoreWords, "store", ~again)
        /\ state' = (IF again THEN "Writing" ELSE "Idle")
        /\ version' = (IF fmc = "Idle" THEN store ELSE version)
    BY <1>5 DEF Flash
  <2> DEFINE done == ~again
  <2>2. done \in BOOLEAN /\ state' = (IF done THEN "Idle" ELSE "Writing")
    BY <2>1
  <2>3. WriteCall(ConfigStart, StoreWords, "store", done)
    BY <2>1
  <2> HIDE DEF done
  <2> QED BY <1>5, <2>1, <2>2, <2>3, WritingInv
<1> QED BY <1>1, <1>2, <1>3, <1>4, <1>5 DEF Inv, TypeOK, States

LEMMA NextInv == Inv /\ [Next]_vars => Inv'
<1> SUFFICES ASSUME Inv, [Next]_vars PROVE Inv'
  OBVIOUS
<1>1. CASE Timer
  BY <1>1, FlashInv DEF Timer
<1>2. CASE ConfigstoreCommit
  BY <1>2, FlashInv DEF ConfigstoreCommit, Inv, TypeOK
<1>3. CASE UNCHANGED vars
  BY <1>3 DEF vars, storeVars, fmcVars, Inv, TypeOK, OneVersion, IdleInv, JobInv, EraseInv,
              CleanInv, WriteInv, Word0, Page
<1> QED BY <1>1, <1>2, <1>3, UpdateInv, HandleFactoryInv, RebootInv, RestartInv, JobDoneInv,
           PowerLossInv DEF Next, Superloop

\* The header is never an empty word.
Header == store[0] \in {Magic, Zero} /\ version[0] \in {Magic, Zero}

LEMMA HeaderNext == Header /\ [Next]_vars => Header'
<1> SUFFICES ASSUME Header, [Next]_vars PROVE Header'
  OBVIOUS
<1>1. \A f : Boot(f) => Header'
  BY Sizes DEF Header, Boot, Load, Stored, IsValid, Defaults
<1>2. ASSUME NEW w \in Words \ {0}, NEW v \in Values, Update(w, v) PROVE Header'
  BY <1>2 DEF Header, Update, Changing
<1>3. CASE HandleFactory
  BY <1>3, Sizes DEF Header, HandleFactory, Changing
<1>4. ASSUME NEW again \in BOOLEAN, Flash(again), UNCHANGED store PROVE Header'
  BY <1>4 DEF Header, Flash, To
<1>5. CASE Reboot \/ JobDone \/ UNCHANGED vars
  BY <1>5 DEF Header, Reboot, JobDone, vars, storeVars
<1> QED BY <1>1, <1>2, <1>3, <1>4, <1>5 DEF Next, Superloop, Timer, ConfigstoreCommit,
                                         Restart, PowerLoss

LEMMA HeaderInit == Init => Header
BY Sizes DEF Init, Header, Defaults

THEOREM Invariance == Spec => [](Inv /\ Header)
BY InitInv, NextInv, HeaderInit, HeaderNext, PTL DEF Spec

\* Every variable keeps its type.
THEOREM TypeCorrect == Spec => []TypeOK
BY Invariance, PTL DEF Inv

\* An idle store is saved: the copy in RAM is in the flash, word for word.
THEOREM IdleSavedHolds == Spec => []IdleSaved
<1>1. Inv => IdleSaved
  BY DEF Inv, IdleInv, IdleSaved
<1> QED BY Invariance, <1>1, PTL

\* The flash holds words of one version only.
THEOREM OneVersionHolds == Spec => []OneVersion
BY Invariance, PTL DEF Inv

----------------------------------------------------------------------------
(* The store implements SettingsStore. *)

Durable == Stored(flash) = version /\ job.op # "Erase"

\* A step that changes neither the settings nor the version ends a save, begins the
\* next, or does nothing the callers could know of.
LEMMA SameSettings ==
  ASSUME UNCHANGED <<store, version>> PROVE [Promise!Next]_(Promise!vars)
<1>1. CASE Durable /\ ~Durable'
  BY <1>1 DEF Promise!Next, Promise!Erase, Durable
<1>2. CASE ~Durable /\ Durable'
  BY <1>2 DEF Promise!Next, Promise!Publish, Durable
<1>3. CASE Durable <=> Durable'
  BY <1>3 DEF Promise!vars, Durable
<1> QED BY <1>1, <1>2, <1>3

LEMMA SetStep ==
  ASSUME Inv, UNCHANGED <<version, flash, job>>,
         \/ \E w \in Words \ {0}, v \in Values : store' = [store EXCEPT ![w] = v]
         \/ store' = [w \in Words |-> Zero]
  PROVE  Promise!Next
BY DEF Promise!Next, Promise!Set, Promise!Wipe, Stored

\* The step that begins a write: nothing is durable then.
LEMMA TakeStep ==
  ASSUME Inv, Header, UNCHANGED <<store, flash, job>>, version' = store,
         state = "Writing", fmc = "Idle"
  PROVE  Promise!Next
<1>1. flash[Cell(0)] = Erased
  BY Sizes DEF Inv, CleanInv
<1>2. Stored(flash)[0] = Erased
  BY <1>1, Sizes DEF Stored
<1>3. Stored(flash) # version /\ Stored(flash) # store
  BY <1>2, ValueAssumption DEF Header
<1>4. Stored(flash') # version'
  BY <1>3
<1> QED BY <1>3, <1>4 DEF Promise!Next, Promise!Take

LEMMA FlashStep ==
  ASSUME Inv, Header, NEW again \in BOOLEAN, Flash(again), UNCHANGED <<store, flash>>
  PROVE  [Promise!Next]_(Promise!vars)
<1>1. CASE state = "Writing" /\ fmc = "Idle"
  BY <1>1, TakeStep DEF Flash, WriteCall
<1>2. CASE ~(state = "Writing" /\ fmc = "Idle")
  BY <1>2, SameSettings DEF Flash, To
<1> QED BY <1>1, <1>2

\* A start of the processor when the version is durable, ...
LEMMA DurableBoot ==
  ASSUME Inv, Durable, NEW f, Stored(f) = version, Boot(f)
  PROVE  Promise!Next
<1>1. store' = Promise!Load(version) /\ version' = version /\ Durable'
  BY ReadyJob DEF Boot, Load, IsValid, Defaults, Promise!Load, Promise!Valid,
                  Promise!Defaults, Durable
<1> QED BY <1>1 DEF Promise!Next, Promise!Restart, Durable

\* ... and when it is not.
LEMMA TornBoot ==
  ASSUME Inv, ~Durable, NEW f, \A w \in Words : f[Cell(w)] \in {Erased, version[w]}, Boot(f)
  PROVE  Promise!Next
<1> DEFINE lost == {w \in Words : f[Cell(w)] # version[w]}
           read == [w \in Words |-> IF w \in lost THEN Erased ELSE version[w]]
<1>1. Stored(f) = read
  BY DEF Stored
<1>2. lost \in SUBSET Words
  OBVIOUS
<1>3. /\ store' = Promise!Load(Stored(f))
      /\ version' = IF Promise!Valid(Stored(f)) THEN Stored(f) ELSE version
  BY DEF Boot, Load, IsValid, Defaults, Promise!Load, Promise!Valid, Promise!Defaults
<1>4. Durable' <=> Stored(f) = version'
  BY ReadyJob DEF Boot, Durable
<1> HIDE DEF lost
<1>5. Promise!Tear
  BY <1>1, <1>2, <1>3, <1>4 DEF Promise!Tear, Durable
<1> QED BY <1>5 DEF Promise!Next

LEMMA PowerLossStep ==
  ASSUME Inv, PowerLoss PROVE Promise!Next
<1>1. PICK set \in SUBSET (IF job = Ready THEN {} ELSE Page(job.at)) : Boot(Effect(set))
  BY DEF PowerLoss
<1>2. set \in SUBSET Cells
  BY DEF Page
<1>3. CASE Durable
  <2>1. ASSUME NEW w \in Words PROVE Effect(set)[Cell(w)] = version[w]
    <3>1. Cell(w) \in Cells /\ flash[Cell(w)] = version[w]
      BY <1>3, Sizes DEF Durable, Stored
    <3>2. Effect(set)[Cell(w)] \in {Erased, version[w]}
      BY <1>2, EffectVersion
    <3>3. job.op # "Erase"
      BY <1>3 DEF Durable
    <3>4. CASE job.op = "Program" /\ Cell(w) = job.at
      <4>1. PICK v \in Words : job.at = Cell(v) /\ job.word = version[v]
        BY <3>4 DEF Inv, JobInv
      <4>2. v = w
        BY <3>4, <4>1, Sizes
      <4> QED BY <3>1, <3>4, <4>1, <4>2 DEF Effect
    <3>5. CASE ~(job.op = "Program" /\ Cell(w) = job.at)
      BY <3>1, <3>3, <3>5 DEF Effect
    <3> QED BY <3>4, <3>5
  <2>2. Stored(Effect(set)) = version
    BY <2>1 DEF Stored, Inv, TypeOK
  <2> QED BY <1>1, <1>3, <2>2, DurableBoot
<1>4. CASE ~Durable
  BY <1>1, <1>2, <1>4, EffectVersion, TornBoot
<1> QED BY <1>3, <1>4

LEMMA RestartStep ==
  ASSUME Inv, Restart PROVE Promise!Next
<1>1. Durable /\ Stored(flash) = version
  BY ReadyJob DEF Restart, Inv, IdleInv, Durable
<1> QED BY <1>1, DurableBoot DEF Restart

LEMMA NextStep ==
  ASSUME Inv, Header, [Next]_vars PROVE [Promise!Next]_(Promise!vars)
<1>1. ASSUME NEW w \in Words \ {0}, NEW v \in Values, Update(w, v)
      PROVE  [Promise!Next]_(Promise!vars)
  BY <1>1, SetStep DEF Update, Changing
<1>2. CASE HandleFactory
  BY <1>2, SetStep DEF HandleFactory, Changing
<1>3. CASE Reboot
  BY <1>3, SameSettings DEF Reboot
<1>4. CASE Timer
  BY <1>4, FlashStep DEF Timer
<1>5. CASE ConfigstoreCommit
  BY <1>5, FlashStep DEF ConfigstoreCommit
<1>6. CASE JobDone
  BY <1>6, SameSettings DEF JobDone, storeVars
<1>7. CASE UNCHANGED vars
  BY <1>7, SameSettings DEF vars, storeVars
<1> QED BY <1>1, <1>2, <1>3, <1>4, <1>5, <1>6, <1>7, RestartStep, PowerLossStep
        DEF Next, Superloop

\* The store keeps its promise: the settings of the working copy are saved one version
\* as a whole, and a restart gives that version back, or words of it when the power
\* failed in the middle of a save.
THEOREM Refinement == Spec => ImplementsPromise
<1>1. Init => Promise!Init
  <2> SUFFICES ASSUME Init PROVE Promise!Init
    OBVIOUS
  <2>1. flash[Cell(0)] = Erased /\ version[0] = Magic /\ store = Defaults /\ version = Defaults
    BY Sizes DEF Init, Defaults
  <2>2. Stored(flash) # version
    BY <2>1, Sizes, ValueAssumption DEF Stored
  <2> QED BY <2>1, <2>2 DEF Promise!Init, Promise!Defaults, Defaults
<1>2. Inv /\ Header /\ [Next]_vars => [Promise!Next]_(Promise!vars)
  BY NextStep
<1> QED BY <1>1, <1>2, Invariance, PTL DEF Spec, ImplementsPromise, Promise!Spec

----------------------------------------------------------------------------
(* The installation of a firmware (module FirmwareInstall).  Between two      *)
(* calls of the installer the controller works for the store alone, beyond    *)
(* the firmware; within a call of a clear upload it works on the part of that *)
(* call.  The invariant follows what the erase has emptied and what the       *)
(* writes have put there.  The store's own invariant above does not hold      *)
(* here: a call of the installer breaks off the store's write.                *)

FirmwareCells == 0..(FirmwareWords - 1)
Calls         == {"none", "Erase", "Chunk", "WholeErase", "WholeWrite"}

\* The part of the firmware that a call which writes is to write.
From == IF call = "Chunk" THEN written ELSE 0
UpTo == IF call = "Chunk" THEN written + ChunkWords ELSE FirmwareWords

\* The hardware works on the sector of the store.
AtStore == job.at \in Nat /\ job.at >= ConfigStart

\* The installer's own record of the upload.
CallInv ==
  /\ call \in Calls /\ image \in Images \cup {NoImage} /\ (call # "none" => image \in Images)
  /\ chunkState \in {"Start", "Write"} /\ size \in {0, FirmwareWords}
  /\ written \in 0..FirmwareWords
  /\ chunkState = "Write" => size = FirmwareWords
  /\ call = "Chunk" => written + ChunkWords <= FirmwareWords
  /\ call = "Erase" => written = 0 /\ size = FirmwareWords
  /\ installed => call \in {"none", "Chunk"} /\ image \in Images

\* Between two calls the controller works for the store.
OfStoreInv ==
  call = "none" => /\ fmc # "Idle" => address \in Nat /\ address >= ConfigStart
                   /\ job # Ready => AtStore

\* An erase of the installer has emptied the cells before its address, but for the page
\* at work.
EraseLoopInv ==
  call \in {"Erase", "WholeErase"} /\ clear =>
    /\ job.op = "Program" \/ (~Erasing /\ job # Ready) => AtStore
    /\ Erasing =>
         /\ address \in Nat /\ left \in Multiple /\ address + left = FirmwareWords
         /\ \A c \in 0..(address - 1) :
              flash[c] = Erased \/ (job.op = "Erase" /\ c \in Page(job.at))
         /\ fmc = "EraseProgram" => job = Ready /\ left > 0

\* A write of the installer has put back the cells of its part before its address.
WriteLoopInv ==
  call \in {"Chunk", "WholeWrite"} /\ clear =>
    /\ job # Ready => IF fmc = "WriteBusy"
                      THEN job = [op |-> "Program", at |-> address, word |-> image]
                      ELSE AtStore
    /\ Writing =>
         /\ data = image /\ address \in From..(UpTo - 1)
         /\ \A c \in From..(address - 1) : flash[c] = image
         /\ fmc = "WriteProgram" => left = UpTo - address
         /\ fmc = "WriteBusy" => /\ left = UpTo - address - 1
                                 /\ job = Ready => flash[address] = image

\* Once the flash is erased, its cells hold the firmware or nothing, and the chunks
\* written so far the firmware.
PartInv ==
  call \in {"none", "Chunk", "WholeWrite"} /\ clear /\ image \in Images =>
    /\ \A c \in FirmwareCells : flash[c] \in {Erased, image}
    /\ call # "WholeWrite" => \A c \in 0..(written - 1) : flash[c] = image

Controller == fmc \in {"Idle", "EraseBusy", "EraseProgram", "WriteBusy", "WriteProgram"}

InstallInv == Controller /\ CallInv /\ OfStoreInv /\ EraseLoopInv /\ WriteLoopInv /\ PartInv
              /\ InstalledWhenClear

LEMMA FirmwareSizes ==
  /\ FirmwareWords \in Nat \ {0} /\ ChunkWords \in Nat \ {0} /\ PageWords \in Nat \ {0}
  /\ ConfigStart = FirmwareWords /\ FirmwareCells \subseteq Cells /\ FirmwareWords \in Multiple
  /\ \A c \in FirmwareCells : c \in Nat /\ c < FirmwareWords
  /\ \A c \in Nat : c < FirmwareWords => c \in FirmwareCells
<1>1. \E n \in Nat : FirmwareWords = n * PageWords
  BY SizeAssumption
<1>2. /\ FirmwareWords \in Nat \ {0} /\ ChunkWords \in Nat \ {0} /\ PageWords \in Nat \ {0}
      /\ ConfigStart = FirmwareWords
  BY SizeAssumption, ChunkAssumption DEF ConfigStart
<1>3. FirmwareCells \subseteq Cells
  BY SizeAssumption DEF FirmwareCells, Cells
<1> QED BY <1>1, <1>2, <1>3 DEF Multiple, FirmwareCells

LEMMA InstallInitInv == InstallInit => InstallInv
<1> SUFFICES ASSUME InstallInit PROVE InstallInv
  OBVIOUS
<1>1. Controller /\ CallInv
  BY FirmwareSizes DEF InstallInit, Init, Controller, CallInv, Calls
<1>2. OfStoreInv /\ EraseLoopInv /\ WriteLoopInv /\ PartInv /\ InstalledWhenClear
  BY NoImageAssumption DEF InstallInit, Init, NoImage, OfStoreInv, EraseLoopInv, WriteLoopInv, PartInv,
     InstalledWhenClear
<1> QED BY <1>1, <1>2 DEF InstallInv

\* A start of the processor forgets the upload.
LEMMA ForgetInv ==
  ASSUME NEW f, Boot(f), Forget PROVE InstallInv'
BY NoImageAssumption, FirmwareSizes
   DEF Boot, Forget, NoImage, InstallInv, Controller, CallInv, Calls, OfStoreInv, EraseLoopInv, WriteLoopInv,
       PartInv, InstalledWhenClear

\* A call of the store leaves the controller at work beyond the firmware.
LEMMA StoreCall ==
  ASSUME Controller, OfStoreInv, call = "none", NEW again \in BOOLEAN, Flash(again)
  PROVE  /\ Controller'
         /\ fmc' # "Idle" => address' \in Nat /\ address' >= ConfigStart
         /\ job' # Ready => AtStore'
<1> USE FirmwareSizes DEF Controller, AtStore, fmcVars
<1>1. CASE To("Idle") \/ To("ChangedWaiting") \/ To("Erasing") \/ To("Erased") \/ To("Writing")
  BY <1>1 DEF To, OfStoreInv
<1>2. ASSUME NEW done \in BOOLEAN, EraseCall(ConfigStart, SectorWords, done)
      PROVE  /\ Controller'
             /\ fmc' # "Idle" => address' \in Nat /\ address' >= ConfigStart
             /\ job' # Ready => AtStore'
  BY <1>2 DEF EraseCall, OfStoreInv
<1>3. ASSUME NEW done \in BOOLEAN, WriteCall(ConfigStart, StoreWords, "store", done)
      PROVE  /\ Controller'
             /\ fmc' # "Idle" => address' \in Nat /\ address' >= ConfigStart
             /\ job' # Ready => AtStore'
  BY <1>3 DEF WriteCall, OfStoreInv
<1> QED BY <1>1, <1>2, <1>3 DEF Flash

LEMMA StoreInv ==
  ASSUME InstallInv, Store PROVE InstallInv'
<1> USE DEF InstallInv
<1>1. call = "none" /\ UNCHANGED installVars
  BY DEF Store
<1>2. flash' = flash
  BY DEF Store, Superloop, Update, HandleFactory, Reboot, Timer, ConfigstoreCommit, Changing
<1>3. /\ Controller'
      /\ fmc' # "Idle" => address' \in Nat /\ address' >= ConfigStart
      /\ job' # Ready => AtStore'
  <2>1. CASE UNCHANGED <<fmcVars, job>>
    BY <1>1, <2>1 DEF fmcVars, OfStoreInv, AtStore, Controller
  <2>2. CASE Timer \/ ConfigstoreCommit
    <3>1. PICK again \in BOOLEAN : Flash(again)
      BY <2>2 DEF Timer, ConfigstoreCommit
    <3> QED BY <1>1, <3>1, StoreCall
  <2> QED BY <2>1, <2>2 DEF Store, Superloop, Update, HandleFactory, Reboot, Changing
<1>4. CallInv' /\ OfStoreInv' /\ EraseLoopInv' /\ WriteLoopInv' /\ PartInv' /\ InstalledWhenClear'
  BY <1>1, <1>2, <1>3 DEF installVars, CallInv, OfStoreInv, EraseLoopInv, WriteLoopInv, PartInv,
     InstalledWhenClear, Holds
<1> QED BY <1>3, <1>4

\* The hardware finishes a job of the store: the firmware is as it was.
LEMMA AwayFromFirmware ==
  ASSUME AtStore, NEW set \in SUBSET Cells, NEW c \in FirmwareCells
  PROVE  Effect(set)[c] = flash[c]
BY FirmwareSizes DEF AtStore, Effect, Page

LEMMA InstallJobDone ==
  ASSUME InstallInv, JobDone, UNCHANGED installVars PROVE InstallInv'
<1> USE DEF InstallInv
<1>1. /\ job # Ready /\ job' = Ready /\ flash' = Effect(Cells)
      /\ UNCHANGED <<fmc, address, left, data>> /\ UNCHANGED installVars
  BY DEF JobDone, fmcVars
<1>2. job'.op = "Ready"
  BY <1>1 DEF Ready
<1>3. \A c \in FirmwareCells : AtStore => flash'[c] = flash[c]
  BY <1>1, AwayFromFirmware
<1>4. Controller' /\ CallInv' /\ OfStoreInv'
  BY <1>1 DEF Controller, CallInv, OfStoreInv, AtStore, installVars
<1>5. EraseLoopInv'
  <2> SUFFICES ASSUME call \in {"Erase", "WholeErase"}, clear, Erasing PROVE EraseLoopInv'
    BY <1>1, <1>2 DEF EraseLoopInv, installVars, Erasing
  <2>1. /\ address \in Nat /\ left \in Nat /\ left \in Multiple /\ address + left = FirmwareWords
        /\ \A c \in 0..(address - 1) :
              flash[c] = Erased \/ (job.op = "Erase" /\ c \in Page(job.at))
        /\ fmc # "EraseProgram"
    BY <1>1 DEF EraseLoopInv, Multiple
  <2>2. ASSUME NEW c \in 0..(address - 1) PROVE flash'[c] = Erased
    <3>1. c \in FirmwareCells /\ c \in Cells
      BY <2>1, FirmwareSizes
    <3>2. CASE job.op = "Program"
      BY <1>3, <2>1, <3>1, <3>2 DEF EraseLoopInv
    <3>3. CASE job.op # "Program"
      BY <1>1, <2>1, <3>1, <3>3 DEF Effect
    <3> QED BY <3>2, <3>3
  <2> QED BY <1>1, <1>2, <2>1, <2>2 DEF EraseLoopInv, installVars
<1>6. \A c \in FirmwareCells : call \in {"Chunk", "WholeWrite"} /\ clear =>
        \/ flash'[c] = flash[c]
        \/ flash'[c] = image /\ flash[c] = Erased
  <2> SUFFICES ASSUME NEW c \in FirmwareCells, call \in {"Chunk", "WholeWrite"}, clear,
                      flash'[c] # flash[c]
               PROVE  flash'[c] = image /\ flash[c] = Erased
    OBVIOUS
  <2>1. job = [op |-> "Program", at |-> address, word |-> image]
    BY <1>1, <1>3 DEF WriteLoopInv
  <2> QED BY <1>1, <2>1, FirmwareSizes DEF Effect
<1>7. PartInv'
  <2> SUFFICES ASSUME call \in {"none", "Chunk", "WholeWrite"}, clear, image \in Images
               PROVE  /\ \A c \in FirmwareCells : flash'[c] \in {Erased, image}
                      /\ call # "WholeWrite" => \A c \in 0..(written - 1) : flash'[c] = image
    BY <1>1 DEF PartInv, installVars
  <2>1. \A c \in FirmwareCells :
          flash'[c] = flash[c] \/ (flash'[c] = image /\ flash[c] = Erased)
    BY <1>1, <1>3, <1>6 DEF OfStoreInv
  <2>2. \A c \in 0..(written - 1) : c \in FirmwareCells
    BY FirmwareSizes DEF CallInv
  <2>3. image # Erased
    BY ImageAssumption
  <2> QED BY <2>1, <2>2, <2>3 DEF PartInv
<1>8. InstalledWhenClear'
  <2> SUFFICES ASSUME installed, clear, NEW c \in 0..(FirmwareWords - 1)
               PROVE  flash'[c] = image
    BY <1>1 DEF InstalledWhenClear, Holds, installVars
  <2>1. c \in FirmwareCells /\ flash[c] = image /\ image # Erased
    BY ImageAssumption DEF FirmwareCells, InstalledWhenClear, Holds, CallInv
  <2> QED BY <1>1, <1>3, <1>6, <2>1 DEF OfStoreInv, CallInv
<1>9. WriteLoopInv'
  <2> SUFFICES ASSUME call \in {"Chunk", "WholeWrite"}, clear, Writing PROVE WriteLoopInv'
    BY <1>1 DEF WriteLoopInv, installVars, Writing
  <2>1. /\ data = image /\ address \in From..(UpTo - 1)
        /\ \A c \in From..(address - 1) : flash[c] = image
        /\ fmc = "WriteProgram" => left = UpTo - address
        /\ fmc = "WriteBusy" => left = UpTo - address - 1
    BY DEF WriteLoopInv
  <2>2. From \in Nat /\ UpTo \in Nat /\ UpTo <= FirmwareWords
    BY FirmwareSizes DEF CallInv, From, UpTo
  <2>3. \A c \in From..(address - 1) : flash'[c] = image
    <3> SUFFICES ASSUME NEW c \in From..(address - 1) PROVE flash'[c] = image
      OBVIOUS
    <3>1. c \in FirmwareCells
      BY <2>1, <2>2, FirmwareSizes
    <3> QED BY <1>6, <2>1, <3>1, ImageAssumption DEF CallInv
  <2>4. fmc = "WriteBusy" => flash'[address] = image
    <3> SUFFICES ASSUME fmc = "WriteBusy" PROVE flash'[address] = image
      OBVIOUS
    <3>1. address \in FirmwareCells /\ address \in Cells
      BY <2>1, <2>2, FirmwareSizes
    <3>2. job = [op |-> "Program", at |-> address, word |-> image]
      BY <1>1 DEF WriteLoopInv
    <3>3. flash[address] \in {Erased, image}
      BY <3>1 DEF PartInv, CallInv
    <3> QED BY <1>1, <3>1, <3>2, <3>3 DEF Effect
  <2> QED BY <1>1, <2>1, <2>3, <2>4 DEF WriteLoopInv, installVars, From, UpTo, Writing
<1> QED BY <1>4, <1>5, <1>7, <1>8, <1>9

\* An upload begins: the controller may still be at work for the store.
LEMMA BeginInv ==
  ASSUME InstallInv, NEW how \in {"Erase", "WholeErase"}, Begin(how),
         chunkState' = chunkState,
         IF how = "Erase" THEN size' = FirmwareWords /\ written' = 0
                          ELSE UNCHANGED <<size, written>>
  PROVE  InstallInv'
<1> USE DEF InstallInv
<1>1. /\ call = "none" /\ call' = how /\ image' \in Images /\ clear' = ~Erasing
      /\ installed' = FALSE /\ UNCHANGED <<flash, fmc, address, left, data, job>>
  BY DEF Begin, Free, vars, fmcVars
<1>2. Controller' /\ CallInv'
  BY <1>1, FirmwareSizes DEF Controller, CallInv, Calls
<1>3. EraseLoopInv'
  <2>1. job.op = "Program" => job # Ready
    BY DEF Ready
  <2> QED BY <1>1, <2>1 DEF EraseLoopInv, OfStoreInv, Erasing, AtStore
<1>4. OfStoreInv' /\ WriteLoopInv' /\ PartInv' /\ InstalledWhenClear'
  BY <1>1 DEF OfStoreInv, WriteLoopInv, PartInv, InstalledWhenClear
<1> QED BY <1>2, <1>3, <1>4

\* A turn of a loop that erases.
LEMMA EraseTurn ==
  ASSUME InstallInv, call \in {"Erase", "WholeErase"}, NEW done \in BOOLEAN,
         EraseFirmware(done), UNCHANGED <<flash, image, clear, written, installed>>,
         call' = IF done THEN (IF call = "Erase" THEN "none" ELSE "WholeWrite") ELSE call,
         CallInv'
  PROVE  InstallInv'
<1> USE DEF InstallInv
<1>1. Controller'
  BY DEF EraseFirmware, EraseCall, Controller, fmcVars
<1>2. done => /\ fmc = "EraseBusy" /\ job = Ready /\ left = 0 /\ fmc' = "Idle"
              /\ UNCHANGED <<address, job>>
  BY DEF EraseFirmware, EraseCall
<1>3. done /\ clear => \A c \in FirmwareCells : flash[c] = Erased
  <2> SUFFICES ASSUME done, clear, NEW c \in FirmwareCells PROVE flash[c] = Erased
    OBVIOUS
  <2>1. address = FirmwareWords /\ job.op # "Erase"
    BY <1>2, FirmwareSizes DEF EraseLoopInv, Erasing, Ready
  <2>2. c \in 0..(address - 1)
    BY <2>1, FirmwareSizes
  <2> QED BY <1>2, <2>1, <2>2 DEF EraseLoopInv, Erasing
<1>4. CASE done
  <2>1. call' \in {"none", "WholeWrite"} /\ fmc' = "Idle" /\ job' = Ready
    BY <1>2, <1>4
  <2>2. call' # "WholeWrite" => written' = 0
    BY <1>4 DEF CallInv
  <2>3. CallInv' /\ Controller'
    BY <1>1
  <2>4. OfStoreInv' /\ EraseLoopInv' /\ WriteLoopInv' /\ InstalledWhenClear'
    BY <1>4, <2>1, <2>3 DEF OfStoreInv, EraseLoopInv, WriteLoopInv, InstalledWhenClear, CallInv, Writing
  <2>5. PartInv'
    BY <1>3, <1>4, <2>2 DEF PartInv
  <2> QED BY <2>3, <2>4, <2>5
<1>5. CASE ~done
  <2>1. call' = call
    BY <1>5
  <2>2. EraseLoopInv'
    <3> SUFFICES ASSUME clear PROVE EraseLoopInv'
      BY <2>1 DEF EraseLoopInv
    <3>1. CASE ~Erasing
      <4>1. \/ fmc' = "Idle" /\ UNCHANGED job
            \/ fmc' = "EraseBusy" /\ address' = 0 /\ left' = FirmwareWords /\ UNCHANGED job
        BY <3>1 DEF EraseFirmware, EraseCall, Erasing, Controller
      <4>2. job # Ready => AtStore
        BY <3>1 DEF EraseLoopInv
      <4>3. job.op = "Program" => job # Ready
        BY DEF Ready
      <4> QED BY <2>1, <4>1, <4>2, <4>3, FirmwareSizes DEF EraseLoopInv, Erasing, AtStore
    <3>2. CASE fmc = "EraseBusy"
      <4>1. /\ UNCHANGED <<address, left, data, job>>
            /\ fmc' = fmc \/ (fmc' = "EraseProgram" /\ job = Ready /\ left # 0)
        BY <1>5, <3>2 DEF EraseFirmware, EraseCall, fmcVars
      <4> QED BY <2>1, <3>2, <4>1 DEF EraseLoopInv, Erasing, AtStore, Multiple, Page
    <3>3. CASE fmc = "EraseProgram"
      <4>1. /\ job' = [op |-> "Erase", at |-> address, word |-> Erased] /\ fmc' = "EraseBusy"
            /\ address' = address + PageWords /\ left' = left - PageWords
        BY <3>3 DEF EraseFirmware, EraseCall
      <4>2. /\ address \in Nat /\ left \in Multiple /\ left \in Nat /\ address + left = FirmwareWords
            /\ \A c \in 0..(address - 1) : flash[c] = Erased
            /\ left > 0
        BY <3>3 DEF EraseLoopInv, Erasing, Ready, Multiple
      <4>3. left' \in Multiple /\ left' \in Nat
        BY <4>1, <4>2, WholePage DEF Multiple
      <4>4. \A c \in address..(address + PageWords - 1) : c \in Page(address)
        BY <4>1, <4>2, <4>3, FirmwareSizes DEF Page, Cells, ConfigStart
      <4>5. \A c \in 0..(address' - 1) :
              flash'[c] = Erased \/ (job'.op = "Erase" /\ c \in Page(job'.at))
        BY <4>1, <4>2, <4>4, FirmwareSizes
      <4> QED BY <2>1, <4>1, <4>2, <4>3, <4>5, FirmwareSizes DEF EraseLoopInv, Erasing
    <3> QED BY <3>1, <3>2, <3>3 DEF Erasing
  <2>3. OfStoreInv' /\ WriteLoopInv' /\ PartInv' /\ InstalledWhenClear'
    BY <2>1 DEF OfStoreInv, WriteLoopInv, PartInv, InstalledWhenClear, CallInv
  <2> QED BY <1>1, <2>2, <2>3
<1> QED BY <1>4, <1>5

\* A turn of a loop that writes: the part of the firmware from From to UpTo.
LEMMA WriteTurn ==
  ASSUME InstallInv, call \in {"Chunk", "WholeWrite"}, clear, NEW done \in BOOLEAN,
         WriteCall(From, UpTo - From, image, done), UNCHANGED <<flash, image, clear>>
  PROVE  /\ done => \A c \in From..(UpTo - 1) : flash[c] = image
         /\ ~done /\ call' = call /\ written' = written => WriteLoopInv'
<1> USE DEF InstallInv
<1>1. From \in Nat /\ UpTo \in Nat /\ From < UpTo /\ UpTo <= FirmwareWords /\ image \in Images
  BY FirmwareSizes DEF CallInv, From, UpTo
<1>2. image # "store"
  BY <1>1, ImageAssumption
<1>3. ASSUME done PROVE \A c \in From..(UpTo - 1) : flash[c] = image
  <2>1. fmc = "WriteBusy" /\ job = Ready /\ left = 0
    BY <1>3 DEF WriteCall
  <2>2. address \in From..(UpTo - 1) /\ 0 = UpTo - address - 1 /\ flash[address] = image
        /\ \A c \in From..(address - 1) : flash[c] = image
    BY <2>1 DEF WriteLoopInv, Writing
  <2> QED BY <1>1, <2>2
<1>4. ASSUME ~done, call' = call, written' = written PROVE WriteLoopInv'
  <2>1. From' = From /\ UpTo' = UpTo
    BY <1>4 DEF From, UpTo
  <2>2. CASE ~Writing
    <3>1. /\ UNCHANGED job
          /\ \/ fmc' = "Idle"
             \/ fmc' = "WriteProgram" /\ address' = From /\ left' = UpTo - From /\ data' = image
      BY <2>2 DEF WriteCall, Writing, Controller
    <3>2. job # Ready => AtStore
      BY <2>2 DEF WriteLoopInv, Writing
    <3> QED BY <1>1, <1>4, <2>1, <3>1, <3>2 DEF WriteLoopInv, Writing, AtStore
  <2>3. CASE fmc = "WriteBusy"
    <3>1. /\ UNCHANGED <<left, data, job>>
          /\ \/ fmc' = fmc /\ address' = address /\ job # Ready
             \/ fmc' = "WriteProgram" /\ address' = address + 1 /\ job = Ready /\ left # 0
      BY <1>4, <2>3 DEF WriteCall, fmcVars
    <3>2. /\ data = image /\ address \in From..(UpTo - 1) /\ left = UpTo - address - 1
          /\ \A c \in From..(address - 1) : flash[c] = image
          /\ job = Ready => flash[address] = image
          /\ job # Ready => job = [op |-> "Program", at |-> address, word |-> image]
      BY <2>3 DEF WriteLoopInv, Writing
    <3>3. CASE fmc' = fmc /\ address' = address /\ job # Ready
      BY <1>1, <1>4, <2>1, <2>3, <3>1, <3>2, <3>3 DEF WriteLoopInv, Writing
    <3>4. CASE fmc' = "WriteProgram" /\ address' = address + 1 /\ job = Ready /\ left # 0
      <4>1. address' \in From..(UpTo - 1) /\ left' = UpTo - address'
            /\ \A c \in From..(address' - 1) : c = address \/ c \in From..(address - 1)
        BY <1>1, <3>1, <3>2, <3>4
      <4> QED BY <1>4, <2>1, <3>1, <3>2, <3>4, <4>1 DEF WriteLoopInv, Writing
    <3> QED BY <3>1, <3>3, <3>4
  <2>4. CASE fmc = "WriteProgram"
    <3>1. /\ data = image /\ address \in From..(UpTo - 1) /\ left = UpTo - address
          /\ \A c \in From..(address - 1) : flash[c] = image
      BY <2>4 DEF WriteLoopInv, Writing
    <3>2. /\ job' = [op |-> "Program", at |-> address, word |-> image]
          /\ fmc' = "WriteBusy" /\ left' = left - 1 /\ UNCHANGED <<address, data>>
      BY <1>2, <2>4, <3>1 DEF WriteCall, Word
    <3>3. job' # Ready'
      BY <3>2 DEF Ready
    <3> QED BY <1>1, <1>4, <2>1, <3>1, <3>2, <3>3 DEF WriteLoopInv, Writing
  <2> QED BY <2>2, <2>3, <2>4 DEF Writing
<1> QED BY <1>3, <1>4

\* What a call that writes leaves behind, when it goes on and when it is done.
LEMMA WriteCallInv ==
  ASSUME InstallInv, call \in {"Chunk", "WholeWrite"}, NEW done \in BOOLEAN,
         WriteCall(From, UpTo - From, image, done), UNCHANGED <<flash, image, clear>>,
         call' = (IF done THEN "none" ELSE call),
         written' = (IF done /\ call = "Chunk" THEN written + ChunkWords ELSE written),
         installed' = (IF call = "Chunk" THEN installed ELSE done), CallInv'
  PROVE  InstallInv'
<1> USE DEF InstallInv
<1>1. Controller'
  BY DEF WriteCall, Controller, fmcVars
<1>2. done => fmc' = "Idle" /\ job' = Ready /\ job = Ready
  BY DEF WriteCall
<1>3. OfStoreInv' /\ EraseLoopInv'
  BY <1>2 DEF OfStoreInv, EraseLoopInv
<1>4. WriteLoopInv'
  BY WriteTurn DEF WriteLoopInv
<1>5. image \in Images /\ written \in Nat
  BY FirmwareSizes DEF CallInv
<1>6. clear => \A c \in FirmwareCells : flash[c] \in {Erased, image}
  BY <1>5 DEF PartInv
<1>7. PartInv'
  <2> SUFFICES ASSUME clear, call' # "WholeWrite", NEW c \in 0..(written' - 1)
               PROVE  flash[c] = image
    BY <1>6 DEF PartInv
  <2>1. CASE call = "Chunk" /\ c \in 0..(written - 1)
    BY <1>5, <2>1 DEF PartInv
  <2>2. CASE call = "Chunk" /\ c \notin 0..(written - 1)
    <3>1. done /\ c \in From..(UpTo - 1)
      BY <1>5, <2>2, FirmwareSizes DEF From, UpTo
    <3> QED BY <3>1, WriteTurn
  <2>3. CASE call = "WholeWrite"
    <3>1. done /\ c \in From..(UpTo - 1)
      BY <1>5, <2>3, FirmwareSizes DEF CallInv, From, UpTo
    <3> QED BY <3>1, WriteTurn
  <2> QED BY <2>1, <2>2, <2>3
<1>8. InstalledWhenClear'
  <2> SUFFICES ASSUME installed', clear PROVE Holds(image)
    BY DEF InstalledWhenClear, Holds
  <2>1. CASE call = "Chunk"
    BY <2>1 DEF InstalledWhenClear
  <2>2. CASE call = "WholeWrite"
    BY <2>2, WriteTurn DEF Holds, From, UpTo
  <2> QED BY <2>1, <2>2
<1> QED BY <1>1, <1>3, <1>4, <1>7, <1>8

LEMMA UploadChunkInv == InstallInv /\ UploadChunk => InstallInv'
<1> SUFFICES ASSUME InstallInv, UploadChunk PROVE InstallInv'
  OBVIOUS
<1> USE DEF InstallInv
<1>1. /\ call = "none" /\ call' = "Chunk" /\ image # NoImage /\ clear' = (clear /\ ~Writing)
      /\ written + ChunkWords <= size
      /\ UNCHANGED <<flash, fmc, address, left, data, job, image, chunkState, size, written,
                     installed>>
  BY DEF UploadChunk, Free, vars, fmcVars
<1>2. Controller' /\ CallInv'
  BY <1>1, FirmwareSizes DEF Controller, CallInv, Calls
<1>3. WriteLoopInv'
  BY <1>1 DEF WriteLoopInv, OfStoreInv, Writing, AtStore
<1>4. OfStoreInv' /\ EraseLoopInv' /\ PartInv' /\ InstalledWhenClear'
  BY <1>1 DEF OfStoreInv, EraseLoopInv, PartInv, InstalledWhenClear, Holds
<1> QED BY <1>2, <1>3, <1>4

LEMMA WriteChunkInv == InstallInv /\ WriteChunk => InstallInv'
<1> SUFFICES ASSUME InstallInv, WriteChunk PROVE InstallInv'
  OBVIOUS
<1>1. PICK done \in BOOLEAN :
        /\ WriteCall(written, ChunkWords, image, done)
        /\ call' = (IF done THEN "none" ELSE "Chunk")
        /\ written' = (IF done THEN written + ChunkWords ELSE written)
  BY DEF WriteChunk
<1>2. call = "Chunk" /\ UNCHANGED <<flash, image, chunkState, size, clear, installed>>
  BY DEF WriteChunk
<1>3. From = written /\ UpTo - From = ChunkWords
  BY <1>2, FirmwareSizes DEF From, UpTo, InstallInv, CallInv
<1>4. CallInv'
  BY <1>1, <1>2, FirmwareSizes DEF InstallInv, CallInv, Calls
<1>5. WriteCall(From, UpTo - From, image, done)
  BY <1>1, <1>3
<1> QED BY <1>1, <1>2, <1>4, <1>5, WriteCallInv

LEMMA WriteChunkCompleteInv == InstallInv /\ WriteChunkComplete => InstallInv'
<1> SUFFICES ASSUME InstallInv, WriteChunkComplete PROVE InstallInv'
  OBVIOUS
<1> USE DEF InstallInv
<1>1. /\ call = "none" /\ image # NoImage /\ written' = 0 /\ chunkState' = "Start"
      /\ installed' = (chunkState = "Write" /\ size = written)
      /\ UNCHANGED <<flash, fmc, address, left, data, job, call, image, size, clear>>
  BY DEF WriteChunkComplete, Free, vars, fmcVars
<1>2. Controller' /\ CallInv'
  BY <1>1, FirmwareSizes DEF Controller, CallInv, Calls
<1>3. OfStoreInv' /\ EraseLoopInv' /\ WriteLoopInv' /\ PartInv'
  BY <1>1 DEF OfStoreInv, EraseLoopInv, WriteLoopInv, PartInv, AtStore
<1>4. InstalledWhenClear'
  BY <1>1 DEF InstalledWhenClear, Holds, PartInv, CallInv
<1> QED BY <1>2, <1>3, <1>4

\* Every step keeps the invariant.
LEMMA InstallNextInv == InstallInv /\ [InstallNext]_allVars => InstallInv'
<1> SUFFICES ASSUME InstallInv, [InstallNext]_allVars PROVE InstallInv'
  OBVIOUS
<1>1. CASE (Restart \/ PowerLoss) /\ Forget
  BY <1>1, ForgetInv DEF Restart, PowerLoss
<1>2. CASE UploadStart
  BY <1>2, BeginInv DEF UploadStart
<1>3. CASE WriteFirmware
  BY <1>3, BeginInv DEF WriteFirmware
<1>4. CASE UploadErase
  <2>1. PICK done \in BOOLEAN :
          /\ EraseFirmware(done)
          /\ call' = (IF done THEN "none" ELSE "Erase")
          /\ chunkState' = (IF done THEN "Write" ELSE chunkState)
    BY <1>4 DEF UploadErase
  <2>2. call = "Erase" /\ UNCHANGED <<flash, image, size, written, clear, installed>>
    BY <1>4 DEF UploadErase
  <2>3. CallInv'
    BY <2>1, <2>2, FirmwareSizes DEF InstallInv, CallInv, Calls
  <2> QED BY <2>1, <2>2, <2>3, EraseTurn
<1>5. CASE WriteFirmwareErase
  <2>1. PICK done \in BOOLEAN :
          EraseFirmware(done) /\ call' = (IF done THEN "WholeWrite" ELSE "WholeErase")
    BY <1>5 DEF WriteFirmwareErase
  <2>2. /\ call = "WholeErase"
        /\ UNCHANGED <<flash, image, chunkState, size, written, clear, installed>>
    BY <1>5 DEF WriteFirmwareErase
  <2>3. CallInv'
    BY <2>1, <2>2, FirmwareSizes DEF InstallInv, CallInv, Calls
  <2> QED BY <2>1, <2>2, <2>3, EraseTurn
<1>6. CASE WriteFirmwareWrite
  <2>1. PICK done \in BOOLEAN :
          /\ WriteCall(0, FirmwareWords, image, done)
          /\ call' = (IF done THEN "none" ELSE "WholeWrite")
          /\ installed' = done
    BY <1>6 DEF WriteFirmwareWrite
  <2>2. /\ call = "WholeWrite"
        /\ UNCHANGED <<flash, image, chunkState, size, written, clear>>
    BY <1>6 DEF WriteFirmwareWrite
  <2>3. WriteCall(From, UpTo - From, image, done)
    <3>1. From = 0 /\ UpTo - From = FirmwareWords
      BY <2>2, FirmwareSizes DEF From, UpTo
    <3> QED BY <2>1, <3>1
  <2>4. CallInv'
    BY <2>1, <2>2, FirmwareSizes DEF InstallInv, CallInv, Calls
  <2> QED BY <2>1, <2>2, <2>3, <2>4, WriteCallInv
<1>7. CASE UNCHANGED allVars
  BY <1>7 DEF allVars, vars, fmcVars, installVars, InstallInv, Controller, CallInv, OfStoreInv,
     EraseLoopInv, WriteLoopInv, PartInv, InstalledWhenClear, Holds, AtStore, From, UpTo,
     Erasing, Writing, Page
<1> QED BY <1>1, <1>2, <1>3, <1>4, <1>5, <1>6, <1>7, StoreInv, InstallJobDone,
        UploadChunkInv, WriteChunkInv, WriteChunkCompleteInv DEF InstallNext

LEMMA InstallInvariance == InstallSpec => []InstallInv
BY InstallInitInv, InstallNextInv, PTL DEF InstallSpec

\* A firmware whose upload was reported a success is in the flash, whole, whenever the
\* store had left no operation for a call of that upload to go on with: for any size of
\* the firmware and its chunks, and wherever the steps of the store's saves, a reboot or
\* a loss of power fall between the calls.
THEOREM InstalledIsThere == InstallSpec => []InstalledWhenClear
<1>1. InstallInv => InstalledWhenClear
  BY DEF InstallInv
<1> QED BY <1>1, InstallInvariance, PTL

==============================================================================
