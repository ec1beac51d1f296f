----------------------------- MODULE ConfigStore -----------------------------
(***************************************************************************)
(* The configuration store (lib-configstore) on the flash memory of the     *)
(* processor (lib-flashcode, lib-gd32/src/f/fmc).  The settings live in a   *)
(* copy in RAM; a change starts a software timer whose callback walks a     *)
(* state machine that erases the sector and writes the copy word by word,   *)
(* each through a second state machine, that of the flash controller.       *)
(* Nothing of this blocks the superloop, so the settings may change, and    *)
(* the power may fail, between any two steps.                               *)
(*                                                                          *)
(* A cell of the flash is a word of 32 bits.  The first FirmwareWords cells *)
(* are the firmware's (module FirmwareInstall), the rest the sector of the  *)
(* store.  Word 0 stands for the magic number and the version number.       *)
(***************************************************************************)
EXTENDS Integers

CONSTANTS
  PageWords,       \* words of a page, the unit of erasing
  SectorWords,     \* words of the sector of the store, kStoreSize
  StoreWords,      \* words written, sizeof(ConfigurationStore)
  FirmwareWords,   \* words of the firmware
  Values,          \* the values of a setting
  Images,          \* the firmwares
  Zero, Magic, Erased,
  MaxChanges,      \* bound of the exploration: changes of the settings
  MaxLosses        \* bound of the exploration: losses of power

ASSUME SizeAssumption ==
  /\ PageWords \in Nat \ {0} /\ SectorWords \in Nat /\ FirmwareWords \in Nat
  /\ \E n \in 1..SectorWords : SectorWords = n * PageWords
  /\ \E n \in 0..FirmwareWords : FirmwareWords = n * PageWords
  /\ StoreWords \in 1..SectorWords
ASSUME ValueAssumption ==
  /\ Zero \in Values /\ Magic # Erased /\ Zero # Erased /\ Zero # Magic
  /\ Erased \notin Values
ASSUME ImageAssumption == "store" \notin Images /\ Erased \notin Images
ASSUME BoundAssumption == MaxChanges \in Nat /\ MaxLosses \in Nat

VARIABLES
  store,      \* s_store, the copy in RAM
  state,      \* ConfigStore::s_state
  timer,      \* s_timer_id is not kTimerIdNone
  rebooting,  \* the superloop is in ConfigstoreCommit() of board::Reboot()
  flash,      \* the cells of the flash
  fmc,        \* s_state of the flash controller's state machine
  address,    \* s_address: the next page to erase, or the word being written
  left,       \* s_length: what is left to erase or to write
  data,       \* where s_data points to: the store, or a firmware
  job,        \* what the controller's hardware is doing
  version,    \* history: what was written last, or is being written
  changes, losses

storeVars  == <<store, state, timer, rebooting>>
fmcVars    == <<fmc, address, left, data>>
boundVars  == <<changes, losses>>
vars       == <<storeVars, flash, fmcVars, job, version, boundVars>>

Words       == 0..(StoreWords - 1)
Cells       == 0..(FirmwareWords + SectorWords - 1)
ConfigStart == FirmwareWords                      \* s_start_address
Page(a)     == {c \in Cells : a <= c /\ c < a + PageWords}  \* a is where it starts

WordValues == Values \cup {Magic, Erased}
Ready      == [op |-> "Ready", at |-> 0, word |-> Erased]

\* The cell of a word of the store.
Cell(w) == ConfigStart + w

\* What the store reads of the cells f.
Stored(f) == [w \in Words |-> f[Cell(w)]]

IsValid(s) == s[0] = Magic

Defaults == [w \in Words |-> IF w = 0 THEN Magic ELSE Zero]

\* Mutant: the header is not looked at.
Load_Unchecked(f) == Stored(f)

\* The constructor on the cells f: invalid contents become the defaults, to be saved.
Load(f) == IF IsValid(Stored(f)) THEN Stored(f) ELSE Defaults

Init ==
  /\ flash = [c \in Cells |-> Erased]
  /\ store = Defaults
  /\ state = "Changed"
  /\ timer = TRUE
  /\ rebooting = FALSE
  /\ fmc = "Idle" /\ address = 0 /\ left = 0 /\ data = "store"
  /\ job = Ready
  /\ version = Defaults
  /\ changes = 0 /\ losses = 0

----------------------------------------------------------------------------
(* The flash controller: a call of Erase() or Write() does one step of its  *)
(* state machine, and done is what it returns.  A call that finds the other *)
(* operation under way breaks that off; one that finds its own goes on with *)
(* it, whatever its arguments are.                                          *)

\* Mutant: a write under way is not broken off.
EraseCall_Waits(offset, length, done) ==
  \/ /\ fmc = "Idle" /\ ~done
     /\ fmc' = "EraseBusy" /\ address' = offset /\ left' = length
     /\ UNCHANGED <<data, job>>
  \/ /\ fmc = "EraseBusy" /\ job # Ready /\ ~done
     /\ UNCHANGED <<fmcVars, job>>
  \/ /\ fmc = "EraseBusy" /\ job = Ready
     /\ done = (left = 0)
     /\ fmc' = (IF done THEN "Idle" ELSE "EraseProgram")
     /\ UNCHANGED <<address, left, data, job>>
  \/ /\ fmc = "EraseProgram" /\ ~done
     /\ job' = [op |-> "Erase", at |-> address, word |-> Erased]
     /\ fmc' = "EraseBusy"
     /\ address' = address + PageWords /\ left' = left - PageWords
     /\ UNCHANGED data
  \/ /\ fmc \in {"WriteBusy", "WriteProgram"} /\ ~done
     /\ UNCHANGED <<fmcVars, job>>

\* gd32::fmc::Erase()
EraseCall(offset, length, done) ==
  \/ /\ fmc = "Idle" /\ ~done
     /\ fmc' = "EraseBusy" /\ address' = offset /\ left' = length
     /\ UNCHANGED <<data, job>>
  \/ /\ fmc = "EraseBusy" /\ job # Ready /\ ~done
     /\ UNCHANGED <<fmcVars, job>>
  \/ /\ fmc = "EraseBusy" /\ job = Ready
     /\ done = (left = 0)
     /\ fmc' = (IF done THEN "Idle" ELSE "EraseProgram")
     /\ UNCHANGED <<address, left, data, job>>
  \/ /\ fmc = "EraseProgram" /\ ~done
     /\ job' = [op |-> "Erase", at |-> address, word |-> Erased]
     /\ fmc' = "EraseBusy"
     /\ address' = address + PageWords /\ left' = left - PageWords
     /\ UNCHANGED data
  \/ /\ fmc \in {"WriteBusy", "WriteProgram"} /\ ~done
     /\ fmc' = "Idle"
     /\ UNCHANGED <<address, left, data, job>>

\* The word s_data points to, read when it is written.
Word == IF data = "store" THEN store[address - ConfigStart] ELSE data

\* gd32::fmc::Write() of a length that is valid.  A word written to the array
\* while the hardware is at work waits for it (the bus stalls).
WriteCall(offset, length, source, done) ==
  \/ /\ fmc = "Idle" /\ ~done
     /\ fmc' = "WriteProgram" /\ address' = offset /\ left' = length /\ data' = source
     /\ UNCHANGED job
  \/ /\ fmc = "WriteBusy" /\ job # Ready /\ ~done
     /\ UNCHANGED <<fmcVars, job>>
  \/ /\ fmc = "WriteBusy" /\ job = Ready
     /\ done = (left = 0)
     /\ fmc' = (IF done THEN "Idle" ELSE "WriteProgram")
     /\ address' = (IF done THEN address ELSE address + 1)
     /\ UNCHANGED <<left, data, job>>
  \/ /\ fmc = "WriteProgram" /\ job = Ready /\ ~done
     /\ job' = [op |-> "Program", at |-> address, word |-> Word]
     /\ fmc' = "WriteBusy" /\ left' = left - 1
     /\ UNCHANGED <<address, data>>
  \/ /\ fmc \in {"EraseBusy", "EraseProgram"} /\ ~done
     /\ fmc' = "Idle"
     /\ UNCHANGED <<address, left, data, job>>

\* What the hardware's job makes of the cells, done in the cells of set only: an
\* erase empties a page, and a word is programmed into an empty cell or not at all.
Effect(set) ==
  [c \in Cells |->
     IF job.op = "Erase" /\ c \in Page(job.at) \cap set THEN Erased
     ELSE IF job.op = "Program" /\ c \in {job.at} \cap set /\ flash[c] = Erased
          THEN job.word ELSE flash[c]]

\* The hardware has finished its job.
JobDone ==
  /\ job # Ready
  /\ flash' = Effect(Cells)
  /\ job' = Ready
  /\ UNCHANGED <<storeVars, fmcVars, version, boundVars>>

----------------------------------------------------------------------------
(* The store. *)

\* The superloop polls its components.
Polling == ~rebooting

\* SetStatusChanged() and TimerStart()
SetStatusChanged == state' = "Changed" /\ timer' = TRUE

Changing == /\ Polling
            /\ changes < MaxChanges /\ changes' = changes + 1
            /\ UNCHANGED <<flash, fmcVars, job, version, losses>>

\* Store(), Update(), UpdateArray(), SetFlagInternal() and ClearFlagInternal(), which
\* do nothing unless the value differs.
Update(w, v) ==
  /\ Changing
  /\ store[w] # v
  /\ store' = [store EXCEPT ![w] = v]
  /\ SetStatusChanged
  /\ UNCHANGED rebooting

\* RemoteConfig::HandleFactory(): Reset(), and a reboot at once.
HandleFactory ==
  /\ Changing
  /\ store' = [w \in Words |-> Zero]
  /\ SetStatusChanged
  /\ rebooting' = TRUE

\* board::Reboot(), up to its call of ConfigstoreCommit().
Reboot ==
  /\ Polling
  /\ rebooting' = TRUE
  /\ UNCHANGED <<store, state, timer, flash, fmcVars, job, version, boundVars>>

To(next) == state' = next /\ UNCHANGED <<fmcVars, job, version>>

\* Mutant: the sector is written without being erased.
Flash_NoErase(again) ==
  \/ state = "Idle" /\ ~again /\ To("Idle")
  \/ state = "Changed" /\ again /\ To("ChangedWaiting")
  \/ state = "ChangedWaiting" /\ again /\ To("Erased")
  \/ state = "Erased" /\ again /\ To("Writing")
  \/ /\ state = "Writing"
     /\ WriteCall(ConfigStart, StoreWords, "store", ~again)
     /\ state' = (IF again THEN "Writing" ELSE "Idle")
     /\ version' = (IF fmc = "Idle" THEN store ELSE version)

\* Mutant: the end of the write is not waited for.
Flash_Early(again) ==
  \/ state = "Idle" /\ ~again /\ To("Idle")
  \/ state = "Changed" /\ again /\ To("ChangedWaiting")
  \/ state = "ChangedWaiting" /\ again /\ To("Erasing")
  \/ /\ state = "Erasing" /\ again
     /\ \E done \in BOOLEAN : EraseCall(ConfigStart, SectorWords, done)
                              /\ state' = (IF done THEN "ErasedWaiting" ELSE "Erasing")
     /\ UNCHANGED version
  \/ state = "ErasedWaiting" /\ again /\ To("Erased")
  \/ state = "Erased" /\ again /\ To("Writing")
  \/ /\ state = "Writing"
     /\ \E done \in BOOLEAN : WriteCall(ConfigStart, StoreWords, "store", done)
     /\ again = (left' > 0)
     /\ state' = (IF again THEN "Writing" ELSE "Idle")
     /\ version' = (IF fmc = "Idle" THEN store ELSE version)

\* Flash(), called by Commit(); again is what it returns.
Flash(again) ==
  \/ state = "Idle" /\ ~again /\ To("Idle")
  \/ state = "Changed" /\ again /\ To("ChangedWaiting")
  \/ state = "ChangedWaiting" /\ again /\ To("Erasing")
  \/ /\ state = "Erasing" /\ again
     /\ \E done \in BOOLEAN : EraseCall(ConfigStart, SectorWords, done)
                              /\ state' = (IF done THEN "ErasedWaiting" ELSE "Erasing")
     /\ UNCHANGED version
  \/ state = "ErasedWaiting" /\ again /\ To("Erased")
  \/ state = "Erased" /\ again /\ To("Writing")
  \/ /\ state = "Writing"
     /\ WriteCall(ConfigStart, StoreWords, "store", ~again)
     /\ state' = (IF again THEN "Writing" ELSE "Idle")
     /\ version' = (IF fmc = "Idle" THEN store ELSE version)

\* Timer(): it deletes itself when there is nothing left to do.
Timer ==
  /\ Polling /\ timer
  /\ \E again \in BOOLEAN : Flash(again) /\ timer' = again
  /\ UNCHANGED <<store, rebooting, flash, boundVars>>

\* A turn of the loop of ConfigstoreCommit(); no timer runs meanwhile.
ConfigstoreCommit ==
  /\ rebooting /\ state # "Idle"
  /\ \E again \in BOOLEAN : Flash(again)
  /\ UNCHANGED <<store, timer, rebooting, flash, boundVars>>

\* The processor starts with the cells f, and the constructor reads them.
Boot(f) ==
  LET valid == IsValid(Stored(f))
  IN  /\ flash' = f
      /\ store' = Load(f)
      /\ state' = (IF valid THEN "Idle" ELSE "Changed")
      /\ timer' = ~valid
      /\ rebooting' = FALSE
      /\ fmc' = "Idle" /\ address' = 0 /\ left' = 0 /\ data' = "store"
      /\ job' = Ready
      /\ version' = (IF valid THEN Stored(f) ELSE version)

\* The end of board::Reboot(): NVIC_SystemReset().
Restart == rebooting /\ state = "Idle" /\ Boot(flash) /\ UNCHANGED boundVars

\* The power fails; the job at hand is done in part.
PowerLoss ==
  /\ losses < MaxLosses /\ losses' = losses + 1 /\ UNCHANGED changes
  /\ \E set \in SUBSET (IF job = Ready THEN {} ELSE Page(job.at)) : Boot(Effect(set))

Superloop == \/ \E w \in Words \ {0}, v \in Values : Update(w, v)
             \/ HandleFactory
             \/ Reboot
             \/ Timer
             \/ ConfigstoreCommit

Next == Superloop \/ Restart \/ JobDone \/ PowerLoss

Spec == Init /\ [][Next]_vars

\* The timer's callback is called again and again (module SoftwareTimers), the
\* commit of a reboot is a loop, and the hardware finishes what it does.
FairSpec == Spec /\ WF_vars(Timer) /\ WF_vars(ConfigstoreCommit) /\ WF_vars(Restart)
                 /\ WF_vars(JobDone)

----------------------------------------------------------------------------
(* Properties *)

States == {"Idle", "Changed", "ChangedWaiting", "Erasing", "ErasedWaiting", "Erased",
           "Writing"}

Jobs == [op : {"Ready", "Erase", "Program"}, at : Cells, word : WordValues \cup Images]

TypeOK ==
  /\ store \in [Words -> WordValues]
  /\ state \in States
  /\ timer \in BOOLEAN /\ rebooting \in BOOLEAN
  /\ flash \in [Cells -> WordValues \cup Images]
  /\ fmc \in {"Idle", "EraseBusy", "EraseProgram", "WriteBusy", "WriteProgram"}
  /\ address \in Nat /\ left \in Nat
  /\ data \in {"store"} \cup Images
  /\ job \in Jobs
  /\ version \in [Words -> WordValues]

\* When the store is idle, what the flash holds is the copy in RAM, word for word:
\* a change is never taken for saved before it is, however it falls between the
\* steps of an earlier save, which reads the copy while it writes.
IdleSaved == state = "Idle" => Stored(flash) = store

\* The flash never mixes two versions of the settings: each of its words that is not
\* empty is one of the version being written, or of the one last saved while that is
\* being erased.  A valid header therefore never stands before words of a version
\* that was never set, whenever the power fails.
OneVersion == \A w \in Words : flash[Cell(w)] \in {Erased, version[w]}

\* A store with something to save has the timer that will save it.
TimerRuns == state # "Idle" => timer

\* Changes are saved in the end, once they cease: the copy in RAM and the flash agree
\* again and again.
EventuallySaved == []<>(state = "Idle" /\ Stored(flash) = store)

\* The store keeps the promise of SettingsStore.  The version is durable while the
\* flash holds it and no page of it is being erased.
Promise == INSTANCE SettingsStore
             WITH Lost <- Erased, settings <- store,
                  durable <- (Stored(flash) = version /\ job.op # "Erase")

ImplementsPromise == Promise!Spec
=============================================================================
