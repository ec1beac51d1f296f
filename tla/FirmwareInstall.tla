--------------------------- MODULE FirmwareInstall ---------------------------
(***************************************************************************)
(* The bootloader (gd32_emac_bootloader) installs a firmware while the      *)
(* configuration store is at work: FlashCodeInstall of lib-flashcodeinstall *)
(* and the store share the one state machine of the flash controller.  The  *)
(* installer is called by the HTTP server, with chunks, or by the TFTP      *)
(* server, with the whole firmware; each of its calls loops until the       *)
(* controller says done, and no timer runs meanwhile.                       *)
(***************************************************************************)
EXTENDS ConfigStore

CONSTANTS ChunkWords,     \* words of a chunk of the HTTP upload
          MaxUploads      \* bound of the exploration: uploads begun

ASSUME ChunkAssumption == ChunkWords \in 1..FirmwareWords /\ MaxUploads \in Nat
ASSUME NoImageAssumption == "none" \notin Images

VARIABLES
  call,         \* the call of the installer the superloop is in
  image,        \* the firmware of this upload
  chunkState,   \* chunk_state_
  size,         \* firmware_size_
  written,      \* write_count_
  uploads,      \* history: uploads begun
  clear,        \* history: no call of this upload found the same operation of the
                \*   store under way in the controller
  installed     \* history: the installer has reported success for image

installVars == <<call, image, chunkState, size, written, uploads, clear, installed>>
allVars     == <<vars, installVars>>

NoImage == "none"

InstallInit ==
  /\ Init
  /\ call = "none" /\ image = NoImage /\ chunkState = "Start"
  /\ size = 0 /\ written = 0 /\ uploads = 0 /\ clear = TRUE /\ installed = FALSE

\* The superloop is free to call a handler.
Free == call = "none" /\ ~rebooting

\* The store has begun an erase, or a write, that a call of the same would go on with.
Erasing == fmc \in {"EraseBusy", "EraseProgram"}
Writing == fmc \in {"WriteBusy", "WriteProgram"}

\* The installer's erase, one step of the controller.
EraseFirmware(done) == EraseCall(0, FirmwareWords, done)

Begin(how) ==
  /\ Free
  /\ uploads < MaxUploads /\ uploads' = uploads + 1
  /\ image' \in Images
  /\ call' = how
  /\ clear' = ~Erasing
  /\ installed' = FALSE
  /\ UNCHANGED vars

\* FlashCodeInstall::Erase(): an HTTP upload starts.
UploadStart ==
  /\ Begin("Erase")
  /\ size' = FirmwareWords /\ written' = 0
  /\ UNCHANGED chunkState

\* Its loop.
UploadErase ==
  /\ call = "Erase"
  /\ \E done \in BOOLEAN :
       /\ EraseFirmware(done)
       /\ call' = (IF done THEN "none" ELSE "Erase")
       /\ chunkState' = (IF done THEN "Write" ELSE chunkState)
  /\ UNCHANGED <<storeVars, flash, version, boundVars, image, size, written, uploads,
                 clear, installed>>

\* FlashCodeInstall::WriteChunk(), which does not look at chunk_state_.
UploadChunk ==
  /\ Free /\ image # NoImage
  /\ written + ChunkWords <= size
  /\ call' = "Chunk"
  /\ clear' = (clear /\ ~Writing)
  /\ UNCHANGED <<vars, image, chunkState, size, written, uploads, installed>>

\* Mutant: each chunk is written to the start.
WriteChunk_SameOffset ==
  /\ call = "Chunk"
  /\ \E done \in BOOLEAN :
       /\ WriteCall(0, ChunkWords, image, done)
       /\ call' = (IF done THEN "none" ELSE "Chunk")
       /\ written' = (IF done THEN written + ChunkWords ELSE written)
  /\ UNCHANGED <<storeVars, flash, version, boundVars, image, chunkState, size, uploads,
                 clear, installed>>

\* Its loop.
WriteChunk ==
  /\ call = "Chunk"
  /\ \E done \in BOOLEAN :
       /\ WriteCall(written, ChunkWords, image, done)
       /\ call' = (IF done THEN "none" ELSE "Chunk")
       /\ written' = (IF done THEN written + ChunkWords ELSE written)
  /\ UNCHANGED <<storeVars, flash, version, boundVars, image, chunkState, size, uploads,
                 clear, installed>>

\* FlashCodeInstall::WriteChunkComplete()
WriteChunkComplete ==
  /\ Free /\ image # NoImage
  /\ installed' = (chunkState = "Write" /\ size = written)
  /\ chunkState' = "Start" /\ written' = 0
  /\ UNCHANGED <<vars, call, image, size, uploads, clear>>

\* FlashCodeInstall::WriteFirmware(): the TFTP server has the whole firmware.
WriteFirmware == Begin("WholeErase") /\ UNCHANGED <<chunkState, size, written>>

\* Its two loops.
WriteFirmwareErase ==
  /\ call = "WholeErase"
  /\ \E done \in BOOLEAN :
       EraseFirmware(done) /\ call' = (IF done THEN "WholeWrite" ELSE "WholeErase")
  /\ UNCHANGED <<storeVars, flash, version, boundVars, image, chunkState, size, written,
                 uploads, clear, installed>>

WriteFirmwareWrite ==
  /\ call = "WholeWrite"
  /\ \E done \in BOOLEAN :
       /\ WriteCall(0, FirmwareWords, image, done)
       /\ call' = (IF done THEN "none" ELSE "WholeWrite")
       /\ installed' = done
  /\ UNCHANGED <<storeVars, flash, version, boundVars, image, chunkState, size, written,
                 uploads, clear>>

\* The store's steps, while the installer is not in a loop.
Store == call = "none" /\ Superloop /\ UNCHANGED installVars

\* A start of the processor forgets the upload.
Forget == call' = "none" /\ image' = NoImage /\ chunkState' = "Start" /\ size' = 0
          /\ written' = 0 /\ clear' = TRUE /\ installed' = FALSE /\ UNCHANGED uploads

InstallNext ==
  \/ Store
  \/ JobDone /\ UNCHANGED installVars
  \/ (Restart \/ PowerLoss) /\ Forget
  \/ UploadStart \/ UploadErase \/ UploadChunk \/ WriteChunk \/ WriteChunkComplete
  \/ WriteFirmware \/ WriteFirmwareErase \/ WriteFirmwareWrite

InstallSpec == InstallInit /\ [][InstallNext]_allVars

\* The loops of the installer call the controller again and again, and the hardware
\* finishes what it does.
FairInstallSpec ==
  /\ InstallSpec
  /\ WF_allVars(JobDone /\ UNCHANGED installVars)
  /\ WF_allVars(UploadErase \/ WriteChunk \/ WriteFirmwareErase \/ WriteFirmwareWrite)
  /\ WF_allVars(Store)

----------------------------------------------------------------------------
(* Properties *)

Holds(firmware) == \A c \in 0..(FirmwareWords - 1) : flash[c] = firmware

\* A firmware whose upload was reported a success is in the flash, whole, if the store
\* did not leave an operation for a call of the installer to go on with: chunks and
\* the steps of the store's save come in any order, and each breaks off the other's.
InstalledWhenClear == installed /\ clear => Holds(image)

\* When the end of an HTTP upload is answered with {"status":"ok"}
\* (lib-remoteconfig/src/httpd/httpdhandlerequest.cpp:633), the firmware is in the flash.
UploadIsWhole == [][WriteChunkComplete /\ installed' => Holds(image)]_allVars

\* The installer's calls return: its loops do not wait for each other's operation.
InstallReturns == call # "none" ~> call = "none"
=============================================================================
