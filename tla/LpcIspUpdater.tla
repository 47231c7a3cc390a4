---------------------------- MODULE LpcIspUpdater ---------------------------
(***************************************************************************)
(* The update of the coprocessor's firmware through its boot ROM           *)
(* (Hardware/SAM4E/LpcIspUpdater.cpp): the commands in the order in which  *)
(* Update sends them, what they do to the flash, and the failures that can *)
(* end it: a reply that does not come, a reset of the host, a power loss.  *)
(*                                                                         *)
(* The flash is a row of blocks of TransferSize bytes, BlocksPerSector to  *)
(* a sector; a block holds a block of an image, or is erased, or torn when *)
(* the power went while it was written.  The boot ROM is external: it      *)
(* starts the program whose first block carries a valid vector table, and  *)
(* stays in its in-system programming mode otherwise; the update assumes,  *)
(* as the code does, that a torn first block has no valid table.  Whatever *)
(* is sent to it before a time-out may or may not have been carried out.   *)
(***************************************************************************)
EXTENDS Naturals

CONSTANTS
  Images,            \* the firmware files on the SD card, and the installed one
  ImageLength,       \* their lengths, in halves of a block
  BadVectors,        \* those whose vector table is not valid
  Protected,         \* those that enable code read protection
  Installed,         \* the image in the flash at first
  FlashBlocks, BlocksPerSector,
  MaxAttempts,       \* MaxUuencodeAttempts
  MaxFailures        \* failures in a behaviour

Good == Images \ (BadVectors \cup Protected)

\* Block b holds the beginning, the middle or the end of image i.
InImage(b, i) == 2 * b < ImageLength[i]

\* Mutant of ProgramBlocks: the length is rounded down.
ProgramBlocksDown(i) == IF ImageLength[i] < 4 THEN 1 ELSE ImageLength[i] \div 2

\* The blocks of an image, the last of which it need not fill.
ProgramBlocks(i) == (ImageLength[i] + 1) \div 2

ASSUME UpdaterAssumption ==
  /\ FlashBlocks \in Nat \ {0} /\ MaxAttempts \in Nat \ {0}
  /\ BlocksPerSector \in 1 .. FlashBlocks
  /\ MaxFailures \in Nat
  /\ ImageLength \in [Images -> 1 .. 2 * FlashBlocks]
  /\ BadVectors \subseteq Images /\ Protected \subseteq Images
  /\ Installed \in Good
  /\ {"erased", "torn", "unknown"} \cap Images = {}

VARIABLES
  place,         \* what Update does next
  image,         \* the image being installed
  position,      \* how many of its blocks have been programmed
  attempt,       \* attempts to transfer the present block
  ram,           \* the buffer in the coprocessor's RAM
  prepared,      \* the boot ROM accepts an erase or a copy
  flash,
  running,       \* the coprocessor runs its program or the boot ROM
  report,        \* what the last update told the user
  failuresLeft

vars == <<place, image, position, attempt, ram, prepared, flash, running, report, failuresLeft>>

Blocks == 0 .. FlashBlocks - 1
Contents == Images \cup {"erased", "torn"}
Places == {"idle", "enter", "handshake", "prepareAll", "erase", "write", "transfer", "prepare",
           "copy", "compare", "leave"}

\* The ROM finds a program to start when the first block has a valid table.
Bootable(f) == f[0] \in Images \ BadVectors
Boot(f) == IF Bootable(f) THEN "program" ELSE "rom"

\* The word that protects the flash lies in the second block.
ReadProtected == 1 \in Blocks /\ flash[1] \in Protected

\* Mutant of Order: the blocks are programmed from the first to the last.
OrderFromZero(n, k) == k - 1

\* The block that is programmed as the k-th of n: those above sector zero,
\* then the rest of sector zero, then the first.
Order(n, k) ==
  LET above == IF n > BlocksPerSector THEN n - BlocksPerSector ELSE 0
  IN IF k <= above THEN BlocksPerSector + k - 1
     ELSE IF k < n THEN k - above ELSE 0

Block == Order(ProgramBlocks(image), position + 1)

-----------------------------------------------------------------------------
\* A command whose reply is not "0", or does not come: the update gives up,
\* closes the file and lets the coprocessor start.
Abort ==
  /\ failuresLeft > 0
  /\ failuresLeft' = failuresLeft - 1
  /\ place' = "leave"
  /\ report' = "failed"

\* Mutant of Valid: protected images are accepted.
ValidVectors(i) == i \notin BadVectors

\* ValidateFirmware.
Valid(i) == i \in Good

\* CheckFirmwareFile, then Update up to PrepareForFirmwareUpdate.
Start(i) ==
  /\ place = "idle"
  /\ IF Valid(i)
     THEN /\ place' = "enter" /\ report' = "none"
          /\ image' = i /\ position' = 0 /\ attempt' = 0
     ELSE report' = "refused" /\ UNCHANGED <<place, image, position, attempt>>
  /\ UNCHANGED <<ram, prepared, flash, running, failuresLeft>>

\* SetBootPins(true) resets the coprocessor into the boot ROM.
EnterRom ==
  /\ place = "enter"
  /\ running' = "rom" /\ prepared' = FALSE /\ ram' = "unknown"
  /\ place' = "handshake"
  /\ UNCHANGED <<image, position, attempt, flash, report, failuresLeft>>

\* Synchronize, unlock and CheckPartId.  A protected coprocessor refuses.
Handshake ==
  /\ place = "handshake"
  /\ \/ ~ReadProtected /\ place' = "prepareAll" /\ UNCHANGED <<report, failuresLeft>>
     \/ ReadProtected /\ place' = "leave" /\ report' = "failed" /\ UNCHANGED failuresLeft
     \/ Abort
  /\ UNCHANGED <<image, position, attempt, ram, prepared, flash, running>>

PrepareAll ==
  /\ place = "prepareAll"
  /\ \/ prepared' = TRUE /\ place' = "erase" /\ UNCHANGED <<report, failuresLeft>>
     \/ prepared' \in BOOLEAN /\ Abort
  /\ UNCHANGED <<image, position, attempt, ram, flash, running>>

Erase ==
  /\ place = "erase"
  /\ \/ /\ prepared
        /\ flash' = [b \in Blocks |-> "erased"] /\ prepared' = FALSE
        /\ \/ place' = "write" /\ UNCHANGED <<report, failuresLeft>>
           \/ Abort
     \/ UNCHANGED <<flash, prepared>> /\ Abort
  /\ UNCHANGED <<image, position, attempt, ram, running>>

\* ProgramBlock reads the block from the file and announces the transfer.
Write ==
  /\ place = "write"
  /\ \/ place' = "transfer" /\ attempt' = 1 /\ UNCHANGED <<report, failuresLeft>>
     \/ Abort /\ UNCHANGED attempt
  /\ UNCHANGED <<image, position, ram, prepared, flash, running>>

MayResend == attempt < MaxAttempts

\* SendUuencodedBlock.  On RESEND the block is sent again, at most
\* MaxAttempts times; any other reply ends the update.
Transfer ==
  /\ place = "transfer"
  /\ \/ /\ ram' = image /\ place' = "prepare"
        /\ UNCHANGED <<attempt, report, failuresLeft>>
     \/ /\ MayResend /\ failuresLeft > 0
        /\ attempt' = attempt + 1 /\ failuresLeft' = failuresLeft - 1
        /\ ram' = "unknown"
        /\ UNCHANGED <<place, report>>
     \/ ram' \in {"unknown", image} /\ Abort /\ UNCHANGED attempt
  /\ UNCHANGED <<image, position, prepared, flash, running>>

Prepare ==
  /\ place = "prepare"
  /\ \/ prepared' = TRUE /\ place' = "copy" /\ UNCHANGED <<report, failuresLeft>>
     \/ prepared' \in BOOLEAN /\ Abort
  /\ UNCHANGED <<image, position, attempt, ram, flash, running>>

\* The last block is not compared: the ROM maps its own vectors over it.
Copied ==
  /\ position' = position + 1
  /\ IF position' = ProgramBlocks(image)
     THEN place' = "leave" /\ report' = "complete"
     ELSE place' = "write" /\ UNCHANGED report

Copy ==
  /\ place = "copy"
  /\ \/ /\ prepared
        /\ flash' = [flash EXCEPT ![Block] = ram] /\ prepared' = FALSE
        /\ \/ /\ IF Block = 0 THEN Copied
                 ELSE place' = "compare" /\ UNCHANGED <<position, report>>
              /\ UNCHANGED failuresLeft
           \/ Abort /\ UNCHANGED position
     \/ UNCHANGED <<flash, prepared, position>> /\ Abort
  /\ UNCHANGED <<image, attempt, ram, running>>

Compare ==
  /\ place = "compare"
  /\ \/ flash[Block] = ram /\ Copied /\ UNCHANGED failuresLeft
     \/ Abort /\ UNCHANGED position
  /\ UNCHANGED <<image, attempt, ram, prepared, flash, running>>

\* SetBootPins(false) resets the coprocessor; the link is started again.
Leave ==
  /\ place = "leave"
  /\ running' = Boot(flash)
  /\ place' = "idle"
  /\ UNCHANGED <<image, position, attempt, ram, prepared, flash, report, failuresLeft>>

-----------------------------------------------------------------------------
\* What the flash may hold when the power goes: a command that changes it may
\* not have started, be half done, or be done.
Interrupted ==
  CASE place = "erase" /\ prepared ->
         {flash, [b \in Blocks |-> "torn"], [b \in Blocks |-> "erased"]}
    [] place = "copy" /\ prepared ->
         {flash, [flash EXCEPT ![Block] = "torn"], [flash EXCEPT ![Block] = ram]}
    [] OTHER -> {flash}

Stop ==
  /\ failuresLeft > 0
  /\ failuresLeft' = failuresLeft - 1
  /\ place' = "idle" /\ report' = "interrupted"

PowerLoss ==
  /\ Stop
  /\ flash' \in Interrupted
  /\ running' = Boot(flash')
  /\ ram' = "unknown" /\ prepared' = FALSE
  /\ UNCHANGED <<image, position, attempt>>

\* The host is reset alone: the coprocessor ends what it was told to do and
\* stays where it is.
HostReset ==
  /\ Stop
  /\ flash' \in Interrupted /\ \A b \in Blocks : flash'[b] = "torn" => flash[b] = "torn"
  /\ UNCHANGED <<image, position, attempt, ram, prepared, running>>

-----------------------------------------------------------------------------
Init ==
  /\ place = "idle" /\ image = Installed /\ position = 0 /\ attempt = 0
  /\ ram = "unknown" /\ prepared = FALSE
  /\ flash = [b \in Blocks |-> IF InImage(b, Installed) THEN Installed ELSE "erased"]
  /\ running = "program"
  /\ report = "none"
  /\ failuresLeft = MaxFailures

Step == EnterRom \/ Handshake \/ PrepareAll \/ Erase \/ Write \/ Transfer \/ Prepare \/ Copy
          \/ Compare \/ Leave

Next == (\E i \in Images : Start(i)) \/ Step \/ PowerLoss \/ HostReset

Spec == Init /\ [][Next]_vars

\* Update runs to its end, and the user starts it again after a failure, as
\* the message of a failed update asks.
Retry == report # "complete" /\ \E i \in Good : Start(i)

FairSpec == Spec /\ WF_vars(Step) /\ WF_vars(Retry)

-----------------------------------------------------------------------------
(* Properties.                                                             *)

Holds(i) == \A b \in Blocks : InImage(b, i) => flash[b] = i

\* Every variable keeps its type.
TypeOK ==
  /\ place \in Places
  /\ image \in Images
  /\ position \in 0 .. ProgramBlocks(image)
  /\ attempt \in 0 .. MaxAttempts
  /\ ram \in Images \cup {"unknown"}
  /\ prepared \in BOOLEAN
  /\ flash \in [Blocks -> Contents]
  /\ running \in {"program", "rom"}
  /\ report \in {"none", "complete", "failed", "refused", "interrupted"}
  /\ failuresLeft \in 0 .. MaxFailures

\* Whenever the coprocessor runs a program, its flash holds one whole image,
\* wherever an update was cut off: a power loss leaves the boot ROM in charge
\* until the last block has been written.
RunsWholeImage == running = "program" => \E i \in Good : Holds(i)

\* An update that reports success has installed every block of the image it
\* was given, and the coprocessor has started it.
CompleteMeansInstalled ==
  report = "complete" => Holds(image) /\ (place = "idle" => running = "program")

\* An update that failed or was interrupted can be repeated: no state of the
\* flash, and no image that was accepted, locks the boot ROM out.
UpdateRecovers == report \in {"failed", "interrupted"} ~> report = "complete"

=============================================================================
