------------------------ MODULE LpcIspUpdaterProofs -------------------------
(***************************************************************************)
(* For every image, flash size and number of failures: the coprocessor     *)
(* never runs a mixture of two images, and an update that reports success  *)
(* has installed its image.                                                *)
(***************************************************************************)
EXTENDS LpcIspUpdater, TLAPS

Programming == {"write", "transfer", "prepare", "copy", "compare"}
Updating == Programming \cup {"enter", "handshake", "prepareAll", "erase", "leave"}

\* What lets the boot ROM start a program is a whole good image.
BootsWhole == Bootable(flash) => \E i \in Good : Holds(i)

NothingProgrammed == place \in {"enter", "handshake", "prepareAll", "erase"} => position = 0

\* The blocks programmed so far hold the image, and the first is not there.
Progress ==
  place \in Programming =>
    /\ position < ProgramBlocks(image)
    /\ \A k \in 1 .. position : flash[Order(ProgramBlocks(image), k)] = image
    /\ flash[0] = "erased"

\* A block that is about to be programmed has been transferred.
BufferHolds ==
  /\ place \in {"prepare", "copy", "compare"} => ram = image
  /\ place = "compare" => Block # 0

RomInCharge == place \in Updating \ {"enter"} => running = "rom"

Guarded ==
  /\ image \in Good
  /\ BootsWhole
  /\ NothingProgrammed
  /\ Progress
  /\ BufferHolds
  /\ RomInCharge
  /\ RunsWholeImage
  /\ CompleteMeansInstalled
  /\ report = "complete" => place \in {"leave", "idle"}

\* The inductive invariant.
IInv == TypeOK /\ Guarded

-----------------------------------------------------------------------------
\* The length of an image in blocks fits the flash.
LEMMA BlockCount == \A i \in Images : ProgramBlocks(i) \in 1 .. FlashBlocks
  BY UpdaterAssumption, SMT DEF ProgramBlocks

\* The blocks that are programmed are those that hold a part of the image.
LEMMA ImageExtent ==
  \A i \in Images : \A b \in Blocks : InImage(b, i) <=> b \in 0 .. ProgramBlocks(i) - 1
  BY UpdaterAssumption, SMT DEF ProgramBlocks, InImage, Blocks

\* Order visits blocks of the image, and the first of them last.
LEMMA OrderRange ==
  ASSUME NEW n \in Nat \ {0}, NEW k \in 1 .. n
  PROVE  Order(n, k) \in 0 .. n - 1 /\ (Order(n, k) = 0 <=> k = n)
  BY UpdaterAssumption, SMT DEF Order

\* Order leaves no block out.
LEMMA OrderCovers ==
  ASSUME NEW n \in Nat \ {0}, NEW b \in 0 .. n - 1
  PROVE  \E k \in 1 .. n : Order(n, k) = b
<1>1. CASE b = 0
  <2>1. n \in 1 .. n /\ Order(n, n) = 0
    BY OrderRange, SMT
  <2>2. QED
    BY <1>1, <2>1
<1>2. CASE b # 0 /\ b < BlocksPerSector
  <2> DEFINE above == IF n > BlocksPerSector THEN n - BlocksPerSector ELSE 0
  <2>1. above + b \in 1 .. n /\ Order(n, above + b) = b
    BY <1>2, UpdaterAssumption, SMT DEF Order
  <2>2. QED
    BY <2>1
<1>3. CASE b >= BlocksPerSector
  <2>1. b - BlocksPerSector + 1 \in 1 .. n /\ Order(n, b - BlocksPerSector + 1) = b
    BY <1>3, UpdaterAssumption, SMT DEF Order
  <2>2. QED
    BY <2>1
<1>4. QED
  BY <1>1, <1>2, <1>3, UpdaterAssumption, SMT

\* The block that is programmed next lies in the flash.
LEMMA NextBlock ==
  ASSUME TypeOK, position < ProgramBlocks(image)
  PROVE  Block \in Blocks /\ (Block = 0 <=> position + 1 = ProgramBlocks(image))
<1>1. ProgramBlocks(image) \in 1 .. FlashBlocks /\ position \in Nat
  BY BlockCount, SMT DEF TypeOK
<1>2. position + 1 \in 1 .. ProgramBlocks(image)
  BY <1>1, SMT
<1>3. QED
  BY <1>1, <1>2, OrderRange, UpdaterAssumption, SMT DEF Block, Blocks

-----------------------------------------------------------------------------
\* The boot ROM's flag stays a Boolean.
LEMMA PreparedTyped ==
  ASSUME TypeOK, [Next]_vars
  PROVE  prepared' \in BOOLEAN
<1>1. CASE EnterRom \/ PowerLoss
  BY <1>1, Zenon DEF EnterRom, PowerLoss
<1>2. CASE PrepareAll \/ Erase \/ Prepare \/ Copy
  BY <1>2, Zenon DEF PrepareAll, Erase, Prepare, Copy, TypeOK
<1>3. CASE (\E i \in Images : Start(i)) \/ Handshake \/ Write \/ Transfer \/ Compare \/ Leave \/ HostReset
  BY <1>3, Zenon DEF Start, Handshake, Write, Transfer, Compare, Leave, HostReset, TypeOK
<1>4. CASE UNCHANGED vars
  BY <1>4, Zenon DEF vars, TypeOK
<1>5. QED
  BY <1>1, <1>2, <1>3, <1>4 DEF Next, Step

\* Type correctness; a block number out of the flash would break it.
LEMMA Typed ==
  ASSUME TypeOK, Guarded, [Next]_vars
  PROVE  TypeOK'
<1> USE UpdaterAssumption
<1>0. prepared' \in BOOLEAN
  BY PreparedTyped
<1>1. \A i \in Images : ProgramBlocks(i) \in 1 .. FlashBlocks
  BY BlockCount
<1>2. ASSUME NEW i \in Images, Start(i) PROVE TypeOK'
  BY <1>1, <1>2, SMT DEF ProgramBlocks, TypeOK, Start, Places
<1>3. CASE EnterRom
  BY <1>0, <1>3, SMT DEF ProgramBlocks, TypeOK, EnterRom, Places
<1>4. CASE Handshake
  BY <1>4, SMT DEF ProgramBlocks, TypeOK, Handshake, Abort, Places
<1>5. CASE PrepareAll
  BY <1>0, <1>5, SMT DEF ProgramBlocks, TypeOK, PrepareAll, Abort, Places
<1>6. CASE Erase
  BY <1>0, <1>6, SMT DEF ProgramBlocks, TypeOK, Erase, Abort, Places, Contents
<1>7. CASE Write
  BY <1>7, SMT DEF ProgramBlocks, TypeOK, Write, Abort, Places
<1>8. CASE Transfer
  BY <1>8, SMT DEF ProgramBlocks, TypeOK, Transfer, MayResend, Abort, Places
<1>9. CASE Prepare
  BY <1>0, <1>9, SMT DEF ProgramBlocks, TypeOK, Prepare, Abort, Places
<1>10. CASE Copy
  <2>1. position < ProgramBlocks(image) /\ ram = image /\ image \in Images
    BY <1>10 DEF Copy, Guarded, Progress, BufferHolds, Programming, TypeOK
  <2>2. flash' \in [Blocks -> Contents]
    BY <1>10, <2>1 DEF Copy, TypeOK, Contents
  <2>3. position' \in 0 .. ProgramBlocks(image')
    BY <1>1, <1>10, <2>1, SMT DEF ProgramBlocks, Copy, Copied, TypeOK
  <2>4. QED
    BY <1>0, <1>10, <2>2, <2>3, SMT DEF ProgramBlocks, Copy, Copied, Abort, TypeOK, Places
<1>11. CASE Compare
  <2>1. position < ProgramBlocks(image)
    BY <1>11 DEF Compare, Guarded, Progress, Programming
  <2>2. position' \in 0 .. ProgramBlocks(image')
    BY <1>1, <1>11, <2>1, SMT DEF ProgramBlocks, Compare, Copied, TypeOK
  <2>3. QED
    BY <1>11, <2>2, SMT DEF ProgramBlocks, Compare, Copied, Abort, TypeOK, Places
<1>12. CASE Leave
  BY <1>12, SMT DEF ProgramBlocks, TypeOK, Leave, Boot, Places
<1>13. ASSUME flash' \in Interrupted PROVE flash' \in [Blocks -> Contents]
  <2>1. [b \in Blocks |-> "torn"] \in [Blocks -> Contents]
    BY DEF Contents
  <2>2. [b \in Blocks |-> "erased"] \in [Blocks -> Contents]
    BY DEF Contents
  <2>3. ASSUME place = "copy" PROVE ram \in Contents
    BY <2>3 DEF Guarded, BufferHolds, TypeOK, Contents
  <2>4. QED
    BY <1>13, <2>1, <2>2, <2>3, SMT DEF Interrupted, TypeOK, Contents
<1>14. CASE PowerLoss
  BY <1>0, <1>13, <1>14, SMT DEF ProgramBlocks, TypeOK, PowerLoss, Stop, Boot, Places
<1>15. CASE HostReset
  BY <1>13, <1>15, SMT DEF ProgramBlocks, TypeOK, HostReset, Stop, Places
<1>16. CASE UNCHANGED vars
  BY <1>16, SMT DEF ProgramBlocks, TypeOK, vars
<1>17. QED
  BY <1>2, <1>3, <1>4, <1>5, <1>6, <1>7, <1>8, <1>9, <1>10, <1>11, <1>12, <1>14, <1>15, <1>16
     DEF Next, Step

-----------------------------------------------------------------------------
\* A step that leaves the flash alone keeps what it says of the image.
LEMMA FlashKept ==
  ASSUME Guarded, flash' = flash
  PROVE  /\ BootsWhole'
         /\ running' = running => RunsWholeImage'
         /\ image' = image /\ Holds(image) => Holds(image)'
  BY Zenon DEF Guarded, BootsWhole, RunsWholeImage, Bootable, Holds

\* When the last block follows the others, the flash holds the whole image.
LEMMA WholeImage ==
  ASSUME TypeOK, NEW f, position + 1 = ProgramBlocks(image),
         \A k \in 1 .. position + 1 : f[Order(ProgramBlocks(image), k)] = image
  PROVE  \A b \in 0 .. ProgramBlocks(image) - 1 : f[b] = image
<1>1. ProgramBlocks(image) \in Nat \ {0}
  BY BlockCount, UpdaterAssumption, SMT DEF TypeOK
<1>2. QED
  BY <1>1, OrderCovers

\* A copy of the block that is next: it programs one more block, and lets the
\* boot ROM start the image only when it is the last.
LEMMA CopyWrites ==
  ASSUME TypeOK, Guarded, place = "copy", image' = image, flash' = [flash EXCEPT ![Block] = ram]
  PROVE  /\ \A k \in 1 .. position + 1 : flash'[Order(ProgramBlocks(image), k)] = image
         /\ Block # 0 => flash'[0] = "erased"
         /\ Block = 0 => Holds(image)'
         /\ BootsWhole'
<1> DEFINE n == ProgramBlocks(image)
<1>1. /\ position < n /\ flash[0] = "erased" /\ ram = image /\ image \in Good
      /\ \A k \in 1 .. position : flash[Order(n, k)] = image
  BY DEF Guarded, Progress, BufferHolds, Programming
<1>2. /\ Block \in Blocks /\ (Block = 0 <=> position + 1 = n)
      /\ n \in 1 .. FlashBlocks /\ position \in Nat /\ 0 \in Blocks
  BY <1>1, NextBlock, BlockCount, UpdaterAssumption, SMT DEF TypeOK, Blocks
<1>3. \A k \in 1 .. position + 1 : flash'[Order(n, k)] = image
  <2>1. n \in Nat \ {0} /\ \A k \in 1 .. position + 1 : k \in 1 .. n
    BY <1>1, <1>2, UpdaterAssumption, SMT
  <2>2. \A k \in 1 .. position + 1 : Order(n, k) \in 0 .. n - 1
    BY <2>1, OrderRange
  <2>3. \A k \in 1 .. position + 1 : Order(n, k) \in Blocks
    BY <1>2, <2>2, UpdaterAssumption, SMT DEF Blocks
  <2>4. \A k \in 1 .. position + 1 : k \in 1 .. position \/ Order(n, k) = Block
    BY <1>2, SMT DEF Block
  <2>5. QED
    BY <1>1, <1>2, <2>3, <2>4 DEF TypeOK
<1>4. Block # 0 => flash'[0] = "erased"
  BY <1>1, <1>2 DEF TypeOK
<1>5. Block = 0 => Holds(image)'
  <2>1. CASE Block = 0
    <3>1. \A b \in 0 .. n - 1 : flash'[b] = image
      BY <1>2, <1>3, <2>1, WholeImage
    <3>2. QED
      BY <3>1, ImageExtent DEF Holds, InImage, TypeOK
  <2>2. QED
    BY <2>1
<1>6. BootsWhole'
  BY <1>1, <1>4, <1>5, UpdaterAssumption DEF BootsWhole, Bootable, Good, Holds
<1>7. QED
  BY <1>3, <1>4, <1>5, <1>6

\* Copying a block, with or without a reply.
LEMMA CopyKeeps ==
  ASSUME TypeOK, Guarded, Copy
  PROVE  Guarded'
<1> USE DEF Guarded, NothingProgrammed, Progress, BufferHolds, RomInCharge, RunsWholeImage,
            CompleteMeansInstalled, Programming, Updating
<1>1. /\ position < ProgramBlocks(image) /\ place = "copy" /\ running' = "rom"
      /\ image' = image /\ ram' = ram /\ ram = image /\ image \in Good
      /\ ProgramBlocks(image') = ProgramBlocks(image) /\ report # "complete"
  BY DEF Copy
<1>2. (Block = 0 <=> position + 1 = ProgramBlocks(image)) /\ position \in Nat
  BY <1>1, NextBlock, SMT DEF TypeOK
<1>3. CASE flash' = [flash EXCEPT ![Block] = ram]
  <2>1. /\ \A k \in 1 .. position + 1 : flash'[Order(ProgramBlocks(image), k)] = image
        /\ Block # 0 => flash'[0] = "erased"
        /\ Block = 0 => Holds(image)'
        /\ BootsWhole'
    BY <1>1, <1>3, CopyWrites
  <2>2. CASE Block = 0 /\ Copied
    <3>1. place' = "leave"
      BY <1>1, <1>2, <2>2 DEF Copied
    <3>2. QED
      BY <1>1, <2>1, <2>2, <3>1
  <2>3. CASE Block # 0 /\ place' = "compare" /\ position' = position /\ report' = report
    <3>1. Block' = Block
      BY <1>1, <2>3 DEF Block, ProgramBlocks
    <3>2. \A k \in 1 .. position : k \in 1 .. position + 1
      BY <1>2, SMT
    <3>3. Progress'
      BY <1>1, <2>1, <2>3, <3>2
    <3>4. QED
      BY <1>1, <2>1, <2>3, <3>1, <3>3
  <2>4. CASE Abort
    BY <1>1, <2>1, <2>4 DEF Abort
  <2>5. QED
    BY <1>1, <1>3, <2>2, <2>3, <2>4, FlashKept DEF Copy
<1>4. CASE flash' = flash /\ Abort
  BY <1>1, <1>4, FlashKept DEF Abort
<1>5. QED
  BY <1>3, <1>4 DEF Copy

\* The compare guards the next block, or the update's end, with what was copied.
LEMMA CompareKeeps ==
  ASSUME TypeOK, Guarded, Compare
  PROVE  Guarded'
<1> DEFINE n == ProgramBlocks(image)
<1>1. /\ position < n /\ flash[0] = "erased" /\ ram = image /\ image \in Good /\ running = "rom"
      /\ Block # 0 /\ flash' = flash /\ report # "complete"
      /\ \A k \in 1 .. position : flash[Order(n, k)] = image
  BY DEF Compare, Guarded, Progress, BufferHolds, RomInCharge, Programming, Updating
<1>2. (Block = 0 <=> position + 1 = n) /\ n \in 1 .. FlashBlocks /\ position \in Nat
  BY <1>1, NextBlock, BlockCount, UpdaterAssumption, SMT DEF TypeOK
<1>3. ProgramBlocks(image)' = n /\ image' = image /\ ram' = ram /\ running' = "rom"
  BY <1>1 DEF Compare, ProgramBlocks
<1>4. BootsWhole'
  BY <1>1, FlashKept
<1>5. CASE flash[Block] = ram /\ Copied
  <2>1. position' = position + 1 /\ place' = "write" /\ report' = report /\ position' < n
    BY <1>1, <1>2, <1>5, SMT DEF Copied
  <2>2. \A k \in 1 .. position' : k \in 1 .. position \/ Order(n, k) = Block
    BY <1>2, <2>1, SMT DEF Block
  <2>3. \A k \in 1 .. position' : flash'[Order(ProgramBlocks(image'), k)] = image'
    BY <1>1, <1>3, <1>5, <2>2 DEF ProgramBlocks
  <2>4. QED
    BY <1>1, <1>3, <1>4, <2>1, <2>3
       DEF Guarded, NothingProgrammed, Progress, BufferHolds, RomInCharge, RunsWholeImage, CompleteMeansInstalled,
           Programming
<1>6. CASE Abort
  BY <1>1, <1>3, <1>4, <1>6
     DEF Guarded, Abort, NothingProgrammed, Progress, BufferHolds, RomInCharge, RunsWholeImage,
         CompleteMeansInstalled, Programming
<1>7. QED
  BY <1>5, <1>6 DEF Compare

\* The first blocks are written after the whole flash has been erased.
LEMMA EraseKeeps ==
  ASSUME TypeOK, Guarded, Erase
  PROVE  Guarded'
<1> USE DEF Guarded, NothingProgrammed, Progress, BufferHolds, RomInCharge, RunsWholeImage,
            CompleteMeansInstalled, Programming, Updating
<1>1. /\ image' = image /\ image \in Good /\ running' = "rom" /\ report # "complete"
      /\ position' = 0 /\ place' \in {"write", "leave"} /\ report' # "complete"
  BY DEF Erase, Abort
<1>2. 0 \in Blocks /\ 0 < ProgramBlocks(image')
  BY <1>1, BlockCount, UpdaterAssumption, SMT DEF Good, Blocks
<1>3. CASE flash' = [b \in Blocks |-> "erased"]
  <2>1. flash'[0] = "erased"
    BY <1>2, <1>3
  <2>2. BootsWhole'
    BY <2>1, UpdaterAssumption DEF BootsWhole, Bootable
  <2>3. \A k \in 1 .. position' : FALSE
    BY <1>1, SMT
  <2>4. QED
    BY <1>1, <1>2, <2>1, <2>2, <2>3
<1>4. CASE flash' = flash /\ Abort
  BY <1>1, <1>4, FlashKept DEF Abort
<1>5. QED
  BY <1>3, <1>4 DEF Erase

\* Every step keeps Guarded.
LEMMA GuardedKept ==
  ASSUME TypeOK, Guarded, [Next]_vars
  PROVE  Guarded'
<1> USE DEF Guarded, NothingProgrammed, Progress, BufferHolds, RomInCharge, CompleteMeansInstalled,
            Programming, Updating
<1>1. ASSUME NEW i \in Images, Start(i) PROVE Guarded'
  BY <1>1, FlashKept DEF Start, Valid, RunsWholeImage, Holds
<1>2. CASE EnterRom
  BY <1>2, FlashKept DEF EnterRom, RunsWholeImage
<1>3. CASE Handshake
  BY <1>3, FlashKept DEF Handshake, Abort
<1>4. CASE PrepareAll
  BY <1>4, FlashKept DEF PrepareAll, Abort
<1>5. CASE Erase
  BY <1>5, EraseKeeps
<1>6. CASE Write
  BY <1>6, FlashKept DEF Write, Abort, ProgramBlocks
<1>7. CASE Transfer
  BY <1>7, FlashKept DEF Transfer, Abort, ProgramBlocks
<1>8. CASE Prepare
  BY <1>8, FlashKept DEF Prepare, Abort, ProgramBlocks, Block
<1>9. CASE Copy
  BY <1>9, CopyKeeps
<1>10. CASE Compare
  BY <1>10, CompareKeeps
<1>11. CASE Leave
  <2>1. running' = Boot(flash) /\ flash' = flash /\ image' = image /\ place' = "idle" /\ report' = report
    BY <1>11 DEF Leave
  <2>2. RunsWholeImage'
    BY <2>1, FlashKept DEF RunsWholeImage, BootsWhole, Boot
  <2>3. Holds(image) => Bootable(flash)
    <3>1. 0 \in Blocks /\ InImage(0, image)
      BY UpdaterAssumption, SMT DEF TypeOK, Blocks, InImage
    <3>2. QED
      BY <3>1 DEF Holds, Bootable, Good
  <2>4. QED
    BY <2>1, <2>2, <2>3, FlashKept DEF Boot
<1>12. CASE PowerLoss \/ HostReset
  <2>1. BootsWhole'
    <3>1. flash' \in Interrupted /\ image' = image
      BY <1>12 DEF PowerLoss, HostReset
    <3>2. CASE flash' = flash
      BY <3>2, FlashKept
    <3>3. CASE flash' = [b \in Blocks |-> "torn"] \/ flash' = [b \in Blocks |-> "erased"]
      <4>1. flash'[0] \notin Images
        BY <3>3, UpdaterAssumption, SMT DEF Blocks
      <4>2. QED
        BY <4>1 DEF BootsWhole, Bootable
    <3>4. CASE place = "copy" /\ prepared /\ flash' = [flash EXCEPT ![Block] = "torn"]
      <4>1. flash'[0] \in {"torn", "erased"}
        BY <3>4, NextBlock, UpdaterAssumption DEF TypeOK
      <4>2. QED
        BY <4>1, UpdaterAssumption DEF BootsWhole, Bootable
    <3>5. CASE place = "copy" /\ prepared /\ flash' = [flash EXCEPT ![Block] = ram]
      BY <3>1, <3>5, CopyWrites
    <3>6. QED
      BY <3>1, <3>2, <3>3, <3>4, <3>5 DEF Interrupted
  <2>2. CASE PowerLoss
    <3>1. RunsWholeImage'
      BY <2>1, <2>2 DEF PowerLoss, Boot, RunsWholeImage, BootsWhole
    <3>2. QED
      BY <2>1, <2>2, <3>1 DEF PowerLoss, Stop
  <2>3. CASE HostReset
    <3>1. running = "program" => flash' = flash
      BY <2>3 DEF HostReset, Interrupted
    <3>2. RunsWholeImage'
      BY <2>3, <3>1, FlashKept DEF HostReset, RunsWholeImage
    <3>3. QED
      BY <2>1, <2>3, <3>2 DEF HostReset, Stop
  <2>4. QED
    BY <1>12, <2>2, <2>3
<1>13. CASE UNCHANGED vars
  BY <1>13, FlashKept DEF vars, ProgramBlocks, Block
<1>14. QED
  BY <1>1, <1>2, <1>3, <1>4, <1>5, <1>6, <1>7, <1>8, <1>9, <1>10, <1>11, <1>12, <1>13 DEF Next, Step

-----------------------------------------------------------------------------
\* The inductive invariant holds in every reachable state.
THEOREM Invariance == Spec => []IInv
<1>1. Init => IInv
  <2> SUFFICES ASSUME Init PROVE IInv
    OBVIOUS
  <2>1. /\ Installed \in Images /\ ProgramBlocks(Installed) \in 1 .. FlashBlocks /\ 0 \in Blocks
        /\ Installed \in Good
    BY BlockCount, UpdaterAssumption, SMT DEF Good, Blocks
  <2>2. TypeOK
    <3>1. flash \in [Blocks -> Contents]
      BY <2>1 DEF Init, Contents
    <3>2. prepared \in BOOLEAN
      BY Zenon DEF Init
    <3>3. QED
      BY <2>1, <3>1, <3>2, UpdaterAssumption, SMT DEF Init, TypeOK, Places
  <2>3. Holds(Installed)
    BY DEF Init, Holds
  <2>4. Guarded
    BY <2>1, <2>3
       DEF Init, Guarded, BootsWhole, NothingProgrammed, Progress, BufferHolds, RomInCharge,
           RunsWholeImage, CompleteMeansInstalled, Programming, Updating
  <2>5. QED
    BY <2>2, <2>4 DEF IInv
<1>2. IInv /\ [Next]_vars => IInv'
  BY Typed, GuardedKept DEF IInv
<1>3. QED
  BY <1>1, <1>2, PTL DEF Spec

\* Update never touches a block outside the flash, nor makes too many attempts.
THEOREM TypeCorrect == Spec => []TypeOK
BY Invariance, PTL DEF IInv

\* Whenever power or a reset starts the coprocessor, in the middle of an update
\* or not, it runs one whole image or its boot ROM.
THEOREM NeverRunsMixture == Spec => []RunsWholeImage
<1>1. IInv => RunsWholeImage
  BY DEF IInv, Guarded
<1>2. QED
  BY <1>1, Invariance, PTL

\* "firmware update complete" means that every block was programmed.
THEOREM SuccessIsTrue == Spec => []CompleteMeansInstalled
<1>1. IInv => CompleteMeansInstalled
  BY DEF IInv, Guarded
<1>2. QED
  BY <1>1, Invariance, PTL

=============================================================================
