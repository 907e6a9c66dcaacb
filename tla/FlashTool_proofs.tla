-------------------------- MODULE FlashTool_proofs --------------------------
(***************************************************************************)
(* The sequence of option 0 flashes what it made, for any number of source *)
(* versions and patch levels, and the two rules about what a repack and a  *)
(* backup may leave behind.                                                *)
(***************************************************************************)
EXTENDS FlashTool, TLAPS

\* What the steps of option 0 have achieved so far.
AutoSteps == auto => step \in {"backup", "build", "repack", "flash"}
AutoHasBackup ==
  auto /\ step \in {"build", "repack", "flash"} =>
    backup # None /\ stock = Unpacked(backup)

IInv == TypeOK /\ AutoSteps /\ AutoHasBackup /\ AutoFlashesItsOwn

\* Unpacking a backup, completely or not, leaves a STOCK_DIR of the known shape.
LEMMA UnpackedType ==
  ASSUME NEW b \in [patch : Patch, ramdisk : Ramdisk], NEW s \in Stock
  PROVE  {Unpacked(b)} \union UnpackStops(b, s) \subseteq Stock
<1>1. b.ramdisk \in Ramdisk /\ b.patch \in Patch /\ "cut" \in Ramdisk
  BY DEF Ramdisk
<1>2. Unpacked(b) \in Stock /\ [ramdisk |-> b.ramdisk, params |-> 0] \in Stock
  BY <1>1 DEF Unpacked, Stock, Params
<1>3. [s EXCEPT !.ramdisk = "cut"] \in Stock
  BY <1>1 DEF Stock
<1>4. [s EXCEPT !.ramdisk = b.ramdisk] \in Stock
  BY <1>1 DEF Stock
<1> QED BY <1>2, <1>3, <1>4 DEF UnpackStops

LEMMA RemovedType == ASSUME NEW s PROVE Removed(s) \in Stock
BY DEF Removed, Stock

\* What repack finds in STOCK_DIR has the known shape as well.
LEMMA StockFoundType == ASSUME TypeOK PROVE StockFound \subseteq Stock
<1>1. CASE stock.ramdisk # None /\ stock.params # None
  BY <1>1 DEF TypeOK, StockFound
<1>2. CASE ~(stock.ramdisk # None /\ stock.params # None) /\ backup = None
  BY <1>2 DEF StockFound
<1>3. CASE ~(stock.ramdisk # None /\ stock.params # None) /\ backup # None
  <2>1. backup \in [patch : Patch, ramdisk : Ramdisk] /\ stock \in Stock
    BY <1>3 DEF TypeOK
  <2> QED BY <1>3, <2>1, UnpackedType DEF StockFound
<1> QED BY <1>1, <1>2, <1>3

\* The image a repack writes is a boot image.
LEMMA RepackedType ==
  ASSUME TypeOK, stock' \in StockFound, PatchLevelKnown(stock'), kernel # None,
         stock'.ramdisk # None
  PROVE  Repacked \in BootImage
<1>1. stock' \in Stock
  BY StockFoundType
<1>2. stock'.params \in Patch
  BY <1>1 DEF PatchLevelKnown, Stock, Params
<1>3. stock'.ramdisk \in Ramdisk
  BY <1>1 DEF Stock
<1>4. kernel \in Kernel
  BY DEF TypeOK
<1> QED BY <1>2, <1>3, <1>4 DEF Repacked, BootImage

\* So has what is pulled from the phone.
LEMMA PulledType ==
  ASSUME TypeOK PROVE Pulled \subseteq [patch : Patch, ramdisk : Ramdisk]
BY DEF TypeOK, Pulled, BootImage

LEMMA InitTypeOK == Init => TypeOK
<1> SUFFICES ASSUME Init PROVE TypeOK
  OBVIOUS
<1>1. 1 \in Version /\ 1 \in Patch
  BY BoundsAssumption DEF Version, Patch
<1>2. RomImage(1) \in BootImage
  BY <1>1 DEF RomImage, BootImage, Ramdisk, Kernel
<1> QED BY <1>1, <1>2 DEF Init, TypeOK, Stock, Params

\* However an action ends, the menu goes on as it should.
LEMMA ControlStep ==
  ASSUME TypeOK, AutoSteps, NEW a \in Actions,
         Succeed(a) \/ Fail(a) \/ Die(a) \/ Interrupt(a)
  PROVE  /\ step' \in Actions \union {"menu", "ended"}
         /\ auto' \in BOOLEAN
         /\ AutoSteps'
<1> USE DEF Actions, Interrupt
<1>1. CASE Fail(a) \/ Die(a) \/ Interrupt(a)
  BY <1>1 DEF Fail, Die, Interrupt, AutoSteps
<1>2. CASE Succeed(a) /\ ~auto
  <2>1. auto' = FALSE /\ step' = "menu"
    BY <1>2 DEF Succeed
  <2> QED BY <2>1 DEF AutoSteps
<1>3. CASE Succeed(a) /\ auto
  <2>1. a \in {"backup", "build", "repack", "flash"} /\ step' = FollowUp[a]
    BY <1>3 DEF Succeed, AutoSteps
  <2>2. auto' = (a # "flash")
    BY <1>3 DEF Succeed
  <2>3. CASE a = "flash"
    <3>1. auto' = FALSE /\ step' = "menu"
      BY <2>1, <2>2, <2>3 DEF FollowUp
    <3> QED BY <3>1 DEF AutoSteps
  <2>4. CASE a # "flash"
    <3>1. step' \in {"build", "repack", "flash"}
      BY <2>1, <2>4 DEF FollowUp
    <3>2. auto' = TRUE
      BY <2>2, <2>4
    <3> QED BY <3>1, <3>2 DEF AutoSteps
  <2> QED BY <2>3, <2>4
<1> QED BY <1>1, <1>2, <1>3

LEMMA TypeOKStep ==
  TypeOK /\ AutoSteps /\ [Next]_vars => TypeOK' /\ AutoSteps'
<1> SUFFICES ASSUME TypeOK, AutoSteps, [Next]_vars PROVE TypeOK' /\ AutoSteps'
  OBVIOUS
<1>1. CASE Choose
  BY <1>1 DEF Choose, TypeOK, AutoSteps, host, device, Actions
<1>2. CASE Start
  BY <1>2 DEF Start, TypeOK, AutoSteps, host, device
<1>3. CASE InterruptAtOnce
  BY <1>3, ControlStep DEF InterruptAtOnce, TypeOK, host, device
<1>4. CASE Clean
  <2>1. Succeed("clean") \/ Interrupt("clean")
    BY <1>4 DEF Clean
  <2> QED BY <1>4, <2>1, ControlStep DEF Clean, TypeOK, device, Actions
<1>5. CASE Update
  <2>1. source' \in Version
    BY <1>5, BoundsAssumption DEF Update, TypeOK, Version
  <2> QED BY <1>5, <2>1, ControlStep DEF Update, TypeOK, device, Actions
<1>6. CASE Build
  <2>1. Succeed("build") \/ Fail("build") \/ Die("build") \/ Interrupt("build")
    BY <1>6 DEF Build
  <2>2. built' \in [version : Version, recent : BOOLEAN] \union {None}
    <3>1. [version |-> source, recent |-> TRUE] \in [version : Version, recent : BOOLEAN]
      BY DEF TypeOK
    <3> QED BY <1>6, <3>1 DEF Build, ContainerOutcomes, TypeOK
  <2>3. kernel' \in Kernel \union {None}
    BY <1>6, <2>2 DEF Build, TypeOK, Kernel
  <2> QED BY <1>6, <2>1, <2>2, <2>3, ControlStep DEF Build, TypeOK, device, Actions
<1>7. CASE BackupDies
  BY <1>7, ControlStep DEF BackupDies, TypeOK, host, device, Actions
<1>8. CASE Backup
  <2>1. Succeed("backup") \/ Fail("backup") \/ Interrupt("backup")
    BY <1>8 DEF Backup
  <2>2. backup' \in [patch : Patch, ramdisk : Ramdisk]
    BY <1>8, PulledType DEF Backup
  <2>3. {Unpacked(backup')} \union UnpackStops(backup', Removed(stock)) \subseteq Stock
    BY <2>2, UnpackedType, RemovedType
  <2>4. {[stock EXCEPT !.ramdisk = None], [stock EXCEPT !.params = None]} \subseteq Stock
    BY DEF TypeOK, Stock
  <2>5. stock' \in Stock
    BY <1>8, <2>3, <2>4 DEF Backup, TypeOK
  <2> QED BY <1>8, <2>1, <2>2, <2>5, ControlStep DEF Backup, TypeOK, device, Actions
<1>9. CASE PullInterrupted
  <2>1. backup' \in [patch : Patch, ramdisk : Ramdisk]
    BY <1>9, PulledType DEF PullInterrupted, Ramdisk
  <2> QED BY <1>9, <2>1, ControlStep DEF PullInterrupted, TypeOK, device, Actions
<1>10. CASE RepackDies
  <2>1. stock' \in Stock
    BY <1>10, StockFoundType DEF RepackDies, TypeOK
  <2> QED BY <1>10, <2>1, ControlStep DEF RepackDies, TypeOK, device, Actions
<1>11. CASE Repack
  <2>1. Succeed("repack") \/ Fail("repack") \/ Interrupt("repack")
    BY <1>11 DEF Repack
  <2>2. stock' \in Stock
    BY <1>11, StockFoundType DEF Repack
  <2>3. boot_img' \in [image : BootImage, verified : BOOLEAN] \union {None}
    <3>1. CASE boot_img' = Deleted
      BY <3>1 DEF Deleted
    <3>2. CASE boot_img' # Deleted
      <4>1. stock'.ramdisk # None
        BY <1>11, <3>2 DEF Repack
      <4>2. Repacked \in BootImage
        BY <1>11, <4>1, RepackedType DEF Repack
      <4>3. PICK v \in BOOLEAN : boot_img' = [image |-> Repacked, verified |-> v]
        BY <1>11, <3>2 DEF Repack
      <4> QED BY <4>2, <4>3
    <3> QED BY <3>1, <3>2
  <2> QED BY <1>11, <2>1, <2>2, <2>3, ControlStep DEF Repack, TypeOK, device, Actions
<1>12. CASE FlashDies
  BY <1>12, ControlStep DEF FlashDies, TypeOK, host, device, Actions
<1>13. CASE FlashNot
  BY <1>13, ControlStep DEF FlashNot, TypeOK, host, Actions
<1>14. CASE TestBoot
  BY <1>14, ControlStep DEF TestBoot, Booted, TypeOK, host, Actions
<1>15. CASE Flash
  <2>1. Succeed("flash") \/ Die("flash") \/ Interrupt("flash")
    BY <1>15 DEF Flash
  <2>2. installed' \in BootImage \union {Torn}
    BY <1>15 DEF Flash, TypeOK
  <2>3. mode' \in {"adb", "away"}
    BY <1>15 DEF Flash, Booted
  <2> QED BY <1>15, <2>1, <2>2, <2>3, ControlStep DEF Flash, TypeOK, host, Actions
<1>16. CASE RomUpdate
  <2>1. rom' \in Patch
    BY <1>16, BoundsAssumption DEF RomUpdate, TypeOK, Patch
  <2>2. installed' \in BootImage
    BY <1>16, <2>1 DEF RomUpdate, RomImage, BootImage, Ramdisk
  <2> QED BY <1>16, <2>1, <2>2 DEF RomUpdate, TypeOK, AutoSteps, host
<1>17. CASE Replug
  BY <1>17 DEF Replug, Booted, TypeOK, AutoSteps, host
<1>18. CASE AnHourPasses
  <2>1. built' \in [version : Version, recent : BOOLEAN]
    BY <1>18 DEF AnHourPasses, TypeOK
  <2> QED BY <1>18, <2>1 DEF AnHourPasses, TypeOK, AutoSteps, device
<1>19. CASE UNCHANGED vars
  BY <1>19 DEF vars, host, device, TypeOK, AutoSteps
<1> QED
  BY <1>1, <1>2, <1>3, <1>4, <1>5, <1>6, <1>7, <1>8, <1>9, <1>10, <1>11, <1>12,
     <1>13, <1>14, <1>15, <1>16, <1>17, <1>18, <1>19 DEF Next

\* Type correctness of the tool's files and of the phone.
THEOREM TypeCorrect == Spec => []TypeOK
<1>1. Init => TypeOK /\ AutoSteps
  BY InitTypeOK DEF Init, AutoSteps
<1> QED BY <1>1, TypeOKStep, PTL DEF Spec

-----------------------------------------------------------------------------
\* A successful backup leaves STOCK_DIR unpacked from it.
LEMMA BackupStep ==
  ASSUME IInv, Backup PROVE AutoHasBackup' /\ AutoFlashesItsOwn'
<1>1. CASE auto /\ Succeed("backup")
  <2>1. backup' \in [patch : Patch, ramdisk : Ramdisk]
    BY PulledType DEF IInv, Backup
  <2>2. backup' # None
    BY <2>1, NoImageAssumption
  <2>3. stock' = Unpacked(backup')
    <3>1. step' = "build"
      BY <1>1 DEF Succeed, FollowUp
    <3> QED BY <3>1 DEF Backup, Fail, Interrupt, Die
  <2>4. step' # "flash"
    BY <1>1 DEF Succeed, FollowUp
  <2> QED BY <2>2, <2>3, <2>4 DEF AutoHasBackup, AutoFlashesItsOwn, Unpacked
<1>2. CASE ~(auto /\ Succeed("backup"))
  <2>1. auto' = FALSE
    BY <1>2 DEF Backup, Succeed, Fail, Interrupt, Die
  <2> QED BY <2>1 DEF AutoHasBackup, AutoFlashesItsOwn
<1> QED BY <1>1, <1>2

\* Within option 0 the repack uses that STOCK_DIR as it is, and OUT_DIR.
LEMMA RepackStep ==
  ASSUME IInv, Repack PROVE AutoHasBackup' /\ AutoFlashesItsOwn'
<1>1. CASE auto /\ Succeed("repack")
  <2>1. step = "repack" /\ step' = "flash" /\ auto' = TRUE
    BY <1>1 DEF Succeed, FollowUp
  <2>2. backup # None /\ stock = Unpacked(backup)
    BY <1>1, <2>1 DEF IInv, AutoHasBackup
  <2>3. backup.ramdisk \in Ramdisk /\ backup.patch \in Nat
    BY <2>2, BoundsAssumption DEF IInv, TypeOK, Patch
  <2>4. stock.ramdisk # None /\ stock.params # None
    BY <2>2, <2>3, NoImageAssumption, MarksAssumption DEF Unpacked
  <2>5. stock' = stock
    BY <2>4 DEF Repack, StockFound
  <2>6. boot_img' = [image |-> Repacked, verified |-> TRUE]
    BY <2>1 DEF Repack, Fail, Interrupt, Die
  <2>7. backup' = backup /\ kernel' = kernel
    BY DEF Repack
  <2>8. Repacked = [kernel |-> kernel, patch |-> backup.patch, ramdisk |-> backup.ramdisk]
    BY <2>2, <2>5 DEF Repacked, Unpacked
  <2>9. Repacked \in BootImage
    <3>1. stock' \in StockFound /\ PatchLevelKnown(stock') /\ kernel # None
      BY DEF Repack
    <3> QED BY <3>1, <2>4, <2>5, RepackedType DEF IInv
  <2>10. boot_img' # None
    <3>1. boot_img' \in [image : BootImage, verified : BOOLEAN]
      BY <2>6, <2>9
    <3> QED BY <3>1, NoImageAssumption
  <2>11. AutoHasBackup'
    BY <2>2, <2>5, <2>7 DEF AutoHasBackup, Unpacked
  <2>12. AutoFlashesItsOwn'
    BY <2>6, <2>7, <2>8, <2>10 DEF AutoFlashesItsOwn
  <2> QED BY <2>11, <2>12
<1>2. CASE ~(auto /\ Succeed("repack"))
  <2>1. auto' = FALSE
    BY <1>2 DEF Repack, Succeed, Fail, Interrupt, Die
  <2> QED BY <2>1 DEF AutoHasBackup, AutoFlashesItsOwn
<1> QED BY <1>1, <1>2

LEMMA OwnStep ==
  IInv /\ [Next]_vars => AutoHasBackup' /\ AutoFlashesItsOwn'
<1> SUFFICES ASSUME IInv, [Next]_vars
             PROVE  AutoHasBackup' /\ AutoFlashesItsOwn'
  OBVIOUS
<1>1. CASE Choose
  BY <1>1 DEF Choose, IInv, AutoHasBackup, AutoFlashesItsOwn, Actions
<1>2. CASE Start \/ InterruptAtOnce \/ BackupDies \/ PullInterrupted \/ RepackDies \/ FlashDies
  <2>1. auto' = FALSE
    BY <1>2 DEF Start, InterruptAtOnce, BackupDies, PullInterrupted, RepackDies,
                FlashDies, Interrupt, Die
  <2> QED BY <2>1 DEF AutoHasBackup, AutoFlashesItsOwn
<1>3. CASE Clean \/ Update
  <2>1. ~auto
    BY <1>3 DEF Clean, Update, Succeed, Interrupt, Die, IInv, AutoSteps
  <2>2. auto' = FALSE
    BY <1>3, <2>1 DEF Clean, Update, Succeed, Interrupt, Die
  <2> QED BY <2>2 DEF AutoHasBackup, AutoFlashesItsOwn
<1>4. CASE Build
  <2>1. CASE auto /\ Succeed("build")
    <3>1. step = "build" /\ step' = "repack"
      BY <2>1 DEF Succeed, FollowUp
    <3>2. backup' = backup /\ stock' = stock
      BY <1>4 DEF Build
    <3> QED BY <2>1, <3>1, <3>2 DEF IInv, AutoHasBackup, AutoFlashesItsOwn
  <2>2. CASE ~(auto /\ Succeed("build"))
    <3>1. auto' = FALSE
      BY <1>4, <2>2 DEF Build, Succeed, Fail, Die, Interrupt
    <3> QED BY <3>1 DEF AutoHasBackup, AutoFlashesItsOwn
  <2> QED BY <2>1, <2>2
<1>5. CASE Backup
  BY <1>5, BackupStep
<1>6. CASE Repack
  BY <1>6, RepackStep
<1>7. CASE FlashNot \/ TestBoot \/ Flash
  <2>1. auto' = FALSE
    BY <1>7 DEF FlashNot, TestBoot, Flash, Succeed, Die, Interrupt
  <2> QED BY <2>1 DEF AutoHasBackup, AutoFlashesItsOwn
<1>8. CASE RomUpdate \/ Replug \/ AnHourPasses \/ UNCHANGED vars
  <2>1. UNCHANGED <<step, auto, kernel, stock, backup, boot_img>>
    BY <1>8 DEF RomUpdate, Replug, AnHourPasses, vars, host
  <2> QED BY <2>1 DEF IInv, AutoHasBackup, AutoFlashesItsOwn
<1> QED
  BY <1>1, <1>2, <1>3, <1>4, <1>5, <1>6, <1>7, <1>8 DEF Next

LEMMA IInvAlways == Spec => []IInv
<1>1. Init => IInv
  BY InitTypeOK DEF Init, IInv, AutoSteps, AutoHasBackup, AutoFlashesItsOwn
<1>2. IInv /\ [Next]_vars => IInv'
  BY TypeOKStep, OwnStep DEF IInv
<1> QED BY <1>1, <1>2, PTL DEF Spec

\* Option 0 flashes the image it has made itself, whatever happened before.
THEOREM OptionZeroFlashesItsOwn == Spec => []AutoFlashesItsOwn
<1>1. IInv => AutoFlashesItsOwn
  BY DEF IInv
<1> QED BY <1>1, IInvAlways, PTL

\* A repack that returns leaves no image of another kernel.
THEOREM NoOldImage == Spec => RepackLeavesNoOld
<1>1. [Next]_vars => [step = "repack" /\ step' \notin {"ended", step} =>
                       boot_img' = None \/ boot_img'.image.kernel = kernel]_vars
  <2> SUFFICES ASSUME Next, step = "repack", step' \notin {"ended", step}
               PROVE  boot_img' = None \/ boot_img'.image.kernel = kernel
    OBVIOUS
  <2>1. Repack
    BY DEF Next, Choose, Start, InterruptAtOnce, Clean, Update, Build, BackupDies, Backup,
           PullInterrupted, RepackDies, FlashDies, FlashNot, TestBoot, Flash, RomUpdate,
           Replug, AnHourPasses, Succeed, Fail, Die, Interrupt
  <2>2. CASE boot_img' = Deleted
    BY <2>2 DEF Deleted
  <2>3. CASE boot_img' # Deleted
    <3>1. PICK v \in BOOLEAN : boot_img' = [image |-> Repacked, verified |-> v]
      BY <2>1, <2>3 DEF Repack
    <3> QED BY <3>1 DEF Repacked
  <2> QED BY <2>2, <2>3
<1> QED BY <1>1, PTL DEF Spec, RepackLeavesNoOld
=============================================================================
