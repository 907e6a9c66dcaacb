----------------------------- MODULE FlashTool -----------------------------
(***************************************************************************)
(* The menu of scripts/build_and_flash_interactive.sh: what its actions do *)
(* to the kernel source, the images on the host, the unpacked stock image  *)
(* and the boot partition of the phone, while the phone gets ROM updates   *)
(* and comes and goes.                                                     *)
(*                                                                         *)
(* Every action runs as `func || warn`, which switches errexit off inside: *)
(* only what the code tests stops it.  die() is an exit of the whole tool. *)
(***************************************************************************)
EXTENDS Naturals

CONSTANTS
  MaxVersion,  \* bound on the versions of the kernel source
  MaxPatch,    \* bound on the security patch levels of the ROM
  None,        \* a file or an image that is not there
  Torn         \* a kernel image, or a boot partition, cut short

ASSUME BoundsAssumption == MaxVersion \in Nat \ {0} /\ MaxPatch \in Nat \ {0}
ASSUME MarksAssumption ==
  /\ None \notin Nat /\ Torn \notin Nat /\ None # Torn

Version == 1..MaxVersion
Patch   == 1..MaxPatch
Kernel  == Version \union {Torn}
Ramdisk == {"whole", "cut"}

\* A boot image; the kernel None is the ROM's own.
BootImage == [kernel : Kernel \union {None}, patch : Patch, ramdisk : Ramdisk]

ASSUME NoImageAssumption ==
  /\ None \notin BootImage /\ Torn \notin BootImage
  /\ None \notin [patch : Patch, ramdisk : Ramdisk]
  /\ None \notin [image : BootImage, verified : BOOLEAN]
  /\ None \notin [version : Version, recent : BOOLEAN]
  /\ None \notin Ramdisk

\* boot_params.txt: a patch level, or 0 when it has no such line.
Params == Patch \union {0}
Stock  == [ramdisk : Ramdisk \union {None}, params : Params \union {None}]

Actions == {"clean", "build", "repack", "backup", "flash", "update"}

VARIABLES
  step,       \* "menu", the action about to run, or "ended"
  auto,       \* whether option 0 chose it
  source,     \* the version checked out in KERNEL_DIR
  built,      \* Image.gz-dtb in KERNEL_DIR/out
  kernel,     \* Image.gz-dtb in OUT_DIR
  stock,      \* STOCK_DIR
  backup,     \* the newest file in BACKUP_DIR
  boot_img,   \* BOOT_IMG
  rom,        \* the patch level of the running ROM
  installed,  \* the boot partition
  mode        \* "adb": the ROM is up and connected; "away": in fastboot, or not there

host   == <<source, built, kernel, stock, backup, boot_img>>
device == <<rom, installed, mode>>
vars   == <<step, auto, host, device>>

TypeOK ==
  /\ step \in Actions \union {"menu", "ended"}
  /\ auto \in BOOLEAN
  /\ source \in Version
  /\ built \in [version : Version, recent : BOOLEAN] \union {None}
  /\ kernel \in Kernel \union {None}
  /\ stock \in Stock
  /\ backup \in [patch : Patch, ramdisk : Ramdisk] \union {None}
  /\ boot_img \in [image : BootImage, verified : BOOLEAN] \union {None}
  /\ rom \in Patch
  /\ installed \in BootImage \union {Torn}
  /\ mode \in {"adb", "away"}

RomImage(p) == [kernel |-> None, patch |-> p, ramdisk |-> "whole"]

\* The checkout: STOCK_DIR holds a boot_params.txt without a patch level.
Init ==
  /\ step = "menu"
  /\ auto = FALSE
  /\ source = 1
  /\ built = None /\ kernel = None
  /\ stock = [ramdisk |-> None, params |-> 0]
  /\ backup = None
  /\ boot_img = None
  /\ rom = 1
  /\ installed = RomImage(1)
  /\ mode \in {"adb", "away"}

-----------------------------------------------------------------------------
(* The main loop.                                                          *)

\* Mutant: the image is repacked before the kernel is built.
RepackFirst == [backup |-> "repack", repack |-> "build", build |-> "flash", flash |-> "menu"]

\* backup_boot && build_kernel && repack_boot_img && flash_kernel
FollowUp == [backup |-> "build", build |-> "repack", repack |-> "flash", flash |-> "menu"]

Choose ==
  /\ step = "menu"
  /\ \/ step' \in Actions /\ auto' = FALSE
     \/ step' = "backup" /\ auto' = TRUE
     \/ step' = "ended" /\ auto' = FALSE
  /\ UNCHANGED <<host, device>>

\* The tool is started again; a session that ended left only its files.
Start ==
  /\ step = "ended"
  /\ step' = "menu"
  /\ auto' = FALSE
  /\ UNCHANGED <<host, device>>

Succeed(a) ==
  /\ step = a
  /\ \/ auto /\ step' = FollowUp[a] /\ auto' = (a # "flash")
     \/ ~auto /\ step' = "menu" /\ auto' = FALSE

\* What is left of option 0 is not run.
Fail(a) == step = a /\ step' = "menu" /\ auto' = FALSE

\* die(), and ^C: the tool is gone.
Die(a)       == step = a /\ step' = "ended" /\ auto' = FALSE
Interrupt(a) == Die(a)

\* ^C before the action has done anything.
InterruptAtOnce ==
  /\ step \in Actions /\ Interrupt(step)
  /\ UNCHANGED <<host, device>>

-----------------------------------------------------------------------------
(* clean_build, update_kernel_source, build_kernel.                        *)

Clean ==
  /\ \/ Succeed("clean") /\ built' = None /\ kernel' = None
     \/ Interrupt("clean") /\ built' = None /\ UNCHANGED kernel
  /\ UNCHANGED <<source, stock, backup, boot_img, device>>

\* git pull, which may fail or have nothing new.
Update ==
  /\ Succeed("update")
  /\ source' \in {source, source + 1} /\ source' <= MaxVersion
  /\ UNCHANGED <<built, kernel, stock, backup, boot_img, device>>

\* docker run: the container does not start; its script, which begins with
\* rm -rf out, fails or is stopped; or it compiles the source.
ContainerOutcomes == {built, None, [version |-> source, recent |-> TRUE]}

\* Its exit status is not looked at, nor is that of the cp to OUT_DIR, which
\* may fail before it has written anything.
Build ==
  /\ built' \in ContainerOutcomes
  /\ \/ built' = None /\ Die("build") /\ UNCHANGED kernel
     \* Dropped options, or an image more than an hour old: the user says no.
     \/ built' # None /\ Fail("build") /\ UNCHANGED kernel
     \/ built' # None /\ Succeed("build") /\ kernel' \in {built'.version, Torn, kernel}
     \/ Interrupt("build") /\ UNCHANGED kernel
     \/ built' # None /\ Interrupt("build") /\ kernel' = Torn
  /\ UNCHANGED <<source, stock, backup, boot_img, device>>

-----------------------------------------------------------------------------
(* backup_boot.                                                            *)

\* unpack_boot.py into a directory: it may stop before the ramdisk, within it,
\* after it, or with boot_params.txt opened and empty.
Unpacked(b) == [ramdisk |-> b.ramdisk, params |-> b.patch]
UnpackStops(b, s) ==
  {s, [s EXCEPT !.ramdisk = "cut"], [s EXCEPT !.ramdisk = b.ramdisk],
   [ramdisk |-> b.ramdisk, params |-> 0]}

\* rm -rf STOCK_DIR
Removed(s) == [ramdisk |-> None, params |-> None]

\* What dd and pull bring from the phone, if it has the magic: of a partition cut
\* short, the header and the ramdisk may be of different images.
Pulled ==
  IF installed = Torn THEN [patch : Patch, ramdisk : Ramdisk]
  ELSE {[patch |-> installed.patch, ramdisk |-> installed.ramdisk]}

BackupDies ==
  /\ Die("backup")
  /\ UNCHANGED <<host, device>>

\* dd, pull, the magic, rm -rf, unpack.
Backup ==
  /\ step = "backup" /\ mode = "adb"
  /\ backup' \in Pulled
  /\ \/ Succeed("backup") /\ stock' = Unpacked(backup')
     \/ Fail("backup") /\ stock' \in UnpackStops(backup', Removed(stock))
     \/ /\ Interrupt("backup")
        /\ stock' \in UnpackStops(backup', Removed(stock))
             \union {stock, [stock EXCEPT !.ramdisk = None],
                     [stock EXCEPT !.params = None]}
  /\ UNCHANGED <<source, built, kernel, boot_img, device>>

\* The pull is interrupted: a part of the image stays in BACKUP_DIR.
PullInterrupted ==
  /\ Interrupt("backup")
  /\ mode = "adb"
  /\ \E b \in Pulled : backup' = [b EXCEPT !.ramdisk = "cut"]
  /\ UNCHANGED <<source, built, kernel, stock, boot_img, device>>

-----------------------------------------------------------------------------
(* repack_boot_img.                                                        *)

\* STOCK_DIR after the first part: used as it is if it has both files, else
\* unpacked from the newest backup, whatever the status of that.
StockFound ==
  IF stock.ramdisk # None /\ stock.params # None THEN {stock}
  ELSE IF backup = None THEN {}
  ELSE {Unpacked(backup)} \union UnpackStops(backup, stock)

\* Mutant: a patch level of 0 is good enough.
AnyParams(s) == s.params # None

PatchLevelKnown(s) == s.params \notin {None, 0}

\* Mutant: the image of the previous repack stays.
LeftAlone == boot_img

\* rm -f BOOT_IMG
Deleted == None

Repacked == [kernel |-> kernel, patch |-> stock'.params, ramdisk |-> stock'.ramdisk]

\* No backup, no patch level, or no kernel.
RepackDies ==
  /\ Die("repack")
  /\ \/ StockFound = {} /\ UNCHANGED stock
     \/ /\ stock' \in StockFound
        /\ ~PatchLevelKnown(stock') \/ kernel = None
  /\ UNCHANGED <<source, built, kernel, backup, boot_img, device>>

\* mkbootimg writes an image or does not; the header of the image is read back
\* and compared.
Repack ==
  /\ stock' \in StockFound
  /\ PatchLevelKnown(stock') /\ kernel # None
  /\ \/ Fail("repack") /\ boot_img' = Deleted
     \/ Interrupt("repack") /\ boot_img' = Deleted
     \/ /\ stock'.ramdisk # None
        /\ \/ Succeed("repack") /\ boot_img' = [image |-> Repacked, verified |-> TRUE]
           \/ /\ Fail("repack") \/ Interrupt("repack")
              /\ boot_img' = [image |-> Repacked, verified |-> FALSE]
  /\ UNCHANGED <<source, built, kernel, backup, device>>

-----------------------------------------------------------------------------
(* flash_kernel.                                                           *)

\* Keymaster releases the keys only to an image with the patch level of the
\* ROM; without them, or with a broken image, there is no shell to adb into.
Boots(image) ==
  /\ image # Torn
  /\ image.kernel # Torn /\ image.ramdisk = "whole" /\ image.patch = rom

Booted(image) == IF Boots(image) THEN {"adb", "away"} ELSE {"away"}

FlashDies ==
  /\ boot_img = None
  /\ Die("flash")
  /\ UNCHANGED <<host, device>>

\* No device, or the user said no, before or after the reboot to fastboot.
FlashNot ==
  /\ boot_img # None
  /\ Succeed("flash")
  /\ mode' \in {mode, "away"}
  /\ UNCHANGED <<host, rom, installed>>

\* fastboot boot, then fastboot flash boot; either may fail.  A phone that is away
\* may be the one in fastboot.
TestBoot ==
  /\ boot_img # None
  /\ Succeed("flash")
  /\ mode' \in Booted(boot_img.image)
  /\ UNCHANGED <<host, rom, installed>>

Flash ==
  /\ boot_img # None
  /\ \/ /\ Succeed("flash")
        /\ installed' = boot_img.image
        /\ mode' \in Booted(installed')
     \/ /\ Die("flash") \/ Interrupt("flash")
        /\ installed' \in {installed, Torn}
        /\ mode' = "away"
  /\ UNCHANGED <<host, rom>>

-----------------------------------------------------------------------------
(* The world.                                                              *)

\* An update of the ROM brings its own boot image.
RomUpdate ==
  /\ mode = "adb" /\ rom < MaxPatch
  /\ rom' = rom + 1
  /\ installed' = RomImage(rom')
  /\ UNCHANGED <<step, auto, host, mode>>

Replug ==
  /\ mode' \in Booted(installed)
  /\ UNCHANGED <<step, auto, host, rom, installed>>

AnHourPasses ==
  /\ built # None
  /\ built' = [built EXCEPT !.recent = FALSE]
  /\ UNCHANGED <<step, auto, source, kernel, stock, backup, boot_img, device>>

Next ==
  \/ Choose \/ Start \/ InterruptAtOnce
  \/ Clean \/ Update \/ Build
  \/ BackupDies \/ Backup \/ PullInterrupted
  \/ RepackDies \/ Repack
  \/ FlashDies \/ FlashNot \/ TestBoot \/ Flash
  \/ RomUpdate \/ Replug \/ AnHourPasses

Spec == Init /\ [][Next]_vars

-----------------------------------------------------------------------------
\* When option 0 comes to the flashing, the image is the one it has repacked
\* itself, of the kernel its build left in OUT_DIR and with the patch level and
\* the ramdisk of its backup (lines 478-481), whatever failed, was interrupted
\* or was declined in the sessions before.
AutoFlashesItsOwn ==
  auto /\ step = "flash" =>
    /\ boot_img # None /\ boot_img.verified
    /\ boot_img.image = [kernel  |-> kernel,
                         patch   |-> backup.patch,
                         ramdisk |-> backup.ramdisk]

\* A repack that returns to the menu, or to option 0, leaves no image of another
\* kernel behind: "The user flashes an old kernel believing it is the one just
\* built" (lines 271-278) is what the rm -f is for.
RepackLeavesNoOld ==
  [][step = "repack" /\ step' \notin {"ended", step} =>
       boot_img' = None \/ boot_img'.image.kernel = kernel]_vars

-----------------------------------------------------------------------------
(* What the script says and does not do.                                   *)

\* "Guard against copying a stale artifact from an earlier run." (line 221): where
\* option 0 goes on from a build, without a question about the age of the image,
\* the kernel in OUT_DIR is of the source that is checked out.
NoStaleArtifact ==
  [][step = "build" /\ step' = "repack" /\ built'.recent
       => kernel' \in {Torn, source}]_vars
=============================================================================
