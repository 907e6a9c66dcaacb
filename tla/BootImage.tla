------------------------------- MODULE BootImage -------------------------------
(***************************************************************************)
(* The arithmetic of Android boot image headers: what mkbootimg.py writes  *)
(* (not in the repository), what scripts/unpack_boot.py and                *)
(* scripts/preflight_image.py read back.  Sizes and offsets are numbers of *)
(* bytes, whatever the page size.                                          *)
(***************************************************************************)
EXTENDS Integers

Sections == {"kernel", "ramdisk", "second", "dtbo", "dtb"}

\* word packs the version of the OS and its patch level.
Header == [version : 0..2, page : Nat \ {0}, size : [Sections -> Nat], word : Nat]

-----------------------------------------------------------------------------
(* The word: (A << 14 | B << 7 | C) << 11 | (year - 2000) << 4 | month.    *)

Packed(os, level) ==
  ((os[1] * 128 + os[2]) * 128 + os[3]) * 2048 + (level[1] - 2000) * 16 + level[2]

OsVersion(word) ==
  <<(word \div 33554432) % 128, (word \div 262144) % 128, (word \div 2048) % 128>>
PatchLevel(word) == <<((word \div 16) % 128) + 2000, word % 16>>

\* preflight_image.py takes the low eleven bits apart.
PatchLevelOfLow(word) ==
  LET patch == word % 2048 IN <<2000 + patch \div 16, patch % 16>>

-----------------------------------------------------------------------------
(* The sections follow the header, each padded to whole pages.             *)

\* Mutant: a section that fills its last page gets another one.
PageMore(size, page) == (size \div page + 1) * page

Align(size, page) == ((size + page - 1) \div page) * page

\* The sizes that unpack_boot.py sees: recovery_dtbo exists from version 1 on,
\* the dtb section from version 2 on.
SizeRead(h) ==
  [s \in Sections |-> CASE s = "dtbo" /\ h.version < 1 -> 0
                        [] s = "dtb" /\ h.version < 2  -> 0
                        [] OTHER                       -> h.size[s]]

\* Where unpack_boot.py looks for a section.
KernelAt(h)  == h.page
RamdiskAt(h) == KernelAt(h) + Align(SizeRead(h)["kernel"], h.page)
SecondAt(h)  == RamdiskAt(h) + Align(SizeRead(h)["ramdisk"], h.page)
DtboAt(h)    == SecondAt(h) + Align(SizeRead(h)["second"], h.page)
DtbAt(h)     == DtboAt(h) + Align(SizeRead(h)["dtbo"], h.page)
LooksAt(h) ==
  [kernel |-> KernelAt(h), ramdisk |-> RamdiskAt(h), second |-> SecondAt(h),
   dtbo |-> DtboAt(h), dtb |-> DtbAt(h)]

\* mkbootimg.py starts a section on the first whole page behind the one before.
FirstPageBehind(start, size, page, at) ==
  /\ at % page = 0
  /\ start + size <= at
  /\ at < start + size + page
Before == [ramdisk |-> "kernel", second |-> "ramdisk", dtbo |-> "second", dtb |-> "dtbo"]
Written(h, at) ==
  /\ at["kernel"] = h.page
  /\ \A s \in Sections \ {"kernel"} :
       FirstPageBehind(at[Before[s]], h.size[Before[s]], h.page, at[s])

\* A header that the tools write: a version has only the sections it knows.
WellFormed(h) == SizeRead(h) = h.size
==============================================================================
