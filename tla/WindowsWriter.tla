--------------------------- MODULE WindowsWriter ---------------------------
(***************************************************************************)
(* Windows installer media (windows_logic.py, write_windows): one FAT32    *)
(* volume for UEFI or one NTFS volume with GRUB for a legacy BIOS, filled  *)
(* file by file from the ISO behind a loop device.                         *)
(*                                                                         *)
(* A file or a piece of the install image is a name; copying the rest of   *)
(* the ISO is one step that may end part way.  What is abstracted: sizes,  *)
(* progress, the GRUB image (see the boot code's own module).              *)
(***************************************************************************)
EXTENDS WriterBase

CONSTANTS
  Schemes,  \* among "gpt" and "mbr"
  Images    \* the ISO's install image: "none"; "small", below SPLIT_FROM;
            \* "big", a WIM that wimlib can split; "solid", a big ESD it has to
            \* repack first; "oddcase", a small one whose name is not in lower case

VARIABLES
  scheme, image,
  drive,   \* what the drive got, see Contents
  dirty,   \* some of its files are only in the page cache
  work     \* the repacked image in the cache directory

writerVars == <<scheme, image, drive, dirty, work>>

\* The table, the ISO's files but for the install image, the image whole or
\* in pieces, what a split that failed left, GRUB's core and its boot sector.
Contents == {"table", "rest", "image", "pieces", "stale pieces", "core", "mbr"}
vars == <<baseVars, writerVars>>

Labels == {"resolve", "unmount", "format", "create", "flags", "find", "mount", "loop",
           "findloop", "mountloop", "rest", "image", "split", "remove", "export", "resplit",
           "unwork", "unmountloop", "deleteloop", "sync", "grub", "open", "core", "boot",
           "close", "finish", "end"}

\* Mutant: the repacking has no finally of its own.
HandlerWithoutFinally == [at \in Labels |->
  CASE at \in {"find", "mount", "loop", "sync", "grub", "open"} -> "finish"
    [] at \in {"findloop", "mountloop", "rest", "image", "split", "remove", "export", "resplit"}
         -> "unmountloop"
    [] at \in {"core", "boot"} -> "close"
    [] OTHER -> "end"]

\* Where an exception goes: before the try straight out, inside it to the
\* finally of mounted_iso, of the repacking, of the open disk, or of the whole.
Handler == [at \in Labels |->
  CASE at \in {"find", "mount", "loop", "sync", "grub", "open"} -> "finish"
    [] at \in {"findloop", "mountloop", "rest", "image", "split", "remove"} -> "unmountloop"
    [] at \in {"export", "resplit"} -> "unwork"
    [] at \in {"core", "boot"} -> "close"
    [] OTHER -> "end"]

\* What cannot fail, or has its error suppressed.
Cleanup == {"unwork", "unmountloop", "deleteloop", "close", "finish", "end"}

\* Mutant: _wait_for_fs without its timeout.
FailingWithoutTimeout == Labels \ (Cleanup \cup {"find", "findloop"})
Failing == Labels \ Cleanup

\* Where the copy loops and wimlib's output loop poll stopped().
Polling == {"rest", "image", "split", "export", "resplit"}

TypeOK ==
  /\ BaseTypeOK /\ pc \in Labels
  /\ scheme \in Schemes /\ image \in Images
  /\ drive \subseteq Contents
  /\ dirty \in BOOLEAN /\ work \in BOOLEAN

Init ==
  /\ BaseInit
  /\ scheme \in Schemes /\ image \in Images
  /\ drive = {} /\ dirty = FALSE /\ work = FALSE

-----------------------------------------------------------------------------
Keep == UNCHANGED writerVars
Puts(what) == drive' = drive \cup {what} /\ UNCHANGED <<scheme, image, work>>
Writes(from, to, what) == Plain(from, to) /\ Puts(what) /\ dirty' = TRUE

Resolve == Plain("resolve", "unmount") /\ Keep
Unmounting == UnmountAll("format") /\ Keep

\* make_volume: a new table, one partition with its filesystem, and the
\* active flag of the MBR.
FormatDisk ==
  Format("format", "create", {"old"}) /\ Puts("table") /\ UNCHANGED dirty
CreatePartition == Appears("create", IF scheme = "gpt" THEN "find" ELSE "flags", "part") /\ Keep
SetActive == Plain("flags", "find") /\ Keep

\* mount(part), and with it `mounted`.
FindPart == (FindMounted("find", "loop", "part") \/ FindIdle("find", "mount", "part")) /\ Keep
MountPart == Mount("mount", "loop", "part") /\ Keep

\* mounted_iso
AttachLoop == Appears("loop", "findloop", "loop") /\ Keep
FindLoop == (FindMounted("findloop", "rest", "loop") \/ FindIdle("findloop", "mountloop", "loop")) /\ Keep
MountLoop == Mount("mountloop", "rest", "loop") /\ Keep

\* _copy_tree: all but the install image, whose name it compares in lower case.
CopyRest == Writes("rest", "image", "rest")

\* _fill: what _copy_tree left out, found only under its lower-case name.
NoImage == image \in {"none", "oddcase"} /\ Plain("image", "unmountloop") /\ Keep
CopyImage ==
  /\ image = "small" \/ (image \in {"big", "solid"} /\ scheme = "mbr")
  /\ Writes("image", "unmountloop", "image")
TooBig == image \in {"big", "solid"} /\ scheme = "gpt" /\ Plain("image", "split") /\ Keep
Split == image = "big" /\ Writes("split", "unmountloop", "pieces")

\* A solid image: what split left goes, then it is repacked in the cache and
\* the pieces come from there.
CannotSplit == image = "solid" /\ Writes("split", "remove", "stale pieces")
RemovePieces ==
  /\ Plain("remove", "export") /\ drive' = drive \ {"stale pieces"} /\ dirty' = TRUE
  /\ UNCHANGED <<scheme, image, work>>
Repack ==
  Plain("export", "resplit") /\ work' = TRUE /\ UNCHANGED <<scheme, image, drive, dirty>>
SplitRepacked == Writes("resplit", "unwork", "pieces")
RemoveWork ==
  Plain("unwork", "unmountloop") /\ work' = FALSE /\ UNCHANGED <<scheme, image, drive, dirty>>

\* The finally of mounted_iso; an exception then goes on to the finally of
\* write_windows.
UnmountLoop == TryUnmount("unmountloop", "deleteloop", "loop") /\ Keep
DeleteIso == DeleteLoop("deleteloop", IF exception = "no" THEN "sync" ELSE "finish") /\ Keep

\* Mutant: the last unmount is the one that suppresses its error.
SyncSuppressed ==
  /\ TryUnmount("sync", IF scheme = "mbr" THEN "grub" ELSE "finish", "part")
  /\ dirty' = (volume'["part"] = "mounted") /\ UNCHANGED <<scheme, image, drive, work>>

\* "an unmount that fails here must fail the flash: data may be unwritten"
Sync ==
  /\ Unmount("sync", IF scheme = "mbr" THEN "grub" ELSE "finish", "part")
  /\ dirty' = FALSE /\ UNCHANGED <<scheme, image, drive, work>>

\* _grub_images and _install_bios_boot: the core first, then the MBR.
GrubImages == Plain("grub", "open") /\ Keep
OpenDisk == OpenDevice("open", "core", "disk", {"part"}) /\ Keep

\* Mutant: the boot sector goes first.
WriteBootFirst == Plain("core", "boot") /\ Puts("mbr") /\ UNCHANGED dirty
WriteCore == Plain("core", "boot") /\ Puts("core") /\ UNCHANGED dirty
WriteBoot == Plain("boot", "close") /\ Puts("mbr") /\ UNCHANGED dirty

\* Closing the disk makes udev reread the table: the partition object is
\* gone and comes back.
CloseDisk ==
  /\ Goes("close", "finish") /\ Same /\ fd' = "no" /\ Set("part", "new")
  /\ UNCHANGED <<mounts, kept>> /\ Keep

\* The finally of write_windows: only what is still `mounted`.
Finish ==
  IF "part" \in mounts
  THEN /\ TryUnmount("finish", "end", "part")
       /\ dirty' = (dirty /\ volume'["part"] = "mounted")
       /\ UNCHANGED <<scheme, image, drive, work>>
  ELSE Plain("finish", "end") /\ Keep

\* A call that fails, or a copy that stops, may have done a part of its work:
\* the table is gone, a file lies there cut off, a repacked image too.
Halfway == [at \in Labels |->
  CASE at = "format" -> {"table"}
    [] at \in {"split", "resplit"} -> {"stale pieces"}
    [] at = "core" -> {"core"} [] at = "boot" -> {"mbr"}
    [] OTHER -> {}]

Breaks ==
  /\ Fails(Failing, Handler) \/ Stops(Polling, Handler)
  /\ drive' \in {drive, drive \cup Halfway[pc]}
  /\ work' \in {work, work \/ pc = "export"}
  /\ dirty' = (dirty \/ pc \in Polling)
  /\ UNCHANGED <<scheme, image>>

Return == Returns /\ Keep

WriterStep ==
  \/ Resolve \/ Unmounting \/ FormatDisk \/ CreatePartition \/ SetActive
  \/ FindPart \/ MountPart \/ AttachLoop \/ FindLoop \/ MountLoop
  \/ CopyRest \/ NoImage \/ CopyImage \/ TooBig \/ Split
  \/ CannotSplit \/ RemovePieces \/ Repack \/ SplitRepacked \/ RemoveWork
  \/ UnmountLoop \/ DeleteIso \/ Sync
  \/ GrubImages \/ OpenDisk \/ WriteCore \/ WriteBoot \/ CloseDisk
  \/ Finish \/ Breaks \/ Return

Around == (Interrupt \/ \E v \in Volumes : Probe(v) \/ Automount(v)) /\ Keep

Returned == outcome # "running" /\ UNCHANGED vars

Next == WriterStep \/ Around \/ Returned

Spec == Init /\ [][Next]_vars

-----------------------------------------------------------------------------
(* Properties                                                              *)

\* Every file of the ISO is there, in whole pieces, and the drive has it all,
\* the boot code of a legacy BIOS included.
Complete ==
  /\ {"table", "rest"} \subseteq drive /\ "stale pieces" \notin drive /\ ~dirty
  /\ image # "none" => drive \cap {"image", "pieces"} # {}
  /\ scheme = "mbr" => {"core", "mbr"} \subseteq drive

\* How the writer's state looks to its caller, see WriterContract.
Holds == Held \cup {r \in {"work"} : work}
Content == IF Complete THEN "whole" ELSE IF drive = {} THEN "old" ELSE "partial"

\* _install_bios_boot: the drive is made bootable last, over files that are
\* complete and a core that is there.
BootsSomething == "mbr" \in drive => Complete

\* The cache directory is as big as the image: it is empty again, whatever
\* went wrong while the image was repacked.
CacheEmptied == outcome # "running" => ~work

\* write_windows returns True only with the whole ISO on the drive: "Windows
\* installer media through udisks.  False if stopped.  Raises [...] OSError for
\* the rest."
NothingMissing == outcome = "done" => Complete

=============================================================================
