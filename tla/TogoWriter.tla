----------------------------- MODULE TogoWriter -----------------------------
(***************************************************************************)
(* Windows To Go (windows_togo_logic.py, write_windows_togo): the drive is *)
(* emptied and timed, the user may be asked about a slow one, then an EFI  *)
(* partition and an NTFS partition are made, wimlib applies the image to   *)
(* the NTFS through an fd, and the boot files go onto the EFI partition.   *)
(*                                                                         *)
(* The answer of ask_speed is FlashSession's: False only under a flag that *)
(* is down.  Left out: the numbers of the speed test and what the BCD and  *)
(* the NTFS boot sector contain.                                           *)
(***************************************************************************)
EXTENDS WriterBase

CONSTANT HasImage  \* whether the ISO has an install image, and the edition in it

VARIABLES
  hasImage,
  drive,  \* what the drive got, see Contents
  dirty,  \* the partitions with data that only the page cache has
  tmp     \* the temporary directory with the extracted boot files

writerVars == <<hasImage, drive, dirty, tmp>>
vars == <<baseVars, writerVars>>

Contents == {"emptied", "table", "windows", "boot"}

Labels == {"resolve", "unmount", "empty", "speed", "measure", "ask", "table", "esp", "win",
           "info", "guids", "closeguids", "loop", "findloop", "mountloop", "extract",
           "unmountwin", "openwin", "apply", "fsync", "closewin", "find", "mount", "boot",
           "sync", "dropesp", "untmp", "unmountloop", "deleteloop", "end"}

\* Where an exception goes: straight out while the partitions are made, then
\* to the finally of the open NTFS, the except of the mounted EFI partition,
\* the end of the temporary directory and the finally of mounted_iso.
Handler == [at \in Labels |->
  CASE at = "guids" -> "closeguids"
    [] at \in {"findloop", "mountloop"} -> "unmountloop"
    [] at \in {"extract", "openwin", "find", "mount"} -> "untmp"
    [] at \in {"apply", "fsync"} -> "closewin"
    [] at \in {"boot", "sync"} -> "dropesp"
    [] OTHER -> "end"]

\* What cannot fail, or has its error suppressed.
Safe == {"speed", "measure", "ask", "closeguids", "unmountwin", "closewin", "dropesp",
         "untmp", "unmountloop", "deleteloop", "end"}

\* Mutant: _wait_for_fs without its timeout.
FailingWithoutTimeout == Labels \ (Safe \cup {"find", "findloop"})
Failing == Labels \ Safe

TypeOK ==
  /\ BaseTypeOK /\ pc \in Labels
  /\ hasImage \in HasImage
  /\ drive \subseteq Contents /\ dirty \subseteq {"esp", "win"} /\ tmp \in BOOLEAN

Init ==
  /\ BaseInit
  /\ hasImage \in HasImage
  /\ drive = {} /\ dirty = {} /\ tmp = FALSE

-----------------------------------------------------------------------------
Keep == UNCHANGED writerVars
Puts(what) == drive' = drive \cup {what} /\ UNCHANGED <<hasImage, tmp>>
OnDrive == {"part", "esp", "win", "old"}
Unless(to, handler) == IF exception = "no" THEN to ELSE handler

Resolve == Plain("resolve", "unmount") /\ Keep
Unmounting == UnmountAll("empty") /\ Keep
EmptyDisk == Format("empty", "speed", {"old"}) /\ Puts("emptied") /\ UNCHANGED dirty

\* _speed_test: a drive that cannot be opened or measured is not asked about.
OpenForSpeed == OpenDevice("speed", "measure", "disk", OnDrive) /\ Keep
NotOpened == Plain("speed", "table") /\ Keep
Measured == (CloseDevice("measure", "ask") \/ CloseDevice("measure", "table")) /\ Keep

\* ask_speed: go on, or return False there and then.
GoOn == Plain("ask", "table") /\ Keep
Refuse ==
  /\ asked /\ Goes("ask", "end") /\ exception' = "Stopped"
  /\ UNCHANGED <<outcome, asked, automounts, volume, mounts, fd, kept>> /\ Keep

MakeTable == Format("table", "esp", OnDrive) /\ Puts("table") /\ UNCHANGED dirty
MakeEsp == Appears("esp", "win", "esp") /\ Keep
MakeWin == Appears("win", "info", "win") /\ Keep

\* gpt_guids reads the new table through an fd of the whole disk.
OpenForGuids == OpenDevice("info", "guids", "disk", OnDrive) /\ Keep
ReadGuids == Plain("guids", "closeguids") /\ Keep
CloseGuids == CloseDevice("closeguids", Unless("loop", "end")) /\ Keep

AttachLoop == Appears("loop", "findloop", "loop") /\ Keep
HaveTmp == tmp' = TRUE /\ UNCHANGED <<hasImage, drive, dirty>>
FindLoop ==
  \/ FindMounted("findloop", "extract", "loop") /\ HaveTmp
  \/ FindIdle("findloop", "mountloop", "loop") /\ Keep
MountLoop == Mount("mountloop", "extract", "loop") /\ HaveTmp

\* The image, the edition and its bootmgfw.efi, or OSError.
ExtractBoot == hasImage /\ Plain("extract", "unmountwin") /\ Keep

\* What the desktop mounted meanwhile is unmounted, or the open is refused.
UnmountWin == TryUnmount("unmountwin", "openwin", "win") /\ Keep
OpenWin == OpenDevice("openwin", "apply", "win", {"win"}) /\ Keep

\* set_ntfs_start and _apply; wimlib's progress callback polls stopped().
Apply == Plain("apply", "fsync") /\ Puts("windows") /\ dirty' = dirty \cup {"win"}

\* Mutant: the fd is closed without fsync.
ApplyUnsynced == Plain("fsync", "closewin") /\ Keep
SyncWin == Plain("fsync", "closewin") /\ dirty' = dirty \ {"win"} /\ UNCHANGED <<hasImage, drive, tmp>>
CloseWin == CloseDevice("closewin", Unless("find", "untmp")) /\ Keep

FindEsp == (FindMounted("find", "boot", "esp") \/ FindIdle("find", "mount", "esp")) /\ Keep
MountEsp == Mount("mount", "boot", "esp") /\ Keep
InstallBoot == Plain("boot", "sync") /\ Puts("boot") /\ dirty' = dirty \cup {"esp"}
SyncEsp ==
  /\ Unmount("sync", "untmp", "esp")
  /\ dirty' = dirty \ {"esp"} /\ UNCHANGED <<hasImage, drive, tmp>>

\* except BaseException: unmount and raise again.
DropEsp == TryUnmount("dropesp", "untmp", "esp") /\ Keep

\* Mutant: the boot files stay in the temporary directory.
LeaveTmp == Plain("untmp", "unmountloop") /\ Keep
RemoveTmp ==
  Plain("untmp", "unmountloop") /\ tmp' = FALSE /\ UNCHANGED <<hasImage, drive, dirty>>
UnmountLoop == TryUnmount("unmountloop", "deleteloop", "loop") /\ Keep
DeleteIso == DeleteLoop("deleteloop", "end") /\ Keep

\* A step that fails or stops may have done a part of its work.
Halfway == [at \in Labels |->
  CASE at = "empty" -> {"emptied"} [] at = "table" -> {"table"} [] OTHER -> {}]
Breaks ==
  /\ Fails(Failing, Handler) \/ Stops({"apply"}, Handler)
  /\ drive' \in {drive, drive \cup Halfway[pc]}
  /\ dirty' = dirty \cup {v \in {"win"} : pc = "apply"} \cup {v \in {"esp"} : pc = "boot"}
  /\ UNCHANGED <<hasImage, tmp>>

Return == Returns /\ Keep

WriterStep ==
  \/ Resolve \/ Unmounting \/ EmptyDisk \/ OpenForSpeed \/ NotOpened \/ Measured
  \/ GoOn \/ Refuse \/ MakeTable \/ MakeEsp \/ MakeWin
  \/ OpenForGuids \/ ReadGuids \/ CloseGuids \/ AttachLoop \/ FindLoop \/ MountLoop
  \/ ExtractBoot \/ UnmountWin \/ OpenWin \/ Apply \/ SyncWin \/ CloseWin
  \/ FindEsp \/ MountEsp \/ InstallBoot \/ SyncEsp \/ DropEsp
  \/ RemoveTmp \/ UnmountLoop \/ DeleteIso \/ Breaks \/ Return

Around == (Interrupt \/ \E v \in Volumes : Probe(v) \/ Automount(v)) /\ Keep

Returned == outcome # "running" /\ UNCHANGED vars

Next == WriterStep \/ Around \/ Returned

Spec == Init /\ [][Next]_vars

-----------------------------------------------------------------------------
(* Properties                                                              *)

\* A Windows that was applied whole and can boot, all of it on the drive.
Complete == {"table", "windows", "boot"} \subseteq drive /\ dirty = {}

\* How the writer's state looks to its caller, see WriterContract.
Holds == Held \cup {r \in {"tmp"} : tmp}
Content == IF Complete THEN "whole" ELSE IF drive = {} THEN "old" ELSE "partial"

\* The EFI partition is made bootable only over an applied Windows that the
\* drive has already: a stick pulled out early does not boot into a torso.
BootAfterWindows == "boot" \in drive => "windows" \in drive /\ "win" \notin dirty
=============================================================================
