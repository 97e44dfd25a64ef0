------------------------------ MODULE TogoProofs ------------------------------
(***************************************************************************)
(* What holds of write_windows_togo, whatever call of it fails and         *)
(* wherever it is stopped, however often the desktop mounts something in   *)
(* between.                                                                *)
(***************************************************************************)
EXTENDS Writers, TLAPS

-----------------------------------------------------------------------------
(* The inductive invariant                                                 *)

\* The labels at which there is a temporary directory, the ISO is attached,
\* and the EFI partition is mounted.
TogoTmp == {"extract", "unmountwin", "openwin", "apply", "fsync", "closewin", "find", "mount",
            "boot", "sync", "dropesp", "untmp"}
TogoIso == {"findloop", "mountloop", "unmountloop", "deleteloop"} \cup TogoTmp
TogoEsp == {"boot", "sync", "dropesp"}
TogoAfter == {"sync", "dropesp", "untmp", "unmountloop", "deleteloop", "end"}

TogoBase ==
  /\ pc \in Togo!Labels /\ exception \in {"no", "Stopped", "error"}
  /\ outcome \in {"running", "done", "stopped", "raised"} /\ asked \in BOOLEAN
  /\ volume \in [Volumes -> {"absent", "new", "idle", "mounted"}]
  /\ mounts \subseteq {"esp", "loop"} /\ kept \subseteq {"esp", "loop"}
  /\ automounts \in 0 .. MaxAutomounts
  /\ hasImage \in HasImage /\ drive \subseteq Togo!Contents /\ cached \subseteq {"esp", "win"}
  /\ tmp \in BOOLEAN

\* An exception leads to what cleans up, and the function returns at the end.
TogoFlow ==
  /\ exception # "no" =>
       pc \in {"closeguids", "closewin", "dropesp", "untmp", "unmountloop", "deleteloop", "end"}
  /\ exception = "no" => pc # "dropesp"
  /\ exception = "Stopped" => asked
  /\ outcome # "running" => pc = "end"
  /\ outcome = "done" => exception = "no"

\* What the writer has taken of the system's, and where it still has it: past
\* its cleanup only what the system would not take back.
TogoHolds ==
  /\ \A v \in mounts : volume[v] = "mounted"
  /\ "esp" \in mounts => pc \in TogoEsp \/ "esp" \in kept
  /\ "esp" \in kept => "esp" \in mounts /\ pc \in {"untmp", "unmountloop", "deleteloop", "end"}
  /\ "loop" \in mounts => pc \in TogoTmp \cup {"unmountloop"} \/ "loop" \in kept
  /\ volume["loop"] # "absent" <=> pc \in TogoIso \/ "loop" \in kept
  /\ "loop" \in kept =>
       /\ pc \in {"deleteloop", "end"}
       /\ pc = "deleteloop" => "loop" \in mounts
  /\ tmp # FALSE => pc \in TogoTmp

\* The fd of the disk or of the NTFS, and that it keeps the desktop off.
TogoExclusive ==
  /\ fd = IF pc \in {"measure", "guids", "closeguids"} THEN "disk"
          ELSE IF pc \in {"apply", "fsync", "closewin"} THEN "win" ELSE "no"
  /\ RawMeansIdle

\* What is on the drive, step after step while nothing went wrong; the boot
\* files only over a Windows that the drive has.
TogoDrive ==
  /\ exception = "no" /\ pc \notin {"resolve", "unmount", "empty", "speed", "measure", "ask", "table"}
       => "table" \in drive
  /\ pc = "fsync" => "windows" \in drive
  /\ exception = "no" /\ pc \in {"closewin", "find", "mount", "boot"} \cup TogoAfter
       => "windows" \in drive /\ "win" \notin cached
  /\ exception = "no" /\ pc \in TogoAfter => "boot" \in drive
  /\ exception = "no" /\ pc \in TogoAfter \ {"sync"} => cached = {}
  /\ "boot" \in drive => pc \in TogoAfter /\ "windows" \in drive /\ "win" \notin cached

TogoInv == TogoBase /\ TogoFlow /\ TogoHolds /\ TogoExclusive /\ TogoDrive

-----------------------------------------------------------------------------
(* Lemmas                                                                  *)

\* Where an exception goes.
LEMMA TogoHandlers ==
  ASSUME NEW at \in Togo!Labels
  PROVE  /\ at = "guids" => Togo!Handler[at] = "closeguids"
         /\ at \in {"findloop", "mountloop"} => Togo!Handler[at] = "unmountloop"
         /\ at \in {"extract", "openwin", "find", "mount"} => Togo!Handler[at] = "untmp"
         /\ at \in {"apply", "fsync"} => Togo!Handler[at] = "closewin"
         /\ at \in {"boot", "sync"} => Togo!Handler[at] = "dropesp"
         /\ at \in {"resolve", "unmount", "empty", "table", "esp", "win", "info", "loop"} =>
              Togo!Handler[at] = "end"
BY DEF Togo!Handler, Togo!Labels

\* Before the ISO is attached the writer has nothing of the system's.
LEMMA TogoBare ==
  ASSUME TogoInv, pc \notin TogoIso \cup {"end"}
  PROVE  /\ mounts = {} /\ kept = {} /\ volume["loop"] = "absent" /\ tmp = FALSE
         /\ exception = "no" \/ pc = "closeguids"
<1>1. "esp" \notin kept /\ "loop" \notin kept
  BY DEF TogoInv, TogoHolds, TogoIso, TogoTmp
<1>2. "esp" \notin mounts /\ "loop" \notin mounts
  BY <1>1 DEF TogoInv, TogoHolds, TogoIso, TogoTmp, TogoEsp
<1>3. volume["loop"] = "absent" /\ tmp = FALSE
  BY <1>1 DEF TogoInv, TogoHolds, TogoIso
<1>4. exception = "no" \/ pc = "closeguids"
  BY DEF TogoInv, TogoFlow, TogoIso, TogoTmp
<1> QED  BY <1>1, <1>2, <1>3, <1>4 DEF TogoInv, TogoBase

\* What a step that is no exception leaves alone.
TogoSame == UNCHANGED <<exception, outcome, asked, automounts, hasImage>>
TogoSystem == UNCHANGED <<volume, mounts, fd, kept>>

\* The moves between labels that leave the system's things alone.
TogoMoves ==
  \/ pc = "resolve" /\ pc' = "unmount"
  \/ pc \in {"speed", "ask"} /\ pc' = "table"
  \/ pc = "guids" /\ pc' = "closeguids"
  \/ pc = "findloop" /\ pc' = "mountloop"
  \/ pc = "extract" /\ pc' = "unmountwin"
  \/ pc = "apply" /\ pc' = "fsync"
  \/ pc = "fsync" /\ pc' = "closewin"
  \/ pc = "find" /\ pc' = "mount"
  \/ pc = "boot" /\ pc' = "sync"
  \/ pc = "untmp" /\ pc' = "unmountloop" /\ tmp' = FALSE

\* They keep what is held in step with the label.
LEMMA TogoMoved ==
  ASSUME TogoInv, TogoSame, TogoSystem, TogoMoves, tmp' \in {tmp, FALSE},
         drive' \subseteq Togo!Contents, cached' \subseteq {"esp", "win"}
  PROVE  TogoBase' /\ TogoFlow' /\ TogoHolds' /\ TogoExclusive'
<1>1. TogoBase'
  <2>1. pc' \in Togo!Labels
    BY DEF TogoMoves, Togo!Labels
  <2>2. tmp' \in BOOLEAN
    BY DEF TogoInv, TogoBase
  <2>3. UNCHANGED <<exception, outcome, asked, automounts, hasImage, volume, mounts, kept>>
    BY DEF TogoSame, TogoSystem
  <2> QED  BY <2>1, <2>2, <2>3 DEF TogoInv, TogoBase
<1>2. TogoFlow'
  BY DEF TogoInv, TogoFlow, TogoSame, TogoMoves
<1>3. TogoHolds'
  BY DEF TogoInv, TogoHolds, TogoSystem, TogoMoves, TogoIso, TogoTmp, TogoEsp
<1>4. TogoExclusive'
  BY DEF TogoInv, TogoExclusive, RawMeansIdle, TogoSystem, TogoMoves
<1> QED  BY <1>1, <1>2, <1>3, <1>4

\* The moves between labels that leave the drive alone.
TogoAhead ==
  \/ pc = "resolve" /\ pc' = "unmount"
  \/ pc = "unmount" /\ pc' = "empty"
  \/ pc = "speed" /\ pc' \in {"measure", "table"}
  \/ pc = "measure" /\ pc' \in {"ask", "table"}
  \/ pc = "ask" /\ pc' = "table"
  \/ pc = "esp" /\ pc' = "win"
  \/ pc = "win" /\ pc' = "info"
  \/ pc = "info" /\ pc' = "guids"
  \/ pc = "guids" /\ pc' = "closeguids"
  \/ pc = "closeguids" /\ pc' = IF exception = "no" THEN "loop" ELSE "end"
  \/ pc = "loop" /\ pc' = "findloop"
  \/ pc = "findloop" /\ pc' \in {"mountloop", "extract"}
  \/ pc = "mountloop" /\ pc' = "extract"
  \/ pc = "extract" /\ pc' = "unmountwin"
  \/ pc = "unmountwin" /\ pc' = "openwin"
  \/ pc = "openwin" /\ pc' = "apply"
  \/ pc = "closewin" /\ pc' = IF exception = "no" THEN "find" ELSE "untmp"
  \/ pc = "find" /\ pc' \in {"mount", "boot"}
  \/ pc = "mount" /\ pc' = "boot"
  \/ pc = "dropesp" /\ pc' = "untmp"
  \/ pc = "untmp" /\ pc' = "unmountloop"
  \/ pc = "unmountloop" /\ pc' = "deleteloop"
  \/ pc = "deleteloop" /\ pc' = "end"

LEMMA TogoDriveKept ==
  ASSUME TogoInv, TogoSame, TogoAhead, UNCHANGED <<drive, cached>>
  PROVE  TogoDrive'
<1>1. exception' = exception
  BY DEF TogoSame
<1>2. exception' = "no" /\ pc' \notin {"resolve", "unmount", "empty", "speed", "measure", "ask", "table"}
        => "table" \in drive'
  BY <1>1 DEF TogoInv, TogoDrive, TogoAhead
<1>3. pc' # "fsync"
  BY DEF TogoAhead
<1>4. /\ exception' = "no" /\ pc' \in {"closewin", "find", "mount", "boot"} \cup TogoAfter
           => "windows" \in drive' /\ "win" \notin cached'
      /\ exception' = "no" /\ pc' \in TogoAfter => "boot" \in drive'
      /\ exception' = "no" /\ pc' \in TogoAfter \ {"sync"} => cached' = {}
  BY <1>1 DEF TogoInv, TogoDrive, TogoAhead, TogoAfter
<1>5. "boot" \in drive' => pc' \in TogoAfter /\ "windows" \in drive' /\ "win" \notin cached'
  BY DEF TogoInv, TogoDrive, TogoAhead, TogoAfter
<1> QED  BY <1>2, <1>3, <1>4, <1>5 DEF TogoDrive

LEMMA TogoStarts == Togo!Init => TogoInv
<1> SUFFICES ASSUME Togo!Init PROVE TogoInv
  OBVIOUS
<1>1. /\ pc = "resolve" /\ exception = "no" /\ outcome = "running" /\ asked = FALSE
      /\ mounts = {} /\ fd = "no" /\ kept = {} /\ automounts = 0
      /\ hasImage \in HasImage /\ drive = {} /\ cached = {} /\ tmp = FALSE
  BY DEF Togo!Init, Togo!BaseInit
<1>2. PICK s \in {"idle", "mounted"} : volume = [v \in Volumes |-> IF v = "old" THEN s ELSE "absent"]
  BY DEF Togo!Init, Togo!BaseInit, Togo!Volumes, Volumes
<1>3. volume \in [Volumes -> {"absent", "new", "idle", "mounted"}] /\ volume["loop"] = "absent"
  BY <1>2 DEF Volumes
<1>4. 0 \in 0 .. MaxAutomounts
  BY AutomountsAssumption DEF AutomountsAssumption
<1>5. TogoBase
  BY <1>1, <1>3, <1>4 DEF TogoBase, Togo!Labels
<1>6. TogoFlow /\ TogoDrive
  BY <1>1 DEF TogoFlow, TogoDrive, TogoAfter
<1>7. TogoHolds
  BY <1>1, <1>3 DEF TogoHolds, TogoIso, TogoTmp
<1>8. TogoExclusive
  BY <1>1 DEF TogoExclusive, RawMeansIdle
<1> QED  BY <1>5, <1>6, <1>7, <1>8 DEF TogoInv

-----------------------------------------------------------------------------
(* The steps                                                               *)

\* What neither touches the system's things nor the drive.
LEMMA TogoIdles ==
  ASSUME TogoInv,
         \/ Togo!Resolve \/ Togo!NotOpened \/ Togo!GoOn \/ Togo!ReadGuids \/ Togo!ExtractBoot
         \/ Togo!RemoveTmp
         \/ Togo!FindIdle("findloop", "mountloop", "loop") /\ Togo!Keep
         \/ Togo!FindIdle("find", "mount", "esp") /\ Togo!Keep
  PROVE  TogoInv'
<1>1. /\ TogoSame /\ TogoSystem /\ UNCHANGED <<drive, cached>>
      /\ \/ pc = "resolve" /\ pc' = "unmount" /\ tmp' = tmp
         \/ pc \in {"speed", "ask"} /\ pc' = "table" /\ tmp' = tmp
         \/ pc = "guids" /\ pc' = "closeguids" /\ tmp' = tmp
         \/ pc = "extract" /\ pc' = "unmountwin" /\ tmp' = tmp
         \/ pc = "untmp" /\ pc' = "unmountloop" /\ tmp' = FALSE
         \/ pc = "findloop" /\ pc' = "mountloop" /\ tmp' = tmp
         \/ pc = "find" /\ pc' = "mount" /\ tmp' = tmp
  BY DEF Togo!Resolve, Togo!NotOpened, Togo!GoOn, Togo!ReadGuids, Togo!ExtractBoot, Togo!RemoveTmp,
         Togo!FindIdle, Togo!Plain, Togo!Goes, Togo!Same, Togo!Keep, Togo!writerVars, TogoSame,
         TogoSystem
<1>2. TogoMoves /\ TogoAhead /\ tmp' \in {tmp, FALSE}
  BY <1>1 DEF TogoMoves, TogoAhead
<1>3. drive' \subseteq Togo!Contents /\ cached' \subseteq {"esp", "win"}
  BY <1>1 DEF TogoInv, TogoBase
<1>4. TogoBase' /\ TogoFlow' /\ TogoHolds' /\ TogoExclusive'
  BY <1>1, <1>2, <1>3, TogoMoved
<1>5. TogoDrive'
  BY <1>1, <1>2, TogoDriveKept
<1> QED  BY <1>4, <1>5 DEF TogoInv

\* Windows, what syncs it, and the boot files.
LEMMA TogoFills ==
  ASSUME TogoInv, Togo!Apply \/ Togo!SyncWin \/ Togo!InstallBoot
  PROVE  TogoInv'
<1>1. /\ TogoSame /\ TogoSystem /\ tmp' = tmp
      /\ \/ /\ pc = "apply" /\ pc' = "fsync"
            /\ drive' = drive \cup {"windows"} /\ cached' = cached \cup {"win"}
         \/ pc = "fsync" /\ pc' = "closewin" /\ drive' = drive /\ cached' = cached \ {"win"}
         \/ /\ pc = "boot" /\ pc' = "sync"
            /\ drive' = drive \cup {"boot"} /\ cached' = cached \cup {"esp"}
  BY DEF Togo!Apply, Togo!SyncWin, Togo!InstallBoot, Togo!Puts, Togo!Plain, Togo!Goes, Togo!Same,
         TogoSame, TogoSystem
<1>2. TogoMoves
  BY <1>1 DEF TogoMoves
<1>3. drive' \subseteq Togo!Contents /\ cached' \subseteq {"esp", "win"}
  BY <1>1 DEF TogoInv, TogoBase, Togo!Contents
<1>4. TogoBase' /\ TogoFlow' /\ TogoHolds' /\ TogoExclusive'
  BY <1>1, <1>2, <1>3, TogoMoved
<1>5. exception = "no" /\ exception' = "no"
  BY <1>1 DEF TogoInv, TogoFlow, TogoSame
<1>6. "boot" \notin drive /\ "table" \in drive
  BY <1>1, <1>5 DEF TogoInv, TogoDrive, TogoAfter
<1>7. TogoDrive'
  BY <1>1, <1>5, <1>6 DEF TogoInv, TogoDrive, TogoAfter
<1> QED  BY <1>4, <1>7 DEF TogoInv

\* The drive is emptied, and gets its table and its two partitions.
LEMMA TogoFormats ==
  ASSUME TogoInv,
         \/ Togo!Unmounting \/ Togo!EmptyDisk \/ Togo!MakeTable \/ Togo!MakeEsp \/ Togo!MakeWin
  PROVE  TogoInv'
<1>1. /\ TogoSame /\ UNCHANGED <<mounts, fd, kept, cached, tmp>>
      /\ volume' \in [Volumes -> {"absent", "new", "idle", "mounted"}]
      /\ volume'["loop"] = volume["loop"]
      /\ \/ pc = "unmount" /\ pc' = "empty" /\ drive' = drive
         \/ pc = "empty" /\ pc' = "speed" /\ drive' = drive \cup {"emptied"}
         \/ pc = "table" /\ pc' = "esp" /\ drive' = drive \cup {"table"}
         \/ pc = "esp" /\ pc' = "win" /\ drive' = drive
         \/ pc = "win" /\ pc' = "info" /\ drive' = drive
  <2>1. ASSUME NEW from, NEW to, NEW gone \in SUBSET (Volumes \ {"loop"}), Togo!Format(from, to, gone)
        PROVE  /\ volume' \in [Volumes -> {"absent", "new", "idle", "mounted"}]
               /\ volume'["loop"] = volume["loop"]
    BY <2>1 DEF Togo!Format, Togo!Volumes, Volumes, TogoInv, TogoBase
  <2>2. {"old"} \subseteq Volumes \ {"loop"} /\ Togo!OnDrive \subseteq Volumes \ {"loop"}
    BY DEF Volumes, Togo!OnDrive
  <2>3. Togo!EmptyDisk \/ Togo!MakeTable => /\ volume' \in [Volumes -> {"absent", "new", "idle", "mounted"}]
                                            /\ volume'["loop"] = volume["loop"]
    BY <2>1, <2>2 DEF Togo!EmptyDisk, Togo!MakeTable
  <2>4. Togo!Unmounting \/ Togo!MakeEsp \/ Togo!MakeWin =>
           /\ volume' \in [Volumes -> {"absent", "new", "idle", "mounted"}]
           /\ volume'["loop"] = volume["loop"]
    BY DEF Togo!Unmounting, Togo!UnmountAll, Togo!MakeEsp, Togo!MakeWin, Togo!Appears, Togo!Set,
           Volumes, TogoInv, TogoBase
  <2>5. /\ TogoSame /\ UNCHANGED <<mounts, fd, kept, cached, tmp>>
        /\ \/ pc = "unmount" /\ pc' = "empty" /\ drive' = drive
           \/ pc = "empty" /\ pc' = "speed" /\ drive' = drive \cup {"emptied"}
           \/ pc = "table" /\ pc' = "esp" /\ drive' = drive \cup {"table"}
           \/ pc = "esp" /\ pc' = "win" /\ drive' = drive
           \/ pc = "win" /\ pc' = "info" /\ drive' = drive
    BY DEF Togo!Unmounting, Togo!UnmountAll, Togo!EmptyDisk, Togo!MakeTable, Togo!Format, Togo!MakeEsp,
           Togo!MakeWin, Togo!Appears, Togo!Puts, Togo!Goes, Togo!Same, Togo!Keep, Togo!writerVars,
           TogoSame
  <2> QED  BY <2>3, <2>4, <2>5
<1>2. mounts = {} /\ kept = {} /\ volume["loop"] = "absent" /\ tmp = FALSE /\ exception = "no"
  BY <1>1, TogoBare DEF TogoIso, TogoTmp
<1>3. TogoBase'
  BY <1>1 DEF TogoInv, TogoBase, TogoSame, Togo!Labels, Togo!Contents
<1>4. TogoFlow'
  BY <1>1 DEF TogoInv, TogoFlow, TogoSame
<1>5. TogoHolds'
  BY <1>1, <1>2 DEF TogoHolds, TogoIso, TogoTmp
<1>6. TogoExclusive'
  BY <1>1 DEF TogoInv, TogoExclusive, RawMeansIdle
<1>7. TogoDrive'
  BY <1>1, <1>2 DEF TogoInv, TogoDrive, TogoAfter, TogoSame
<1> QED  BY <1>3, <1>4, <1>5, <1>6, <1>7 DEF TogoInv

\* The disk, or the NTFS, is opened for the writer alone.
LEMMA TogoOpens ==
  ASSUME TogoInv, Togo!OpenForSpeed \/ Togo!OpenForGuids \/ Togo!OpenWin
  PROVE  TogoInv'
<1>1. /\ TogoSame /\ UNCHANGED <<volume, mounts, kept, drive, cached, tmp>>
      /\ \/ /\ \/ pc = "speed" /\ pc' = "measure"
               \/ pc = "info" /\ pc' = "guids"
            /\ fd' = "disk" /\ \A v \in {"part", "esp", "win", "old"} : volume[v] # "mounted"
         \/ pc = "openwin" /\ pc' = "apply" /\ fd' = "win" /\ volume["win"] # "mounted"
  BY DEF Togo!OpenForSpeed, Togo!OpenForGuids, Togo!OpenWin, Togo!OpenDevice, Togo!OnDrive, Togo!Goes,
         Togo!Same, Togo!Keep, Togo!writerVars, TogoSame
<1>2. TogoBase' /\ TogoFlow'
  BY <1>1 DEF TogoInv, TogoBase, TogoFlow, TogoSame, Togo!Labels
<1>3. TogoHolds'
  BY <1>1 DEF TogoInv, TogoHolds, TogoIso, TogoTmp, TogoEsp
<1>4. TogoExclusive'
  BY <1>1 DEF TogoExclusive, RawMeansIdle, Volumes
<1>5. TogoAhead
  BY <1>1 DEF TogoAhead
<1>6. TogoDrive'
  BY <1>1, <1>5, TogoDriveKept
<1> QED  BY <1>2, <1>3, <1>4, <1>6 DEF TogoInv

LEMMA TogoCloses ==
  ASSUME TogoInv, Togo!Measured \/ Togo!CloseGuids \/ Togo!CloseWin
  PROVE  TogoInv'
<1>1. /\ TogoSame /\ UNCHANGED <<volume, mounts, kept, drive, cached, tmp>> /\ fd' = "no"
      /\ \/ pc = "measure" /\ pc' \in {"ask", "table"}
         \/ pc = "closeguids" /\ pc' = IF exception = "no" THEN "loop" ELSE "end"
         \/ pc = "closewin" /\ pc' = IF exception = "no" THEN "find" ELSE "untmp"
  BY DEF Togo!Measured, Togo!CloseGuids, Togo!CloseWin, Togo!CloseDevice, Togo!Unless, Togo!Goes,
         Togo!Same, Togo!Keep, Togo!writerVars, TogoSame
<1>2. TogoBase' /\ TogoFlow'
  BY <1>1 DEF TogoInv, TogoBase, TogoFlow, TogoSame, Togo!Labels
<1>3. TogoHolds'
  BY <1>1 DEF TogoInv, TogoHolds, TogoIso, TogoTmp, TogoEsp
<1>4. TogoExclusive'
  BY <1>1 DEF TogoExclusive, RawMeansIdle
<1>5. TogoAhead
  BY <1>1 DEF TogoAhead
<1>6. TogoDrive'
  BY <1>1, <1>5, TogoDriveKept
<1> QED  BY <1>2, <1>3, <1>4, <1>6 DEF TogoInv

\* The ISO, and later the EFI partition, are mounted.
LEMMA TogoMounts ==
  ASSUME TogoInv,
         \/ Togo!FindMounted("findloop", "extract", "loop") /\ Togo!HaveTmp
         \/ Togo!FindMounted("find", "boot", "esp") /\ Togo!Keep
         \/ Togo!MountLoop \/ Togo!MountEsp
  PROVE  TogoInv'
<1>1. /\ TogoSame /\ UNCHANGED <<fd, kept, drive, cached>>
      /\ \/ /\ pc \in {"findloop", "mountloop"} /\ pc' = "extract" /\ mounts' = mounts \cup {"loop"}
            /\ volume' \in {volume, [volume EXCEPT !["loop"] = "mounted"]}
            /\ volume' = volume => volume["loop"] = "mounted"
            /\ tmp' = TRUE
         \/ /\ pc \in {"find", "mount"} /\ pc' = "boot" /\ mounts' = mounts \cup {"esp"}
            /\ volume' \in {volume, [volume EXCEPT !["esp"] = "mounted"]}
            /\ volume' = volume => volume["esp"] = "mounted"
            /\ tmp' = tmp
  BY DEF Togo!FindMounted, Togo!HaveTmp, Togo!MountLoop, Togo!MountEsp, Togo!Mount, Togo!Set,
         Togo!Goes, Togo!Same, Togo!Keep, Togo!writerVars, TogoSame, TogoInv, TogoBase, Volumes
<1>2. volume' \in [Volumes -> {"absent", "new", "idle", "mounted"}]
  BY <1>1 DEF TogoInv, TogoBase, Volumes
<1>3. /\ pc' = "extract" => volume'["loop"] = "mounted" /\ volume'["esp"] = volume["esp"]
      /\ pc' = "boot" => volume'["esp"] = "mounted" /\ volume'["loop"] = volume["loop"]
  BY <1>1 DEF TogoInv, TogoBase, Volumes
<1>4. TogoBase' /\ TogoFlow'
  BY <1>1, <1>2 DEF TogoInv, TogoBase, TogoFlow, TogoSame, Togo!Labels
<1>5. TogoHolds'
  BY <1>1, <1>3 DEF TogoInv, TogoBase, TogoHolds, TogoIso, TogoTmp, TogoEsp
<1>6. TogoExclusive'
  BY <1>1 DEF TogoInv, TogoExclusive, RawMeansIdle
<1>7. TogoAhead
  BY <1>1 DEF TogoAhead
<1>8. TogoDrive'
  BY <1>1, <1>7, TogoDriveKept
<1> QED  BY <1>4, <1>5, <1>6, <1>8 DEF TogoInv

\* The loop device comes.
LEMMA TogoAttaches ==
  ASSUME TogoInv, Togo!AttachLoop
  PROVE  TogoInv'
<1>1. /\ TogoSame /\ UNCHANGED <<mounts, fd, kept, drive, cached, tmp>>
      /\ pc = "loop" /\ pc' = "findloop" /\ volume' = [volume EXCEPT !["loop"] = "new"]
  BY DEF Togo!AttachLoop, Togo!Appears, Togo!Set, Togo!Goes, Togo!Same, Togo!Keep, Togo!writerVars,
         TogoSame
<1>2. volume' \in [Volumes -> {"absent", "new", "idle", "mounted"}] /\ volume'["loop"] = "new"
  BY <1>1 DEF TogoInv, TogoBase, Volumes
<1>3. mounts = {} /\ kept = {} /\ tmp = FALSE
  BY <1>1, TogoBare DEF TogoIso, TogoTmp
<1>4. TogoBase' /\ TogoFlow'
  BY <1>1, <1>2 DEF TogoInv, TogoBase, TogoFlow, TogoSame, Togo!Labels
<1>5. TogoHolds'
  BY <1>1, <1>2, <1>3 DEF TogoHolds, TogoIso, TogoTmp
<1>6. TogoExclusive'
  BY <1>1 DEF TogoInv, TogoExclusive, RawMeansIdle
<1>7. TogoAhead
  BY <1>1 DEF TogoAhead
<1>8. TogoDrive'
  BY <1>1, <1>7, TogoDriveKept
<1> QED  BY <1>4, <1>5, <1>6, <1>8 DEF TogoInv

\* What the writer unmounts, where it may stay mounted: the NTFS that is not
\* its own, the EFI partition after an exception, the ISO.
LEMMA TogoUnmounts ==
  ASSUME TogoInv, Togo!UnmountWin \/ Togo!DropEsp \/ Togo!UnmountLoop
  PROVE  TogoInv'
<1>1. /\ TogoSame /\ UNCHANGED <<fd, drive, cached, tmp>>
      /\ \E v \in {"win", "esp", "loop"} :
           /\ \/ v = "win" /\ pc = "unmountwin" /\ pc' = "openwin"
              \/ v = "esp" /\ pc = "dropesp" /\ pc' = "untmp"
              \/ v = "loop" /\ pc = "unmountloop" /\ pc' = "deleteloop"
           /\ \/ /\ volume[v] = "mounted" /\ volume' = [volume EXCEPT ![v] = "idle"]
                 /\ mounts' = mounts \ {v} /\ kept' = kept
              \/ /\ kept' = (IF v \in mounts THEN kept \cup {v} ELSE kept)
                 /\ volume' = volume /\ mounts' = mounts
  BY DEF Togo!UnmountWin, Togo!DropEsp, Togo!UnmountLoop, Togo!TryUnmount, Togo!Set, Togo!Goes,
         Togo!Same, Togo!Keep, Togo!writerVars, TogoSame
<1>2. PICK v \in {"win", "esp", "loop"} :
           /\ \/ v = "win" /\ pc = "unmountwin" /\ pc' = "openwin"
              \/ v = "esp" /\ pc = "dropesp" /\ pc' = "untmp"
              \/ v = "loop" /\ pc = "unmountloop" /\ pc' = "deleteloop"
           /\ \/ /\ volume[v] = "mounted" /\ volume' = [volume EXCEPT ![v] = "idle"]
                 /\ mounts' = mounts \ {v} /\ kept' = kept
              \/ /\ kept' = (IF v \in mounts THEN kept \cup {v} ELSE kept)
                 /\ volume' = volume /\ mounts' = mounts
  BY <1>1
<1>3. /\ volume' \in [Volumes -> {"absent", "new", "idle", "mounted"}]
      /\ volume'["loop"] = "absent" <=> volume["loop"] = "absent"
      /\ \A w \in mounts' : volume'[w] = "mounted"
  <2>1. /\ v \in Volumes /\ mounts \subseteq Volumes
        /\ volume \in [Volumes -> {"absent", "new", "idle", "mounted"}]
        /\ \A w \in mounts : volume[w] = "mounted"
    BY DEF TogoInv, TogoBase, TogoHolds, Volumes
  <2>2. \/ volume' = volume /\ mounts' = mounts
        \/ /\ volume[v] = "mounted" /\ volume' = [volume EXCEPT ![v] = "idle"]
           /\ mounts' = mounts \ {v}
    BY <1>2
  <2> QED  BY <2>1, <2>2 DEF Volumes
<1>4. v \notin kept /\ "loop" \notin kept /\ "win" \notin mounts
  BY <1>2 DEF TogoInv, TogoBase, TogoHolds
<1>5. TogoBase'
  BY <1>1, <1>2, <1>3, <1>4 DEF TogoInv, TogoBase, TogoSame, Togo!Labels
<1>6. TogoFlow'
  BY <1>1, <1>2 DEF TogoInv, TogoFlow, TogoSame
<1>7. TogoHolds'
  BY <1>1, <1>2, <1>3, <1>4 DEF TogoInv, TogoHolds, TogoIso, TogoTmp, TogoEsp
<1>8. TogoExclusive'
  BY <1>1, <1>2 DEF TogoInv, TogoExclusive, RawMeansIdle
<1>9. TogoAhead
  BY <1>2 DEF TogoAhead
<1>10. TogoDrive'
  BY <1>1, <1>9, TogoDriveKept
<1> QED  BY <1>5, <1>6, <1>7, <1>8, <1>10 DEF TogoInv

LEMMA TogoDeletes ==
  ASSUME TogoInv, Togo!DeleteIso
  PROVE  TogoInv'
<1>1. /\ TogoSame /\ UNCHANGED <<mounts, fd, drive, cached, tmp>> /\ pc = "deleteloop" /\ pc' = "end"
      /\ \/ /\ volume["loop"] # "mounted" /\ volume' = [volume EXCEPT !["loop"] = "absent"]
            /\ kept' = kept
         \/ kept' = kept \cup {"loop"} /\ volume' = volume
  BY DEF Togo!DeleteIso, Togo!DeleteLoop, Togo!Set, Togo!Goes, Togo!Same, Togo!Keep,
         Togo!writerVars, TogoSame
<1>2. /\ volume' \in [Volumes -> {"absent", "new", "idle", "mounted"}]
      /\ volume' = volume \/ volume'["loop"] = "absent"
      /\ \A v \in Volumes \ {"loop"} : volume'[v] = volume[v]
  BY <1>1 DEF TogoInv, TogoBase, Volumes
<1>3. /\ "loop" \in mounts => "loop" \in kept
      /\ "loop" \in kept => "loop" \in mounts /\ volume["loop"] = "mounted"
      /\ "esp" \in mounts => "esp" \in kept
      /\ "esp" \in kept => "esp" \in mounts
      /\ volume["loop"] # "absent" /\ tmp = FALSE
  BY <1>1 DEF TogoInv, TogoHolds, TogoIso, TogoTmp, TogoEsp
<1>4. TogoBase' /\ TogoFlow'
  BY <1>1, <1>2 DEF TogoInv, TogoBase, TogoFlow, TogoSame, Togo!Labels
<1>5. TogoHolds'
  BY <1>1, <1>2, <1>3 DEF TogoInv, TogoBase, TogoHolds, TogoIso, TogoTmp, Volumes
<1>6. TogoExclusive'
  BY <1>1 DEF TogoInv, TogoExclusive, RawMeansIdle
<1>7. TogoAhead
  BY <1>1 DEF TogoAhead
<1>8. TogoDrive'
  BY <1>1, <1>7, TogoDriveKept
<1> QED  BY <1>4, <1>5, <1>6, <1>8 DEF TogoInv

\* The unmount whose error counts: after it the drive has the boot files too.
LEMMA TogoSyncs ==
  ASSUME TogoInv, Togo!SyncEsp
  PROVE  TogoInv'
<1>1. /\ TogoSame /\ UNCHANGED <<fd, kept, drive, tmp>> /\ cached' = cached \ {"esp"}
      /\ pc = "sync" /\ pc' = "untmp"
      /\ volume' = [volume EXCEPT !["esp"] = "idle"] /\ mounts' = mounts \ {"esp"}
  BY DEF Togo!SyncEsp, Togo!Unmount, Togo!Set, Togo!Goes, Togo!Same, TogoSame
<1>2. /\ volume' \in [Volumes -> {"absent", "new", "idle", "mounted"}]
      /\ \A v \in Volumes \ {"esp"} : volume'[v] = volume[v]
  BY <1>1 DEF TogoInv, TogoBase, Volumes
<1>3. "esp" \notin kept /\ "loop" \notin kept /\ exception = "no"
  BY <1>1 DEF TogoInv, TogoHolds, TogoFlow
<1>4. TogoBase' /\ TogoFlow'
  BY <1>1, <1>2, <1>3 DEF TogoInv, TogoBase, TogoFlow, TogoSame, Togo!Labels
<1>5. TogoHolds'
  BY <1>1, <1>2, <1>3 DEF TogoInv, TogoBase, TogoHolds, TogoIso, TogoTmp, TogoEsp, Volumes
<1>6. TogoExclusive'
  BY <1>1 DEF TogoInv, TogoExclusive, RawMeansIdle
<1>7. TogoDrive'
  BY <1>1, <1>3 DEF TogoInv, TogoBase, TogoDrive, TogoAfter, TogoSame
<1> QED  BY <1>4, <1>5, <1>6, <1>7 DEF TogoInv

\* ask_speed says no: the writer returns there and then.
LEMMA TogoRefuses ==
  ASSUME TogoInv, Togo!Refuse
  PROVE  TogoInv'
<1>1. /\ UNCHANGED <<outcome, asked, automounts, volume, mounts, fd, kept, hasImage, drive, cached, tmp>>
      /\ asked /\ pc = "ask" /\ pc' = "end" /\ exception' = "Stopped"
  BY DEF Togo!Refuse, Togo!Goes, Togo!Keep, Togo!writerVars
<1>2. mounts = {} /\ kept = {} /\ volume["loop"] = "absent" /\ tmp = FALSE
  BY <1>1, TogoBare DEF TogoIso, TogoTmp
<1>3. TogoBase' /\ TogoFlow'
  BY <1>1 DEF TogoInv, TogoBase, TogoFlow, Togo!Labels
<1>4. TogoHolds'
  BY <1>1, <1>2 DEF TogoHolds, TogoIso, TogoTmp
<1>5. TogoExclusive'
  BY <1>1 DEF TogoInv, TogoExclusive, RawMeansIdle
<1>6. TogoDrive'
  BY <1>1 DEF TogoInv, TogoDrive, TogoAfter
<1> QED  BY <1>3, <1>4, <1>5, <1>6 DEF TogoInv

LEMMA TogoReturns ==
  ASSUME TogoInv, Togo!Return
  PROVE  TogoInv'
<1>1. /\ UNCHANGED <<pc, exception, asked, volume, mounts, fd, kept, automounts, hasImage, drive,
                     cached, tmp>>
      /\ pc = "end" /\ outcome = "running"
      /\ outcome' = (CASE exception = "no" -> "done" [] exception = "Stopped" -> "stopped"
                       [] exception = "error" -> "raised")
  BY DEF Togo!Return, Togo!Returns, Togo!Keep, Togo!writerVars
<1>2. exception \in {"no", "Stopped", "error"}
  BY DEF TogoInv, TogoBase
<1>3. TogoBase' /\ TogoFlow'
  BY <1>1, <1>2 DEF TogoInv, TogoBase, TogoFlow
<1>4. TogoHolds'
  BY <1>1 DEF TogoInv, TogoHolds
<1>5. TogoExclusive' /\ TogoDrive'
  BY <1>1 DEF TogoInv, TogoExclusive, RawMeansIdle, TogoDrive
<1> QED  BY <1>3, <1>4, <1>5 DEF TogoInv

\* A call that fails, or a stop, and what of its work was done.
LEMMA TogoBreaks ==
  ASSUME TogoInv, Togo!Breaks
  PROVE  TogoInv'
<1>1. /\ UNCHANGED <<outcome, asked, volume, mounts, fd, kept, automounts, hasImage, tmp>>
      /\ exception' \in {"error", "Stopped"} /\ (exception' = "Stopped" => asked)
      /\ pc \in Togo!Labels \ Togo!Safe /\ pc' = Togo!Handler[pc]
      /\ drive' \in {drive, drive \cup Togo!Halfway[pc]}
      /\ cached' = cached \cup {v \in {"win"} : pc = "apply"} \cup {v \in {"esp"} : pc = "boot"}
  BY DEF Togo!Breaks, Togo!Fails, Togo!Stops, Togo!Throws, Togo!Failing, Togo!Safe, Togo!Labels
<1>2. /\ pc = "guids" => pc' = "closeguids"
      /\ pc \in {"findloop", "mountloop"} => pc' = "unmountloop"
      /\ pc \in {"extract", "openwin", "find", "mount"} => pc' = "untmp"
      /\ pc \in {"apply", "fsync"} => pc' = "closewin"
      /\ pc \in {"boot", "sync"} => pc' = "dropesp"
      /\ pc \in {"resolve", "unmount", "empty", "table", "esp", "win", "info", "loop"} => pc' = "end"
  BY <1>1, TogoHandlers
<1>3. pc \in {"guids", "findloop", "mountloop", "extract", "openwin", "find", "mount", "apply", "fsync",
              "boot", "sync", "resolve", "unmount", "empty", "table", "esp", "win", "info", "loop"}
  BY <1>1 DEF Togo!Labels, Togo!Safe
<1>4. Togo!Halfway[pc] \subseteq {"emptied", "table"}
  BY <1>1 DEF Togo!Halfway, Togo!Labels
<1>5. exception = "no" /\ outcome = "running"
  BY <1>3 DEF TogoInv, TogoBase, TogoFlow
<1>6. /\ drive' \subseteq Togo!Contents /\ cached' \subseteq {"esp", "win"}
      /\ drive \subseteq drive' /\ ("boot" \in drive' => "boot" \in drive)
      /\ "win" \in cached' => "win" \in cached \/ pc = "apply"
  BY <1>1, <1>4 DEF TogoInv, TogoBase, Togo!Contents
<1>7. TogoBase' /\ TogoFlow'
  <2>1. /\ pc' \in Togo!Labels
        /\ pc' \in {"closeguids", "closewin", "dropesp", "untmp", "unmountloop", "end"}
    BY <1>2, <1>3 DEF Togo!Labels
  <2> QED  BY <1>1, <1>5, <1>6, <2>1 DEF TogoInv, TogoBase, TogoFlow
<1>8. TogoHolds'
  BY <1>1, <1>2, <1>3 DEF TogoInv, TogoHolds, TogoIso, TogoTmp, TogoEsp
<1>9. TogoExclusive'
  BY <1>1, <1>2, <1>3 DEF TogoInv, TogoExclusive, RawMeansIdle
<1>10. TogoDrive'
  <2>1. "boot" \in drive => pc = "sync" /\ "windows" \in drive /\ "win" \notin cached
    BY <1>3 DEF TogoInv, TogoDrive, TogoAfter
  <2>2. "boot" \in drive' => pc' = "dropesp" /\ "windows" \in drive' /\ "win" \notin cached'
    BY <1>2, <1>6, <2>1
  <2>3. exception' # "no" /\ pc' # "fsync"
    BY <1>1, <1>2, <1>3
  <2> QED  BY <2>2, <2>3 DEF TogoDrive, TogoAfter
<1> QED  BY <1>7, <1>8, <1>9, <1>10 DEF TogoInv

\* The user and the desktop.
LEMMA TogoAround ==
  ASSUME TogoInv, Togo!Around
  PROVE  TogoInv'
<1>1. CASE Togo!Interrupt /\ Togo!Keep
  <2>1. /\ asked' = TRUE
        /\ UNCHANGED <<pc, exception, outcome, volume, mounts, fd, kept, automounts, hasImage, drive,
                       cached, tmp>>
    BY <1>1 DEF Togo!Interrupt, Togo!Keep, Togo!writerVars
  <2>2. TogoBase' /\ TogoFlow'
    BY <2>1 DEF TogoInv, TogoBase, TogoFlow
  <2>3. TogoHolds'
    BY <2>1 DEF TogoInv, TogoHolds
  <2>4. TogoExclusive' /\ TogoDrive'
    BY <2>1 DEF TogoInv, TogoExclusive, RawMeansIdle, TogoDrive
  <2> QED  BY <2>2, <2>3, <2>4 DEF TogoInv
<1>2. CASE (\E v \in Togo!Volumes : Togo!Probe(v) \/ Togo!Automount(v)) /\ Togo!Keep
  <2>1. PICK v \in Togo!Volumes : Togo!Probe(v) \/ Togo!Automount(v)
    BY <1>2
  <2>2. /\ UNCHANGED <<pc, exception, outcome, asked, mounts, fd, kept, hasImage, drive, cached, tmp>>
        /\ v \in Volumes /\ volume[v] \in {"new", "idle"}
        /\ \/ volume' = [volume EXCEPT ![v] = "idle"]
           \/ /\ volume' = [volume EXCEPT ![v] = "mounted"]
              /\ ~(v # "loop" /\ (fd = "disk" \/ fd = v))
    BY <1>2, <2>1 DEF Togo!Probe, Togo!Automount, Togo!Claimed, Togo!Keep, Togo!writerVars,
                      Togo!Volumes, Volumes
  <2>3. automounts' \in 0 .. MaxAutomounts
    BY <2>1, AutomountsAssumption DEF Togo!Probe, Togo!Automount, TogoInv, TogoBase,
                                      AutomountsAssumption
  <2>4. /\ volume' \in [Volumes -> {"absent", "new", "idle", "mounted"}]
        /\ \A w \in Volumes : volume'[w] = "absent" <=> volume[w] = "absent"
        /\ \A w \in Volumes : volume[w] = "mounted" => volume'[w] = "mounted"
        /\ fd = "disk" => \A w \in Volumes \ {"loop"} : volume'[w] = "mounted" => volume[w] = "mounted"
    BY <2>2 DEF TogoInv, TogoBase
  <2>5. fd = "win" => (volume'["win"] = "mounted" => volume["win"] = "mounted")
    BY <2>2 DEF TogoInv, TogoBase, Volumes
  <2>6. TogoBase' /\ TogoFlow'
    BY <2>2, <2>3, <2>4 DEF TogoInv, TogoBase, TogoFlow
  <2>7. TogoHolds'
    BY <2>2, <2>4 DEF TogoInv, TogoBase, TogoHolds, Volumes
  <2>8. TogoExclusive'
    BY <2>2, <2>4, <2>5 DEF TogoInv, TogoExclusive, RawMeansIdle
  <2>9. TogoDrive'
    BY <2>2 DEF TogoInv, TogoDrive
  <2> QED  BY <2>6, <2>7, <2>8, <2>9 DEF TogoInv
<1> QED  BY <1>1, <1>2 DEF Togo!Around

LEMMA TogoSteps == TogoInv /\ (Togo!WriterStep \/ Togo!Around) => TogoInv'
<1> SUFFICES ASSUME TogoInv, Togo!WriterStep \/ Togo!Around PROVE TogoInv'
  OBVIOUS
<1>1. CASE Togo!FindLoop \/ Togo!FindEsp
  BY <1>1, TogoIdles, TogoMounts DEF Togo!FindLoop, Togo!FindEsp
<1>2. CASE ~(Togo!FindLoop \/ Togo!FindEsp)
  BY <1>2, TogoIdles, TogoFills, TogoFormats, TogoOpens, TogoCloses, TogoMounts, TogoAttaches,
     TogoUnmounts, TogoDeletes, TogoSyncs, TogoRefuses, TogoReturns, TogoBreaks, TogoAround
  DEF Togo!WriterStep
<1> QED  BY <1>1, <1>2

LEMMA TogoStutters ==
  ASSUME TogoInv, UNCHANGED vars
  PROVE  TogoInv'
<1>1. UNCHANGED <<pc, exception, outcome, asked, volume, mounts, fd, kept, automounts, hasImage, drive,
                  cached, tmp>>
  BY DEF vars, baseVars, togoVars
<1>2. TogoBase' /\ TogoFlow'
  BY <1>1 DEF TogoInv, TogoBase, TogoFlow
<1>3. TogoHolds'
  BY <1>1 DEF TogoInv, TogoHolds
<1>4. TogoExclusive' /\ TogoDrive'
  BY <1>1 DEF TogoInv, TogoExclusive, RawMeansIdle, TogoDrive
<1> QED  BY <1>2, <1>3, <1>4 DEF TogoInv

\* write_windows_togo: where the thread stands, what it holds of the system
\* and what it has put on the drive fit each other at every step.
THEOREM TogoInvariant == Spec => [](Writer = "togo" => TogoInv)
<1> DEFINE Inv == Writer = "togo" => TogoInv
<1>1. Init => Inv
  BY TogoStarts DEF Init
<1>2. Inv /\ [Next]_vars => Inv'
  <2> SUFFICES ASSUME Inv, [Next]_vars, Writer' = "togo" PROVE TogoInv'
    OBVIOUS
  <2>1. Writer = "togo"
    <3>1. UNCHANGED <<os_idx, wtg>>
      BY DEF Next, WriterStep, Around, Returned, Run, vars
    <3> QED  BY <3>1 DEF Writer
  <2>2. CASE WriterStep \/ Around
    BY <2>1, <2>2, TogoSteps DEF WriterStep, Around, Run
  <2>3. CASE Returned \/ UNCHANGED vars
    BY <2>1, <2>3, TogoStutters DEF Returned
  <2> QED  BY <2>2, <2>3 DEF Next
<1> QED  BY <1>1, <1>2, PTL DEF Spec

\* write_windows_togo: a drive that can boot has the Windows it boots into,
\* also one that was pulled out of a flash that failed.
THEOREM BootAlwaysAfterWindows == Spec => []BootAfterWindows
<1>1. (Writer = "togo" => TogoInv) => BootAfterWindows
  BY DEF BootAfterWindows, Togo!BootAfterWindows, TogoInv, TogoDrive
<1> QED  BY <1>1, TogoInvariant, PTL
=============================================================================
