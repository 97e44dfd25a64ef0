------------------------------ MODULE WinProofs ------------------------------
(***************************************************************************)
(* What holds of write_windows, whatever call of it fails and wherever it  *)
(* is stopped, however often the desktop mounts something in between.      *)
(*                                                                         *)
(* An ISO whose install image has a name that is not in lower case is      *)
(* left out (NoOddCase): its flash succeeds without it.                    *)
(***************************************************************************)
EXTENDS Writers, TLAPS

NoOddCase == "oddcase" \notin Images

-----------------------------------------------------------------------------
(* The inductive invariant                                                 *)

\* The labels at which the ISO is attached, the disk open, the volume mounted.
WinIso == {"findloop", "mountloop", "rest", "image", "split", "remove", "export", "resplit",
           "unwork", "unmountloop", "deleteloop"}
WinOpen == {"core", "boot", "close"}
WinMounted == {"loop", "sync", "finish"} \cup WinIso
WinGrub == {"grub", "open", "core", "boot"}
WinUntouched == {"resolve", "unmount", "format"}

WinBase ==
  /\ pc \in Win!Labels /\ exception \in {"no", "Stopped", "error"}
  /\ outcome \in {"running", "done", "stopped", "raised"} /\ asked \in BOOLEAN
  /\ volume \in [Volumes -> {"absent", "new", "idle", "mounted"}]
  /\ mounts \subseteq {"part", "loop"} /\ kept \subseteq {"part", "loop"}
  /\ automounts \in 0 .. MaxAutomounts
  /\ scheme \in Schemes /\ image \in Images /\ drive \subseteq Win!Contents
  /\ dirty \in BOOLEAN /\ work \in BOOLEAN

\* An exception leads to what cleans up, and the function returns at the end.
WinFlow ==
  /\ exception # "no" => pc \in Win!Cleanup
  /\ exception = "Stopped" => asked
  /\ outcome # "running" => pc = "end"
  /\ outcome = "done" => exception = "no"

\* What the writer has taken of the system's, and where it still has it: past
\* its cleanup only what the system would not take back.
WinHolds ==
  /\ \A v \in mounts : volume[v] = "mounted"
  /\ "part" \in mounts => pc \in WinMounted \/ (pc = "end" /\ "part" \in kept)
  /\ "part" \in kept => pc = "end" /\ "part" \in mounts
  /\ "loop" \in mounts => pc \in WinIso \ {"findloop", "mountloop"} \/ "loop" \in kept
  /\ "loop" \in mounts /\ pc = "deleteloop" => "loop" \in kept
  /\ volume["loop"] # "absent" <=> pc \in WinIso \/ "loop" \in kept
  /\ "loop" \in kept =>
       /\ pc \in {"deleteloop", "sync", "finish", "close", "end"} \cup WinGrub
       /\ pc = "deleteloop" => "loop" \in mounts
  /\ work # FALSE => pc \in {"resplit", "unwork"}

\* The fd of the disk, and that it keeps the desktop off.
WinExclusive ==
  /\ fd = IF pc \in WinOpen THEN "disk" ELSE "no"
  /\ volume["esp"] = "absent" /\ volume["win"] = "absent"
  /\ pc \notin WinUntouched \cup {"end"} => volume["old"] = "absent"
  /\ pc \in WinOpen => volume["part"] # "mounted"

\* What is on the drive, step after step while nothing went wrong; the boot
\* sector only over all the rest.
WinDrive ==
  /\ exception = "no" /\ pc \notin WinUntouched => "table" \in drive
  /\ exception = "no" /\ pc \notin WinUntouched \cup {"create", "flags", "find", "mount", "loop",
                                                     "findloop", "mountloop", "rest"}
       => "rest" \in drive
  /\ exception = "no" /\ pc \in {"unwork", "unmountloop", "deleteloop", "sync", "finish", "close", "end"}
                               \cup WinGrub
       => (image # "none" => drive \cap {"image", "pieces"} # {})
  /\ exception = "no" /\ "stale pieces" \in drive => pc = "remove"
  /\ pc \in WinGrub => dirty = FALSE /\ scheme = "mbr"
  /\ pc = "boot" => "core" \in drive
  /\ exception = "no" /\ pc \in {"close", "finish", "end"} =>
       dirty = FALSE /\ (scheme = "mbr" => {"core", "mbr"} \subseteq drive)
  /\ exception = "no" /\ pc = "close" => scheme = "mbr"
  /\ "mbr" \in drive => pc \in {"close", "finish", "end"} /\ Win!Complete

WinInv == WinBase /\ WinFlow /\ WinHolds /\ WinExclusive /\ WinDrive

-----------------------------------------------------------------------------
(* Lemmas                                                                  *)

\* Where an exception goes.
LEMMA WinHandlers ==
  ASSUME NEW at \in Win!Labels
  PROVE  /\ at \in {"find", "mount", "loop", "sync", "grub", "open"} => Win!Handler[at] = "finish"
         /\ at \in {"findloop", "mountloop", "rest", "image", "split", "remove"} =>
              Win!Handler[at] = "unmountloop"
         /\ at \in {"export", "resplit"} => Win!Handler[at] = "unwork"
         /\ at \in {"core", "boot"} => Win!Handler[at] = "close"
         /\ at \in {"resolve", "unmount", "format", "create", "flags"} => Win!Handler[at] = "end"
BY DEF Win!Handler, Win!Labels

\* What a step that is no exception leaves alone.
WinSame == UNCHANGED <<exception, outcome, asked, automounts, scheme, image>>
WinSystem == UNCHANGED <<volume, mounts, fd, kept>>

\* The moves between labels that leave the system's things alone.
WinMoves ==
  \/ pc = "resolve" /\ pc' = "unmount"
  \/ pc = "flags" /\ pc' = "find"
  \/ pc = "find" /\ pc' = "mount"
  \/ pc = "findloop" /\ pc' = "mountloop"
  \/ pc = "rest" /\ pc' = "image"
  \/ pc = "image" /\ pc' \in {"split", "unmountloop"}
  \/ pc = "split" /\ pc' \in {"remove", "unmountloop"}
  \/ pc = "remove" /\ pc' = "export"
  \/ pc = "export" /\ pc' = "resplit"
  \/ pc = "resplit" /\ pc' = "unwork"
  \/ pc = "unwork" /\ pc' = "unmountloop"
  \/ pc = "grub" /\ pc' = "open"
  \/ pc = "core" /\ pc' = "boot"
  \/ pc = "boot" /\ pc' = "close"
  \/ pc = "finish" /\ pc' = "end" /\ "part" \notin mounts

\* They keep what is held in step with the label.
LEMMA WinMoved ==
  ASSUME WinInv, WinSame, WinSystem, WinMoves,
         drive' \subseteq Win!Contents, dirty' \in BOOLEAN, work' \in BOOLEAN,
         work' # FALSE => pc' \in {"resplit", "unwork"}
  PROVE  WinBase' /\ WinFlow' /\ WinHolds' /\ WinExclusive'
<1>1. WinBase'
  BY DEF WinInv, WinBase, WinSame, WinSystem, WinMoves, Win!Labels
<1>2. WinFlow'
  BY DEF WinInv, WinFlow, WinSame, WinMoves, Win!Cleanup
<1>3. WinHolds'
  BY DEF WinInv, WinHolds, WinSystem, WinMoves, WinMounted, WinIso, WinGrub
<1>4. WinExclusive'
  BY DEF WinInv, WinExclusive, WinSystem, WinMoves, WinOpen, WinUntouched
<1> QED  BY <1>1, <1>2, <1>3, <1>4

\* The moves between labels that leave the drive alone.
WinAhead ==
  \/ pc = "resolve" /\ pc' = "unmount"
  \/ pc = "unmount" /\ pc' = "format"
  \/ pc = "create" /\ pc' \in {"flags", "find"}
  \/ pc = "flags" /\ pc' = "find"
  \/ pc = "find" /\ pc' \in {"mount", "loop"}
  \/ pc = "mount" /\ pc' = "loop"
  \/ pc = "loop" /\ pc' = "findloop"
  \/ pc = "findloop" /\ pc' \in {"mountloop", "rest"}
  \/ pc = "mountloop" /\ pc' = "rest"
  \/ pc = "image" /\ pc' = "split"
  \/ pc = "image" /\ pc' = "unmountloop" /\ image = "none"
  \/ pc = "export" /\ pc' = "resplit"
  \/ pc = "unwork" /\ pc' = "unmountloop"
  \/ pc = "unmountloop" /\ pc' = "deleteloop"
  \/ pc = "deleteloop" /\ pc' = IF exception = "no" THEN "sync" ELSE "finish"
  \/ pc = "grub" /\ pc' = "open"
  \/ pc = "open" /\ pc' = "core"
  \/ pc = "close" /\ pc' = "finish"
  \/ pc = "finish" /\ pc' = "end"

LEMMA WinDriveKept ==
  ASSUME WinInv, WinSame, WinAhead, UNCHANGED <<drive, dirty>>
  PROVE  WinDrive'
<1>1. UNCHANGED <<exception, scheme, image, drive, dirty>>
  BY DEF WinSame
<1>2. Win!Complete' <=> Win!Complete
  BY <1>1 DEF Win!Complete
<1>3. exception' = "no" /\ pc' \notin WinUntouched => "table" \in drive'
  <2>1. pc \notin WinUntouched \/ pc' \in WinUntouched
    BY DEF WinAhead, WinUntouched
  <2> QED  BY <1>1, <2>1 DEF WinInv, WinDrive
<1>4. /\ exception' = "no" /\ pc' \notin WinUntouched \cup {"create", "flags", "find", "mount", "loop",
                                                         "findloop", "mountloop", "rest"}
           => "rest" \in drive'
      /\ exception' = "no" /\ pc' \in {"unwork", "unmountloop", "deleteloop", "sync", "finish", "close",
                                      "end"} \cup WinGrub
           => (image' # "none" => drive' \cap {"image", "pieces"} # {})
  BY <1>1 DEF WinInv, WinDrive, WinAhead, WinUntouched, WinGrub
<1>5. /\ exception' = "no" /\ "stale pieces" \in drive' => pc' = "remove"
      /\ pc' \in WinGrub => dirty' = FALSE /\ scheme' = "mbr"
      /\ pc' = "boot" => "core" \in drive'
      /\ exception' = "no" /\ pc' = "close" => scheme' = "mbr"
  BY <1>1 DEF WinInv, WinDrive, WinAhead, WinGrub
<1>6. exception' = "no" /\ pc' \in {"close", "finish", "end"} =>
        dirty' = FALSE /\ (scheme' = "mbr" => {"core", "mbr"} \subseteq drive')
  BY <1>1 DEF WinInv, WinDrive, WinAhead
<1>7. "mbr" \in drive' => pc' \in {"close", "finish", "end"} /\ Win!Complete'
  BY <1>1, <1>2 DEF WinInv, WinDrive, WinAhead
<1> QED  BY <1>3, <1>4, <1>5, <1>6, <1>7 DEF WinDrive

LEMMA WinStarts == Win!Init => WinInv
<1> SUFFICES ASSUME Win!Init PROVE WinInv
  OBVIOUS
<1>1. /\ pc = "resolve" /\ exception = "no" /\ outcome = "running" /\ asked = FALSE
      /\ mounts = {} /\ fd = "no" /\ kept = {} /\ automounts = 0
      /\ scheme \in Schemes /\ image \in Images /\ drive = {} /\ dirty = FALSE /\ work = FALSE
  BY DEF Win!Init, Win!BaseInit
<1>2. PICK s \in {"idle", "mounted"} : volume = [v \in Volumes |-> IF v = "old" THEN s ELSE "absent"]
  BY DEF Win!Init, Win!BaseInit, Win!Volumes, Volumes
<1>3. volume \in [Volumes -> {"absent", "new", "idle", "mounted"}]
  BY <1>2
<1>4. 0 \in 0 .. MaxAutomounts
  BY AutomountsAssumption DEF AutomountsAssumption
<1>5. WinBase
  BY <1>1, <1>3, <1>4 DEF WinBase, Win!Labels
<1>6. WinFlow /\ WinDrive
  BY <1>1 DEF WinFlow, WinDrive, WinUntouched, WinGrub
<1>7. volume["loop"] = "absent" /\ volume["esp"] = "absent" /\ volume["win"] = "absent"
  BY <1>2 DEF Volumes
<1>8. WinHolds /\ WinExclusive
  BY <1>1, <1>7 DEF WinHolds, WinExclusive, WinOpen, WinUntouched, WinIso
<1> QED  BY <1>5, <1>6, <1>8 DEF WinInv

-----------------------------------------------------------------------------
(* The steps                                                               *)

\* What neither touches the system's things nor the drive.
LEMMA WinIdles ==
  ASSUME NoOddCase, WinInv,
         \/ Win!Resolve \/ Win!SetActive \/ Win!NoImage \/ Win!TooBig \/ Win!Repack
         \/ Win!RemoveWork \/ Win!GrubImages
         \/ Win!FindIdle("find", "mount", "part") /\ Win!Keep
         \/ Win!FindIdle("findloop", "mountloop", "loop") /\ Win!Keep
  PROVE  WinInv'
<1>1. /\ WinSame /\ WinSystem /\ UNCHANGED <<drive, dirty>>
      /\ \/ pc = "resolve" /\ pc' = "unmount" /\ work' = work
         \/ pc = "flags" /\ pc' = "find" /\ work' = work
         \/ pc = "find" /\ pc' = "mount" /\ work' = work
         \/ pc = "findloop" /\ pc' = "mountloop" /\ work' = work
         \/ pc = "image" /\ pc' = "unmountloop" /\ work' = work /\ image \in {"none", "oddcase"}
         \/ pc = "image" /\ pc' = "split" /\ work' = work
         \/ pc = "export" /\ pc' = "resplit" /\ work' = TRUE
         \/ pc = "unwork" /\ pc' = "unmountloop" /\ work' = FALSE
         \/ pc = "grub" /\ pc' = "open" /\ work' = work
  BY DEF Win!Resolve, Win!SetActive, Win!NoImage, Win!TooBig, Win!Repack, Win!RemoveWork,
         Win!GrubImages, Win!FindIdle, Win!Plain, Win!Goes, Win!Same, Win!Keep, Win!writerVars,
         WinSame, WinSystem
<1>2. image # "oddcase"
  BY DEF NoOddCase, WinInv, WinBase
<1>3. WinMoves /\ WinAhead
  BY <1>1, <1>2 DEF WinMoves, WinAhead
<1>4. work' \in BOOLEAN /\ (work' # FALSE => pc' \in {"resplit", "unwork"})
  <2>1. work \in BOOLEAN /\ (work # FALSE => pc \in {"resplit", "unwork"})
    BY DEF WinInv, WinBase, WinHolds
  <2> QED  BY <1>1, <2>1
<1>5. drive' \subseteq Win!Contents /\ dirty' \in BOOLEAN
  BY <1>1 DEF WinInv, WinBase
<1>6. WinBase' /\ WinFlow' /\ WinHolds' /\ WinExclusive'
  BY <1>1, <1>3, <1>4, <1>5, WinMoved
<1>7. WinDrive'
  BY <1>1, <1>3, WinDriveKept
<1> QED  BY <1>6, <1>7 DEF WinInv

\* The files.
LEMMA WinFills ==
  ASSUME WinInv,
         \/ Win!CopyRest \/ Win!CopyImage \/ Win!Split \/ Win!CannotSplit \/ Win!SplitRepacked
         \/ Win!RemovePieces
  PROVE  WinInv'
<1>1. /\ WinSame /\ WinSystem /\ work' = work /\ dirty' = TRUE
      /\ \/ pc = "rest" /\ pc' = "image" /\ drive' = drive \cup {"rest"}
         \/ pc = "image" /\ pc' = "unmountloop" /\ drive' = drive \cup {"image"}
         \/ pc = "split" /\ pc' = "unmountloop" /\ drive' = drive \cup {"pieces"}
         \/ pc = "split" /\ pc' = "remove" /\ drive' = drive \cup {"stale pieces"}
         \/ pc = "resplit" /\ pc' = "unwork" /\ drive' = drive \cup {"pieces"}
         \/ pc = "remove" /\ pc' = "export" /\ drive' = drive \ {"stale pieces"}
  BY DEF Win!CopyRest, Win!CopyImage, Win!Split, Win!CannotSplit, Win!SplitRepacked,
         Win!RemovePieces, Win!Writes, Win!Puts, Win!Plain, Win!Goes, Win!Same, WinSame, WinSystem
<1>2. WinMoves
  BY <1>1 DEF WinMoves
<1>3. work' \in BOOLEAN /\ (work' # FALSE => pc' \in {"resplit", "unwork"})
  BY <1>1 DEF WinInv, WinBase, WinHolds
<1>4. drive' \subseteq Win!Contents /\ dirty' \in BOOLEAN
  BY <1>1 DEF WinInv, WinBase, Win!Contents
<1>5. WinBase' /\ WinFlow' /\ WinHolds' /\ WinExclusive'
  BY <1>1, <1>2, <1>3, <1>4, WinMoved
<1>6. exception = "no" /\ exception' = "no" /\ image' = image /\ scheme' = scheme
  BY <1>1 DEF WinInv, WinBase, WinFlow, Win!Cleanup, WinSame
<1>7. "mbr" \notin drive /\ "mbr" \notin drive'
  BY <1>1 DEF WinInv, WinDrive
<1>8. WinDrive'
  BY <1>1, <1>6, <1>7 DEF WinInv, WinDrive, WinUntouched, WinGrub
<1> QED  BY <1>5, <1>8 DEF WinInv

\* GRUB: its core, then its boot sector, over a drive that has the rest.
LEMMA WinBoots ==
  ASSUME WinInv, Win!WriteCore \/ Win!WriteBoot
  PROVE  WinInv'
<1>1. /\ WinSame /\ WinSystem /\ work' = work /\ dirty' = dirty
      /\ \/ pc = "core" /\ pc' = "boot" /\ drive' = drive \cup {"core"}
         \/ pc = "boot" /\ pc' = "close" /\ drive' = drive \cup {"mbr"}
  BY DEF Win!WriteCore, Win!WriteBoot, Win!Puts, Win!Plain, Win!Goes, Win!Same, WinSame, WinSystem
<1>2. WinMoves
  BY <1>1 DEF WinMoves
<1>3. work' \in BOOLEAN /\ (work' # FALSE => pc' \in {"resplit", "unwork"})
  BY <1>1 DEF WinInv, WinBase, WinHolds
<1>4. drive' \subseteq Win!Contents /\ dirty' \in BOOLEAN
  BY <1>1 DEF WinInv, WinBase, Win!Contents
<1>5. WinBase' /\ WinFlow' /\ WinHolds' /\ WinExclusive'
  BY <1>1, <1>2, <1>3, <1>4, WinMoved
<1>6. /\ exception = "no" /\ exception' = "no" /\ image' = image /\ scheme' = scheme
      /\ "mbr" \notin drive /\ dirty = FALSE /\ scheme = "mbr"
  BY <1>1 DEF WinInv, WinBase, WinFlow, Win!Cleanup, WinSame, WinDrive, WinGrub
<1>7. /\ {"table", "rest"} \subseteq drive /\ "stale pieces" \notin drive
      /\ image # "none" => drive \cap {"image", "pieces"} # {}
      /\ pc = "boot" => "core" \in drive
  BY <1>1, <1>6 DEF WinInv, WinDrive, WinUntouched, WinGrub
<1>8. ASSUME pc' = "close" PROVE Win!Complete'
  <2>1. drive' = drive \cup {"mbr"} /\ pc = "boot" /\ dirty' = FALSE
    BY <1>1, <1>6, <1>8
  <2>2. {"table", "rest"} \subseteq drive' /\ "stale pieces" \notin drive' /\ {"core", "mbr"} \subseteq drive'
    BY <1>7, <2>1
  <2>3. image' # "none" => drive' \cap {"image", "pieces"} # {}
    BY <1>6, <1>7, <2>1
  <2> QED  BY <2>1, <2>2, <2>3 DEF Win!Complete
<1>9. WinDrive'
  BY <1>1, <1>6, <1>7, <1>8 DEF WinDrive, WinUntouched, WinGrub
<1> QED  BY <1>5, <1>9 DEF WinInv

\* Before the files: unmount_all and make_volume.
LEMMA WinFormats ==
  ASSUME WinInv, Win!Unmounting \/ Win!FormatDisk \/ Win!CreatePartition
  PROVE  WinInv'
<1>1. /\ WinSame /\ UNCHANGED <<mounts, fd, kept, dirty, work>>
      /\ pc \in {"unmount", "format", "create"}
  BY DEF Win!Unmounting, Win!UnmountAll, Win!FormatDisk, Win!Format, Win!CreatePartition,
         Win!Appears, Win!Puts, Win!Goes, Win!Same, Win!Keep, Win!writerVars, WinSame
<1>2. /\ pc = "unmount" => /\ pc' = "format" /\ drive' = drive
                           /\ volume' = [volume EXCEPT !["old"] = "idle"]
      /\ pc = "format" => /\ pc' = "create" /\ drive' = drive \cup {"table"}
                          /\ volume' = [v \in Volumes |-> IF v \in {"old"} THEN "absent" ELSE volume[v]]
      /\ pc = "create" => /\ pc' \in {"find", "flags"} /\ drive' = drive
                          /\ volume' = [volume EXCEPT !["part"] = "new"]
  BY DEF Win!Unmounting, Win!UnmountAll, Win!FormatDisk, Win!Format, Win!CreatePartition,
         Win!Appears, Win!Set, Win!Puts, Win!Goes, Win!Keep, Win!writerVars, Win!Volumes, Volumes
<1>3. mounts = {} /\ kept = {} /\ work = FALSE /\ volume["loop"] = "absent"
  <2>1. "part" \notin mounts /\ "part" \notin kept /\ "loop" \notin kept
    BY <1>1 DEF WinInv, WinHolds, WinMounted, WinIso, WinGrub
  <2>2. "loop" \notin mounts /\ volume["loop"] = "absent"
    BY <1>1, <2>1 DEF WinInv, WinHolds, WinIso
  <2>3. work = FALSE
    BY <1>1 DEF WinInv, WinHolds
  <2> QED  BY <2>1, <2>2, <2>3 DEF WinInv, WinBase
<1>4. /\ volume' \in [Volumes -> {"absent", "new", "idle", "mounted"}]
      /\ \A v \in {"loop", "esp", "win"} : volume'[v] = volume[v]
      /\ pc = "format" => volume'["old"] = "absent"
      /\ pc = "create" => volume'["old"] = volume["old"]
  BY <1>1, <1>2 DEF WinInv, WinBase, Volumes
<1>5. WinBase'
  BY <1>1, <1>2, <1>4 DEF WinInv, WinBase, WinSame, Win!Labels, Win!Contents
<1>6. WinFlow'
  BY <1>1, <1>2 DEF WinInv, WinFlow, WinSame, Win!Cleanup
<1>7. WinHolds'
  BY <1>1, <1>2, <1>3, <1>4 DEF WinHolds, WinIso
<1>8. WinExclusive'
  BY <1>1, <1>2, <1>4 DEF WinInv, WinExclusive, WinOpen, WinUntouched
<1>9. WinDrive'
  <2>1. CASE pc # "format"
    <3>1. WinAhead
      BY <1>1, <1>2, <2>1 DEF WinAhead
    <3> QED  BY <1>1, <1>2, <2>1, <3>1, WinDriveKept
  <2>2. CASE pc = "format"
    <3>1. "mbr" \notin drive /\ "stale pieces" \notin drive /\ exception' = exception
      BY <1>1, <2>2 DEF WinInv, WinDrive, WinFlow, Win!Cleanup, WinSame, WinBase
    <3> QED  BY <1>1, <1>2, <2>2, <3>1 DEF WinDrive, WinUntouched, WinGrub
  <2> QED  BY <2>1, <2>2
<1> QED  BY <1>5, <1>6, <1>7, <1>8, <1>9 DEF WinInv

\* The volume, and the ISO behind its loop device, are mounted.
LEMMA WinMounts ==
  ASSUME WinInv,
         \/ Win!FindMounted("find", "loop", "part") /\ Win!Keep
         \/ Win!FindMounted("findloop", "rest", "loop") /\ Win!Keep
         \/ Win!MountPart \/ Win!MountLoop
  PROVE  WinInv'
<1>1. /\ WinSame /\ UNCHANGED <<fd, kept, drive, dirty, work>>
      /\ \/ /\ pc \in {"find", "mount"} /\ pc' = "loop" /\ mounts' = mounts \cup {"part"}
            /\ volume' \in {volume, [volume EXCEPT !["part"] = "mounted"]}
            /\ volume' = volume => volume["part"] = "mounted"
         \/ /\ pc \in {"findloop", "mountloop"} /\ pc' = "rest" /\ mounts' = mounts \cup {"loop"}
            /\ volume' \in {volume, [volume EXCEPT !["loop"] = "mounted"]}
            /\ volume' = volume => volume["loop"] = "mounted"
  BY DEF Win!FindMounted, Win!MountPart, Win!MountLoop, Win!Mount, Win!Set, Win!Goes, Win!Same,
         Win!Keep, Win!writerVars, WinSame, WinInv, WinBase, Volumes
<1>2. volume' \in [Volumes -> {"absent", "new", "idle", "mounted"}]
  BY <1>1 DEF WinInv, WinBase, Volumes
<1>3. /\ pc' = "loop" => volume'["part"] = "mounted" /\ volume'["loop"] = volume["loop"]
      /\ pc' = "rest" => volume'["loop"] = "mounted" /\ volume'["part"] = volume["part"]
      /\ \A v \in {"old", "esp", "win"} : volume'[v] = volume[v]
  BY <1>1 DEF WinInv, WinBase, Volumes
<1>4. WinBase'
  BY <1>1, <1>2 DEF WinInv, WinBase, WinSame, Win!Labels
<1>5. WinFlow'
  BY <1>1 DEF WinInv, WinFlow, WinSame, Win!Cleanup
<1>6. WinHolds'
  BY <1>1, <1>3 DEF WinInv, WinBase, WinHolds, WinMounted, WinIso, WinGrub
<1>7. WinExclusive'
  BY <1>1, <1>3 DEF WinInv, WinExclusive, WinOpen, WinUntouched
<1>8. WinAhead
  BY <1>1 DEF WinAhead
<1>9. WinDrive'
  BY <1>1, <1>8, WinDriveKept
<1> QED  BY <1>4, <1>5, <1>6, <1>7, <1>9 DEF WinInv

\* The loop device comes.
LEMMA WinAttaches ==
  ASSUME WinInv, Win!AttachLoop
  PROVE  WinInv'
<1>1. /\ WinSame /\ UNCHANGED <<mounts, fd, kept, drive, dirty, work>>
      /\ pc = "loop" /\ pc' = "findloop" /\ volume' = [volume EXCEPT !["loop"] = "new"]
  BY DEF Win!AttachLoop, Win!Appears, Win!Set, Win!Goes, Win!Same, Win!Keep, Win!writerVars, WinSame
<1>2. /\ volume' \in [Volumes -> {"absent", "new", "idle", "mounted"}]
      /\ volume'["loop"] = "new" /\ \A v \in Volumes \ {"loop"} : volume'[v] = volume[v]
  BY <1>1 DEF WinInv, WinBase, Volumes
<1>3. "loop" \notin mounts /\ "loop" \notin kept /\ "part" \notin kept
  BY <1>1 DEF WinInv, WinHolds, WinIso, WinGrub
<1>4. WinBase' /\ WinFlow'
  BY <1>1, <1>2 DEF WinInv, WinBase, WinFlow, WinSame, Win!Labels, Win!Cleanup
<1>5. WinHolds'
  BY <1>1, <1>2, <1>3 DEF WinInv, WinBase, WinHolds, WinMounted, WinIso, WinGrub, Volumes
<1>6. WinExclusive'
  BY <1>1, <1>2 DEF WinInv, WinExclusive, WinOpen, WinUntouched, Volumes
<1>7. WinAhead
  BY <1>1 DEF WinAhead
<1>8. WinDrive'
  BY <1>1, <1>7, WinDriveKept
<1> QED  BY <1>4, <1>5, <1>6, <1>8 DEF WinInv

\* mounted_iso's end: unmount, then the loop device, either of which may stay.
LEMMA WinUnmounts ==
  ASSUME WinInv, Win!UnmountLoop
  PROVE  WinInv'
<1>1. /\ WinSame /\ UNCHANGED <<fd, drive, dirty, work>>
      /\ pc = "unmountloop" /\ pc' = "deleteloop"
      /\ \/ /\ volume["loop"] = "mounted" /\ volume' = [volume EXCEPT !["loop"] = "idle"]
            /\ mounts' = mounts \ {"loop"} /\ kept' = kept
         \/ /\ kept' = (IF "loop" \in mounts THEN kept \cup {"loop"} ELSE kept)
            /\ volume' = volume /\ mounts' = mounts
  BY DEF Win!UnmountLoop, Win!TryUnmount, Win!Set, Win!Goes, Win!Same, Win!Keep, Win!writerVars,
         WinSame
<1>2. /\ volume' \in [Volumes -> {"absent", "new", "idle", "mounted"}]
      /\ volume'["loop"] = "absent" <=> volume["loop"] = "absent"
      /\ \A v \in Volumes \ {"loop"} : volume'[v] = volume[v]
      /\ "loop" \in mounts' => volume' = volume
  BY <1>1 DEF WinInv, WinBase, Volumes
<1>3. "loop" \notin kept /\ "part" \notin kept
  BY <1>1 DEF WinInv, WinHolds, WinIso, WinGrub
<1>4. WinBase' /\ WinFlow'
  BY <1>1, <1>2 DEF WinInv, WinBase, WinFlow, WinSame, Win!Labels, Win!Cleanup
<1>5. WinHolds'
  BY <1>1, <1>2, <1>3 DEF WinInv, WinBase, WinHolds, WinMounted, WinIso, WinGrub, Volumes
<1>6. WinExclusive'
  BY <1>1, <1>2 DEF WinInv, WinExclusive, WinOpen, WinUntouched, Volumes
<1>7. WinAhead
  BY <1>1 DEF WinAhead
<1>8. WinDrive'
  BY <1>1, <1>7, WinDriveKept
<1> QED  BY <1>4, <1>5, <1>6, <1>8 DEF WinInv

LEMMA WinDeletes ==
  ASSUME WinInv, Win!DeleteIso
  PROVE  WinInv'
<1>1. /\ WinSame /\ UNCHANGED <<mounts, fd, drive, dirty, work>>
      /\ pc = "deleteloop" /\ pc' = (IF exception = "no" THEN "sync" ELSE "finish")
      /\ \/ /\ volume["loop"] # "mounted" /\ volume' = [volume EXCEPT !["loop"] = "absent"]
            /\ kept' = kept
         \/ kept' = kept \cup {"loop"} /\ volume' = volume
  BY DEF Win!DeleteIso, Win!DeleteLoop, Win!Set, Win!Goes, Win!Same, Win!Keep, Win!writerVars,
         WinSame
<1>2. /\ volume' \in [Volumes -> {"absent", "new", "idle", "mounted"}]
      /\ volume' = volume \/ volume'["loop"] = "absent"
      /\ \A v \in Volumes \ {"loop"} : volume'[v] = volume[v]
  BY <1>1 DEF WinInv, WinBase, Volumes
<1>3. "part" \notin kept /\ ("loop" \in mounts => "loop" \in kept)
      /\ ("loop" \in kept => "loop" \in mounts /\ volume["loop"] = "mounted")
  BY <1>1 DEF WinInv, WinHolds, WinIso, WinGrub
<1>5. WinBase' /\ WinFlow'
  BY <1>1, <1>2 DEF WinInv, WinBase, WinFlow, WinSame, Win!Labels, Win!Cleanup
<1>6. WinHolds'
  BY <1>1, <1>2, <1>3 DEF WinInv, WinBase, WinHolds, WinMounted, WinIso, WinGrub, Volumes
<1>7. WinExclusive'
  BY <1>1, <1>2 DEF WinInv, WinExclusive, WinOpen, WinUntouched, Volumes
<1>8. WinAhead
  BY <1>1 DEF WinAhead
<1>9. WinDrive'
  BY <1>1, <1>8, WinDriveKept
<1> QED  BY <1>5, <1>6, <1>7, <1>9 DEF WinInv

\* The unmount whose error counts: after it the drive has all that was copied.
LEMMA WinSyncs ==
  ASSUME WinInv, Win!Sync
  PROVE  WinInv'
<1>1. /\ WinSame /\ UNCHANGED <<fd, kept, drive, work>> /\ dirty' = FALSE
      /\ pc = "sync" /\ pc' = (IF scheme = "mbr" THEN "grub" ELSE "finish")
      /\ volume' = [volume EXCEPT !["part"] = "idle"] /\ mounts' = mounts \ {"part"}
  BY DEF Win!Sync, Win!Unmount, Win!Set, Win!Goes, Win!Same, WinSame
<1>2. /\ volume' \in [Volumes -> {"absent", "new", "idle", "mounted"}]
      /\ \A v \in Volumes \ {"part"} : volume'[v] = volume[v]
  BY <1>1 DEF WinInv, WinBase, Volumes
<1>3. "part" \notin kept
  BY <1>1 DEF WinInv, WinHolds
<1>4. WinBase' /\ WinFlow'
  BY <1>1, <1>2 DEF WinInv, WinBase, WinFlow, WinSame, Win!Labels, Win!Cleanup
<1>5. WinHolds'
  BY <1>1, <1>2, <1>3 DEF WinInv, WinBase, WinHolds, WinMounted, WinIso, WinGrub, Volumes
<1>6. WinExclusive'
  BY <1>1, <1>2 DEF WinInv, WinExclusive, WinOpen, WinUntouched, Volumes
<1>7. exception = "no" /\ exception' = "no" /\ image' = image /\ scheme' = scheme /\ "mbr" \notin drive
  BY <1>1 DEF WinInv, WinBase, WinFlow, Win!Cleanup, WinSame, WinDrive
<1>8. WinDrive'
  BY <1>1, <1>7 DEF WinInv, WinDrive, WinUntouched, WinGrub
<1> QED  BY <1>4, <1>5, <1>6, <1>8 DEF WinInv

\* The disk is opened for itself, and closed.
LEMMA WinOpens ==
  ASSUME WinInv, Win!OpenDisk
  PROVE  WinInv'
<1>1. /\ WinSame /\ UNCHANGED <<volume, mounts, kept, drive, dirty, work>>
      /\ pc = "open" /\ pc' = "core" /\ fd' = "disk" /\ volume["part"] # "mounted"
  BY DEF Win!OpenDisk, Win!OpenDevice, Win!Goes, Win!Same, Win!Keep, Win!writerVars, WinSame
<1>2. WinBase' /\ WinFlow'
  BY <1>1 DEF WinInv, WinBase, WinFlow, WinSame, Win!Labels, Win!Cleanup
<1>3. WinHolds'
  BY <1>1 DEF WinInv, WinBase, WinHolds, WinMounted, WinIso, WinGrub
<1>4. WinExclusive'
  BY <1>1 DEF WinInv, WinExclusive, WinOpen, WinUntouched
<1>5. WinAhead
  BY <1>1 DEF WinAhead
<1>6. WinDrive'
  BY <1>1, <1>5, WinDriveKept
<1> QED  BY <1>2, <1>3, <1>4, <1>6 DEF WinInv

LEMMA WinCloses ==
  ASSUME WinInv, Win!CloseDisk
  PROVE  WinInv'
<1>1. /\ WinSame /\ UNCHANGED <<mounts, kept, drive, dirty, work>>
      /\ pc = "close" /\ pc' = "finish" /\ fd' = "no"
      /\ volume' = [volume EXCEPT !["part"] = "new"]
  BY DEF Win!CloseDisk, Win!Set, Win!Goes, Win!Same, Win!Keep, Win!writerVars, WinSame
<1>2. /\ volume' \in [Volumes -> {"absent", "new", "idle", "mounted"}]
      /\ \A v \in Volumes \ {"part"} : volume'[v] = volume[v]
  BY <1>1 DEF WinInv, WinBase, Volumes
<1>3. "part" \notin kept /\ "part" \notin mounts
  BY <1>1 DEF WinInv, WinHolds, WinMounted, WinIso
<1>4. WinBase' /\ WinFlow'
  BY <1>1, <1>2 DEF WinInv, WinBase, WinFlow, WinSame, Win!Labels, Win!Cleanup
<1>5. WinHolds'
  BY <1>1, <1>2, <1>3 DEF WinInv, WinBase, WinHolds, WinMounted, WinIso, WinGrub, Volumes
<1>6. WinExclusive'
  BY <1>1, <1>2 DEF WinInv, WinExclusive, WinOpen, WinUntouched, Volumes
<1>7. WinAhead
  BY <1>1 DEF WinAhead
<1>8. WinDrive'
  BY <1>1, <1>7, WinDriveKept
<1> QED  BY <1>4, <1>5, <1>6, <1>8 DEF WinInv

\* The finally of the function: the volume is unmounted if it still is ours.
LEMMA WinFinishes ==
  ASSUME WinInv, Win!Finish
  PROVE  WinInv'
<1>1. /\ WinSame /\ UNCHANGED <<fd, drive, work>> /\ pc = "finish" /\ pc' = "end"
  BY DEF Win!Finish, Win!TryUnmount, Win!Plain, Win!Goes, Win!Same, Win!Keep, Win!writerVars, WinSame
<1>2. CASE "part" \notin mounts
  <2>1. UNCHANGED <<volume, mounts, kept, dirty>>
    BY <1>2 DEF Win!Finish, Win!Plain, Win!Keep, Win!writerVars
  <2>2. WinMoves /\ WinAhead /\ WinSystem
    BY <1>1, <1>2, <2>1 DEF WinMoves, WinAhead, WinSystem
  <2>3. work' = FALSE
    BY <1>1 DEF WinInv, WinHolds
  <2>4. drive' \subseteq Win!Contents /\ dirty' \in BOOLEAN
    BY <1>1, <2>1 DEF WinInv, WinBase
  <2>5. WinBase' /\ WinFlow' /\ WinHolds' /\ WinExclusive'
    BY <1>1, <2>2, <2>3, <2>4, WinMoved
  <2>6. WinDrive'
    BY <1>1, <2>1, <2>2, WinDriveKept
  <2> QED  BY <2>5, <2>6 DEF WinInv
<1>3. CASE "part" \in mounts
  <2>1. /\ \/ /\ volume["part"] = "mounted" /\ volume' = [volume EXCEPT !["part"] = "idle"]
              /\ mounts' = mounts \ {"part"} /\ kept' = kept
           \/ kept' = kept \cup {"part"} /\ volume' = volume /\ mounts' = mounts
        /\ dirty' = (dirty /\ volume'["part"] = "mounted")
    BY <1>3 DEF Win!Finish, Win!TryUnmount, Win!Set
  <2>2. /\ volume' \in [Volumes -> {"absent", "new", "idle", "mounted"}]
        /\ \A v \in Volumes \ {"part"} : volume'[v] = volume[v]
    BY <2>1 DEF WinInv, WinBase, Volumes
  <2>3. "part" \notin kept
    BY <1>1 DEF WinInv, WinHolds
  <2>4. dirty' \in BOOLEAN /\ (dirty = FALSE => dirty' = FALSE)
    BY <2>1
  <2>5. WinBase' /\ WinFlow'
    BY <1>1, <2>1, <2>2, <2>4 DEF WinInv, WinBase, WinFlow, WinSame, Win!Labels, Win!Cleanup
  <2>6. WinHolds'
    BY <1>1, <1>3, <2>1, <2>2, <2>3 DEF WinInv, WinBase, WinHolds, WinMounted, WinIso, WinGrub, Volumes
  <2>7. WinExclusive'
    BY <1>1, <2>2 DEF WinInv, WinExclusive, WinOpen, WinUntouched, Volumes
  <2>8. UNCHANGED <<exception, scheme, image, drive>>
    BY <1>1 DEF WinSame
  <2>9. "mbr" \in drive => Win!Complete'
    <3> SUFFICES ASSUME "mbr" \in drive PROVE Win!Complete'
      OBVIOUS
    <3>1. Win!Complete
      BY DEF WinInv, WinDrive
    <3>2. dirty' = FALSE
      BY <2>4, <3>1 DEF WinInv, WinBase, Win!Complete
    <3> QED  BY <2>8, <3>1, <3>2 DEF Win!Complete
  <2>10. WinDrive'
    BY <1>1, <2>4, <2>8, <2>9 DEF WinInv, WinDrive, WinUntouched, WinGrub
  <2> QED  BY <2>5, <2>6, <2>7, <2>10 DEF WinInv
<1> QED  BY <1>2, <1>3

LEMMA WinReturns ==
  ASSUME WinInv, Win!Return
  PROVE  WinInv'
<1>1. /\ UNCHANGED <<pc, exception, asked, automounts, volume, mounts, fd, kept, scheme, image,
                     drive, dirty, work>>
      /\ pc = "end" /\ outcome = "running"
      /\ outcome' = (CASE exception = "no" -> "done" [] exception = "Stopped" -> "stopped"
                       [] exception = "error" -> "raised")
  BY DEF Win!Return, Win!Returns, Win!Keep, Win!writerVars
<1>2. exception \in {"no", "Stopped", "error"}
  BY DEF WinInv, WinBase
<1>3. WinBase' /\ WinFlow'
  BY <1>1, <1>2 DEF WinInv, WinBase, WinFlow
<1>4. WinHolds' /\ WinExclusive'
  BY <1>1 DEF WinInv, WinHolds, WinExclusive
<1>5. WinDrive'
  BY <1>1 DEF WinInv, WinDrive, Win!Complete
<1> QED  BY <1>3, <1>4, <1>5 DEF WinInv

\* A call that fails, or a stop, and what of its work was done.
LEMMA WinBreaks ==
  ASSUME WinInv, Win!Breaks
  PROVE  WinInv'
<1>1. /\ UNCHANGED <<outcome, asked, volume, mounts, fd, kept, automounts, scheme, image>>
      /\ exception' \in {"error", "Stopped"} /\ (exception' = "Stopped" => asked)
      /\ pc \in Win!Labels \ Win!Cleanup /\ pc' = Win!Handler[pc]
      /\ drive' \in {drive, drive \cup Win!Halfway[pc]}
      /\ work' \in {work, work \/ pc = "export"} /\ dirty' = (dirty \/ pc \in Win!Polling)
  BY DEF Win!Breaks, Win!Fails, Win!Stops, Win!Throws, Win!Failing, Win!Polling, Win!Cleanup,
         Win!Labels
<1>2. /\ pc \in {"find", "mount", "loop", "sync", "grub", "open"} => pc' = "finish"
      /\ pc \in {"findloop", "mountloop", "rest", "image", "split", "remove"} => pc' = "unmountloop"
      /\ pc \in {"export", "resplit"} => pc' = "unwork"
      /\ pc \in {"core", "boot"} => pc' = "close"
      /\ pc \in {"resolve", "unmount", "format", "create", "flags"} => pc' = "end"
  BY <1>1, WinHandlers
<1>3. pc \in {"find", "mount", "loop", "sync", "grub", "open", "findloop", "mountloop", "rest", "image",
              "split", "remove", "export", "resplit", "core", "boot", "resolve", "unmount", "format",
              "create", "flags"}
  BY <1>1 DEF Win!Labels, Win!Cleanup
<1>4. /\ Win!Halfway[pc] \subseteq Win!Contents
      /\ "mbr" \in Win!Halfway[pc] => pc = "boot"
  BY <1>1, <1>3 DEF Win!Halfway, Win!Labels, Win!Contents
<1>5. work \in BOOLEAN /\ (work # FALSE => pc \in {"resplit", "unwork"})
  BY DEF WinInv, WinBase, WinHolds
<1>6. work' \in BOOLEAN /\ (work' # FALSE => pc' = "unwork")
  <2>1. work' \in BOOLEAN /\ (work' # FALSE => work # FALSE \/ pc = "export")
    BY <1>1, <1>5
  <2> QED  BY <1>2, <1>3, <1>5, <2>1
<1>7. dirty' \in BOOLEAN /\ (pc \in {"core", "boot"} => dirty' = FALSE)
  <2>1. dirty \in BOOLEAN /\ (pc \in {"core", "boot"} => dirty = FALSE)
    BY DEF WinInv, WinBase, WinDrive, WinGrub
  <2>2. pc \in {"core", "boot"} => pc \notin Win!Polling
    BY DEF Win!Polling
  <2> QED  BY <1>1, <2>1, <2>2
<1>8. exception = "no"
  BY <1>1 DEF WinInv, WinBase, WinFlow
<1>9. WinBase' /\ WinFlow'
  <2>1. pc' \in Win!Cleanup /\ pc' \in Win!Labels
    BY <1>2, <1>3 DEF Win!Cleanup, Win!Labels
  <2>2. drive' \subseteq Win!Contents
    BY <1>1, <1>4 DEF WinInv, WinBase
  <2>3. outcome = "running"
    BY <1>3 DEF WinInv, WinBase, WinFlow
  <2> QED  BY <1>1, <1>6, <1>7, <2>1, <2>2, <2>3 DEF WinInv, WinBase, WinFlow
<1>10. WinHolds'
  BY <1>1, <1>2, <1>3, <1>6 DEF WinInv, WinHolds, WinMounted, WinIso, WinGrub
<1>11. WinExclusive'
  BY <1>1, <1>2, <1>3 DEF WinInv, WinExclusive, WinOpen, WinUntouched
<1>12. WinDrive'
  <2>1. "mbr" \notin drive
    BY <1>3 DEF WinInv, WinDrive
  <2>2. pc' \in {"finish", "unmountloop", "unwork", "close", "end"} /\ exception' # "no"
    BY <1>1, <1>2, <1>3
  <2>3. "mbr" \in drive' => pc = "boot" /\ drive' = drive \cup {"mbr"}
    <3>1. Win!Halfway["boot"] = {"mbr"}
      BY DEF Win!Halfway, Win!Labels
    <3> QED  BY <1>1, <1>4, <2>1, <3>1
  <2>4. ASSUME "mbr" \in drive' PROVE pc' = "close" /\ Win!Complete'
    <3>1. /\ pc = "boot" /\ pc' = "close" /\ drive' = drive \cup {"mbr"} /\ dirty' = FALSE
          /\ image' = image /\ scheme' = scheme
      BY <1>1, <1>2, <1>7, <2>3, <2>4
    <3>2. /\ {"table", "rest", "core"} \subseteq drive /\ "stale pieces" \notin drive
          /\ image # "none" => drive \cap {"image", "pieces"} # {}
      BY <1>8, <3>1 DEF WinInv, WinDrive, WinUntouched, WinGrub
    <3>3. {"table", "rest", "core", "mbr"} \subseteq drive' /\ "stale pieces" \notin drive'
      BY <3>1, <3>2
    <3>4. image' # "none" => drive' \cap {"image", "pieces"} # {}
      BY <3>1, <3>2
    <3> QED  BY <3>1, <3>3, <3>4 DEF Win!Complete
  <2> QED  BY <2>2, <2>4 DEF WinDrive, WinGrub
<1> QED  BY <1>9, <1>10, <1>11, <1>12 DEF WinInv

\* The user and the desktop.
LEMMA WinAround ==
  ASSUME WinInv, Win!Around
  PROVE  WinInv'
<1>1. CASE Win!Interrupt /\ Win!Keep
  <2>1. /\ asked' = TRUE
        /\ UNCHANGED <<pc, exception, outcome, volume, mounts, fd, kept, automounts, scheme, image,
                       drive, dirty, work>>
    BY <1>1 DEF Win!Interrupt, Win!Keep, Win!writerVars
  <2>2. WinBase' /\ WinFlow'
    BY <2>1 DEF WinInv, WinBase, WinFlow
  <2>3. WinHolds' /\ WinExclusive'
    BY <2>1 DEF WinInv, WinHolds, WinExclusive
  <2>4. WinDrive'
    BY <2>1 DEF WinInv, WinDrive, Win!Complete
  <2> QED  BY <2>2, <2>3, <2>4 DEF WinInv
<1>2. CASE (\E v \in Win!Volumes : Win!Probe(v) \/ Win!Automount(v)) /\ Win!Keep
  <2>1. PICK v \in Win!Volumes : Win!Probe(v) \/ Win!Automount(v)
    BY <1>2
  <2>2. /\ UNCHANGED <<pc, exception, outcome, asked, mounts, fd, kept, scheme, image, drive, dirty,
                       work>>
        /\ v \in Volumes /\ volume[v] \in {"new", "idle"}
        /\ \/ volume' = [volume EXCEPT ![v] = "idle"]
           \/ /\ volume' = [volume EXCEPT ![v] = "mounted"]
              /\ ~(v # "loop" /\ (fd = "disk" \/ fd = v))
    BY <1>2, <2>1 DEF Win!Probe, Win!Automount, Win!Claimed, Win!Keep, Win!writerVars, Win!Volumes,
                      Volumes
  <2>3. automounts' \in 0 .. MaxAutomounts
    BY <2>1, AutomountsAssumption DEF Win!Probe, Win!Automount, WinInv, WinBase, AutomountsAssumption
  <2>4. /\ volume' \in [Volumes -> {"absent", "new", "idle", "mounted"}]
        /\ \A w \in Volumes : volume'[w] = "absent" <=> volume[w] = "absent"
        /\ \A w \in Volumes : volume[w] = "mounted" => volume'[w] = "mounted"
        /\ fd = "disk" => \A w \in Volumes \ {"loop"} : volume'[w] = "mounted" => volume[w] = "mounted"
    BY <2>2 DEF WinInv, WinBase
  <2>5. WinBase' /\ WinFlow'
    BY <2>2, <2>3, <2>4 DEF WinInv, WinBase, WinFlow
  <2>6. WinHolds'
    BY <2>2, <2>4 DEF WinInv, WinBase, WinHolds, Volumes
  <2>7. WinExclusive'
    BY <2>2, <2>4 DEF WinInv, WinBase, WinExclusive, Volumes
  <2>8. WinDrive'
    BY <2>2 DEF WinInv, WinDrive, Win!Complete
  <2> QED  BY <2>5, <2>6, <2>7, <2>8 DEF WinInv
<1> QED  BY <1>1, <1>2 DEF Win!Around

LEMMA WinSteps == NoOddCase /\ WinInv /\ (Win!WriterStep \/ Win!Around) => WinInv'
<1> SUFFICES ASSUME NoOddCase, WinInv, Win!WriterStep \/ Win!Around PROVE WinInv'
  OBVIOUS
<1>1. CASE Win!FindPart \/ Win!FindLoop
  BY <1>1, WinIdles, WinMounts DEF Win!FindPart, Win!FindLoop
<1>2. CASE ~(Win!FindPart \/ Win!FindLoop)
  BY <1>2, WinIdles, WinFills, WinBoots, WinFormats, WinMounts, WinAttaches, WinUnmounts, WinDeletes,
     WinSyncs, WinOpens, WinCloses, WinFinishes, WinReturns, WinBreaks, WinAround DEF Win!WriterStep
<1> QED  BY <1>1, <1>2

LEMMA WinStutters ==
  ASSUME WinInv, UNCHANGED vars
  PROVE  WinInv'
<1>1. UNCHANGED <<pc, exception, outcome, asked, volume, mounts, fd, kept, automounts, scheme, image,
                  drive, dirty, work>>
  BY DEF vars, baseVars, winVars
<1>2. WinBase' /\ WinFlow'
  BY <1>1 DEF WinInv, WinBase, WinFlow
<1>3. WinHolds'
  BY <1>1 DEF WinInv, WinHolds
<1>4. WinExclusive'
  BY <1>1 DEF WinInv, WinExclusive
<1>5. WinDrive'
  BY <1>1 DEF WinInv, WinDrive, Win!Complete
<1> QED  BY <1>2, <1>3, <1>4, <1>5 DEF WinInv

\* write_windows: where the thread stands, what it holds of the system and
\* what it has put on the drive fit each other at every step.
THEOREM WinInvariant == NoOddCase => (Spec => [](Writer = "win" => WinInv))
<1> SUFFICES ASSUME NoOddCase PROVE Spec => [](Writer = "win" => WinInv)
  OBVIOUS
<1> DEFINE Inv == Writer = "win" => WinInv
<1>1. Init => Inv
  BY WinStarts DEF Init
<1>2. Inv /\ [Next]_vars => Inv'
  <2> SUFFICES ASSUME Inv, [Next]_vars, Writer' = "win" PROVE WinInv'
    OBVIOUS
  <2>1. Writer = "win"
    <3>1. UNCHANGED <<os_idx, wtg>>
      BY DEF Next, WriterStep, Around, Returned, Run, vars
    <3> QED  BY <3>1 DEF Writer
  <2>2. CASE WriterStep \/ Around
    BY <2>1, <2>2, WinSteps DEF WriterStep, Around, Run
  <2>3. CASE Returned \/ UNCHANGED vars
    BY <2>1, <2>3, WinStutters DEF Returned
  <2> QED  BY <2>2, <2>3 DEF Next
<1> QED  BY <1>1, <1>2, PTL DEF Spec

\* _install_bios_boot: a drive is bootable only over complete files and a core
\* that is there, also one that was pulled out of a flash that failed.
THEOREM BootsAlwaysSomething == NoOddCase => (Spec => []BootsSomething)
<1> SUFFICES ASSUME NoOddCase PROVE Spec => []BootsSomething
  OBVIOUS
<1>1. (Writer = "win" => WinInv) => BootsSomething
  BY DEF BootsSomething, Win!BootsSomething, WinInv, WinDrive
<1> QED  BY <1>1, WinInvariant, PTL

\* _fill: however the function ends, its repacked image is gone.
THEOREM CacheAlwaysEmptied == NoOddCase => (Spec => []CacheEmptied)
<1> SUFFICES ASSUME NoOddCase PROVE Spec => []CacheEmptied
  OBVIOUS
<1>1. (Writer = "win" => WinInv) => CacheEmptied
  BY DEF CacheEmptied, Win!CacheEmptied, WinInv, WinFlow, WinHolds
<1> QED  BY <1>1, WinInvariant, PTL
=============================================================================
