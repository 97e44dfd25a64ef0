---------------------------- MODULE WritersProofs ----------------------------
(***************************************************************************)
(* Whichever writer worker_thread picks: its types, that what it writes    *)
(* past the filesystems has none of them mounted on it, and that it keeps  *)
(* the contract udisks_worker relies on.                                   *)
(***************************************************************************)
EXTENDS DdProofs, WinProofs, TogoProofs

\* The invariant of the writer that runs.
WritersInv ==
  /\ Writer = "dd" => DdInv
  /\ Writer = "win" => WinInv
  /\ Writer = "togo" => TogoInv

LEMMA WritersInvariant == NoOddCase => (Spec => []WritersInv)
<1> SUFFICES ASSUME NoOddCase PROVE Spec => []WritersInv
  OBVIOUS
<1>1. (Writer = "dd" => DdInv) /\ (Writer = "win" => WinInv) /\ (Writer = "togo" => TogoInv) => WritersInv
  BY DEF WritersInv
<1> QED  BY <1>1, DdInvariant, WinInvariant, TogoInvariant, PTL

LEMMA OneWriter == Writer \in {"dd", "win", "togo"}
BY DEF Writer

-----------------------------------------------------------------------------
(* Types and the fd                                                        *)

LEMMA DdTyped == DdInv => Dd!TypeOK
BY DEF DdInv, DdBase, DdHolds, DdTypes, Dd!TypeOK, Dd!BaseTypeOK, Dd!Volumes, Volumes, Dd!Blocks

LEMMA WinTyped == WinInv => Win!TypeOK
<1> SUFFICES ASSUME WinInv PROVE Win!TypeOK
  OBVIOUS
<1>1. fd \in {"no", "disk", "win"}
  BY DEF WinInv, WinExclusive
<1>2. mounts \subseteq Volumes /\ kept \subseteq Volumes
  BY DEF WinInv, WinBase, Volumes
<1>3. Win!BaseTypeOK
  BY <1>1, <1>2 DEF WinInv, WinBase, Win!BaseTypeOK, Win!Volumes, Volumes
<1> QED  BY <1>3 DEF WinInv, WinBase, Win!TypeOK

LEMMA TogoTyped == TogoInv => Togo!TypeOK
<1> SUFFICES ASSUME TogoInv PROVE Togo!TypeOK
  OBVIOUS
<1>1. fd \in {"no", "disk", "win"}
  BY DEF TogoInv, TogoExclusive
<1>2. mounts \subseteq Volumes /\ kept \subseteq Volumes
  BY DEF TogoInv, TogoBase, Volumes
<1>3. Togo!BaseTypeOK
  BY <1>1, <1>2 DEF TogoInv, TogoBase, Togo!BaseTypeOK, Togo!Volumes, Volumes
<1> QED  BY <1>3 DEF TogoInv, TogoBase, Togo!TypeOK

\* worker_thread: the state of the writer it picked is always of its types.
THEOREM WritersTypeCorrect == NoOddCase => (Spec => []TypeOK)
<1> SUFFICES ASSUME NoOddCase PROVE Spec => []TypeOK
  OBVIOUS
<1>1. WritersInv => TypeOK
  BY OneWriter, DdTyped, WinTyped, TogoTyped DEF WritersInv, TypeOK
<1> QED  BY <1>1, WritersInvariant, PTL

\* open_device: while a writer has the disk or a partition open for itself, no
\* filesystem on it is mounted, whatever the desktop mounts in between.
THEOREM RawAlwaysIdle == NoOddCase => (Spec => []RawMeansIdle)
<1> SUFFICES ASSUME NoOddCase PROVE Spec => []RawMeansIdle
  OBVIOUS
<1>1. DdInv => RawMeansIdle
  BY DEF DdInv, DdHolds, Opened, RawMeansIdle, Volumes
<1>2. WinInv => RawMeansIdle
  BY DEF WinInv, WinExclusive, WinOpen, WinUntouched, RawMeansIdle, Volumes
<1>3. TogoInv => RawMeansIdle
  BY DEF TogoInv, TogoExclusive
<1>4. WritersInv => RawMeansIdle
  BY <1>1, <1>2, <1>3, OneWriter DEF WritersInv
<1> QED  BY <1>4, WritersInvariant, PTL

-----------------------------------------------------------------------------
(* The contract: what a writer holds and what is on the drive              *)

Resources == Volumes \cup {"fd", "work", "tmp"}

\* What the system would not take back is held, and in the end only that.
Keeping(holds) ==
  /\ kept \subseteq holds /\ holds \subseteq Resources
  /\ pc = "end" => holds = kept

LEMMA DdHeld == DdInv => Keeping(Dd!Holds)
<1> SUFFICES ASSUME DdInv PROVE Keeping(Dd!Holds)
  OBVIOUS
<1>1. Dd!Holds = {r \in {"fd"} : fd # "no"} /\ kept = {}
  BY DEF DdInv, DdBase, DdHolds, Dd!Holds, Dd!Held, Volumes
<1>2. pc = "end" => fd = "no"
  BY DEF DdInv, DdHolds, Opened
<1> QED  BY <1>1, <1>2 DEF Keeping, Resources

LEMMA WinHeld == WinInv => Keeping(Win!Holds)
<1> SUFFICES ASSUME WinInv PROVE Keeping(Win!Holds)
  OBVIOUS
<1>1. \A r : r \in Win!Holds <=> \/ r \in mounts
                                 \/ r = "loop" /\ volume["loop"] # "absent"
                                 \/ r = "fd" /\ fd # "no"
                                 \/ r = "work" /\ work # FALSE
  <2>1. work \in BOOLEAN
    BY DEF WinInv, WinBase
  <2>2. CASE work = FALSE
    BY <2>2 DEF Win!Holds, Win!Held
  <2>3. CASE work = TRUE
    BY <2>3 DEF Win!Holds, Win!Held
  <2> QED  BY <2>1, <2>2, <2>3
<1>2. mounts \subseteq {"part", "loop"} /\ kept \subseteq {"part", "loop"}
  BY DEF WinInv, WinBase
<1>3. /\ "part" \in kept => "part" \in mounts
      /\ "loop" \in kept => volume["loop"] # "absent"
  BY DEF WinInv, WinHolds
<1>4. ASSUME pc = "end"
      PROVE  /\ mounts \subseteq kept /\ fd = "no" /\ work = FALSE
             /\ volume["loop"] # "absent" => "loop" \in kept
  BY <1>2, <1>4 DEF WinInv, WinHolds, WinExclusive, WinMounted, WinIso, WinOpen
<1> QED  BY <1>1, <1>2, <1>3, <1>4 DEF Keeping, Resources, Volumes

LEMMA TogoHeld == TogoInv => Keeping(Togo!Holds)
<1> SUFFICES ASSUME TogoInv PROVE Keeping(Togo!Holds)
  OBVIOUS
<1>1. \A r : r \in Togo!Holds <=> \/ r \in mounts
                                  \/ r = "loop" /\ volume["loop"] # "absent"
                                  \/ r = "fd" /\ fd # "no"
                                  \/ r = "tmp" /\ tmp # FALSE
  <2>1. tmp \in BOOLEAN
    BY DEF TogoInv, TogoBase
  <2>2. CASE tmp = FALSE
    BY <2>2 DEF Togo!Holds, Togo!Held
  <2>3. CASE tmp = TRUE
    BY <2>3 DEF Togo!Holds, Togo!Held
  <2> QED  BY <2>1, <2>2, <2>3
<1>2. mounts \subseteq {"esp", "loop"} /\ kept \subseteq {"esp", "loop"}
  BY DEF TogoInv, TogoBase
<1>3. /\ "esp" \in kept => "esp" \in mounts
      /\ "loop" \in kept => volume["loop"] # "absent"
  BY DEF TogoInv, TogoHolds
<1>4. ASSUME pc = "end"
      PROVE  /\ mounts \subseteq kept /\ fd = "no" /\ tmp = FALSE
             /\ volume["loop"] # "absent" => "loop" \in kept
  BY <1>2, <1>4 DEF TogoInv, TogoHolds, TogoExclusive, TogoIso, TogoTmp, TogoEsp
<1> QED  BY <1>1, <1>2, <1>3, <1>4 DEF Keeping, Resources, Volumes

\* A writer that ends without an exception has put everything on the drive.
LEMMA DdWhole ==
  ASSUME DdInv, pc = "end", exception = "no"
  PROVE  Dd!Content = "whole"
<1>1. /\ total \in Nat /\ total > 0 /\ pos = total
      /\ \A b \in 1 .. total : b <= size /\ drive[b] \in {"image", "bad"}
      /\ verify => \A b \in 1 .. total : drive[b] = "image"
  BY DEF DdInv, DdTypes, DdPlace, DdBlocks
<1>2. total <= size
  BY <1>1
<1>3. CASE verify
  <2>1. Dd!Complete
    BY <1>1, <1>2, <1>3 DEF Dd!Complete
  <2> QED  BY <2>1 DEF Dd!Content
<1>4. CASE ~verify
  <2>1. Dd!Complete
    BY <1>1, <1>2, <1>4 DEF Dd!Complete
  <2> QED  BY <2>1 DEF Dd!Content
<1> QED  BY <1>3, <1>4

LEMMA WinWhole ==
  ASSUME WinInv, pc = "end", exception = "no"
  PROVE  Win!Content = "whole"
<1>1. Win!Complete
  BY DEF WinInv, WinDrive, WinUntouched, Win!Complete
<1> QED  BY <1>1 DEF Win!Content

LEMMA TogoWhole ==
  ASSUME TogoInv, pc = "end", exception = "no"
  PROVE  Togo!Content = "whole"
<1>1. Togo!Complete
  BY DEF TogoInv, TogoDrive, TogoAfter, Togo!Complete
<1> QED  BY <1>1 DEF Togo!Content

-----------------------------------------------------------------------------
(* The contract: the steps                                                 *)

\* A step of a writer that does not return yet.
GoesOn == pc # "end" /\ UNCHANGED <<outcome, asked>> /\ kept \subseteq kept'

LEMMA DdWorks ==
  ASSUME Dd!WriterStep
  PROVE  \/ Dd!Return
         \/ /\ GoesOn
            /\ pc' \in {"resolve", "unmount", "open", "tail"} => pc \in {"resolve", "unmount", "open", "tail"}
<1>1. CASE Dd!Resolve \/ Dd!Unmounting \/ Dd!OpenDisk \/ Dd!WipeTail \/ Dd!ReadChunk \/ Dd!Sync
  BY <1>1 DEF Dd!Resolve, Dd!Unmounting, Dd!UnmountAll, Dd!OpenDisk, Dd!OpenDevice, Dd!WipeTail,
              Dd!ReadChunk, Dd!Sync, Dd!Plain, Dd!Goes, Dd!Same, GoesOn
<1>2. CASE Dd!Write \/ Dd!Compare \/ Dd!CloseDisk
  BY <1>2 DEF Dd!Write, Dd!Compare, Dd!CloseDisk, Dd!CloseDevice, Dd!Plain, Dd!Goes, Dd!Same, GoesOn
<1>3. CASE Dd!Breaks
  <2>1. /\ pc \in Dd!Labels \ Dd!Cleanup /\ pc' = Dd!Handler[pc]
        /\ UNCHANGED <<outcome, asked, kept>>
    BY <1>3 DEF Dd!Breaks, Dd!Fails, Dd!Stops, Dd!Throws, Dd!Failing, Dd!Labels, Dd!Cleanup
  <2>2. pc' \in {"end", "close"}
    BY <2>1, DdHandlers
  <2> QED  BY <2>1, <2>2 DEF GoesOn, Dd!Cleanup
<1> QED  BY <1>1, <1>2, <1>3 DEF Dd!WriterStep

\* Nothing empties a drive again that has something of the medium.
LEMMA WinWorks ==
  ASSUME WinInv, Win!WriterStep
  PROVE  \/ Win!Return
         \/ GoesOn /\ (drive # {} => drive' # {})
<1>1. CASE \/ Win!Resolve \/ Win!Unmounting \/ Win!FormatDisk \/ Win!CreatePartition \/ Win!SetActive
           \/ Win!FindPart \/ Win!MountPart \/ Win!AttachLoop \/ Win!FindLoop \/ Win!MountLoop
  BY <1>1 DEF Win!Resolve, Win!Unmounting, Win!UnmountAll, Win!FormatDisk, Win!Format,
              Win!CreatePartition, Win!SetActive, Win!FindPart, Win!MountPart, Win!AttachLoop,
              Win!FindLoop, Win!MountLoop, Win!FindMounted, Win!FindIdle, Win!Mount, Win!Appears,
              Win!Puts, Win!Keep, Win!writerVars, Win!Plain, Win!Goes, Win!Same, GoesOn
<1>2. CASE \/ Win!CopyRest \/ Win!NoImage \/ Win!CopyImage \/ Win!TooBig \/ Win!Split
           \/ Win!CannotSplit \/ Win!Repack \/ Win!SplitRepacked \/ Win!RemoveWork
  BY <1>2 DEF Win!CopyRest, Win!NoImage, Win!CopyImage, Win!TooBig, Win!Split, Win!CannotSplit,
              Win!Repack, Win!SplitRepacked, Win!RemoveWork, Win!Writes, Win!Puts, Win!Keep,
              Win!writerVars, Win!Plain, Win!Goes, Win!Same, GoesOn
<1>3. CASE Win!RemovePieces
  <2>1. /\ pc = "remove" /\ exception = "no"
        /\ drive' = drive \ {"stale pieces"} /\ UNCHANGED <<outcome, asked, kept>>
    BY <1>3 DEF Win!RemovePieces, Win!Plain, Win!Goes, Win!Same, WinInv, WinFlow, Win!Cleanup
  <2>2. "table" \in drive
    BY <2>1 DEF WinInv, WinDrive, WinUntouched
  <2>3. "table" \in drive'
    BY <2>1, <2>2
  <2>4. pc # "end" /\ outcome' = outcome /\ asked' = asked /\ kept \subseteq kept'
    BY <2>1
  <2> QED  BY <2>3, <2>4 DEF GoesOn
<1>4. CASE \/ Win!UnmountLoop \/ Win!DeleteIso \/ Win!Sync \/ Win!GrubImages \/ Win!OpenDisk
           \/ Win!WriteCore \/ Win!WriteBoot \/ Win!CloseDisk
  BY <1>4 DEF Win!UnmountLoop, Win!TryUnmount, Win!DeleteIso, Win!DeleteLoop, Win!Sync, Win!Unmount,
              Win!GrubImages, Win!OpenDisk, Win!OpenDevice, Win!WriteCore, Win!WriteBoot,
              Win!CloseDisk, Win!Puts, Win!Keep, Win!writerVars, Win!Plain, Win!Goes, Win!Same, GoesOn
<1>5. CASE Win!Finish
  BY <1>5 DEF Win!Finish, Win!TryUnmount, Win!Keep, Win!writerVars, Win!Plain, Win!Goes, Win!Same,
              GoesOn
<1>6. CASE Win!Breaks
  BY <1>6 DEF Win!Breaks, Win!Fails, Win!Stops, Win!Throws, Win!Failing, Win!Polling, Win!Labels,
              Win!Cleanup, GoesOn
<1> QED  BY <1>1, <1>2, <1>3, <1>4, <1>5, <1>6 DEF Win!WriterStep

LEMMA TogoWorks ==
  ASSUME TogoInv, Togo!WriterStep
  PROVE  \/ Togo!Return
         \/ GoesOn /\ drive \subseteq drive'
<1>1. CASE \/ Togo!Resolve \/ Togo!Unmounting \/ Togo!EmptyDisk \/ Togo!OpenForSpeed
           \/ Togo!NotOpened \/ Togo!Measured \/ Togo!GoOn \/ Togo!Refuse \/ Togo!MakeTable
           \/ Togo!MakeEsp \/ Togo!MakeWin
  BY <1>1 DEF Togo!Resolve, Togo!Unmounting, Togo!UnmountAll, Togo!EmptyDisk, Togo!Format,
              Togo!OpenForSpeed, Togo!OpenDevice, Togo!NotOpened, Togo!Measured, Togo!CloseDevice,
              Togo!GoOn, Togo!Refuse, Togo!MakeTable, Togo!MakeEsp, Togo!MakeWin, Togo!Appears,
              Togo!Puts, Togo!Keep, Togo!writerVars, Togo!Plain, Togo!Goes, Togo!Same, GoesOn
<1>2. CASE \/ Togo!OpenForGuids \/ Togo!ReadGuids \/ Togo!CloseGuids \/ Togo!AttachLoop
           \/ Togo!FindLoop \/ Togo!MountLoop \/ Togo!ExtractBoot \/ Togo!UnmountWin \/ Togo!OpenWin
  BY <1>2 DEF Togo!OpenForGuids, Togo!OpenDevice, Togo!ReadGuids, Togo!CloseGuids,
              Togo!CloseDevice, Togo!AttachLoop, Togo!Appears, Togo!FindLoop, Togo!FindMounted,
              Togo!FindIdle, Togo!HaveTmp, Togo!MountLoop, Togo!Mount, Togo!ExtractBoot,
              Togo!UnmountWin, Togo!TryUnmount, Togo!OpenWin, Togo!Keep, Togo!writerVars,
              Togo!Plain, Togo!Goes, Togo!Same, GoesOn
<1>3. CASE \/ Togo!Apply \/ Togo!SyncWin \/ Togo!CloseWin \/ Togo!FindEsp \/ Togo!MountEsp
           \/ Togo!InstallBoot \/ Togo!SyncEsp
  BY <1>3 DEF Togo!Apply, Togo!SyncWin, Togo!CloseWin, Togo!CloseDevice, Togo!FindEsp,
              Togo!FindMounted, Togo!FindIdle, Togo!MountEsp, Togo!Mount, Togo!InstallBoot,
              Togo!SyncEsp, Togo!Unmount, Togo!Puts, Togo!Keep, Togo!writerVars, Togo!Plain,
              Togo!Goes, Togo!Same, GoesOn
<1>4. CASE Togo!DropEsp \/ Togo!RemoveTmp \/ Togo!UnmountLoop \/ Togo!DeleteIso
  BY <1>4 DEF Togo!DropEsp, Togo!TryUnmount, Togo!RemoveTmp, Togo!UnmountLoop, Togo!DeleteIso,
              Togo!DeleteLoop, Togo!Keep, Togo!writerVars, Togo!Plain, Togo!Goes, Togo!Same, GoesOn
<1>5. CASE Togo!Breaks
  BY <1>5 DEF Togo!Breaks, Togo!Fails, Togo!Stops, Togo!Throws, Togo!Failing, Togo!Safe, Togo!Labels,
              GoesOn
<1> QED  BY <1>1, <1>2, <1>3, <1>4, <1>5 DEF Togo!WriterStep

\* What the contract knows of a writer, in two states of one step: in turn
\* what it is asked, what it does, and what it returns.
Kept(holds, content) ==
  /\ UNCHANGED <<outcome, kept>> /\ holds' = holds /\ content' = content
  /\ asked' \in {asked, TRUE}
Worked(holds, content) ==
  /\ outcome = "running" /\ UNCHANGED <<outcome, asked>>
  /\ holds' \subseteq Resources /\ kept \subseteq kept' /\ kept' \subseteq holds'
  /\ content' \in {"old", "partial", "whole"} /\ (content' = "old" => content = "old")
Ended(holds, content) ==
  /\ outcome = "running" /\ outcome' \in {"done", "stopped", "raised"}
  /\ outcome' = "done" => content = "whole"
  /\ outcome' = "stopped" => asked
  /\ holds = kept /\ UNCHANGED <<asked, kept>> /\ holds' = holds /\ content' = content
Keeps(holds, content) == Kept(holds, content) \/ Worked(holds, content) \/ Ended(holds, content)

LEMMA ContractStep ==
  ASSUME Keeps(Holds, Content), asked \in BOOLEAN
  PROVE  [Contract!Next]_(Contract!contractVars)
<1>1. CASE Kept(Holds, Content)
  BY <1>1 DEF Kept, Contract!Next, Contract!Ask, Contract!contractVars
<1>2. CASE Worked(Holds, Content)
  BY <1>2 DEF Worked, Resources, Contract!Next, Contract!Work
<1>3. CASE Ended(Holds, Content)
  BY <1>3 DEF Ended, Contract!Next, Contract!ReturnTrue, Contract!ReturnFalse, Contract!Raise,
              Contract!Return
<1> QED  BY <1>1, <1>2, <1>3 DEF Keeps

LEMMA DdKeeps ==
  ASSUME DdInv, DdInv', Dd!WriterStep \/ Dd!Around
  PROVE  Keeps(Dd!Holds, Dd!Content)
<1>1. CASE Dd!Around
  <2>1. /\ UNCHANGED <<pc, outcome, kept, mounts, fd, size, total, verify, drive>>
        /\ asked' \in {asked, TRUE}
    BY <1>1 DEF Dd!Around, Dd!Interrupt, Dd!Probe, Dd!Automount, Dd!Keep, Dd!writerVars
  <2>2. volume["loop"] = "absent" /\ volume'["loop"] = "absent"
    BY DEF DdInv, DdHolds, Volumes
  <2> QED  BY <2>1, <2>2 DEF Keeps, Kept, Dd!Holds, Dd!Held, Dd!Content, Dd!Complete
<1>2. CASE Dd!Return
  <2>1. /\ pc = "end" /\ outcome = "running"
        /\ outcome' = (CASE exception = "no" -> "done" [] exception = "Stopped" -> "stopped"
                         [] exception = "error" -> "raised")
        /\ UNCHANGED <<pc, asked, volume, mounts, fd, kept, size, total, verify, drive>>
    BY <1>2 DEF Dd!Return, Dd!Returns, Dd!Keep, Dd!writerVars
  <2>2. exception \in {"no", "Stopped", "error"} /\ (exception = "Stopped" => asked)
    BY DEF DdInv, DdBase, DdHolds
  <2>3. Dd!Holds' = Dd!Holds /\ Dd!Content' = Dd!Content
    BY <2>1 DEF Dd!Holds, Dd!Held, Dd!Content, Dd!Complete
  <2> QED  BY <2>1, <2>2, <2>3, DdHeld, DdWhole DEF Keeping, Keeps, Ended
<1>3. CASE Dd!WriterStep /\ ~Dd!Return
  <2>1. /\ GoesOn
        /\ pc' \in {"resolve", "unmount", "open", "tail"} => pc \in {"resolve", "unmount", "open", "tail"}
    BY <1>3, DdWorks
  <2>2. outcome = "running"
    BY <2>1 DEF GoesOn, DdInv, DdBase, DdHolds
  <2>3. Keeping(Dd!Holds)'
    BY DdHeld, PTL
  <2>4. Dd!Content' \in {"old", "partial", "whole"} /\ (Dd!Content' = "old" => Dd!Content = "old")
    BY <2>1 DEF Dd!Content
  <2> QED  BY <2>1, <2>2, <2>3, <2>4 DEF Keeping, Keeps, Worked, GoesOn, Resources, Volumes
<1> QED  BY <1>1, <1>2, <1>3

LEMMA WinKeeps ==
  ASSUME WinInv, WinInv', Win!WriterStep \/ Win!Around
  PROVE  Keeps(Win!Holds, Win!Content)
<1>1. CASE Win!Around
  <2>1. /\ UNCHANGED <<outcome, kept, mounts, fd, scheme, image, drive, dirty, work>>
        /\ asked' \in {asked, TRUE}
    BY <1>1 DEF Win!Around, Win!Interrupt, Win!Probe, Win!Automount, Win!Keep, Win!writerVars
  <2>2. volume["loop"] # "absent" <=> volume'["loop"] # "absent"
    BY <1>1 DEF Win!Around, Win!Interrupt, Win!Probe, Win!Automount, Win!Volumes, WinInv, WinBase, Volumes
  <2>3. Win!Holds' = Win!Holds
    BY <2>1, <2>2 DEF Win!Holds, Win!Held
  <2>4. Win!Content' = Win!Content
    BY <2>1 DEF Win!Content, Win!Complete
  <2> QED  BY <2>1, <2>3, <2>4 DEF Keeps, Kept
<1>2. CASE Win!Return
  <2>1. /\ pc = "end" /\ outcome = "running"
        /\ outcome' = (CASE exception = "no" -> "done" [] exception = "Stopped" -> "stopped"
                         [] exception = "error" -> "raised")
        /\ UNCHANGED <<pc, asked, volume, mounts, fd, kept, scheme, image, drive, dirty, work>>
    BY <1>2 DEF Win!Return, Win!Returns, Win!Keep, Win!writerVars
  <2>2. exception \in {"no", "Stopped", "error"} /\ (exception = "Stopped" => asked)
    BY DEF WinInv, WinBase, WinFlow
  <2>3. Win!Holds' = Win!Holds
    BY <2>1 DEF Win!Holds, Win!Held
  <2>4. Win!Content' = Win!Content
    BY <2>1 DEF Win!Content, Win!Complete
  <2> QED  BY <2>1, <2>2, <2>3, <2>4, WinHeld, WinWhole DEF Keeping, Keeps, Ended
<1>3. CASE Win!WriterStep /\ ~Win!Return
  <2>1. GoesOn /\ (drive # {} => drive' # {})
    BY <1>3, WinWorks
  <2>2. outcome = "running"
    BY <2>1 DEF GoesOn, WinInv, WinBase, WinFlow
  <2>3. Keeping(Win!Holds)'
    BY WinHeld, PTL
  <2>4. Win!Content' \in {"old", "partial", "whole"}
    BY DEF Win!Content
  <2>5. ASSUME Win!Content' = "old" PROVE Win!Content = "old"
    <3>1. drive = {}
      BY <2>1, <2>5 DEF Win!Content
    <3> QED  BY <3>1 DEF Win!Content, Win!Complete
  <2> QED  BY <2>1, <2>2, <2>3, <2>4, <2>5 DEF Keeping, Keeps, Worked, GoesOn, Resources, Volumes
<1> QED  BY <1>1, <1>2, <1>3

LEMMA TogoKeeps ==
  ASSUME TogoInv, TogoInv', Togo!WriterStep \/ Togo!Around
  PROVE  Keeps(Togo!Holds, Togo!Content)
<1>1. CASE Togo!Around
  <2>1. /\ UNCHANGED <<outcome, kept, mounts, fd, drive, cached, tmp>>
        /\ asked' \in {asked, TRUE}
    BY <1>1 DEF Togo!Around, Togo!Interrupt, Togo!Probe, Togo!Automount, Togo!Keep, Togo!writerVars
  <2>2. volume["loop"] # "absent" <=> volume'["loop"] # "absent"
    BY <1>1 DEF Togo!Around, Togo!Interrupt, Togo!Probe, Togo!Automount, Togo!Volumes, TogoInv,
                TogoBase, Volumes
  <2>3. Togo!Holds' = Togo!Holds
    BY <2>1, <2>2 DEF Togo!Holds, Togo!Held
  <2>4. Togo!Content' = Togo!Content
    BY <2>1 DEF Togo!Content, Togo!Complete
  <2> QED  BY <2>1, <2>3, <2>4 DEF Keeps, Kept
<1>2. CASE Togo!Return
  <2>1. /\ pc = "end" /\ outcome = "running"
        /\ outcome' = (CASE exception = "no" -> "done" [] exception = "Stopped" -> "stopped"
                         [] exception = "error" -> "raised")
        /\ UNCHANGED <<pc, asked, volume, mounts, fd, kept, drive, cached, tmp>>
    BY <1>2 DEF Togo!Return, Togo!Returns, Togo!Keep, Togo!writerVars
  <2>2. exception \in {"no", "Stopped", "error"} /\ (exception = "Stopped" => asked)
    BY DEF TogoInv, TogoBase, TogoFlow
  <2>3. Togo!Holds' = Togo!Holds
    BY <2>1 DEF Togo!Holds, Togo!Held
  <2>4. Togo!Content' = Togo!Content
    BY <2>1 DEF Togo!Content, Togo!Complete
  <2> QED  BY <2>1, <2>2, <2>3, <2>4, TogoHeld, TogoWhole DEF Keeping, Keeps, Ended
<1>3. CASE Togo!WriterStep /\ ~Togo!Return
  <2>1. GoesOn /\ drive \subseteq drive'
    BY <1>3, TogoWorks
  <2>2. outcome = "running"
    BY <2>1 DEF GoesOn, TogoInv, TogoBase, TogoFlow
  <2>3. Keeping(Togo!Holds)'
    BY TogoHeld, PTL
  <2>4. Togo!Content' \in {"old", "partial", "whole"}
    BY DEF Togo!Content
  <2>5. ASSUME Togo!Content' = "old" PROVE Togo!Content = "old"
    <3>1. drive = {}
      BY <2>1, <2>5 DEF Togo!Content
    <3> QED  BY <3>1 DEF Togo!Content, Togo!Complete
  <2> QED  BY <2>1, <2>2, <2>3, <2>4, <2>5 DEF Keeping, Keeps, Worked, GoesOn, Resources, Volumes
<1> QED  BY <1>1, <1>2, <1>3

-----------------------------------------------------------------------------
(* The refinement                                                          *)

LEMMA ContractStarts == Init => Contract!Init
<1> SUFFICES ASSUME Init PROVE Contract!Init
  OBVIOUS
<1>1. CASE Writer = "dd"
  <2>1. /\ outcome = "running" /\ asked = FALSE /\ mounts = {} /\ fd = "no" /\ kept = {} /\ pc = "resolve"
        /\ volume["loop"] = "absent"
    BY <1>1 DEF Init, Dd!Init, Dd!BaseInit, Dd!Volumes
  <2>2. Dd!Holds = {} /\ Dd!Content = "old"
    BY <2>1 DEF Dd!Holds, Dd!Held, Dd!Content
  <2> QED  BY <1>1, <2>1, <2>2 DEF Contract!Init, Holds, Content
<1>2. CASE Writer = "win"
  <2>1. /\ outcome = "running" /\ asked = FALSE /\ mounts = {} /\ fd = "no" /\ kept = {} /\ drive = {}
        /\ volume["loop"] = "absent" /\ work = FALSE
    BY <1>2 DEF Init, Win!Init, Win!BaseInit, Win!Volumes
  <2>2. Win!Holds = {} /\ Win!Content = "old"
    BY <2>1 DEF Win!Holds, Win!Held, Win!Content, Win!Complete
  <2> QED  BY <1>2, <2>1, <2>2 DEF Contract!Init, Holds, Content
<1>3. CASE Writer = "togo"
  <2>1. /\ outcome = "running" /\ asked = FALSE /\ mounts = {} /\ fd = "no" /\ kept = {} /\ drive = {}
        /\ volume["loop"] = "absent" /\ tmp = FALSE
    BY <1>3 DEF Init, Togo!Init, Togo!BaseInit, Togo!Volumes
  <2>2. Togo!Holds = {} /\ Togo!Content = "old"
    BY <2>1 DEF Togo!Holds, Togo!Held, Togo!Content, Togo!Complete
  <2> QED  BY <1>3, <2>1, <2>2 DEF Contract!Init, Holds, Content
<1> QED  BY <1>1, <1>2, <1>3, OneWriter

LEMMA ContractStutters ==
  ASSUME UNCHANGED vars
  PROVE  UNCHANGED Contract!contractVars
<1>1. /\ UNCHANGED <<pc, outcome, asked, volume, mounts, fd, kept, os_idx, wtg>>
      /\ UNCHANGED <<drive, size, total, verify, scheme, image, dirty, work, cached, tmp>>
  BY DEF vars, baseVars, ddVars, winVars, togoVars
<1>2. Writer' = Writer
  BY <1>1 DEF Writer
<1>3. Dd!Holds' = Dd!Holds /\ Win!Holds' = Win!Holds /\ Togo!Holds' = Togo!Holds
  BY <1>1 DEF Dd!Holds, Win!Holds, Togo!Holds, Dd!Held, Win!Held, Togo!Held
<1>4. Dd!Content' = Dd!Content /\ Win!Content' = Win!Content /\ Togo!Content' = Togo!Content
  BY <1>1 DEF Dd!Content, Dd!Complete, Win!Content, Win!Complete, Togo!Content, Togo!Complete
<1>5. Holds' = Holds /\ Content' = Content
  BY <1>2, <1>3, <1>4 DEF Holds, Content
<1> QED  BY <1>1, <1>5 DEF Contract!contractVars

LEMMA ContractSteps ==
  ASSUME WritersInv, WritersInv', [Next]_vars
  PROVE  [Contract!Next]_(Contract!contractVars)
<1>1. CASE Returned \/ UNCHANGED vars
  BY <1>1, ContractStutters DEF Returned
<1>2. CASE WriterStep \/ Around
  <2>1. Writer' = Writer
    BY <1>2 DEF WriterStep, Around, Run, Writer
  <2>2. CASE Writer = "dd"
    <3>1. DdInv /\ DdInv' /\ (Dd!WriterStep \/ Dd!Around)
      BY <1>2, <2>1, <2>2 DEF WritersInv, WriterStep, Around, Run
    <3>2. Keeps(Dd!Holds, Dd!Content)
      BY <3>1, DdKeeps
    <3>3. Holds = Dd!Holds /\ Content = Dd!Content /\ Holds' = Dd!Holds' /\ Content' = Dd!Content'
      BY <2>1, <2>2 DEF Holds, Content
    <3>4. Keeps(Holds, Content)
      BY <3>2, <3>3 DEF Keeps, Kept, Worked, Ended
    <3> QED  BY <3>1, <3>4, ContractStep DEF DdInv, DdBase
  <2>3. CASE Writer = "win"
    <3>1. WinInv /\ WinInv' /\ (Win!WriterStep \/ Win!Around)
      BY <1>2, <2>1, <2>3 DEF WritersInv, WriterStep, Around, Run
    <3>2. Keeps(Win!Holds, Win!Content)
      BY <3>1, WinKeeps
    <3>3. Holds = Win!Holds /\ Content = Win!Content /\ Holds' = Win!Holds' /\ Content' = Win!Content'
      BY <2>1, <2>3 DEF Holds, Content
    <3>4. Keeps(Holds, Content)
      BY <3>2, <3>3 DEF Keeps, Kept, Worked, Ended
    <3> QED  BY <3>1, <3>4, ContractStep DEF WinInv, WinBase
  <2>4. CASE Writer = "togo"
    <3>1. TogoInv /\ TogoInv' /\ (Togo!WriterStep \/ Togo!Around)
      BY <1>2, <2>1, <2>4 DEF WritersInv, WriterStep, Around, Run
    <3>2. Keeps(Togo!Holds, Togo!Content)
      BY <3>1, TogoKeeps
    <3>3. Holds = Togo!Holds /\ Content = Togo!Content /\ Holds' = Togo!Holds' /\ Content' = Togo!Content'
      BY <2>1, <2>4 DEF Holds, Content
    <3>4. Keeps(Holds, Content)
      BY <3>2, <3>3 DEF Keeps, Kept, Worked, Ended
    <3> QED  BY <3>1, <3>4, ContractStep DEF TogoInv, TogoBase
  <2> QED  BY <2>2, <2>3, <2>4, OneWriter
<1> QED  BY <1>1, <1>2 DEF Next

\* udisks_worker: whichever writer runs, however it fails and whenever it is
\* stopped, it is a writer as its caller expects it: True means that the whole
\* medium is on the drive, False that somebody asked for it, and what is left
\* behind the system would not take back.
THEOREM WritersKeepContract == NoOddCase => (Spec => Implements)
<1> SUFFICES ASSUME NoOddCase PROVE Spec => Implements
  OBVIOUS
<1> QED
  BY ContractStarts, ContractSteps, WritersInvariant, PTL DEF Spec, Implements, Contract!Spec
=============================================================================
