------------------------------ MODULE DdProofs ------------------------------
(***************************************************************************)
(* What holds of write_image for any sizes of drive, image and chunk, any  *)
(* short writes and any number of blocks that the drive stores wrong.      *)
(***************************************************************************)
EXTENDS Writers, TLAPS

-----------------------------------------------------------------------------
(* The inductive invariant                                                 *)

Opened == {"tail", "copy", "write", "sync", "verify", "close"}
DdFaulty == {"close", "end"}

DdBase ==
  /\ pc \in Dd!Labels /\ exception \in {"no", "Stopped", "error"}
  /\ outcome \in {"running", "done", "stopped", "raised"} /\ asked \in BOOLEAN
  /\ volume \in [Volumes -> {"absent", "new", "idle", "mounted"}]
  /\ mounts = {} /\ kept = {} /\ automounts \in 0 .. MaxAutomounts

\* Nothing is held but the fd, and that from open_device to its end; it keeps
\* the desktop off.  An exception leads straight to what cleans up.
DdHolds ==
  /\ fd = IF pc \in Opened THEN "disk" ELSE "no"
  /\ \A v \in Volumes \ {"old"} : volume[v] = "absent"
  /\ pc \in Opened \cup {"open"} => fd = "no" \/ volume["old"] # "mounted"
  /\ exception # "no" => pc \in DdFaulty
  /\ exception = "Stopped" => asked
  /\ outcome # "running" => pc = "end"
  /\ outcome = "done" => exception = "no"

DdTypes ==
  /\ size \in DriveSizes /\ total \in ImageSizes /\ verify \in BOOLEAN
  /\ size \in Nat /\ total \in Nat /\ total > 0
  /\ drive \in [1 .. size -> {"old", "zero", "image", "bad"}]
  /\ done \in 0 .. total /\ pos \in 0 .. total
  /\ faults \in 0 .. MaxFaults /\ askedAt \in 0 .. total

\* How far the copy and the comparison are.
DdPlace ==
  /\ pc \in {"resolve", "unmount", "open", "tail"} => done = 0 /\ pos = 0
  /\ pc = "copy" => pos = done
  /\ pc = "write" => done <= pos /\ pos < Dd!ChunkEnd
  /\ pc = "sync" => done = total /\ pos = total
  /\ pc = "verify" => verify /\ pos = total /\ \A b \in 1 .. done : b <= size /\ drive[b] = "image"
  /\ pc \in {"close", "end"} /\ exception = "no" =>
       pos = total /\ (verify => \A b \in 1 .. total : b <= size /\ drive[b] = "image")

\* What the blocks are.
DdBlocks ==
  /\ \A b \in 1 .. pos : b <= size /\ drive[b] \in {"image", "bad"}
  /\ Dd!BetweenLeftAlone

\* After an interrupt the chunk under way is the last one.
DdStop ==
  asked => /\ pos <= askedAt + CHUNK
           /\ pc = "write" => done <= askedAt

DdInv == DdBase /\ DdHolds /\ DdTypes /\ DdPlace /\ DdBlocks /\ DdStop

-----------------------------------------------------------------------------
(* Lemmas                                                                  *)

\* ChunkEnd is past what is done, while something is left, and not too far.
LEMMA ChunkBounds ==
  ASSUME DdTypes
  PROVE  /\ CHUNK \in Nat /\ TAIL \in Nat /\ MaxFaults \in Nat
         /\ Dd!ChunkEnd \in Nat /\ Dd!ChunkEnd <= total /\ Dd!ChunkEnd <= done + CHUNK
         /\ done < total => done < Dd!ChunkEnd
         /\ done = total => Dd!ChunkEnd = total
<1>1. CHUNK \in Nat \ {0} /\ TAIL \in Nat /\ MaxFaults \in Nat
  BY WritersAssumption DEF WritersAssumption
<1> QED  BY <1>1 DEF DdTypes, Dd!ChunkEnd

\* Where an exception goes.
LEMMA DdHandlers ==
  ASSUME NEW at \in Dd!Labels
  PROVE  /\ at \in {"resolve", "unmount", "open"} => Dd!Handler[at] = "end"
         /\ at \notin {"resolve", "unmount", "open"} => Dd!Handler[at] = "close"
BY DEF Dd!Handler

LEMMA DdStarts == Dd!Init => DdInv
<1> SUFFICES ASSUME Dd!Init PROVE DdInv
  OBVIOUS
<1>1. /\ pc = "resolve" /\ exception = "no" /\ outcome = "running" /\ asked = FALSE
      /\ mounts = {} /\ fd = "no" /\ kept = {} /\ automounts = 0
      /\ size \in DriveSizes /\ total \in ImageSizes /\ verify \in BOOLEAN
      /\ drive = [b \in 1 .. size |-> "old"]
      /\ done = 0 /\ pos = 0 /\ faults = 0 /\ askedAt = 0
  BY DEF Dd!Init, Dd!BaseInit
<1>2. PICK s \in {"idle", "mounted"} : volume = [v \in Volumes |-> IF v = "old" THEN s ELSE "absent"]
  BY DEF Dd!Init, Dd!BaseInit, Dd!Volumes, Volumes
<1>3. /\ size \in Nat /\ total \in Nat /\ total > 0 /\ TAIL \in Nat /\ MaxFaults \in Nat
      /\ MaxAutomounts \in Nat
  BY <1>1, WritersAssumption, AutomountsAssumption DEF WritersAssumption, AutomountsAssumption
<1>a. volume \in [Volumes -> {"absent", "new", "idle", "mounted"}]
  BY <1>2
<1>b. 0 \in 0 .. MaxAutomounts
  BY <1>3
<1>4. DdBase
  BY <1>1, <1>a, <1>b DEF DdBase, Dd!Labels
<1>5. DdHolds
  BY <1>1, <1>2 DEF DdHolds, Opened
<1>6. DdTypes /\ DdPlace
  BY <1>1, <1>3 DEF DdTypes, DdPlace
<1>7. DdBlocks
  BY <1>1, <1>3 DEF DdBlocks, Dd!BetweenLeftAlone, Dd!Blocks
<1>8. DdStop
  BY <1>1 DEF DdStop
<1> QED  BY <1>4, <1>5, <1>6, <1>7, <1>8 DEF DdInv

-----------------------------------------------------------------------------
(* The steps                                                               *)

\* What a step that is no exception leaves alone.
DdSame == UNCHANGED <<exception, outcome, asked, automounts, mounts, kept>>

\* Before the copy: resolve, unmount_all, open_device.
LEMMA DdBefore ==
  ASSUME DdInv, Dd!Resolve \/ Dd!Unmounting \/ Dd!OpenDisk
  PROVE  DdInv'
<1>1. /\ DdSame /\ UNCHANGED <<size, total, verify, drive, done, pos, faults, askedAt>>
      /\ pc \in {"resolve", "unmount", "open"}
  BY DEF Dd!Resolve, Dd!Unmounting, Dd!OpenDisk, Dd!Plain, Dd!UnmountAll, Dd!OpenDevice, Dd!Goes,
         Dd!Same, Dd!Keep, Dd!writerVars, DdSame
<1>2. /\ pc' = IF pc = "resolve" THEN "unmount" ELSE IF pc = "unmount" THEN "open" ELSE "tail"
      /\ fd' = IF pc = "open" THEN "disk" ELSE fd
      /\ volume' = IF pc = "unmount" THEN [volume EXCEPT !["old"] = "idle"] ELSE volume
      /\ pc = "open" => volume["old"] # "mounted"
  BY DEF Dd!Resolve, Dd!Unmounting, Dd!OpenDisk, Dd!Plain, Dd!UnmountAll, Dd!OpenDevice, Dd!Goes,
         Dd!Set
<1>3. DdBase'
  BY <1>1, <1>2 DEF DdInv, DdBase, DdSame, Dd!Labels, Volumes
<1>4. DdHolds'
  BY <1>1, <1>2 DEF DdInv, DdBase, DdHolds, DdSame, Opened, Volumes, DdFaulty
<1>5. DdTypes' /\ DdPlace' /\ DdStop'
  BY <1>1, <1>2 DEF DdInv, DdTypes, DdPlace, DdStop, DdSame
<1>6. DdBlocks'
  BY <1>1 DEF DdInv, DdBlocks, Dd!BetweenLeftAlone, Dd!Blocks
<1> QED  BY <1>3, <1>4, <1>5, <1>6 DEF DdInv

\* Once the disk is open, what a step may move: the label and the writer's own.
LEMMA DdWithin ==
  ASSUME DdInv, DdSame, UNCHANGED <<volume, fd>>, pc \in Opened \ {"close"}, pc' \in Opened
  PROVE  DdBase' /\ DdHolds'
<1>1. DdBase'
  BY DEF DdInv, DdBase, DdSame, Opened, Dd!Labels
<1>2. DdHolds'
  BY DEF DdInv, DdHolds, DdSame, Opened, DdFaulty
<1> QED  BY <1>1, <1>2

\* A tail that is wiped begins behind the image.
LEMMA DdTail ==
  ASSUME DdInv, Dd!WipeTail
  PROVE  DdInv'
<1>1. /\ DdSame /\ UNCHANGED <<volume, fd, size, total, verify, askedAt, done, pos, faults>>
      /\ pc = "tail" /\ pc' = "copy"
      /\ drive' = IF size > total + TAIL
                  THEN [b \in 1 .. size |-> IF b > size - TAIL THEN "zero" ELSE drive[b]]
                  ELSE drive
  BY DEF Dd!WipeTail, Dd!Plain, Dd!Goes, Dd!Same, Dd!Counts, DdSame, Dd!Blocks
<1>2. DdBase' /\ DdHolds'
  BY <1>1, DdWithin DEF Opened
<1>3. DdTypes'
  BY <1>1 DEF DdInv, DdTypes
<1>4. DdPlace' /\ DdStop'
  BY <1>1 DEF DdInv, DdPlace, DdStop, DdSame
<1>5. DdBlocks'
  <2>1. pos' = 0
    BY <1>1 DEF DdInv, DdPlace
  <2>2. Dd!BetweenLeftAlone'
    BY <1>1, ChunkBounds DEF DdInv, DdTypes, DdBlocks, Dd!BetweenLeftAlone, Dd!Blocks
  <2> QED  BY <2>1, <2>2 DEF DdBlocks
<1> QED  BY <1>2, <1>3, <1>4, <1>5 DEF DdInv

LEMMA DdRead ==
  ASSUME DdInv, Dd!ReadChunk
  PROVE  DdInv'
<1>1. /\ DdSame /\ UNCHANGED <<volume, fd, size, total, verify, drive, askedAt, done, pos, faults>>
      /\ pc = "copy" /\ pc' = (IF done < total THEN "write" ELSE "sync")
      /\ done < total => ~asked
  BY DEF Dd!ReadChunk, Dd!Plain, Dd!Goes, Dd!Same, Dd!Keep, Dd!writerVars, DdSame
<1>2. DdBase' /\ DdHolds'
  BY <1>1, DdWithin DEF Opened
<1>3. DdTypes' /\ DdBlocks'
  BY <1>1 DEF DdInv, DdTypes, DdBlocks, Dd!BetweenLeftAlone, Dd!Blocks
<1>4. DdPlace'
  <2>1. Dd!ChunkEnd' = Dd!ChunkEnd
    BY <1>1 DEF Dd!ChunkEnd
  <2> QED  BY <1>1, <2>1, ChunkBounds DEF DdInv, DdTypes, DdPlace
<1>5. DdStop'
  BY <1>1 DEF DdInv, DdStop, DdSame, DdTypes
<1> QED  BY <1>2, <1>3, <1>4, <1>5 DEF DdInv

\* A write, short or whole, stored right or wrong.
LEMMA DdWrites ==
  ASSUME DdInv, Dd!Write
  PROVE  DdInv'
<1>1. PICK n \in 1 .. (Dd!ChunkEnd - pos) :
        /\ pos + n <= size
        /\ \/ drive' = [b \in Dd!Blocks |-> Dd!Stored(n, b)] /\ UNCHANGED faults
           \/ /\ faults < MaxFaults /\ faults' = faults + 1
              /\ drive' = [b \in Dd!Blocks |-> IF b = pos + n THEN "bad" ELSE Dd!Stored(n, b)]
        /\ pos' = pos + n
        /\ IF pos + n = Dd!ChunkEnd
           THEN Dd!Plain("write", "copy") /\ done' = Dd!ChunkEnd
           ELSE Dd!Plain("write", "write") /\ UNCHANGED done
  BY DEF Dd!Write
<1>2. /\ DdSame /\ UNCHANGED <<volume, fd, size, total, verify, askedAt>> /\ pc = "write"
      /\ pc' = (IF pos + n = Dd!ChunkEnd THEN "copy" ELSE "write")
      /\ done' = (IF pos + n = Dd!ChunkEnd THEN Dd!ChunkEnd ELSE done)
  BY <1>1 DEF Dd!Write, Dd!Plain, Dd!Goes, Dd!Same, Dd!Counts, DdSame
<1>3. /\ n \in Nat /\ n > 0 /\ pos \in Nat /\ pos + n <= Dd!ChunkEnd /\ Dd!ChunkEnd <= total
      /\ Dd!ChunkEnd <= done + CHUNK /\ done <= pos /\ done \in Nat /\ CHUNK \in Nat
      /\ Dd!ChunkEnd \in Nat /\ size \in Nat /\ total \in Nat /\ MaxFaults \in Nat
  BY <1>1, <1>2, ChunkBounds DEF DdInv, DdTypes, DdPlace
<1>4. DdBase' /\ DdHolds'
  BY <1>2, DdWithin DEF Opened
<1>5. /\ \A b \in 1 .. size : drive'[b] = IF b \in (pos + 1) .. (pos + n)
                                          THEN drive'[b] ELSE drive[b]
      /\ \A b \in (pos + 1) .. (pos + n) : drive'[b] \in {"image", "bad"}
      /\ drive' \in [1 .. size -> {"old", "zero", "image", "bad"}]
      /\ faults' \in 0 .. MaxFaults
  BY <1>1, <1>3 DEF DdInv, DdTypes, Dd!Stored, Dd!Blocks
<1>6. DdTypes'
  BY <1>1, <1>2, <1>3, <1>5 DEF DdInv, DdTypes
<1>7. DdPlace'
  <2>1. CASE pos + n = Dd!ChunkEnd
    BY <1>1, <1>2, <1>3, <2>1 DEF DdPlace
  <2>2. CASE pos + n # Dd!ChunkEnd
    <3>1. Dd!ChunkEnd' = Dd!ChunkEnd
      BY <1>2, <2>2 DEF Dd!ChunkEnd
    <3> QED  BY <1>1, <1>2, <1>3, <2>2, <3>1 DEF DdPlace
  <2> QED  BY <2>1, <2>2
<1>8. DdBlocks'
  <2>1. \A b \in 1 .. pos' : b <= size' /\ drive'[b] \in {"image", "bad"}
    BY <1>1, <1>2, <1>3, <1>5 DEF DdInv, DdBlocks
  <2>2. Dd!BetweenLeftAlone'
    BY <1>2, <1>3, <1>5 DEF DdInv, DdBlocks, Dd!BetweenLeftAlone, Dd!Blocks
  <2> QED  BY <2>1, <2>2 DEF DdBlocks
<1>9. DdStop'
  <2>1. askedAt \in Nat
    BY DEF DdInv, DdTypes
  <2> QED  BY <1>1, <1>2, <1>3, <2>1 DEF DdInv, DdStop, DdSame
<1> QED  BY <1>4, <1>6, <1>7, <1>8, <1>9 DEF DdInv

LEMMA DdSyncs ==
  ASSUME DdInv, Dd!Sync
  PROVE  DdInv'
<1>1. /\ DdSame /\ UNCHANGED <<volume, fd, size, total, verify, drive, askedAt, pos, faults>>
      /\ pc = "sync" /\ pc' = (IF verify THEN "verify" ELSE "close")
      /\ done' = (IF verify THEN 0 ELSE done)
  BY DEF Dd!Sync, Dd!Plain, Dd!Goes, Dd!Same, Dd!Counts, DdSame
<1>2. DdBase' /\ DdHolds'
  BY <1>1, DdWithin DEF Opened
<1>3. DdTypes' /\ DdBlocks'
  BY <1>1 DEF DdInv, DdTypes, DdBlocks, Dd!BetweenLeftAlone, Dd!Blocks
<1>4. DdPlace'
  BY <1>1 DEF DdInv, DdPlace, DdTypes
<1>5. DdStop'
  BY <1>1 DEF DdInv, DdStop, DdSame
<1> QED  BY <1>2, <1>3, <1>4, <1>5 DEF DdInv

LEMMA DdCompares ==
  ASSUME DdInv, Dd!Compare
  PROVE  DdInv'
<1>1. /\ DdSame /\ UNCHANGED <<volume, fd, size, total, verify, drive, askedAt, pos, faults>>
      /\ pc = "verify" /\ pc' = (IF done < total THEN "verify" ELSE "close")
      /\ done' = (IF done < total THEN Dd!ChunkEnd ELSE done)
      /\ done < total => Dd!Equal(done + 1, Dd!ChunkEnd)
  BY DEF Dd!Compare, Dd!Plain, Dd!Goes, Dd!Same, Dd!Counts, DdSame
<1>2. DdBase' /\ DdHolds'
  BY <1>1, DdWithin DEF Opened
<1>3. DdTypes' /\ DdBlocks'
  BY <1>1, ChunkBounds DEF DdInv, DdTypes, DdBlocks, Dd!BetweenLeftAlone, Dd!Blocks
<1>4. DdPlace'
  <2>1. verify /\ pos = total /\ \A b \in 1 .. done : b <= size /\ drive[b] = "image"
    BY <1>1 DEF DdInv, DdPlace
  <2>2. CASE done < total
    <3>1. \A b \in (done + 1) .. Dd!ChunkEnd : b <= size /\ drive[b] = "image"
      BY <1>1, <2>2, ChunkBounds DEF DdInv, DdTypes, Dd!Equal, Dd!Blocks
    <3>2. \A b \in 1 .. Dd!ChunkEnd : b <= size /\ drive[b] = "image"
      BY <2>1, <3>1, ChunkBounds DEF DdInv, DdTypes
    <3> QED  BY <1>1, <2>1, <2>2, <3>2 DEF DdPlace
  <2>3. CASE ~(done < total)
    <3>1. done = total
      BY <2>3 DEF DdInv, DdTypes
    <3> QED  BY <1>1, <2>1, <2>3, <3>1 DEF DdPlace
  <2> QED  BY <2>2, <2>3
<1>5. DdStop'
  BY <1>1 DEF DdInv, DdStop, DdSame
<1> QED  BY <1>2, <1>3, <1>4, <1>5 DEF DdInv

\* The end: the fd is closed, the function returns.
LEMMA DdCloses ==
  ASSUME DdInv, Dd!CloseDisk \/ Dd!Return
  PROVE  DdInv'
<1>1. UNCHANGED <<exception, asked, automounts, mounts, kept, volume, size, total, verify, drive,
                  askedAt, done, pos, faults>>
  BY DEF Dd!CloseDisk, Dd!CloseDevice, Dd!Return, Dd!Returns, Dd!Goes, Dd!Same, Dd!Keep,
         Dd!writerVars
<1>2. \/ pc = "close" /\ pc' = "end" /\ fd' = "no" /\ outcome' = outcome
      \/ pc = "end" /\ pc' = "end" /\ fd' = fd /\ outcome = "running"
         /\ outcome' = (CASE exception = "no" -> "done" [] exception = "Stopped" -> "stopped"
                          [] exception = "error" -> "raised")
  BY DEF Dd!CloseDisk, Dd!CloseDevice, Dd!Return, Dd!Returns, Dd!Goes, Dd!Same
<1>3. exception \in {"no", "Stopped", "error"}
  BY DEF DdInv, DdBase
<1>4. DdBase'
  BY <1>1, <1>2, <1>3 DEF DdInv, DdBase, Dd!Labels
<1>5. DdHolds'
  BY <1>1, <1>2, <1>3 DEF DdInv, DdHolds, Opened, DdFaulty
<1>6. DdTypes' /\ DdBlocks'
  BY <1>1 DEF DdInv, DdTypes, DdBlocks, Dd!BetweenLeftAlone, Dd!Blocks
<1>7. DdPlace' /\ DdStop'
  BY <1>1, <1>2 DEF DdInv, DdPlace, DdStop
<1> QED  BY <1>4, <1>5, <1>6, <1>7 DEF DdInv

LEMMA DdBreaks ==
  ASSUME DdInv, Dd!Breaks
  PROVE  DdInv'
<1>1. /\ UNCHANGED <<outcome, asked, automounts, mounts, kept, volume, fd, size, total, verify, drive,
                     askedAt, done, pos, faults>>
      /\ exception' \in {"error", "Stopped"} /\ (exception' = "Stopped" => asked)
      /\ pc \in Dd!Labels \ {"close", "end"} /\ pc' = Dd!Handler[pc]
  BY DEF Dd!Breaks, Dd!Fails, Dd!Stops, Dd!Throws, Dd!Keep, Dd!writerVars, Dd!Failing, Dd!Cleanup,
         Dd!Labels
<1>2. /\ pc \in {"resolve", "unmount", "open"} => pc' = "end"
      /\ pc \notin {"resolve", "unmount", "open"} => pc' = "close"
  BY <1>1, DdHandlers
<1>3. DdBase'
  BY <1>1, <1>2 DEF DdInv, DdBase, Dd!Labels
<1>4. DdHolds'
  BY <1>1, <1>2 DEF DdInv, DdHolds, Opened, DdFaulty, Dd!Labels
<1>5. DdTypes' /\ DdBlocks'
  BY <1>1 DEF DdInv, DdTypes, DdBlocks, Dd!BetweenLeftAlone, Dd!Blocks
<1>6. DdPlace' /\ DdStop'
  BY <1>1, <1>2 DEF DdInv, DdPlace, DdStop
<1> QED  BY <1>3, <1>4, <1>5, <1>6 DEF DdInv

\* The user and the desktop.
LEMMA DdAround ==
  ASSUME DdInv, Dd!Around
  PROVE  DdInv'
<1>1. CASE Dd!Interrupt /\ askedAt' = pos
           /\ UNCHANGED <<size, total, verify, drive, done, pos, faults>>
  <2>1. /\ asked' = TRUE /\ UNCHANGED <<pc, exception, outcome, volume, mounts, fd, kept, automounts>>
    BY <1>1 DEF Dd!Interrupt
  <2>2. DdBase' /\ DdHolds'
    BY <2>1 DEF DdInv, DdBase, DdHolds
  <2>3. DdTypes' /\ DdBlocks'
    BY <1>1 DEF DdInv, DdTypes, DdBlocks, Dd!BetweenLeftAlone, Dd!Blocks
  <2>4. DdPlace'
    BY <1>1, <2>1 DEF DdInv, DdPlace, Dd!ChunkEnd
  <2>5. DdStop'
    BY <1>1, <2>1, ChunkBounds DEF DdInv, DdStop, DdTypes, DdPlace
  <2> QED  BY <2>2, <2>3, <2>4, <2>5 DEF DdInv
<1>2. CASE \E v \in Dd!Volumes : (Dd!Probe(v) \/ Dd!Automount(v)) /\ Dd!Keep
  <2>1. PICK v \in Dd!Volumes : (Dd!Probe(v) \/ Dd!Automount(v)) /\ Dd!Keep
    BY <1>2
  <2>2. /\ UNCHANGED <<pc, exception, outcome, asked, mounts, fd, kept, size, total, verify, drive,
                       askedAt, done, pos, faults>>
        /\ v \in Volumes /\ volume[v] \in {"new", "idle"}
        /\ volume' \in {[volume EXCEPT ![v] = "idle"], [volume EXCEPT ![v] = "mounted"]}
        /\ volume'[v] = "mounted" /\ volume[v] = "idle" => ~(v # "loop" /\ (fd = "disk" \/ fd = v))
    BY <2>1 DEF Dd!Probe, Dd!Automount, Dd!Claimed, Dd!Keep, Dd!writerVars, Dd!Volumes, Volumes, DdInv,
                DdBase
  <2>3. automounts' \in 0 .. MaxAutomounts
    BY <2>1, AutomountsAssumption DEF Dd!Probe, Dd!Automount, DdInv, DdBase, AutomountsAssumption
  <2>4. v = "old"
    BY <2>2 DEF DdInv, DdHolds
  <2>5. DdBase'
    BY <2>2, <2>3 DEF DdInv, DdBase
  <2>6. DdHolds'
    <3>1. \A w \in Volumes \ {"old"} : volume'[w] = "absent"
      BY <2>2, <2>4 DEF DdInv, DdHolds, DdBase
    <3>2. fd = "disk" => volume'["old"] # "mounted"
      <4>1. volume'["old"] \in {"idle", "mounted"} /\ (volume[v] = "new" => volume'[v] = "idle")
        BY <2>1, <2>2, <2>4 DEF DdInv, DdBase, Dd!Probe, Dd!Automount
      <4> QED  BY <2>2, <2>4, <4>1
    <3> QED  BY <2>2, <3>1, <3>2 DEF DdInv, DdHolds, Opened
  <2>7. DdTypes' /\ DdBlocks' /\ DdPlace' /\ DdStop'
    BY <2>2 DEF DdInv, DdTypes, DdBlocks, DdPlace, DdStop, Dd!BetweenLeftAlone, Dd!Blocks, Dd!ChunkEnd
  <2> QED  BY <2>5, <2>6, <2>7 DEF DdInv
<1> QED  BY <1>1, <1>2 DEF Dd!Around

LEMMA DdSteps == DdInv /\ (Dd!WriterStep \/ Dd!Around) => DdInv'
<1> SUFFICES ASSUME DdInv, Dd!WriterStep \/ Dd!Around PROVE DdInv'
  OBVIOUS
<1> QED  BY DdBefore, DdTail, DdRead, DdWrites, DdSyncs, DdCompares, DdCloses, DdBreaks, DdAround
            DEF Dd!WriterStep

LEMMA DdStutters ==
  ASSUME DdInv, UNCHANGED vars
  PROVE  DdInv'
<1>1. UNCHANGED <<pc, exception, outcome, asked, volume, mounts, fd, kept, automounts,
                  size, total, verify, drive, askedAt, done, pos, faults>>
  BY DEF vars, baseVars, ddVars
<1>2. DdBase' /\ DdHolds' /\ DdTypes' /\ DdPlace' /\ DdStop'
  BY <1>1 DEF DdInv, DdBase, DdHolds, DdTypes, DdPlace, DdStop, Dd!ChunkEnd
<1>3. DdBlocks'
  BY <1>1 DEF DdInv, DdBlocks, Dd!BetweenLeftAlone, Dd!Blocks
<1> QED  BY <1>2, <1>3 DEF DdInv

\* write_image: where the thread stands, the fd, the counts and the blocks of
\* the drive fit each other at every step.
THEOREM DdInvariant == Spec => [](Writer = "dd" => DdInv)
<1> DEFINE Inv == Writer = "dd" => DdInv
<1>1. Init => Inv
  BY DdStarts DEF Init
<1>2. Inv /\ [Next]_vars => Inv'
  <2> SUFFICES ASSUME Inv, [Next]_vars, Writer' = "dd" PROVE DdInv'
    OBVIOUS
  <2>1. Writer = "dd"
    <3>1. UNCHANGED <<os_idx, wtg>>
      BY DEF Next, WriterStep, Around, Returned, Run, vars
    <3> QED  BY <3>1 DEF Writer
  <2>2. CASE WriterStep \/ Around
    BY <2>1, <2>2, DdSteps DEF WriterStep, Around, Run
  <2>3. CASE Returned \/ UNCHANGED vars
    BY <2>1, <2>3, DdStutters DEF Returned
  <2> QED  BY <2>2, <2>3 DEF Next
<1> QED  BY <1>1, <1>2, PTL DEF Spec

\* verify_image: after a verified flash every block of the image is on the
\* drive, whatever the drive stored at first.
THEOREM VerifiedAlwaysRight == Spec => []VerifiedIsRight
<1>1. (Writer = "dd" => DdInv) => VerifiedIsRight
  <2> SUFFICES ASSUME DdInv, outcome = "done", verify
               PROVE  total <= size /\ \A b \in 1 .. total : drive[b] = "image"
    BY DEF VerifiedIsRight, Dd!VerifiedIsRight
  <2>1. /\ \A b \in 1 .. total : b <= size /\ drive[b] = "image"
        /\ total \in 1 .. total
    BY DEF DdInv, DdHolds, DdPlace, DdTypes
  <2> QED  BY <2>1
<1> QED  BY <1>1, DdInvariant, PTL

\* copy_image: nothing but the image and the tail is ever written.
THEOREM BetweenAlwaysLeftAlone == Spec => []BetweenLeftAlone
<1>1. (Writer = "dd" => DdInv) => BetweenLeftAlone
  BY DEF BetweenLeftAlone, DdInv, DdBlocks
<1> QED  BY <1>1, DdInvariant, PTL

\* copy_image: an interrupt lets at most the chunk under way be written.
THEOREM StopsWithinChunk == Spec => []StopWithinChunk
<1>1. (Writer = "dd" => DdInv) => StopWithinChunk
  BY DEF StopWithinChunk, Dd!StopWithinChunk, DdInv, DdStop
<1> QED  BY <1>1, DdInvariant, PTL
=============================================================================
