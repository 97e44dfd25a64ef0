------------------------------ MODULE DdWriter ------------------------------
(***************************************************************************)
(* Isohybrid images (universal_logic.py, write_image): the image is copied *)
(* block for block onto an fd of the whole drive, and read back if the     *)
(* user wants it verified.                                                 *)
(*                                                                         *)
(* The drive is a function of its blocks.  A write may take only a part of *)
(* what it was given, the drive may be smaller than the image, and a bad   *)
(* drive takes a block and stores another.                                 *)
(***************************************************************************)
EXTENDS WriterBase

CONSTANTS
  DriveSizes, ImageSizes,  \* in blocks
  CHUNK, TAIL,             \* in blocks: what is copied at once, what is wiped at the end
  MaxFaults                \* blocks the drive stores wrong

VARIABLES
  size, total,  \* of the drive and of the image
  verify,       \* the switch of the summary page
  drive,        \* "old", "zero", "image" (the image's block of that place) or "bad"
  done,         \* blocks of the chunks that are copied, or compared
  pos,          \* blocks written, within the chunk under way
  faults,
  askedAt       \* history: how far the copy was when it was interrupted

writerVars == <<size, total, verify, drive, done, pos, faults, askedAt>>
vars == <<baseVars, writerVars>>

Labels == {"resolve", "unmount", "open", "tail", "copy", "write", "sync", "verify", "close", "end"}
Blocks == 1 .. size

Cleanup == {"close", "end"}
Handler == [at \in Labels |-> IF at \in {"resolve", "unmount", "open"} THEN "end" ELSE "close"]

TypeOK ==
  /\ BaseTypeOK /\ pc \in Labels
  /\ size \in DriveSizes /\ total \in ImageSizes /\ verify \in BOOLEAN
  /\ drive \in [Blocks -> {"old", "zero", "image", "bad"}]
  /\ done \in 0 .. total /\ pos \in 0 .. total
  /\ faults \in 0 .. MaxFaults /\ askedAt \in 0 .. total

Init ==
  /\ BaseInit
  /\ size \in DriveSizes /\ total \in ImageSizes /\ verify \in BOOLEAN
  /\ drive = [b \in 1 .. size |-> "old"]
  /\ done = 0 /\ pos = 0 /\ faults = 0 /\ askedAt = 0

-----------------------------------------------------------------------------
Keep == UNCHANGED writerVars
Counts == UNCHANGED <<size, total, verify, askedAt>>

Resolve == Plain("resolve", "unmount") /\ Keep
Unmounting == UnmountAll("open") /\ Keep
OpenDisk == OpenDevice("open", "tail", "disk", {"old"}) /\ Keep

\* Mutant: the tail begins a block too early.
WipeOneMore ==
  /\ Plain("tail", "copy")
  /\ drive' = IF size > total + TAIL
              THEN [b \in Blocks |-> IF b >= size - TAIL THEN "zero" ELSE drive[b]]
              ELSE drive
  /\ Counts /\ UNCHANGED <<done, pos, faults>>

\* copy_image: the end of a drive that has room for it is cleared first.
WipeTail ==
  /\ Plain("tail", "copy")
  /\ drive' = IF size > total + TAIL
              THEN [b \in Blocks |-> IF b > size - TAIL THEN "zero" ELSE drive[b]]
              ELSE drive
  /\ Counts /\ UNCHANGED <<done, pos, faults>>

\* The end of the chunk that begins after `done`.
ChunkEnd == IF done + CHUNK < total THEN done + CHUNK ELSE total

\* Mutant: stopped() is not polled.
ReadUnasked == Plain("copy", IF done < total THEN "write" ELSE "sync") /\ Keep

\* src.read: a chunk, or nothing is left.
ReadChunk ==
  /\ IF done < total
     THEN ~asked /\ Plain("copy", "write")
     ELSE Plain("copy", "sync")
  /\ Keep

\* os.write: as much of the chunk as the drive takes, possibly stored wrong.
Stored(n, b) == IF b \in (pos + 1) .. (pos + n) THEN "image" ELSE drive[b]

\* Mutant: what a short write did not take is given up.
WriteOnce ==
  /\ \E n \in 1 .. (ChunkEnd - pos) :
       /\ pos + n <= size
       /\ drive' = [b \in Blocks |-> Stored(n, b)] /\ UNCHANGED faults
  /\ pos' = ChunkEnd /\ done' = ChunkEnd
  /\ Plain("write", "copy") /\ Counts
Write ==
  /\ \E n \in 1 .. (ChunkEnd - pos) :
       /\ pos + n <= size
       /\ \/ drive' = [b \in Blocks |-> Stored(n, b)] /\ UNCHANGED faults
          \/ /\ faults < MaxFaults /\ faults' = faults + 1
             /\ drive' = [b \in Blocks |-> IF b = pos + n THEN "bad" ELSE Stored(n, b)]
       /\ pos' = pos + n
       /\ IF pos + n = ChunkEnd
          THEN Plain("write", "copy") /\ done' = ChunkEnd
          ELSE Plain("write", "write") /\ UNCHANGED done
  /\ Counts

\* fsync; verify_image reads from the first block again.
Sync ==
  /\ Plain("sync", IF verify THEN "verify" ELSE "close")
  /\ done' = IF verify THEN 0 ELSE done
  /\ Counts /\ UNCHANGED <<drive, pos, faults>>

\* Mutant: the blocks come back from the page cache.
EqualInCache(from, to) == \A b \in from .. to : b \in Blocks /\ drive[b] \in {"image", "bad"}

\* The blocks of the drive are those of the image.
Equal(from, to) == \A b \in from .. to : b \in Blocks /\ drive[b] = "image"
Compare ==
  /\ IF done < total
     THEN ~asked /\ Equal(done + 1, ChunkEnd) /\ Plain("verify", "verify") /\ done' = ChunkEnd
     ELSE Plain("verify", "close") /\ UNCHANGED done
  /\ Counts /\ UNCHANGED <<drive, pos, faults>>

CloseDisk == CloseDevice("close", "end") /\ Keep

\* Mutant: the error of a full drive is swallowed and the write tried again.
FailingButWrite == Labels \ (Cleanup \cup {"write"})
Failing == Labels \ Cleanup

\* Every call may fail, the write at the end of the drive, and the comparison
\* where the drive reads back something else; both loops poll stopped().
Breaks ==
  /\ \/ Fails(Failing, Handler)
     \/ done < total /\ Stops({"copy", "verify"}, Handler)
  /\ Keep

Return == Returns /\ Keep

WriterStep ==
  \/ Resolve \/ Unmounting \/ OpenDisk \/ WipeTail \/ ReadChunk \/ Write \/ Sync \/ Compare
  \/ CloseDisk \/ Breaks \/ Return

Around ==
  \/ Interrupt /\ askedAt' = pos
     /\ UNCHANGED <<size, total, verify, drive, done, pos, faults>>
  \/ \E v \in Volumes : (Probe(v) \/ Automount(v)) /\ Keep

Returned == outcome # "running" /\ UNCHANGED vars

Next == WriterStep \/ Around \/ Returned

Spec == Init /\ [][Next]_vars

-----------------------------------------------------------------------------
(* Properties                                                              *)

\* What the writer can know: it wrote every block, and read them all back if
\* it was to.
Complete ==
  total <= size /\ \A b \in 1 .. total : drive[b] \in {"image"} \cup (IF verify THEN {} ELSE {"bad"})

\* How the writer's state looks to its caller, see WriterContract.
Holds == Held
Content ==
  IF Complete /\ pc \in {"close", "end"} THEN "whole"
  ELSE IF pc \in {"resolve", "unmount", "open", "tail"} THEN "old" ELSE "partial"

\* verify_image: after a verified flash every block of the drive is the
\* image's, whatever the drive did with what it was given.
VerifiedIsRight ==
  outcome = "done" /\ verify => total <= size /\ \A b \in 1 .. total : drive[b] = "image"

\* test_the_old_backup_gpt_is_wiped: "what lies between the image and the tail
\* is left alone".
BetweenLeftAlone ==
  \A b \in Blocks : b > total /\ b <= size - TAIL => drive[b] = "old"

\* test_stopping_writes_nothing_more: after an interrupt the copy goes on at
\* most to the end of the chunk under way.
StopWithinChunk == asked => pos <= askedAt + CHUNK
=============================================================================
