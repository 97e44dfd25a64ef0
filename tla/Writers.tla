------------------------------ MODULE Writers ------------------------------
(***************************************************************************)
(* The thread of a flash with the writer it runs: worker_thread (main.py)  *)
(* picks write_image, write_windows or write_windows_togo from what the    *)
(* main thread read off the dropdowns, and all three have one contract.    *)
(*                                                                         *)
(* The three modules share the variables of WriterBase and the drive; what *)
(* only another writer has is `unused`.                                    *)
(***************************************************************************)
EXTENDS WriterBase

CONSTANTS
  DriveSizes, ImageSizes, CHUNK, TAIL, MaxFaults,  \* of DdWriter
  Schemes, Images,                                 \* of WindowsWriter
  HasImage                                         \* of TogoWriter

ASSUME WritersAssumption ==
  /\ DriveSizes \subseteq Nat \ {0} /\ ImageSizes \subseteq Nat \ {0}
  /\ CHUNK \in Nat \ {0} /\ TAIL \in Nat \ {0} /\ MaxFaults \in Nat
  /\ Schemes \subseteq {"gpt", "mbr"}
  /\ Images \subseteq {"none", "small", "big", "solid", "oddcase"}
  /\ HasImage \subseteq BOOLEAN

VARIABLES
  os_idx, wtg,                                       \* worker_thread's arguments
  drive,                                             \* of all three
  size, total, verify, done, pos, faults, askedAt,   \* of DdWriter
  scheme, image, dirty, work,                        \* of WindowsWriter
  hasImage, cached, tmp                              \* of TogoWriter; cached is its `dirty`

ddVars == <<size, total, verify, done, pos, faults, askedAt>>
winVars == <<scheme, image, dirty, work>>
togoVars == <<hasImage, cached, tmp>>
vars == <<baseVars, os_idx, wtg, drive, ddVars, winVars, togoVars>>

Dd == INSTANCE DdWriter
Win == INSTANCE WindowsWriter
Togo == INSTANCE TogoWriter WITH dirty <- cached

\* What only another writer has.
unused == "unused"
NoDd ==
  /\ size = unused /\ total = unused /\ verify = unused
  /\ done = unused /\ pos = unused /\ faults = unused /\ askedAt = unused
NoWin == scheme = unused /\ image = unused /\ dirty = unused /\ work = unused
NoTogo == hasImage = unused /\ cached = unused /\ tmp = unused

\* worker_thread: everything but Windows, the first entry of the dropdown, is
\* copied block for block.
Writer == IF os_idx # 0 THEN "dd" ELSE IF wtg THEN "togo" ELSE "win"

Init ==
  /\ os_idx \in 0 .. 1 /\ wtg \in BOOLEAN
  /\ \/ Writer = "dd" /\ Dd!Init /\ NoWin /\ NoTogo
     \/ Writer = "win" /\ Win!Init /\ NoDd /\ NoTogo
     \/ Writer = "togo" /\ Togo!Init /\ NoDd /\ NoWin

-----------------------------------------------------------------------------
\* The writer that runs, given what each of them would do.
Run(dd, win, togo) ==
  /\ \/ Writer = "dd" /\ dd /\ UNCHANGED <<winVars, togoVars>>
     \/ Writer = "win" /\ win /\ UNCHANGED <<ddVars, togoVars>>
     \/ Writer = "togo" /\ togo /\ UNCHANGED <<ddVars, winVars>>
  /\ UNCHANGED <<os_idx, wtg>>

WriterStep == Run(Dd!WriterStep, Win!WriterStep, Togo!WriterStep)
Around == Run(Dd!Around, Win!Around, Togo!Around)
Returned == outcome # "running" /\ UNCHANGED vars

Next == WriterStep \/ Around \/ Returned

Spec == Init /\ [][Next]_vars

\* The thread gets the processor and each of its calls ends: udisks calls have
\* no timeout, but udisks answers once its password dialog is, and ask_speed
\* ends once the user answers or interrupts.
LiveSpec == Spec /\ WF_vars(WriterStep)

-----------------------------------------------------------------------------
(* Properties; the writers' own ones are told in their modules             *)

\* The types of the writer that runs.
TypeOK ==
  CASE Writer = "dd" -> Dd!TypeOK [] Writer = "win" -> Win!TypeOK [] Writer = "togo" -> Togo!TypeOK

\* What the caller sees of the writer that runs.
Holds ==
  CASE Writer = "dd" -> Dd!Holds [] Writer = "win" -> Win!Holds [] Writer = "togo" -> Togo!Holds
Content ==
  CASE Writer = "dd" -> Dd!Content [] Writer = "win" -> Win!Content [] Writer = "togo" -> Togo!Content

Contract == INSTANCE WriterContract WITH
  Resources <- Volumes \cup {"fd", "work", "tmp"},
  held <- Holds, content <- Content

\* udisks_worker: whichever writer worker_thread picked, True means that the
\* whole medium is on the drive, False that somebody asked it to stop, and
\* nothing of its own is left behind that the system let it take back.
Implements == Contract!Spec

\* verify_image: after a verified flash every block is the image's.
VerifiedIsRight == Writer = "dd" => Dd!VerifiedIsRight

\* copy_image: what lies between the image and the wiped tail is left alone.
BetweenLeftAlone == Writer = "dd" => Dd!BetweenLeftAlone

\* copy_image: after an interrupt no further chunk is begun.
StopWithinChunk == Writer = "dd" => Dd!StopWithinChunk

\* _install_bios_boot: the boot sector goes last, over complete files.
BootsSomething == Writer = "win" => Win!BootsSomething

\* _fill: a repacked image never stays in the cache directory.
CacheEmptied == Writer = "win" => Win!CacheEmptied

\* write_windows_togo: no boot files before the Windows they start is written.
BootAfterWindows == Writer = "togo" => Togo!BootAfterWindows
=============================================================================
