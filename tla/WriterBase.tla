----------------------------- MODULE WriterBase -----------------------------
(***************************************************************************)
(* What the three writers share: they run on one worker thread, poll       *)
(* stopped() here and there, and do everything that needs root through     *)
(* udisks (udisks_logic.py), where any call may be refused.  Around them   *)
(* the user may interrupt and the desktop probes and automounts what       *)
(* appears.                                                                *)
(*                                                                         *)
(* A writer is a program counter.  An exception in flight is the variable  *)
(* exception; each writer says to which label, its finally or except       *)
(* clause, a call that fails at some label leads.                          *)
(***************************************************************************)
EXTENDS Naturals, FiniteSets

CONSTANT MaxAutomounts  \* how often the desktop mounts something unasked

ASSUME AutomountsAssumption == MaxAutomounts \in Nat

\* The filesystems a writer deals with: the one on the drive before, those
\* it makes, and the ISO behind a loop device.
Volumes == {"old", "part", "esp", "win", "loop"}

VARIABLES
  pc,
  exception, \* "no", "Stopped", or "error" for every other one
  outcome,   \* "running", "done", "stopped" or "raised"
  asked,     \* what stopped() returns
  volume,    \* "absent", "new" until udisks probed it, "idle" or "mounted"
  mounts,    \* the volumes the writer mounted, or found mounted, to use
  fd,        \* an fd of udisks' OpenDevice: "no", "disk" or "win"
  kept,      \* what a suppressed error left behind
  automounts

baseVars == <<pc, exception, outcome, asked, volume, mounts, fd, kept, automounts>>

BaseTypeOK ==
  /\ exception \in {"no", "Stopped", "error"}
  /\ outcome \in {"running", "done", "stopped", "raised"}
  /\ asked \in BOOLEAN
  /\ volume \in [Volumes -> {"absent", "new", "idle", "mounted"}]
  /\ mounts \subseteq Volumes
  /\ fd \in {"no", "disk", "win"}
  /\ kept \subseteq Volumes
  /\ automounts \in 0 .. MaxAutomounts

BaseInit ==
  /\ pc = "resolve" /\ exception = "no" /\ outcome = "running"
  /\ asked = FALSE
  /\ volume \in {[v \in Volumes |-> IF v = "old" THEN s ELSE "absent"] : s \in {"idle", "mounted"}}
  /\ mounts = {} /\ fd = "no" /\ kept = {} /\ automounts = 0

-----------------------------------------------------------------------------
(* Around the writer                                                       *)

\* kill_worker, or a refused speed test: is_flashing goes down.
Interrupt ==
  /\ ~asked /\ asked' = TRUE
  /\ UNCHANGED <<pc, exception, outcome, volume, mounts, fd, kept, automounts>>

\* O_EXCL on the disk or on a partition keeps the desktop off both.
Claimed(v) == v # "loop" /\ (fd = "disk" \/ fd = v)

\* udisks probes what is new, and the desktop may mount what was probed.
Probe(v) ==
  /\ volume[v] = "new"
  /\ volume' = [volume EXCEPT ![v] = "idle"]
  /\ UNCHANGED <<pc, exception, outcome, asked, mounts, fd, kept, automounts>>

Automount(v) ==
  /\ volume[v] = "idle" /\ ~Claimed(v) /\ automounts < MaxAutomounts
  /\ volume' = [volume EXCEPT ![v] = "mounted"]
  /\ automounts' = automounts + 1
  /\ UNCHANGED <<pc, exception, outcome, asked, mounts, fd, kept>>

-----------------------------------------------------------------------------
(* The steps of a writer                                                   *)

Goes(from, to) == pc = from /\ pc' = to
Same == UNCHANGED <<exception, outcome, asked, automounts>>
Set(v, state) == volume' = [volume EXCEPT ![v] = state]

\* A step that changes nothing the base knows of.
Plain(from, to) == Goes(from, to) /\ Same /\ UNCHANGED <<volume, mounts, fd, kept>>

\* unmount_all: what the disk held is unmounted before it is formatted.
UnmountAll(to) ==
  /\ Goes("unmount", to) /\ Same
  /\ Set("old", "idle") /\ UNCHANGED <<mounts, fd, kept>>

\* Block.Format, refused while something on the disk is mounted.
Format(from, to, gone) ==
  /\ Goes(from, to) /\ Same
  /\ \A v \in gone : volume[v] # "mounted"
  /\ volume' = [v \in Volumes |-> IF v \in gone THEN "absent" ELSE volume[v]]
  /\ UNCHANGED <<mounts, fd, kept>>

\* A new partition or loop device; udisks probes it after the call returned.
Appears(from, to, v) ==
  /\ Goes(from, to) /\ Same
  /\ Set(v, "new") /\ UNCHANGED <<mounts, fd, kept>>

\* mount waits for the filesystem and takes the mount point it finds ...
FindMounted(from, to, v) ==
  /\ Goes(from, to) /\ Same
  /\ volume[v] = "mounted" /\ mounts' = mounts \cup {v}
  /\ UNCHANGED <<volume, fd, kept>>

FindIdle(from, to, v) == volume[v] = "idle" /\ Plain(from, to)

\* ... or has it mounted, which udisks refuses if the desktop was faster.
Mount(from, to, v) ==
  /\ Goes(from, to) /\ Same
  /\ volume[v] = "idle" /\ Set(v, "mounted") /\ mounts' = mounts \cup {v}
  /\ UNCHANGED <<fd, kept>>

\* Filesystem.Unmount, whose error counts.
Unmount(from, to, v) ==
  /\ Goes(from, to) /\ Same
  /\ volume[v] = "mounted" /\ Set(v, "idle") /\ mounts' = mounts \ {v}
  /\ UNCHANGED <<fd, kept>>

\* unmount, which suppresses it: v may stay mounted.
TryUnmount(from, to, v) ==
  /\ Goes(from, to) /\ Same /\ UNCHANGED fd
  /\ \/ /\ volume[v] = "mounted" /\ Set(v, "idle")
        /\ mounts' = mounts \ {v} /\ UNCHANGED kept
     \/ /\ kept' = IF v \in mounts THEN kept \cup {v} ELSE kept
        /\ UNCHANGED <<volume, mounts>>

\* The loop device goes, unless it is still mounted or udisks will not.
DeleteLoop(from, to) ==
  /\ Goes(from, to) /\ Same /\ UNCHANGED <<mounts, fd>>
  /\ \/ volume["loop"] # "mounted" /\ Set("loop", "absent") /\ UNCHANGED kept
     \/ UNCHANGED volume /\ kept' = kept \cup {"loop"}

\* Mutant: the device is opened without O_EXCL.
OpenShared(from, to, what, users) ==
  Goes(from, to) /\ Same /\ fd' = what /\ UNCHANGED <<volume, mounts, kept>>

\* open_device on the disk or one partition: O_EXCL, so nothing may hold it.
OpenDevice(from, to, what, users) ==
  /\ Goes(from, to) /\ Same
  /\ \A v \in users : volume[v] # "mounted"
  /\ fd' = what
  /\ UNCHANGED <<volume, mounts, kept>>

CloseDevice(from, to) ==
  Goes(from, to) /\ Same /\ fd' = "no" /\ UNCHANGED <<volume, mounts, kept>>

\* A call at label `at` fails or, where the writer polls, finds stopped() true.
Throws(at, what, handler) ==
  /\ pc \in at /\ exception' = what /\ pc' = handler[pc]
  /\ UNCHANGED <<outcome, asked, volume, mounts, fd, kept, automounts>>

Fails(at, handler) == Throws(at, "error", handler)
Stops(at, handler) == asked /\ Throws(at, "Stopped", handler)

\* Mutant: the last line, return True, is missing.
ReturnsNone ==
  /\ pc = "end" /\ outcome = "running"
  /\ outcome' = CASE exception = "no" -> "none"
                  [] exception = "Stopped" -> "stopped"
                  [] exception = "error" -> "raised"
  /\ UNCHANGED <<pc, exception, asked, volume, mounts, fd, kept, automounts>>

\* The function returns True, returns False, or lets the exception out.
Returns ==
  /\ pc = "end" /\ outcome = "running"
  /\ outcome' = CASE exception = "no" -> "done"
                  [] exception = "Stopped" -> "stopped"
                  [] exception = "error" -> "raised"
  /\ UNCHANGED <<pc, exception, asked, volume, mounts, fd, kept, automounts>>

\* What the writer has of the system's: its mounts, its loop device, its fd.
Held ==
  mounts \cup {v \in {"loop"} : volume[v] # "absent"} \cup {r \in {"fd"} : fd # "no"}

-----------------------------------------------------------------------------
(* Properties of every writer                                              *)

\* open_device: "refused while anything holds it".  What the writer reads or
\* writes past the filesystems has none of them mounted on it, whatever the
\* desktop mounts in between.
RawMeansIdle ==
  /\ fd = "disk" => \A v \in Volumes \ {"loop"} : volume[v] # "mounted"
  /\ fd = "win" => volume["win"] # "mounted"

\* The writer returns or raises, whether it is stopped or not.
Ends == <>(outcome # "running")
=============================================================================
