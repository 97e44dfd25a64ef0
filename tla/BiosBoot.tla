------------------------------ MODULE BiosBoot ------------------------------
(***************************************************************************)
(* bios_boot_code (windows_logic.py): GRUB's boot.img and core.img made    *)
(* ready to be written before the first partition.  boot.img loads the     *)
(* first sector of the core, and that loads the rest by a block list that  *)
(* grows down from its end and ends with an empty entry.                   *)
(*                                                                         *)
(* The first sector is its slots of the size of a list entry, from the end *)
(* down; what is not list is code.  A segment counts in sectors here.      *)
(***************************************************************************)
EXTENDS Naturals

CONSTANTS
  CoreLengths,       \* of core.img, in bytes
  SECTOR,
  Slots,             \* of the first sector
  MAX_CORE_SECTORS,
  CORE_SEGMENT       \* where the sector after the first belongs in memory

VARIABLES
  phase,    \* "patch", "clear", "done" or "raised"
  core_len, \* in bytes
  version,  \* the check of NO_RS_LENGTH
  core,     \* the slots of the first sector
  slot,     \* the one that the loop has reached
  mbr,      \* where each part of it comes from
  code      \* history: the first slot of core.img that is code

bootVars == <<phase, core_len, version, core, slot, mbr, code>>

Entry(start, length, segment) == [start |-> start, length |-> length, segment |-> segment]
Empty == Entry(0, 0, 0)
Code == Entry(7, 7, 7)

\* What grub-mkimage left: a list of some entries, empty ones, code.
Init ==
  /\ phase = "patch" /\ core_len \in CoreLengths /\ version \in {"ok", "other"} /\ slot = 1
  /\ \E entries \in 1 .. Slots - 2 : \E first \in entries + 2 .. Slots :
       /\ code = first
       /\ core = [s \in 1 .. Slots |->
                    IF s <= entries THEN Entry(2, 1, 1) ELSE IF s < first THEN Empty ELSE Code]
  /\ mbr = [bpb |-> "boot.img", table |-> "boot.img", core_at |-> 0]

\* In whole sectors, padded with zeros.
nsec == (core_len + SECTOR - 1) \div SECTOR

\* Mutant: a core that reaches into the partition is taken.
TooBigByOne == nsec > MAX_CORE_SECTORS + 1

TooBig == nsec > MAX_CORE_SECTORS

Patch ==
  /\ phase = "patch"
  /\ mbr' = [bpb |-> "disk", table |-> "disk", core_at |-> 1]
  /\ phase' = IF TooBig \/ version # "ok" THEN "raised" ELSE "clear"
  /\ UNCHANGED <<core_len, version, core, slot, code>>

\* The old list goes, down to its empty entry.
ClearEntry ==
  /\ phase = "clear" /\ core[slot].length # 0
  /\ core' = [core EXCEPT ![slot] = Empty] /\ slot' = slot + 1
  /\ UNCHANGED <<phase, core_len, version, mbr, code>>

\* Mutant: the first sector is in the list too.
NewEntryOfAll == Entry(2, nsec, CORE_SEGMENT)

\* The first sector is loaded by boot.img.
NewEntry == Entry(2, nsec - 1, CORE_SEGMENT)

\* A list of one entry, if the core has more than one sector.
WriteList ==
  /\ phase = "clear" /\ core[slot].length = 0 /\ phase' = "done"
  /\ core' = IF nsec > 1
             THEN [core EXCEPT ![1] = NewEntry, ![2] = Empty] ELSE [core EXCEPT ![1] = Empty]
  /\ UNCHANGED <<core_len, version, slot, mbr, code>>

Next == Patch \/ ClearEntry \/ WriteList

Spec == Init /\ [][Next]_bootVars

-----------------------------------------------------------------------------
\* The entries that the loader in the first sector follows.
Followed == {s \in 1 .. Slots : \A t \in 1 .. s : core[t].length # 0}
Sectors(s) == core[s].start .. core[s].start + core[s].length - 1

\* bios_boot_code: the BIOS ends up with the whole core in memory, each sector
\* of it once and one behind the other, none of it from the partition, none of
\* GRUB's code overwritten, and the drive keeps its own partition table.
CoreLoadsWhole ==
  phase = "done" =>
    /\ mbr = [bpb |-> "disk", table |-> "disk", core_at |-> 1]
    /\ UNION {Sectors(s) : s \in Followed} = 2 .. nsec
    /\ \A s, t \in Followed : s # t => Sectors(s) \cap Sectors(t) = {}
    /\ \A s \in Followed : core[s].segment = CORE_SEGMENT + core[s].start - 2
    /\ nsec <= MAX_CORE_SECTORS /\ version = "ok"
    /\ \A s \in 1 .. Slots : core[s] = Code <=> s >= code
=============================================================================
