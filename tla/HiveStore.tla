------------------------------ MODULE HiveStore ------------------------------
(***************************************************************************)
(* HiveWriter (bcd_logic.py): a registry hive, laid out cell after cell,   *)
(* every cell aligned, every pointer the offset of another cell.  The keys *)
(* are written from the leaves up, as build_bcd does, so that the parent   *)
(* of a key is patched into it afterwards.                                 *)
(*                                                                         *)
(* A name is its place among the names in lower case.                      *)
(***************************************************************************)
EXTENDS Integers, Sequences, SequencesExt

CONSTANTS
  HBIN_HEADER_SIZE,
  PAGE,          \* the hive is a multiple of it
  KeyNames,
  NameLen(_),
  DataSizes,     \* of values, in bytes
  MaxKeys, MaxValues,
  Nowhere        \* 0xFFFFFFFF

VARIABLES
  phase,  \* "new", "build" or "done"
  buf,    \* the cells, by offset
  top,    \* the end of them
  orphans,  \* keys that no key lists yet
  unused_values,
  root

hiveVars == <<phase, buf, top, orphans, unused_values, root>>

Init ==
  /\ phase = "new" /\ buf = [o \in {} |-> {}] /\ top = HBIN_HEADER_SIZE
  /\ orphans = {} /\ unused_values = {} /\ root = Nowhere

Cells(kind) == {o \in DOMAIN buf : buf[o].kind = kind}

-----------------------------------------------------------------------------
\* Mutant: rounded down.
CellSizeDown(payload) == ((4 + payload) \div 8) * 8

\* alloc: the size field and the payload, 8-byte aligned.
CellSize(payload) == ((4 + payload + 7) \div 8) * 8

\* Where each of the cells allocated one after the other begins, and their end.
Offsets(new) ==
  LET at[i \in 1 .. Len(new) + 1] == IF i = 1 THEN top ELSE at[i - 1] + CellSize(new[i - 1].len)
  IN at

\* They are written, and `patched` are the cells there were.
Alloc(new, patched) ==
  LET at == Offsets(new)
      nth(o) == CHOOSE i \in 1 .. Len(new) : at[i] = o
  IN
  /\ buf' = [o \in DOMAIN buf \cup {at[i] : i \in 1 .. Len(new)} |->
               IF o \in DOMAIN buf THEN patched[o]
               ELSE [new[nth(o)] EXCEPT !.size = CellSize(new[nth(o)].len)]]
  /\ top' = at[Len(new) + 1]

Security ==
  /\ phase = "new" /\ phase' = "build"
  /\ Alloc(<<[kind |-> "sk", len |-> 120, size |-> 0]>>, buf)
  /\ UNCHANGED <<orphans, unused_values, root>>

\* value: the cell of the value, then its data.
Value(name, size) ==
  LET vk == [kind |-> "vk", len |-> 20 + NameLen(name), size |-> 0,
             name |-> name, data |-> top + CellSize(20 + NameLen(name)), data_len |-> size]
  IN
  /\ phase = "build" /\ Cardinality(Cells("vk")) < MaxValues
  /\ Alloc(<<vk, [kind |-> "data", len |-> size, size |-> 0]>>, buf)
  /\ unused_values' = unused_values \cup {top}
  /\ UNCHANGED <<phase, orphans, root>>

\* Mutant: in the order they were made.
SubkeyListUnsorted(subkeys) ==
  {s \in SetToSeqs(subkeys) : \A i, j \in DOMAIN s : i < j => s[i] < s[j]}

\* _subkey_list: the keys sorted by name in lower case.
SubkeyList(subkeys) ==
  {s \in SetToSeqs(subkeys) : \A i, j \in DOMAIN s : i < j => buf[s[i]].name < buf[s[j]].name}

\* A cell of offsets: as a head, and a width for each.
ListOf(kind, head, width, entries) ==
  [kind |-> kind, len |-> head + width * Len(entries), size |-> 0, entries |-> entries]

\* key: the lists it needs, then its own cell, then the parent of its subkeys.
\* Values stay in the order they come in.
Key(name, subkeys, values) ==
  \E sorted \in SubkeyList(subkeys), listed \in SetToSeqs(values) :
    LET lists == (IF subkeys = {} THEN <<>> ELSE <<ListOf("lf", 4, 8, sorted)>>)
                 \o (IF values = {} THEN <<>> ELSE <<ListOf("list", 0, 4, listed)>>)
        at == Offsets(lists)
        off == at[Len(lists) + 1]
        nk == [kind |-> "nk", len |-> 76 + NameLen(name), size |-> 0, name |-> name,
               parent |-> Nowhere, security |-> HBIN_HEADER_SIZE,
               nsubkeys |-> Len(sorted), nvalues |-> Len(listed),
               subkeys |-> IF subkeys = {} THEN Nowhere ELSE at[1],
               values |-> IF values = {} THEN Nowhere ELSE at[Len(lists)]]
    IN
    /\ phase = "build" /\ Cardinality(Cells("nk")) < MaxKeys
    /\ Alloc(Append(lists, nk),
             [o \in DOMAIN buf |->
                IF o \in subkeys THEN [buf[o] EXCEPT !.parent = off] ELSE buf[o]])
    /\ orphans' = (orphans \ subkeys) \cup {off}
    /\ unused_values' = unused_values \ values
    /\ UNCHANGED <<phase, root>>

\* serialise, with everything below the root: the rest of the page is one free
\* cell, and the headers tell the length and the root.
Serialise ==
  /\ phase = "build" /\ unused_values = {} /\ phase' = "done"
  /\ \E k \in orphans : orphans = {k} /\ root' = k
  /\ LET pad == (-top) % PAGE IN
     /\ top' = top + pad
     /\ buf' = IF pad = 0 THEN buf
               ELSE [o \in DOMAIN buf \cup {top} |->
                       IF o = top THEN [kind |-> "free", len |-> 0, size |-> pad] ELSE buf[o]]
  /\ UNCHANGED <<orphans, unused_values>>

\* The keys below one have different names; build_bcd gives one each.
Next ==
  \/ Security \/ Serialise
  \/ \E name \in KeyNames :
       \/ \E size \in DataSizes : Value(name, size)
       \/ \E subkeys \in SUBSET orphans, values \in SUBSET unused_values :
            /\ \A a, b \in subkeys : a # b => buf[a].name # buf[b].name
            /\ Key(name, subkeys, values)

Spec == Init /\ [][Next]_hiveVars

-----------------------------------------------------------------------------
\* Walking the cells by their sizes visits each, up to the end of the last page.
Tiled ==
  /\ top % PAGE = 0
  /\ \A o \in DOMAIN buf :
       /\ o % 8 = 0 /\ buf[o].size >= 4 + buf[o].len
       /\ o + buf[o].size \in DOMAIN buf \cup {top}
  /\ \A o \in DOMAIN buf \cup {top} :
       o = HBIN_HEADER_SIZE \/ \E p \in DOMAIN buf : p + buf[p].size = o

\* What a key lists: what it says, sorted, and each entry says it is of that key.
ListsSubkeys(k) ==
  IF buf[k].subkeys = Nowhere THEN buf[k].nsubkeys = 0
  ELSE /\ buf[k].subkeys \in Cells("lf")
       /\ LET list == buf[buf[k].subkeys].entries IN
          /\ Len(list) = buf[k].nsubkeys
          /\ \A i \in 1 .. Len(list) : list[i] \in Cells("nk") /\ buf[list[i]].parent = k
          /\ \A i, j \in 1 .. Len(list) : i < j => buf[list[i]].name < buf[list[j]].name
ListsValues(k) ==
  IF buf[k].values = Nowhere THEN buf[k].nvalues = 0
  ELSE /\ buf[k].values \in Cells("list")
       /\ LET list == buf[buf[k].values].entries IN
          /\ Len(list) = buf[k].nvalues
          /\ \A i \in 1 .. Len(list) : list[i] \in Cells("vk")

Listed(k) == LET p == buf[k].parent IN p \in Cells("nk") /\ Contains(buf[buf[p].subkeys].entries, k)

\* "Every hive-format constant [...] was read out of a real BCD": what a
\* registry parser relies on.  The cells fill the hive, every offset is that of
\* a cell of the right kind, the lists are sorted, and parents and lists agree.
HiveIsSound ==
  phase = "done" =>
    /\ Tiled
    /\ root \in Cells("nk") /\ buf[root].parent = Nowhere
    /\ \A k \in Cells("nk") :
         /\ buf[k].security \in Cells("sk")
         /\ ListsSubkeys(k) /\ ListsValues(k) /\ (k = root \/ Listed(k))
    /\ \A v \in Cells("vk") :
         buf[v].data \in Cells("data") /\ buf[buf[v].data].len = buf[v].data_len
=============================================================================
