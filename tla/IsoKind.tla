------------------------------ MODULE IsoKind ------------------------------
(***************************************************************************)
(* iso_kind (iso_logic.py): what system an ISO holds, from the file names  *)
(* in the raw image, searched in overlapping chunks and in three views of  *)
(* each: as bytes, and as UTF-16 from an even and from an odd offset.      *)
(*                                                                         *)
(* The image is a set of names, at most two: where each begins, how many   *)
(* bytes it takes, whether it is UTF-16, and what it tells.                *)
(***************************************************************************)
EXTENDS Integers

CONSTANTS
  Sizes,      \* of an image, in bytes
  Names,      \* what may stand in it: [at, len, utf16, tells]
  ISO_CHUNK,
  ISO_SCAN,
  CARRY       \* what is kept of a chunk for the next

VARIABLES
  phase,   \* "scan" or "done"
  size, names,
  read,    \* bytes read so far
  carry,   \* bytes before them that the next window begins with
  linux,
  kind,    \* the result: 0 Windows, 1 Linux, 2 anything else
  failed   \* history: an OSError ended the scan

isoVars == <<phase, size, names, read, carry, linux, kind, failed>>

Min2(a, b) == IF a < b THEN a ELSE b

\* A marker that begins before a chunk and ends in it is carried over whole.
Limits ==
  /\ Sizes \subseteq Nat /\ ISO_CHUNK \in Nat \ {0} /\ ISO_SCAN \in Nat /\ CARRY \in Nat
  /\ Names \subseteq [at : Nat, len : 1 .. CARRY + 1, utf16 : BOOLEAN, tells : {"windows", "linux"}]
  /\ \A n \in Names : n.utf16 => n.len % 2 = 0

Init ==
  /\ phase = "scan" /\ size \in Sizes
  /\ \E a, b \in Names : names = {n \in {a, b} : n.at + n.len <= size}
  /\ read = 0 /\ carry = 0 /\ linux = FALSE /\ kind = 2 /\ failed = FALSE

\* Mutant: UTF-16 from the start of the window only.
SeenAligned(n, from, to) ==
  /\ from <= n.at /\ n.at + n.len <= to
  /\ n.utf16 => (n.at - from) % 2 = 0

\* _views: a UTF-16 view begins at either of the first two bytes and ends
\* with the last whole unit.
Seen(n, from, to) ==
  IF n.utf16
  THEN \E start \in 0 .. 1 :
         /\ from + start <= n.at /\ (n.at - from - start) % 2 = 0
         /\ n.at + n.len <= from + start + 2 * ((to - from - start) \div 2)
  ELSE from <= n.at /\ n.at + n.len <= to

Finds(from, to, what) == \E n \in names : n.tells = what /\ Seen(n, from, to)

\* One turn of the loop: the window is what was carried and a chunk.
ReadChunk ==
  LET from == read - carry
      to == Min2(read + ISO_CHUNK, size)
  IN
  /\ phase = "scan" /\ read < ISO_SCAN /\ read < size
  /\ read' = to
  /\ IF Finds(from, to, "windows")
     THEN kind' = 0 /\ phase' = "done" /\ UNCHANGED <<linux, carry>>
     ELSE /\ linux' = (linux \/ Finds(from, to, "linux"))
          /\ carry' = Min2(CARRY, to - from)
          /\ UNCHANGED <<kind, phase>>
  /\ UNCHANGED <<size, names, failed>>

\* Nothing is left, or enough was read; or the file cannot be opened or read.
Finish ==
  /\ phase = "scan" /\ phase' = "done"
  /\ failed' = (read < ISO_SCAN /\ read < size)
  /\ kind' = IF linux THEN 1 ELSE 2
  /\ UNCHANGED <<size, names, read, carry, linux>>

Next == ReadChunk \/ Finish

Spec == Init /\ [][Next]_isoVars

-----------------------------------------------------------------------------
\* The names that lie in the first `to` bytes, wherever the chunks end.
Within(to, what) == \E n \in names : n.tells = what /\ n.at + n.len <= to

\* "A Windows marker anywhere wins over a Linux one": the result is what the
\* whole of the scanned bytes says, whatever chunk a name begins or ends in.
KindIsRight ==
  phase = "done" =>
    /\ kind = IF Within(read, "windows") THEN 0 ELSE IF Within(read, "linux") THEN 1 ELSE 2
    /\ failed \/ kind = 0 \/ read >= Min2(size, ISO_SCAN)

\* What the loop has seen so far, and what it carries on: enough to see a
\* name that the next chunk completes.
ScanInv ==
  phase = "scan" =>
    /\ carry = Min2(CARRY, read)
    /\ ~Within(read, "windows") /\ (linux <=> Within(read, "linux"))
=============================================================================
