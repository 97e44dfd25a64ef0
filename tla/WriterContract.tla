--------------------------- MODULE WriterContract ---------------------------
(***************************************************************************)
(* What udisks_worker (main.py) relies on when it runs a writer: the three *)
(* functions write_image, write_windows and write_windows_togo, whatever   *)
(* they do to the drive in between.  A writer returns True, returns False  *)
(* or raises; the first only with the whole medium on the drive and the    *)
(* second only if somebody asked it to stop.  Whatever it opened, mounted, *)
(* attached or created on the way it has given back by then, except for    *)
(* what the system refused to take back.                                   *)
(***************************************************************************)
EXTENDS FiniteSets

CONSTANT Resources   \* what a writer may hold while it runs

VARIABLES
  outcome,  \* "running", "done" (True), "stopped" (False) or "raised"
  asked,    \* stopped() is true
  held,     \* what the writer has open, mounted, attached or lying around
  kept,     \* what the system would not take back
  content   \* the drive: "old", "partial", or "whole" for every byte it should have

contractVars == <<outcome, asked, held, kept, content>>

Init ==
  /\ outcome = "running" /\ asked = FALSE
  /\ held = {} /\ kept = {} /\ content = "old"

\* The user interrupts: the flag never goes up again under this writer.
Ask == asked' = TRUE /\ UNCHANGED <<outcome, held, kept, content>>

\* Nothing on the drive is ever old again once the writer touched it.
Work ==
  /\ outcome = "running" /\ outcome' = "running"
  /\ held' \in SUBSET Resources
  /\ kept \subseteq kept' /\ kept' \subseteq held'
  /\ content' \in {"old", "partial", "whole"}
  /\ content' = "old" => content = "old"
  /\ UNCHANGED asked

Return(how) ==
  /\ outcome = "running" /\ outcome' = how
  /\ held = kept
  /\ UNCHANGED <<asked, held, kept, content>>

ReturnTrue == content = "whole" /\ Return("done")
ReturnFalse == asked /\ Return("stopped")
Raise == Return("raised")

Next == Ask \/ Work \/ ReturnTrue \/ ReturnFalse \/ Raise

Spec == Init /\ [][Next]_contractVars
=============================================================================
