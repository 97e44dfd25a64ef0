------------------------------ MODULE MCWizard ------------------------------
(***************************************************************************)
(* Wizard with a Windows of two editions and an ISO that the scan does not *)
(* recognise but that has an edition once the user says it is a Windows.   *)
(***************************************************************************)
EXTENDS Wizard

CONSTANTS win, odd

MCISOs == {win, odd}
MCKind(i) == IF i = win THEN 0 ELSE 2
MCCount(i) == IF i = win THEN 2 ELSE 1
=============================================================================
