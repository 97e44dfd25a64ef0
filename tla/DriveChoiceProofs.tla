------------------------- MODULE DriveChoiceProofs --------------------------
(***************************************************************************)
(* Proofs about DriveChoice for any number of device names and sticks: the *)
(* list is well formed, and as long as no stick is swapped behind the      *)
(* writer's password dialog, the disk that is wiped is the one the user    *)
(* pinned, and listed as the row the summary shows unless that row was out *)
(* of date when it was pinned.                                             *)
(***************************************************************************)
EXTENDS DriveChoice, WellFoundedInduction, TLAPS

-----------------------------------------------------------------------------
(* The list                                                                *)

\* A list that is not empty has a first row.
LEMMA FirstRowIsRow ==
  ASSUME NEW list, Rows(list) # {}
  PROVE  FirstRow(list) \in Rows(list)
<1> DEFINE R == OpToRel(<, Nat)
<1>1. Rows(list) \subseteq Nat
  BY NamesAssumption DEF Rows
<1>2. \E x \in Rows(list) : \A y \in Rows(list) : ~ (<<y, x>> \in R)
  BY <1>1, NatLessThanWellFounded, WFMin
<1>3. \A x, y \in Nat : <<y, x>> \notin R => x <= y
  BY DEF OpToRel
<1>4. \E x \in Rows(list) : \A y \in Rows(list) : x <= y
  BY <1>1, <1>2, <1>3
<1> QED BY <1>4 DEF FirstRow

\* The rows are device names that show a model.
LEMMA RowFacts ==
  ASSUME NEW list
  PROVE  Rows(list) \subseteq Names /\ NoRow \notin Names
  BY NamesAssumption DEF Rows, NoRow

\* What reselect returns is a row of the new list or none, and never another
\* drive than the one that was chosen.
LEMMA ReselectRow ==
  ASSUME NEW list, NEW chosen, NEW before
  PROVE  /\ Reselect(list, chosen, before) \in Rows(list) \cup {NoRow}
         /\ chosen # NoRow => Reselect(list, chosen, before) \in {chosen, NoRow}
  BY FirstRowIsRow DEF Reselect

\* What udisks lists is a list, and what it identifies is a disk.
LEMMA UdisksType ==
  ASSUME TypeOK
  PROVE  /\ Listed \in [Names -> Models \cup {NoModel}]
         /\ \A n : Identity(n) \in Disks \cup {NoDisk}
  BY ModelAssumption DEF TypeOK, Listed, Identity

\* The application starts in a well-typed state.
LEMMA InitType == Init => TypeOK
<1> SUFFICES ASSUME Init PROVE TypeOK
  OBVIOUS
<1>1. Listed \in [Names -> Models \cup {NoModel}]
  BY ModelAssumption DEF Init, Listed
<1>2. selected \in Names \cup {NoRow}
  BY ReselectRow, RowFacts DEF Init
<1>3. current_step \in 0 .. 3 /\ installs \in 0 .. MaxInstalls
  BY PaceAssumption DEF Init
<1>4. pick \in BOOLEAN /\ btn_next \in BOOLEAN /\ stale \in BOOLEAN
  BY Zenon DEF Init
<1> QED BY <1>1, <1>2, <1>3, <1>4 DEF Init, TypeOK

\* Every step keeps the types.
LEMMA NextType == TypeOK /\ [Next]_vars => TypeOK'
<1> SUFFICES ASSUME TypeOK, [Next]_vars PROVE TypeOK'
  OBVIOUS
<1>1. /\ Listed \in [Names -> Models \cup {NoModel}]
      /\ \A n : Identity(n) \in Disks \cup {NoDisk}
  BY UdisksType
<1>2. /\ \A chosen, before : Reselect(Listed, chosen, before) \in Names \cup {NoRow}
      /\ Reselect(Listed, NoRow, NoList) \in Names \cup {NoRow}
      /\ Rows(last_drives) \subseteq Names
  BY ReselectRow, RowFacts
<1> USE DEF TypeOK, systemVars, listVars, pageVars, pinVars, workerVars
<1>3. CASE System
  BY <1>3 DEF System, Plug, Unplug, UdisksChanges, SystemFrame
<1>4. CASE AutoRefreshDrives
  <2>1. pick' \in BOOLEAN /\ btn_next' \in BOOLEAN
    BY <1>4, Zenon DEF AutoRefreshDrives, Replace
  <2> QED BY <1>1, <1>2, <1>4, <2>1 DEF AutoRefreshDrives, Replace
<1>5. ASSUME NEW n \in Names \cup {NoRow}, Select(n) PROVE TypeOK'
  <2>1. btn_next' \in BOOLEAN
    BY <1>5, Zenon DEF Select
  <2> QED BY <1>5, <2>1 DEF Select
<1>6. CASE GoNextDrive
  <2>1. stale' \in BOOLEAN
    BY <1>6, Zenon DEF GoNextDrive
  <2> QED BY <1>1, <1>6, <2>1 DEF GoNextDrive, RememberDrive
<1>7. CASE GoNextIso
  BY <1>7 DEF GoNextIso, UpdateSummary
<1>8. CASE GoBack
  <2>1. btn_next' \in BOOLEAN
    <3>1. (selected # NoRow) \in BOOLEAN /\ btn_next \in BOOLEAN
      BY Zenon
    <3> QED BY <1>8, <3>1, Zenon DEF GoBack, OpenPage
  <2> QED BY <1>8, <2>1 DEF GoBack, OpenPage
<1>9. CASE Restart
  <2>1. btn_next' \in BOOLEAN
    BY <1>9, Zenon DEF Restart, OpenPage
  <2> QED BY <1>9, <2>1 DEF Restart, OpenPage
<1>13. CASE Start \/ Install \/ InstallEnds
  <2>1. btn_next' \in BOOLEAN
    BY <1>13, Zenon DEF Start, Install, InstallEnds
  <2>2. installs' \in 0 .. MaxInstalls
    BY <1>13, PaceAssumption DEF Start, Install, InstallEnds
  <2> QED BY <1>13, <2>1, <2>2, SMTT(30) DEF Start, Flash, Install, InstallEnds
<1>14. CASE StartInstalled
  <2>1. stale' \in BOOLEAN /\ btn_next' \in BOOLEAN
    BY <1>14, Zenon DEF StartInstalled
  <2> QED BY <1>14, <2>1, PaceAssumption DEF StartInstalled, Flash
<1>10. CASE Rebuild
  <2>1. pick' \in BOOLEAN /\ btn_next' \in BOOLEAN /\ stale' \in BOOLEAN
    BY <1>10, Zenon DEF Rebuild
  <2> QED BY <1>1, <1>2, <1>10, <2>1 DEF Rebuild
<1>11. CASE Worker
  BY <1>1, <1>11 DEF Worker, Check, Resolve, UnmountAll, Erase, Goes, WorkerFrame
<1>12. CASE UNCHANGED vars
  BY <1>12 DEF vars
<1> QED
  BY <1>3, <1>4, <1>5, <1>6, <1>7, <1>8, <1>9, <1>10, <1>11, <1>12,
     <1>13, <1>14 DEF Next, Window

\* DriveChoice keeps its types: reselect always returns a row or none.
THEOREM TypeCorrect == Spec => []TypeOK
<1>1. Init => TypeOK
  BY InitType
<1>2. TypeOK /\ [Next]_vars => TypeOK'
  BY NextType
<1> QED BY <1>1, <1>2, PTL DEF Spec

-----------------------------------------------------------------------------
(* The choice                                                              *)

\* The selected row is one of the list, and a disk is pinned only of a drive.
ListInv ==
  /\ selected \in Rows(last_drives) \cup {NoRow}
  /\ current_step \in 1 .. 2 /\ drive_ident # NoDisk => selected # NoRow

\* While a disk is pinned past the first page its row is selected, whatever
\* happens to the sticks and wherever an install's callback lets Next go.
THEOREM DriveKept == Spec => []DriveSelected
<1>1. Init => ListInv
  BY ReselectRow DEF Init, ListInv
<1>2. ASSUME TypeOK, ListInv, [Next]_vars PROVE ListInv'
  <2>1. \A chosen, before : Reselect(Listed, chosen, before) \in Rows(Listed) \cup {NoRow}
    BY ReselectRow
  <2>0. Reselect(Listed, NoRow, NoList) \in Rows(Listed) \cup {NoRow}
    BY ReselectRow
  <2> USE <1>2 DEF TypeOK, ListInv, systemVars, listVars, pageVars, pinVars, workerVars
  <2>2. CASE System
    BY <2>2 DEF System, Plug, Unplug, UdisksChanges, SystemFrame
  <2>3. CASE AutoRefreshDrives
    BY <2>1, <2>3 DEF AutoRefreshDrives, Replace
  <2>4. ASSUME NEW n \in Names \cup {NoRow}, Select(n) PROVE ListInv'
    BY <2>4 DEF Select
  <2>9. CASE GoNextDrive
    BY <2>9, RowFacts DEF GoNextDrive, RememberDrive, Identity
  <2>10. CASE GoNextIso \/ GoBack \/ Restart
    BY <2>10 DEF GoNextIso, UpdateSummary, GoBack, OpenPage, Restart
  <2>5. CASE Start \/ Install \/ InstallEnds \/ StartInstalled
    BY <2>5 DEF Start, Flash, Install, InstallEnds, StartInstalled
  <2>6. CASE Rebuild
    BY <2>0, <2>6 DEF Rebuild
  <2>7. CASE Worker
    BY <2>7 DEF Worker, Check, Resolve, UnmountAll, Erase, WorkerFrame
  <2>8. CASE UNCHANGED vars
    BY <2>8 DEF vars
  <2> QED BY <2>2, <2>3, <2>4, <2>5, <2>6, <2>7, <2>8, <2>9, <2>10 DEF Next, Window
<1>3. ListInv => DriveSelected
  BY DEF ListInv, DriveSelected
<1> QED BY <1>1, <1>2, <1>3, TypeCorrect, PTL DEF Spec

\* No refresh of the list moves the choice onto another drive.
THEOREM ChoiceStays == Spec => NeverAnother
<1>1. AutoRefreshDrives /\ selected # NoRow => selected' \in {selected, NoRow}
  BY ReselectRow DEF AutoRefreshDrives, Replace
<1>2. [Next]_vars => [AutoRefreshDrives /\ selected # NoRow => selected' \in {selected, NoRow}]_vars
  BY <1>1
<1> QED BY <1>2, PTL DEF Spec, NeverAnother

-----------------------------------------------------------------------------
(* What is wiped                                                           *)

\* From its check to the first call that destroys something, the worker's
\* device is the disk that was pinned.
PinInv ==
  /\ pc # "idle" => current_step = 3
  /\ pc \in {"resolve", "unmount", "erase"} => Identity(selected_dev) = drive_ident
  /\ pc # "ended" => written = NoDisk
  /\ WrittenIsPinned

\* It holds at the start.
LEMMA PinInit == Init => PinInv
  BY DEF Init, PinInv, WrittenIsPinned

\* While nothing is swapped behind the password dialog every step keeps it.
LEMMA PinNext == ASSUME HotplugWaits, TypeOK, PinInv, [Next]_vars PROVE PinInv'
<1> USE DEF TypeOK, PinInv, WrittenIsPinned, systemVars, listVars, pageVars, pinVars, workerVars
<1>1. CASE System
  BY <1>1 DEF System, Plug, Unplug, UdisksChanges, SystemFrame, Quiet
<1>2. CASE AutoRefreshDrives \/ \E n \in Names \cup {NoRow} : Select(n)
  BY <1>2 DEF AutoRefreshDrives, Select, Identity
<1>3. CASE GoNextDrive \/ GoNextIso \/ GoBack
  BY <1>3 DEF GoNextDrive, GoNextIso, GoBack, OpenPage
<1>4. CASE Start \/ Restart \/ Rebuild
  BY <1>4 DEF Start, Flash, Restart, OpenPage, Rebuild
<1>7. CASE Install \/ InstallEnds \/ StartInstalled
  BY <1>7 DEF Install, InstallEnds, StartInstalled, Flash, Identity
<1>5. CASE Worker
  BY <1>5 DEF Worker, Check, Resolve, UnmountAll, Erase, Goes, WorkerFrame, Identity
<1>6. CASE UNCHANGED vars
  BY <1>6 DEF vars, Identity
<1> QED BY <1>1, <1>2, <1>3, <1>4, <1>5, <1>6, <1>7 DEF Next, Window

\* The disk that is wiped is the one that was pinned, if no stick is swapped
\* while the writer waits for a password.
THEOREM PinnedIsWiped == ASSUME HotplugWaits PROVE Spec => []WrittenIsPinned
<1>1. PinInv => WrittenIsPinned
  BY DEF PinInv
<1> QED BY <1>1, PinInit, PinNext, TypeCorrect, PTL DEF Spec

\* Unless its row was out of date, what was pinned is what the selected row
\* shows, and what the summary names.
ShowInv == ~stale =>
  /\ current_step > 0 => drive_ident = NoDisk \/ last_drives[selected] = Model(drive_ident)
  /\ current_step > 1 => selected_dev = selected

\* The disk that is wiped is listed as the row the summary shows, if that row
\* was up to date when the user went on and the flash was started from there:
\* from the click on, no stick that comes and no udisks that fails matters.
THEOREM ShownIsWiped == ASSUME HotplugWaits PROVE Spec => []ShownUnlessStale
<1>1. Init => ShowInv
  BY DEF Init, ShowInv
<1>2. ASSUME TypeOK, PinInv, ShowInv, [Next]_vars PROVE ShowInv'
  <2> USE <1>2 DEF TypeOK, ShowInv, systemVars, listVars, pageVars, pinVars, workerVars
  <2>1. CASE System
    BY <2>1 DEF System, Plug, Unplug, UdisksChanges, SystemFrame
  <2>2. CASE AutoRefreshDrives \/ \E n \in Names \cup {NoRow} : Select(n)
    BY <2>2 DEF AutoRefreshDrives, Select
  <2>3. CASE GoNextDrive
    <3>1. ~stale' => selected = NoRow \/ Listed[selected] = last_drives[selected]
      BY <2>3, Zenon DEF GoNextDrive
    <3>2. /\ current_step' = 1 /\ drive_ident' = Identity(selected)
          /\ UNCHANGED <<selected, last_drives>>
      BY <2>3 DEF GoNextDrive, RememberDrive
    <3>3. selected = NoRow => Identity(selected) = NoDisk
      BY RowFacts DEF Identity
    <3>4. Listed[selected] = last_drives[selected] /\ Identity(selected) # NoDisk
            => last_drives[selected] = Model(Identity(selected))
      BY DEF Identity, Listed
    <3>5. ~stale' => \/ drive_ident' = NoDisk
                     \/ last_drives'[selected'] = Model(drive_ident')
      BY <3>1, <3>2, <3>3, <3>4, Zenon
    <3> QED BY <3>2, <3>5
  <2>4. CASE GoNextIso
    BY <2>4 DEF GoNextIso, UpdateSummary
  <2>5. CASE GoBack
    BY <2>5 DEF GoBack, OpenPage
  <2>8. CASE Start \/ Restart \/ Rebuild
    BY <2>8 DEF Start, Flash, Restart, OpenPage, Rebuild
  <2>9. CASE Install \/ InstallEnds
    BY <2>9 DEF Install, InstallEnds
  <2>10. CASE StartInstalled
    <3>1. ~stale' => ~stale /\ ~(current_step < 2)
      BY <2>10, Zenon DEF StartInstalled
    <3>2. UNCHANGED <<last_drives, selected, drive_ident, selected_dev>>
      BY <2>10 DEF StartInstalled
    <3> QED BY <3>1, <3>2
  <2>6. CASE Worker
    BY <2>6 DEF Worker, Check, Resolve, UnmountAll, Erase, WorkerFrame
  <2>7. CASE UNCHANGED vars
    BY <2>7 DEF vars
  <2> QED BY <2>1, <2>2, <2>3, <2>4, <2>5, <2>6, <2>7, <2>8, <2>9, <2>10 DEF Next, Window
<1>3. PinInv /\ ShowInv => ShownUnlessStale
  BY DEF PinInv, ShowInv, WrittenIsPinned, ShownUnlessStale
<1> QED BY <1>1, <1>2, <1>3, PinInit, PinNext, TypeCorrect, PTL DEF Spec
=============================================================================
