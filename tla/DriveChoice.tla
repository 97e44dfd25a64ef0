---------------------------- MODULE DriveChoice -----------------------------
(***************************************************************************)
(* Which disk a flash writes to: the drive list of the first page and its  *)
(* polling, the choice, the disk that is pinned when the user goes on, and *)
(* the worker that looks at it once more (main.py, udisks_logic.py).       *)
(*                                                                         *)
(* A disk is told from another by drive_identity; a row of the list shows  *)
(* only its device name, size and model.  Sticks come and go at any device *)
(* name, and udisks may not answer.  The list is a function from the       *)
(* device names to the models shown, in the order of the names.            *)
(*                                                                         *)
(* The pages stay usable while missing tools are installed, and the        *)
(* callback that ends an install lets Next go and opens the warnings on    *)
(* whatever page the user has reached.                                     *)
(***************************************************************************)
EXTENDS Integers, FiniteSets

CONSTANTS
  Names,          \* device names, numbered in the order of the list
  Disks,          \* the sticks, by what drive_identity returns
  NoDisk,         \* drive_identity's None, and an empty device name
  Models,         \* the texts of a row after the device name
  NoModel,        \* no row for this name
  Model(_),       \* the text a disk is listed with
  HotplugWaits,   \* no stick is swapped while the writer waits for a password
  MaxInstalls     \* installs under way at once

ASSUME NamesAssumption == Names \subseteq Nat \ {0}
ASSUME DisksAssumption == NoDisk \notin Disks /\ NoModel \notin Models
ASSUME ModelAssumption == \A d \in Disks : Model(d) \in Models
ASSUME PaceAssumption == HotplugWaits \in BOOLEAN /\ MaxInstalls \in Nat

NoRow == 0

VARIABLES
  disk,          \* the disk at each device name
  udisks,        \* udisks answers
  last_drives,   \* the rows of the list
  pick,          \* a row that asks to pick a drive is the first of them
  selected,      \* the selected row, NoRow if it stands for no drive
  current_step,
  btn_next,      \* Next is sensitive, on the first page
  installs,      \* installs under way, until their callback has been answered
  drive_ident,
  selected_dev,
  pc,            \* the worker: "idle", "check", "resolve", "unmount", "erase" or "ended"
  written,       \* the disk this flash wiped
  stale          \* history: the pinned drive's row was out of date, or the flash
                 \* was not started from the summary

systemVars == <<disk, udisks>>
listVars == <<last_drives, pick, selected>>
pinVars == <<drive_ident, selected_dev>>
workerVars == <<pc, written>>
pageVars == <<current_step, btn_next, installs>>
vars == <<systemVars, listVars, pageVars, pinVars, workerVars, stale>>

TypeOK ==
  /\ disk \in [Names -> Disks \cup {NoDisk}]
  /\ udisks \in BOOLEAN
  /\ last_drives \in [Names -> Models \cup {NoModel}]
  /\ pick \in BOOLEAN
  /\ selected \in Names \cup {NoRow}
  /\ current_step \in 0 .. 3 /\ btn_next \in BOOLEAN /\ installs \in 0 .. MaxInstalls
  /\ drive_ident \in Disks \cup {NoDisk}
  /\ selected_dev \in Names \cup {NoRow}
  /\ pc \in {"idle", "check", "resolve", "unmount", "erase", "ended"}
  /\ written \in Disks \cup {NoDisk} /\ stale \in BOOLEAN

-----------------------------------------------------------------------------
(* The list                                                                *)

\* get_usb_drives: what udisks lists, or the row that says there is nothing.
Listed == [n \in Names |->
  IF udisks /\ disk[n] # NoDisk THEN Model(disk[n]) ELSE NoModel]
NoList == [n \in Names |-> NoModel]
Rows(list) == {n \in Names : list[n] # NoModel}
FirstRow(list) == CHOOSE n \in Rows(list) : \A m \in Rows(list) : n <= m

\* Mutant: the old reselect, set_model() puts the selection on the first row.
ReselectFirst(list, chosen, before) ==
  IF chosen \in Rows(list) THEN chosen
  ELSE IF Rows(list) # {} THEN FirstRow(list) ELSE NoRow

\* reselect; `chosen` is NoRow when no drive was, and the first row is taken
\* only after a list without drives.
Reselect(list, chosen, before) ==
  IF chosen \in Rows(list) THEN chosen
  ELSE IF chosen = NoRow /\ Rows(before) = {} /\ Rows(list) # {} THEN FirstRow(list) ELSE NoRow

\* The part of auto_refresh_drives that replaces the list.
Replace ==
  /\ last_drives' = Listed
  /\ selected' = Reselect(Listed, selected, last_drives)
  /\ pick' = (selected' = NoRow /\ Rows(Listed) # {})
  /\ btn_next' = (selected' # NoRow)

\* drive_identity: None when udisks does not answer or does not know the name.
Identity(n) == IF udisks /\ n \in Names THEN disk[n] ELSE NoDisk

\* A window that has just been made, its list read once.
Init ==
  /\ disk \in [Names -> Disks \cup {NoDisk}]
  /\ \A m, n \in Names : disk[m] = disk[n] /\ disk[m] # NoDisk => m = n
  /\ udisks \in BOOLEAN
  /\ last_drives = Listed
  /\ selected = Reselect(Listed, NoRow, NoList)
  /\ pick = FALSE
  /\ current_step = 0 /\ btn_next = (selected # NoRow) /\ installs = 0
  /\ drive_ident = NoDisk /\ selected_dev = NoRow
  /\ pc = "idle" /\ written = NoDisk /\ stale = FALSE

-----------------------------------------------------------------------------
(* Sticks and udisks                                                       *)

\* Nothing is swapped within the moment between two calls; a writer that may
\* wait for a password is another matter.
Quiet == pc # "resolve" /\ (HotplugWaits => pc \notin {"unmount", "erase"})
SystemFrame == UNCHANGED <<listVars, pageVars, pinVars, workerVars, stale>>

Plug(n, d) ==
  /\ disk[n] = NoDisk /\ \A m \in Names : disk[m] # d
  /\ Quiet
  /\ disk' = [disk EXCEPT ![n] = d]
  /\ UNCHANGED udisks /\ SystemFrame

Unplug(n) ==
  /\ disk[n] # NoDisk
  /\ Quiet
  /\ disk' = [disk EXCEPT ![n] = NoDisk]
  /\ UNCHANGED udisks /\ SystemFrame

\* udisks goes away or comes back.
UdisksChanges ==
  /\ Quiet
  /\ udisks' = ~udisks
  /\ UNCHANGED disk /\ SystemFrame

-----------------------------------------------------------------------------
(* The window                                                              *)

\* Mutant: the list goes on being refreshed on the later pages.
RefreshAlways ==
  /\ Listed # last_drives
  /\ Replace
  /\ UNCHANGED <<systemVars, current_step, installs, pinVars, workerVars, stale>>

\* auto_refresh_drives, every two seconds.
AutoRefreshDrives ==
  /\ current_step = 0 /\ Listed # last_drives
  /\ Replace
  /\ UNCHANGED <<systemVars, current_step, installs, pinVars, workerVars, stale>>

Select(n) ==
  /\ current_step = 0 /\ n # selected
  /\ n \in Rows(last_drives) \/ (pick /\ n = NoRow)
  /\ selected' = n /\ btn_next' = (n # NoRow)
  /\ UNCHANGED <<systemVars, last_drives, pick, current_step, installs, pinVars,
                 workerVars, stale>>

\* remember_drive
RememberDrive == drive_ident' = Identity(selected) /\ UNCHANGED selected_dev

\* go_next on the drive page, and on_drop of an ISO there.  What is pinned is
\* whatever has the row's name by now; of a row that is no drive, nothing.
GoNextDrive ==
  /\ current_step = 0 /\ btn_next
  /\ RememberDrive /\ current_step' = 1
  /\ stale' = (selected # NoRow /\ Listed[selected] # last_drives[selected])
  /\ UNCHANGED <<systemVars, listVars, btn_next, installs, workerVars>>

\* Mutant: the disk is pinned again when the summary is shown.
SummaryPins == selected_dev' = selected /\ drive_ident' = Identity(selected)

\* update_summary_data
UpdateSummary == selected_dev' = selected /\ UNCHANGED drive_ident

\* go_next on the ISO page.
GoNextIso ==
  /\ current_step = 1 /\ current_step' = 2
  /\ UpdateSummary
  /\ UNCHANGED <<systemVars, listVars, btn_next, installs, workerVars, stale>>

\* update_ui_state, where it opens the drive page.
OpenPage(step) ==
  current_step' = step /\ btn_next' = IF step = 0 THEN selected # NoRow ELSE btn_next

\* Mutant: go_back without its bound.
GoBackUnbounded ==
  /\ current_step \in 0 .. 2 /\ OpenPage(current_step - 1)
  /\ UNCHANGED <<systemVars, listVars, installs, pinVars, workerVars, stale>>

GoBack ==
  /\ current_step \in {1, 2} /\ OpenPage(current_step - 1)
  /\ UNCHANGED <<systemVars, listVars, installs, pinVars, workerVars, stale>>

\* on_warn2_response: worker_thread with self.selected_dev.
Flash == current_step' = 3 /\ pc' = "check" /\ written' = NoDisk

\* The user confirmed both warnings over the summary.
Start ==
  /\ current_step = 2 /\ pc = "idle" /\ Flash
  /\ UNCHANGED <<systemVars, listVars, btn_next, installs, pinVars, stale>>

\* on_install_deps_response, over the summary.
Install ==
  /\ current_step = 2 /\ installs < MaxInstalls /\ installs' = installs + 1
  /\ UNCHANGED <<systemVars, listVars, current_step, btn_next, pinVars, workerVars, stale>>

\* show_deps_error, or on_deps_installed_success and no to its warnings.
InstallEnds ==
  /\ installs > 0 /\ installs' = installs - 1 /\ btn_next' = TRUE
  /\ UNCHANGED <<systemVars, listVars, current_step, pinVars, workerVars, stale>>

\* on_deps_installed_success, and its warnings confirmed, on whatever page; over
\* a flash that is still running it is FlashSession's.
StartInstalled ==
  /\ installs > 0 /\ installs' = installs - 1 /\ btn_next' = TRUE
  /\ pc \in {"idle", "ended"} /\ Flash
  /\ stale' = (stale \/ current_step < 2)
  /\ UNCHANGED <<systemVars, listVars, pinVars>>

\* on_error_response "restart"
Restart ==
  /\ current_step = 3 /\ pc = "ended"
  /\ OpenPage(0) /\ pc' = "idle" /\ written' = NoDisk
  /\ UNCHANGED <<systemVars, listVars, installs, pinVars, stale>>

\* rebuild, for a new language: a new window, whose first list preselects its
\* first row, then the drive that was selected if it is still there.
Rebuild ==
  /\ pc \in {"idle", "ended"} /\ installs = 0
  /\ last_drives' = Listed
  /\ selected' = IF selected \in Rows(Listed) THEN selected ELSE Reselect(Listed, NoRow, NoList)
  /\ pick' = FALSE
  /\ current_step' = 0 /\ btn_next' = (selected' # NoRow)
  /\ drive_ident' = NoDisk /\ selected_dev' = NoRow
  /\ pc' = "idle" /\ written' = NoDisk /\ stale' = FALSE
  /\ UNCHANGED <<systemVars, installs>>

-----------------------------------------------------------------------------
(* The worker                                                              *)

Goes(from, to) == pc = from /\ pc' = to
WorkerFrame == UNCHANGED <<systemVars, listVars, pageVars, pinVars, stale>>

\* Mutant: the disk is told by its size and model alone.
CheckModel ==
  /\ Goes("check", IF Identity(selected_dev) # NoDisk /\ Model(Identity(selected_dev)) = last_drives[selected]
                   THEN "resolve" ELSE "ended")
  /\ WorkerFrame /\ UNCHANGED written

\* udisks_worker: drive_identity(dev) != self.drive_ident ends the flash.
Check ==
  /\ Goes("check", IF Identity(selected_dev) = drive_ident THEN "resolve" ELSE "ended")
  /\ WorkerFrame /\ UNCHANGED written

\* resolve: from here on the writer has an object path, which is the name.
Resolve ==
  /\ Goes("resolve", IF Identity(selected_dev) = NoDisk THEN "ended" ELSE "unmount")
  /\ WorkerFrame /\ UNCHANGED written

\* unmount_all; the writer waits for the password of every call that needs one.
UnmountAll ==
  /\ Goes("unmount", "erase") \/ Goes("unmount", "ended")
  /\ WorkerFrame /\ UNCHANGED written

\* The first call that destroys what is on the disk: Format, or OpenDevice
\* for the copy, of the disk that has the name now.
Erase ==
  /\ \/ /\ Identity(selected_dev) # NoDisk
        /\ Goes("erase", "ended") /\ written' = Identity(selected_dev)
     \/ Goes("erase", "ended") /\ UNCHANGED written
  /\ WorkerFrame

-----------------------------------------------------------------------------
System == (\E n \in Names : Unplug(n) \/ \E d \in Disks : Plug(n, d)) \/ UdisksChanges

Window ==
  \/ AutoRefreshDrives \/ (\E n \in Names \cup {NoRow} : Select(n))
  \/ GoNextDrive \/ GoNextIso \/ GoBack \/ Start \/ Restart \/ Rebuild
  \/ Install \/ InstallEnds \/ StartInstalled

Worker == Check \/ Resolve \/ UnmountAll \/ Erase

Next == System \/ Window \/ Worker

Spec == Init /\ [][Next]_vars

-----------------------------------------------------------------------------
(* Properties                                                              *)

\* remember_drive: "the chosen disk is pinned here and checked again right
\* before writing".  The disk that is wiped is the one that was pinned.
WrittenIsPinned == written # NoDisk => written = drive_ident

\* The disk that is wiped is listed, on the summary page too, as the row the
\* user chose.  Not so: the list is up to two seconds old when the user goes on.
WrittenIsShown == written # NoDisk => last_drives[selected_dev] = Model(written)

\* The list stops refreshing past the first page: from the click on, whatever
\* is plugged, the disk that is wiped is listed as the row the summary shows,
\* if the row was up to date when the disk was pinned and the flash was started
\* from the summary.
ShownUnlessStale ==
  written # NoDisk /\ ~stale => last_drives[selected_dev] = Model(written)

\* A disk is pinned only of a row that is one, which the summary goes on to
\* name as update_summary_data assumes: the list is not replaced under it, and
\* an install's callback that lets Next go on no drive pins none.
DriveSelected ==
  current_step \in 1 .. 2 /\ drive_ident # NoDisk => selected \in Rows(last_drives)

\* reselect: "if that drive is gone no drive is chosen for the user rather
\* than another one".  No refresh moves the choice onto another drive.
NeverAnother == [][AutoRefreshDrives /\ selected # NoRow => selected' \in {selected, NoRow}]_vars
=============================================================================
