------------------------------- MODULE Wizard -------------------------------
(***************************************************************************)
(* The pages before a flash (main.py, LufuxWindow): an ISO is chosen, or   *)
(* dropped, a thread scans it for the system it holds, another lists the   *)
(* Windows editions in it, and what they find comes back through           *)
(* GLib.idle_add, in the order the threads end, on whatever page and over  *)
(* whatever dialog the user has reached by then.  The summary, the checks  *)
(* of the capacity and of the tools, and the flash each read the widgets   *)
(* at a moment of their own.  While missing tools are installed the pages  *)
(* stay usable, and the callback that ends an install lets Next go and     *)
(* opens the warnings over whatever page and ISO there are by then.        *)
(*                                                                         *)
(* Left out: the drive (DriveChoice; a valid one is selected), dialogs     *)
(* that only inform and what becomes of the flash (FlashSession), the      *)
(* scheme, which only the user changes as he does wtg_check, and wording.  *)
(***************************************************************************)
EXTENDS Naturals, Sequences, FiniteSets

CONSTANTS
  ISOs, NoISO,
  Nothing,      \* no summary, no check, no flash yet
  Kind(_),      \* what iso_kind finds: 0 Windows, 1 Linux, 2 anything else
  Count(_),     \* how many editions wimlib lists
  Corrections,  \* what the user may take an ISO for
  MaxChoices    \* ISOs chosen or dropped, languages changed, installs

ASSUME WizardAssumption ==
  /\ IsFiniteSet(ISOs) /\ NoISO \notin ISOs /\ MaxChoices \in Nat /\ Corrections \subseteq 0 .. 2
  /\ \A i \in ISOs : Kind(i) \in 0 .. 2 /\ Count(i) \in Nat

VARIABLES
  current_step,  \* 0 drive, 1 ISO, 2 summary, 3 flash
  btn_next,      \* Next is sensitive
  iso_path,
  analyzing,     \* the ISO being scanned for what system it holds
  editions_read, \* the ISO whose editions were read or are being read
  editions,      \* the list of the editions, empty until it was read
  os, wtg, edition,  \* os_dropdown, wtg_check, edition_dropdown
  iso_system,    \* of which ISO, and as what, the badge names the system
  jobs,
  scans, listings,  \* the analyze_worker and read_editions threads, per ISO
  installs,      \* the install_deps_worker threads
  idle,          \* GLib.idle_add callbacks not yet run
  shown,         \* what the summary says, while it is up or a flash started from it
  checked,       \* what the capacity and the tools were checked for, until the
                 \* user leaves the summary or lets the question go
  asking,        \* the questions that are up, the topmost first
  written,       \* what the flash was started with, and where
  choices,       \* what MaxChoices bounds
  corrected,     \* history: the user overruled the last scan
  rechosen,      \* history: iso_path was chosen with a job for it under way
  early          \* history: an install ended while iso_path was being scanned

pageVars == <<current_step, btn_next, shown>>
isoVars == <<iso_path, analyzing, editions_read, editions, iso_system>>
widgetVars == <<os, wtg, edition>>
jobVars == <<jobs, scans, listings, installs, idle>>
startVars == <<checked, asking, written>>
historyVars == <<choices, corrected, rechosen, early>>
vars == <<pageVars, isoVars, widgetVars, jobVars, startVars, historyVars>>

\* parse_wim_info: the n-th image of i.
Editions(i) == [n \in 1 .. Count(i) |-> <<i, n>>]
AllEditions == UNION {{<<i, n>> : n \in 1 .. Count(i)} : i \in ISOs}
NoEdition == <<NoISO, 0>>

Modes == [os : 0 .. 2, wtg : BOOLEAN, edition : AllEditions \cup {NoEdition}]

ASSUME NothingAssumption == Nothing \notin Modes

\* To install what is missing; the warnings; the same after an install.
Questions == {"install", "warnings", "installed"}

Starts == [iso : ISOs, mode : Modes, page : 0 .. 3, asked : Questions,
           checked : Modes \cup {Nothing}]
Summaries == [iso : ISOs, mode : Modes, system : [of : ISOs \cup {NoISO}, windows : BOOLEAN]]
Callbacks ==
  [fn : {"apply_kind"}, iso : ISOs]
  \cup [fn : {"apply_editions"}, iso : ISOs, list : Seq(AllEditions)]
  \cup [fn : {"on_deps_installed_success", "show_deps_error"}, iso : {NoISO}]

TypeOK ==
  /\ current_step \in 0 .. 3 /\ btn_next \in BOOLEAN
  /\ iso_path \in ISOs \cup {NoISO} /\ analyzing \in ISOs \cup {NoISO}
  /\ editions_read \in ISOs \cup {NoISO} /\ editions \in Seq(AllEditions)
  /\ os \in 0 .. 2 /\ wtg \in BOOLEAN /\ edition \in Nat \ {0}
  /\ iso_system \in [of : ISOs \cup {NoISO}, windows : BOOLEAN]
  /\ jobs \in Nat /\ scans \in [ISOs -> Nat] /\ listings \in [ISOs -> Nat]
  /\ installs \in Nat /\ idle \in Seq(Callbacks)
  /\ shown \in Summaries \cup {Nothing}
  /\ checked \in Modes \cup {Nothing} /\ asking \in Seq(Questions)
  /\ written \in Starts \cup {Nothing}
  /\ choices \in 0 .. MaxChoices
  /\ corrected \in BOOLEAN /\ rechosen \in BOOLEAN /\ early \in BOOLEAN

Init ==
  /\ current_step = 0 /\ btn_next = TRUE
  /\ iso_path = NoISO /\ analyzing = NoISO /\ editions_read = NoISO /\ editions = <<>>
  /\ os = 2 /\ wtg = FALSE /\ edition = 1
  /\ iso_system = [of |-> NoISO, windows |-> FALSE]
  /\ jobs = 0 /\ scans = [i \in ISOs |-> 0] /\ listings = [i \in ISOs |-> 0]
  /\ installs = 0 /\ idle = <<>>
  /\ shown = Nothing /\ checked = Nothing /\ asking = <<>> /\ written = Nothing
  /\ choices = 0 /\ corrected = FALSE /\ rechosen = FALSE /\ early = FALSE

-----------------------------------------------------------------------------
(* What several handlers do                                                *)

ToGo == os = 0 /\ wtg

\* The dropdowns as a flash reads them, selected_img_index included; the
\* edition is known once it was read.
Mode ==
  [os |-> os, wtg |-> ToGo,
   edition |-> IF ToGo /\ edition <= Len(editions) THEN editions[edition] ELSE NoEdition]

\* update_ui_state, at the end of a handler, and update_summary_data with it.
UpdateUiState ==
  /\ btn_next' = (current_step' = 1 => iso_path' # NoISO /\ analyzing' = NoISO)
  /\ shown' = CASE current_step' = 2 ->
                     [iso |-> iso_path', mode |-> Mode', system |-> iso_system']
                [] current_step' = 3 -> shown
                [] OTHER -> Nothing

\* Mutant: the badge is renamed only when the dropdown changes.
BadgeOnChange ==
  iso_system' = IF os' = os THEN iso_system ELSE [of |-> iso_path, windows |-> os' = 0]

\* update_iso_badge
UpdateIsoBadge ==
  iso_system' = IF iso_path = NoISO THEN iso_system ELSE [of |-> iso_path, windows |-> os' = 0]

\* Mutant: the listing is not one of the jobs.
ReadUncounted(left) ==
  /\ jobs' = left
  /\ IF iso_path \notin {NoISO, editions_read}
     THEN editions_read' = iso_path /\ listings' = [listings EXCEPT ![iso_path] = @ + 1]
     ELSE UNCHANGED <<editions_read, listings>>

\* start_reading_editions: once per chosen ISO; with it the callers' jobs,
\* from which a callback that runs has been taken off already.
StartReadingEditions(left) ==
  IF iso_path \notin {NoISO, editions_read}
  THEN /\ editions_read' = iso_path
       /\ jobs' = left + 1
       /\ listings' = [listings EXCEPT ![iso_path] = @ + 1]
  ELSE jobs' = left /\ UNCHANGED <<editions_read, listings>>

\* Mutant: one scan at a time, the path that came meanwhile is forgotten.
SetIsoOneScan(i) ==
  /\ iso_path' = i /\ editions' = <<>> /\ editions_read' = NoISO /\ analyzing' = i
  /\ IF analyzing = NoISO
     THEN jobs' = jobs + 1 /\ scans' = [scans EXCEPT ![i] = @ + 1]
     ELSE UNCHANGED <<jobs, scans>>

\* set_iso
SetIso(i) ==
  /\ iso_path' = i /\ editions' = <<>> /\ editions_read' = NoISO /\ analyzing' = i
  /\ jobs' = jobs + 1 /\ scans' = [scans EXCEPT ![i] = @ + 1]

JobsFor(i) == scans[i] + listings[i] + Cardinality({n \in 1 .. Len(idle) : idle[n].iso = i})

-----------------------------------------------------------------------------
(* The user                                                                *)

AtPage(step) == current_step = step /\ asking = <<>>

\* on_file_selected on the ISO page; on_drop on the drive page too, which then
\* goes on to the ISO page.  Neither minds a question that came up meanwhile.
ChooseIso(i) ==
  /\ current_step < 2
  /\ choices < MaxChoices /\ choices' = choices + 1
  /\ SetIso(i) /\ current_step' = 1 /\ UpdateUiState
  /\ corrected' = FALSE /\ rechosen' = (JobsFor(i) > 0) /\ early' = FALSE
  /\ checked' = Nothing
  /\ UNCHANGED <<iso_system, widgetVars, listings, installs, idle, asking, written>>

\* on_os_changed, when the user corrects the guess.
OnOsChanged(kind) ==
  /\ AtPage(1) /\ kind # os /\ os' = kind
  /\ IF kind = 0
     THEN StartReadingEditions(jobs)
     ELSE UNCHANGED <<editions_read, jobs, listings>>
  /\ UpdateIsoBadge /\ corrected' = TRUE
  /\ UNCHANGED <<pageVars, iso_path, analyzing, editions, wtg, edition, scans, installs,
                 idle, startVars, choices, rechosen, early>>

\* The widgets that on_os_changed and on_wtg_toggled left visible.
PickWtg ==
  /\ AtPage(1) /\ os = 0 /\ wtg' = ~wtg
  /\ UNCHANGED <<pageVars, isoVars, os, edition, jobVars, startVars, historyVars>>
PickEdition(n) ==
  /\ AtPage(1) /\ ToGo /\ Len(editions) > 1 /\ n \in 1 .. Len(editions) /\ edition' = n
  /\ UNCHANGED <<pageVars, isoVars, os, wtg, jobVars, startVars, historyVars>>

Turn(step) ==
  /\ current_step' = step
  /\ UNCHANGED <<isoVars, widgetVars, jobVars, asking, written, historyVars>> /\ UpdateUiState
GoNext == (AtPage(0) \/ AtPage(1)) /\ btn_next /\ Turn(current_step + 1) /\ UNCHANGED checked
GoBack == (AtPage(1) \/ AtPage(2)) /\ Turn(current_step - 1) /\ checked' = Nothing

\* request_start and proceed_to_warnings: too small a drive ends it there,
\* else what fits and what tools there are is decided for these choices.
RequestStart ==
  /\ AtPage(2) /\ btn_next
  /\ checked' = Mode /\ \E q \in {"install", "warnings"} : asking' = <<q>>
  /\ UNCHANGED <<pageVars, isoVars, widgetVars, jobVars, written, historyVars>>

Answered == asking' = Tail(asking)

\* Cancel in the topmost question.
Cancel ==
  /\ asking # <<>> /\ Answered
  /\ checked' = IF asking' = <<>> THEN Nothing ELSE checked
  /\ UNCHANGED <<pageVars, isoVars, widgetVars, jobVars, written, historyVars>>

\* on_install_deps_response "install"
OnInstallDepsResponse ==
  /\ asking # <<>> /\ Head(asking) = "install" /\ Answered
  /\ choices < MaxChoices /\ choices' = choices + 1
  /\ btn_next' = FALSE /\ jobs' = jobs + 1 /\ installs' = installs + 1
  /\ UNCHANGED <<current_step, shown, isoVars, widgetVars, scans, listings, idle,
                 checked, written, corrected, rechosen, early>>

\* on_warn2_response "yes" reads the dropdowns once more.
OnWarn2Response ==
  /\ asking # <<>> /\ Head(asking) # "install" /\ Answered
  /\ current_step' = 3
  /\ written' = [iso |-> iso_path, mode |-> Mode, page |-> current_step,
                 asked |-> Head(asking), checked |-> checked]
  /\ UNCHANGED <<btn_next, shown, isoVars, widgetVars, jobVars, checked, historyVars>>

\* on_error_response "restart"
Restart ==
  /\ current_step = 3 /\ current_step' = 0 /\ written' = Nothing /\ checked' = Nothing
  /\ UNCHANGED <<isoVars, widgetVars, jobVars, asking, historyVars>> /\ UpdateUiState

\* on_lang_changed and rebuild: a new window with this one's ISO; not while a
\* job would report back to the old one.
Rebuild ==
  /\ AtPage(current_step) /\ current_step < 3 /\ jobs = 0
  /\ choices < MaxChoices /\ choices' = choices + 1
  /\ current_step' = 0 /\ edition' = 1 /\ os' = 2 /\ wtg' = FALSE
  /\ iso_system' = [of |-> NoISO, windows |-> FALSE]
  /\ checked' = Nothing /\ corrected' = FALSE /\ early' = FALSE
  /\ IF iso_path = NoISO
     THEN UNCHANGED <<iso_path, analyzing, editions_read, editions, jobs, scans>>
     ELSE SetIso(iso_path)
  /\ UpdateUiState /\ rechosen' = FALSE
  /\ UNCHANGED <<listings, installs, idle, asking, written>>

-----------------------------------------------------------------------------
(* The threads and what they report                                        *)

JobFrame == UNCHANGED <<pageVars, isoVars, widgetVars, jobs, startVars, historyVars>>

AnalyzeWorker(i) ==
  /\ scans[i] > 0 /\ scans' = [scans EXCEPT ![i] = @ - 1]
  /\ idle' = Append(idle, [fn |-> "apply_kind", iso |-> i])
  /\ JobFrame /\ UNCHANGED <<listings, installs>>

\* list_iso_editions, [] when the image cannot be mounted or read.
ReadEditions(i) ==
  /\ listings[i] > 0 /\ listings' = [listings EXCEPT ![i] = @ - 1]
  /\ \E list \in {<<>>, Editions(i)} :
       idle' = Append(idle, [fn |-> "apply_editions", iso |-> i, list |-> list])
  /\ JobFrame /\ UNCHANGED <<scans, installs>>

\* install_deps_worker
InstallDepsWorker ==
  /\ installs > 0 /\ installs' = installs - 1
  /\ \E fn \in {"on_deps_installed_success", "show_deps_error"} :
       idle' = Append(idle, [fn |-> fn, iso |-> NoISO])
  /\ JobFrame /\ UNCHANGED <<scans, listings>>

\* Mutant: only a job whose ISO is still chosen is taken off.
OutdatedStillCounted ==
  UNCHANGED <<pageVars, isoVars, widgetVars, jobs, listings, scans, installs, startVars,
                 historyVars>>

Called(fn) == idle # <<>> /\ Head(idle).fn = fn /\ idle' = Tail(idle)

\* A second ISO was chosen meanwhile.
Outdated ==
  /\ jobs' = jobs - 1
  /\ UNCHANGED <<pageVars, isoVars, widgetVars, listings, scans, installs, startVars, historyVars>>

\* Mutant: a scan of whatever ISO counts.
ApplyAnyKind ==
  /\ Called("apply_kind") /\ analyzing' = NoISO /\ os' = Kind(Head(idle).iso)
  /\ IF os' = 0 THEN StartReadingEditions(jobs - 1)
     ELSE jobs' = jobs - 1 /\ UNCHANGED <<editions_read, listings>>
  /\ UNCHANGED <<current_step, iso_path, editions, wtg, edition, scans, installs, startVars,
                 choices, rechosen, early>>
  /\ corrected' = FALSE /\ UpdateIsoBadge /\ UpdateUiState

\* apply_kind
ApplyKind ==
  /\ Called("apply_kind")
  /\ \/ Head(idle).iso # iso_path /\ Outdated
     \/ /\ Head(idle).iso = iso_path /\ analyzing' = NoISO
        /\ os' = Kind(iso_path) /\ corrected' = FALSE
        /\ IF os' = 0
           THEN StartReadingEditions(jobs - 1)
           ELSE jobs' = jobs - 1 /\ UNCHANGED <<editions_read, listings>>
        /\ UNCHANGED <<current_step, iso_path, editions, wtg, edition, scans, installs,
                       startVars, choices, rechosen, early>>
        /\ UpdateIsoBadge /\ UpdateUiState

\* Mutant: a list of whatever ISO counts.
ApplyAnyEditions ==
  /\ Called("apply_editions") /\ jobs' = jobs - 1
  /\ editions' = Head(idle).list /\ edition' = 1
  /\ UNCHANGED <<pageVars, iso_path, analyzing, editions_read, os, wtg, scans, listings,
                 installs, startVars, historyVars, iso_system>>

\* apply_editions: the first of them is selected; the summary is left alone.
ApplyEditions ==
  /\ Called("apply_editions")
  /\ \/ Head(idle).iso # iso_path /\ Outdated
     \/ /\ Head(idle).iso = iso_path /\ jobs' = jobs - 1
        /\ editions' = Head(idle).list /\ edition' = 1
        /\ UNCHANGED <<pageVars, iso_path, analyzing, editions_read, os, wtg, scans,
                       listings, installs, startVars, historyVars>>
        /\ iso_system' = [of |-> iso_path, windows |-> os = 0]

\* What both ends of an install do.
InstallEnded ==
  /\ jobs' = jobs - 1 /\ btn_next' = TRUE /\ early' = (early \/ analyzing # NoISO)
  /\ UNCHANGED <<current_step, shown, isoVars, widgetVars, scans, listings, installs,
                 checked, written, choices, corrected, rechosen>>

\* on_deps_installed_success: straight to the warnings.
OnDepsInstalledSuccess ==
  /\ Called("on_deps_installed_success") /\ InstallEnded
  /\ asking' = <<"installed">> \o asking

\* show_deps_error
ShowDepsError == Called("show_deps_error") /\ InstallEnded /\ UNCHANGED asking

-----------------------------------------------------------------------------
LoopStep == ApplyKind \/ ApplyEditions \/ OnDepsInstalledSuccess \/ ShowDepsError

UserStep ==
  \/ \E i \in ISOs : ChooseIso(i)
  \/ \E kind \in Corrections : OnOsChanged(kind)
  \/ PickWtg \/ (\E n \in 1 .. Len(editions) : PickEdition(n))
  \/ GoNext \/ GoBack \/ RequestStart \/ Cancel \/ OnInstallDepsResponse
  \/ OnWarn2Response \/ Restart \/ Rebuild

Next ==
  \/ UserStep \/ LoopStep \/ InstallDepsWorker
  \/ \E i \in ISOs : AnalyzeWorker(i) \/ ReadEditions(i)

Spec == Init /\ [][Next]_vars

\* The event loop runs what is queued; a scan is bounded by ISO_SCAN, so its
\* thread ends.  A listing may wait for a password as long as it likes.
LiveSpec == Spec /\ WF_vars(LoopStep) /\ \A i \in ISOs : WF_vars(AnalyzeWorker(i))

-----------------------------------------------------------------------------
(* Properties                                                              *)

\* The threads under way, one by one.
Under(threads) == {t \in ISOs \X (1 .. MaxChoices) : t[2] <= threads[t[1]]}

\* "background jobs other than the flash that report back to this window":
\* jobs counts the threads and the callbacks, so that a window is swapped only
\* when nothing would report back to a destroyed one.
JobsCounted ==
  jobs = Cardinality(Under(scans)) + Cardinality(Under(listings)) + installs + Len(idle)

\* apply_editions: the editions on offer are the chosen ISO's, however many
\* ISOs were chosen while others were still being read.
EditionsOwn == editions # <<>> => editions = Editions(iso_path)

\* update_ui_state: "the OS guess decides the summary, wait for it".  On the
\* summary the mode is what the scan of the chosen ISO found, unless the user
\* overruled it; the scan is still under way there only if the end of an install
\* let Next go.
GuessAwaited ==
  current_step = 2 => IF analyzing = NoISO THEN corrected \/ os = Kind(iso_path) ELSE early

\* Equal, or but for the edition.
SameMode(m, n) == [m EXCEPT !.edition = NoEdition] = [n EXCEPT !.edition = NoEdition]

\* The summary is refreshed by what arrives while it is up: the ISO and the mode
\* of a flash that is started from it are the ones it showed, and so is the
\* system, unless the end of an install let Next go before the scan named it.
SummaryIsWritten ==
  written # Nothing /\ written.page = 2 =>
    /\ shown.iso = written.iso /\ SameMode(shown.mode, written.mode)
    /\ early \/ shown.system = [of |-> written.iso, windows |-> written.mode.os = 0]

\* What is written is what the capacity and the tools were checked for, or of
\* an edition that was not known then.  Only the warnings that an install opens
\* lead from the summary to a flash that nothing was checked for, of what was
\* chosen since; and a scan that comes late, of an ISO chosen again with a job
\* for it under way or passed by the end of an install, changes what was checked.
CheckedIsWritten ==
  written # Nothing /\ ~rechosen /\ ~early =>
    IF written.checked = Nothing
    THEN written.asked = "installed" \/ written.page # 2
    ELSE \/ written.mode = written.checked
         \/ written.checked.edition = NoEdition /\ SameMode(written.mode, written.checked)

\* A chosen ISO never leaves Next greyed out for good, also if others were
\* chosen and are still being scanned.
NextComes == current_step = 1 /\ iso_path # NoISO ~> btn_next \/ current_step # 1

\* update_summary_data: "the summary is the only place that says which Windows
\* is about to be written".
SummaryTellsEdition ==
  written # Nothing /\ written.page = 2 => shown.mode.edition = written.mode.edition
=============================================================================
