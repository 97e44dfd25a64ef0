---------------------------- MODULE WizardProofs ----------------------------
(***************************************************************************)
(* What holds of the pages before a flash for any ISOs, any number of      *)
(* editions in them, and any number of choices and installs.               *)
(***************************************************************************)
EXTENDS Wizard, FiniteSetTheorems, TLAPS

-----------------------------------------------------------------------------
(* The inductive invariant                                                 *)

\* What a thread may report of an ISO: the list of its editions is whole or
\* empty, never one of another ISO.  An install reports of none.
Reports ==
  [fn : {"apply_kind"}, iso : ISOs]
  \cup [fn : {"on_deps_installed_success", "show_deps_error"}, iso : {NoISO}]
  \cup UNION {[fn : {"apply_editions"}, iso : {i}, list : {<<>>, Editions(i)}] : i \in ISOs}

TypeInv ==
  /\ current_step \in 0 .. 3 /\ iso_path \in ISOs \cup {NoISO} /\ idle \in Seq(Reports)
  /\ analyzing \in {NoISO, iso_path}

\* Before the first ISO nothing is read, scanned, asked or installed.
BlankInv ==
  iso_path = NoISO =>
    /\ current_step < 2 /\ analyzing = NoISO /\ editions = <<>>
    /\ asking = <<>> /\ installs = 0 /\ idle = <<>>
    /\ \A i \in ISOs : scans[i] = 0 /\ listings[i] = 0

\* Where the pages are, and which variables say so.
PageInv ==
  /\ written # Nothing => current_step = 3
  /\ current_step = 1 /\ btn_next => iso_path # NoISO /\ (analyzing = NoISO \/ early)
  /\ current_step = 2 => analyzing = NoISO \/ early

\* Once a scan has reported, the dropdown is its guess or the user's, and the
\* badge names what the dropdown says.
GuessInv ==
  iso_path # NoISO /\ analyzing = NoISO =>
    /\ ~corrected => os = Kind(iso_path)
    /\ iso_system = [of |-> iso_path, windows |-> os = 0]

\* The summary, as far as it does not name an edition.
Tells(iso, m) ==
  /\ shown.iso = iso
  /\ shown.mode.os = m.os /\ shown.mode.wtg = m.wtg
  /\ shown.mode = [os |-> shown.mode.os, wtg |-> shown.mode.wtg, edition |-> shown.mode.edition]
ShownInv ==
  /\ current_step = 2 => Tells(iso_path, Mode) /\ (early \/ shown.system = iso_system)
  /\ written # Nothing =>
       written.mode = [os |-> written.mode.os, wtg |-> written.mode.wtg,
                       edition |-> written.mode.edition]
  /\ written # Nothing /\ written.page = 2 =>
       /\ Tells(written.iso, written.mode)
       /\ early \/ shown.system = [of |-> written.iso, windows |-> written.mode.os = 0]

WizardInv == TypeInv /\ BlankInv /\ PageInv /\ EditionsOwn /\ GuessInv /\ ShownInv

-----------------------------------------------------------------------------
(* Lemmas                                                                  *)

\* update_ui_state leaves Next and the summary true of what the handler did.
LEMMA UiIsUpdated ==
  ASSUME UpdateUiState
  PROVE  /\ (current_step = 1 /\ btn_next => iso_path # NoISO /\ analyzing = NoISO)'
         /\ (current_step = 2 => Tells(iso_path, Mode) /\ shown.system = iso_system)'
         /\ current_step' = 3 => shown' = shown
<1>1. ASSUME current_step' = 2
      PROVE  (Tells(iso_path, Mode) /\ shown.system = iso_system)'
  <2>1. shown' = [iso |-> iso_path', mode |-> Mode', system |-> iso_system']
    BY <1>1 DEF UpdateUiState
  <2> QED  BY <2>1 DEF Tells, Mode
<1>2. ASSUME current_step' = 3
      PROVE  shown' = shown
  BY <1>2 DEF UpdateUiState
<1>3. (current_step = 1 /\ btn_next => iso_path # NoISO /\ analyzing = NoISO)'
  BY DEF UpdateUiState
<1> QED  BY <1>1, <1>2, <1>3

\* What was written is told as before while neither it nor the summary changes.
LEMMA WrittenIsKept ==
  ASSUME ShownInv, UNCHANGED written, written' # Nothing => shown' = shown /\ (early => early'),
         (current_step = 2 => Tells(iso_path, Mode) /\ (early \/ shown.system = iso_system))'
  PROVE  ShownInv'
BY DEF ShownInv, Tells

\* The callback that runs is one of a thread's reports.
LEMMA HeadReports ==
  ASSUME TypeInv, NEW fn, Called(fn)
  PROVE  /\ Head(idle) \in Reports /\ Head(idle).fn = fn /\ idle' \in Seq(Reports)
         /\ fn = "apply_kind" => Head(idle).iso \in ISOs
         /\ fn = "apply_editions" =>
              Head(idle).iso \in ISOs /\ Head(idle).list \in {<<>>, Editions(Head(idle).iso)}
<1>1. Head(idle) \in Reports /\ Head(idle).fn = fn /\ idle' \in Seq(Reports)
  BY DEF TypeInv, Called
<1>2. fn = "apply_kind" => Head(idle).iso \in ISOs
  BY <1>1 DEF Reports
<1>3. fn = "apply_editions" =>
        Head(idle).iso \in ISOs /\ Head(idle).list \in {<<>>, Editions(Head(idle).iso)}
  BY <1>1 DEF Reports
<1> QED  BY <1>1, <1>2, <1>3

\* What leaves the ISO, the dropdowns, the page and the flash alone.
LEMMA RestKeeps ==
  ASSUME WizardInv, idle' \in Seq(Reports), BlankInv',
         UNCHANGED <<current_step, shown, iso_path, analyzing, editions, iso_system,
                     os, wtg, edition, written, corrected>>,
         early => early',
         btn_next' => btn_next \/ (iso_path # NoISO /\ (analyzing = NoISO \/ early'))
  PROVE  WizardInv'
<1>1. Mode' = Mode
  BY DEF Mode, ToGo
<1>2. TypeInv' /\ EditionsOwn' /\ GuessInv'
  BY DEF WizardInv, TypeInv, EditionsOwn, GuessInv
<1>3. PageInv'
  BY DEF WizardInv, PageInv
<1>4. ShownInv'
  BY <1>1 DEF WizardInv, ShownInv, Tells
<1> QED  BY <1>2, <1>3, <1>4 DEF WizardInv

LEMMA WizardStarts == Init => WizardInv
<1> SUFFICES ASSUME Init PROVE WizardInv
  OBVIOUS
<1>1. TypeInv /\ PageInv /\ EditionsOwn
  BY DEF Init, TypeInv, PageInv, EditionsOwn
<1>2. GuessInv /\ ShownInv /\ BlankInv
  BY DEF Init, GuessInv, ShownInv, BlankInv
<1> QED  BY <1>1, <1>2 DEF WizardInv

-----------------------------------------------------------------------------
(* The user's steps                                                        *)

LEMMA ChooseKeeps ==
  ASSUME WizardAssumption, WizardInv, NEW i \in ISOs, ChooseIso(i)
  PROVE  WizardInv'
<1>1. /\ current_step < 2 /\ current_step' = 1
      /\ iso_path' = i /\ editions' = <<>> /\ analyzing' = i
      /\ UNCHANGED <<iso_system, idle, written>> /\ UpdateUiState
  BY DEF ChooseIso, SetIso
<1>2. written = Nothing
  BY <1>1 DEF WizardInv, PageInv
<1>3. i # NoISO
  BY DEF WizardAssumption
<1>4. TypeInv' /\ BlankInv'
  BY <1>1, <1>3 DEF WizardInv, TypeInv, BlankInv
<1>5. PageInv'
  BY <1>1, <1>2, UiIsUpdated DEF PageInv
<1>6. EditionsOwn' /\ GuessInv'
  BY <1>1, <1>3 DEF EditionsOwn, GuessInv
<1>7. ShownInv'
  BY <1>1, <1>2 DEF ShownInv
<1> QED  BY <1>4, <1>5, <1>6, <1>7 DEF WizardInv

LEMMA CorrectKeeps ==
  ASSUME WizardInv, NEW k \in Corrections, OnOsChanged(k)
  PROVE  WizardInv'
<1>1. /\ current_step = 1 /\ asking = <<>> /\ os' = k /\ corrected' = TRUE
      /\ UNCHANGED <<current_step, btn_next, shown, iso_path, analyzing, editions, scans,
                     installs, idle, asking, written, early>>
  BY DEF OnOsChanged, AtPage, pageVars, startVars
<1>2. iso_path # NoISO => iso_system' = [of |-> iso_path, windows |-> os' = 0]
  BY DEF OnOsChanged, UpdateIsoBadge
<1>3. TypeInv' /\ PageInv'
  BY <1>1 DEF WizardInv, TypeInv, PageInv
<1>4. EditionsOwn'
  BY <1>1 DEF WizardInv, EditionsOwn
<1>5. BlankInv'
  <2>1. iso_path = NoISO => listings' = listings
    BY DEF OnOsChanged, StartReadingEditions
  <2> QED  BY <1>1, <2>1 DEF WizardInv, BlankInv
<1>6. GuessInv'
  BY <1>1, <1>2 DEF GuessInv
<1>7. ShownInv'
  BY <1>1 DEF WizardInv, PageInv, ShownInv
<1> QED  BY <1>3, <1>4, <1>5, <1>6, <1>7 DEF WizardInv

LEMMA PickKeeps ==
  ASSUME WizardInv, PickWtg \/ \E n \in 1 .. Len(editions) : PickEdition(n)
  PROVE  WizardInv'
<1>1. /\ current_step = 1
      /\ UNCHANGED <<current_step, btn_next, shown, iso_path, analyzing, editions, iso_system, os,
                     scans, listings, installs, idle, asking, written, corrected, early>>
  BY DEF PickWtg, PickEdition, AtPage, pageVars, isoVars, jobVars, startVars, historyVars
<1>2. TypeInv' /\ BlankInv' /\ PageInv' /\ EditionsOwn' /\ GuessInv'
  BY <1>1 DEF WizardInv, TypeInv, BlankInv, PageInv, EditionsOwn, GuessInv
<1>3. ShownInv'
  BY <1>1 DEF WizardInv, PageInv, ShownInv
<1> QED  BY <1>2, <1>3 DEF WizardInv

LEMMA TurnKeeps ==
  ASSUME WizardInv, GoNext \/ GoBack
  PROVE  WizardInv'
<1>1. PICK step \in 0 .. 2 :
        Turn(step) /\ (step = 2 => iso_path # NoISO /\ (analyzing = NoISO \/ early))
  <2>1. CASE GoNext
    BY <2>1 DEF GoNext, AtPage, WizardInv, PageInv
  <2>2. CASE GoBack
    BY <2>2 DEF GoBack, AtPage
  <2> QED  BY <2>1, <2>2
<1>2. /\ current_step' = step /\ UpdateUiState
      /\ UNCHANGED <<iso_path, analyzing, editions, iso_system, os, wtg, edition, scans, listings,
                     installs, idle, asking, written, corrected, early>>
  BY <1>1 DEF Turn, isoVars, widgetVars, jobVars, historyVars
<1>3. asking = <<>> /\ written = Nothing
  <2>1. asking = <<>> /\ current_step # 3
    BY DEF GoNext, GoBack, AtPage
  <2> QED  BY <2>1 DEF WizardInv, PageInv
<1>4. TypeInv' /\ EditionsOwn' /\ GuessInv'
  BY <1>2 DEF WizardInv, TypeInv, EditionsOwn, GuessInv
<1>5. BlankInv'
  BY <1>1, <1>2 DEF WizardInv, BlankInv
<1>6. PageInv'
  BY <1>1, <1>2, <1>3, UiIsUpdated DEF PageInv
<1>7. ShownInv'
  BY <1>2, <1>3, UiIsUpdated DEF ShownInv
<1> QED  BY <1>4, <1>5, <1>6, <1>7 DEF WizardInv

LEMMA QuestionKeeps ==
  ASSUME WizardInv, RequestStart \/ Cancel \/ OnInstallDepsResponse
  PROVE  WizardInv'
<1>1. /\ UNCHANGED <<current_step, shown, iso_path, analyzing, editions, iso_system, os, wtg,
                     edition, scans, listings, idle, written, corrected, early>>
      /\ btn_next' => btn_next
  BY DEF RequestStart, Cancel, OnInstallDepsResponse, pageVars, isoVars, widgetVars, jobVars,
         historyVars
<1>2. iso_path # NoISO
  BY DEF RequestStart, AtPage, Cancel, OnInstallDepsResponse, WizardInv, BlankInv
<1>3. BlankInv' /\ idle' \in Seq(Reports)
  BY <1>1, <1>2 DEF BlankInv, WizardInv, TypeInv
<1> QED  BY <1>1, <1>3, RestKeeps

LEMMA StartKeeps ==
  ASSUME WizardInv, OnWarn2Response
  PROVE  WizardInv'
<1>1. /\ asking # <<>> /\ current_step' = 3
      /\ written' = [iso |-> iso_path, mode |-> Mode, page |-> current_step,
                     asked |-> Head(asking), checked |-> checked]
      /\ UNCHANGED <<btn_next, shown, iso_path, analyzing, editions, iso_system,
                     os, wtg, edition, scans, listings, installs, idle, corrected, early>>
  BY DEF OnWarn2Response, isoVars, widgetVars, jobVars, historyVars
<1>2. iso_path # NoISO
  BY <1>1 DEF WizardInv, BlankInv
<1>3. ASSUME current_step = 2
      PROVE  /\ Tells(iso_path, Mode)
             /\ early \/ shown.system = [of |-> iso_path, windows |-> Mode.os = 0]
  <2>1. early \/ iso_system = [of |-> iso_path, windows |-> Mode.os = 0]
    BY <1>2, <1>3 DEF WizardInv, PageInv, GuessInv, Mode
  <2> QED  BY <1>3, <2>1 DEF WizardInv, ShownInv
<1>4. Mode = [os |-> Mode.os, wtg |-> Mode.wtg, edition |-> Mode.edition]
  BY DEF Mode
<1>5. TypeInv' /\ BlankInv' /\ EditionsOwn' /\ GuessInv'
  BY <1>1, <1>2 DEF WizardInv, TypeInv, BlankInv, EditionsOwn, GuessInv
<1>6. PageInv'
  BY <1>1 DEF PageInv
<1>7. ShownInv'
  <2>1. written'.iso = iso_path /\ written'.mode = Mode /\ written'.page = current_step
    BY <1>1
  <2> QED  BY <1>1, <1>3, <1>4, <2>1 DEF ShownInv, Tells
<1> QED  BY <1>5, <1>6, <1>7 DEF WizardInv

LEMMA RestartKeeps ==
  ASSUME WizardInv, Restart
  PROVE  WizardInv'
<1>1. /\ current_step = 3 /\ current_step' = 0 /\ written' = Nothing
      /\ UNCHANGED <<iso_path, analyzing, editions, iso_system, os, wtg, edition, idle, corrected>>
  BY DEF Restart, isoVars, widgetVars, jobVars, historyVars
<1>2. TypeInv' /\ BlankInv' /\ PageInv' /\ EditionsOwn' /\ GuessInv'
  BY <1>1 DEF WizardInv, TypeInv, BlankInv, PageInv, EditionsOwn, GuessInv
<1>3. ShownInv'
  BY <1>1 DEF ShownInv
<1> QED  BY <1>2, <1>3 DEF WizardInv

LEMMA RebuildKeeps ==
  ASSUME WizardAssumption, WizardInv, Rebuild
  PROVE  WizardInv'
<1>1. /\ current_step # 3 /\ current_step' = 0 /\ UNCHANGED <<listings, installs, idle, asking, written>>
      /\ iso_path' = iso_path
  BY DEF Rebuild, SetIso, WizardInv, TypeInv
<1>2. \/ iso_path = NoISO /\ UNCHANGED <<analyzing, editions, scans>>
      \/ iso_path # NoISO /\ analyzing' = iso_path /\ editions' = <<>>
  BY DEF Rebuild, SetIso
<1>3. written = Nothing
  BY <1>1 DEF WizardInv, PageInv
<1>4. TypeInv' /\ BlankInv' /\ PageInv'
  BY <1>1, <1>2, <1>3 DEF WizardInv, TypeInv, BlankInv, PageInv
<1>5. EditionsOwn' /\ GuessInv'
  BY <1>1, <1>2 DEF WizardInv, EditionsOwn, GuessInv
<1>6. ShownInv'
  BY <1>1, <1>3 DEF ShownInv
<1> QED  BY <1>4, <1>5, <1>6 DEF WizardInv

-----------------------------------------------------------------------------
(* The threads and their callbacks                                         *)

LEMMA ThreadsKeep ==
  ASSUME WizardInv, InstallDepsWorker \/ \E i \in ISOs : AnalyzeWorker(i) \/ ReadEditions(i)
  PROVE  WizardInv'
<1>1. UNCHANGED <<current_step, btn_next, shown, iso_path, analyzing, editions, iso_system,
                  os, wtg, edition, written, corrected, early>>
  BY DEF InstallDepsWorker, AnalyzeWorker, ReadEditions, JobFrame, pageVars, isoVars, widgetVars,
         startVars, historyVars
<1>2. \E r \in Reports : idle' = Append(idle, r)
  <2>1. CASE InstallDepsWorker
    BY <2>1 DEF InstallDepsWorker, Reports
  <2>2. CASE \E i \in ISOs : AnalyzeWorker(i) \/ ReadEditions(i)
    BY <2>2 DEF AnalyzeWorker, ReadEditions, Reports
  <2> QED  BY <2>1, <2>2
<1>3. iso_path # NoISO
  <2>1. CASE InstallDepsWorker
    BY <2>1 DEF InstallDepsWorker, WizardInv, BlankInv
  <2>2. CASE \E i \in ISOs : AnalyzeWorker(i) \/ ReadEditions(i)
    <3>1. \E i \in ISOs : scans[i] > 0 \/ listings[i] > 0
      BY <2>2 DEF AnalyzeWorker, ReadEditions
    <3> QED  BY <3>1 DEF WizardInv, BlankInv
  <2> QED  BY <2>1, <2>2
<1>4. BlankInv' /\ idle' \in Seq(Reports)
  BY <1>1, <1>2, <1>3 DEF BlankInv, WizardInv, TypeInv
<1> QED  BY <1>1, <1>4, RestKeeps

LEMMA OutdatedKeeps ==
  ASSUME WizardInv, Outdated, NEW fn, Called(fn)
  PROVE  WizardInv'
<1>1. UNCHANGED <<current_step, btn_next, shown, iso_path, analyzing, editions, iso_system,
                  os, wtg, edition, written, corrected, early>>
  BY DEF Outdated, pageVars, isoVars, widgetVars, startVars, historyVars
<1>2. iso_path # NoISO
  BY DEF Called, WizardInv, BlankInv
<1>3. BlankInv' /\ idle' \in Seq(Reports)
  BY <1>1, <1>2, HeadReports DEF BlankInv, WizardInv
<1> QED  BY <1>1, <1>3, RestKeeps

LEMMA InstallKeeps ==
  ASSUME WizardInv, OnDepsInstalledSuccess \/ ShowDepsError
  PROVE  WizardInv'
<1>1. UNCHANGED <<current_step, shown, iso_path, analyzing, editions, iso_system,
                  os, wtg, edition, written, corrected>>
  BY DEF OnDepsInstalledSuccess, ShowDepsError, InstallEnded, isoVars, widgetVars
<1>2. (early => early') /\ (analyzing # NoISO => early')
  <2>1. early' = (early \/ analyzing # NoISO)
    BY DEF OnDepsInstalledSuccess, ShowDepsError, InstallEnded
  <2> QED  BY <2>1, Zenon
<1>3. PICK fn : Called(fn)
  BY DEF OnDepsInstalledSuccess, ShowDepsError
<1>4. iso_path # NoISO
  BY <1>3 DEF Called, WizardInv, BlankInv
<1>5. BlankInv' /\ idle' \in Seq(Reports)
  BY <1>1, <1>3, <1>4, HeadReports DEF BlankInv, WizardInv
<1> QED  BY <1>1, <1>2, <1>4, <1>5, RestKeeps

LEMMA KindKeeps ==
  ASSUME WizardInv, ApplyKind
  PROVE  WizardInv'
<1>1. idle' \in Seq(Reports) /\ iso_path # NoISO
  BY HeadReports DEF ApplyKind, Called, WizardInv, BlankInv
<1>2. CASE Head(idle).iso # iso_path
  BY <1>2, OutdatedKeeps DEF ApplyKind
<1>3. CASE Head(idle).iso = iso_path
  <2>1. /\ analyzing' = NoISO /\ os' = Kind(iso_path) /\ corrected' = FALSE
        /\ UNCHANGED <<current_step, iso_path, editions, written, early>>
        /\ UpdateIsoBadge /\ UpdateUiState
    BY <1>3 DEF ApplyKind, startVars
  <2>2. iso_system' = [of |-> iso_path, windows |-> os' = 0]
    BY <1>1, <2>1 DEF UpdateIsoBadge
  <2>3. TypeInv' /\ BlankInv' /\ EditionsOwn'
    BY <1>1, <2>1 DEF WizardInv, TypeInv, BlankInv, EditionsOwn
  <2>4. PageInv'
    BY <2>1, UiIsUpdated DEF WizardInv, PageInv
  <2>5. GuessInv'
    BY <2>1, <2>2 DEF GuessInv
  <2>6. ShownInv'
    <3>1. written' # Nothing => shown' = shown /\ (early => early')
      BY <2>1, UiIsUpdated DEF WizardInv, PageInv
    <3> QED  BY <2>1, <3>1, UiIsUpdated, WrittenIsKept DEF WizardInv
  <2> QED  BY <2>3, <2>4, <2>5, <2>6 DEF WizardInv
<1> QED  BY <1>2, <1>3

LEMMA EditionsKeep ==
  ASSUME WizardInv, ApplyEditions
  PROVE  WizardInv'
<1>1. /\ idle' \in Seq(Reports) /\ Head(idle).list \in {<<>>, Editions(Head(idle).iso)}
      /\ iso_path # NoISO
  BY HeadReports DEF ApplyEditions, Called, WizardInv, BlankInv
<1>2. CASE Head(idle).iso # iso_path
  BY <1>2, OutdatedKeeps DEF ApplyEditions
<1>3. CASE Head(idle).iso = iso_path
  <2>1. /\ editions' = Head(idle).list
        /\ UNCHANGED <<current_step, btn_next, shown, iso_path, analyzing, os, wtg,
                       written, corrected, early>>
        /\ iso_system' = [of |-> iso_path, windows |-> os = 0]
    BY <1>3 DEF ApplyEditions, pageVars, startVars, historyVars
  <2>2. TypeInv' /\ BlankInv' /\ PageInv'
    BY <1>1, <2>1 DEF WizardInv, TypeInv, BlankInv, PageInv
  <2>3. EditionsOwn'
    <3>1. Editions(iso_path)' = Editions(iso_path)
      BY <2>1
    <3> QED  BY <1>1, <1>3, <2>1, <3>1 DEF EditionsOwn
  <2>4. GuessInv'
    BY <2>1 DEF WizardInv, GuessInv
  <2>5. ShownInv'
    <3>1. current_step = 2 => early \/ iso_system' = iso_system
      BY <1>1, <2>1 DEF WizardInv, PageInv, GuessInv
    <3>2. Mode'.os = Mode.os /\ Mode'.wtg = Mode.wtg
      BY <2>1 DEF Mode, ToGo
    <3>3. (current_step = 2 => Tells(iso_path, Mode) /\ (early \/ shown.system = iso_system))'
      BY <2>1, <3>1, <3>2 DEF WizardInv, ShownInv, Tells
    <3> QED  BY <2>1, <3>3, WrittenIsKept DEF WizardInv
  <2> QED  BY <2>2, <2>3, <2>4, <2>5 DEF WizardInv
<1> QED  BY <1>2, <1>3

-----------------------------------------------------------------------------
(* Every step, and what follows                                            *)

LEMMA WizardSteps == WizardAssumption /\ WizardInv /\ [Next]_vars => WizardInv'
<1> SUFFICES ASSUME WizardAssumption, WizardInv, [Next]_vars PROVE WizardInv'
  OBVIOUS
<1>1. CASE UserStep
  BY <1>1, ChooseKeeps, CorrectKeeps, PickKeeps, TurnKeeps, QuestionKeeps, StartKeeps,
     RestartKeeps, RebuildKeeps DEF UserStep
<1>2. CASE LoopStep
  BY <1>2, KindKeeps, EditionsKeep, InstallKeeps DEF LoopStep
<1>3. CASE InstallDepsWorker \/ \E i \in ISOs : AnalyzeWorker(i) \/ ReadEditions(i)
  BY <1>3, ThreadsKeep
<1>4. CASE UNCHANGED vars
  <2>1. UNCHANGED <<current_step, btn_next, shown, iso_path, analyzing, editions, iso_system, os,
                    wtg, edition, scans, listings, installs, idle, asking, written, corrected, early>>
    BY <1>4 DEF vars, pageVars, isoVars, widgetVars, jobVars, startVars, historyVars
  <2>2. BlankInv' /\ idle' \in Seq(Reports)
    BY <2>1 DEF WizardInv, BlankInv, TypeInv
  <2> QED  BY <2>1, <2>2, RestKeeps
<1> QED  BY <1>1, <1>2, <1>3, <1>4 DEF Next

\* The wizard's editions, guess and summary are those of the ISO it shows, and
\* a page is reached only when what it needs is there.
THEOREM WizardInvariant == Spec => []WizardInv
<1> QED  BY WizardAssumption, WizardStarts, WizardSteps, PTL DEF Spec

\* apply_editions: however many ISOs are chosen while others are being read,
\* the editions on offer are those of the chosen one.
THEOREM EditionsAlwaysOwn == Spec => []EditionsOwn
<1>1. WizardInv => EditionsOwn
  BY DEF WizardInv
<1> QED  BY <1>1, WizardInvariant, PTL

\* update_ui_state and on_deps_installed_success: nobody gets to the summary
\* with the guess made of another ISO, and before the scan of the chosen one has
\* reported only when the end of an install let Next go.
THEOREM GuessAlwaysAwaited == Spec => []GuessAwaited
<1>1. WizardInv => GuessAwaited
  BY DEF WizardInv, BlankInv, PageInv, GuessInv, GuessAwaited
<1> QED  BY <1>1, WizardInvariant, PTL

\* update_summary_data: what a flash started from the summary writes is what the
\* summary showed, whatever arrived while it was up; an install that ended early
\* leaves the ISO and the mode shown, and may leave the system unnamed.
THEOREM SummaryAlwaysWritten == Spec => []SummaryIsWritten
<1>1. WizardInv => SummaryIsWritten
  <2> SUFFICES ASSUME WizardInv, written # Nothing, written.page = 2
               PROVE  /\ shown.iso = written.iso /\ SameMode(shown.mode, written.mode)
                      /\ early \/ shown.system = [of |-> written.iso,
                                                  windows |-> written.mode.os = 0]
    BY DEF SummaryIsWritten
  <2>1. /\ Tells(written.iso, written.mode)
        /\ early \/ shown.system = [of |-> written.iso, windows |-> written.mode.os = 0]
        /\ written.mode = [os |-> written.mode.os, wtg |-> written.mode.wtg,
                           edition |-> written.mode.edition]
    BY DEF WizardInv, ShownInv
  <2>2. [shown.mode EXCEPT !.edition = NoEdition]
          = [os |-> shown.mode.os, wtg |-> shown.mode.wtg, edition |-> NoEdition]
    BY <2>1 DEF Tells
  <2>3. [written.mode EXCEPT !.edition = NoEdition]
          = [os |-> written.mode.os, wtg |-> written.mode.wtg, edition |-> NoEdition]
    BY <2>1
  <2> QED  BY <2>1, <2>2, <2>3 DEF Tells, SameMode
<1> QED  BY <1>1, WizardInvariant, PTL

-----------------------------------------------------------------------------
(* The jobs of a window                                                    *)

\* An ISO's threads are bounded by the times it was chosen: each choice starts
\* one scan, and allows one listing, which takes the ISO for read.
CountInv ==
  /\ scans \in [ISOs -> Nat] /\ listings \in [ISOs -> Nat] /\ choices \in 0 .. MaxChoices
  /\ jobs \in Nat /\ installs \in Nat /\ editions_read \in {NoISO, iso_path}
  /\ \A i \in ISOs : scans[i] <= choices /\ listings[i] <= choices
  /\ iso_path # NoISO /\ editions_read = NoISO => \A i \in ISOs : listings[i] < choices
  /\ JobsCounted

JobsInv == WizardInv /\ CountInv

LEMMA PairsFinite ==
  ASSUME WizardAssumption
  PROVE  IsFiniteSet(ISOs \X (1 .. MaxChoices))
<1>1. 1 \in Int /\ MaxChoices \in Int /\ IsFiniteSet(ISOs)
  BY DEF WizardAssumption
<1>2. IsFiniteSet(1 .. MaxChoices)
  BY <1>1, FS_Interval
<1> QED  BY <1>1, <1>2, FS_Product

LEMMA OneSet ==
  ASSUME NEW f \in [ISOs -> Nat], NEW i, NEW n \in Nat
  PROVE  [f EXCEPT ![i] = n] \in [ISOs -> Nat]
OBVIOUS

\* One thread more of an ISO is one element more.
LEMMA OneMore ==
  ASSUME WizardAssumption, NEW f \in [ISOs -> Nat], NEW g \in [ISOs -> Nat], NEW i \in ISOs,
         f[i] < MaxChoices, g = [f EXCEPT ![i] = f[i] + 1]
  PROVE  /\ Cardinality(Under(f)) \in Nat /\ Cardinality(Under(g)) = Cardinality(Under(f)) + 1
<1>1. IsFiniteSet(ISOs \X (1 .. MaxChoices))
  BY PairsFinite
<1>2. IsFiniteSet(Under(f)) /\ Cardinality(Under(f)) \in Nat
  BY <1>1, FS_Subset, FS_CardinalityType DEF Under
<1>3. <<i, f[i] + 1>> \notin Under(f)
  BY DEF Under
<1>4. Under(g) = Under(f) \cup {<<i, f[i] + 1>>}
  <2>1. \A t \in ISOs \X (1 .. MaxChoices) :
          t[2] <= g[t[1]] <=> t[2] <= f[t[1]] \/ t = <<i, f[i] + 1>>
    <3> SUFFICES ASSUME NEW j \in ISOs, NEW n \in 1 .. MaxChoices
                 PROVE  n <= g[j] <=> n <= f[j] \/ <<j, n>> = <<i, f[i] + 1>>
      OBVIOUS
    <3>1. CASE j = i
      BY <3>1
    <3>2. CASE j # i
      BY <3>2
    <3> QED  BY <3>1, <3>2
  <2>2. <<i, f[i] + 1>> \in ISOs \X (1 .. MaxChoices)
    BY DEF WizardAssumption
  <2> QED  BY <2>1, <2>2 DEF Under
<1>5. Cardinality(Under(g)) = Cardinality(Under(f)) + 1
  BY <1>2, <1>3, <1>4, FS_AddElement
<1> QED  BY <1>2, <1>5

LEMMA OneLess ==
  ASSUME WizardAssumption, NEW f \in [ISOs -> Nat], NEW g \in [ISOs -> Nat], NEW i \in ISOs,
         f[i] > 0, f[i] <= MaxChoices, g = [f EXCEPT ![i] = f[i] - 1]
  PROVE  /\ Cardinality(Under(g)) \in Nat /\ Cardinality(Under(f)) = Cardinality(Under(g)) + 1
<1>1. g[i] = f[i] - 1 /\ g[i] < MaxChoices
  BY DEF WizardAssumption
<1>2. \A j \in ISOs : f[j] = [g EXCEPT ![i] = g[i] + 1][j]
  BY <1>1
<1>3. f = [g EXCEPT ![i] = g[i] + 1]
  BY <1>2
<1> QED  BY <1>1, <1>3, OneMore

LEMMA CountsAreNat ==
  ASSUME WizardAssumption, NEW f
  PROVE  Cardinality(Under(f)) \in Nat
<1>1. IsFiniteSet(ISOs \X (1 .. MaxChoices))
  BY PairsFinite
<1> QED  BY <1>1, FS_Subset, FS_CardinalityType DEF Under

\* No threads, nothing to count.
LEMMA NoneUnder ==
  ASSUME NEW f \in [ISOs -> Nat], \A i \in ISOs : f[i] = 0
  PROVE  Cardinality(Under(f)) = 0
<1>1. Under(f) = {}
  BY DEF Under
<1> QED  BY <1>1, FS_EmptySet

\* What is counted, as numbers.
LEMMA JobsAre ==
  ASSUME WizardAssumption, JobsInv
  PROVE  /\ Cardinality(Under(scans)) \in Nat /\ Cardinality(Under(listings)) \in Nat
         /\ Len(idle) \in Nat /\ installs \in Nat /\ jobs \in Nat
         /\ jobs = Cardinality(Under(scans)) + Cardinality(Under(listings)) + installs + Len(idle)
<1>1. Cardinality(Under(scans)) \in Nat /\ Cardinality(Under(listings)) \in Nat
  BY CountsAreNat
<1>2. Len(idle) \in Nat
  BY DEF JobsInv, WizardInv, TypeInv
<1>3. installs \in Nat /\ jobs \in Nat /\ JobsCounted
  BY DEF JobsInv, CountInv
<1> QED  BY <1>1, <1>2, <1>3 DEF JobsCounted

LEMMA ThreadsAre ==
  ASSUME WizardAssumption, JobsInv
  PROVE  /\ scans \in [ISOs -> Nat] /\ listings \in [ISOs -> Nat] /\ choices \in 0 .. MaxChoices
         /\ MaxChoices \in Nat /\ \A j \in ISOs : scans[j] <= choices /\ listings[j] <= choices
         /\ iso_path \in ISOs \cup {NoISO} /\ editions_read \in {NoISO, iso_path}
BY DEF JobsInv, CountInv, WizardInv, TypeInv, WizardAssumption

LEMMA JobsStart == WizardAssumption /\ Init => CountInv
<1> SUFFICES ASSUME WizardAssumption, Init PROVE CountInv
  OBVIOUS
<1>1. /\ scans \in [ISOs -> Nat] /\ listings \in [ISOs -> Nat] /\ choices = 0 /\ jobs = 0
      /\ editions_read = NoISO /\ iso_path = NoISO /\ idle = <<>> /\ installs = 0
      /\ \A i \in ISOs : scans[i] = 0 /\ listings[i] = 0
  BY DEF Init
<1>2. JobsCounted
  <2>1. Cardinality(Under(scans)) = 0 /\ Cardinality(Under(listings)) = 0
    BY <1>1, NoneUnder
  <2> QED  BY <1>1, <2>1 DEF JobsCounted
<1> QED  BY <1>1, <1>2 DEF CountInv, WizardAssumption

\* set_iso, and what the choice counts.
LEMMA SetIsoCounts ==
  ASSUME WizardAssumption, JobsInv, NEW i \in ISOs, SetIso(i), choices < MaxChoices,
         choices' = choices + 1, UNCHANGED <<listings, installs, idle>>
  PROVE  CountInv'
<1>1. /\ scans \in [ISOs -> Nat] /\ listings \in [ISOs -> Nat] /\ choices \in 0 .. MaxChoices
      /\ jobs \in Nat /\ \A j \in ISOs : scans[j] <= choices /\ listings[j] <= choices
      /\ MaxChoices \in Nat /\ jobs' = jobs + 1 /\ iso_path' = i /\ editions_read' = NoISO
      /\ scans' = [scans EXCEPT ![i] = scans[i] + 1]
  BY DEF JobsInv, CountInv, WizardAssumption, SetIso
<1>2. scans[i] < MaxChoices /\ scans' \in [ISOs -> Nat]
  BY <1>1
<1>3. Cardinality(Under(scans')) = Cardinality(Under(scans)) + 1
  BY <1>1, <1>2, OneMore
<1>4. JobsCounted'
  BY <1>1, <1>3, JobsAre DEF JobsCounted
<1>5. \A j \in ISOs : scans'[j] <= choices' /\ listings'[j] < choices' /\ listings'[j] <= choices'
  BY <1>1
<1>6. installs' \in Nat /\ jobs' \in Nat
  BY <1>1, JobsAre
<1> QED  BY <1>1, <1>2, <1>4, <1>5, <1>6 DEF CountInv

\* start_reading_editions with left jobs beside it.
LEMMA ReadingCounts ==
  ASSUME WizardAssumption, JobsInv, NEW left \in Nat, StartReadingEditions(left),
         UNCHANGED <<iso_path, scans, installs, choices>>, idle' \in Seq(Reports),
         left + Len(idle) = jobs + Len(idle')
  PROVE  CountInv'
<1>1. /\ Cardinality(Under(scans)) \in Nat /\ Cardinality(Under(listings)) \in Nat
      /\ Len(idle) \in Nat /\ installs \in Nat /\ jobs \in Nat
      /\ jobs = Cardinality(Under(scans)) + Cardinality(Under(listings)) + installs + Len(idle)
  BY JobsAre
<1>2. Len(idle') \in Nat /\ iso_path \in ISOs \cup {NoISO} /\ editions_read \in {NoISO, iso_path}
  BY ThreadsAre
<1>3. CASE iso_path \notin {NoISO, editions_read}
  <2>1. /\ editions_read' = iso_path /\ jobs' = left + 1
        /\ listings' = [listings EXCEPT ![iso_path] = listings[iso_path] + 1]
    BY <1>3 DEF StartReadingEditions
  <2>2. /\ iso_path \in ISOs /\ listings \in [ISOs -> Nat] /\ choices \in 0 .. MaxChoices
        /\ MaxChoices \in Nat
    BY <1>2, <1>3, ThreadsAre
  <2>3. listings[iso_path] \in Nat /\ listings[iso_path] < choices
    BY <1>2, <1>3, <2>2 DEF JobsInv, CountInv
  <2>4. listings[iso_path] < MaxChoices
    BY <2>2, <2>3
  <2>5. listings' \in [ISOs -> Nat]
    <3>1. listings[iso_path] + 1 \in Nat
      BY <2>3
    <3> QED  BY <2>1, <2>2, <3>1, OneSet
  <2>6. Cardinality(Under(listings')) = Cardinality(Under(listings)) + 1
    BY <2>1, <2>2, <2>4, <2>5, OneMore
  <2>7. JobsCounted'
    <3>1. Cardinality(Under(scans')) = Cardinality(Under(scans))
      OBVIOUS
    <3>2. jobs' = Cardinality(Under(scans')) + Cardinality(Under(listings')) + installs' + Len(idle')
      <4>1. installs' = installs /\ jobs' = left + 1 /\ left + Len(idle) = jobs + Len(idle')
        BY <2>1
      <4> QED  BY <1>1, <1>2, <2>6, <3>1, <4>1, SMTT(30)
    <3> QED  BY <3>2 DEF JobsCounted
  <2>8. \A j \in ISOs : scans'[j] <= choices' /\ listings'[j] <= choices'
    <3>1. \A j \in ISOs : listings'[j] = IF j = iso_path THEN listings[j] + 1 ELSE listings[j]
      BY <2>1, <2>2
    <3>2. \A j \in ISOs : scans[j] <= choices /\ listings[j] <= choices
      BY ThreadsAre
    <3> QED  BY <2>2, <2>3, <3>1, <3>2
  <2>9. /\ editions_read' # NoISO /\ editions_read' \in {NoISO, iso_path'}
        /\ scans' \in [ISOs -> Nat] /\ choices' \in 0 .. MaxChoices
        /\ jobs' \in Nat /\ installs' \in Nat
    <3>1. editions_read' # NoISO /\ editions_read' \in {NoISO, iso_path'}
      BY <1>3, <2>1
    <3>2. scans' \in [ISOs -> Nat] /\ choices' \in 0 .. MaxChoices
      BY ThreadsAre
    <3>3. jobs' \in Nat /\ installs' \in Nat
      BY <1>1, <2>1
    <3> QED  BY <3>1, <3>2, <3>3
  <2> QED  BY <2>5, <2>7, <2>8, <2>9 DEF CountInv
<1>4. CASE iso_path \in {NoISO, editions_read}
  <2>1. jobs' = left /\ UNCHANGED <<editions_read, listings>>
    BY <1>4 DEF StartReadingEditions
  <2>2. JobsCounted'
    <3>1. /\ Cardinality(Under(scans')) = Cardinality(Under(scans))
          /\ Cardinality(Under(listings')) = Cardinality(Under(listings))
      BY <2>1
    <3>2. left = jobs' /\ left \in Nat /\ left + Len(idle) = jobs + Len(idle')
      BY <2>1
    <3>3. jobs' = Cardinality(Under(scans)) + Cardinality(Under(listings)) + installs + Len(idle')
      BY <1>1, <1>2, <3>2, SMTT(30)
    <3> QED  BY <3>1, <3>3 DEF JobsCounted
  <2> QED  BY <1>1, <2>1, <2>2 DEF JobsInv, CountInv
<1> QED  BY <1>3, <1>4

\* A thread ends and leaves a callback: one job still.
LEMMA ThreadCounts ==
  ASSUME WizardAssumption, JobsInv, NEW i \in ISOs, AnalyzeWorker(i) \/ ReadEditions(i)
  PROVE  CountInv'
<1>0. /\ Cardinality(Under(scans)) \in Nat /\ Cardinality(Under(listings)) \in Nat
      /\ Len(idle) \in Nat /\ installs \in Nat /\ jobs \in Nat
      /\ jobs = Cardinality(Under(scans)) + Cardinality(Under(listings)) + installs + Len(idle)
  BY JobsAre
<1>1. /\ scans \in [ISOs -> Nat] /\ listings \in [ISOs -> Nat] /\ choices \in 0 .. MaxChoices
      /\ MaxChoices \in Nat /\ \A j \in ISOs : scans[j] <= choices /\ listings[j] <= choices
  BY ThreadsAre
<1>2. UNCHANGED <<iso_path, editions_read, jobs, installs, choices>>
  BY DEF AnalyzeWorker, ReadEditions, JobFrame, isoVars, historyVars
<1>3. Len(idle') = Len(idle) + 1
  <2>1. \E r : idle' = Append(idle, r)
    BY DEF AnalyzeWorker, ReadEditions
  <2> QED  BY <2>1 DEF JobsInv, WizardInv, TypeInv
<1>4. CASE AnalyzeWorker(i)
  <2>1. scans[i] > 0 /\ scans' = [scans EXCEPT ![i] = scans[i] - 1] /\ listings' = listings
    BY <1>4 DEF AnalyzeWorker
  <2>2. scans' \in [ISOs -> Nat] /\ scans[i] <= MaxChoices
    BY <1>1, <2>1
  <2>3. /\ Cardinality(Under(scans')) \in Nat
        /\ Cardinality(Under(scans)) = Cardinality(Under(scans')) + 1
    BY <1>1, <2>1, <2>2, OneLess
  <2>4. JobsCounted'
    <3>1. Cardinality(Under(listings')) = Cardinality(Under(listings))
      BY <2>1
    <3>2. jobs' = Cardinality(Under(scans')) + Cardinality(Under(listings')) + installs' + Len(idle')
      BY <1>0, <1>2, <1>3, <2>3, <3>1
    <3> QED  BY <3>2 DEF JobsCounted
  <2>5. \A j \in ISOs : scans'[j] <= choices
    BY <1>1, <2>1
  <2> QED  BY <1>1, <1>2, <2>1, <2>2, <2>4, <2>5 DEF JobsInv, CountInv
<1>5. CASE ReadEditions(i)
  <2>1. listings[i] > 0 /\ listings' = [listings EXCEPT ![i] = listings[i] - 1] /\ scans' = scans
    BY <1>5 DEF ReadEditions
  <2>2. listings' \in [ISOs -> Nat] /\ listings[i] <= MaxChoices
    BY <1>1, <2>1
  <2>3. /\ Cardinality(Under(listings')) \in Nat
        /\ Cardinality(Under(listings)) = Cardinality(Under(listings')) + 1
    BY <1>1, <2>1, <2>2, OneLess
  <2>4. JobsCounted'
    <3>1. Cardinality(Under(scans')) = Cardinality(Under(scans))
      BY <2>1
    <3>2. jobs' = Cardinality(Under(scans')) + Cardinality(Under(listings')) + installs' + Len(idle')
      BY <1>0, <1>2, <1>3, <2>3, <3>1, SMTT(30)
    <3> QED  BY <3>2 DEF JobsCounted
  <2>5. \A j \in ISOs : listings'[j] <= listings[j]
    BY <1>1, <2>1
  <2>6. \A j \in ISOs : listings'[j] <= choices /\ (listings[j] < choices => listings'[j] < choices)
    BY <1>1, <2>2, <2>5
  <2> QED  BY <1>1, <1>2, <2>1, <2>2, <2>4, <2>6 DEF JobsInv, CountInv
<1> QED  BY <1>4, <1>5

\* A callback that runs is one job and one callback less.
LEMMA CallbackTaken ==
  ASSUME WizardAssumption, JobsInv, NEW fn, Called(fn)
  PROVE  /\ idle' \in Seq(Reports) /\ Len(idle') = Len(idle) - 1
         /\ jobs - 1 \in Nat /\ Len(idle) \in Nat /\ jobs \in Nat
<1>1. idle \in Seq(Reports) /\ idle # <<>> /\ idle' = Tail(idle)
  BY DEF JobsInv, WizardInv, TypeInv, Called
<1>2. Len(idle) \in Nat /\ Len(idle) >= 1 /\ Len(idle') = Len(idle) - 1 /\ idle' \in Seq(Reports)
  BY <1>1
<1> QED  BY <1>2, JobsAre

LEMMA CallbackCounts ==
  ASSUME WizardAssumption, JobsInv, NEW fn, Called(fn), jobs' = jobs - 1,
         UNCHANGED <<iso_path, editions_read, scans, listings, installs, choices>>
  PROVE  CountInv'
<1>1. Len(idle') = Len(idle) - 1 /\ jobs - 1 \in Nat /\ Len(idle) \in Nat /\ jobs \in Nat
  BY CallbackTaken
<1>2. JobsCounted'
  BY <1>1, JobsAre DEF JobsCounted
<1> QED  BY <1>1, <1>2 DEF JobsInv, CountInv

LEMMA JobsUnchanged ==
  ASSUME JobsInv, UNCHANGED <<iso_path, editions_read, scans, listings, installs, jobs, idle>>,
         choices' \in 0 .. MaxChoices, choices' >= choices, MaxChoices \in Nat
  PROVE  CountInv'
<1>1. JobsCounted'
  BY DEF JobsInv, CountInv, JobsCounted
<1>2. \A i \in ISOs : scans'[i] <= choices' /\ listings'[i] <= choices'
                      /\ (listings[i] < choices => listings'[i] < choices')
  BY DEF JobsInv, CountInv
<1> QED  BY <1>1, <1>2 DEF JobsInv, CountInv

\* An install is a job from its start until its callback has run.
LEMMA InstallCounts ==
  ASSUME WizardAssumption, JobsInv,
         OnInstallDepsResponse \/ InstallDepsWorker \/ OnDepsInstalledSuccess \/ ShowDepsError
  PROVE  CountInv'
<1>1. /\ Cardinality(Under(scans)) \in Nat /\ Cardinality(Under(listings)) \in Nat
      /\ Len(idle) \in Nat /\ installs \in Nat /\ jobs \in Nat
      /\ jobs = Cardinality(Under(scans)) + Cardinality(Under(listings)) + installs + Len(idle)
  BY JobsAre
<1>2. CASE OnInstallDepsResponse
  <2>1. /\ choices < MaxChoices /\ choices' = choices + 1 /\ jobs' = jobs + 1
        /\ installs' = installs + 1
        /\ UNCHANGED <<iso_path, editions_read, scans, listings, idle>>
    BY <1>2 DEF OnInstallDepsResponse, isoVars
  <2>2. JobsCounted'
    BY <1>1, <2>1 DEF JobsCounted
  <2>3. \A i \in ISOs : scans[i] \in Nat /\ listings[i] \in Nat
    BY DEF JobsInv, CountInv
  <2>4. \A i \in ISOs : scans'[i] <= choices' /\ listings'[i] < choices' /\ listings'[i] <= choices'
    BY <2>1, <2>3 DEF JobsInv, CountInv, WizardAssumption
  <2> QED  BY <1>1, <2>1, <2>2, <2>4 DEF JobsInv, CountInv, WizardAssumption
<1>3. CASE InstallDepsWorker
  <2>1. /\ installs > 0 /\ installs' = installs - 1
        /\ UNCHANGED <<iso_path, editions_read, scans, listings, jobs, choices>>
        /\ \E r : idle' = Append(idle, r)
    BY <1>3 DEF InstallDepsWorker, JobFrame, isoVars, historyVars
  <2>2. Len(idle') = Len(idle) + 1
    BY <2>1 DEF JobsInv, WizardInv, TypeInv
  <2>3. JobsCounted'
    BY <1>1, <2>1, <2>2 DEF JobsCounted
  <2> QED  BY <1>1, <2>1, <2>3 DEF JobsInv, CountInv
<1>4. CASE OnDepsInstalledSuccess \/ ShowDepsError
  <2>1. jobs' = jobs - 1 /\ UNCHANGED <<iso_path, editions_read, scans, listings, installs, choices>>
    BY <1>4 DEF OnDepsInstalledSuccess, ShowDepsError, InstallEnded, isoVars
  <2> QED  BY <1>4, <2>1, CallbackCounts DEF OnDepsInstalledSuccess, ShowDepsError
<1> QED  BY <1>2, <1>3, <1>4

LEMMA JobsSteps == WizardAssumption /\ JobsInv /\ [Next]_vars => CountInv'
<1> SUFFICES ASSUME WizardAssumption, JobsInv, [Next]_vars PROVE CountInv'
  OBVIOUS
<1>0. /\ choices \in 0 .. MaxChoices /\ MaxChoices \in Nat /\ jobs \in Nat
      /\ idle \in Seq(Reports) /\ iso_path \in ISOs \cup {NoISO}
  BY DEF JobsInv, CountInv, WizardInv, TypeInv, WizardAssumption
<1>1. ASSUME NEW i \in ISOs, ChooseIso(i) PROVE CountInv'
  BY <1>1, SetIsoCounts DEF ChooseIso
<1>2. ASSUME NEW k \in Corrections, OnOsChanged(k) PROVE CountInv'
  <2>1. UNCHANGED <<iso_path, scans, installs, idle, choices>>
    BY <1>2 DEF OnOsChanged
  <2>2. CASE k = 0
    BY <1>0, <1>2, <2>1, <2>2, ReadingCounts DEF OnOsChanged
  <2>3. CASE k # 0
    BY <1>0, <1>2, <2>1, <2>3, JobsUnchanged DEF OnOsChanged
  <2> QED  BY <2>2, <2>3
<1>3. CASE \/ PickWtg \/ (\E n \in 1 .. Len(editions) : PickEdition(n)) \/ GoNext \/ GoBack
           \/ RequestStart \/ Cancel \/ OnWarn2Response \/ Restart \/ UNCHANGED vars
  <2>1. UNCHANGED <<iso_path, editions_read, scans, listings, installs, jobs, idle, choices>>
    BY <1>3 DEF PickWtg, PickEdition, GoNext, GoBack, Turn, RequestStart, Cancel,
                OnWarn2Response, Restart, vars, isoVars, jobVars, historyVars
  <2> QED  BY <1>0, <2>1, JobsUnchanged
<1>4. CASE Rebuild
  <2>1. choices < MaxChoices /\ choices' = choices + 1 /\ UNCHANGED <<listings, installs, idle>>
    BY <1>4 DEF Rebuild
  <2>2. CASE iso_path = NoISO
    <3>1. UNCHANGED <<iso_path, editions_read, jobs, scans>>
      BY <1>4, <2>2 DEF Rebuild
    <3> QED  BY <1>0, <2>1, <3>1, JobsUnchanged
  <2>3. CASE iso_path # NoISO
    <3>1. SetIso(iso_path) /\ iso_path \in ISOs
      BY <1>0, <1>4, <2>3 DEF Rebuild
    <3> QED  BY <2>1, <3>1, SetIsoCounts
  <2> QED  BY <2>2, <2>3
<1>5. CASE ApplyKind
  <2>1. /\ idle' \in Seq(Reports) /\ Len(idle') = Len(idle) - 1
        /\ jobs - 1 \in Nat /\ Len(idle) \in Nat
    BY <1>5, CallbackTaken DEF ApplyKind
  <2>2. CASE Head(idle).iso # iso_path
    BY <1>5, <2>2, CallbackCounts DEF ApplyKind, Outdated, isoVars, historyVars
  <2>3. CASE Head(idle).iso = iso_path
    <3>1. UNCHANGED <<iso_path, scans, installs, choices>>
      BY <1>5, <2>3 DEF ApplyKind
    <3>2. CASE os' = 0
      <4>1. StartReadingEditions(jobs - 1)
        BY <1>5, <2>3, <3>2 DEF ApplyKind
      <4>2. (jobs - 1) + Len(idle) = jobs + Len(idle')
        BY <1>0, <2>1
      <4> QED  BY <2>1, <3>1, <4>1, <4>2, ReadingCounts
    <3>3. CASE os' # 0
      <4>1. jobs' = jobs - 1 /\ UNCHANGED <<editions_read, listings>>
        BY <1>5, <2>3, <3>3 DEF ApplyKind
      <4> QED  BY <1>5, <3>1, <4>1, CallbackCounts DEF ApplyKind
    <3> QED  BY <3>2, <3>3
  <2> QED  BY <2>2, <2>3
<1>6. CASE ApplyEditions
  <2>1. jobs' = jobs - 1 /\ UNCHANGED <<iso_path, editions_read, scans, listings, installs, choices>>
    BY <1>6 DEF ApplyEditions, Outdated, isoVars, historyVars
  <2> QED  BY <1>6, <2>1, CallbackCounts DEF ApplyEditions
<1>7. CASE \E i \in ISOs : AnalyzeWorker(i) \/ ReadEditions(i)
  BY <1>7, ThreadCounts
<1>8. CASE OnInstallDepsResponse \/ InstallDepsWorker \/ OnDepsInstalledSuccess \/ ShowDepsError
  BY <1>8, InstallCounts
<1> QED  BY <1>1, <1>2, <1>3, <1>4, <1>5, <1>6, <1>7, <1>8 DEF Next, UserStep, LoopStep

\* set_iso, start_reading_editions and on_install_deps_response: every scan,
\* listing and install is counted from its start until its callback has run.
THEOREM JobsInvariant == Spec => []JobsInv
<1>1. Init => JobsInv
  BY WizardAssumption, WizardStarts, JobsStart DEF JobsInv
<1>2. JobsInv /\ [Next]_vars => JobsInv'
  BY WizardAssumption, WizardSteps, JobsSteps DEF JobsInv
<1> QED  BY <1>1, <1>2, PTL DEF Spec

\* on_lang_changed asks jobs before it rebuilds: it is zero only when no thread
\* and no callback of this window is left, so rebuild destroys no window that
\* one of them would report to.
THEOREM JobsAlwaysCounted == Spec => []JobsCounted
<1>1. JobsInv => JobsCounted
  BY DEF JobsInv, CountInv
<1> QED  BY <1>1, JobsInvariant, PTL

-----------------------------------------------------------------------------
(* Flags, questions and dropdowns                                          *)

FlagsInv ==
  /\ btn_next \in BOOLEAN /\ wtg \in BOOLEAN
  /\ corrected \in BOOLEAN /\ rechosen \in BOOLEAN /\ early \in BOOLEAN
  /\ asking \in Seq(Questions) /\ os \in 0 .. 2

LEMMA FlagsTyped == WizardAssumption /\ WizardInv /\ FlagsInv /\ [Next]_vars => FlagsInv'
<1> SUFFICES ASSUME WizardAssumption, WizardInv, FlagsInv, [Next]_vars PROVE FlagsInv'
  OBVIOUS
<1>1. UpdateUiState => btn_next' \in BOOLEAN
  BY DEF UpdateUiState
<1>2. CASE UserStep
  <2>1. ASSUME NEW i \in ISOs, ChooseIso(i) PROVE FlagsInv'
    <3>1. UNCHANGED <<wtg, os, asking>> /\ UpdateUiState /\ corrected' = FALSE /\ early' = FALSE
      BY <2>1 DEF ChooseIso, widgetVars
    <3>2. rechosen' = (JobsFor(i) > 0)
      BY <2>1 DEF ChooseIso
    <3>3. (JobsFor(i) > 0) \in BOOLEAN
      OBVIOUS
    <3>4. rechosen' \in BOOLEAN
      BY <3>2, <3>3, Zenon
    <3> QED  BY <1>1, <3>1, <3>4 DEF FlagsInv
  <2>2. ASSUME NEW k \in Corrections, OnOsChanged(k) PROVE FlagsInv'
    BY <2>2 DEF OnOsChanged, FlagsInv, pageVars, startVars, WizardAssumption
  <2>3. CASE PickWtg
    BY <2>3 DEF PickWtg, FlagsInv, pageVars, startVars, historyVars
  <2>4. CASE \E n \in 1 .. Len(editions) : PickEdition(n)
    BY <2>4 DEF PickEdition, FlagsInv, pageVars, startVars, historyVars
  <2>5. CASE GoNext \/ GoBack \/ Restart
    BY <1>1, <2>5 DEF GoNext, GoBack, Turn, Restart, FlagsInv, widgetVars, historyVars
  <2>6. CASE RequestStart
    BY <2>6 DEF RequestStart, FlagsInv, pageVars, widgetVars, historyVars, Questions
  <2>7. CASE Cancel \/ OnInstallDepsResponse \/ OnWarn2Response
    <3>1. /\ asking # <<>> /\ asking' = Tail(asking)
          /\ UNCHANGED <<wtg, os, corrected, rechosen, early>>
          /\ btn_next' = btn_next \/ btn_next' = FALSE
      BY <2>7 DEF Cancel, OnInstallDepsResponse, OnWarn2Response, Answered, pageVars, widgetVars,
                  historyVars
    <3>2. asking' \in Seq(Questions)
      BY <3>1 DEF FlagsInv
    <3>3. btn_next' \in BOOLEAN
      BY <3>1, Zenon DEF FlagsInv
    <3> QED  BY <3>1, <3>2, <3>3 DEF FlagsInv
  <2>8. CASE Rebuild
    <3>1. /\ os' = 2 /\ wtg' = FALSE /\ corrected' = FALSE /\ early' = FALSE /\ rechosen' = FALSE
          /\ UpdateUiState /\ asking' = asking
      BY <2>8 DEF Rebuild
    <3>2. os' \in 0 .. 2 /\ btn_next' \in BOOLEAN /\ asking' \in Seq(Questions)
      BY <1>1, <3>1 DEF FlagsInv
    <3>3. /\ wtg' \in BOOLEAN /\ corrected' \in BOOLEAN /\ rechosen' \in BOOLEAN
          /\ early' \in BOOLEAN
      BY <3>1, Zenon
    <3> QED  BY <3>2, <3>3 DEF FlagsInv
  <2> QED  BY <1>2, <2>1, <2>2, <2>3, <2>4, <2>5, <2>6, <2>7, <2>8 DEF UserStep
<1>3. CASE LoopStep
  <2>1. CASE Outdated
    BY <2>1 DEF Outdated, FlagsInv, pageVars, widgetVars, startVars, historyVars
  <2>2. CASE ApplyKind /\ ~Outdated
    <3>1. /\ os' = Kind(iso_path) /\ corrected' = FALSE /\ UpdateUiState
          /\ UNCHANGED <<wtg, asking, rechosen, early>>
          /\ Head(idle).iso = iso_path /\ Called("apply_kind")
      BY <2>2 DEF ApplyKind, startVars
    <3>2. iso_path \in ISOs
      BY <3>1, HeadReports DEF WizardInv
    <3> QED  BY <1>1, <3>1, <3>2 DEF FlagsInv, WizardAssumption
  <2>3. CASE ApplyEditions /\ ~Outdated
    BY <2>3 DEF ApplyEditions, FlagsInv, pageVars, startVars, historyVars
  <2>4. CASE OnDepsInstalledSuccess \/ ShowDepsError
    <3>1. /\ btn_next' = TRUE /\ UNCHANGED <<wtg, os, corrected, rechosen>>
          /\ asking' \in {asking, <<"installed">> \o asking}
      BY <2>4 DEF OnDepsInstalledSuccess, ShowDepsError, InstallEnded, widgetVars
    <3>2. early' \in BOOLEAN
      <4>1. early' = (early \/ analyzing # NoISO)
        BY <2>4 DEF OnDepsInstalledSuccess, ShowDepsError, InstallEnded
      <4> QED  BY <4>1, Zenon
    <3>3. asking' \in Seq(Questions)
      <4>1. asking \in Seq(Questions) /\ <<"installed">> \in Seq(Questions)
        BY DEF FlagsInv, Questions
      <4>2. <<"installed">> \o asking \in Seq(Questions)
        BY <4>1
      <4> QED  BY <3>1, <4>1, <4>2
    <3> QED  BY <3>1, <3>2, <3>3 DEF FlagsInv
  <2> QED  BY <1>3, <2>1, <2>2, <2>3, <2>4 DEF LoopStep
<1>4. CASE InstallDepsWorker \/ \E i \in ISOs : AnalyzeWorker(i) \/ ReadEditions(i)
  BY <1>4 DEF InstallDepsWorker, AnalyzeWorker, ReadEditions, JobFrame, FlagsInv, pageVars,
              widgetVars, startVars, historyVars
<1>5. CASE UNCHANGED vars
  BY <1>5 DEF vars, FlagsInv, pageVars, widgetVars, startVars, historyVars
<1> QED  BY <1>2, <1>3, <1>4, <1>5 DEF Next

\* The lists that the threads report.
LEMMA ListsTyped ==
  ASSUME WizardAssumption, NEW i \in ISOs
  PROVE  Editions(i) \in Seq(AllEditions)
<1>1. Count(i) \in Nat
  BY DEF WizardAssumption
<1>2. \A n \in 1 .. Count(i) : <<i, n>> \in AllEditions
  BY DEF AllEditions
<1> QED  BY <1>1, <1>2 DEF Editions

\* The editions on offer are some ISO's.
LEMMA OfferTyped ==
  ASSUME WizardAssumption, WizardInv
  PROVE  editions \in Seq(AllEditions)
<1>1. CASE editions = <<>>
  BY <1>1
<1>2. CASE editions # <<>>
  <2>1. iso_path # NoISO /\ editions = Editions(iso_path)
    BY <1>2 DEF WizardInv, BlankInv, EditionsOwn
  <2>2. PICK i \in ISOs : i = iso_path
    BY <2>1 DEF WizardInv, TypeInv
  <2> QED  BY <2>1, <2>2, ListsTyped
<1> QED  BY <1>1, <1>2

\* The mode that is read from the dropdowns.
LEMMA ModeTyped ==
  ASSUME WizardAssumption, WizardInv, FlagsInv, edition \in Nat \ {0}
  PROVE  Mode \in Modes
<1>1. ToGo \in BOOLEAN
  BY DEF ToGo
<1>2. (IF ToGo /\ edition <= Len(editions) THEN editions[edition] ELSE NoEdition)
        \in AllEditions \cup {NoEdition}
  BY OfferTyped
<1> QED  BY <1>1, <1>2 DEF Mode, Modes, FlagsInv

-----------------------------------------------------------------------------
(* What was checked is what is written                                     *)

\* The reports of the chosen ISO that wait in the loop: none, or at most one.
Told(n, fn) == idle[n].fn = fn /\ idle[n].iso = iso_path
NoneOf(fn) == \A n \in 1 .. Len(idle) : ~Told(n, fn)
OneOf(fn) == \A m, n \in 1 .. Len(idle) : Told(m, fn) /\ Told(n, fn) => m = n

\* Of an ISO that no job was under way for when it was chosen there is one scan,
\* then its report, then none of both; and one listing, once it is read.
PendInv ==
  ~rechosen /\ iso_path # NoISO =>
    /\ analyzing = NoISO => scans[iso_path] = 0 /\ NoneOf("apply_kind")
    /\ analyzing # NoISO =>
         \/ scans[iso_path] = 0 /\ OneOf("apply_kind")
         \/ scans[iso_path] = 1 /\ NoneOf("apply_kind")
    /\ editions_read = NoISO =>
         editions = <<>> /\ listings[iso_path] = 0 /\ NoneOf("apply_editions")
    /\ editions_read # NoISO =>
         \/ listings[iso_path] = 0 /\ NoneOf("apply_editions")
         \/ /\ editions = <<>>
            /\ \/ listings[iso_path] = 0 /\ OneOf("apply_editions")
               \/ listings[iso_path] = 1 /\ NoneOf("apply_editions")

\* Of the mode m, only its edition may have been unknown when c was checked.
Agrees(c, m) ==
  /\ c = [os |-> m.os, wtg |-> m.wtg, edition |-> c.edition]
  /\ c.edition \in {NoEdition, m.edition}

\* What was checked is forgotten when the summary is left, so that of a mode
\* that was checked only the list of the editions can arrive.
CheckedInv ==
  checked # Nothing =>
    /\ current_step \in {2, 3} /\ (analyzing = NoISO \/ early)
    /\ ~rechosen /\ ~early => Agrees(checked, Mode)

\* With nothing checked, the summary is asked over only by an install's end.
AllInstalled == \A n \in 1 .. Len(asking) : asking[n] = "installed"
AskedInv == current_step = 2 /\ checked = Nothing => AllInstalled

StartedInv ==
  written # Nothing =>
    IF written.checked = Nothing
    THEN written.asked = "installed" \/ written.page # 2
    ELSE ~rechosen /\ ~early => Agrees(written.checked, written.mode)

CheckInv == edition \in Nat \ {0} /\ CheckedInv /\ AskedInv /\ StartedInv

StartInv == JobsInv /\ FlagsInv /\ PendInv /\ CheckInv

LEMMA TailReports ==
  ASSUME TypeInv, NEW f, NEW fn, Called(f), UNCHANGED iso_path
  PROVE  /\ NoneOf(fn) => NoneOf(fn)'
         /\ OneOf(fn) => OneOf(fn)'
         /\ f = fn /\ Head(idle).iso = iso_path => (OneOf(fn) => NoneOf(fn)') /\ ~NoneOf(fn)
<1>1. /\ idle \in Seq(Reports) /\ idle # <<>> /\ idle' = Tail(idle) /\ Head(idle).fn = f
  BY DEF TypeInv, Called
<1>2. /\ Len(idle) \in Nat /\ Len(idle) >= 1 /\ Len(idle') = Len(idle) - 1
      /\ \A n \in 1 .. Len(idle') : n + 1 \in 1 .. Len(idle) /\ idle'[n] = idle[n + 1]
      /\ Head(idle) = idle[1] /\ 1 \in 1 .. Len(idle)
  BY <1>1
<1>3. \A n \in 1 .. Len(idle') : Told(n, fn)' <=> Told(n + 1, fn)
  BY <1>2 DEF Told
<1>4. NoneOf(fn) => NoneOf(fn)'
  BY <1>2, <1>3 DEF NoneOf
<1>5. OneOf(fn) => OneOf(fn)'
  <2> SUFFICES ASSUME OneOf(fn), NEW m \in 1 .. Len(idle'), NEW n \in 1 .. Len(idle'),
                      Told(m, fn)', Told(n, fn)'
               PROVE  m = n
    BY DEF OneOf
  <2>1. m + 1 = n + 1
    BY <1>2, <1>3 DEF OneOf
  <2> QED  BY <2>1
<1>6. ASSUME f = fn, Head(idle).iso = iso_path
      PROVE  (OneOf(fn) => NoneOf(fn)') /\ ~NoneOf(fn)
  <2>1. Told(1, fn)
    BY <1>1, <1>2, <1>6 DEF Told
  <2>2. ASSUME OneOf(fn), NEW n \in 1 .. Len(idle'), Told(n, fn)'
        PROVE  FALSE
    <3>1. n + 1 = 1
      BY <1>2, <1>3, <2>1, <2>2 DEF OneOf
    <3> QED  BY <3>1
  <2>3. ~NoneOf(fn)
    BY <1>2, <2>1 DEF NoneOf
  <2> QED  BY <2>2, <2>3 DEF NoneOf
<1> QED  BY <1>4, <1>5, <1>6

LEMMA AppendReports ==
  ASSUME TypeInv, NEW r \in Reports, idle' = Append(idle, r), UNCHANGED iso_path, NEW fn
  PROVE  /\ NoneOf(fn) => OneOf(fn)'
         /\ r.fn # fn \/ r.iso # iso_path =>
              (NoneOf(fn) => NoneOf(fn)') /\ (OneOf(fn) => OneOf(fn)')
<1>0. PICK last \in Nat : last = Len(idle) + 1
  BY DEF TypeInv
<1>1. /\ Len(idle) \in Nat /\ Len(idle') = last
      /\ \A n \in 1 .. Len(idle) : idle'[n] = idle[n]
      /\ idle'[last] = r
  BY <1>0 DEF TypeInv
<1>2. \A n \in 1 .. Len(idle') : n \in 1 .. Len(idle) \/ n = last
  BY <1>0, <1>1
<1>3. \A n \in 1 .. Len(idle) : Told(n, fn)' <=> Told(n, fn)
  BY <1>1 DEF Told
<1>4. Told(last, fn)' <=> r.fn = fn /\ r.iso = iso_path
  BY <1>1 DEF Told
<1>5. \A n \in 1 .. Len(idle) : n # last
  BY <1>0, <1>1
<1>6. ASSUME NoneOf(fn)
      PROVE  \A n \in 1 .. Len(idle') : Told(n, fn)' => n = last /\ r.fn = fn /\ r.iso = iso_path
  BY <1>2, <1>3, <1>4, <1>6 DEF NoneOf
<1>7. NoneOf(fn) => OneOf(fn)'
  BY <1>6 DEF OneOf
<1>8. ASSUME r.fn # fn \/ r.iso # iso_path
      PROVE  (NoneOf(fn) => NoneOf(fn)') /\ (OneOf(fn) => OneOf(fn)')
  <2>1. NoneOf(fn) => NoneOf(fn)'
    BY <1>6, <1>8 DEF NoneOf
  <2>2. \A n \in 1 .. Len(idle') : Told(n, fn)' => n \in 1 .. Len(idle) /\ Told(n, fn)
    BY <1>2, <1>3, <1>4, <1>8
  <2>3. OneOf(fn) => OneOf(fn)'
    BY <2>2 DEF OneOf
  <2> QED  BY <2>1, <2>3
<1> QED  BY <1>7, <1>8

\* set_iso, of an ISO that nothing reports on.
LEMMA SetIsoPends ==
  ASSUME WizardAssumption, JobsInv, NEW i \in ISOs, SetIso(i), UNCHANGED <<listings, idle>>,
         scans[i] = 0, listings[i] = 0, \A n \in 1 .. Len(idle) : idle[n].iso # i
  PROVE  PendInv'
<1>1. /\ iso_path' = i /\ editions' = <<>> /\ editions_read' = NoISO /\ analyzing' = i
      /\ scans' = [scans EXCEPT ![i] = scans[i] + 1]
  BY DEF SetIso
<1>2. scans'[i] = 1 /\ i # NoISO
  BY <1>1 DEF JobsInv, CountInv, WizardAssumption
<1>3. \A fn : NoneOf(fn)'
  BY <1>1 DEF NoneOf, Told
<1> QED  BY <1>1, <1>2, <1>3 DEF PendInv

\* jobs is zero: nothing reports at all.
LEMMA NothingPends ==
  ASSUME WizardAssumption, JobsInv, jobs = 0
  PROVE  idle = <<>> /\ \A i \in ISOs : scans[i] = 0 /\ listings[i] = 0
<1>1. /\ Cardinality(Under(scans)) \in Nat /\ Cardinality(Under(listings)) \in Nat
      /\ Len(idle) \in Nat /\ idle \in Seq(Reports)
  BY CountsAreNat DEF JobsInv, WizardInv, TypeInv
<1>2. Cardinality(Under(scans)) = 0 /\ Cardinality(Under(listings)) = 0 /\ Len(idle) = 0
  BY <1>1 DEF JobsInv, CountInv, JobsCounted
<1>3. ASSUME NEW f \in [ISOs -> Nat], Cardinality(Under(f)) = 0, NEW i \in ISOs, f[i] <= MaxChoices
      PROVE  f[i] = 0
  <2>1. IsFiniteSet(Under(f))
    BY PairsFinite, FS_Subset DEF Under
  <2>2. Under(f) = {}
    BY <1>3, <2>1, FS_EmptySet
  <2>3. f[i] > 0 => <<i, 1>> \in Under(f)
    BY <1>3 DEF Under, WizardAssumption
  <2> QED  BY <1>3, <2>2, <2>3
<1>4. /\ scans \in [ISOs -> Nat] /\ listings \in [ISOs -> Nat]
      /\ \A i \in ISOs : scans[i] <= MaxChoices /\ listings[i] <= MaxChoices
  BY DEF JobsInv, CountInv, WizardAssumption
<1> QED  BY <1>1, <1>2, <1>3, <1>4

\* Where nothing is checked and nothing written, nothing need agree.
LEMMA NothingChecked ==
  ASSUME edition' \in Nat \ {0}, checked' = Nothing, written' = Nothing,
         current_step' # 2 \/ asking' = <<>>
  PROVE  CheckInv'
<1>1. asking' = <<>> => AllInstalled'
  BY DEF AllInstalled
<1> QED  BY <1>1 DEF CheckInv, CheckedInv, AskedInv, StartedInv

\* What leaves the page, what was checked and what was written alone.
LEMMA CheckedKept ==
  ASSUME CheckInv, edition' \in Nat \ {0}, UNCHANGED <<current_step, checked, written, rechosen>>,
         analyzing' \in {analyzing, NoISO}, early => early', AllInstalled => AllInstalled',
         checked # Nothing /\ ~rechosen /\ ~early => Agrees(checked, Mode)'
  PROVE  CheckInv'
<1>1. CheckedInv'
  BY DEF CheckInv, CheckedInv
<1>2. AskedInv' /\ StartedInv'
  BY DEF CheckInv, AskedInv, StartedInv, Agrees
<1> QED  BY <1>1, <1>2 DEF CheckInv

\* The questions that are left, and the one an install puts on top of them.
LEMMA QuestionsLeft ==
  ASSUME FlagsInv, asking # <<>>, asking' = Tail(asking), AllInstalled
  PROVE  AllInstalled' /\ Head(asking) = "installed"
<1>1. asking \in Seq(Questions)
  BY DEF FlagsInv
<1>2. /\ Len(asking) \in Nat /\ Len(asking) >= 1 /\ Len(asking') = Len(asking) - 1
      /\ Head(asking) = asking[1]
      /\ \A n \in 1 .. Len(asking') : n + 1 \in 1 .. Len(asking) /\ asking'[n] = asking[n + 1]
  BY <1>1
<1> QED  BY <1>2 DEF AllInstalled

LEMMA QuestionOnTop ==
  ASSUME FlagsInv, asking' = <<"installed">> \o asking, AllInstalled
  PROVE  AllInstalled'
<1> DEFINE top == <<"installed">>
<1>1. asking \in Seq(Questions) /\ top \in Seq(Questions) /\ Len(top) = 1 /\ top[1] = "installed"
  BY DEF FlagsInv, Questions
<1>2. asking' = top \o asking
  OBVIOUS
<1> HIDE DEF top
<1>3. /\ Len(asking') = 1 + Len(asking) /\ Len(asking) \in Nat
      /\ \A n \in 1 .. Len(asking') : asking'[n] = IF n <= 1 THEN top[n] ELSE asking[n - 1]
  BY <1>1, <1>2
<1>4. ASSUME NEW n \in 1 .. Len(asking') PROVE asking'[n] = "installed"
  <2>1. CASE n = 1
    BY <1>1, <1>3, <2>1
  <2>2. CASE n # 1
    <3>1. n - 1 \in 1 .. Len(asking) /\ asking'[n] = asking[n - 1]
      BY <1>3, <2>2
    <3> QED  BY <3>1 DEF AllInstalled
  <2> QED  BY <2>1, <2>2
<1> QED  BY <1>4 DEF AllInstalled

\* Before the summary nothing is checked, and before the flash nothing written.
LEMMA NotYet ==
  ASSUME StartInv
  PROVE  /\ current_step < 2 => checked = Nothing
         /\ current_step # 3 => written = Nothing
BY DEF StartInv, JobsInv, WizardInv, TypeInv, PageInv, CheckInv, CheckedInv

LEMMA ChoosePends ==
  ASSUME WizardAssumption, StartInv, NEW i \in ISOs, ChooseIso(i)
  PROVE  PendInv' /\ CheckInv'
<1>1. /\ SetIso(i) /\ UNCHANGED <<listings, idle, edition, written>> /\ checked' = Nothing
      /\ rechosen' = (JobsFor(i) > 0) /\ current_step < 2 /\ current_step' = 1
  BY DEF ChooseIso, widgetVars
<1>2. PendInv'
  <2>1. CASE JobsFor(i) > 0
    BY <1>1, <2>1 DEF PendInv
  <2>2. CASE ~(JobsFor(i) > 0)
    <3> DEFINE N == {n \in 1 .. Len(idle) : idle[n].iso = i}
    <3>1. Len(idle) \in Nat /\ scans[i] \in Nat /\ listings[i] \in Nat
      BY DEF StartInv, JobsInv, CountInv, WizardInv, TypeInv
    <3>2. IsFiniteSet(1 .. Len(idle))
      BY <3>1, FS_Interval
    <3>3. N \in SUBSET (1 .. Len(idle))
      OBVIOUS
    <3>4. IsFiniteSet(N) /\ Cardinality(N) \in Nat
      BY <3>2, <3>3, FS_Subset, FS_CardinalityType
    <3>5. JobsFor(i) = scans[i] + listings[i] + Cardinality(N)
      BY DEF JobsFor
    <3>6. scans[i] = 0 /\ listings[i] = 0 /\ Cardinality(N) = 0
      BY <2>2, <3>1, <3>4, <3>5
    <3>7. N = {}
      BY <3>4, <3>6, FS_EmptySet
    <3> QED  BY <1>1, <3>6, <3>7, SetIsoPends DEF StartInv
  <2> QED  BY <2>1, <2>2
<1>3. CheckInv'
  <2>1. written' = Nothing /\ edition' \in Nat \ {0}
    BY <1>1, NotYet DEF StartInv, CheckInv
  <2> QED  BY <1>1, <2>1, NothingChecked
<1> QED  BY <1>2, <1>3

LEMMA RebuildPends ==
  ASSUME WizardAssumption, StartInv, Rebuild
  PROVE  PendInv' /\ CheckInv'
<1>1. /\ jobs = 0 /\ UNCHANGED <<listings, idle, written>> /\ edition' = 1
      /\ checked' = Nothing /\ current_step < 3 /\ current_step' = 0
  BY DEF Rebuild
<1>2. CheckInv'
  <2>1. written' = Nothing
    BY <1>1, NotYet
  <2> QED  BY <1>1, <2>1, NothingChecked
<1>3. PendInv'
  <2>1. CASE iso_path = NoISO
    <3>1. iso_path' = NoISO
      BY <2>1 DEF Rebuild
    <3> QED  BY <3>1 DEF PendInv
  <2>2. CASE iso_path # NoISO
    <3>1. PICK i \in ISOs : i = iso_path
      BY <2>2 DEF StartInv, JobsInv, WizardInv, TypeInv
    <3>2. SetIso(i)
      BY <2>2, <3>1 DEF Rebuild
    <3>3. idle = <<>> /\ scans[i] = 0 /\ listings[i] = 0
      BY <1>1, NothingPends DEF StartInv
    <3> QED  BY <1>1, <3>2, <3>3, SetIsoPends DEF StartInv
  <2> QED  BY <2>1, <2>2
<1> QED  BY <1>2, <1>3

\* What leaves the jobs and the chosen ISO alone.
LEMMA PendsUnchanged ==
  ASSUME PendInv,
         UNCHANGED <<iso_path, analyzing, editions_read, editions, scans, listings, idle, rechosen>>
  PROVE  PendInv'
<1>1. \A fn : (NoneOf(fn)' <=> NoneOf(fn)) /\ (OneOf(fn)' <=> OneOf(fn))
  BY DEF NoneOf, OneOf, Told
<1> QED  BY <1>1 DEF PendInv

\* start_reading_editions, with callbacks that leave the lists of editions be.
LEMMA ReadingPends ==
  ASSUME WizardAssumption, StartInv, NEW left, StartReadingEditions(left),
         UNCHANGED <<iso_path, editions>>,
         NoneOf("apply_editions") => NoneOf("apply_editions")',
         OneOf("apply_editions") => OneOf("apply_editions")',
         ~rechosen, iso_path # NoISO
  PROVE  /\ editions_read' # NoISO
         /\ \/ listings'[iso_path] = 0 /\ NoneOf("apply_editions")'
            \/ /\ editions' = <<>>
               /\ \/ listings'[iso_path] = 0 /\ OneOf("apply_editions")'
                  \/ listings'[iso_path] = 1 /\ NoneOf("apply_editions")'
<1>0. /\ editions_read \in {NoISO, iso_path} /\ iso_path \in ISOs
      /\ listings \in [ISOs -> Nat]
  BY DEF StartInv, JobsInv, CountInv, WizardInv, TypeInv
<1>1. CASE editions_read = NoISO
  <2>1. editions = <<>> /\ listings[iso_path] = 0 /\ NoneOf("apply_editions")
    BY <1>1 DEF StartInv, PendInv
  <2>2. editions_read' = iso_path /\ listings' = [listings EXCEPT ![iso_path] = listings[iso_path] + 1]
    BY <1>0, <1>1 DEF StartReadingEditions
  <2>3. listings'[iso_path] = 1
    BY <1>0, <2>1, <2>2
  <2> QED  BY <2>1, <2>2, <2>3
<1>2. CASE editions_read = iso_path
  <2>1. UNCHANGED <<editions_read, listings>>
    BY <1>2 DEF StartReadingEditions
  <2> QED  BY <1>2, <2>1 DEF StartInv, PendInv
<1> QED  BY <1>0, <1>1, <1>2

LEMMA CorrectPends ==
  ASSUME WizardAssumption, StartInv, NEW k \in Corrections, OnOsChanged(k)
  PROVE  PendInv' /\ CheckInv'
<1>1. /\ UNCHANGED <<iso_path, analyzing, editions, edition, scans, idle, checked, written, rechosen>>
      /\ current_step = 1 /\ current_step' = 1
  BY DEF OnOsChanged, AtPage, pageVars, startVars
<1>2. \A fn : (NoneOf(fn)' <=> NoneOf(fn)) /\ (OneOf(fn)' <=> OneOf(fn))
  BY <1>1 DEF NoneOf, OneOf, Told
<1>3. CheckInv'
  <2>1. checked = Nothing /\ written = Nothing /\ edition \in Nat \ {0}
    BY <1>1, NotYet DEF StartInv, CheckInv
  <2> QED  BY <1>1, <2>1, NothingChecked
<1>4. CASE k = 0
  <2>1. StartReadingEditions(jobs)
    BY <1>4 DEF OnOsChanged
  <2> QED  BY <1>1, <1>2, <1>3, <2>1, ReadingPends DEF PendInv, StartInv
<1>5. CASE k # 0
  <2>1. UNCHANGED <<editions_read, listings>>
    BY <1>5 DEF OnOsChanged
  <2> QED  BY <1>1, <1>3, <2>1, PendsUnchanged DEF StartInv
<1> QED  BY <1>4, <1>5

\* The user's steps that leave the ISO and its jobs alone.
LEMMA UserPends ==
  ASSUME WizardAssumption, NothingAssumption, StartInv,
         \/ PickWtg \/ (\E n \in 1 .. Len(editions) : PickEdition(n)) \/ GoNext \/ GoBack
         \/ RequestStart \/ Cancel \/ OnInstallDepsResponse \/ OnWarn2Response \/ Restart
  PROVE  PendInv' /\ CheckInv'
<1>1. UNCHANGED <<iso_path, analyzing, editions_read, editions, scans, listings, idle, rechosen>>
  BY DEF PickWtg, PickEdition, GoNext, GoBack, Turn, RequestStart, Cancel, OnInstallDepsResponse,
         OnWarn2Response, Restart, isoVars, jobVars, historyVars
<1>2. PendInv'
  BY <1>1, PendsUnchanged DEF StartInv
<1>3. edition \in Nat \ {0} /\ edition' \in Nat \ {0}
  BY DEF PickWtg, PickEdition, GoNext, GoBack, Turn, RequestStart, Cancel, OnInstallDepsResponse,
         OnWarn2Response, Restart, widgetVars, StartInv, CheckInv
<1>4. CASE \/ PickWtg \/ (\E n \in 1 .. Len(editions) : PickEdition(n)) \/ GoNext \/ GoBack
  <2>1. /\ asking = <<>> /\ current_step # 3 /\ UNCHANGED <<asking, written>>
        /\ \/ checked' = Nothing
           \/ checked' = checked /\ current_step < 2
    BY <1>4 DEF PickWtg, PickEdition, GoNext, GoBack, Turn, AtPage, startVars
  <2>2. checked' = Nothing /\ written' = Nothing /\ asking' = <<>>
    BY <2>1, NotYet
  <2> QED  BY <1>2, <1>3, <2>2, NothingChecked
<1>5. CASE RequestStart
  <2>1. /\ checked' = Mode /\ current_step = 2 /\ written' = written
        /\ UNCHANGED <<current_step, analyzing, early>>
    BY <1>5 DEF RequestStart, AtPage, pageVars, isoVars, historyVars
  <2>2. Mode' = Mode
    BY <1>5 DEF RequestStart, Mode, ToGo, widgetVars, isoVars
  <2>3. Agrees(Mode, Mode)
    <3>1. Mode = [os |-> Mode.os, wtg |-> Mode.wtg, edition |-> Mode.edition]
      BY DEF Mode
    <3> QED  BY <3>1 DEF Agrees
  <2>4. checked' # Nothing
    <3>1. Mode \in Modes
      BY <1>3, ModeTyped DEF StartInv, JobsInv
    <3> QED  BY <2>1, <3>1 DEF NothingAssumption
  <2>5. CheckedInv'
    <3>1. analyzing = NoISO \/ early
      BY <2>1 DEF StartInv, JobsInv, WizardInv, PageInv
    <3>2. Agrees(checked, Mode)'
      BY <2>1, <2>2, <2>3 DEF Agrees
    <3> QED  BY <2>1, <3>1, <3>2 DEF CheckedInv
  <2>6. written' = Nothing
    BY <2>1, NotYet
  <2> QED  BY <1>2, <1>3, <2>4, <2>5, <2>6 DEF CheckInv, AskedInv, StartedInv
<1>6. CASE Cancel \/ OnInstallDepsResponse
  <2>1. /\ asking # <<>> /\ asking' = Tail(asking)
        /\ UNCHANGED <<current_step, written, rechosen, analyzing, early>>
        /\ \/ checked' = checked
           \/ checked' = Nothing /\ asking' = <<>>
    BY <1>6 DEF Cancel, OnInstallDepsResponse, Answered, pageVars, isoVars, historyVars
  <2>2. Mode' = Mode
    BY <1>6 DEF Cancel, OnInstallDepsResponse, Mode, ToGo, widgetVars, isoVars
  <2>3. CASE checked' = checked
    <3>1. AllInstalled => AllInstalled'
      BY <2>1, QuestionsLeft DEF StartInv
    <3>2. checked # Nothing /\ ~rechosen /\ ~early => Agrees(checked, Mode)'
      BY <2>2, <2>3 DEF StartInv, CheckInv, CheckedInv, Agrees
    <3> QED  BY <1>2, <1>3, <2>1, <2>3, <3>1, <3>2, CheckedKept DEF StartInv
  <2>4. CASE checked' = Nothing /\ asking' = <<>>
    <3>1. AllInstalled'
      BY <2>4 DEF AllInstalled
    <3>2. StartedInv'
      BY <2>1 DEF StartInv, CheckInv, StartedInv, Agrees
    <3> QED  BY <1>2, <1>3, <2>4, <3>1, <3>2 DEF CheckInv, CheckedInv, AskedInv
  <2> QED  BY <2>1, <2>3, <2>4
<1>7. CASE OnWarn2Response
  <2>1. /\ asking # <<>> /\ current_step' = 3
        /\ UNCHANGED <<checked, rechosen, analyzing, early>>
        /\ written'.asked = Head(asking) /\ written'.page = current_step
        /\ written'.mode = Mode /\ written'.checked = checked
    BY <1>7 DEF OnWarn2Response, isoVars, historyVars
  <2>2. Mode' = Mode
    BY <1>7 DEF OnWarn2Response, Mode, ToGo, widgetVars, isoVars
  <2>3. CheckedInv'
    BY <2>1, <2>2 DEF StartInv, CheckInv, CheckedInv, Agrees
  <2>4. AskedInv'
    BY <2>1 DEF AskedInv
  <2>5. StartedInv'
    <3>1. CASE checked = Nothing
      <4>1. current_step = 2 => Head(asking) = "installed"
        BY <2>1, <3>1 DEF StartInv, CheckInv, AskedInv, AllInstalled, FlagsInv
      <4> QED  BY <2>1, <3>1, <4>1 DEF StartedInv
    <3>2. CASE checked # Nothing
      <4>1. ~rechosen /\ ~early => Agrees(checked, Mode)
        BY <3>2 DEF StartInv, CheckInv, CheckedInv
      <4> QED  BY <2>1, <3>2, <4>1 DEF StartedInv, Agrees
    <3> QED  BY <3>1, <3>2
  <2> QED  BY <1>2, <1>3, <2>3, <2>4, <2>5 DEF CheckInv
<1>8. CASE Restart
  <2>1. checked' = Nothing /\ written' = Nothing /\ current_step' = 0
    BY <1>8 DEF Restart
  <2> QED  BY <1>2, <1>3, <2>1, NothingChecked
<1> QED  BY <1>4, <1>5, <1>6, <1>7, <1>8

\* The ends of an install report on no ISO, and the checks are left as they were.
LEMMA InstallPends ==
  ASSUME StartInv, OnDepsInstalledSuccess \/ ShowDepsError
  PROVE  PendInv' /\ CheckInv'
<1>1. /\ UNCHANGED <<current_step, iso_path, analyzing, editions_read, editions, edition, scans,
                     listings, checked, written, rechosen>>
      /\ asking' = asking \/ asking' = <<"installed">> \o asking
  BY DEF OnDepsInstalledSuccess, ShowDepsError, InstallEnded, isoVars, widgetVars
<1>2. PICK f : Called(f)
  BY DEF OnDepsInstalledSuccess, ShowDepsError
<1>3. \A fn : (NoneOf(fn) => NoneOf(fn)') /\ (OneOf(fn) => OneOf(fn)')
  BY <1>1, <1>2, TailReports DEF StartInv, JobsInv, WizardInv
<1>4. PendInv'
  BY <1>1, <1>3 DEF StartInv, PendInv
<1>5. CheckInv'
  <2>1. early => early'
    <3>1. early' = (early \/ analyzing # NoISO)
      BY DEF OnDepsInstalledSuccess, ShowDepsError, InstallEnded
    <3> QED  BY <3>1, Zenon
  <2>2. Mode' = Mode
    BY DEF OnDepsInstalledSuccess, ShowDepsError, InstallEnded, Mode, ToGo, isoVars, widgetVars
  <2>3. AllInstalled => AllInstalled'
    BY <1>1, QuestionOnTop DEF StartInv, AllInstalled
  <2>4. checked # Nothing /\ ~rechosen /\ ~early => Agrees(checked, Mode)'
    BY <1>1, <2>2 DEF StartInv, CheckInv, CheckedInv, Agrees
  <2>5. edition' \in Nat \ {0}
    BY <1>1 DEF StartInv, CheckInv
  <2> QED  BY <1>1, <2>1, <2>3, <2>4, <2>5, CheckedKept DEF StartInv
<1> QED  BY <1>4, <1>5

\* What leaves all that was checked and asked alone.
LEMMA CheckUnchanged ==
  ASSUME CheckInv, UNCHANGED <<current_step, editions, os, wtg, edition, analyzing, checked, asking,
                               written, rechosen, early>>
  PROVE  CheckInv'
<1>1. Mode' = Mode
  BY DEF Mode, ToGo
<1>2. AllInstalled => AllInstalled'
  BY DEF AllInstalled
<1>3. checked # Nothing /\ ~rechosen /\ ~early => Agrees(checked, Mode)'
  BY <1>1 DEF CheckInv, CheckedInv, Agrees
<1>4. edition' \in Nat \ {0}
  BY DEF CheckInv
<1> QED  BY <1>2, <1>3, <1>4, CheckedKept

LEMMA ThreadPends ==
  ASSUME WizardAssumption, StartInv, NEW i \in ISOs, AnalyzeWorker(i) \/ ReadEditions(i)
  PROVE  PendInv' /\ CheckInv'
<1>1. UNCHANGED <<current_step, iso_path, analyzing, editions_read, editions, os, wtg, edition,
                  checked, asking, written, rechosen, early>>
  BY DEF AnalyzeWorker, ReadEditions, JobFrame, pageVars, isoVars, widgetVars, startVars, historyVars
<1>2. CheckInv'
  BY <1>1, CheckUnchanged DEF StartInv
<1>0. TypeInv /\ scans \in [ISOs -> Nat] /\ listings \in [ISOs -> Nat]
  BY DEF StartInv, JobsInv, WizardInv, CountInv
<1>3. CASE AnalyzeWorker(i)
  <2>1. /\ scans[i] > 0 /\ scans' = [scans EXCEPT ![i] = scans[i] - 1] /\ listings' = listings
        /\ \A j \in ISOs : j # i => scans'[j] = scans[j]
        /\ scans'[i] = scans[i] - 1
    BY <1>0, <1>3 DEF AnalyzeWorker
  <2>2. PICK r \in Reports : idle' = Append(idle, r) /\ r.fn = "apply_kind" /\ r.iso = i
    BY <1>3 DEF AnalyzeWorker, Reports
  <2>3. /\ NoneOf("apply_editions") => NoneOf("apply_editions")'
        /\ OneOf("apply_editions") => OneOf("apply_editions")'
        /\ NoneOf("apply_kind") => OneOf("apply_kind")'
        /\ i # iso_path => /\ NoneOf("apply_kind") => NoneOf("apply_kind")'
                           /\ OneOf("apply_kind") => OneOf("apply_kind")'
    BY <1>0, <1>1, <2>2, AppendReports
  <2>4. CASE i = iso_path
    BY <1>0, <1>1, <1>2, <2>1, <2>3, <2>4 DEF StartInv, PendInv
  <2>5. CASE i # iso_path
    <3>1. iso_path # NoISO => scans'[iso_path] = scans[iso_path]
      BY <2>1, <2>5 DEF StartInv, JobsInv, WizardInv, TypeInv
    <3> QED  BY <1>1, <1>2, <2>1, <2>3, <2>5, <3>1 DEF StartInv, PendInv
  <2> QED  BY <1>2, <2>4, <2>5
<1>4. CASE ReadEditions(i)
  <2>1. /\ listings[i] > 0 /\ listings' = [listings EXCEPT ![i] = listings[i] - 1] /\ scans' = scans
        /\ \A j \in ISOs : j # i => listings'[j] = listings[j]
        /\ listings'[i] = listings[i] - 1
    BY <1>0, <1>4 DEF ReadEditions
  <2>2. PICK r \in Reports : idle' = Append(idle, r) /\ r.fn = "apply_editions" /\ r.iso = i
    BY <1>4 DEF ReadEditions, Reports
  <2>3. /\ NoneOf("apply_kind") => NoneOf("apply_kind")'
        /\ OneOf("apply_kind") => OneOf("apply_kind")'
        /\ NoneOf("apply_editions") => OneOf("apply_editions")'
        /\ i # iso_path => /\ NoneOf("apply_editions") => NoneOf("apply_editions")'
                           /\ OneOf("apply_editions") => OneOf("apply_editions")'
    BY <1>0, <1>1, <2>2, AppendReports
  <2>4. CASE i = iso_path
    BY <1>0, <1>1, <1>2, <2>1, <2>3, <2>4 DEF StartInv, PendInv
  <2>5. CASE i # iso_path
    <3>1. iso_path # NoISO => listings'[iso_path] = listings[iso_path]
      BY <2>1, <2>5 DEF StartInv, JobsInv, WizardInv, TypeInv
    <3> QED  BY <1>1, <1>2, <2>1, <2>3, <2>5, <3>1 DEF StartInv, PendInv
  <2> QED  BY <1>2, <2>4, <2>5
<1> QED  BY <1>3, <1>4

LEMMA OutdatedPends ==
  ASSUME StartInv, NEW f, Called(f), Outdated
  PROVE  PendInv' /\ CheckInv'
<1>1. UNCHANGED <<current_step, iso_path, analyzing, editions_read, editions, os, wtg, edition,
                  scans, listings, checked, asking, written, rechosen, early>>
  BY DEF Outdated, pageVars, isoVars, widgetVars, startVars, historyVars
<1>2. \A fn : (NoneOf(fn) => NoneOf(fn)') /\ (OneOf(fn) => OneOf(fn)')
  BY <1>1, TailReports DEF StartInv, JobsInv, WizardInv
<1>3. PendInv'
  BY <1>1, <1>2 DEF StartInv, PendInv
<1>4. CheckInv'
  BY <1>1, CheckUnchanged DEF StartInv
<1> QED  BY <1>3, <1>4

\* An install's thread reports on no ISO.
LEMMA WorkerPends ==
  ASSUME WizardAssumption, StartInv, InstallDepsWorker
  PROVE  PendInv' /\ CheckInv'
<1>1. UNCHANGED <<current_step, iso_path, analyzing, editions_read, editions, os, wtg, edition,
                  scans, listings, checked, asking, written, rechosen, early>>
  BY DEF InstallDepsWorker, JobFrame, pageVars, isoVars, widgetVars, startVars, historyVars
<1>2. PICK r \in Reports : idle' = Append(idle, r) /\ r.fn \notin {"apply_kind", "apply_editions"}
  BY DEF InstallDepsWorker, Reports
<1>3. \A fn \in {"apply_kind", "apply_editions"} :
        (NoneOf(fn) => NoneOf(fn)') /\ (OneOf(fn) => OneOf(fn)')
  BY <1>1, <1>2, AppendReports DEF StartInv, JobsInv, WizardInv
<1>4. PendInv'
  BY <1>1, <1>3 DEF StartInv, PendInv
<1>5. CheckInv'
  BY <1>1, CheckUnchanged DEF StartInv
<1> QED  BY <1>4, <1>5

LEMMA KindPends ==
  ASSUME WizardAssumption, StartInv, ApplyKind
  PROVE  PendInv' /\ CheckInv'
<1>1. CASE Head(idle).iso # iso_path
  BY <1>1, OutdatedPends DEF ApplyKind
<1>2. CASE Head(idle).iso = iso_path
  <2>1. /\ Called("apply_kind") /\ analyzing' = NoISO
        /\ UNCHANGED <<current_step, iso_path, editions, edition, scans, checked, asking, written,
                       rechosen, early>>
        /\ \/ StartReadingEditions(jobs - 1)
           \/ UNCHANGED <<editions_read, listings>>
    BY <1>2 DEF ApplyKind, startVars
  <2>2. /\ \A fn : (NoneOf(fn) => NoneOf(fn)') /\ (OneOf(fn) => OneOf(fn)')
        /\ (OneOf("apply_kind") => NoneOf("apply_kind")') /\ ~NoneOf("apply_kind")
    BY <1>2, <2>1, TailReports DEF StartInv, JobsInv, WizardInv
  <2>3. iso_path # NoISO
    BY <2>1 DEF Called, StartInv, JobsInv, WizardInv, BlankInv
  <2>4. ~rechosen => analyzing # NoISO /\ scans[iso_path] = 0 /\ OneOf("apply_kind")
    BY <2>2, <2>3 DEF StartInv, PendInv
  <2>5. PendInv'
    <3>1. CASE rechosen
      BY <2>1, <3>1 DEF PendInv
    <3>2. CASE ~rechosen /\ StartReadingEditions(jobs - 1)
      BY <2>1, <2>2, <2>3, <2>4, <3>2, ReadingPends DEF PendInv
    <3>3. CASE ~rechosen /\ UNCHANGED <<editions_read, listings>>
      BY <2>1, <2>2, <2>3, <2>4, <3>3 DEF StartInv, PendInv
    <3> QED  BY <2>1, <3>1, <3>2, <3>3
  <2>6. CheckInv'
    <3>1. checked # Nothing => rechosen \/ early
      BY <2>4 DEF StartInv, CheckInv, CheckedInv
    <3>2. AllInstalled => AllInstalled'
      BY <2>1 DEF AllInstalled
    <3>3. edition' \in Nat \ {0}
      BY <2>1 DEF StartInv, CheckInv
    <3> QED  BY <2>1, <3>1, <3>2, <3>3, CheckedKept DEF StartInv
  <2> QED  BY <2>5, <2>6
<1> QED  BY <1>1, <1>2

LEMMA EditionsPend ==
  ASSUME WizardAssumption, StartInv, ApplyEditions
  PROVE  PendInv' /\ CheckInv'
<1>1. CASE Head(idle).iso # iso_path
  BY <1>1, OutdatedPends DEF ApplyEditions
<1>2. CASE Head(idle).iso = iso_path
  <2>1. /\ Called("apply_editions") /\ edition' = 1
        /\ UNCHANGED <<current_step, iso_path, analyzing, editions_read, os, wtg, scans, listings,
                       checked, asking, written, rechosen, early>>
    BY <1>2 DEF ApplyEditions, pageVars, startVars, historyVars
  <2>2. /\ \A fn : (NoneOf(fn) => NoneOf(fn)') /\ (OneOf(fn) => OneOf(fn)')
        /\ (OneOf("apply_editions") => NoneOf("apply_editions")') /\ ~NoneOf("apply_editions")
    BY <1>2, <2>1, TailReports DEF StartInv, JobsInv, WizardInv
  <2>3. iso_path # NoISO
    BY <2>1 DEF Called, StartInv, JobsInv, WizardInv, BlankInv
  <2>4. ~rechosen => /\ editions_read # NoISO /\ editions = <<>> /\ listings[iso_path] = 0
                     /\ OneOf("apply_editions")
    BY <2>2, <2>3 DEF StartInv, PendInv
  <2>5. PendInv'
    BY <2>1, <2>2, <2>3, <2>4 DEF StartInv, PendInv
  <2>6. CheckInv'
    <3>1. ASSUME checked # Nothing, ~rechosen, ~early
          PROVE  Agrees(checked, Mode)'
      <4>1. Mode.edition = NoEdition
        <5>1. edition \in Nat \ {0} /\ editions = <<>>
          BY <2>4, <3>1 DEF StartInv, CheckInv
        <5>2. ~(edition <= Len(editions))
          BY <5>1
        <5> QED  BY <5>2 DEF Mode
      <4>2. Mode'.os = Mode.os /\ Mode'.wtg = Mode.wtg
        BY <2>1 DEF Mode, ToGo
      <4>3. Agrees(checked, Mode)
        BY <3>1 DEF StartInv, CheckInv, CheckedInv
      <4> QED  BY <2>1, <4>1, <4>2, <4>3 DEF Agrees
    <3>2. AllInstalled => AllInstalled'
      BY <2>1 DEF AllInstalled
    <3> QED  BY <2>1, <3>1, <3>2, CheckedKept DEF StartInv
  <2> QED  BY <2>5, <2>6
<1> QED  BY <1>1, <1>2

\* request_start: what was checked and what is written came from the dropdowns
\* as they stand, or from an edition that arrived in between.
THEOREM StartInvariant == Spec => []StartInv
<1>1. Init => StartInv
  <2> SUFFICES ASSUME Init PROVE StartInv
    OBVIOUS
  <2>1. JobsInv
    BY WizardAssumption, WizardStarts, JobsStart DEF JobsInv
  <2>2. PendInv /\ FlagsInv
    <3>1. iso_path = NoISO /\ os = 2 /\ asking = <<>>
      BY DEF Init
    <3>2. /\ btn_next \in BOOLEAN /\ wtg \in BOOLEAN /\ corrected \in BOOLEAN
          /\ rechosen \in BOOLEAN /\ early \in BOOLEAN
      BY DEF Init
    <3> QED  BY <3>1, <3>2 DEF PendInv, FlagsInv
  <2>3. CheckInv
    BY DEF Init, CheckInv, CheckedInv, AskedInv, StartedInv
  <2> QED  BY <2>1, <2>2, <2>3 DEF StartInv
<1>2. StartInv /\ [Next]_vars => StartInv'
  <2> SUFFICES ASSUME StartInv, [Next]_vars PROVE StartInv'
    OBVIOUS
  <2>1. JobsInv'
    BY WizardAssumption, WizardSteps, JobsSteps DEF StartInv, JobsInv
  <2>2. FlagsInv'
    BY WizardAssumption, FlagsTyped DEF StartInv, JobsInv
  <2>3. PendInv' /\ CheckInv'
    <3>1. CASE UserStep
      BY <3>1, WizardAssumption, NothingAssumption, ChoosePends, CorrectPends, UserPends,
         RebuildPends DEF UserStep
    <3>2. CASE LoopStep
      BY <3>2, WizardAssumption, KindPends, EditionsPend, InstallPends DEF LoopStep
    <3>3. CASE InstallDepsWorker \/ \E i \in ISOs : AnalyzeWorker(i) \/ ReadEditions(i)
      BY <3>3, WizardAssumption, WorkerPends, ThreadPends
    <3>4. CASE UNCHANGED vars
      <4>1. /\ UNCHANGED <<iso_path, analyzing, editions_read, editions, scans, listings, idle,
                           rechosen>>
            /\ UNCHANGED <<current_step, os, wtg, edition, checked, asking, written, early>>
        BY <3>4 DEF vars, pageVars, isoVars, widgetVars, jobVars, startVars, historyVars
      <4> QED  BY <4>1, PendsUnchanged, CheckUnchanged DEF StartInv
    <3> QED  BY <3>1, <3>2, <3>3, <3>4 DEF Next
  <2> QED  BY <2>1, <2>2, <2>3 DEF StartInv
<1> QED  BY <1>1, <1>2, PTL DEF Spec

\* request_start, proceed_to_warnings and on_warn2_response: the dropdowns are
\* read twice, and say the same both times, but for an edition that was not
\* known at first, as long as no ISO was chosen again in the middle of its job
\* and no install ended in the middle of a scan; and the summary starts a flash
\* that nothing was checked for only over the warnings an install opened.
THEOREM CheckedAlwaysWritten == Spec => []CheckedIsWritten
<1>1. StartInv => CheckedIsWritten
  <2> SUFFICES ASSUME StartInv, written # Nothing, ~rechosen, ~early
               PROVE  IF written.checked = Nothing
                      THEN written.asked = "installed" \/ written.page # 2
                      ELSE \/ written.mode = written.checked
                           \/ /\ written.checked.edition = NoEdition
                              /\ SameMode(written.mode, written.checked)
    BY DEF CheckedIsWritten
  <2>1. CASE written.checked = Nothing
    BY <2>1 DEF StartInv, CheckInv, StartedInv
  <2>2. CASE written.checked # Nothing
    <3>1. written.mode = [os |-> written.mode.os, wtg |-> written.mode.wtg,
                          edition |-> written.mode.edition]
      BY DEF StartInv, JobsInv, WizardInv, ShownInv
    <3>2. Agrees(written.checked, written.mode)
      BY <2>2 DEF StartInv, CheckInv, StartedInv
    <3>3. [written.mode EXCEPT !.edition = NoEdition]
            = [os |-> written.mode.os, wtg |-> written.mode.wtg, edition |-> NoEdition]
      BY <3>1
    <3>4. [written.checked EXCEPT !.edition = NoEdition]
            = [os |-> written.mode.os, wtg |-> written.mode.wtg, edition |-> NoEdition]
      BY <3>2 DEF Agrees
    <3> QED  BY <2>2, <3>1, <3>2, <3>3, <3>4 DEF Agrees, SameMode
  <2> QED  BY <2>1, <2>2
<1> QED  BY <1>1, StartInvariant, PTL

-----------------------------------------------------------------------------
(* The types                                                               *)

Systems == [of : ISOs \cup {NoISO}, windows : BOOLEAN]

RestInv ==
  /\ iso_system \in Systems /\ shown \in Summaries \cup {Nothing}
  /\ checked \in Modes \cup {Nothing} /\ written \in Starts \cup {Nothing}

\* update_ui_state shows what there is.
LEMMA UiTyped ==
  ASSUME RestInv, UpdateUiState, TypeInv', iso_system' \in Systems, Mode' \in Modes,
         current_step' = 2 => iso_path' # NoISO
  PROVE  shown' \in Summaries \cup {Nothing}
<1>1. CASE current_step' = 2
  <2>1. shown' = [iso |-> iso_path', mode |-> Mode', system |-> iso_system']
    BY <1>1 DEF UpdateUiState
  <2>2. iso_path' \in ISOs
    BY <1>1 DEF TypeInv
  <2> QED  BY <2>1, <2>2 DEF Summaries, Systems
<1>2. CASE current_step' = 3
  BY <1>2 DEF UpdateUiState, RestInv
<1>3. CASE current_step' \notin {2, 3}
  <2>1. shown' = Nothing
    BY <1>3 DEF UpdateUiState
  <2> QED  BY <2>1
<1> QED  BY <1>1, <1>2, <1>3

LEMMA RestTyped ==
  WizardAssumption /\ StartInv /\ StartInv' /\ RestInv /\ [Next]_vars => RestInv'
<1> SUFFICES ASSUME WizardAssumption, StartInv, StartInv', RestInv, [Next]_vars
             PROVE  RestInv'
  OBVIOUS
<1>1. /\ TypeInv /\ TypeInv'
      /\ current_step' = 2 => iso_path' # NoISO
      /\ asking # <<>> => iso_path # NoISO
  BY DEF StartInv, JobsInv, WizardInv, BlankInv
<1>2. Mode \in Modes
  BY ModeTyped DEF StartInv, JobsInv, CheckInv
<1>3. Mode' \in Modes
  <2>1. editions' \in Seq(AllEditions)
    <3>1. CASE editions' = <<>>
      BY <3>1
    <3>2. CASE editions' # <<>>
      <4>1. iso_path' # NoISO /\ editions' = Editions(iso_path)'
        BY <3>2 DEF StartInv, JobsInv, WizardInv, BlankInv, EditionsOwn
      <4>2. PICK i \in ISOs : i = iso_path'
        BY <1>1, <4>1 DEF TypeInv
      <4>3. Editions(iso_path)' = Editions(i)
        BY <4>2 DEF Editions
      <4> QED  BY <4>1, <4>3, ListsTyped
    <3> QED  BY <3>1, <3>2
  <2>2. edition' \in Nat \ {0} /\ os' \in 0 .. 2
    BY DEF StartInv, CheckInv, FlagsInv
  <2>3. ToGo' \in BOOLEAN
    <3>1. wtg' \in BOOLEAN
      BY DEF StartInv, FlagsInv
    <3> QED  BY <3>1 DEF ToGo
  <2>4. (IF ToGo' /\ edition' <= Len(editions') THEN editions'[edition'] ELSE NoEdition)
          \in AllEditions \cup {NoEdition}
    BY <2>1, <2>2
  <2> QED  BY <2>2, <2>3, <2>4 DEF Mode, Modes
<1>4. ASSUME UpdateIsoBadge PROVE iso_system' \in Systems
  BY <1>1, <1>4 DEF UpdateIsoBadge, Systems, RestInv, TypeInv
<1>5. ASSUME UpdateUiState, iso_system' \in Systems
      PROVE  shown' \in Summaries \cup {Nothing}
  BY <1>1, <1>3, <1>5, UiTyped
<1>6. ASSUME NEW i \in ISOs, ChooseIso(i) PROVE RestInv'
  <2>1. UNCHANGED <<iso_system, written>> /\ checked' = Nothing /\ UpdateUiState
    BY <1>6 DEF ChooseIso
  <2> QED  BY <1>5, <2>1 DEF RestInv
<1>7. ASSUME NEW k \in Corrections, OnOsChanged(k) PROVE RestInv'
  <2>1. UNCHANGED <<shown, checked, written>> /\ UpdateIsoBadge
    BY <1>7 DEF OnOsChanged, pageVars, startVars
  <2> QED  BY <1>4, <2>1 DEF RestInv
<1>8. CASE PickWtg \/ \E n \in 1 .. Len(editions) : PickEdition(n)
  BY <1>8 DEF PickWtg, PickEdition, RestInv, pageVars, isoVars, startVars
<1>9. CASE GoNext \/ GoBack \/ Restart
  <2>1. /\ iso_system' = iso_system /\ checked' \in {checked, Nothing}
        /\ written' \in {written, Nothing} /\ UpdateUiState
    BY <1>9 DEF GoNext, GoBack, Turn, Restart, isoVars
  <2> QED  BY <1>5, <2>1 DEF RestInv
<1>10. CASE RequestStart \/ Cancel \/ OnInstallDepsResponse
  <2>1. UNCHANGED <<iso_system, shown, written>> /\ checked' \in {Mode, checked, Nothing}
    BY <1>10 DEF RequestStart, Cancel, OnInstallDepsResponse, pageVars, isoVars
  <2> QED  BY <1>2, <2>1 DEF RestInv
<1>11. CASE OnWarn2Response
  <2>1. /\ UNCHANGED <<iso_system, shown, checked>> /\ asking # <<>>
        /\ written' = [iso |-> iso_path, mode |-> Mode, page |-> current_step,
                       asked |-> Head(asking), checked |-> checked]
    BY <1>11 DEF OnWarn2Response, isoVars
  <2>2. iso_path \in ISOs /\ current_step \in 0 .. 3
    BY <1>1, <2>1 DEF TypeInv
  <2>3. Head(asking) \in Questions
    BY <2>1 DEF StartInv, FlagsInv
  <2>4. checked \in Modes \cup {Nothing}
    BY DEF RestInv
  <2>5. written' \in Starts
    BY <1>2, <2>1, <2>2, <2>3, <2>4 DEF Starts
  <2> QED  BY <2>1, <2>5 DEF RestInv
<1>12. CASE Rebuild
  <2>1. /\ iso_system' = [of |-> NoISO, windows |-> FALSE] /\ UpdateUiState
        /\ checked' = Nothing /\ written' = written
    BY <1>12 DEF Rebuild
  <2>2. iso_system' \in Systems
    BY <2>1 DEF Systems
  <2> QED  BY <1>5, <2>1, <2>2 DEF RestInv
<1>13. CASE \/ Outdated \/ InstallDepsWorker \/ UNCHANGED vars
            \/ \E i \in ISOs : AnalyzeWorker(i) \/ ReadEditions(i)
  BY <1>13 DEF Outdated, InstallDepsWorker, AnalyzeWorker, ReadEditions, JobFrame, vars, RestInv,
               pageVars, isoVars, startVars
<1>14. CASE ApplyKind /\ ~Outdated
  <2>1. UNCHANGED <<checked, written>> /\ UpdateIsoBadge /\ UpdateUiState
    BY <1>14 DEF ApplyKind, startVars
  <2> QED  BY <1>4, <1>5, <2>1 DEF RestInv
<1>15. CASE ApplyEditions /\ ~Outdated
  <2>1. /\ UNCHANGED <<shown, checked, written>>
        /\ iso_system' = [of |-> iso_path, windows |-> os = 0]
    BY <1>15 DEF ApplyEditions, pageVars, startVars
  <2>2. iso_system' \in Systems
    BY <1>1, <2>1 DEF Systems, TypeInv
  <2> QED  BY <2>1, <2>2 DEF RestInv
<1>16. CASE OnDepsInstalledSuccess \/ ShowDepsError
  BY <1>16 DEF OnDepsInstalledSuccess, ShowDepsError, InstallEnded, RestInv, isoVars
<1> QED  BY <1>6, <1>7, <1>8, <1>9, <1>10, <1>11, <1>12, <1>13, <1>14, <1>15, <1>16
            DEF Next, UserStep, LoopStep

\* A report is a callback of the right type.
LEMMA ReportsAreCallbacks ==
  ASSUME WizardAssumption
  PROVE  Reports \subseteq Callbacks
<1>1. \A i \in ISOs : {<<>>, Editions(i)} \subseteq Seq(AllEditions)
  BY ListsTyped
<1>2. ASSUME NEW r \in [fn : {"apply_kind"}, iso : ISOs] PROVE r \in Callbacks
  BY DEF Callbacks
<1>3. ASSUME NEW i \in ISOs,
             NEW r \in [fn : {"apply_editions"}, iso : {i}, list : {<<>>, Editions(i)}]
      PROVE  r \in Callbacks
  <2>1. r = [fn |-> "apply_editions", iso |-> i, list |-> r.list]
        /\ r.list \in {<<>>, Editions(i)}
    OBVIOUS
  <2>2. r.list \in Seq(AllEditions)
    BY <1>1, <2>1
  <2>3. [fn |-> "apply_editions", iso |-> i, list |-> r.list]
          \in [fn : {"apply_editions"}, iso : ISOs, list : Seq(AllEditions)]
    BY <2>2
  <2> QED  BY <2>1, <2>3 DEF Callbacks
<1>4. ASSUME NEW r \in [fn : {"on_deps_installed_success", "show_deps_error"}, iso : {NoISO}]
      PROVE  r \in Callbacks
  BY DEF Callbacks
<1> QED  BY <1>2, <1>3, <1>4 DEF Reports

\* The types of the wizard's variables.
THEOREM TypeCorrect == Spec => []TypeOK
<1> DEFINE Inv == StartInv /\ RestInv
<1>1. Init => RestInv
  <2> SUFFICES ASSUME Init PROVE RestInv
    OBVIOUS
  <2>1. iso_system \in Systems
    BY DEF Init, Systems
  <2>2. shown = Nothing /\ checked = Nothing /\ written = Nothing
    BY DEF Init
  <2> QED  BY <2>1, <2>2 DEF RestInv
<1>2. StartInv /\ StartInv' /\ RestInv /\ [Next]_vars => RestInv'
  BY WizardAssumption, RestTyped
<1>3. Inv => TypeOK
  <2> SUFFICES ASSUME Inv PROVE TypeOK
    OBVIOUS
  <2>1. idle \in Seq(Callbacks)
    <3>1. idle \in Seq(Reports)
      BY DEF StartInv, JobsInv, WizardInv, TypeInv
    <3> QED  BY <3>1, WizardAssumption, ReportsAreCallbacks
  <2>2. editions \in Seq(AllEditions)
    BY WizardAssumption, OfferTyped DEF StartInv, JobsInv
  <2>3. /\ current_step \in 0 .. 3 /\ iso_path \in ISOs \cup {NoISO}
        /\ analyzing \in ISOs \cup {NoISO} /\ editions_read \in ISOs \cup {NoISO}
        /\ jobs \in Nat /\ scans \in [ISOs -> Nat] /\ listings \in [ISOs -> Nat]
        /\ installs \in Nat /\ choices \in 0 .. MaxChoices
    BY DEF StartInv, JobsInv, WizardInv, TypeInv, CountInv
  <2>4. edition \in Nat \ {0}
    BY DEF StartInv, CheckInv
  <2>5. FlagsInv /\ RestInv
    BY DEF StartInv
  <2> QED  BY <2>1, <2>2, <2>3, <2>4, <2>5 DEF TypeOK, FlagsInv, RestInv, Systems
<1> QED  BY <1>1, <1>2, <1>3, StartInvariant, PTL DEF Spec
=============================================================================
