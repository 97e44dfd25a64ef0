# Lufux, formally

TLA+ models of Lufux, the GTK 4 program that writes ISO images to USB drives,
with the TLC runs that check them and TLAPS proofs of what matters most.
`PROJECT.json` lists the components, the runs, the source lines each definition
stands for, the hazards of the code and the findings.

## The system

| component | state | operations | talks to |
|---|---|---|---|
| window, wizard pages (`main.py`) | current_step, iso_path, analyzing, editions, jobs, btn_next, the dropdowns, the summary | go_next, go_back, set_iso, apply_kind, apply_editions, update_ui_state, request_start, rebuild | scan and listing threads through `GLib.idle_add`, dialogs through callbacks |
| flash session (`main.py`) | is_flashing, speed_refused, speed_answer, worker | on_warn2_response, on_close_request, kill_worker, udisks_worker, ask_speed, the ending dialogs | one worker thread per flash |
| drive list (`main.py`, `udisks_logic.py`) | last_drives, the dropdown, drive_ident, selected_dev | auto_refresh_drives, reselect, remember_drive, drive_identity | udisks, polled every two seconds |
| udisks layer (`udisks_logic.py`) | none of its own: mounts, loop devices and fds of the system | resolve, unmount_all, mount, mounted_iso, make_volume, open_device | udisksd over D-Bus, without a timeout |
| dd writer (`universal_logic.py`) | an fd, a position | write_image, copy_image, verify_image | the udisks layer |
| Windows installer writer (`windows_logic.py`) | a mounted volume, a loop device, a repacked image, GRUB's first sectors | write_windows, _fill, _install_bios_boot, bios_boot_code | the udisks layer, wimlib, GRUB |
| Windows To Go writer (`windows_togo_logic.py`) | two partitions, an fd, a temporary directory | write_windows_togo, _apply, _install_boot | the udisks layer, wimlib, ask_speed |
| ISO recognition (`iso_logic.py`) | what of the image was read, what is carried to the next chunk | iso_kind | the scan thread |
| BCD hive (`bcd_logic.py`) | a buffer of cells | alloc, value, key, serialise | the To Go writer |
| dependencies (`deps_logic.py`, `main.py`) | the tools of the system | check_dependencies, get_install_cmd, install_deps_worker | the package manager, udisks' CanFormat |
| language and settings (`i18n.py`, `main.py`) | a catalogue; APP_CONFIG and its file | read_po; load_config, save_config | |
| drive speed test (`speed_logic.py`) | none | timed reads and writes | the To Go writer |

What is hard in it:

* The handlers of all windows run one at a time on the main thread. The worker
  threads share three attributes of their window with it, without a lock, and
  post callbacks that run in some later state: of the page, of the dialogs, of
  the application, of the ISO that is chosen by then.
* A stopped writer is not a finished one. For as long as it unmounts and cleans
  up, `is_flashing` is down and the thread is alive.
* The writers hold system resources through nested `try`, `finally` and context
  managers; any call may be refused, the desktop mounts what appears, and the
  user may stop at any moment.
* Device names are reused. Between the list, the choice, the check and the
  first destructive call another stick can have taken the name.
* Several functions work on bytes with a boundary in them: chunks of a scan,
  chunks and the tail of a copy, a list inside a boot sector, cells of a hive.
  An error shows only as a drive that does not boot.

What makes each component correct:

* wizard: what arrives late is never another ISO's; what the summary shows and
  what was checked is what is written; Next comes back;
* flash session: one writer at a time, the process outlives it, each flash has
  a truthful ending that is shown, no page without a way out, stop works;
* drive list: the disk that is wiped is the one that was chosen;
* writers: success only with the whole medium on the drive, "stopped" only when
  asked, nothing left behind, bootable only once there is something to boot;
* the rest: the result is the one its reference definition gives, for any input
  and wherever the program was cut off.

## The modules

| module | models | instance |
|---|---|---|
| `FlashSession` | the windows, their dialogs and callbacks, the threads of flashes and installs | its own .cfg files |
| `Wizard` | the pages before a flash, the scans and edition lists of chosen ISOs, summary, checks, start | `MCWizard` |
| `DriveChoice` | the drive list, the pinned disk, the worker up to the first destructive call | `MCDriveChoice` |
| `WriterContract` | what `udisks_worker` relies on when it runs a writer: the abstract specification | |
| `WriterBase` | the steps all writers share: udisks, the desktop, exceptions | |
| `DdWriter`, `WindowsWriter`, `TogoWriter` | one writer each, extending `WriterBase` | |
| `Writers` | `worker_thread`: the writer it picks, composed of the three; implements `WriterContract` | `Writers.cfg` |
| `IsoKind` | `iso_kind` and its overlapping chunks | |
| `BiosBoot` | `bios_boot_code`: GRUB's block list | |
| `HiveStore` | `HiveWriter`: the cells of a registry hive | |
| `Dependencies` | what a mode needs, where it is looked for, the packages it comes from, the install | |
| `PoCatalogue` | `read_po`, line by line | |
| `Settings` | the settings file over saves, crashes and foreign files | |
| `Parts` | the six above, one behaviour each | `MCParts` |
| `FlashSessionProofs`, `DriveChoiceProofs`, `WizardProofs`, `PartsProofs` | the theorems | |
| `DdProofs`, `WinProofs`, `TogoProofs`; `WritersProofs` | the theorems about one writer; those about all, extending the three | |

**FlashSession.** The variables have the names of the attributes; each is a
function of the window, because a window that was destroyed still has its
callbacks and threads. An action is a handler, whole; a dialog callback has one
action per answer where they differ. `dialogs[w]` is the stack of alert dialogs,
only the topmost of which can be answered; `idle` is the queue of
`GLib.idle_add`; `pc[f]` is where the thread of flash f is in `udisks_worker`,
`ask_speed` and its writer, reduced to how it may end. `on_speedtest_response`
writes three things that the worker reads, so it is three steps, during which
the main thread does nothing else. `endings[f]` is a history of what was told.

**Wizard.** Again the attributes and one action per handler, each with the
`update_ui_state`, `update_iso_badge` and `start_reading_editions` it ends in.
`scans` and `listings` are the threads under way per ISO (`analyze_worker`,
`read_editions`), `installs` the `install_deps_worker` ones, `idle` is the queue
of what they all report; the threads end in any order, the queue keeps its own.
`asking` is the stack of questions between the Start button and the flash: to
install what is missing, the two warnings, and the same two when an install
opened them, which is the one question that can come up on any page. `shown` is what the summary says, `checked`
what the capacity and the tools were checked for, `written` what the flash was
started with: three readings of the same dropdowns at three moments, which the
properties compare. Three histories, `corrected`, `rechosen` and `early`, tell
the cases the properties except: the user overruled the scan, chose an ISO again
with a job for it under way, or an install ended during the scan. A language
change makes a new window with the same ISO. The drive, the capacity figures and
the dialogs that only inform are in the other modules or left out.

**DriveChoice.** `disk` is the stick behind each device name. A stick is what
`drive_identity` returns for it; its row shows only name, size and model, so two
sticks can look alike. The list is a function from names to texts, in the order
of the names. The worker's `resolve` yields an object path, which is the name
again, so `Erase` wipes whatever has the name by then. The callback that ends an
install is here too: it makes Next sensitive whatever is selected, and its
warnings start a flash from any page. `stale` is a history: the row was out of
date when the disk was pinned, or the flash was not started from the summary.

**The writers.** A writer is a program counter over its udisks calls and copy
loops. A call that fails, or a poll of `stopped()` that is true, puts an
exception in flight; `Handler` says, per label, to which `finally` or `except`
it goes, and the cleanup steps go on from there. `volume` is the state of each
filesystem (absent, not yet probed, idle, mounted); the desktop may mount
anything idle that no O_EXCL fd claims. `kept` is what a suppressed error left
behind, the only thing a writer may still hold when it returns. `DdWriter` has
the drive block by block, with short writes, a drive that is too small and
blocks stored wrong; the other two have the set of things the drive got so far
and what of it is only in the page cache. `Writers` picks one of them as
`worker_thread` does, by what was read off the dropdowns; the variables that
only another writer has stay `unused`. It implements `WriterContract` by a
refinement mapping: `held` is what the writer has mounted, attached, opened or
created, `content` is "whole" exactly when its own `Complete` is true.

**Parts.** Functions with a loop are a step per turn, so that the loop's
invariant can be told. An image is the names in it, with place, length and
encoding; the views of a window show a name or not. A boot sector is its slots,
which are list or code; what the BIOS does with the result (`Followed`,
`Sectors`) is the reference. A hive is its cells by offset; the reference is what
a parser follows: sizes tile the pages, every offset is that of a cell of the
right kind, lists are sorted and agree with the parents. A .po file is its
entries, and how they are laid out in lines is chosen as they are read. The
settings file is empty from `open` to the end of `json.dump`. The tools of a
system are in two sets: `tools` is what the writers find, on PATH and with GRUB's
boot.img, `aside` what only the check finds, in `SEARCH_DIRS` or by ntldr.mod; an
mkfs is never aside, since udisks answers for it and runs it.

## What the runs check

| run | shows | bounds |
|---|---|---|
| `flash_session` | types, the two inductive invariants, one writer, the process outlives it, the wizard only when it let go, no dead end, success is final; stop ends and every ending is shown | 2 flashes of one window, 3 stacked dialogs |
| `flash_session_more` | `jobs` counts the installs that still report back; no window is closed over its own writer | 2 windows (another launch, or a language change), 1 install, 1 flash |
| `wizard` | types, jobs counted, editions and guess are the chosen ISO's, what was shown and what was checked is written unless an install let the user past it, Next comes | 2 ISOs, one with two editions and one that is recognised only by the user; 3 choices, language changes or installs |
| `drive_choice` | the wiped disk is the pinned one, and the one on the row unless that was out of date at the click; the row of a pinned disk stays selected, refreshes never move the choice | 2 names, 3 sticks of which 2 look alike, any number of swaps, 1 install at once |
| `writers` | the contract for all three writers; no raw access under a mount; a verified flash is right, what lies between image and tail is left alone, stop within a chunk; GRUB last, the cache directory emptied; boot files only over a written Windows; each ends | drives of 3 to 9 and images of 1 to 5 blocks, chunk and tail of 2, 1 bad block; both schemes, 4 kinds of install image; with and without an image to go; 2 automounts |
| `parts` | each part against its reference | images of up to 10 bytes, chunks of 3, up to 2 names anywhere; cores of 1 byte to one sector too many; hives of 3 keys and 2 values; 4 distributions, every set of tools; .po files of 2 entries in every layout; 2 settings of each kind |

Why the bounds are enough. Two flashes are what it takes for one to start over
another, and what a third could meet it meets with the second; windows interact
only through the end of the process, which two windows and the one flash that
must survive it show (`WriterNotOrphaned` proves it for any number of both; with
an install or a language change it fails, as two runs show). Dialogs stack only
by close requests. Three choices are an ISO, another one while it is scanned, and
the first again, or an ISO, an install, and another ISO that the end of the
install finds being scanned; `WizardProofs` has the safety properties for any number. Two
device names and three sticks give a swap at a name, a move of a stick to the
other name and a swap of two that look alike. The sizes of `DdWriter` put the
image's end and the tail on, before and after a chunk's end and each other. Each
automount needs something new to mount, and there are two partitions at most. A
window of `iso_kind` is a chunk and what was carried, so names before, on and
after each end of three chunks are all there is; three keys give a key with two
subkeys and a chain, and names of three lengths pad a cell differently.

Runs that end in a violation show where the code does other than it says:

* `flash_session_rebuild`: a language change while a stopped writer cleans up
  replaces the window that knows the writer; closing the new one ends the
  process under it.
* `flash_session_install`: an install that ends while a flash runs shows its
  warnings there; confirming them starts a second worker and forgets the first.
  On an earlier page the same callback lets Next go during a scan and flashes
  what no summary showed: the exceptions of `GuessAwaited`, `SummaryIsWritten`
  and `CheckedIsWritten` in `Wizard`.
* `drive_choice_list`: the list is polled every two seconds, and what is pinned
  is the disk that has the row's name at the click: one that was swapped since
  the last poll is wiped under the row of the old one.
* `wizard_edition`: an edition list that arrives after the summary was shown
  selects the edition that is written, and the summary goes on naming none.
* `drive_choice_password`: the identity of the drive is checked before the
  writer waits for passwords, and the calls after that go by name.
* `windows_writer_case`: an install image whose name is not in lower case is
  skipped by the copy and not found afterwards.

Every property of a passing run is broken by a mutant of the code that
`PROJECT.json` names; the mutants stand next to the definition they change.

## Fairness

`FlashSession` assumes that the event loop runs its callbacks and that each
worker thread gets on: udisks answers once its password dialog is, and the copy
loops are bounded. It assumes nothing else of the user: `StopEnds` and
`EndingShown` hold if nobody ever answers a dialog. `Wizard` assumes the event
loop and the scan threads, which read at most `ISO_SCAN` bytes; an edition list,
which may wait for a password, need never come. The writers assume weak fairness
of their own steps only; the probing of a new filesystem is not fair, so `Ends`
rests on the timeout of `_wait_for_fs`.

## What is proved

By TLAPS, for every value of the constants.

`FlashSessionProofs`, for every number of windows, flashes and dialogs:

* `TypeCorrect`, and `JobsAreCounted`: whatever is installed, the count is of the
  finite sets of running installs and queued callbacks, and each step moves one
  element.
* For sessions without dependency installs (`MaxInstalls = 0`; with one and a
  second flash a worker is forgotten, as `flash_session_install` shows):
  * `WriterSafe`, and from it `WriterAlone` and `WriterLeavesPage`. That a live
    thread is the `worker` of an open window is not inductive by itself. The
    argument is about the two ways a window could lose its worker, closing and
    starting over. Closing asks both the flag and the thread. Starting over needs
    an ending dialog, and `EndingLetsGo` says that once one is due the thread is
    on its way out or about to read a refusal; for that, `FlagDown`,
    `AnswerIsOwn`, `AskedWaits` and `OneQuestion` keep flag, queue and speed
    question in step, and `ConfirmationsFirst` keeps a warning from standing over
    a flash.
  * `ClosedHasEnded`: a window that closes has no thread left.
  * `EndingsSafe`, and from it `PageNeverStuck` and `SuccessStays`. A page without
    a way out is one whose worker will still report (`PageHasExit`): what a
    worker posts is the last it does (`ReportsAreLast`) and is of the window's
    last flash (`WorkerIsOwn`), so the page gets a way out in the very step the
    promise is kept. The worker of a refused flash only picks its answer up
    (`RefusedStops`), and once the drive is written no question is open and
    nothing else is queued (`WrittenIsFinal`); the two keep a flash from being
    told both ways.
* For those without a language change too (`MaxLangs = 0`; with one the new
  window does not know the writer, as `flash_session_rebuild` shows):
  `WindowSafe`, the window of a live thread stays open, and `WriterNotOrphaned`,
  the process never ends under it.

`DriveChoiceProofs`, for every number of device names and sticks:

* `TypeCorrect`, `DriveKept` and `ChoiceStays`: the list and the selection,
  under no assumption. A pinned disk keeps its row although an install may let
  Next go on no drive, since `remember_drive` then pins nothing.
* `PinnedIsWiped`: if nothing is swapped while the writer waits for a password
  (`HotplugWaits`). The invariant carries the comparison from the check to the
  first destructive call.
* `ShownIsWiped`, under the same assumption: `ShownUnlessStale`. From the click
  on the invariant (`ShowInv`) relates the pinned disk to the selected row and
  the row to the summary, as long as `stale` is not raised; sticks may come and
  go on every page. What it excepts is what `drive_choice_list` shows.

`WizardProofs`, for any finite set of ISOs, whatever is found in them, and any
number of choices (`WizardAssumption`):

* `EditionsAlwaysOwn`, `GuessAlwaysAwaited` and `SummaryAlwaysWritten`, from
  `WizardInv`: what waits in the queue was made of the ISO it names
  (`Reports`), `analyzing` is the chosen ISO or none, a page past the ISO is
  reached with a scan under way only if an install ended during it (`PageInv`),
  and once the scan has reported the dropdown is the guess or the user's and the
  badge says so (`GuessInv`). Before the first ISO nothing is read, asked or
  installed (`BlankInv`), which is why an install's end never leads past the ISO
  page without one. `ShownInv` carries the summary over everything that may
  arrive while it is up, an install's warnings and the flash they start included.
* `JobsAlwaysCounted`, from `JobsInv`: a thread that ends becomes a callback, so
  the count is of scans, listings, installs and callbacks together (`CountInv`);
  the finite set of threads is counted one by one.
* `CheckedAlwaysWritten`, from `StartInv`: once the chosen ISO's scan and list
  have both reported, no further report of that ISO is on its way, as long as it
  was not chosen again during its job (`PendInv`); so nothing moves the dropdowns
  between the check and the start but the first edition list. `CheckedInv`,
  `AskedInv` and `StartedInv` say what was checked while which question is up:
  the warnings that follow a check never lose it, and only those an install
  opened can start a flash without one.
* `TypeCorrect`.

They need, besides the ranges of the constants, that `Nothing` is no choice of
mode (`NothingAssumption`).

`DdProofs`, for every size of drive, image, chunk and tail and any number of bad
blocks: `VerifiedAlwaysRight`, `BetweenAlwaysLeftAlone` and `StopsWithinChunk`,
from `DdInv`. It says how far the copy and the comparison are at each label
(`DdPlace`), what the blocks up to there hold (`DdBlocks`), that the fd is held
exactly between open_device and its close (`DdHolds`), and that after an
interrupt the chunk under way began before it (`DdStop`).

`PartsProofs`:

* `KindCorrect`, for every size of image, chunk, scan and overlap, if no name is
  longer than the overlap and one byte: what was carried is enough to see a name
  that the next chunk completes (`ScanInv`), whichever of the views shows it.
* `CoreAlwaysLoadsWhole`, for every length of the core and every list found in
  it: the loop clears down to the first empty slot and never reaches code.
* `ToolsAlwaysBeforeWipe`: the commands left to run provide what is missing, for
  each distribution and set of tools, wherever a command fails. What a writer
  needs is then found by it or by the check, an mkfs always by udisks.
* `CatalogueAlwaysRight`, for any number of entries, any texts and any layout in
  lines: where the reader is in the file says what it holds (`PoInv`). The
  entries before this one are in the catalogue, of this one it has the strings
  read so far, and the flag is of the entry it stands before.
* `HiveAlwaysSound`, for any number of keys and values of any lengths. From the
  first cell on the cells tile what is allocated (`CellsTiled`), and a key that
  was written is sound but for a parent, which only those are without that no
  key lists yet (`HiveInv`). A new key takes its subkeys from those, so the
  parent it patches into them is the first they get, and nothing that was said of
  another cell changes (`OldStaysSound`).
* `SettingsAlwaysSurvive`: a file that parses is the settings last saved whole.

They assume the ranges of the constants (`PartsAssumption`), that texts are
sequences (`PoAssumption`), and that no cell has the offset that stands for none,
0xFFFFFFFF (`Nowhere`): a hive is far shorter than that.

`WinProofs` and `TogoProofs`, for any number of automounts and whatever call
fails: `BootsAlwaysSomething`, `CacheAlwaysEmptied` and `BootAlwaysAfterWindows`.
Their invariants, `WinInv` and `TogoInv`, have the same parts. One says where an
exception can be in flight (`...Flow`). One says at which labels the writer has
each thing of the system's, and that past its cleanup it only has what `kept`
names (`...Holds`). One says that the fd is held between its open and its close
and that nothing it claims is mounted meanwhile (`...Exclusive`). The last says
what is on the drive as long as no exception came, and what must be when it can
boot (`...Drive`). The steps of the desktop disturb only `...Holds` and
`...Exclusive`.

`WritersProofs`, from the invariants of all three:

* `WritersKeepContract`: each writer implements `WriterContract`. Every step maps
  to `Ask`, `Work`, a return or a stutter. For that each writer shows what it
  holds at the end (`...Held`), that an end without an exception has the whole
  medium on the drive (`...Whole`), and that no step forgets what was kept or
  makes a drive old again (`...Works`).
* `RawAlwaysIdle` and `WritersTypeCorrect`.

They assume the ranges of the constants (`WritersAssumption`,
`AutomountsAssumption`) and, where the installer writer takes part, that no
install image has a name that is not in lower case (`NoOddCase`): such an ISO is
flashed without it, as `windows_writer_case` shows.

Only model-checked: liveness, that is `StopEnds` and `EndingShown` of
`FlashSession`, `NextComes` of `Wizard` and `Ends` of the writers, which need
fairness and ENABLED. Every other property of a passing run is a theorem.

## Assumptions and limits

* A click is slower than the event loop and than a thread that only has to
  return (`HumanPace`): a flash is confirmed once the window's callbacks have run.
* Close requests may come over any dialog, which is more than a window manager
  delivers.
* In `FlashSession`, `jobs` counts installs only, in `Wizard` scans, lists and
  installs. A destroyed window keeps its callbacks and threads.
* A flash that the user refused may also be told as interrupted: `is_flashing` is
  lowered before `speed_refused` is set (main.py:1280-1281), and a worker that
  wakes in between reports an interruption. `FlashSession` has that step;
  `SuccessIsFinal` allows both endings, and no run is spent on it.
* While an install runs the pages stay usable, and its end asks for nothing:
  Next is let go (main.py:870, 875), also during a scan, and the warnings come up
  for whatever is chosen by then (main.py:871). `GuessAwaited` excepts a scan that
  an install's end overtook (`early`); `SummaryIsWritten` is about a flash started
  from the summary page, and excepts the system's name in that case;
  `CheckedIsWritten` excepts `early`, and a flash from the warnings an install
  opened (`asked` = "installed") or from another page, for which nothing may have
  been checked.
* `Wizard` leaves out the partition scheme, which only the user changes, and the
  figures of the capacity check. `rebuild` runs at once there, and the drive of
  the new window is not modelled: a drive that was pulled on a later page is
  replaced by the first row of the list.
* If an ISO is chosen again while a job for it is under way, both results are
  taken for the second choice, and the late one undoes a correction;
  `CheckedIsWritten` leaves that case out. So does `ToolsBeforeWipe` a mode that
  is chosen while an install runs: nothing checks its tools.
* The check of the tools finds more than the writers do. `_have_cmd` takes a
  program on PATH or in `SEARCH_DIRS` (deps_logic.py:36-39), the writers look on
  PATH alone (windows_logic.py:85, 213); the check tells GRUB's modules by
  ntldr.mod (deps_logic.py:34), a writer by boot.img (windows_logic.py:214). A
  tool that only the check finds fails the writer after the wipe, which is what
  the comment at deps_logic.py:31-32 means to rule out for the modules, "it would
  fail only after the drive is wiped". `ToolsBeforeWipe` excepts such a tool
  (`aside`) and says that nothing else can be missing. A package is taken to put
  its tools where the writers look.
* Between the check of the drive and `resolve`, two calls in a row, nothing is
  swapped. Two sticks that `drive_identity` cannot tell apart are one stick here.
* A failed LoopSetup attaches nothing, the removal of a temporary file succeeds,
  nobody unmounts by hand what a writer uses, the drive fails only by storing a
  block wrong, and the read back reaches the medium.
* The raw writes of GRUB's core and boot sector are taken as on the drive in the
  order they were made. The code syncs once, after both (windows_logic.py:238), so
  a stick pulled between them may have got the second only: `BootsSomething` is
  about calls that fail and a user who stops, not about the page cache there.
* Keys below one key have different names, and a .po file has no msgid twice;
  `build_bcd` and msgfmt see to that.

## Not modelled

* Two windows that flash one drive: udisks' O_EXCL is all that keeps their
  writers apart, and it is a claim about the kernel.
* The speed test's numbers, progress, the log, notifications, wording.
* The elements of the BCD's boot entries, `gpt_guids`, the NTFS boot sector and
  the hook into libntfs-3g: constants and fixed offsets, which a test compares.
* `volume_label` and `identify`, which only name things; which catalogue a locale
  picks; the document portal; which disks `list_drives` leaves out.
* Tests, build scripts, packaging and translations.

## Plan

Left to prove: what of `EndingInv` holds while an install is under way, whose
callback opens dialogs of its own.
Left to model: two windows on one drive, and the rest of `rebuild`, the drive it
preselects.
