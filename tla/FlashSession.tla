---------------------------- MODULE FlashSession ----------------------------
(***************************************************************************)
(* One flash, from the Start button to its last dialog: the windows of the *)
(* application, whose handlers all run on the GTK main thread, and the     *)
(* daemon threads they start, one per flash and one per dependency         *)
(* install (main.py, classes LufuxWindow and LufuxApp).                    *)
(*                                                                         *)
(* The threads share the attributes is_flashing, speed_refused and         *)
(* speed_answer of their window; a thread talks back only through          *)
(* GLib.idle_add, a FIFO queue the main thread drains.  Handlers are one   *)
(* step each, except on_speedtest_response, whose three writes a worker    *)
(* can observe one by one.                                                 *)
(*                                                                         *)
(* Left out: which drive, ISO and edition were chosen (the user of this    *)
(* module always has a drive and an ISO), wording, logging and progress.   *)
(* The writers are their outcomes: stopped, done, raised.                  *)
(***************************************************************************)
EXTENDS Integers, Sequences, FiniteSets

CONSTANTS
  MaxFlashes,     \* flashes started over all windows
  MaxInstalls,    \* dependency installs started over all windows
  MaxLangs,       \* language changes that swap a window
  MaxActivations, \* further launches of the single-instance application
  MaxWindows,     \* windows over both of these
  MaxDialogs      \* dialogs a close request may stack on one window

ASSUME BoundsAssumption ==
  /\ MaxFlashes \in Nat \ {0}
  /\ MaxInstalls \in Nat
  /\ MaxLangs \in Nat
  /\ MaxActivations \in Nat
  /\ MaxWindows \in Nat \ {0}
  /\ MaxDialogs \in Nat

Windows == 1 .. MaxWindows
Flashes == 1 .. MaxFlashes
NoWorker == 0

VARIABLES
  open,          \* "unborn", "open" or "gone", per window
  current_step,  \* 0 drive, 1 ISO, 2 summary, 3 flash, per window
  btn_next,      \* the Next/Start button is sensitive
  btn_done,      \* the Done button is visible
  close_asked,   \* history: the user asked to close and was told to wait
  is_flashing,
  speed_refused,
  speed_answer,  \* the queue.Queue of ask_speed
  worker,        \* the flash whose thread is self.worker
  jobs,
  installers,    \* live install_deps_worker threads
  refusing,      \* how far on_speedtest_response got with a refusal
  dialogs,       \* stacked alert dialogs, the topmost first
  idle,          \* GLib.idle_add callbacks not yet run
  pc,            \* where each flash's thread is
  owner,         \* the window whose worker_thread it runs
  endings,       \* history: how each flash was reported to end
  installs, langs, activations  \* what the bounds count

pageVars  == <<open, current_step, btn_next, btn_done, close_asked>>
flagVars  == <<is_flashing, speed_refused, speed_answer, worker, refusing>>
jobVars   == <<jobs, installers, installs>>
threadVars == <<pc, owner>>
boundVars == <<langs, activations>>
vars == <<pageVars, flagVars, jobVars, dialogs, idle, threadVars, endings, boundVars>>

Confirmations == {"capacity", "deps", "warn1", "warn2"}
DialogKinds == Confirmations \cup {"info", "interrupt", "speed", "ending"}
FlashCallbacks == {"on_flash_success", "show_flash_failed", "show_interrupted_error", "on_speedtest"}
JobCallbacks == {"on_deps_installed_success", "show_deps_error"}
Callbacks == [fn : FlashCallbacks \cup JobCallbacks \cup {"rebuild"},
              win : Windows, flash : Flashes \cup {NoWorker}]
Labels == {"unborn", "check", "prep", "ask", "wait", "write",
           "raised", "report", "false", "true", "over", "dead"}
Endings == {"success", "failed", "interrupted", "refused"}

TypeOK ==
  /\ open \in [Windows -> {"unborn", "open", "gone"}]
  /\ current_step \in [Windows -> 0 .. 3]
  /\ btn_next \in [Windows -> BOOLEAN]
  /\ btn_done \in [Windows -> BOOLEAN]
  /\ close_asked \in [Windows -> BOOLEAN]
  /\ is_flashing \in [Windows -> BOOLEAN]
  /\ speed_refused \in [Windows -> BOOLEAN]
  /\ speed_answer \in [Windows -> Seq({"continue", "abort"})]
  /\ worker \in [Windows -> Flashes \cup {NoWorker}]
  /\ jobs \in [Windows -> Int]
  /\ installers \in [Windows -> Nat]
  /\ refusing \in [Windows -> {"no", "lowered", "marked"}]
  /\ dialogs \in [Windows -> Seq(DialogKinds)]
  /\ idle \in Seq(Callbacks)
  /\ pc \in [Flashes -> Labels]
  /\ owner \in [Flashes -> Windows]
  /\ endings \in [Flashes -> SUBSET Endings]
  /\ installs \in Nat /\ langs \in Nat /\ activations \in Nat

Init ==
  /\ open = [w \in Windows |-> IF w = 1 THEN "open" ELSE "unborn"]
  /\ current_step = [w \in Windows |-> 0]
  /\ btn_next = [w \in Windows |-> TRUE]
  /\ btn_done = [w \in Windows |-> FALSE]
  /\ close_asked = [w \in Windows |-> FALSE]
  /\ is_flashing = [w \in Windows |-> FALSE]
  /\ speed_refused = [w \in Windows |-> FALSE]
  /\ speed_answer = [w \in Windows |-> <<>>]
  /\ worker = [w \in Windows |-> NoWorker]
  /\ jobs = [w \in Windows |-> 0]
  /\ installers = [w \in Windows |-> 0]
  /\ refusing = [w \in Windows |-> "no"]
  /\ dialogs = [w \in Windows |-> <<>>]
  /\ idle = <<>>
  /\ pc = [f \in Flashes |-> "unborn"]
  /\ owner = [f \in Flashes |-> 1]
  /\ endings = [f \in Flashes |-> {}]
  /\ installs = 0 /\ langs = 0 /\ activations = 0

-----------------------------------------------------------------------------
(* Helpers                                                                 *)

Alive(f) == pc[f] \notin {"unborn", "dead"}

\* Mutant: on_close_request without the is_alive() check.
WorkerForgotten(w) == FALSE
HasLiveWorker(w) == worker[w] # NoWorker /\ Alive(worker[w])

\* GTK quits with its last window, and a daemon thread ends with the process.
Exited == \A w \in Windows : open[w] # "open"

\* The main thread runs one handler at a time.
MainFree == \A w \in Windows : refusing[w] = "no"

\* The user acts on w: the topmost dialog only, or the page when there is none.
AtPage(w) == open[w] = "open" /\ MainFree /\ dialogs[w] = <<>>
Answers(w, kind) ==
  open[w] = "open" /\ MainFree /\ dialogs[w] # <<>> /\ Head(dialogs[w]) = kind

Push(w, kind) == dialogs' = [dialogs EXCEPT ![w] = <<kind>> \o @]
Pop(w) == dialogs' = [dialogs EXCEPT ![w] = Tail(@)]
Swap(w, kind) == dialogs' = [dialogs EXCEPT ![w] = <<kind>> \o Tail(@)]

IdleAdd(fn, w, f) == idle' = Append(idle, [fn |-> fn, win |-> w, flash |-> f])
Called(fn) == ~Exited /\ MainFree /\ idle # <<>> /\ Head(idle).fn = fn /\ idle' = Tail(idle)

\* A click is slower than the event loop and than a thread that only has to
\* return: by the time a user confirms a flash, the callbacks of the window
\* have run and a worker that was answered or is past its writer has ended.
Returning == {"ask", "wait", "report", "false", "true", "over"}
HumanPace(w) ==
  /\ \A i \in 1 .. Len(idle) : idle[i].win # w
  /\ \A f \in Flashes : owner[f] = w => pc[f] \notin Returning

Unstarted(f) == pc[f] = "unborn" /\ \A g \in Flashes : g < f => pc[g] # "unborn"
Unborn(w) == open[w] = "unborn" /\ \A v \in Windows : v < w => open[v] # "unborn"

\* The bounds leave a window for each swap that is on its way.
Room == 1 + langs + activations < MaxWindows

-----------------------------------------------------------------------------
(* The wizard's buttons and the questions before a flash                   *)

\* update_ui_state on the new page makes Next sensitive again.
Turn(w, page) ==
  /\ current_step' = [current_step EXCEPT ![w] = page]
  /\ btn_next' = [btn_next EXCEPT ![w] = TRUE]
  /\ UNCHANGED <<open, btn_done, close_asked, flagVars, jobVars, dialogs, idle,
                 threadVars, endings, boundVars>>

\* Mutant: go_next without its bound, the flash page has a next one.
GoNextUnbounded(w) == AtPage(w) /\ btn_next[w] /\ Turn(w, current_step[w] + 1)

\* go_next on the drive and ISO pages.
GoNext(w) == AtPage(w) /\ current_step[w] < 2 /\ btn_next[w] /\ Turn(w, current_step[w] + 1)

\* go_back; nav_box is hidden on the flash page.
GoBack(w) == AtPage(w) /\ current_step[w] \in {1, 2} /\ Turn(w, current_step[w] - 1)

\* proceed_to_warnings: the first warning, the offer to install what is
\* missing, or the note that this distribution has no install command.
NextQuestion == {"warn1", "deps", "info"}

\* request_start: too small a drive is only told; a tight one is asked about.
RequestStart(w) ==
  /\ AtPage(w) /\ current_step[w] = 2 /\ btn_next[w]
  /\ \E kind \in NextQuestion \cup {"capacity"} : Push(w, kind)
  /\ UNCHANGED <<pageVars, flagVars, jobVars, idle, threadVars, endings, boundVars>>

OnCapacityResponse(w) ==
  /\ Answers(w, "capacity")
  /\ Pop(w) \/ \E kind \in NextQuestion : Swap(w, kind)
  /\ UNCHANGED <<pageVars, flagVars, jobVars, idle, threadVars, endings, boundVars>>

OnInstallDepsCancel(w) ==
  /\ Answers(w, "deps") /\ Pop(w)
  /\ UNCHANGED <<pageVars, flagVars, jobVars, idle, threadVars, endings, boundVars>>

OnInstallDepsResponse(w) ==
  /\ Answers(w, "deps") /\ installs < MaxInstalls
  /\ Pop(w)
  /\ btn_next' = [btn_next EXCEPT ![w] = FALSE]
  /\ jobs' = [jobs EXCEPT ![w] = @ + 1]
  /\ installers' = [installers EXCEPT ![w] = @ + 1]
  /\ installs' = installs + 1
  /\ UNCHANGED <<open, current_step, btn_done, close_asked, flagVars, idle,
                 threadVars, endings, boundVars>>

\* install_deps_worker: every command succeeded, or one failed or raised.
InstallDepsWorker(w) ==
  /\ ~Exited /\ installers[w] > 0
  /\ installers' = [installers EXCEPT ![w] = @ - 1]
  /\ \E fn \in JobCallbacks : IdleAdd(fn, w, NoWorker)
  /\ UNCHANGED <<pageVars, flagVars, jobs, installs, dialogs, threadVars, endings, boundVars>>

OnDepsInstalledSuccess(w) ==
  /\ Called("on_deps_installed_success") /\ Head(idle).win = w
  /\ jobs' = [jobs EXCEPT ![w] = @ - 1]
  /\ btn_next' = [btn_next EXCEPT ![w] = TRUE]
  /\ Push(w, "warn1")
  /\ UNCHANGED <<open, current_step, btn_done, close_asked, flagVars, installers, installs,
                 threadVars, endings, boundVars>>

\* Mutant: only the successful install is taken off jobs.
DepsErrorStillCounted(w) ==
  /\ Called("show_deps_error") /\ Head(idle).win = w
  /\ btn_next' = [btn_next EXCEPT ![w] = TRUE]
  /\ Push(w, "info")
  /\ UNCHANGED <<open, current_step, btn_done, close_asked, flagVars, jobVars, threadVars,
                 endings, boundVars>>

ShowDepsError(w) ==
  /\ Called("show_deps_error") /\ Head(idle).win = w
  /\ jobs' = [jobs EXCEPT ![w] = @ - 1]
  /\ btn_next' = [btn_next EXCEPT ![w] = TRUE]
  /\ Push(w, "info")
  /\ UNCHANGED <<open, current_step, btn_done, close_asked, flagVars, installers, installs,
                 threadVars, endings, boundVars>>

OnWarn1Response(w) ==
  /\ Answers(w, "warn1")
  /\ Pop(w) \/ Swap(w, "warn2")
  /\ UNCHANGED <<pageVars, flagVars, jobVars, idle, threadVars, endings, boundVars>>

OnWarn2Cancel(w) ==
  /\ Answers(w, "warn2") /\ Pop(w)
  /\ UNCHANGED <<pageVars, flagVars, jobVars, idle, threadVars, endings, boundVars>>

\* on_warn2_response "yes": the flash page, the flags, a new worker thread.
OnWarn2Response(w, f) ==
  /\ Answers(w, "warn2") /\ HumanPace(w) /\ Unstarted(f)
  /\ Pop(w)
  /\ current_step' = [current_step EXCEPT ![w] = 3]
  /\ is_flashing' = [is_flashing EXCEPT ![w] = TRUE]
  /\ speed_refused' = [speed_refused EXCEPT ![w] = FALSE]
  /\ worker' = [worker EXCEPT ![w] = f]
  /\ pc' = [pc EXCEPT ![f] = "check"]
  /\ owner' = [owner EXCEPT ![f] = w]
  /\ close_asked' = [close_asked EXCEPT ![w] = FALSE]
  /\ UNCHANGED <<open, btn_next, btn_done, speed_answer, refusing, jobVars, idle, endings,
                 boundVars>>

-----------------------------------------------------------------------------
(* Closing, interrupting and starting over                                 *)

\* on_close_request, with `rest` the dialogs that stay below what it shows.
OnCloseRequest(w, rest) ==
  \/ /\ is_flashing[w]
     /\ dialogs' = [dialogs EXCEPT ![w] = <<"interrupt">> \o rest]
     /\ UNCHANGED <<open, close_asked>>
  \/ /\ ~is_flashing[w] /\ HasLiveWorker(w)
     /\ dialogs' = [dialogs EXCEPT ![w] = <<"info">> \o rest]
     /\ close_asked' = [close_asked EXCEPT ![w] = TRUE]
     /\ UNCHANGED open
  \/ /\ ~is_flashing[w] /\ ~HasLiveWorker(w)
     /\ open' = [open EXCEPT ![w] = "gone"]
     /\ dialogs' = [dialogs EXCEPT ![w] = rest]
     /\ UNCHANGED close_asked

CloseFrame == UNCHANGED <<current_step, btn_next, btn_done, flagVars, jobVars, idle,
                          threadVars, endings, boundVars>>

\* The window manager's close, over whatever dialog is up.
UserCloses(w) ==
  /\ open[w] = "open" /\ MainFree /\ Len(dialogs[w]) < MaxDialogs
  /\ OnCloseRequest(w, dialogs[w]) /\ CloseFrame

\* btn_done calls self.close().
UserIsDone(w) ==
  /\ AtPage(w) /\ btn_done[w]
  /\ OnCloseRequest(w, <<>>) /\ CloseFrame

\* on_error_response "close", the answer of Escape too.
OnErrorClose(w) ==
  /\ Answers(w, "ending")
  /\ OnCloseRequest(w, Tail(dialogs[w])) /\ CloseFrame

\* on_error_response "restart".
OnErrorRestart(w) ==
  /\ Answers(w, "ending") /\ Pop(w)
  /\ current_step' = [current_step EXCEPT ![w] = 0]
  /\ btn_next' = [btn_next EXCEPT ![w] = TRUE]
  /\ btn_done' = [btn_done EXCEPT ![w] = FALSE]
  /\ UNCHANGED <<open, close_asked, flagVars, jobVars, idle, threadVars, endings, boundVars>>

\* Mutant: the interruption is told as the ending before the worker let go.
InterruptToldAtOnce(w) ==
  /\ Answers(w, "interrupt") /\ Swap(w, "ending")
  /\ is_flashing' = [is_flashing EXCEPT ![w] = FALSE]
  /\ UNCHANGED <<pageVars, speed_refused, speed_answer, worker, refusing, jobVars, idle,
                 threadVars, endings, boundVars>>

\* on_interrupt_response; "yes" is kill_worker, which only lowers the flag.
OnInterruptResponse(w) ==
  /\ Answers(w, "interrupt") /\ Pop(w)
  /\ \/ is_flashing' = [is_flashing EXCEPT ![w] = FALSE]
     \/ UNCHANGED is_flashing
  /\ UNCHANGED <<pageVars, speed_refused, speed_answer, worker, refusing, jobVars, idle,
                 threadVars, endings, boundVars>>

DismissInfo(w) ==
  /\ Answers(w, "info") /\ Pop(w)
  /\ UNCHANGED <<pageVars, flagVars, jobVars, idle, threadVars, endings, boundVars>>

-----------------------------------------------------------------------------
(* A new language, and a second launch                                     *)

\* on_lang_changed: told to restart later, or the window is swapped.
OnLangChanged(w) ==
  /\ AtPage(w) /\ langs < MaxLangs /\ Room
  /\ langs' = langs + 1
  /\ IF is_flashing[w] \/ jobs[w] # 0
     THEN Push(w, "info") /\ UNCHANGED idle
     ELSE IdleAdd("rebuild", w, NoWorker) /\ UNCHANGED dialogs
  /\ UNCHANGED <<pageVars, flagVars, jobVars, threadVars, endings, activations>>

\* rebuild: a new window in its first state, and this one is destroyed.
Rebuild(w, v) ==
  /\ Called("rebuild") /\ Head(idle).win = w /\ Unborn(v)
  /\ open' = [open EXCEPT ![w] = "gone", ![v] = "open"]
  /\ UNCHANGED <<current_step, btn_next, btn_done, close_asked, flagVars, jobVars, dialogs,
                 threadVars, endings, boundVars>>

\* on_activate of the running instance presents one more window.
OnActivate(v) ==
  /\ ~Exited /\ MainFree /\ Unborn(v) /\ activations < MaxActivations /\ Room
  /\ activations' = activations + 1
  /\ open' = [open EXCEPT ![v] = "open"]
  /\ UNCHANGED <<current_step, btn_next, btn_done, close_asked, flagVars, jobVars, dialogs,
                 idle, threadVars, endings, langs>>

-----------------------------------------------------------------------------
(* The worker thread of a flash: udisks_worker around a writer             *)

Goes(f, from, to) == ~Exited /\ pc[f] = from /\ pc' = [pc EXCEPT ![f] = to]
ThreadFrame == UNCHANGED <<pageVars, jobVars, dialogs, owner, boundVars>>

\* drive_identity(dev) against drive_ident; a Windows To Go writer first
\* formats the drive and times it, the others write straight away.
CheckDrive(f) ==
  /\ \E to \in {"raised", "prep", "write"} : Goes(f, "check", to)
  /\ ThreadFrame /\ UNCHANGED <<flagVars, idle, endings>>

\* write_windows_togo up to the speed test: it raises, goes on when the
\* speed cannot be measured, or asks (ask_speed makes a new queue).
PrepareToGo(f) ==
  /\ \/ /\ \E to \in {"raised", "write"} : Goes(f, "prep", to)
        /\ UNCHANGED <<speed_answer, idle>>
     \/ /\ Goes(f, "prep", "ask")
        /\ speed_answer' = [speed_answer EXCEPT ![owner[f]] = <<>>]
        /\ IdleAdd("on_speedtest", owner[f], f)
  /\ ThreadFrame /\ UNCHANGED <<is_flashing, speed_refused, worker, refusing, endings>>

\* Mutants: ask_speed waits for an answer whatever the flag says, or takes
\* the lowered flag for a go-ahead.
AskSpeedForever(f) ==
  Goes(f, "ask", "wait") /\ ThreadFrame /\ UNCHANGED <<flagVars, idle, endings>>
AskSpeedGoesOn(f) ==
  /\ Goes(f, "ask", IF is_flashing[owner[f]] THEN "wait" ELSE "write")
  /\ ThreadFrame /\ UNCHANGED <<flagVars, idle, endings>>

\* The head of ask_speed's loop.
AskSpeed(f) ==
  /\ Goes(f, "ask", IF is_flashing[owner[f]] THEN "wait" ELSE "false")
  /\ ThreadFrame /\ UNCHANGED <<flagVars, idle, endings>>

\* speed_answer.get(timeout=0.5): an answer, or queue.Empty.
WaitAnswer(f) ==
  LET answers == speed_answer[owner[f]] IN
  /\ \/ /\ answers # <<>>
        /\ Goes(f, "wait", IF Head(answers) = "continue" THEN "write" ELSE "false")
        /\ speed_answer' = [speed_answer EXCEPT ![owner[f]] = Tail(@)]
     \/ /\ answers = <<>>
        /\ Goes(f, "wait", "ask") /\ UNCHANGED speed_answer
  /\ ThreadFrame /\ UNCHANGED <<is_flashing, speed_refused, worker, refusing, idle, endings>>

\* The writer: it polls stopped(), which is `not self.is_flashing`, here and
\* there, and may as well finish or fail after the flag went down.
WriterStops(f) ==
  /\ ~is_flashing[owner[f]] /\ Goes(f, "write", "false")
  /\ ThreadFrame /\ UNCHANGED <<flagVars, idle, endings>>

WriterEnds(f) ==
  /\ \E to \in {"true", "raised"} : Goes(f, "write", to)
  /\ ThreadFrame /\ UNCHANGED <<flagVars, idle, endings>>

\* The except clauses and the changed drive: the flag goes down first ...
LowerFlag(f) ==
  /\ Goes(f, "raised", "report")
  /\ is_flashing' = [is_flashing EXCEPT ![owner[f]] = FALSE]
  /\ ThreadFrame
  /\ UNCHANGED <<speed_refused, speed_answer, worker, refusing, idle, endings>>

\* Mutant: the failure is logged and nothing is shown.
FailureOnlyLogged(f) ==
  Goes(f, "report", "over") /\ ThreadFrame /\ UNCHANGED <<flagVars, idle, endings>>

\* ... then the failure is reported.
ReportFailure(f) ==
  /\ Goes(f, "report", "over") /\ IdleAdd("show_flash_failed", owner[f], f)
  /\ ThreadFrame /\ UNCHANGED <<flagVars, endings>>

ReportSuccess(f) ==
  /\ Goes(f, "true", "over") /\ IdleAdd("on_flash_success", owner[f], f)
  /\ ThreadFrame /\ UNCHANGED <<flagVars, endings>>

ReportStopped(f) ==
  /\ Goes(f, "false", "over")
  /\ IF speed_refused[owner[f]]
     THEN UNCHANGED idle
     ELSE IdleAdd("show_interrupted_error", owner[f], f)
  /\ ThreadFrame /\ UNCHANGED <<flagVars, endings>>

\* is_alive() turns false.
ThreadEnds(f) ==
  /\ Goes(f, "over", "dead")
  /\ ThreadFrame /\ UNCHANGED <<flagVars, idle, endings>>

-----------------------------------------------------------------------------
(* What a worker posted, on the main thread                                *)

Report(w, f, ending) ==
  /\ Head(idle).win = w /\ Head(idle).flash = f
  /\ endings' = [endings EXCEPT ![f] = @ \cup {ending}]

OnFlashSuccess(w, f) ==
  /\ Called("on_flash_success") /\ Report(w, f, "success")
  /\ is_flashing' = [is_flashing EXCEPT ![w] = FALSE]
  /\ btn_done' = [btn_done EXCEPT ![w] = TRUE]
  /\ UNCHANGED <<open, current_step, btn_next, close_asked, speed_refused, speed_answer,
                 worker, refusing, jobVars, dialogs, threadVars, boundVars>>

ShowFlashFailed(w, f) ==
  /\ Called("show_flash_failed") /\ Report(w, f, "failed")
  /\ Push(w, "ending")
  /\ UNCHANGED <<pageVars, flagVars, jobVars, threadVars, boundVars>>

ShowInterruptedError(w, f) ==
  /\ Called("show_interrupted_error") /\ Report(w, f, "interrupted")
  /\ Push(w, "ending")
  /\ UNCHANGED <<pageVars, flagVars, jobVars, threadVars, boundVars>>

\* on_speedtest: fast enough answers itself, else the user is asked.
OnSpeedtest(w) ==
  /\ Called("on_speedtest") /\ Head(idle).win = w
  /\ \/ /\ speed_answer' = [speed_answer EXCEPT ![w] = Append(@, "continue")]
        /\ UNCHANGED dialogs
     \/ /\ Push(w, "speed") /\ UNCHANGED speed_answer
  /\ UNCHANGED <<pageVars, is_flashing, speed_refused, worker, refusing, jobVars, threadVars,
                 endings, boundVars>>

OnSpeedtestContinue(w) ==
  /\ Answers(w, "speed") /\ Pop(w)
  /\ speed_answer' = [speed_answer EXCEPT ![w] = Append(@, "continue")]
  /\ UNCHANGED <<pageVars, is_flashing, speed_refused, worker, refusing, jobVars, idle,
                 threadVars, endings, boundVars>>

\* on_speedtest_response, any other answer, in its three writes:
\* is_flashing, then speed_refused, then the queue.
RefuseLowersFlag(w) ==
  /\ Answers(w, "speed") /\ Pop(w)
  /\ is_flashing' = [is_flashing EXCEPT ![w] = FALSE]
  /\ refusing' = [refusing EXCEPT ![w] = "lowered"]
  /\ UNCHANGED <<pageVars, speed_refused, speed_answer, worker, jobVars, idle, threadVars,
                 endings, boundVars>>

RefuseMarks(w) ==
  /\ ~Exited /\ refusing[w] = "lowered"
  /\ speed_refused' = [speed_refused EXCEPT ![w] = TRUE]
  /\ refusing' = [refusing EXCEPT ![w] = "marked"]
  /\ UNCHANGED <<pageVars, is_flashing, speed_answer, worker, jobVars, dialogs, idle,
                 threadVars, endings, boundVars>>

RefuseAnswers(w, f) ==
  /\ ~Exited /\ refusing[w] = "marked" /\ f = worker[w]
  /\ speed_answer' = [speed_answer EXCEPT ![w] = Append(@, "abort")]
  /\ refusing' = [refusing EXCEPT ![w] = "no"]
  /\ Push(w, "ending")
  /\ endings' = [endings EXCEPT ![f] = @ \cup {"refused"}]
  /\ UNCHANGED <<pageVars, is_flashing, speed_refused, worker, jobVars, idle, threadVars,
                 boundVars>>

-----------------------------------------------------------------------------
UserStep(w) ==
  \/ GoNext(w) \/ GoBack(w) \/ RequestStart(w) \/ OnCapacityResponse(w)
  \/ OnInstallDepsCancel(w) \/ OnInstallDepsResponse(w)
  \/ OnWarn1Response(w) \/ OnWarn2Cancel(w) \/ (\E f \in Flashes : OnWarn2Response(w, f))
  \/ UserCloses(w) \/ UserIsDone(w) \/ OnErrorClose(w) \/ OnErrorRestart(w)
  \/ OnInterruptResponse(w) \/ DismissInfo(w) \/ OnLangChanged(w)
  \/ OnSpeedtestContinue(w) \/ RefuseLowersFlag(w)

\* What the event loop does on its own: queued callbacks, and the rest of a
\* handler that is under way.
LoopStep ==
  \/ \E w \in Windows :
       \/ OnDepsInstalledSuccess(w) \/ ShowDepsError(w) \/ OnSpeedtest(w) \/ RefuseMarks(w)
       \/ \E v \in Windows : Rebuild(w, v)
       \/ \E f \in Flashes :
            \/ OnFlashSuccess(w, f) \/ ShowFlashFailed(w, f) \/ ShowInterruptedError(w, f)
            \/ RefuseAnswers(w, f)

WorkerStep(f) ==
  \/ CheckDrive(f) \/ PrepareToGo(f) \/ AskSpeed(f) \/ WaitAnswer(f)
  \/ WriterStops(f) \/ WriterEnds(f) \/ LowerFlag(f)
  \/ ReportFailure(f) \/ ReportSuccess(f) \/ ReportStopped(f) \/ ThreadEnds(f)

\* The application ended: nothing more happens in this process.
Terminated == Exited /\ UNCHANGED vars

Next ==
  \/ \E w \in Windows : UserStep(w) \/ InstallDepsWorker(w) \/ OnActivate(w)
  \/ LoopStep
  \/ \E f \in Flashes : WorkerStep(f)
  \/ Terminated

Spec == Init /\ [][Next]_vars

\* The event loop keeps running and threads get the processor.  A worker's
\* step that talks to udisks or the drive ends too: the calls have no timeout,
\* but udisks answers once its password dialog is, and the copy loops are
\* bounded.  Nothing else is assumed of the user.
Fairness ==
  /\ WF_vars(LoopStep)
  /\ \A f \in Flashes : WF_vars(WorkerStep(f))

LiveSpec == Spec /\ Fairness

-----------------------------------------------------------------------------
(* Properties                                                              *)

\* The drive is in the hands of this thread, or will be once it is answered.
Busy(f) == pc[f] \in {"check", "prep", "write", "raised"}

\* on_close_request: "the writer still has to unmount and drop the loop
\* device; killed with the process, it leaves both behind".  The process
\* never ends while the thread of a flash runs.
NoOrphanWriter == Exited => \A f \in Flashes : ~Alive(f)

\* on_close_request, as long as the window knows its writer: one that closes
\* has no thread left, whatever ran in it, was queued for it or was shown over
\* it.  A window that rebuild swaps, another one being born, is another matter.
ClosedIsDone ==
  [][\A w \in Windows :
       /\ open[w] = "open" /\ open'[w] = "gone"
       /\ \A v \in Windows : open'[v] = "open" => open[v] = "open"
       => \A f \in Flashes : Alive(f) => owner[f] # w]_vars

\* The drive, ISO and summary pages of a window are reached again only when
\* its writer has let go of the drive, so no second flash of that window can
\* start on top of a first one.
WizardMeansIdle ==
  \A f \in Flashes : Busy(f) /\ open[owner[f]] = "open" => current_step[owner[f]] = 3

\* At most one thread of a window has the drive.
OneWriter ==
  \A f, g \in Flashes : Busy(f) /\ Busy(g) /\ owner[f] = owner[g] => f = g

\* show_flash_failed: "this page hides the navigation and has no Done button,
\* so the app had to be closed before anything could be tried again".  Once
\* a flash is over, its page has a dialog or the Done button, unless the user
\* chose to close and was told to wait.
NeverStuck ==
  \A w \in Windows :
    /\ open[w] = "open" /\ current_step[w] = 3 /\ MainFree
    /\ ~HasLiveWorker(w) /\ \A i \in 1 .. Len(idle) : idle[i].win # w
    => dialogs[w] # <<>> \/ btn_done[w] \/ close_asked[w]

\* A flash reported as written is never also reported as failed, interrupted
\* or refused, in whatever order the answers and the callbacks arrive.
SuccessIsFinal ==
  \A f \in Flashes : "success" \in endings[f] => endings[f] = {"success"}

\* self.jobs counts the installs that run or whose callback is still queued:
\* what on_lang_changed trusts before it swaps the window.
JobCalls(queue, w) == {i \in 1 .. Len(queue) : queue[i].win = w /\ queue[i].fn \in JobCallbacks}
JobsCounted ==
  \A w \in Windows : jobs[w] = installers[w] + Cardinality(JobCalls(idle, w))

\* A worker whose flag went down ends, unless a new flash raised it again.
StopEnds ==
  \A f \in Flashes :
    Alive(f) /\ ~is_flashing[owner[f]] ~> ~Alive(f) \/ Exited \/ is_flashing[owner[f]]

\* Every flash whose thread ended is reported, as long as its window lives.
EndingShown ==
  \A f \in Flashes : pc[f] = "dead" ~> endings[f] # {} \/ open[owner[f]] # "open"

-----------------------------------------------------------------------------
(* Why a window's writer is alone and known to it, as long as no dependency *)
(* install interferes: the inductive invariant of those proofs.             *)

Has(stack, kind) == \E i \in 1 .. Len(stack) : stack[i] = kind
HasCall(queue, w, fn) == \E i \in 1 .. Len(queue) : queue[i].win = w /\ queue[i].fn = fn

\* An ending of the window's last flash was told or is about to be, or the
\* user is back in the wizard: the page may be left.
EndingDue(w) ==
  \/ current_step[w] # 3
  \/ Has(dialogs[w], "ending")
  \/ HasCall(idle, w, "show_flash_failed") \/ HasCall(idle, w, "show_interrupted_error")

\* The speed question of the window still waits for its answer.
SpeedOpen(w) ==
  Has(dialogs[w], "speed") \/ HasCall(idle, w, "on_speedtest") \/ refusing[w] # "no"

\* No install runs or ended.
OnlyFlashCalls ==
  \A w \in Windows : installers[w] = 0 /\ \A fn \in JobCallbacks : ~HasCall(idle, w, fn)

\* A live thread is the worker of its window.
LiveIsWorker == \A f \in Flashes : Alive(f) => worker[owner[f]] = f

\* The flag is down in the wizard, during a refusal, and once the flash failed.
FlagDown ==
  /\ \A w \in Windows : EndingDue(w) \/ refusing[w] # "no" => ~is_flashing[w]
  /\ \A f \in Flashes : pc[f] \in {"false", "report"} => ~is_flashing[owner[f]]

\* The questions before a flash stand alone, and never on the flash page.
LastOnly(stack) ==
  \A i \in 1 .. Len(stack) : stack[i] \in Confirmations => i = Len(stack)
ConfirmationsFirst ==
  \A w \in Windows :
    /\ LastOnly(dialogs[w])
    /\ \A kind \in Confirmations : Has(dialogs[w], kind) => current_step[w] # 3

\* One speed question at a time.
OneDialog(stack) ==
  \A i, j \in 1 .. Len(stack) : stack[i] = "speed" /\ stack[j] = "speed" => i = j
OneCall(queue, w) ==
  \A i, j \in 1 .. Len(queue) :
    /\ queue[i].win = w /\ queue[i].fn = "on_speedtest"
    /\ queue[j].win = w /\ queue[j].fn = "on_speedtest"
    => i = j
OneQuestion ==
  \A w \in Windows :
    /\ OneDialog(dialogs[w]) /\ OneCall(idle, w)
    /\ Has(dialogs[w], "speed") => ~HasCall(idle, w, "on_speedtest") /\ refusing[w] = "no"
    /\ HasCall(idle, w, "on_speedtest") => refusing[w] = "no"

\* While its question is open the worker waits, with no answer yet, or is on
\* its way out.
AskedWaits ==
  \A f \in Flashes : Alive(f) /\ SpeedOpen(owner[f]) =>
    \/ pc[f] \in {"ask", "wait"} /\ speed_answer[owner[f]] = <<>>
    \/ pc[f] \in {"false", "over"}

\* Once an ending is due the worker is on its way out, at most picking up
\* the refusal.
EndingLetsGo ==
  \A f \in Flashes : Alive(f) /\ EndingDue(owner[f]) =>
    \/ pc[f] \in {"ask", "wait"} /\ speed_answer[owner[f]] = <<"abort">>
    \/ pc[f] \in {"false", "over"}

\* What the worker finds in the queue is one answer to its own question, and
\* a refusal lowered the flag before it was put there.
AnswerIsOwn ==
  \A f \in Flashes : pc[f] \in {"ask", "wait"} =>
    \/ speed_answer[owner[f]] \in {<<>>, <<"continue">>}
    \/ speed_answer[owner[f]] = <<"abort">> /\ ~is_flashing[owner[f]]

WriterInv ==
  /\ OnlyFlashCalls
  /\ LiveIsWorker
  /\ FlagDown
  /\ ConfirmationsFirst
  /\ OneQuestion
  /\ AskedWaits
  /\ EndingLetsGo
  /\ AnswerIsOwn

-----------------------------------------------------------------------------
(* Why the process never ends under a writer, when no language change       *)
(* destroys its window either.                                              *)

NoRebuild == \A w \in Windows : ~HasCall(idle, w, "rebuild")
LiveIsOpen == \A f \in Flashes : Alive(f) => open[owner[f]] = "open"
WindowStays == NoRebuild /\ LiveIsOpen

-----------------------------------------------------------------------------
(* Why the flash page always has a way out, and why a success is final:     *)
(* the inductive invariant of those proofs, with WriterInv.                 *)

EndingCalls == {"on_flash_success", "show_flash_failed", "show_interrupted_error"}
CallOf(queue, f, fn) == \E i \in 1 .. Len(queue) : queue[i].flash = f /\ queue[i].fn = fn

\* The way out is there, or in the queue, or the rest of a refusal shows it.
Exit(w) ==
  \/ btn_done[w] \/ close_asked[w] \/ Has(dialogs[w], "ending") \/ refusing[w] # "no"
  \/ \E fn \in EndingCalls : HasCall(idle, w, fn)

\* worker is the last flash that was started in the window.
WorkerIsOwn ==
  \A w \in Windows : worker[w] # NoWorker => owner[worker[w]] = w /\ pc[worker[w]] # "unborn"

\* A flash page without a way out has a worker that still has to report, and
\* that no refusal keeps from it.
WillReport(w) ==
  ~speed_refused[w] /\ worker[w] # NoWorker /\ pc[worker[w]] \notin {"over", "dead"}
PageHasExit ==
  \A w \in Windows : open[w] # "gone" /\ current_step[w] = 3 => Exit(w) \/ WillReport(w)

\* What a worker posts is the last it does; a refusal alone is told earlier.
ReportsAreLast ==
  \A f \in Flashes : pc[f] \notin {"over", "dead"} =>
    endings[f] \subseteq {"refused"} /\ \A fn \in EndingCalls : ~CallOf(idle, f, fn)

\* The worker of a refused flash stops, at most picking the refusal up.
RefusedStops ==
  \A f \in Flashes : "refused" \in endings[f] =>
    \/ pc[f] \in {"ask", "wait"} /\ speed_answer[owner[f]] = <<"abort">>
    \/ pc[f] \in {"false", "over", "dead"}

\* The drive is written: nothing else was told of the flash, is about to be,
\* or can still come of a question to the user.
Written(f) == pc[f] = "true" \/ CallOf(idle, f, "on_flash_success") \/ "success" \in endings[f]
WrittenIsFinal ==
  \A f \in Flashes : Written(f) =>
    /\ pc[f] \in {"true", "over", "dead"} /\ endings[f] \subseteq {"success"}
    /\ \A fn \in EndingCalls \ {"on_flash_success"} : ~CallOf(idle, f, fn)
    /\ worker[owner[f]] = f => ~SpeedOpen(owner[f])

EndingInv ==
  /\ WorkerIsOwn
  /\ PageHasExit
  /\ ReportsAreLast
  /\ RefusedStops
  /\ WrittenIsFinal
=============================================================================
