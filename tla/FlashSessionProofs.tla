------------------------- MODULE FlashSessionProofs -------------------------
(***************************************************************************)
(* Proofs about FlashSession for every number of windows, flashes and      *)
(* dialogs: the types and the count of the jobs for every session; that    *)
(* the page is never stuck, each flash has one truthful ending and no      *)
(* window is closed over its own writer for sessions without a dependency  *)
(* install; and for those without a language change too that the process   *)
(* never ends under a live worker.                                         *)
(***************************************************************************)
EXTENDS FlashSession, SequenceTheorems, FiniteSetTheorems, TLAPS

-----------------------------------------------------------------------------
(* Sequences                                                               *)

\* A dialog pushed on a stack.
LEMMA StackPush ==
  ASSUME NEW S, NEW s \in Seq(S), NEW k \in S
  PROVE  /\ <<k>> \o s \in Seq(S)
         /\ Len(<<k>> \o s) = Len(s) + 1
         /\ (<<k>> \o s)[1] = k
         /\ \A i \in 1 .. Len(s) : (<<k>> \o s)[i + 1] = s[i]
         /\ \A i \in 2 .. (Len(s) + 1) : (<<k>> \o s)[i] = s[i - 1]
  OBVIOUS

\* What stays of a stack when its topmost dialog is answered.
LEMMA StackPop ==
  ASSUME NEW S, NEW s \in Seq(S), s # <<>>
  PROVE  /\ Tail(s) \in Seq(S)
         /\ Len(s) \in Nat \ {0}
         /\ Len(Tail(s)) = Len(s) - 1
         /\ Head(s) = s[1]
         /\ Head(s) \in S
         /\ \A i \in 1 .. Len(Tail(s)) : Tail(s)[i] = s[i + 1]
  OBVIOUS

\* A callback appended to the queue.
LEMMA QueueAdd ==
  ASSUME NEW S, NEW s \in Seq(S), NEW k \in S
  PROVE  /\ Append(s, k) \in Seq(S)
         /\ Len(Append(s, k)) = Len(s) + 1
         /\ Append(s, k)[Len(s) + 1] = k
         /\ \A i \in 1 .. Len(s) : Append(s, k)[i] = s[i]
  OBVIOUS

\* What the stack helpers do to the dialogs of every window.
LEMMA PushEffect ==
  ASSUME dialogs \in [Windows -> Seq(DialogKinds)], NEW w \in Windows, NEW k \in DialogKinds,
         NEW rest \in Seq(DialogKinds),
         dialogs' = [dialogs EXCEPT ![w] = <<k>> \o rest]
  PROVE  /\ dialogs' \in [Windows -> Seq(DialogKinds)]
         /\ \A v \in Windows \ {w} : dialogs'[v] = dialogs[v]
         /\ Len(dialogs'[w]) = Len(rest) + 1
         /\ dialogs'[w][1] = k
         /\ \A i \in 2 .. Len(dialogs'[w]) : dialogs'[w][i] = rest[i - 1]
  BY StackPush

\* What answering the topmost dialog does to the dialogs of every window.
LEMMA PopEffect ==
  ASSUME dialogs \in [Windows -> Seq(DialogKinds)], NEW w \in Windows,
         dialogs[w] # <<>>
  PROVE  /\ Tail(dialogs[w]) \in Seq(DialogKinds)
         /\ Len(dialogs[w]) \in Nat \ {0}
         /\ Len(Tail(dialogs[w])) = Len(dialogs[w]) - 1
         /\ Head(dialogs[w]) = dialogs[w][1]
         /\ \A i \in 1 .. Len(Tail(dialogs[w])) : Tail(dialogs[w])[i] = dialogs[w][i + 1]
  <1>1. dialogs[w] \in Seq(DialogKinds)
    OBVIOUS
  <1> QED BY <1>1, StackPop

-----------------------------------------------------------------------------
(* Type correctness                                                        *)

\* The application starts in a well-typed state.
LEMMA InitType == Init => TypeOK
  BY BoundsAssumption DEF Init, TypeOK, Windows, Flashes, Labels, Endings

\* The stack changes of the handlers keep the stacks well typed.
LEMMA PushType ==
  ASSUME TypeOK, NEW w \in Windows, NEW k \in DialogKinds, Push(w, k)
  PROVE  dialogs' \in [Windows -> Seq(DialogKinds)]
  BY StackPush DEF TypeOK, Push

\* Answering a dialog keeps the stacks well typed.
LEMMA PopType ==
  ASSUME TypeOK, NEW w \in Windows, NEW k, Answers(w, k), Pop(w)
  PROVE  dialogs' \in [Windows -> Seq(DialogKinds)]
  BY PopEffect DEF TypeOK, Pop, Answers

\* A question that gives way to the next keeps the stacks well typed.
LEMMA SwapType ==
  ASSUME TypeOK, NEW w \in Windows, NEW k, Answers(w, k), NEW l \in DialogKinds, Swap(w, l)
  PROVE  dialogs' \in [Windows -> Seq(DialogKinds)]
  <1>1. dialogs \in [Windows -> Seq(DialogKinds)] /\ dialogs[w] # <<>>
    BY DEF TypeOK, Answers
  <1>2. <<l>> \o Tail(dialogs[w]) \in Seq(DialogKinds)
    BY <1>1, PopEffect, StackPush
  <1> QED BY <1>1, <1>2 DEF Swap

\* on_close_request, over dialogs that are well typed.
LEMMA CloseType ==
  ASSUME TypeOK, NEW w \in Windows, NEW rest \in Seq(DialogKinds),
         OnCloseRequest(w, rest)
  PROVE  /\ open' \in [Windows -> {"unborn", "open", "gone"}]
         /\ close_asked' \in [Windows -> BOOLEAN]
         /\ dialogs' \in [Windows -> Seq(DialogKinds)]
  <1>1. <<"interrupt">> \o rest \in Seq(DialogKinds) /\ <<"info">> \o rest \in Seq(DialogKinds)
    BY StackPush DEF DialogKinds
  <1>2. /\ open \in [Windows -> {"unborn", "open", "gone"}]
        /\ close_asked \in [Windows -> BOOLEAN]
        /\ dialogs \in [Windows -> Seq(DialogKinds)]
    BY DEF TypeOK
  <1>3. /\ open' \in [Windows -> {"unborn", "open", "gone"}]
        /\ close_asked' \in [Windows -> BOOLEAN]
    BY <1>2 DEF OnCloseRequest
  <1>4. \E d \in Seq(DialogKinds) : dialogs' = [dialogs EXCEPT ![w] = d]
    BY <1>1 DEF OnCloseRequest
  <1> QED BY <1>2, <1>3, <1>4

\* A callback that is queued, and one that is taken from the queue.
LEMMA IdleType ==
  ASSUME TypeOK, NEW fn, NEW w \in Windows, NEW f \in Flashes \cup {NoWorker}
  PROVE  /\ IdleAdd(fn, w, f)
              /\ fn \in FlashCallbacks \cup JobCallbacks \cup {"rebuild"} => idle' \in Seq(Callbacks)
         /\ Called(fn) => idle' \in Seq(Callbacks) /\ Head(idle) \in Callbacks
  <1>1. idle \in Seq(Callbacks)
    BY DEF TypeOK
  <1>2. ASSUME IdleAdd(fn, w, f), fn \in FlashCallbacks \cup JobCallbacks \cup {"rebuild"}
        PROVE  idle' \in Seq(Callbacks)
    <2>1. [fn |-> fn, win |-> w, flash |-> f] \in Callbacks
      BY <1>2 DEF Callbacks
    <2> QED BY <1>1, <1>2, <2>1, QueueAdd DEF IdleAdd
  <1>3. ASSUME Called(fn) PROVE idle' \in Seq(Callbacks) /\ Head(idle) \in Callbacks
    BY <1>1, <1>3, StackPop DEF Called
  <1> QED BY <1>2, <1>3

\* The user's steps keep the types.
LEMMA UserType ==
  ASSUME TypeOK, NEW w \in Windows, UserStep(w)
  PROVE  TypeOK'
<1>0. /\ current_step[w] \in 0 .. 3 /\ jobs[w] \in Int /\ installers[w] \in Nat
      /\ dialogs[w] \in Seq(DialogKinds) /\ speed_answer[w] \in Seq({"continue", "abort"})
      /\ <<>> \in Seq(DialogKinds)
  BY DEF TypeOK
<1>1. CASE GoNext(w)
  BY <1>0, <1>1 DEF GoNext, Turn, AtPage, TypeOK, pageVars, flagVars, jobVars, threadVars, boundVars
<1>2. CASE GoBack(w)
  BY <1>0, <1>2 DEF GoBack, Turn, AtPage, TypeOK, pageVars, flagVars, jobVars, threadVars, boundVars
<1>3. CASE RequestStart(w)
  BY <1>0, <1>3, PushType DEF RequestStart, NextQuestion, DialogKinds, Confirmations, TypeOK, pageVars, flagVars, jobVars, threadVars, boundVars
<1>4. CASE OnCapacityResponse(w)
  BY <1>0, <1>4, PopType, SwapType DEF OnCapacityResponse, NextQuestion, DialogKinds, Confirmations, TypeOK, pageVars, flagVars, jobVars, threadVars, boundVars
<1>5. CASE OnInstallDepsCancel(w)
  BY <1>0, <1>5, PopType DEF OnInstallDepsCancel, TypeOK, pageVars, flagVars, jobVars, threadVars, boundVars
<1>6. CASE OnInstallDepsResponse(w)
  BY <1>0, <1>6, PopType DEF OnInstallDepsResponse, TypeOK, pageVars, flagVars, jobVars, threadVars, boundVars
<1>7. CASE OnWarn1Response(w)
  BY <1>0, <1>7, PopType, SwapType DEF OnWarn1Response, DialogKinds, Confirmations, TypeOK, pageVars, flagVars, jobVars, threadVars, boundVars
<1>8. CASE OnWarn2Cancel(w)
  BY <1>0, <1>8, PopType DEF OnWarn2Cancel, TypeOK, pageVars, flagVars, jobVars, threadVars, boundVars
<1>9. ASSUME NEW f \in Flashes, OnWarn2Response(w, f) PROVE TypeOK'
  <2>1. dialogs' \in [Windows -> Seq(DialogKinds)]
    BY <1>9, PopType DEF OnWarn2Response
  <2>2. /\ current_step' \in [Windows -> 0 .. 3] /\ close_asked' \in [Windows -> BOOLEAN]
        /\ is_flashing' \in [Windows -> BOOLEAN] /\ speed_refused' \in [Windows -> BOOLEAN]
        /\ worker' \in [Windows -> Flashes \cup {NoWorker}]
        /\ pc' \in [Flashes -> Labels] /\ owner' \in [Flashes -> Windows]
    BY <1>9 DEF OnWarn2Response, Labels, TypeOK
  <2> QED BY <1>9, <2>1, <2>2 DEF OnWarn2Response, TypeOK, jobVars, boundVars
<1>10. CASE UserCloses(w)
  BY <1>0, <1>10, CloseType DEF UserCloses, CloseFrame, TypeOK, pageVars, flagVars, jobVars, threadVars, boundVars
<1>11. CASE UserIsDone(w)
  BY <1>0, <1>11, CloseType DEF UserIsDone, CloseFrame, TypeOK, pageVars, flagVars, jobVars, threadVars, boundVars
<1>12. CASE OnErrorClose(w)
  BY <1>0, <1>12, CloseType, PopEffect DEF OnErrorClose, CloseFrame, Answers, TypeOK, pageVars, flagVars, jobVars, threadVars, boundVars
<1>13. CASE OnErrorRestart(w)
  BY <1>0, <1>13, PopType DEF OnErrorRestart, TypeOK, pageVars, flagVars, jobVars, threadVars, boundVars
<1>14. CASE OnInterruptResponse(w)
  BY <1>0, <1>14, PopType DEF OnInterruptResponse, TypeOK, pageVars, flagVars, jobVars, threadVars, boundVars
<1>15. CASE DismissInfo(w)
  BY <1>0, <1>15, PopType DEF DismissInfo, TypeOK, pageVars, flagVars, jobVars, threadVars, boundVars
<1>16. CASE OnLangChanged(w)
  <2>1. dialogs' \in [Windows -> Seq(DialogKinds)]
    BY <1>16, PushType DEF OnLangChanged, DialogKinds, TypeOK
  <2>2. idle' \in Seq(Callbacks)
    BY <1>16, IdleType DEF OnLangChanged, TypeOK
  <2>3. langs' \in Nat
    BY <1>16 DEF OnLangChanged, TypeOK
  <2> QED
    BY <1>16, <2>1, <2>2, <2>3 DEF OnLangChanged, TypeOK, pageVars, flagVars, jobVars, threadVars
<1>17. CASE OnSpeedtestContinue(w)
  BY <1>0, <1>17, PopType, QueueAdd DEF OnSpeedtestContinue, TypeOK, pageVars, flagVars, jobVars, threadVars, boundVars
<1>18. CASE RefuseLowersFlag(w)
  BY <1>0, <1>18, PopType DEF RefuseLowersFlag, TypeOK, pageVars, flagVars, jobVars, threadVars, boundVars
<1> QED
  BY UserStep(w), <1>1, <1>2, <1>3, <1>4, <1>5, <1>6, <1>7, <1>8, <1>9, <1>10, <1>11, <1>12, <1>13, <1>14, <1>15, <1>16, <1>17, <1>18 DEF UserStep

\* The install threads and a second launch keep the types.
LEMMA JobType ==
  ASSUME TypeOK, NEW w \in Windows, InstallDepsWorker(w) \/ OnActivate(w)
  PROVE  TypeOK'
<1>1. CASE InstallDepsWorker(w)
  <2>1. idle' \in Seq(Callbacks)
    BY <1>1, IdleType DEF InstallDepsWorker
  <2>2. installers' \in [Windows -> Nat]
    <3>1. installers[w] \in Nat /\ installers[w] > 0
      BY <1>1 DEF InstallDepsWorker, TypeOK
    <3> QED BY <1>1, <3>1 DEF InstallDepsWorker, TypeOK
  <2> QED
    BY <1>1, <2>1, <2>2 DEF InstallDepsWorker, TypeOK, pageVars, flagVars, threadVars, boundVars
<1>2. CASE OnActivate(w)
  BY <1>2 DEF OnActivate, TypeOK, flagVars, jobVars, threadVars
<1> QED
  BY <1>1, <1>2

\* The callbacks of the event loop keep the types.
LEMMA LoopType ==
  ASSUME TypeOK, LoopStep
  PROVE  TypeOK'
<1>0. \A fn : Called(fn) => idle' \in Seq(Callbacks) /\ Head(idle) \in Callbacks
  BY StackPop DEF Called, TypeOK
<1>1. \A w \in Windows : /\ jobs[w] \in Int /\ speed_answer[w] \in Seq({"continue", "abort"})
  BY DEF TypeOK
<1>2. ASSUME NEW w \in Windows, OnDepsInstalledSuccess(w) PROVE TypeOK'
  BY <1>0, <1>1, <1>2, PushType, SMTT(30) DEF OnDepsInstalledSuccess, DialogKinds, Confirmations, TypeOK, pageVars, flagVars, jobVars, threadVars, boundVars
<1>3. ASSUME NEW w \in Windows, ShowDepsError(w) PROVE TypeOK'
  BY <1>0, <1>1, <1>3, PushType, SMTT(30) DEF ShowDepsError, DialogKinds, TypeOK, pageVars, flagVars, jobVars, threadVars, boundVars
<1>4. ASSUME NEW w \in Windows, OnSpeedtest(w) PROVE TypeOK'
  <2>1. dialogs' \in [Windows -> Seq(DialogKinds)]
    BY <1>4, PushType DEF OnSpeedtest, DialogKinds, TypeOK
  <2>2. speed_answer' \in [Windows -> Seq({"continue", "abort"})]
    <3>1. speed_answer \in [Windows -> Seq({"continue", "abort"})]
      BY DEF TypeOK
    <3>2. Append(speed_answer[w], "continue") \in Seq({"continue", "abort"})
      BY <3>1, QueueAdd
    <3> QED BY <1>4, <3>1, <3>2 DEF OnSpeedtest
  <2>3. idle' \in Seq(Callbacks)
    BY <1>0, <1>4 DEF OnSpeedtest
  <2> QED
    BY <1>4, <2>1, <2>2, <2>3 DEF OnSpeedtest, TypeOK, pageVars, jobVars, threadVars, boundVars
<1>5. ASSUME NEW w \in Windows, RefuseMarks(w) PROVE TypeOK'
  BY <1>0, <1>1, <1>5 DEF RefuseMarks, TypeOK, pageVars, flagVars, jobVars, threadVars, boundVars
<1>6. ASSUME NEW w \in Windows, NEW v \in Windows, Rebuild(w, v) PROVE TypeOK'
  BY <1>0, <1>1, <1>6 DEF Rebuild, TypeOK, pageVars, flagVars, jobVars, threadVars, boundVars
<1>7. ASSUME NEW w \in Windows, NEW f \in Flashes, OnFlashSuccess(w, f) PROVE TypeOK'
  BY <1>0, <1>1, <1>7 DEF OnFlashSuccess, Report, Endings, TypeOK, pageVars, flagVars, jobVars, threadVars, boundVars
<1>8. ASSUME NEW w \in Windows, NEW f \in Flashes, ShowFlashFailed(w, f) PROVE TypeOK'
  BY <1>0, <1>1, <1>8, PushType DEF ShowFlashFailed, Report, Endings, DialogKinds, TypeOK, pageVars, flagVars, jobVars, threadVars, boundVars
<1>9. ASSUME NEW w \in Windows, NEW f \in Flashes, ShowInterruptedError(w, f) PROVE TypeOK'
  BY <1>0, <1>1, <1>9, PushType DEF ShowInterruptedError, Report, Endings, DialogKinds, TypeOK, pageVars, flagVars, jobVars, threadVars, boundVars
<1>10. ASSUME NEW w \in Windows, NEW f \in Flashes, RefuseAnswers(w, f) PROVE TypeOK'
  BY <1>0, <1>1, <1>10, PushType, QueueAdd DEF RefuseAnswers, Endings, DialogKinds, TypeOK, pageVars, flagVars, jobVars, threadVars, boundVars
<1> QED
  BY LoopStep, <1>2, <1>3, <1>4, <1>5, <1>6, <1>7, <1>8, <1>9, <1>10 DEF LoopStep

\* The steps of a flash's thread keep the types.
LEMMA WorkerType ==
  ASSUME TypeOK, NEW f \in Flashes, WorkerStep(f)
  PROVE  TypeOK'
<1>0. owner[f] \in Windows /\ speed_answer[owner[f]] \in Seq({"continue", "abort"})
  BY DEF TypeOK
<1>1. \A from, to : to \in Labels /\ Goes(f, from, to) => pc' \in [Flashes -> Labels]
  BY DEF Goes, TypeOK
<1> USE DEF ThreadFrame
<1>2. CASE CheckDrive(f)
  BY <1>0, <1>1, <1>2 DEF CheckDrive, Labels, FlashCallbacks, TypeOK, pageVars, flagVars, jobVars, threadVars, boundVars
<1>3. CASE PrepareToGo(f)
  <2>1. pc' \in [Flashes -> Labels]
    BY <1>1, <1>3 DEF PrepareToGo, Labels
  <2>2. idle' \in Seq(Callbacks)
    BY <1>0, <1>3, IdleType DEF PrepareToGo, FlashCallbacks, TypeOK
  <2>3. speed_answer' \in [Windows -> Seq({"continue", "abort"})]
    <3>1. speed_answer \in [Windows -> Seq({"continue", "abort"})]
      BY DEF TypeOK
    <3>2. speed_answer' = speed_answer \/ speed_answer' = [speed_answer EXCEPT ![owner[f]] = <<>>]
      BY <1>3 DEF PrepareToGo
    <3>3. <<>> \in Seq({"continue", "abort"})
      OBVIOUS
    <3> QED BY <1>0, <3>1, <3>2, <3>3
  <2> QED
    BY <1>3, <2>1, <2>2, <2>3 DEF PrepareToGo, TypeOK, pageVars, jobVars, boundVars
<1>4. CASE AskSpeed(f)
  BY <1>0, <1>1, <1>4 DEF AskSpeed, Labels, FlashCallbacks, TypeOK, pageVars, flagVars, jobVars, threadVars, boundVars
<1>5. CASE WaitAnswer(f)
  <2>1. pc' \in [Flashes -> Labels]
    BY <1>1, <1>5 DEF WaitAnswer, Labels
  <2>2. speed_answer' \in [Windows -> Seq({"continue", "abort"})]
    <3>1. speed_answer \in [Windows -> Seq({"continue", "abort"})]
      BY DEF TypeOK
    <3>2. speed_answer[owner[f]] # <<>> => Tail(speed_answer[owner[f]]) \in Seq({"continue", "abort"})
      BY <1>0, StackPop
    <3> QED BY <1>0, <1>5, <3>1, <3>2 DEF WaitAnswer
  <2> QED
    BY <1>5, <2>1, <2>2 DEF WaitAnswer, TypeOK, pageVars, jobVars, boundVars
<1>6. CASE WriterStops(f)
  BY <1>0, <1>1, <1>6 DEF WriterStops, Labels, FlashCallbacks, TypeOK, pageVars, flagVars, jobVars, threadVars, boundVars
<1>7. CASE WriterEnds(f)
  BY <1>0, <1>1, <1>7 DEF WriterEnds, Labels, FlashCallbacks, TypeOK, pageVars, flagVars, jobVars, threadVars, boundVars
<1>8. CASE LowerFlag(f)
  BY <1>0, <1>1, <1>8 DEF LowerFlag, Labels, FlashCallbacks, TypeOK, pageVars, flagVars, jobVars, threadVars, boundVars
<1>9. CASE ReportFailure(f)
  BY <1>0, <1>1, <1>9, IdleType DEF ReportFailure, Labels, FlashCallbacks, TypeOK, pageVars, flagVars, jobVars, threadVars, boundVars
<1>10. CASE ReportSuccess(f)
  BY <1>0, <1>1, <1>10, IdleType DEF ReportSuccess, Labels, FlashCallbacks, TypeOK, pageVars, flagVars, jobVars, threadVars, boundVars
<1>11. CASE ReportStopped(f)
  BY <1>0, <1>1, <1>11, IdleType DEF ReportStopped, Labels, FlashCallbacks, TypeOK, pageVars, flagVars, jobVars, threadVars, boundVars
<1>12. CASE ThreadEnds(f)
  BY <1>0, <1>1, <1>12 DEF ThreadEnds, Labels, FlashCallbacks, TypeOK, pageVars, flagVars, jobVars, threadVars, boundVars
<1> QED
  BY WorkerStep(f), <1>2, <1>3, <1>4, <1>5, <1>6, <1>7, <1>8, <1>9, <1>10, <1>11, <1>12 DEF WorkerStep

\* Every variable keeps its type: counters stay natural numbers, queues and
\* stacks hold only the callbacks and dialogs that exist.
THEOREM TypeCorrect == Spec => []TypeOK
<1>1. Init => TypeOK
  BY InitType
<1>2. TypeOK /\ [Next]_vars => TypeOK'
  <2> SUFFICES ASSUME TypeOK, [Next]_vars PROVE TypeOK'
    OBVIOUS
  <2>1. ASSUME NEW w \in Windows, UserStep(w) PROVE TypeOK'
    BY <2>1, UserType
  <2>2. ASSUME NEW w \in Windows, InstallDepsWorker(w) \/ OnActivate(w) PROVE TypeOK'
    BY <2>2, JobType
  <2>3. CASE LoopStep
    BY <2>3, LoopType
  <2>4. ASSUME NEW f \in Flashes, WorkerStep(f) PROVE TypeOK'
    BY <2>4, WorkerType
  <2>5. CASE UNCHANGED vars
    BY <2>5 DEF TypeOK, vars, pageVars, flagVars, jobVars, threadVars, boundVars
  <2> QED
    BY <2>1, <2>2, <2>3, <2>4, <2>5 DEF Next, Terminated
<1> QED
  BY <1>1, <1>2, PTL DEF Spec

-----------------------------------------------------------------------------
(* What a push, an answer, a posted and a run callback do to the facts the  *)
(* inductive invariant is made of                                           *)

\* The dialogs of a window after a push: the new one and the old ones.
LEMMA PushFacts ==
  ASSUME NEW s \in Seq(DialogKinds), NEW k \in DialogKinds
  PROVE  /\ \A j : Has(<<k>> \o s, j) => j = k \/ Has(s, j)
         /\ LastOnly(s) /\ (k \notin Confirmations \/ s = <<>>) => LastOnly(<<k>> \o s)
         /\ OneDialog(s) /\ (k # "speed" \/ ~Has(s, "speed")) => OneDialog(<<k>> \o s)
<1>1. /\ Len(<<k>> \o s) = Len(s) + 1 /\ Len(s) \in Nat
      /\ (<<k>> \o s)[1] = k
      /\ \A i \in 2 .. Len(<<k>> \o s) : (<<k>> \o s)[i] = s[i - 1] /\ i - 1 \in 1 .. Len(s)
  BY StackPush
<1>2. ASSUME NEW j, Has(<<k>> \o s, j) PROVE j = k \/ Has(s, j)
  BY <1>1, <1>2 DEF Has
<1>3. ASSUME LastOnly(s), k \notin Confirmations \/ s = <<>> PROVE LastOnly(<<k>> \o s)
  BY <1>1, <1>3 DEF LastOnly
<1>4. ASSUME OneDialog(s), k # "speed" \/ ~Has(s, "speed") PROVE OneDialog(<<k>> \o s)
  BY <1>1, <1>4 DEF OneDialog, Has
<1> QED BY <1>2, <1>3, <1>4

\* The dialogs of a window after a pop: none that was not there.
LEMMA PopFacts ==
  ASSUME NEW s \in Seq(DialogKinds), s # <<>>
  PROVE  /\ Tail(s) \in Seq(DialogKinds)
         /\ Has(s, Head(s))
         /\ \A j : Has(Tail(s), j) => Has(s, j)
         /\ LastOnly(s) => LastOnly(Tail(s))
         /\ LastOnly(s) /\ Head(s) \in Confirmations => Tail(s) = <<>>
         /\ OneDialog(s) => OneDialog(Tail(s))
         /\ OneDialog(s) /\ Head(s) = "speed" => ~Has(Tail(s), "speed")
<1>1. /\ Tail(s) \in Seq(DialogKinds)
      /\ Len(s) \in Nat \ {0} /\ Len(Tail(s)) = Len(s) - 1 /\ Head(s) = s[1]
      /\ \A i \in 1 .. Len(Tail(s)) : Tail(s)[i] = s[i + 1] /\ i + 1 \in 1 .. Len(s)
  BY StackPop
<1>2. Has(s, Head(s))
  BY <1>1 DEF Has
<1>3. ASSUME NEW j, Has(Tail(s), j) PROVE Has(s, j)
  BY <1>1, <1>3 DEF Has
<1>4. ASSUME LastOnly(s) PROVE LastOnly(Tail(s))
  <2> SUFFICES ASSUME NEW i \in 1 .. Len(Tail(s)), Tail(s)[i] \in Confirmations
               PROVE  i = Len(Tail(s))
    BY DEF LastOnly
  <2>1. i + 1 \in 1 .. Len(s) /\ s[i + 1] \in Confirmations
    BY <1>1
  <2>2. i + 1 = Len(s)
    BY <1>4, <2>1 DEF LastOnly
  <2>3. i \in Int /\ Len(s) \in Nat /\ Len(Tail(s)) = Len(s) - 1
    BY <1>1
  <2> QED BY ONLY <2>2, <2>3, SMT
<1>5. ASSUME LastOnly(s), Head(s) \in Confirmations PROVE Tail(s) = <<>>
  <2>1. 1 \in 1 .. Len(s) /\ s[1] \in Confirmations
    BY <1>1, <1>5
  <2>2. 1 = Len(s)
    BY <1>5, <2>1 DEF LastOnly
  <2>3. Len(s) \in Nat /\ Len(Tail(s)) = Len(s) - 1
    BY <1>1
  <2>4. Len(Tail(s)) = 0
    BY ONLY <2>2, <2>3, SMT
  <2> QED BY <1>1, <2>4, EmptySeq
<1>6. ASSUME OneDialog(s) PROVE OneDialog(Tail(s))
  BY <1>1, <1>6 DEF OneDialog
<1>7. ASSUME OneDialog(s), Head(s) = "speed" PROVE ~Has(Tail(s), "speed")
  BY <1>1, <1>7 DEF OneDialog, Has
<1> QED BY <1>1, <1>2, <1>3, <1>4, <1>5, <1>6, <1>7

\* The calls in the queue after a callback was posted.
LEMMA PostFacts ==
  ASSUME NEW q \in Seq(Callbacks), NEW c \in Callbacks, NEW w
  PROVE  /\ Append(q, c) \in Seq(Callbacks)
         /\ \A fn : HasCall(Append(q, c), w, fn) => HasCall(q, w, fn) \/ (c.win = w /\ c.fn = fn)
         /\ OneCall(q, w) /\ (c.fn # "on_speedtest" \/ c.win # w \/ ~HasCall(q, w, "on_speedtest"))
              => OneCall(Append(q, c), w)
<1>1. /\ Append(q, c) \in Seq(Callbacks) /\ Len(Append(q, c)) = Len(q) + 1 /\ Len(q) \in Nat
      /\ Append(q, c)[Len(q) + 1] = c
      /\ \A i \in 1 .. Len(q) : Append(q, c)[i] = q[i]
  BY QueueAdd
<1>2. \A i \in 1 .. Len(Append(q, c)) : i \in 1 .. Len(q) \/ i = Len(q) + 1
  BY <1>1
<1>3. ASSUME NEW fn, HasCall(Append(q, c), w, fn) PROVE HasCall(q, w, fn) \/ (c.win = w /\ c.fn = fn)
  BY <1>1, <1>2, <1>3 DEF HasCall
<1>4. ASSUME OneCall(q, w), c.fn # "on_speedtest" \/ c.win # w \/ ~HasCall(q, w, "on_speedtest")
      PROVE  OneCall(Append(q, c), w)
  BY <1>1, <1>2, <1>4 DEF OneCall, HasCall
<1> QED BY <1>1, <1>3, <1>4

\* The calls in the queue after its first was taken.
LEMMA RunFacts ==
  ASSUME NEW q \in Seq(Callbacks), q # <<>>, NEW w
  PROVE  /\ Head(q) \in Callbacks
         /\ HasCall(q, Head(q).win, Head(q).fn)
         /\ \A fn : HasCall(Tail(q), w, fn) => HasCall(q, w, fn)
         /\ OneCall(q, w) => OneCall(Tail(q), w)
         /\ OneCall(q, w) /\ Head(q).win = w /\ Head(q).fn = "on_speedtest"
              => ~HasCall(Tail(q), w, "on_speedtest")
<1>1. /\ Len(q) \in Nat \ {0} /\ Len(Tail(q)) = Len(q) - 1 /\ Head(q) = q[1] /\ Head(q) \in Callbacks
      /\ \A i \in 1 .. Len(Tail(q)) : Tail(q)[i] = q[i + 1] /\ i + 1 \in 1 .. Len(q)
  BY StackPop
<1>2. HasCall(q, Head(q).win, Head(q).fn)
  BY <1>1 DEF HasCall
<1>3. ASSUME NEW fn, HasCall(Tail(q), w, fn) PROVE HasCall(q, w, fn)
  BY <1>1, <1>3 DEF HasCall
<1>4. ASSUME OneCall(q, w) PROVE OneCall(Tail(q), w)
  BY <1>1, <1>4 DEF OneCall
<1>5. ASSUME OneCall(q, w), Head(q).win = w, Head(q).fn = "on_speedtest"
      PROVE  ~HasCall(Tail(q), w, "on_speedtest")
  BY <1>1, <1>5 DEF OneCall, HasCall
<1> QED BY <1>1, <1>2, <1>3, <1>4, <1>5

-----------------------------------------------------------------------------
(* The inductive invariant, step by step                                   *)

\* A stack of one window changes to one with no new speed question or
\* ending, and nothing else changes that the invariant speaks of.
LEMMA StackStep ==
  ASSUME TypeOK, WriterInv, NEW w \in Windows, NEW d \in Seq(DialogKinds),
         dialogs' = [dialogs EXCEPT ![w] = d],
         LastOnly(d), OneDialog(d),
         \A j : Has(d, j) => Has(dialogs[w], j) \/ j \notin {"speed", "ending"},
         \A j \in Confirmations : Has(d, j) => current_step[w] # 3,
         UNCHANGED <<open, current_step, flagVars, installers, idle, threadVars>>
  PROVE  WriterInv'
<1>0. /\ dialogs \in [Windows -> Seq(DialogKinds)]
      /\ owner \in [Flashes -> Windows]
  BY DEF TypeOK
<1>1. UNCHANGED <<open, current_step, is_flashing, worker, speed_answer, refusing, installers, idle, pc, owner>>
  BY DEF flagVars, threadVars
<1>2. \A v \in Windows : dialogs'[v] = IF v = w THEN d ELSE dialogs[v]
  BY <1>0
<1>3. \A v \in Windows : /\ Has(dialogs'[v], "ending") => Has(dialogs[v], "ending")
                         /\ Has(dialogs'[v], "speed") => Has(dialogs[v], "speed")
  BY <1>2
<1>4. \A v \in Windows : (EndingDue(v))' => EndingDue(v)
  BY <1>1, <1>3 DEF EndingDue
<1>5. \A v \in Windows : (SpeedOpen(v))' => SpeedOpen(v)
  BY <1>1, <1>3 DEF SpeedOpen
<1>6. \A f \in Flashes : (Alive(f))' = Alive(f)
  BY <1>1 DEF Alive
<1>7. OnlyFlashCalls' /\ LiveIsWorker'
  BY <1>1, <1>6 DEF WriterInv, OnlyFlashCalls, LiveIsWorker
<1>8. FlagDown' /\ AnswerIsOwn'
  BY <1>1, <1>4 DEF WriterInv, FlagDown, AnswerIsOwn
<1>9. ConfirmationsFirst'
  BY <1>1, <1>2 DEF WriterInv, ConfirmationsFirst
<1>10. OneQuestion'
  BY <1>1, <1>2, <1>3 DEF WriterInv, OneQuestion
<1>11. AskedWaits' /\ EndingLetsGo'
  BY <1>0, <1>1, <1>4, <1>5, <1>6 DEF WriterInv, AskedWaits, EndingLetsGo
<1> QED
  BY <1>7, <1>8, <1>9, <1>10, <1>11 DEF WriterInv

\* The topmost dialog is answered and nothing takes its place.
LEMMA PopStep ==
  ASSUME TypeOK, WriterInv, NEW w \in Windows, NEW k, Answers(w, k), Pop(w),
         UNCHANGED <<open, current_step, flagVars, installers, idle, threadVars>>
  PROVE  WriterInv'
<1>1. dialogs[w] \in Seq(DialogKinds) /\ dialogs[w] # <<>>
  BY DEF TypeOK, Answers
<1>2. LastOnly(dialogs[w]) /\ OneDialog(dialogs[w])
  BY DEF WriterInv, ConfirmationsFirst, OneQuestion
<1>3. \A j \in Confirmations : Has(dialogs[w], j) => current_step[w] # 3
  BY DEF WriterInv, ConfirmationsFirst
<1>4. /\ Tail(dialogs[w]) \in Seq(DialogKinds)
      /\ LastOnly(Tail(dialogs[w])) /\ OneDialog(Tail(dialogs[w]))
      /\ \A j : Has(Tail(dialogs[w]), j) => Has(dialogs[w], j)
  BY <1>1, <1>2, PopFacts
<1> QED
  BY <1>3, <1>4, StackStep DEF Pop

\* A dialog that is neither a speed question nor an ending is shown over
\* `rest`, a part of the stack: a confirmation only over an empty stack.
LEMMA ShowStep ==
  ASSUME TypeOK, WriterInv, NEW w \in Windows, NEW rest \in Seq(DialogKinds),
         NEW l \in DialogKinds \ {"speed", "ending"},
         dialogs' = [dialogs EXCEPT ![w] = <<l>> \o rest],
         LastOnly(rest), OneDialog(rest), \A j : Has(rest, j) => Has(dialogs[w], j),
         l \in Confirmations => rest = <<>> /\ current_step[w] # 3,
         UNCHANGED <<open, current_step, flagVars, installers, idle, threadVars>>
  PROVE  WriterInv'
<1>1. \A j \in Confirmations : Has(dialogs[w], j) => current_step[w] # 3
  BY DEF WriterInv, ConfirmationsFirst
<1>2. /\ <<l>> \o rest \in Seq(DialogKinds)
      /\ LastOnly(<<l>> \o rest) /\ OneDialog(<<l>> \o rest)
      /\ \A j : Has(<<l>> \o rest, j) => j = l \/ Has(rest, j)
  BY PushFacts, StackPush
<1> QED
  BY <1>1, <1>2, StackStep

\* A question before the flash gives way to the next one.
LEMMA SwapStep ==
  ASSUME TypeOK, WriterInv, NEW w \in Windows, NEW k \in Confirmations, Answers(w, k),
         NEW l \in DialogKinds \ {"speed", "ending"}, Swap(w, l),
         UNCHANGED <<open, current_step, flagVars, installers, idle, threadVars>>
  PROVE  WriterInv'
<1>1. dialogs[w] \in Seq(DialogKinds) /\ dialogs[w] # <<>> /\ Head(dialogs[w]) = k
  BY DEF TypeOK, Answers
<1>2. LastOnly(dialogs[w]) /\ OneDialog(dialogs[w])
  BY DEF WriterInv, ConfirmationsFirst, OneQuestion
<1>3. /\ Tail(dialogs[w]) = <<>> /\ Has(dialogs[w], k)
      /\ LastOnly(Tail(dialogs[w])) /\ OneDialog(Tail(dialogs[w]))
      /\ \A j : Has(Tail(dialogs[w]), j) => Has(dialogs[w], j)
      /\ Tail(dialogs[w]) \in Seq(DialogKinds)
  BY <1>1, <1>2, PopFacts
<1>4. current_step[w] # 3
  BY <1>3 DEF WriterInv, ConfirmationsFirst
<1> QED
  BY <1>3, <1>4, ShowStep DEF Swap

\* on_close_request keeps the invariant: a window that goes away has no live
\* worker.
LEMMA CloseStep ==
  ASSUME TypeOK, WriterInv, NEW w \in Windows, NEW rest \in Seq(DialogKinds),
         LastOnly(rest), OneDialog(rest), \A j : Has(rest, j) => Has(dialogs[w], j),
         OnCloseRequest(w, rest), CloseFrame
  PROVE  WriterInv'
<1>0. UNCHANGED <<current_step, flagVars, installers, idle, threadVars>>
  BY DEF CloseFrame, jobVars
<1>1. CASE is_flashing[w]
  <2>1. dialogs' = [dialogs EXCEPT ![w] = <<"interrupt">> \o rest] /\ UNCHANGED open
    BY <1>1 DEF OnCloseRequest
  <2>2. "interrupt" \in DialogKinds \ {"speed", "ending"} /\ "interrupt" \notin Confirmations
    BY DEF DialogKinds, Confirmations
  <2> QED BY <1>0, <2>1, <2>2, ShowStep
<1>2. CASE ~is_flashing[w] /\ HasLiveWorker(w)
  <2>1. dialogs' = [dialogs EXCEPT ![w] = <<"info">> \o rest] /\ UNCHANGED open
    BY <1>2 DEF OnCloseRequest
  <2>2. "info" \in DialogKinds \ {"speed", "ending"} /\ "info" \notin Confirmations
    BY DEF DialogKinds, Confirmations
  <2> QED BY <1>0, <2>1, <2>2, ShowStep
<1>3. CASE ~is_flashing[w] /\ ~HasLiveWorker(w)
  <2>1. dialogs' = [dialogs EXCEPT ![w] = rest] /\ open' = [open EXCEPT ![w] = "gone"]
    BY <1>3 DEF OnCloseRequest
  <2>2. \A f \in Flashes : Alive(f) => owner[f] # w
    BY <1>3 DEF HasLiveWorker, WriterInv, LiveIsWorker, Flashes, NoWorker
  <2>3. /\ dialogs \in [Windows -> Seq(DialogKinds)] /\ owner \in [Flashes -> Windows]
        /\ open \in [Windows -> {"unborn", "open", "gone"}]
    BY DEF TypeOK
  <2>4. \A v \in Windows : dialogs'[v] = IF v = w THEN rest ELSE dialogs[v]
    BY <2>1, <2>3
  <2>5. UNCHANGED <<current_step, is_flashing, worker, speed_answer, refusing, installers, idle, pc, owner>>
    BY <1>0 DEF flagVars, threadVars
  <2>6. \A v \in Windows : \A j : Has(dialogs'[v], j) => Has(dialogs[v], j)
    BY <2>4
  <2>7. \A v \in Windows : ((EndingDue(v))' => EndingDue(v)) /\ ((SpeedOpen(v))' => SpeedOpen(v))
    BY <2>5, <2>6 DEF EndingDue, SpeedOpen
  <2>8. \A f \in Flashes : (Alive(f))' = Alive(f)
    BY <2>5 DEF Alive
  <2>9. LiveIsWorker'
    BY <2>1, <2>2, <2>3, <2>5, <2>8 DEF WriterInv, LiveIsWorker
  <2>10. OnlyFlashCalls' /\ FlagDown' /\ AnswerIsOwn'
    BY <2>5, <2>7 DEF WriterInv, OnlyFlashCalls, FlagDown, AnswerIsOwn
  <2>11. ConfirmationsFirst' /\ OneQuestion'
    BY <2>4, <2>5, <2>6 DEF WriterInv, ConfirmationsFirst, OneQuestion
  <2>12. AskedWaits' /\ EndingLetsGo'
    BY <2>3, <2>5, <2>7, <2>8 DEF WriterInv, AskedWaits, EndingLetsGo
  <2> QED
    BY <2>9, <2>10, <2>11, <2>12 DEF WriterInv
<1> QED
  BY <1>1, <1>2, <1>3

\* Next and Back stay within the pages before the flash.
LEMMA PageStep ==
  ASSUME TypeOK, WriterInv, NEW w \in Windows, GoNext(w) \/ GoBack(w)
  PROVE  WriterInv'
<1>0. current_step \in [Windows -> 0 .. 3] /\ current_step[w] \in 0 .. 3 /\ owner \in [Flashes -> Windows]
  BY DEF TypeOK
<1>1. UNCHANGED <<open, is_flashing, worker, speed_answer, refusing, installers, dialogs, idle, pc, owner>>
  BY DEF GoNext, GoBack, Turn, flagVars, jobVars, threadVars
<1>2. \A v \in Windows : current_step'[v] # 3 <=> current_step[v] # 3
  <2>1. CASE GoNext(w)
    BY <1>0, <2>1 DEF GoNext, Turn
  <2>2. CASE GoBack(w)
    BY <1>0, <2>2 DEF GoBack, Turn
  <2> QED BY <2>1, <2>2
<1>3. \A v \in Windows : ((EndingDue(v))' <=> EndingDue(v)) /\ ((SpeedOpen(v))' <=> SpeedOpen(v))
  BY <1>1, <1>2 DEF EndingDue, SpeedOpen
<1>4. \A f \in Flashes : (Alive(f))' = Alive(f)
  BY <1>1 DEF Alive
<1>5. OnlyFlashCalls' /\ LiveIsWorker' /\ FlagDown' /\ AnswerIsOwn'
  BY <1>1, <1>3, <1>4 DEF WriterInv, OnlyFlashCalls, LiveIsWorker, FlagDown, AnswerIsOwn
<1>6. ConfirmationsFirst' /\ OneQuestion'
  BY <1>1, <1>2 DEF WriterInv, ConfirmationsFirst, OneQuestion
<1>7. AskedWaits' /\ EndingLetsGo'
  BY <1>0, <1>1, <1>3, <1>4 DEF WriterInv, AskedWaits, EndingLetsGo
<1> QED
  BY <1>5, <1>6, <1>7 DEF WriterInv

\* The user confirms the last warning: no thread of the window is live then,
\* so the new one is its only worker.
LEMMA StartStep ==
  ASSUME TypeOK, WriterInv, NEW w \in Windows, NEW f \in Flashes, OnWarn2Response(w, f)
  PROVE  WriterInv'
<1>0. /\ dialogs \in [Windows -> Seq(DialogKinds)] /\ owner \in [Flashes -> Windows]
      /\ current_step \in [Windows -> 0 .. 3] /\ pc \in [Flashes -> Labels]
      /\ is_flashing \in [Windows -> BOOLEAN] /\ worker \in [Windows -> Flashes \cup {NoWorker}]
      /\ open \in [Windows -> {"unborn", "open", "gone"}]
  BY DEF TypeOK
<1>1. /\ dialogs[w] \in Seq(DialogKinds) /\ dialogs[w] # <<>> /\ Head(dialogs[w]) = "warn2"
      /\ open[w] = "open" /\ \A v \in Windows : refusing[v] = "no"
  BY <1>0 DEF OnWarn2Response, Answers, MainFree
<1>2. LastOnly(dialogs[w]) /\ "warn2" \in Confirmations
  BY DEF WriterInv, ConfirmationsFirst, Confirmations
<1>3. Tail(dialogs[w]) = <<>> /\ Has(dialogs[w], "warn2")
  BY <1>1, <1>2, PopFacts
<1>4. EndingDue(w)
  BY <1>2, <1>3 DEF WriterInv, ConfirmationsFirst, EndingDue
<1>5. \A g \in Flashes : owner[g] = w => ~Alive(g)
  BY <1>4 DEF WriterInv, EndingLetsGo, OnWarn2Response, HumanPace, Returning
<1>6. pc[f] = "unborn"
  BY DEF OnWarn2Response, Unstarted
<1>7. \A fn : ~HasCall(idle, w, fn)
  BY DEF OnWarn2Response, HumanPace, HasCall
<1>8. /\ UNCHANGED <<open, speed_answer, refusing, installers, idle>>
      /\ \A v \in Windows : /\ dialogs'[v] = IF v = w THEN <<>> ELSE dialogs[v]
                            /\ current_step'[v] = IF v = w THEN 3 ELSE current_step[v]
                            /\ is_flashing'[v] = IF v = w THEN TRUE ELSE is_flashing[v]
                            /\ worker'[v] = IF v = w THEN f ELSE worker[v]
      /\ \A g \in Flashes : /\ pc'[g] = IF g = f THEN "check" ELSE pc[g]
                            /\ owner'[g] = IF g = f THEN w ELSE owner[g]
  BY <1>0, <1>3 DEF OnWarn2Response, Pop, jobVars
<1>9. \A j : ~Has(<<>>, j)
  BY DEF Has
<1>10. LastOnly(<<>>) /\ OneDialog(<<>>)
  BY DEF LastOnly, OneDialog
<1>11. ~(EndingDue(w))' /\ ~(SpeedOpen(w))'
  BY <1>1, <1>7, <1>8, <1>9 DEF EndingDue, SpeedOpen
<1>12. \A v \in Windows \ {w} : ((EndingDue(v))' <=> EndingDue(v)) /\ ((SpeedOpen(v))' <=> SpeedOpen(v))
  BY <1>8 DEF EndingDue, SpeedOpen
<1>13. \A g \in Flashes \ {f} : (Alive(g))' <=> Alive(g)
  BY <1>8 DEF Alive
<1>14. \A g \in Flashes \ {f} : (Alive(g))' => owner'[g] # w /\ owner'[g] = owner[g] /\ owner[g] \in Windows
  BY <1>0, <1>5, <1>8, <1>13
<1>15. OnlyFlashCalls'
  BY <1>8 DEF WriterInv, OnlyFlashCalls
<1>16. LiveIsWorker'
  <2> SUFFICES ASSUME NEW g \in Flashes, (Alive(g))'
               PROVE  worker'[owner'[g]] = g
    BY DEF LiveIsWorker
  <2>1. CASE g = f
    BY <1>8, <2>1
  <2>2. CASE g # f
    <3>1. Alive(g) /\ owner'[g] = owner[g] /\ owner[g] # w /\ owner[g] \in Windows
      BY <1>13, <1>14, <2>2
    <3>2. worker[owner[g]] = g
      BY <3>1 DEF WriterInv, LiveIsWorker
    <3> QED BY <1>8, <3>1, <3>2
  <2> QED BY <2>1, <2>2
<1>17. FlagDown'
  <2>1. \A v \in Windows : (EndingDue(v) \/ refusing[v] # "no" => ~is_flashing[v])'
    BY <1>1, <1>8, <1>11, <1>12 DEF WriterInv, FlagDown
  <2>2. ASSUME NEW g \in Flashes, pc'[g] \in {"false", "report"} PROVE ~is_flashing'[owner'[g]]
    <3>1. g # f
      BY <1>8, <2>2
    <3>2. pc[g] \in {"false", "report"}
      BY <1>8, <2>2, <3>1
    <3>3. Alive(g)
      BY <3>2 DEF Alive
    <3> QED BY <1>8, <1>13, <1>14, <3>1, <3>2, <3>3 DEF WriterInv, FlagDown
  <2> QED BY <2>1, <2>2 DEF FlagDown
<1>18. ConfirmationsFirst' /\ OneQuestion'
  BY <1>1, <1>7, <1>8, <1>9, <1>10 DEF WriterInv, ConfirmationsFirst, OneQuestion
<1>19. AskedWaits' /\ EndingLetsGo'
  BY <1>8, <1>11, <1>12, <1>13, <1>14 DEF WriterInv, AskedWaits, EndingLetsGo
<1>20. AnswerIsOwn'
  <2> SUFFICES ASSUME NEW g \in Flashes, pc'[g] \in {"ask", "wait"}
               PROVE  \/ speed_answer'[owner'[g]] \in {<<>>, <<"continue">>}
                      \/ speed_answer'[owner'[g]] = <<"abort">> /\ ~is_flashing'[owner'[g]]
    BY DEF AnswerIsOwn
  <2>1. g # f /\ pc[g] \in {"ask", "wait"}
    BY <1>8
  <2>2. Alive(g)
    BY <2>1 DEF Alive
  <2> QED BY <1>8, <1>13, <1>14, <2>1, <2>2 DEF WriterInv, AnswerIsOwn
<1> QED
  BY <1>15, <1>16, <1>17, <1>18, <1>19, <1>20 DEF WriterInv

\* The other answers of the user that change more than the dialogs, and the
\* handlers of the event loop: in each, the flags that change, the stack and
\* the queue are named for every window, and the invariant follows.

\* on_error_response "restart": an ending was shown, so the worker lets go.
LEMMA RestartStep ==
  ASSUME TypeOK, WriterInv, NEW w \in Windows, OnErrorRestart(w)
  PROVE  WriterInv'
<1>0. /\ dialogs \in [Windows -> Seq(DialogKinds)] /\ owner \in [Flashes -> Windows]
      /\ current_step \in [Windows -> 0 .. 3]
  BY DEF TypeOK
<1>1. dialogs[w] \in Seq(DialogKinds) /\ dialogs[w] # <<>> /\ Head(dialogs[w]) = "ending"
  BY <1>0 DEF OnErrorRestart, Answers
<1>2. LastOnly(dialogs[w]) /\ OneDialog(dialogs[w])
  BY DEF WriterInv, ConfirmationsFirst, OneQuestion
<1>3. /\ Has(dialogs[w], "ending")
      /\ LastOnly(Tail(dialogs[w])) /\ OneDialog(Tail(dialogs[w]))
      /\ \A j : Has(Tail(dialogs[w]), j) => Has(dialogs[w], j)
  BY <1>1, <1>2, PopFacts
<1>4. EndingDue(w)
  BY <1>3 DEF EndingDue
<1>5. /\ UNCHANGED <<open, is_flashing, worker, speed_answer, refusing, installers, idle, pc, owner>>
      /\ \A v \in Windows : /\ dialogs'[v] = IF v = w THEN Tail(dialogs[w]) ELSE dialogs[v]
                            /\ current_step'[v] = IF v = w THEN 0 ELSE current_step[v]
  BY <1>0 DEF OnErrorRestart, Pop, flagVars, jobVars, threadVars
<1>6. \A v \in Windows : \A j : Has(dialogs'[v], j) => Has(dialogs[v], j)
  BY <1>3, <1>5
<1>7. \A v \in Windows : ((EndingDue(v))' => EndingDue(v)) /\ ((SpeedOpen(v))' => SpeedOpen(v))
  BY <1>4, <1>5, <1>6 DEF EndingDue, SpeedOpen
<1>8. \A f \in Flashes : (Alive(f))' = Alive(f)
  BY <1>5 DEF Alive
<1>9. OnlyFlashCalls' /\ LiveIsWorker' /\ FlagDown' /\ AnswerIsOwn'
  BY <1>5, <1>7, <1>8 DEF WriterInv, OnlyFlashCalls, LiveIsWorker, FlagDown, AnswerIsOwn
<1>10. ConfirmationsFirst' /\ OneQuestion'
  BY <1>2, <1>3, <1>5, <1>6 DEF WriterInv, ConfirmationsFirst, OneQuestion
<1>11. AskedWaits' /\ EndingLetsGo'
  BY <1>0, <1>5, <1>7, <1>8 DEF WriterInv, AskedWaits, EndingLetsGo
<1> QED
  BY <1>9, <1>10, <1>11 DEF WriterInv

\* on_interrupt_response only lowers the flag.
LEMMA InterruptStep ==
  ASSUME TypeOK, WriterInv, NEW w \in Windows, OnInterruptResponse(w)
  PROVE  WriterInv'
<1>0. /\ dialogs \in [Windows -> Seq(DialogKinds)] /\ owner \in [Flashes -> Windows]
      /\ is_flashing \in [Windows -> BOOLEAN]
  BY DEF TypeOK
<1>1. dialogs[w] \in Seq(DialogKinds) /\ dialogs[w] # <<>>
  BY <1>0 DEF OnInterruptResponse, Answers
<1>2. LastOnly(dialogs[w]) /\ OneDialog(dialogs[w])
  BY DEF WriterInv, ConfirmationsFirst, OneQuestion
<1>3. /\ LastOnly(Tail(dialogs[w])) /\ OneDialog(Tail(dialogs[w]))
      /\ \A j : Has(Tail(dialogs[w]), j) => Has(dialogs[w], j)
  BY <1>1, <1>2, PopFacts
<1>4. /\ UNCHANGED <<open, current_step, worker, speed_answer, refusing, installers, idle, pc, owner>>
      /\ \A v \in Windows : /\ dialogs'[v] = IF v = w THEN Tail(dialogs[w]) ELSE dialogs[v]
                            /\ is_flashing'[v] => is_flashing[v]
  BY <1>0 DEF OnInterruptResponse, Pop, pageVars, jobVars, threadVars
<1>5. \A v \in Windows : \A j : Has(dialogs'[v], j) => Has(dialogs[v], j)
  BY <1>3, <1>4
<1>6. \A v \in Windows : ((EndingDue(v))' => EndingDue(v)) /\ ((SpeedOpen(v))' => SpeedOpen(v))
  BY <1>4, <1>5 DEF EndingDue, SpeedOpen
<1>7. \A f \in Flashes : (Alive(f))' = Alive(f)
  BY <1>4 DEF Alive
<1>8. OnlyFlashCalls' /\ LiveIsWorker' /\ FlagDown' /\ AnswerIsOwn'
  BY <1>0, <1>4, <1>6, <1>7 DEF WriterInv, OnlyFlashCalls, LiveIsWorker, FlagDown, AnswerIsOwn
<1>9. ConfirmationsFirst' /\ OneQuestion'
  BY <1>2, <1>3, <1>4, <1>5 DEF WriterInv, ConfirmationsFirst, OneQuestion
<1>10. AskedWaits' /\ EndingLetsGo'
  BY <1>0, <1>4, <1>6, <1>7 DEF WriterInv, AskedWaits, EndingLetsGo
<1> QED
  BY <1>8, <1>9, <1>10 DEF WriterInv

\* "Continue anyway": the one open question gets the one answer.
LEMMA ContinueStep ==
  ASSUME TypeOK, WriterInv, NEW w \in Windows, OnSpeedtestContinue(w)
  PROVE  WriterInv'
<1>0. /\ dialogs \in [Windows -> Seq(DialogKinds)] /\ owner \in [Flashes -> Windows]
      /\ speed_answer \in [Windows -> Seq({"continue", "abort"})]
  BY DEF TypeOK
<1>1. /\ dialogs[w] \in Seq(DialogKinds) /\ dialogs[w] # <<>> /\ Head(dialogs[w]) = "speed"
      /\ refusing[w] = "no"
  BY <1>0 DEF OnSpeedtestContinue, Answers, MainFree
<1>2. LastOnly(dialogs[w]) /\ OneDialog(dialogs[w])
  BY DEF WriterInv, ConfirmationsFirst, OneQuestion
<1>3. /\ Has(dialogs[w], "speed") /\ ~Has(Tail(dialogs[w]), "speed")
      /\ LastOnly(Tail(dialogs[w])) /\ OneDialog(Tail(dialogs[w]))
      /\ \A j : Has(Tail(dialogs[w]), j) => Has(dialogs[w], j)
  BY <1>1, <1>2, PopFacts
<1>4. SpeedOpen(w) /\ ~HasCall(idle, w, "on_speedtest")
  BY <1>3 DEF SpeedOpen, WriterInv, OneQuestion
<1>5. /\ UNCHANGED <<open, current_step, is_flashing, worker, refusing, installers, idle, pc, owner>>
      /\ \A v \in Windows : /\ dialogs'[v] = IF v = w THEN Tail(dialogs[w]) ELSE dialogs[v]
                            /\ speed_answer'[v] = IF v = w THEN Append(speed_answer[w], "continue")
                                                  ELSE speed_answer[v]
  BY <1>0 DEF OnSpeedtestContinue, Pop, pageVars, jobVars, threadVars
<1>6. \A v \in Windows : \A j : Has(dialogs'[v], j) => Has(dialogs[v], j)
  BY <1>3, <1>5
<1>7. /\ \A v \in Windows : ((EndingDue(v))' => EndingDue(v)) /\ ((SpeedOpen(v))' => SpeedOpen(v))
      /\ ~(SpeedOpen(w))'
  BY <1>1, <1>3, <1>4, <1>5, <1>6 DEF EndingDue, SpeedOpen
<1>8. \A f \in Flashes : (Alive(f))' = Alive(f)
  BY <1>5 DEF Alive
<1>9. OnlyFlashCalls' /\ LiveIsWorker' /\ FlagDown'
  BY <1>5, <1>7, <1>8 DEF WriterInv, OnlyFlashCalls, LiveIsWorker, FlagDown
<1>10. ConfirmationsFirst' /\ OneQuestion'
  BY <1>2, <1>3, <1>5, <1>6 DEF WriterInv, ConfirmationsFirst, OneQuestion
<1>11. \A f \in Flashes : Alive(f) /\ owner[f] = w => 
          \/ pc[f] \in {"ask", "wait"} /\ speed_answer[w] = <<>> /\ speed_answer'[w] = <<"continue">> 
          \/ pc[f] \in {"false", "over"}
  <2>1. speed_answer[w] = <<>> => speed_answer'[w] = <<"continue">>
    BY <1>5
  <2> QED BY <1>4, <2>1 DEF WriterInv, AskedWaits
<1>12. \A f \in Flashes : pc[f] \in {"ask", "wait", "false", "over"} => Alive(f)
  BY DEF Alive
<1>13. <<>> # <<"abort">>
  OBVIOUS
<1>14. AskedWaits' /\ EndingLetsGo'
  BY <1>0, <1>5, <1>7, <1>8, <1>11, <1>13 DEF WriterInv, AskedWaits, EndingLetsGo
<1>15. AnswerIsOwn'
  BY <1>0, <1>5, <1>11, <1>12 DEF WriterInv, AnswerIsOwn
<1> QED
  BY <1>9, <1>10, <1>14, <1>15 DEF WriterInv

\* The three writes of a refusal.
LEMMA RefuseLowersStep ==
  ASSUME TypeOK, WriterInv, NEW w \in Windows, RefuseLowersFlag(w)
  PROVE  WriterInv'
<1>0. /\ dialogs \in [Windows -> Seq(DialogKinds)] /\ owner \in [Flashes -> Windows]
      /\ is_flashing \in [Windows -> BOOLEAN] /\ refusing \in [Windows -> {"no", "lowered", "marked"}]
  BY DEF TypeOK
<1>1. dialogs[w] \in Seq(DialogKinds) /\ dialogs[w] # <<>> /\ Head(dialogs[w]) = "speed"
  BY <1>0 DEF RefuseLowersFlag, Answers
<1>2. LastOnly(dialogs[w]) /\ OneDialog(dialogs[w])
  BY DEF WriterInv, ConfirmationsFirst, OneQuestion
<1>3. /\ Has(dialogs[w], "speed") /\ ~Has(Tail(dialogs[w]), "speed")
      /\ LastOnly(Tail(dialogs[w])) /\ OneDialog(Tail(dialogs[w]))
      /\ \A j : Has(Tail(dialogs[w]), j) => Has(dialogs[w], j)
  BY <1>1, <1>2, PopFacts
<1>4. SpeedOpen(w) /\ ~HasCall(idle, w, "on_speedtest")
  BY <1>3 DEF SpeedOpen, WriterInv, OneQuestion
<1>5. /\ UNCHANGED <<open, current_step, speed_answer, worker, installers, idle, pc, owner>>
      /\ \A v \in Windows : /\ dialogs'[v] = IF v = w THEN Tail(dialogs[w]) ELSE dialogs[v]
                            /\ is_flashing'[v] <=> v # w /\ is_flashing[v]
                            /\ refusing'[v] = IF v = w THEN "lowered" ELSE refusing[v]
  BY <1>0 DEF RefuseLowersFlag, Pop, pageVars, jobVars, threadVars
<1>6. \A v \in Windows : \A j : Has(dialogs'[v], j) => Has(dialogs[v], j)
  BY <1>3, <1>5
<1>7. \A v \in Windows : ((EndingDue(v))' => EndingDue(v)) /\ ((SpeedOpen(v))' => SpeedOpen(v))
  BY <1>4, <1>5, <1>6 DEF EndingDue, SpeedOpen
<1>8. \A f \in Flashes : (Alive(f))' = Alive(f)
  BY <1>5 DEF Alive
<1>9. OnlyFlashCalls' /\ LiveIsWorker' /\ FlagDown' /\ AnswerIsOwn'
  BY <1>0, <1>5, <1>7, <1>8 DEF WriterInv, OnlyFlashCalls, LiveIsWorker, FlagDown, AnswerIsOwn
<1>10. ConfirmationsFirst' /\ OneQuestion'
  BY <1>2, <1>3, <1>4, <1>5, <1>6 DEF WriterInv, ConfirmationsFirst, OneQuestion
<1>11. AskedWaits' /\ EndingLetsGo'
  BY <1>0, <1>5, <1>7, <1>8 DEF WriterInv, AskedWaits, EndingLetsGo
<1> QED
  BY <1>9, <1>10, <1>11 DEF WriterInv

\* The second write of a refusal touches only speed_refused.
LEMMA RefuseMarksStep ==
  ASSUME TypeOK, WriterInv, NEW w \in Windows, RefuseMarks(w)
  PROVE  WriterInv'
<1>0. owner \in [Flashes -> Windows] /\ refusing \in [Windows -> {"no", "lowered", "marked"}]
  BY DEF TypeOK
<1>1. /\ UNCHANGED <<open, current_step, is_flashing, speed_answer, worker, installers, dialogs, idle, pc, owner>>
      /\ \A v \in Windows : refusing'[v] # "no" <=> refusing[v] # "no"
  BY <1>0 DEF RefuseMarks, pageVars, jobVars, threadVars
<1>2. \A v \in Windows : ((EndingDue(v))' <=> EndingDue(v)) /\ ((SpeedOpen(v))' <=> SpeedOpen(v))
  BY <1>1 DEF EndingDue, SpeedOpen
<1>3. \A f \in Flashes : (Alive(f))' = Alive(f)
  BY <1>1 DEF Alive
<1>4. OnlyFlashCalls' /\ LiveIsWorker' /\ FlagDown' /\ AnswerIsOwn'
  BY <1>1, <1>2, <1>3 DEF WriterInv, OnlyFlashCalls, LiveIsWorker, FlagDown, AnswerIsOwn
<1>5. ConfirmationsFirst' /\ OneQuestion'
  BY <1>1 DEF WriterInv, ConfirmationsFirst, OneQuestion
<1>6. AskedWaits' /\ EndingLetsGo'
  BY <1>0, <1>1, <1>2, <1>3 DEF WriterInv, AskedWaits, EndingLetsGo
<1> QED
  BY <1>4, <1>5, <1>6 DEF WriterInv

\* The third write answers the worker, which finds the flag down.
LEMMA RefuseAnswersStep ==
  ASSUME TypeOK, WriterInv, NEW w \in Windows, NEW g \in Flashes, RefuseAnswers(w, g)
  PROVE  WriterInv'
<1>0. /\ dialogs \in [Windows -> Seq(DialogKinds)] /\ owner \in [Flashes -> Windows]
      /\ speed_answer \in [Windows -> Seq({"continue", "abort"})]
      /\ refusing \in [Windows -> {"no", "lowered", "marked"}]
  BY DEF TypeOK
<1>1. refusing[w] = "marked" /\ SpeedOpen(w) /\ ~is_flashing[w]
  BY DEF RefuseAnswers, SpeedOpen, WriterInv, FlagDown
<1>2. LastOnly(dialogs[w]) /\ OneDialog(dialogs[w]) /\ ~Has(dialogs[w], "speed")
      /\ ~HasCall(idle, w, "on_speedtest")
  BY <1>1 DEF WriterInv, ConfirmationsFirst, OneQuestion
<1>3. "ending" \in DialogKinds /\ "ending" \notin Confirmations
  BY DEF DialogKinds, Confirmations
<1>4. /\ LastOnly(<<"ending">> \o dialogs[w]) /\ OneDialog(<<"ending">> \o dialogs[w])
      /\ \A j : Has(<<"ending">> \o dialogs[w], j) => j = "ending" \/ Has(dialogs[w], j)
  BY <1>0, <1>2, <1>3, PushFacts
<1>5. /\ UNCHANGED <<open, current_step, is_flashing, worker, installers, idle, pc, owner>>
      /\ \A v \in Windows : /\ dialogs'[v] = IF v = w THEN <<"ending">> \o dialogs[w] ELSE dialogs[v]
                            /\ refusing'[v] = IF v = w THEN "no" ELSE refusing[v]
                            /\ speed_answer'[v] = IF v = w THEN Append(speed_answer[w], "abort")
                                                  ELSE speed_answer[v]
  BY <1>0 DEF RefuseAnswers, Push, pageVars, jobVars, threadVars
<1>6. \A v \in Windows : \A j : Has(dialogs'[v], j) => Has(dialogs[v], j) \/ (v = w /\ j = "ending")
  BY <1>4, <1>5
<1>7. /\ \A v \in Windows : /\ (EndingDue(v))' => EndingDue(v) \/ v = w
                            /\ (SpeedOpen(v))' => SpeedOpen(v)
      /\ ~(SpeedOpen(w))'
  BY <1>2, <1>5, <1>6 DEF EndingDue, SpeedOpen
<1>8. \A f \in Flashes : (Alive(f))' = Alive(f)
  BY <1>5 DEF Alive
<1>9. OnlyFlashCalls' /\ LiveIsWorker'
  BY <1>5, <1>8 DEF WriterInv, OnlyFlashCalls, LiveIsWorker
<1>10. FlagDown'
  BY <1>1, <1>5, <1>7 DEF WriterInv, FlagDown
<1>11. ConfirmationsFirst' /\ OneQuestion'
  BY <1>2, <1>3, <1>4, <1>5, <1>6 DEF WriterInv, ConfirmationsFirst, OneQuestion
<1>12. \A f \in Flashes : Alive(f) /\ owner[f] = w =>
          \/ pc[f] \in {"ask", "wait"} /\ speed_answer'[w] = <<"abort">>
          \/ pc[f] \in {"false", "over"}
  <2>1. speed_answer[w] = <<>> => speed_answer'[w] = <<"abort">>
    BY <1>5
  <2> QED BY <1>1, <2>1 DEF WriterInv, AskedWaits
<1>13. \A f \in Flashes : pc[f] \in {"ask", "wait", "false", "over"} => Alive(f)
  BY DEF Alive
<1>14. AskedWaits' /\ EndingLetsGo'
  BY <1>0, <1>5, <1>7, <1>8, <1>12 DEF WriterInv, AskedWaits, EndingLetsGo
<1>15. AnswerIsOwn'
  BY <1>0, <1>1, <1>5, <1>12, <1>13 DEF WriterInv, AnswerIsOwn
<1> QED
  BY <1>9, <1>10, <1>11, <1>14, <1>15 DEF WriterInv

\* A second launch opens a window that has no worker.
LEMMA ActivateStep ==
  ASSUME TypeOK, WriterInv, NEW w \in Windows, OnActivate(w)
  PROVE  WriterInv'
<1>0. owner \in [Flashes -> Windows]
  BY DEF TypeOK
<1>1. UNCHANGED <<current_step, is_flashing, worker, speed_answer, refusing, installers, dialogs, idle, pc, owner>>
  BY DEF OnActivate, flagVars, jobVars, threadVars
<1>2. \A v \in Windows : ((EndingDue(v))' <=> EndingDue(v)) /\ ((SpeedOpen(v))' <=> SpeedOpen(v))
  BY <1>1 DEF EndingDue, SpeedOpen
<1>3. \A f \in Flashes : (Alive(f))' = Alive(f)
  BY <1>1 DEF Alive
<1>4. OnlyFlashCalls' /\ LiveIsWorker' /\ FlagDown' /\ AnswerIsOwn'
  BY <1>0, <1>1, <1>2, <1>3 DEF WriterInv, OnlyFlashCalls, LiveIsWorker, FlagDown, AnswerIsOwn
<1>5. ConfirmationsFirst' /\ OneQuestion'
  BY <1>1 DEF WriterInv, ConfirmationsFirst, OneQuestion
<1>6. AskedWaits' /\ EndingLetsGo'
  BY <1>0, <1>1, <1>2, <1>3 DEF WriterInv, AskedWaits, EndingLetsGo
<1> QED
  BY <1>4, <1>5, <1>6 DEF WriterInv

\* A callback runs: the queue only loses it.
LEMMA CalledFacts ==
  ASSUME TypeOK, WriterInv, NEW w \in Windows, NEW fn, Called(fn), Head(idle).win = w
  PROVE  /\ \A v \in Windows : refusing[v] = "no" /\ OneCall(idle', v)
         /\ HasCall(idle, w, fn)
         /\ \A v \in Windows : \A c : HasCall(idle', v, c) => HasCall(idle, v, c)
         /\ fn = "on_speedtest" => ~HasCall(idle', w, "on_speedtest")
<1>1. idle \in Seq(Callbacks) /\ idle # <<>> /\ idle' = Tail(idle) /\ Head(idle).fn = fn
      /\ \A v \in Windows : refusing[v] = "no"
  BY DEF TypeOK, Called, MainFree
<1>2. \A v \in Windows : OneCall(idle, v)
  BY DEF WriterInv, OneQuestion
<1> QED
  BY <1>1, <1>2, RunFacts

\* on_flash_success lowers the flag.
LEMMA SuccessStep ==
  ASSUME TypeOK, WriterInv, NEW w \in Windows, NEW g \in Flashes, OnFlashSuccess(w, g)
  PROVE  WriterInv'
<1>0. owner \in [Flashes -> Windows] /\ is_flashing \in [Windows -> BOOLEAN]
  BY DEF TypeOK
<1>1. /\ \A v \in Windows : refusing[v] = "no" /\ OneCall(idle', v)
      /\ \A v \in Windows : \A c : HasCall(idle', v, c) => HasCall(idle, v, c)
  BY CalledFacts DEF OnFlashSuccess, Report
<1>2. /\ UNCHANGED <<open, current_step, worker, speed_answer, refusing, installers, dialogs, pc, owner>>
      /\ \A v \in Windows : is_flashing'[v] => is_flashing[v]
  BY <1>0 DEF OnFlashSuccess, jobVars, threadVars
<1>3. \A v \in Windows : ((EndingDue(v))' => EndingDue(v)) /\ ((SpeedOpen(v))' => SpeedOpen(v))
  BY <1>1, <1>2 DEF EndingDue, SpeedOpen
<1>4. \A f \in Flashes : (Alive(f))' = Alive(f)
  BY <1>2 DEF Alive
<1>5. OnlyFlashCalls' /\ LiveIsWorker' /\ FlagDown' /\ AnswerIsOwn'
  BY <1>0, <1>1, <1>2, <1>3, <1>4 DEF WriterInv, OnlyFlashCalls, LiveIsWorker, FlagDown, AnswerIsOwn
<1>6. ConfirmationsFirst' /\ OneQuestion'
  BY <1>1, <1>2 DEF WriterInv, ConfirmationsFirst, OneQuestion
<1>7. AskedWaits' /\ EndingLetsGo'
  BY <1>0, <1>2, <1>3, <1>4 DEF WriterInv, AskedWaits, EndingLetsGo
<1> QED
  BY <1>5, <1>6, <1>7 DEF WriterInv

\* A failed or stopped flash is told: its ending was due already.
LEMMA ShowEndingStep ==
  ASSUME TypeOK, WriterInv, NEW w \in Windows, NEW g \in Flashes,
         ShowFlashFailed(w, g) \/ ShowInterruptedError(w, g)
  PROVE  WriterInv'
<1>0. owner \in [Flashes -> Windows] /\ dialogs \in [Windows -> Seq(DialogKinds)]
  BY DEF TypeOK
<1>1. /\ \A v \in Windows : refusing[v] = "no" /\ OneCall(idle', v)
      /\ \A v \in Windows : \A c : HasCall(idle', v, c) => HasCall(idle, v, c)
      /\ HasCall(idle, w, "show_flash_failed") \/ HasCall(idle, w, "show_interrupted_error")
  BY CalledFacts DEF ShowFlashFailed, ShowInterruptedError, Report
<1>2. /\ UNCHANGED <<open, current_step, is_flashing, worker, speed_answer, refusing, installers, pc, owner>>
      /\ \A v \in Windows : dialogs'[v] = IF v = w THEN <<"ending">> \o dialogs[w] ELSE dialogs[v]
  BY <1>0 DEF ShowFlashFailed, ShowInterruptedError, Push, pageVars, flagVars, jobVars, threadVars
<1>3. /\ EndingDue(w) /\ LastOnly(dialogs[w]) /\ OneDialog(dialogs[w])
      /\ "ending" \in DialogKinds /\ "ending" \notin Confirmations
  BY <1>1 DEF EndingDue, WriterInv, ConfirmationsFirst, OneQuestion, DialogKinds, Confirmations
<1>4. /\ LastOnly(<<"ending">> \o dialogs[w]) /\ OneDialog(<<"ending">> \o dialogs[w])
      /\ \A j : Has(<<"ending">> \o dialogs[w], j) => j = "ending" \/ Has(dialogs[w], j)
  BY <1>0, <1>3, PushFacts
<1>5. \A v \in Windows : \A j : Has(dialogs'[v], j) => Has(dialogs[v], j) \/ (v = w /\ j = "ending")
  BY <1>2, <1>4
<1>6. \A v \in Windows : ((EndingDue(v))' => EndingDue(v)) /\ ((SpeedOpen(v))' => SpeedOpen(v))
  BY <1>1, <1>2, <1>3, <1>5 DEF EndingDue, SpeedOpen
<1>7. \A f \in Flashes : (Alive(f))' = Alive(f)
  BY <1>2 DEF Alive
<1>8. OnlyFlashCalls' /\ LiveIsWorker' /\ FlagDown' /\ AnswerIsOwn'
  BY <1>0, <1>1, <1>2, <1>6, <1>7 DEF WriterInv, OnlyFlashCalls, LiveIsWorker, FlagDown, AnswerIsOwn
<1>9. ConfirmationsFirst' /\ OneQuestion'
  BY <1>1, <1>2, <1>3, <1>4, <1>5 DEF WriterInv, ConfirmationsFirst, OneQuestion
<1>10. AskedWaits' /\ EndingLetsGo'
  BY <1>0, <1>2, <1>6, <1>7 DEF WriterInv, AskedWaits, EndingLetsGo
<1> QED
  BY <1>8, <1>9, <1>10 DEF WriterInv

\* on_speedtest: the posted question is answered at once or shown.
LEMMA SpeedtestStep ==
  ASSUME TypeOK, WriterInv, NEW w \in Windows, OnSpeedtest(w)
  PROVE  WriterInv'
<1>0. /\ owner \in [Flashes -> Windows] /\ dialogs \in [Windows -> Seq(DialogKinds)]
      /\ speed_answer \in [Windows -> Seq({"continue", "abort"})]
  BY DEF TypeOK
<1>1. /\ \A v \in Windows : refusing[v] = "no" /\ OneCall(idle', v)
      /\ \A v \in Windows : \A c : HasCall(idle', v, c) => HasCall(idle, v, c)
      /\ HasCall(idle, w, "on_speedtest") /\ ~HasCall(idle', w, "on_speedtest")
  BY CalledFacts DEF OnSpeedtest
<1>2. UNCHANGED <<open, current_step, is_flashing, worker, refusing, installers, pc, owner>>
  BY DEF OnSpeedtest, pageVars, jobVars, threadVars
<1>3. /\ SpeedOpen(w) /\ LastOnly(dialogs[w]) /\ OneDialog(dialogs[w]) /\ ~Has(dialogs[w], "speed")
  BY <1>1 DEF SpeedOpen, WriterInv, ConfirmationsFirst, OneQuestion
<1>4. \A f \in Flashes : (Alive(f))' = Alive(f)
  BY <1>2 DEF Alive
<1>5. CASE UNCHANGED dialogs /\ speed_answer' = [speed_answer EXCEPT ![w] = Append(@, "continue")]
  <2>1. \A v \in Windows : speed_answer'[v] = IF v = w THEN Append(speed_answer[w], "continue")
                                              ELSE speed_answer[v]
    BY <1>0, <1>5
  <2>2. \A v \in Windows : /\ ((EndingDue(v))' => EndingDue(v))
                           /\ ((SpeedOpen(v))' => SpeedOpen(v) /\ v # w)
    BY <1>1, <1>2, <1>3, <1>5 DEF EndingDue, SpeedOpen
  <2>3. OnlyFlashCalls' /\ LiveIsWorker' /\ FlagDown'
    BY <1>0, <1>1, <1>2, <1>4, <2>2 DEF WriterInv, OnlyFlashCalls, LiveIsWorker, FlagDown
  <2>4. ConfirmationsFirst' /\ OneQuestion'
    BY <1>1, <1>2, <1>5 DEF WriterInv, ConfirmationsFirst, OneQuestion
  <2>5. \A f \in Flashes : Alive(f) /\ owner[f] = w =>
          \/ pc[f] \in {"ask", "wait"} /\ speed_answer[w] = <<>> /\ speed_answer'[w] = <<"continue">>
          \/ pc[f] \in {"false", "over"}
    <3>1. speed_answer[w] = <<>> => speed_answer'[w] = <<"continue">>
      BY <2>1
    <3> QED BY <1>3, <3>1 DEF WriterInv, AskedWaits
  <2>6. \A f \in Flashes : pc[f] \in {"ask", "wait", "false", "over"} => Alive(f)
    BY DEF Alive
  <2>7. <<>> # <<"abort">>
    OBVIOUS
  <2>8. AskedWaits' /\ EndingLetsGo'
    BY <1>0, <1>2, <1>4, <2>1, <2>2, <2>5, <2>7 DEF WriterInv, AskedWaits, EndingLetsGo
  <2>9. AnswerIsOwn'
    BY <1>0, <1>2, <2>1, <2>5, <2>6 DEF WriterInv, AnswerIsOwn
  <2> QED
    BY <2>3, <2>4, <2>8, <2>9 DEF WriterInv
<1>6. CASE Push(w, "speed") /\ UNCHANGED speed_answer
  <2>1. \A v \in Windows : dialogs'[v] = IF v = w THEN <<"speed">> \o dialogs[w] ELSE dialogs[v]
    BY <1>0, <1>6 DEF Push
  <2>2. "speed" \in DialogKinds /\ "speed" \notin Confirmations
    BY DEF DialogKinds, Confirmations
  <2>3. /\ LastOnly(<<"speed">> \o dialogs[w]) /\ OneDialog(<<"speed">> \o dialogs[w])
        /\ \A j : Has(<<"speed">> \o dialogs[w], j) => j = "speed" \/ Has(dialogs[w], j)
    BY <1>0, <1>3, <2>2, PushFacts
  <2>4. \A v \in Windows : \A j : Has(dialogs'[v], j) => Has(dialogs[v], j) \/ (v = w /\ j = "speed")
    BY <2>1, <2>3
  <2>5. \A v \in Windows : ((EndingDue(v))' => EndingDue(v)) /\ ((SpeedOpen(v))' => SpeedOpen(v))
    BY <1>1, <1>2, <1>3, <2>4 DEF EndingDue, SpeedOpen
  <2>6. OnlyFlashCalls' /\ LiveIsWorker' /\ FlagDown' /\ AnswerIsOwn'
    BY <1>0, <1>1, <1>2, <1>4, <1>6, <2>5
    DEF WriterInv, OnlyFlashCalls, LiveIsWorker, FlagDown, AnswerIsOwn
  <2>7. ConfirmationsFirst' /\ OneQuestion'
    BY <1>1, <1>2, <2>1, <2>2, <2>3, <2>4 DEF WriterInv, ConfirmationsFirst, OneQuestion
  <2>8. AskedWaits' /\ EndingLetsGo'
    BY <1>0, <1>2, <1>4, <1>6, <2>5 DEF WriterInv, AskedWaits, EndingLetsGo
  <2> QED
    BY <2>6, <2>7, <2>8 DEF WriterInv
<1> QED
  BY <1>5, <1>6 DEF OnSpeedtest

\* A callback is posted, by a thread or by a handler.
LEMMA IdleAddFacts ==
  ASSUME TypeOK, NEW w \in Windows, NEW f \in Flashes \cup {NoWorker},
         NEW fn \in FlashCallbacks \cup JobCallbacks \cup {"rebuild"}, IdleAdd(fn, w, f)
  PROVE  /\ \A v, c : HasCall(idle', v, c) => HasCall(idle, v, c) \/ (v = w /\ c = fn)
         /\ \A v : OneCall(idle, v) /\ (fn # "on_speedtest" \/ ~HasCall(idle, w, fn))
                  => OneCall(idle', v)
<1> DEFINE cb == [fn |-> fn, win |-> w, flash |-> f]
<1>1. cb \in Callbacks /\ cb.fn = fn /\ cb.win = w /\ idle' = Append(idle, cb) /\ idle \in Seq(Callbacks)
  BY DEF Callbacks, IdleAdd, TypeOK
<1> HIDE DEF cb
<1>2. ASSUME NEW v, NEW c, HasCall(idle', v, c) PROVE HasCall(idle, v, c) \/ (v = w /\ c = fn)
  BY <1>1, <1>2, PostFacts
<1>3. ASSUME NEW v, OneCall(idle, v), fn # "on_speedtest" \/ ~HasCall(idle, w, fn)
      PROVE  OneCall(idle', v)
  BY <1>1, <1>3, PostFacts
<1> QED BY <1>2, <1>3

\* A thread moves on and touches nothing that is shared.
LEMMA MoveStep ==
  ASSUME TypeOK, WriterInv, NEW f \in Flashes, Alive(f), NEW to, to # "unborn",
         pc' = [pc EXCEPT ![f] = to],
         UNCHANGED <<open, current_step, flagVars, installers, dialogs, idle, owner>>,
         to \in {"false", "report"} => ~is_flashing[owner[f]],
         to \in {"ask", "wait"} => pc[f] \in {"ask", "wait"},
         SpeedOpen(owner[f]) =>
           to \in {"false", "over", "dead"} \/ (to \in {"ask", "wait"} /\ pc[f] \in {"ask", "wait"}),
         EndingDue(owner[f]) =>
           to \in {"false", "over", "dead"} \/ (to \in {"ask", "wait"} /\ pc[f] \in {"ask", "wait"})
  PROVE  WriterInv'
<1>0. owner \in [Flashes -> Windows] /\ pc \in [Flashes -> Labels]
  BY DEF TypeOK
<1>1. /\ UNCHANGED <<open, current_step, is_flashing, worker, speed_answer, refusing, installers,
                      dialogs, idle, owner>>
      /\ \A g \in Flashes : pc'[g] = IF g = f THEN to ELSE pc[g]
  BY <1>0 DEF flagVars
<1>2. \A v \in Windows : ((EndingDue(v))' <=> EndingDue(v)) /\ ((SpeedOpen(v))' <=> SpeedOpen(v))
  BY <1>1 DEF EndingDue, SpeedOpen
<1>3. \A g \in Flashes : (Alive(g))' => Alive(g)
  BY <1>1 DEF Alive
<1>4. OnlyFlashCalls' /\ LiveIsWorker' /\ FlagDown'
  BY <1>0, <1>1, <1>2, <1>3 DEF WriterInv, OnlyFlashCalls, LiveIsWorker, FlagDown
<1>5. ConfirmationsFirst' /\ OneQuestion'
  BY <1>1 DEF WriterInv, ConfirmationsFirst, OneQuestion
<1>6. AnswerIsOwn'
  BY <1>0, <1>1 DEF WriterInv, AnswerIsOwn
<1>7. (Alive(f))' => to # "dead"
  BY <1>1 DEF Alive
<1>8. AskedWaits'
  <2> SUFFICES ASSUME NEW g \in Flashes, (Alive(g))', (SpeedOpen(owner[g]))'
               PROVE  \/ pc'[g] \in {"ask", "wait"} /\ speed_answer'[owner[g]] = <<>>
                      \/ pc'[g] \in {"false", "over"}
    BY <1>1 DEF AskedWaits
  <2>1. Alive(g) /\ SpeedOpen(owner[g])
    BY <1>0, <1>2, <1>3
  <2>2. \/ pc[g] \in {"ask", "wait"} /\ speed_answer[owner[g]] = <<>>
        \/ pc[g] \in {"false", "over"}
    BY <2>1 DEF WriterInv, AskedWaits
  <2> QED BY <1>1, <1>7, <2>1, <2>2
<1>9. EndingLetsGo'
  <2> SUFFICES ASSUME NEW g \in Flashes, (Alive(g))', (EndingDue(owner[g]))'
               PROVE  \/ pc'[g] \in {"ask", "wait"} /\ speed_answer'[owner[g]] = <<"abort">>
                      \/ pc'[g] \in {"false", "over"}
    BY <1>1 DEF EndingLetsGo
  <2>1. Alive(g) /\ EndingDue(owner[g])
    BY <1>0, <1>2, <1>3
  <2>2. \/ pc[g] \in {"ask", "wait"} /\ speed_answer[owner[g]] = <<"abort">>
        \/ pc[g] \in {"false", "over"}
    BY <2>1 DEF WriterInv, EndingLetsGo
  <2> QED BY <1>1, <1>7, <2>1, <2>2
<1> QED
  BY <1>4, <1>5, <1>6, <1>8, <1>9 DEF WriterInv

\* A busy thread has no open question and no ending due.
LEMMA BusyAlone ==
  ASSUME WriterInv, NEW f \in Flashes, Alive(f), pc[f] \notin {"ask", "wait", "false", "over"}
  PROVE  ~SpeedOpen(owner[f]) /\ ~EndingDue(owner[f])
  BY DEF WriterInv, AskedWaits, EndingLetsGo

\* A thread posts a callback and returns.  The one that reports a failure or
\* a stop has its flag down.
LEMMA PostStep ==
  ASSUME TypeOK, WriterInv, NEW f \in Flashes, Alive(f), pc[f] \notin {"ask", "wait", "over"},
         NEW fn \in FlashCallbacks \ {"on_speedtest"},
         fn # "on_flash_success" => ~is_flashing[owner[f]],
         pc' = [pc EXCEPT ![f] = "over"], IdleAdd(fn, owner[f], f),
         UNCHANGED <<open, current_step, flagVars, installers, dialogs, owner>>
  PROVE  WriterInv'
<1>0. /\ owner \in [Flashes -> Windows] /\ pc \in [Flashes -> Labels] /\ idle \in Seq(Callbacks)
      /\ owner[f] \in Windows
  BY DEF TypeOK
<1>1. /\ UNCHANGED <<open, current_step, is_flashing, worker, speed_answer, refusing, installers,
                      dialogs, owner>>
      /\ \A g \in Flashes : pc'[g] = IF g = f THEN "over" ELSE pc[g]
  BY <1>0 DEF flagVars
<1>3. /\ \A v \in Windows : \A c : HasCall(idle', v, c) => HasCall(idle, v, c) \/ (v = owner[f] /\ c = fn)
      /\ \A v \in Windows : OneCall(idle, v) => OneCall(idle', v)
  BY <1>0, IdleAddFacts
<1>4. \A v \in Windows : /\ (EndingDue(v))' => EndingDue(v) \/ (v = owner[f] /\ ~is_flashing[v])
                         /\ (SpeedOpen(v))' => SpeedOpen(v)
  BY <1>1, <1>3 DEF EndingDue, SpeedOpen, FlashCallbacks
<1>5. \A g \in Flashes : /\ (Alive(g))' => Alive(g)
                         /\ (Alive(g))' /\ owner[g] = owner[f] => g = f
  <2>1. \A g \in Flashes : (Alive(g))' => Alive(g)
    BY <1>1 DEF Alive
  <2>2. \A g \in Flashes : Alive(g) /\ owner[g] = owner[f] => g = f
    BY DEF WriterInv, LiveIsWorker
  <2> QED BY <2>1, <2>2
<1>6. OnlyFlashCalls' /\ LiveIsWorker' /\ FlagDown'
  <2>1. OnlyFlashCalls'
    BY <1>1, <1>3 DEF WriterInv, OnlyFlashCalls, FlashCallbacks, JobCallbacks
  <2>2. LiveIsWorker'
    BY <1>1, <1>5 DEF WriterInv, LiveIsWorker
  <2>3. FlagDown'
    BY <1>0, <1>1, <1>4 DEF WriterInv, FlagDown
  <2> QED BY <2>1, <2>2, <2>3
<1>7. ConfirmationsFirst' /\ OneQuestion'
  BY <1>1, <1>3 DEF WriterInv, ConfirmationsFirst, OneQuestion
<1>8. AskedWaits'
  BY <1>0, <1>1, <1>4, <1>5 DEF WriterInv, AskedWaits
<1>9. EndingLetsGo'
  <2> SUFFICES ASSUME NEW g \in Flashes, g # f, (Alive(g))', (EndingDue(owner[g]))'
               PROVE  \/ pc[g] \in {"ask", "wait"} /\ speed_answer[owner[g]] = <<"abort">>
                      \/ pc[g] \in {"false", "over"}
    BY <1>1 DEF EndingLetsGo
  <2>1. Alive(g) /\ EndingDue(owner[g])
    BY <1>0, <1>4, <1>5
  <2> QED BY <2>1 DEF WriterInv, EndingLetsGo
<1>10. AnswerIsOwn'
  BY <1>0, <1>1 DEF WriterInv, AnswerIsOwn
<1> QED
  BY <1>6, <1>7, <1>8, <1>9, <1>10 DEF WriterInv

\* write_windows_togo asks: a new, empty queue and one open question.
LEMMA AskStep ==
  ASSUME TypeOK, WriterInv, NEW f \in Flashes, pc[f] = "prep",
         pc' = [pc EXCEPT ![f] = "ask"],
         speed_answer' = [speed_answer EXCEPT ![owner[f]] = <<>>],
         IdleAdd("on_speedtest", owner[f], f),
         UNCHANGED <<open, current_step, is_flashing, speed_refused, worker, refusing, installers,
                     dialogs, owner>>
  PROVE  WriterInv'
<1>0. /\ owner \in [Flashes -> Windows] /\ pc \in [Flashes -> Labels] /\ idle \in Seq(Callbacks)
      /\ owner[f] \in Windows /\ speed_answer \in [Windows -> Seq({"continue", "abort"})]
  BY DEF TypeOK
<1>1. /\ \A g \in Flashes : pc'[g] = IF g = f THEN "ask" ELSE pc[g]
      /\ \A v \in Windows : speed_answer'[v] = IF v = owner[f] THEN <<>> ELSE speed_answer[v]
  BY <1>0
<1>2. Alive(f) /\ ~SpeedOpen(owner[f]) /\ ~EndingDue(owner[f])
  BY BusyAlone DEF Alive
<1>4. /\ \A v \in Windows : \A c : HasCall(idle', v, c) =>
            HasCall(idle, v, c) \/ (v = owner[f] /\ c = "on_speedtest")
      /\ \A v \in Windows : OneCall(idle, v) => OneCall(idle', v)
  <2>1. ~HasCall(idle, owner[f], "on_speedtest")
    BY <1>2 DEF SpeedOpen
  <2> QED BY <1>0, <2>1, IdleAddFacts DEF FlashCallbacks
<1>5. \A v \in Windows : /\ (EndingDue(v))' => EndingDue(v)
                         /\ (SpeedOpen(v))' => SpeedOpen(v) \/ v = owner[f]
  BY <1>4 DEF EndingDue, SpeedOpen
<1>6. \A g \in Flashes : /\ (Alive(g))' => Alive(g)
                         /\ (Alive(g))' /\ owner[g] = owner[f] => g = f
  <2>1. \A g \in Flashes : (Alive(g))' => Alive(g)
    BY <1>1, <1>2 DEF Alive
  <2>2. \A g \in Flashes : Alive(g) /\ owner[g] = owner[f] => g = f
    BY <1>2 DEF WriterInv, LiveIsWorker
  <2> QED BY <2>1, <2>2
<1>7. OnlyFlashCalls'
  BY <1>4 DEF WriterInv, OnlyFlashCalls, JobCallbacks
<1>8. LiveIsWorker' /\ FlagDown'
  <2>1. LiveIsWorker'
    BY <1>6 DEF WriterInv, LiveIsWorker
  <2>2. FlagDown'
    BY <1>0, <1>1, <1>5 DEF WriterInv, FlagDown
  <2> QED BY <2>1, <2>2
<1>9. ConfirmationsFirst'
  BY DEF WriterInv, ConfirmationsFirst
<1>10. OneQuestion'
  BY <1>2, <1>4 DEF WriterInv, OneQuestion, SpeedOpen
<1>11. AskedWaits' /\ EndingLetsGo'
  <2>1. ASSUME NEW g \in Flashes, (Alive(g))', g # f
        PROVE  /\ Alive(g) /\ owner[g] # owner[f] /\ pc'[g] = pc[g]
               /\ speed_answer'[owner[g]] = speed_answer[owner[g]]
    BY <1>0, <1>1, <1>6, <2>1
  <2>2. AskedWaits'
    BY <1>0, <1>1, <1>5, <2>1 DEF WriterInv, AskedWaits
  <2>3. EndingLetsGo'
    BY <1>0, <1>1, <1>2, <1>5, <2>1 DEF WriterInv, EndingLetsGo
  <2> QED BY <2>2, <2>3
<1>12. AnswerIsOwn'
  BY <1>0, <1>1 DEF WriterInv, AnswerIsOwn
<1> QED
  BY <1>7, <1>8, <1>9, <1>10, <1>11, <1>12 DEF WriterInv
\* speed_answer.get: the one answer is taken, and a refusal finds its flag
\* down, so the writer goes on only when no ending is due.
LEMMA AnswerStep ==
  ASSUME TypeOK, WriterInv, NEW f \in Flashes, pc[f] = "wait", speed_answer[owner[f]] # <<>>,
         pc' = [pc EXCEPT ![f] = IF Head(speed_answer[owner[f]]) = "continue"
                                 THEN "write" ELSE "false"],
         speed_answer' = [speed_answer EXCEPT ![owner[f]] = Tail(@)],
         UNCHANGED <<open, current_step, is_flashing, worker, refusing, installers, dialogs, idle,
                     owner>>
  PROVE  WriterInv'
<1>0. /\ owner \in [Flashes -> Windows] /\ pc \in [Flashes -> Labels] /\ owner[f] \in Windows
      /\ speed_answer \in [Windows -> Seq({"continue", "abort"})]
  BY DEF TypeOK
<1>1. \/ speed_answer[owner[f]] = <<"continue">>
      \/ speed_answer[owner[f]] = <<"abort">> /\ ~is_flashing[owner[f]]
  BY DEF WriterInv, AnswerIsOwn
<1>2. Head(<<"continue">>) = "continue" /\ Head(<<"abort">>) = "abort"
  OBVIOUS
<1>3. /\ UNCHANGED <<open, current_step, is_flashing, worker, refusing, installers, dialogs, idle,
                     owner>>
      /\ \A g \in Flashes : g # f => pc'[g] = pc[g]
      /\ \A v \in Windows : v # owner[f] => speed_answer'[v] = speed_answer[v]
  BY <1>0
<1>4. \/ pc'[f] = "write" /\ speed_answer[owner[f]] = <<"continue">>
      \/ pc'[f] = "false" /\ ~is_flashing[owner[f]]
  BY <1>0, <1>1, <1>2
<1>5. \A v \in Windows : ((EndingDue(v))' <=> EndingDue(v)) /\ ((SpeedOpen(v))' <=> SpeedOpen(v))
  BY <1>3 DEF EndingDue, SpeedOpen
<1>6. \A g \in Flashes : (Alive(g))' <=> Alive(g)
  BY <1>3, <1>4 DEF Alive
<1>7. \A g \in Flashes : Alive(g) /\ g # f => owner[g] # owner[f] /\ owner[g] \in Windows
  <2>1. Alive(f)
    BY DEF Alive
  <2> QED BY <1>0, <2>1 DEF WriterInv, LiveIsWorker
<1>8. OnlyFlashCalls' /\ LiveIsWorker' /\ FlagDown'
  BY <1>0, <1>3, <1>4, <1>5, <1>6 DEF WriterInv, OnlyFlashCalls, LiveIsWorker, FlagDown
<1>9. ConfirmationsFirst' /\ OneQuestion'
  BY <1>3 DEF WriterInv, ConfirmationsFirst, OneQuestion
<1>10. ~SpeedOpen(owner[f]) /\ (EndingDue(owner[f]) => pc'[f] = "false")
  <2>1. <<"continue">> # <<"abort">> /\ Alive(f)
    BY <1>2 DEF Alive
  <2> QED BY <1>4, <2>1 DEF WriterInv, AskedWaits, EndingLetsGo
<1>11. AskedWaits' /\ EndingLetsGo'
  <2> SUFFICES ASSUME NEW g \in Flashes, (Alive(g))'
               PROVE  /\ (SpeedOpen(owner[g]))' =>
                           \/ pc'[g] \in {"ask", "wait"} /\ speed_answer'[owner[g]] = <<>>
                           \/ pc'[g] \in {"false", "over"}
                      /\ (EndingDue(owner[g]))' =>
                           \/ pc'[g] \in {"ask", "wait"} /\ speed_answer'[owner[g]] = <<"abort">>
                           \/ pc'[g] \in {"false", "over"}
    BY <1>3 DEF AskedWaits, EndingLetsGo
  <2>1. CASE g = f
    BY <1>0, <1>3, <1>5, <1>10, <2>1
  <2>2. CASE g # f
    <3>1. /\ Alive(g) /\ owner[g] \in Windows /\ pc'[g] = pc[g]
          /\ speed_answer'[owner[g]] = speed_answer[owner[g]]
      BY <1>3, <1>6, <1>7, <2>2
    <3> QED BY <1>3, <1>5, <3>1 DEF WriterInv, AskedWaits, EndingLetsGo
  <2> QED BY <2>1, <2>2
<1>12. AnswerIsOwn'
  <2> SUFFICES ASSUME NEW g \in Flashes, pc'[g] \in {"ask", "wait"}
               PROVE  \/ speed_answer'[owner[g]] \in {<<>>, <<"continue">>}
                      \/ speed_answer'[owner[g]] = <<"abort">> /\ ~is_flashing'[owner[g]]
    BY <1>3 DEF AnswerIsOwn
  <2>1. g # f /\ pc[g] \in {"ask", "wait"}
    BY <1>3, <1>4
  <2>2. Alive(g)
    BY <2>1 DEF Alive
  <2> QED BY <1>3, <1>7, <2>1, <2>2 DEF WriterInv, AnswerIsOwn
<1> QED
  BY <1>8, <1>9, <1>11, <1>12 DEF WriterInv

\* The except clauses lower the flag before they report.
LEMMA LowerStep ==
  ASSUME TypeOK, WriterInv, NEW f \in Flashes, LowerFlag(f)
  PROVE  WriterInv'
<1>0. /\ owner \in [Flashes -> Windows] /\ pc \in [Flashes -> Labels] /\ owner[f] \in Windows
      /\ is_flashing \in [Windows -> BOOLEAN]
  BY DEF TypeOK
<1>1. pc[f] = "raised" /\ Alive(f)
  BY DEF LowerFlag, Goes, Alive
<1>2. /\ UNCHANGED <<open, current_step, worker, speed_answer, refusing, installers, dialogs, idle,
                     owner>>
      /\ \A g \in Flashes : pc'[g] = IF g = f THEN "report" ELSE pc[g]
      /\ \A v \in Windows : is_flashing'[v] <=> v # owner[f] /\ is_flashing[v]
  BY <1>0 DEF LowerFlag, Goes, ThreadFrame, pageVars, jobVars
<1>3. ~SpeedOpen(owner[f]) /\ ~EndingDue(owner[f])
  BY <1>1, BusyAlone
<1>4. \A v \in Windows : ((EndingDue(v))' <=> EndingDue(v)) /\ ((SpeedOpen(v))' <=> SpeedOpen(v))
  BY <1>2 DEF EndingDue, SpeedOpen
<1>5. \A g \in Flashes : (Alive(g))' <=> Alive(g)
  BY <1>1, <1>2 DEF Alive
<1>6. OnlyFlashCalls' /\ LiveIsWorker' /\ FlagDown'
  BY <1>0, <1>2, <1>4, <1>5 DEF WriterInv, OnlyFlashCalls, LiveIsWorker, FlagDown
<1>7. ConfirmationsFirst' /\ OneQuestion'
  BY <1>2 DEF WriterInv, ConfirmationsFirst, OneQuestion
<1>8. AskedWaits' /\ EndingLetsGo'
  BY <1>0, <1>2, <1>3, <1>4, <1>5 DEF WriterInv, AskedWaits, EndingLetsGo
<1>9. AnswerIsOwn'
  BY <1>0, <1>2 DEF WriterInv, AnswerIsOwn
<1> QED
  BY <1>6, <1>7, <1>8, <1>9 DEF WriterInv

\* Every step of a flash's thread.
LEMMA WriterThread ==
  ASSUME TypeOK, WriterInv, NEW f \in Flashes, WorkerStep(f)
  PROVE  WriterInv'
<1>0. /\ owner \in [Flashes -> Windows] /\ pc \in [Flashes -> Labels] /\ owner[f] \in Windows
  BY DEF TypeOK
<1> USE DEF Goes, ThreadFrame, pageVars, jobVars
<1>1. CASE CheckDrive(f)
  <2>1. PICK to \in {"raised", "prep", "write"} : pc' = [pc EXCEPT ![f] = to]
    BY <1>1 DEF CheckDrive
  <2>2. pc[f] = "check" /\ Alive(f)
    BY <1>1 DEF CheckDrive, Alive
  <2>3. ~SpeedOpen(owner[f]) /\ ~EndingDue(owner[f])
    BY <2>2, BusyAlone
  <2>4. UNCHANGED <<open, current_step, flagVars, installers, dialogs, idle, owner>>
    BY <1>1 DEF CheckDrive
  <2> QED BY <2>1, <2>2, <2>3, <2>4, MoveStep
<1>2. CASE PrepareToGo(f)
  <2>1. pc[f] = "prep" /\ Alive(f)
    BY <1>2 DEF PrepareToGo, Alive
  <2>2. ~SpeedOpen(owner[f]) /\ ~EndingDue(owner[f])
    BY <2>1, BusyAlone
  <2>3. UNCHANGED <<open, current_step, is_flashing, speed_refused, worker, refusing, installers,
                    dialogs, owner>>
    BY <1>2 DEF PrepareToGo
  <2>4. CASE UNCHANGED <<speed_answer, idle>> /\ \E to \in {"raised", "write"} :
                 pc' = [pc EXCEPT ![f] = to]
    <3>1. UNCHANGED <<open, current_step, flagVars, installers, dialogs, idle, owner>>
      BY <2>3, <2>4 DEF flagVars
    <3> QED BY <2>1, <2>2, <2>4, <3>1, MoveStep
  <2>5. CASE /\ pc' = [pc EXCEPT ![f] = "ask"]
             /\ speed_answer' = [speed_answer EXCEPT ![owner[f]] = <<>>]
             /\ IdleAdd("on_speedtest", owner[f], f)
    BY <2>1, <2>3, <2>5, AskStep
  <2> QED BY <1>2, <2>4, <2>5 DEF PrepareToGo
<1>3. CASE AskSpeed(f)
  <2>1. pc[f] = "ask" /\ Alive(f)
    BY <1>3 DEF AskSpeed, Alive
  <2>2. UNCHANGED <<open, current_step, flagVars, installers, dialogs, idle, owner>>
    BY <1>3 DEF AskSpeed
  <2>3. PICK to \in {"wait", "false"} : /\ pc' = [pc EXCEPT ![f] = to]
                                        /\ to = "false" => ~is_flashing[owner[f]]
    BY <1>3 DEF AskSpeed
  <2> QED BY <2>1, <2>2, <2>3, MoveStep
<1>4. CASE WaitAnswer(f)
  <2>1. pc[f] = "wait" /\ Alive(f)
    BY <1>4 DEF WaitAnswer, Alive
  <2>2. UNCHANGED <<open, current_step, is_flashing, speed_refused, worker, refusing, installers,
                    dialogs, idle, owner>>
    BY <1>4 DEF WaitAnswer
  <2>3. CASE speed_answer[owner[f]] # <<>>
    BY <1>4, <2>1, <2>2, <2>3, AnswerStep DEF WaitAnswer
  <2>4. CASE speed_answer[owner[f]] = <<>>
    <3>1. UNCHANGED <<open, current_step, flagVars, installers, dialogs, idle, owner>>
      BY <1>4, <2>2, <2>4 DEF WaitAnswer, flagVars
    <3>2. pc' = [pc EXCEPT ![f] = "ask"]
      BY <1>4, <2>4 DEF WaitAnswer
    <3> QED BY <2>1, <3>1, <3>2, MoveStep
  <2> QED BY <2>3, <2>4
<1>5. CASE WriterStops(f) \/ WriterEnds(f)
  <2>1. pc[f] = "write" /\ Alive(f)
    BY <1>5 DEF WriterStops, WriterEnds, Alive
  <2>2. ~SpeedOpen(owner[f]) /\ ~EndingDue(owner[f])
    BY <2>1, BusyAlone
  <2>3. UNCHANGED <<open, current_step, flagVars, installers, dialogs, idle, owner>>
    BY <1>5 DEF WriterStops, WriterEnds
  <2>4. PICK to \in {"false", "true", "raised"} : /\ pc' = [pc EXCEPT ![f] = to]
                                                  /\ to = "false" => ~is_flashing[owner[f]]
    BY <1>5 DEF WriterStops, WriterEnds
  <2> QED BY <2>1, <2>2, <2>3, <2>4, MoveStep
<1>6. CASE ReportFailure(f) \/ ReportSuccess(f)
  <2>1. pc[f] \in {"report", "true"} /\ Alive(f) /\ pc' = [pc EXCEPT ![f] = "over"]
    BY <1>6 DEF ReportFailure, ReportSuccess, Alive
  <2>2. UNCHANGED <<open, current_step, flagVars, installers, dialogs, owner>>
    BY <1>6 DEF ReportFailure, ReportSuccess
  <2>3. PICK fn \in FlashCallbacks \ {"on_speedtest"} :
             /\ IdleAdd(fn, owner[f], f)
             /\ fn # "on_flash_success" => ~is_flashing[owner[f]]
    BY <1>6 DEF ReportFailure, ReportSuccess, FlashCallbacks, WriterInv, FlagDown
  <2> QED BY <2>1, <2>2, <2>3, PostStep
<1>7. CASE ReportStopped(f)
  <2>1. pc[f] = "false" /\ Alive(f) /\ pc' = [pc EXCEPT ![f] = "over"] /\ ~is_flashing[owner[f]]
    BY <1>7 DEF ReportStopped, Alive, WriterInv, FlagDown
  <2>2. UNCHANGED <<open, current_step, flagVars, installers, dialogs, owner>>
    BY <1>7 DEF ReportStopped
  <2>3. CASE UNCHANGED idle
    BY <2>1, <2>2, <2>3, MoveStep
  <2>4. CASE IdleAdd("show_interrupted_error", owner[f], f)
    BY <2>1, <2>2, <2>4, PostStep DEF FlashCallbacks
  <2> QED BY <1>7, <2>3, <2>4 DEF ReportStopped
<1>8. CASE ThreadEnds(f)
  <2>1. pc[f] = "over" /\ Alive(f) /\ pc' = [pc EXCEPT ![f] = "dead"]
    BY <1>8 DEF ThreadEnds, Alive
  <2>2. UNCHANGED <<open, current_step, flagVars, installers, dialogs, idle, owner>>
    BY <1>8 DEF ThreadEnds
  <2> QED BY <2>1, <2>2, MoveStep
<1> QED
  BY <1>1, <1>2, <1>3, <1>4, <1>5, <1>6, <1>7, <1>8, LowerStep DEF WorkerStep

\* What stays open when the queue, and nothing else the invariant speaks of,
\* changes without a callback of a flash or an install being added.
LEMMA QueueStep ==
  ASSUME TypeOK, WriterInv,
         \A v \in Windows : \A c \in FlashCallbacks \cup JobCallbacks :
           HasCall(idle', v, c) => HasCall(idle, v, c),
         \A v \in Windows : OneCall(idle', v),
         UNCHANGED <<current_step, flagVars, installers, dialogs, threadVars>>
  PROVE  WriterInv'
<1>0. owner \in [Flashes -> Windows]
  BY DEF TypeOK
<1>1. UNCHANGED <<current_step, is_flashing, worker, speed_answer, refusing, installers, dialogs, pc, owner>>
  BY DEF flagVars, threadVars
<1>2. \A v \in Windows : ((EndingDue(v))' => EndingDue(v)) /\ ((SpeedOpen(v))' => SpeedOpen(v))
  BY <1>1 DEF EndingDue, SpeedOpen, FlashCallbacks
<1>3. \A f \in Flashes : (Alive(f))' = Alive(f)
  BY <1>1 DEF Alive
<1>4. OnlyFlashCalls' /\ LiveIsWorker' /\ FlagDown' /\ AnswerIsOwn'
  BY <1>0, <1>1, <1>2, <1>3 DEF WriterInv, OnlyFlashCalls, LiveIsWorker, FlagDown, AnswerIsOwn
<1>5. ConfirmationsFirst' /\ OneQuestion'
  BY <1>1 DEF WriterInv, ConfirmationsFirst, OneQuestion, FlashCallbacks
<1>6. AskedWaits' /\ EndingLetsGo'
  BY <1>0, <1>1, <1>2, <1>3 DEF WriterInv, AskedWaits, EndingLetsGo
<1> QED
  BY <1>4, <1>5, <1>6 DEF WriterInv

\* on_lang_changed only tells the user something or posts the swap.
LEMMA LangStep ==
  ASSUME TypeOK, WriterInv, NEW w \in Windows, OnLangChanged(w)
  PROVE  WriterInv'
<1>1. /\ UNCHANGED <<open, current_step, flagVars, installers, threadVars>>
      /\ dialogs[w] = <<>> /\ dialogs \in [Windows -> Seq(DialogKinds)]
  BY DEF OnLangChanged, AtPage, TypeOK, pageVars, jobVars
<1>2. CASE Push(w, "info") /\ UNCHANGED idle
  <2>1. /\ dialogs' = [dialogs EXCEPT ![w] = <<"info">> \o <<>>]
        /\ LastOnly(<<>>) /\ OneDialog(<<>>) /\ <<>> \in Seq(DialogKinds) /\ \A j : ~Has(<<>>, j)
        /\ "info" \in DialogKinds \ {"speed", "ending"} /\ "info" \notin Confirmations
    BY <1>1, <1>2 DEF Push, LastOnly, OneDialog, Has, DialogKinds, Confirmations
  <2> QED BY <1>1, <1>2, <2>1, ShowStep
<1>3. CASE IdleAdd("rebuild", w, NoWorker) /\ UNCHANGED dialogs
  <2>1. /\ \A v, c : HasCall(idle', v, c) => HasCall(idle, v, c) \/ c = "rebuild"
        /\ \A v : OneCall(idle, v) => OneCall(idle', v)
    BY <1>3, IdleAddFacts
  <2>2. \A v \in Windows : OneCall(idle, v)
    BY DEF WriterInv, OneQuestion
  <2>3. "rebuild" \notin FlashCallbacks \cup JobCallbacks
    BY DEF FlashCallbacks, JobCallbacks
  <2> QED BY <1>1, <1>3, <2>1, <2>2, <2>3, QueueStep
<1> QED BY <1>2, <1>3 DEF OnLangChanged

\* rebuild touches neither the flags nor the threads of the window it swaps.
LEMMA RebuildStep ==
  ASSUME TypeOK, WriterInv, NEW w \in Windows, NEW v \in Windows, Rebuild(w, v)
  PROVE  WriterInv'
<1>1. UNCHANGED <<current_step, flagVars, installers, dialogs, threadVars>>
  BY DEF Rebuild, jobVars
<1>2. /\ \A u \in Windows : OneCall(idle', u)
      /\ \A u \in Windows : \A c : HasCall(idle', u, c) => HasCall(idle, u, c)
  BY CalledFacts DEF Rebuild
<1> QED BY <1>1, <1>2, QueueStep

\* Every answer of the user.  No install can be accepted when their bound is 0.
LEMMA WriterUser ==
  ASSUME TypeOK, WriterInv, MaxInstalls = 0, NEW w \in Windows, UserStep(w)
  PROVE  WriterInv'
<1>0. dialogs[w] \in Seq(DialogKinds) /\ installs \in Nat /\ langs \in Nat
  BY DEF TypeOK
<1>1. LastOnly(dialogs[w]) /\ OneDialog(dialogs[w])
  BY DEF WriterInv, ConfirmationsFirst, OneQuestion
<1>2. LastOnly(<<>>) /\ OneDialog(<<>>) /\ <<>> \in Seq(DialogKinds) /\ \A j : ~Has(<<>>, j)
  BY DEF LastOnly, OneDialog, Has
<1>3. /\ {"warn1", "deps", "info", "capacity", "warn2"} \subseteq DialogKinds \ {"speed", "ending"}
      /\ {"capacity", "warn1"} \subseteq Confirmations
  BY DEF DialogKinds, Confirmations
<1>4. CASE GoNext(w) \/ GoBack(w)
  BY <1>4, PageStep
<1>5. CASE RequestStart(w)
  <2>1. /\ dialogs[w] = <<>> /\ current_step[w] # 3
        /\ UNCHANGED <<open, current_step, flagVars, installers, idle, threadVars>>
    BY <1>5 DEF RequestStart, AtPage, pageVars, jobVars
  <2>2. PICK kind \in NextQuestion \cup {"capacity"} : Push(w, kind)
    BY <1>5 DEF RequestStart
  <2>3. kind \in DialogKinds \ {"speed", "ending"}
    BY <1>3 DEF NextQuestion
  <2>4. dialogs' = [dialogs EXCEPT ![w] = <<kind>> \o <<>>]
    BY <2>1, <2>2 DEF Push, TypeOK
  <2> QED BY <1>2, <2>1, <2>3, <2>4, ShowStep
<1>6. CASE OnCapacityResponse(w)
  <2>1. /\ Answers(w, "capacity")
        /\ UNCHANGED <<open, current_step, flagVars, installers, idle, threadVars>>
    BY <1>6 DEF OnCapacityResponse, pageVars, jobVars
  <2>2. ASSUME NEW kind \in NextQuestion, Swap(w, kind) PROVE WriterInv'
    BY <1>3, <2>1, <2>2, SwapStep DEF NextQuestion
  <2> QED BY <1>6, <2>1, <2>2, PopStep DEF OnCapacityResponse
<1>7. CASE OnInstallDepsCancel(w) \/ OnWarn2Cancel(w) \/ DismissInfo(w)
  <2>1. /\ \E kind : Answers(w, kind)
        /\ Pop(w) /\ UNCHANGED <<open, current_step, flagVars, installers, idle, threadVars>>
    BY <1>7 DEF OnInstallDepsCancel, OnWarn2Cancel, DismissInfo, pageVars, jobVars
  <2> QED BY <2>1, PopStep
<1>8. CASE OnInstallDepsResponse(w)
  BY <1>0, <1>8 DEF OnInstallDepsResponse
<1>9. CASE OnWarn1Response(w)
  <2>1. /\ Answers(w, "warn1")
        /\ UNCHANGED <<open, current_step, flagVars, installers, idle, threadVars>>
    BY <1>9 DEF OnWarn1Response, pageVars, jobVars
  <2>2. CASE Swap(w, "warn2")
    BY <1>3, <2>1, <2>2, SwapStep
  <2> QED BY <1>9, <2>1, <2>2, PopStep DEF OnWarn1Response
<1>10. CASE \E f \in Flashes : OnWarn2Response(w, f)
  BY <1>10, StartStep
<1>11. CASE UserCloses(w) \/ UserIsDone(w)
  <2>1. PICK rest \in {dialogs[w], <<>>} : OnCloseRequest(w, rest) /\ CloseFrame
    BY <1>11 DEF UserCloses, UserIsDone
  <2> QED BY <1>0, <1>1, <1>2, <2>1, CloseStep
<1>12. CASE OnErrorClose(w)
  <2>1. dialogs[w] # <<>> /\ OnCloseRequest(w, Tail(dialogs[w])) /\ CloseFrame
    BY <1>12 DEF OnErrorClose, Answers
  <2>2. /\ Tail(dialogs[w]) \in Seq(DialogKinds)
        /\ LastOnly(Tail(dialogs[w])) /\ OneDialog(Tail(dialogs[w]))
        /\ \A j : Has(Tail(dialogs[w]), j) => Has(dialogs[w], j)
    BY <1>0, <1>1, <2>1, PopFacts
  <2> QED BY <2>1, <2>2, CloseStep
<1>13. CASE OnLangChanged(w)
  BY <1>13, LangStep
<1> QED
  BY <1>4, <1>5, <1>6, <1>7, <1>8, <1>9, <1>10, <1>11, <1>12, <1>13, RestartStep, InterruptStep,
     ContinueStep, RefuseLowersStep DEF UserStep

\* Every step of the event loop; only a flash has posted something.
LEMMA WriterLoop ==
  ASSUME TypeOK, WriterInv, LoopStep
  PROVE  WriterInv'
<1>1. ASSUME NEW w \in Windows, NEW fn \in JobCallbacks,
             Called(fn), Head(idle).win = w
      PROVE  FALSE
  BY <1>1, CalledFacts DEF WriterInv, OnlyFlashCalls
<1>2. ASSUME NEW w \in Windows, OnDepsInstalledSuccess(w) \/ ShowDepsError(w) PROVE WriterInv'
  BY <1>1, <1>2 DEF OnDepsInstalledSuccess, ShowDepsError, JobCallbacks
<1> QED
  BY <1>2, RebuildStep, SpeedtestStep, RefuseMarksStep, SuccessStep, ShowEndingStep, RefuseAnswersStep
  DEF LoopStep

\* At the start there is no thread, no dialog and no callback.
LEMMA WriterInit == Init => WriterInv
<1> SUFFICES ASSUME Init PROVE WriterInv
  OBVIOUS
<1>1. /\ \A w \in Windows : /\ dialogs[w] = <<>> /\ refusing[w] = "no" /\ installers[w] = 0
                            /\ current_step[w] = 0 /\ ~is_flashing[w]
      /\ idle = <<>> /\ \A f \in Flashes : pc[f] = "unborn"
  BY DEF Init
<1>2. /\ \A w, fn : ~HasCall(<<>>, w, fn)
      /\ \A kind : ~Has(<<>>, kind)
      /\ LastOnly(<<>>) /\ OneDialog(<<>>) /\ \A w : OneCall(<<>>, w)
  BY DEF HasCall, Has, LastOnly, OneDialog, OneCall
<1>3. \A f \in Flashes : ~Alive(f)
  BY <1>1 DEF Alive
<1>4. OnlyFlashCalls /\ LiveIsWorker /\ AskedWaits /\ EndingLetsGo
  BY <1>1, <1>2, <1>3 DEF OnlyFlashCalls, LiveIsWorker, AskedWaits, EndingLetsGo
<1>5. FlagDown /\ ConfirmationsFirst /\ OneQuestion /\ AnswerIsOwn
  <2>1. \A f \in Flashes : owner[f] \in Windows
    BY InitType DEF TypeOK
  <2> QED BY <1>1, <1>2, <2>1 DEF FlagDown, ConfirmationsFirst, OneQuestion, AnswerIsOwn
<1> QED
  BY <1>4, <1>5 DEF WriterInv

\* With no install under way, a live thread is the worker of its window, and
\* the flag, the speed question and the shown endings say truthfully how far
\* it has got.
THEOREM WriterSafe ==
  ASSUME MaxInstalls = 0
  PROVE  Spec => []WriterInv
<1>1. Init => WriterInv
  BY WriterInit
<1>2. TypeOK /\ WriterInv /\ [Next]_vars => WriterInv'
  <2> SUFFICES ASSUME TypeOK, WriterInv, [Next]_vars PROVE WriterInv'
    OBVIOUS
  <2>1. ASSUME NEW w \in Windows, UserStep(w) PROVE WriterInv'
    BY <2>1, WriterUser
  <2>2. ASSUME NEW w \in Windows, InstallDepsWorker(w) PROVE WriterInv'
    <3>1. installers[w] > 0 /\ installers[w] = 0
      BY <2>2 DEF InstallDepsWorker, WriterInv, OnlyFlashCalls
    <3> QED BY <3>1
  <2>3. ASSUME NEW w \in Windows, OnActivate(w) PROVE WriterInv'
    BY <2>3, ActivateStep
  <2>4. CASE LoopStep
    BY <2>4, WriterLoop
  <2>5. ASSUME NEW f \in Flashes, WorkerStep(f) PROVE WriterInv'
    BY <2>5, WriterThread
  <2>6. CASE UNCHANGED vars
    <3>1. /\ UNCHANGED <<open, current_step, is_flashing, worker, speed_answer, refusing>>
          /\ UNCHANGED <<installers, dialogs, idle, pc, owner>>
      BY <2>6 DEF vars, pageVars, flagVars, jobVars, threadVars
    <3>2. \A w \in Windows : ((EndingDue(w))' <=> EndingDue(w)) /\ ((SpeedOpen(w))' <=> SpeedOpen(w))
      BY <3>1 DEF EndingDue, SpeedOpen
    <3>3. \A f \in Flashes : (Alive(f))' <=> Alive(f)
      BY <3>1 DEF Alive
    <3>4. OnlyFlashCalls' /\ LiveIsWorker' /\ FlagDown' /\ AnswerIsOwn'
      BY <3>1, <3>2, <3>3 DEF WriterInv, OnlyFlashCalls, LiveIsWorker, FlagDown, AnswerIsOwn
    <3>5. ConfirmationsFirst' /\ OneQuestion'
      BY <3>1 DEF WriterInv, ConfirmationsFirst, OneQuestion
    <3>6. AskedWaits' /\ EndingLetsGo'
      <4>1. owner \in [Flashes -> Windows]
        BY DEF TypeOK
      <4> QED BY <3>1, <3>2, <3>3, <4>1 DEF WriterInv, AskedWaits, EndingLetsGo
    <3> QED BY <3>4, <3>5, <3>6 DEF WriterInv
  <2> QED
    BY <2>1, <2>2, <2>3, <2>4, <2>5, <2>6 DEF Next, Terminated
<1> QED
  BY <1>1, <1>2, TypeCorrect, PTL DEF Spec

\* on_close_request lets a window go only when its worker has ended.
LEMMA ClosedHasNoThread ==
  ASSUME WriterInv, NEW w \in Windows, ~HasLiveWorker(w)
  PROVE  \A f \in Flashes : Alive(f) => owner[f] # w
BY DEF HasLiveWorker, WriterInv, LiveIsWorker, Flashes, NoWorker

\* A step of the user or of the event loop that makes a window go away, by
\* on_close_request or by rebuild.
LEMMA WindowGoes ==
  ASSUME TypeOK, [Next]_vars, NEW w \in Windows, open[w] = "open", open'[w] # "open"
  PROVE  /\ UNCHANGED <<pc, owner>>
         /\ \/ ~HasLiveWorker(w)
            \/ /\ Called("rebuild") /\ Head(idle).win = w
               /\ \E v \in Windows : open[v] = "unborn" /\ open'[v] = "open"
<1>0. open \in [Windows -> {"unborn", "open", "gone"}]
  BY DEF TypeOK
<1> DEFINE Goal == /\ UNCHANGED <<pc, owner>>
                   /\ \/ ~HasLiveWorker(w)
                      \/ /\ Called("rebuild") /\ Head(idle).win = w
                         /\ \E v \in Windows : open[v] = "unborn" /\ open'[v] = "open"
<1> SUFFICES ASSUME ~Goal PROVE UNCHANGED open
  OBVIOUS
<1> USE DEF pageVars
<1>1. ASSUME NEW u \in Windows, UserStep(u) PROVE UNCHANGED open
  <2>1. ASSUME NEW rest, OnCloseRequest(u, rest), CloseFrame PROVE UNCHANGED open
    BY <1>0, <2>1 DEF OnCloseRequest, CloseFrame, threadVars
  <2>2. CASE UserCloses(u) \/ UserIsDone(u) \/ OnErrorClose(u)
    BY <2>1, <2>2 DEF UserCloses, UserIsDone, OnErrorClose
  <2>3. CASE GoNext(u) \/ GoBack(u) \/ RequestStart(u) \/ OnCapacityResponse(u)
             \/ OnInstallDepsCancel(u) \/ OnInstallDepsResponse(u)
    BY <2>3 DEF GoNext, GoBack, Turn, RequestStart, OnCapacityResponse, OnInstallDepsCancel,
                OnInstallDepsResponse
  <2>4. CASE OnWarn1Response(u) \/ OnWarn2Cancel(u) \/ \E f \in Flashes : OnWarn2Response(u, f)
    BY <2>4 DEF OnWarn1Response, OnWarn2Cancel, OnWarn2Response
  <2>5. CASE OnErrorRestart(u) \/ OnInterruptResponse(u) \/ DismissInfo(u) \/ OnLangChanged(u)
             \/ OnSpeedtestContinue(u) \/ RefuseLowersFlag(u)
    BY <2>5 DEF OnErrorRestart, OnInterruptResponse, DismissInfo, OnLangChanged,
                OnSpeedtestContinue, RefuseLowersFlag
  <2> QED BY <1>1, <2>2, <2>3, <2>4, <2>5 DEF UserStep
<1>2. ASSUME NEW u \in Windows, InstallDepsWorker(u) PROVE UNCHANGED open
  BY <1>2 DEF InstallDepsWorker
<1>3. ASSUME NEW u \in Windows, OnActivate(u) PROVE FALSE
  <2>1. open' = [open EXCEPT ![u] = "open"]
    BY <1>3 DEF OnActivate
  <2> QED BY <1>0, <2>1
<1>4. ASSUME NEW u \in Windows, NEW v \in Windows, Rebuild(u, v) PROVE FALSE
  <2>1. /\ open' = [open EXCEPT ![u] = "gone", ![v] = "open"] /\ open[v] = "unborn"
        /\ Called("rebuild") /\ Head(idle).win = u /\ UNCHANGED <<pc, owner>>
    BY <1>4 DEF Rebuild, Unborn, threadVars
  <2>2. w = u /\ open'[v] = "open"
    BY <1>0, <2>1
  <2> QED BY <2>1, <2>2
<1>5. CASE LoopStep
  <2>1. ASSUME NEW u \in Windows,
               OnDepsInstalledSuccess(u) \/ ShowDepsError(u) \/ OnSpeedtest(u) \/ RefuseMarks(u)
        PROVE  UNCHANGED open
    BY <2>1 DEF OnDepsInstalledSuccess, ShowDepsError, OnSpeedtest, RefuseMarks
  <2>2. ASSUME NEW u \in Windows, NEW f \in Flashes,
               OnFlashSuccess(u, f) \/ ShowFlashFailed(u, f) \/ ShowInterruptedError(u, f)
               \/ RefuseAnswers(u, f)
        PROVE  UNCHANGED open
    BY <2>2 DEF OnFlashSuccess, ShowFlashFailed, ShowInterruptedError, RefuseAnswers
  <2> QED BY <1>4, <1>5, <2>1, <2>2 DEF LoopStep
<1>6. ASSUME NEW f \in Flashes, WorkerStep(f) PROVE UNCHANGED open
  BY <1>6 DEF WorkerStep, ThreadFrame, CheckDrive, PrepareToGo, AskSpeed, WaitAnswer, WriterStops,
              WriterEnds, LowerFlag, ReportFailure, ReportSuccess, ReportStopped, ThreadEnds
<1>7. CASE UNCHANGED vars
  BY <1>7 DEF vars
<1> QED BY <1>1, <1>2, <1>3, <1>5, <1>6, <1>7 DEF Next, Terminated

\* A window that closes has no thread left, whatever ran in it, was queued for
\* it or was shown over it.
THEOREM ClosedHasEnded ==
  ASSUME MaxInstalls = 0
  PROVE  Spec => ClosedIsDone
<1>1. TypeOK /\ WriterInv /\ [Next]_vars =>
        \A w \in Windows :
          /\ open[w] = "open" /\ open'[w] = "gone"
          /\ \A v \in Windows : open'[v] = "open" => open[v] = "open"
          => \A f \in Flashes : Alive(f) => owner[f] # w
  BY WindowGoes, ClosedHasNoThread
<1> QED
  BY <1>1, WriterSafe, TypeCorrect, PTL DEF Spec, ClosedIsDone

\* The queue of the event loop gains one callback at its end or loses its
\* first; a swap of the window is posted by on_lang_changed alone.
LEMMA QueueChange ==
  ASSUME TypeOK, [Next]_vars
  PROVE  \/ UNCHANGED idle
         \/ idle # <<>> /\ idle' = Tail(idle)
         \/ \E fn \in FlashCallbacks \cup JobCallbacks \cup {"rebuild"}, w \in Windows,
               f \in Flashes \cup {NoWorker} :
              IdleAdd(fn, w, f) /\ (fn = "rebuild" => langs < MaxLangs)
<1> DEFINE Added == \E fn \in FlashCallbacks \cup JobCallbacks \cup {"rebuild"}, w \in Windows,
                     f \in Flashes \cup {NoWorker} :
                      IdleAdd(fn, w, f) /\ (fn = "rebuild" => langs < MaxLangs)
           Taken == idle # <<>> /\ idle' = Tail(idle)
<1>1. ASSUME NEW w \in Windows, UserStep(w) PROVE UNCHANGED idle \/ Added
  <2>1. CASE OnLangChanged(w)
    BY <2>1 DEF OnLangChanged
  <2>2. CASE UserCloses(w) \/ UserIsDone(w) \/ OnErrorClose(w)
    BY <2>2 DEF UserCloses, UserIsDone, OnErrorClose, CloseFrame
  <2>3. CASE GoNext(w) \/ GoBack(w) \/ RequestStart(w) \/ OnCapacityResponse(w)
             \/ OnInstallDepsCancel(w) \/ OnInstallDepsResponse(w)
    BY <2>3 DEF GoNext, GoBack, Turn, RequestStart, OnCapacityResponse, OnInstallDepsCancel,
                OnInstallDepsResponse
  <2>4. CASE OnWarn1Response(w) \/ OnWarn2Cancel(w) \/ \E f \in Flashes : OnWarn2Response(w, f)
    BY <2>4 DEF OnWarn1Response, OnWarn2Cancel, OnWarn2Response
  <2>5. CASE OnErrorRestart(w) \/ OnInterruptResponse(w) \/ DismissInfo(w)
             \/ OnSpeedtestContinue(w) \/ RefuseLowersFlag(w)
    BY <2>5 DEF OnErrorRestart, OnInterruptResponse, DismissInfo, OnSpeedtestContinue,
                RefuseLowersFlag
  <2> QED BY <1>1, <2>1, <2>2, <2>3, <2>4, <2>5 DEF UserStep
<1>2. ASSUME NEW w \in Windows, InstallDepsWorker(w) PROVE Added
  BY <1>2 DEF InstallDepsWorker, JobCallbacks
<1>3. ASSUME NEW w \in Windows, OnActivate(w) PROVE UNCHANGED idle
  BY <1>3 DEF OnActivate
<1>4. CASE LoopStep
  <2>1. ASSUME NEW w \in Windows, NEW v \in Windows,
               \/ OnDepsInstalledSuccess(w) \/ ShowDepsError(w) \/ OnSpeedtest(w) \/ Rebuild(w, v)
        PROVE  Taken
    BY <2>1 DEF OnDepsInstalledSuccess, ShowDepsError, OnSpeedtest, Rebuild, Called
  <2>2. ASSUME NEW w \in Windows, NEW f \in Flashes,
               OnFlashSuccess(w, f) \/ ShowFlashFailed(w, f) \/ ShowInterruptedError(w, f)
        PROVE  Taken
    BY <2>2 DEF OnFlashSuccess, ShowFlashFailed, ShowInterruptedError, Called
  <2>3. ASSUME NEW w \in Windows, NEW f \in Flashes, RefuseMarks(w) \/ RefuseAnswers(w, f)
        PROVE  UNCHANGED idle
    BY <2>3 DEF RefuseMarks, RefuseAnswers
  <2> QED BY <1>4, <2>1, <2>2, <2>3, BoundsAssumption DEF LoopStep, Flashes
<1>5. ASSUME NEW f \in Flashes, WorkerStep(f) PROVE UNCHANGED idle \/ Added
  <2>1. CASE CheckDrive(f) \/ AskSpeed(f) \/ WaitAnswer(f) \/ WriterStops(f) \/ WriterEnds(f)
             \/ LowerFlag(f) \/ ThreadEnds(f)
    BY <2>1 DEF CheckDrive, AskSpeed, WaitAnswer, WriterStops, WriterEnds, LowerFlag, ThreadEnds
  <2>2. CASE PrepareToGo(f) \/ ReportFailure(f) \/ ReportSuccess(f) \/ ReportStopped(f)
    <3>1. owner[f] \in Windows
      BY DEF TypeOK
    <3> QED
      BY <2>2, <3>1 DEF PrepareToGo, ReportFailure, ReportSuccess, ReportStopped, FlashCallbacks
  <2> QED BY <1>5, <2>1, <2>2 DEF WorkerStep
<1>6. CASE UNCHANGED vars
  BY <1>6 DEF vars
<1> QED BY <1>1, <1>2, <1>3, <1>4, <1>5, <1>6 DEF Next, Terminated

\* Which steps touch the threads: a start, and the thread's own.
LEMMA StepKinds ==
  ASSUME [Next]_vars
  PROVE  \/ UNCHANGED <<pc, owner, worker>>
         \/ \E w \in Windows, f \in Flashes : OnWarn2Response(w, f)
         \/ \E f \in Flashes : WorkerStep(f)
<1> DEFINE Quiet == UNCHANGED <<pc, owner, worker>>
<1>1. ASSUME NEW w \in Windows, UserStep(w)
      PROVE  Quiet \/ \E f \in Flashes : OnWarn2Response(w, f)
  <2>1. CASE UserCloses(w) \/ UserIsDone(w) \/ OnErrorClose(w)
    BY <2>1 DEF UserCloses, UserIsDone, OnErrorClose, CloseFrame, threadVars, flagVars
  <2>2. CASE GoNext(w) \/ GoBack(w) \/ RequestStart(w) \/ OnCapacityResponse(w)
             \/ OnInstallDepsCancel(w) \/ OnInstallDepsResponse(w)
    BY <2>2 DEF GoNext, GoBack, Turn, RequestStart, OnCapacityResponse, OnInstallDepsCancel,
                OnInstallDepsResponse, threadVars, flagVars
  <2>3. CASE OnWarn1Response(w) \/ OnWarn2Cancel(w) \/ OnErrorRestart(w) \/ OnInterruptResponse(w)
    BY <2>3 DEF OnWarn1Response, OnWarn2Cancel, OnErrorRestart, OnInterruptResponse, threadVars,
                flagVars
  <2>4. CASE DismissInfo(w) \/ OnLangChanged(w) \/ OnSpeedtestContinue(w) \/ RefuseLowersFlag(w)
    BY <2>4 DEF DismissInfo, OnLangChanged, OnSpeedtestContinue, RefuseLowersFlag, threadVars,
                flagVars
  <2> QED BY <1>1, <2>1, <2>2, <2>3, <2>4 DEF UserStep
<1>2. ASSUME NEW w \in Windows, InstallDepsWorker(w) \/ OnActivate(w) PROVE Quiet
  BY <1>2 DEF InstallDepsWorker, OnActivate, threadVars, flagVars
<1>3. CASE LoopStep
  <2>1. ASSUME NEW w \in Windows, NEW v \in Windows,
               \/ OnDepsInstalledSuccess(w) \/ ShowDepsError(w) \/ OnSpeedtest(w)
               \/ RefuseMarks(w) \/ Rebuild(w, v)
        PROVE  Quiet
    BY <2>1 DEF OnDepsInstalledSuccess, ShowDepsError, OnSpeedtest, RefuseMarks, Rebuild,
                threadVars, flagVars
  <2>2. ASSUME NEW w \in Windows, NEW g \in Flashes,
               \/ OnFlashSuccess(w, g) \/ ShowFlashFailed(w, g) \/ ShowInterruptedError(w, g)
               \/ RefuseAnswers(w, g)
        PROVE  Quiet
    BY <2>2 DEF OnFlashSuccess, ShowFlashFailed, ShowInterruptedError, RefuseAnswers, threadVars,
                flagVars
  <2> QED BY <1>3, <2>1, <2>2 DEF LoopStep
<1>4. CASE UNCHANGED vars
  BY <1>4 DEF vars, threadVars, flagVars
<1> QED BY <1>1, <1>2, <1>3, <1>4 DEF Next, Terminated

\* What a thread's own step leaves to the others.
LEMMA ThreadFrameHolds ==
  ASSUME TypeOK, NEW f \in Flashes, WorkerStep(f)
  PROVE  /\ UNCHANGED <<pageVars, jobVars, dialogs, owner, worker, speed_refused, refusing, endings>>
         /\ Alive(f) /\ pc'[f] # "unborn"
         /\ \A g \in Flashes \ {f} : pc'[g] = pc[g]
<1>1. UNCHANGED <<pageVars, jobVars, dialogs, owner, worker, speed_refused, refusing, endings>>
  BY DEF WorkerStep, ThreadFrame, flagVars, CheckDrive, PrepareToGo, AskSpeed, WaitAnswer,
         WriterStops, WriterEnds, LowerFlag, ReportFailure, ReportSuccess, ReportStopped, ThreadEnds
<1>2. \E from, to \in Labels \ {"unborn"} : Goes(f, from, to) /\ from # "dead"
  BY DEF WorkerStep, Labels, CheckDrive, PrepareToGo, AskSpeed, WaitAnswer,
         WriterStops, WriterEnds, LowerFlag, ReportFailure, ReportSuccess, ReportStopped, ThreadEnds
<1>3. Alive(f) /\ pc'[f] # "unborn" /\ \A g \in Flashes \ {f} : pc'[g] = pc[g]
  BY <1>2 DEF Goes, Alive, TypeOK
<1> QED BY <1>1, <1>3

\* A thread that is live after a step was live before, in the same window, or
\* was started by it.
LEMMA ThreadChange ==
  ASSUME TypeOK, [Next]_vars, NEW f \in Flashes, (Alive(f))'
  PROVE  \/ Alive(f) /\ owner'[f] = owner[f]
         \/ \E w \in Windows : OnWarn2Response(w, f)
<1>1. CASE UNCHANGED <<pc, owner, worker>>
  BY <1>1 DEF Alive
<1>2. ASSUME NEW w \in Windows, NEW g \in Flashes, OnWarn2Response(w, g), g # f
      PROVE  Alive(f) /\ owner'[f] = owner[f]
  BY <1>2 DEF OnWarn2Response, Alive, TypeOK
<1>3. ASSUME NEW g \in Flashes, WorkerStep(g)
      PROVE  Alive(f) /\ owner'[f] = owner[f]
  BY <1>3, ThreadFrameHolds DEF Alive
<1> QED BY <1>1, <1>2, <1>3, StepKinds

\* The window of a live thread stays open: no language change destroys it.
THEOREM WindowSafe ==
  ASSUME MaxInstalls = 0, MaxLangs = 0
  PROVE  Spec => []WindowStays
<1>1. Init => WindowStays
  BY DEF Init, WindowStays, NoRebuild, LiveIsOpen, HasCall, Alive
<1>2. TypeOK /\ WriterInv /\ WindowStays /\ [Next]_vars => WindowStays'
  <2> SUFFICES ASSUME TypeOK, WriterInv, WindowStays, [Next]_vars PROVE WindowStays'
    OBVIOUS
  <2>1. NoRebuild'
    <3>1. langs \in Nat
      BY DEF TypeOK
    <3>2. CASE idle # <<>> /\ idle' = Tail(idle)
      BY <3>2, RunFacts DEF TypeOK, WindowStays, NoRebuild
    <3>3. ASSUME NEW fn \in FlashCallbacks \cup JobCallbacks, NEW w \in Windows,
                 NEW f \in Flashes \cup {NoWorker}, IdleAdd(fn, w, f)
          PROVE  NoRebuild'
      BY <3>3, IdleAddFacts DEF WindowStays, NoRebuild, FlashCallbacks, JobCallbacks
    <3>4. CASE UNCHANGED idle
      BY <3>4 DEF WindowStays, NoRebuild
    <3> QED BY <3>1, <3>2, <3>3, <3>4, QueueChange
  <2>2. LiveIsOpen'
    <3> SUFFICES ASSUME NEW f \in Flashes, (Alive(f))' PROVE open'[owner'[f]] = "open"
      BY DEF LiveIsOpen
    <3>1. ASSUME NEW w \in Windows, OnWarn2Response(w, f) PROVE open'[owner'[f]] = "open"
      BY <3>1 DEF OnWarn2Response, Answers, TypeOK
    <3>2. CASE Alive(f) /\ owner'[f] = owner[f]
      <4>1. owner[f] \in Windows /\ open[owner[f]] = "open" /\ worker[owner[f]] = f /\ f # NoWorker
        <5>1. owner[f] \in Windows
          BY DEF TypeOK
        <5>2. f # NoWorker
          BY BoundsAssumption DEF Flashes, NoWorker
        <5> QED BY <3>2, <5>1, <5>2 DEF WindowStays, LiveIsOpen, WriterInv, LiveIsWorker
      <4>2. HasLiveWorker(owner[f])
        BY <3>2, <4>1 DEF HasLiveWorker
      <4>3. ~(Called("rebuild") /\ Head(idle).win = owner[f])
        BY <4>1, CalledFacts DEF WindowStays, NoRebuild
      <4> QED BY <3>2, <4>1, <4>2, <4>3, WindowGoes
    <3> QED BY <3>1, <3>2, ThreadChange
  <2> QED BY <2>1, <2>2 DEF WindowStays
<1> QED
  BY <1>1, <1>2, WriterSafe, TypeCorrect, PTL DEF Spec

\* The process never ends while the thread of a flash runs.
THEOREM WriterNotOrphaned ==
  ASSUME MaxInstalls = 0, MaxLangs = 0
  PROVE  Spec => []NoOrphanWriter
<1>1. TypeOK /\ WindowStays => NoOrphanWriter
  BY DEF TypeOK, WindowStays, LiveIsOpen, NoOrphanWriter, Exited
<1> QED
  BY <1>1, WindowSafe, TypeCorrect, PTL

\* A window has at most one thread that holds the drive.
THEOREM WriterAlone ==
  ASSUME MaxInstalls = 0
  PROVE  Spec => []OneWriter
<1>1. WriterInv => OneWriter
  BY DEF WriterInv, LiveIsWorker, OneWriter, Busy, Alive
<1> QED
  BY <1>1, WriterSafe, PTL

\* The wizard's pages are reached again only when the drive was let go.
THEOREM WriterLeavesPage ==
  ASSUME MaxInstalls = 0
  PROVE  Spec => []WizardMeansIdle
<1>1. WriterInv => WizardMeansIdle
  BY DEF WriterInv, EndingLetsGo, EndingDue, WizardMeansIdle, Busy, Alive
<1> QED
  BY <1>1, WriterSafe, PTL

-----------------------------------------------------------------------------
(* The flash page always has a way out, and a success is final: what a step *)
(* can do to the threads, the queue, the answers and the history            *)

\* The dialogs of a window that a push or an answer leaves there.
LEMMA DialogsKept ==
  ASSUME NEW s \in Seq(DialogKinds), NEW k \in DialogKinds
  PROVE  /\ Has(<<k>> \o s, k)
         /\ \A j : Has(s, j) => Has(<<k>> \o s, j)
         /\ s # <<>> => \A j : Has(s, j) => Has(Tail(s), j) \/ j = Head(s)
<1>1. /\ Len(<<k>> \o s) = Len(s) + 1 /\ Len(s) \in Nat
      /\ (<<k>> \o s)[1] = k
      /\ \A i \in 1 .. Len(s) : (<<k>> \o s)[i + 1] = s[i] /\ i + 1 \in 1 .. Len(<<k>> \o s)
  BY StackPush
<1>2. Has(<<k>> \o s, k) /\ \A j : Has(s, j) => Has(<<k>> \o s, j)
  <2>1. 1 \in 1 .. Len(<<k>> \o s)
    BY <1>1
  <2>2. Has(<<k>> \o s, k)
    BY <1>1, <2>1 DEF Has
  <2>3. ASSUME NEW j, Has(s, j) PROVE Has(<<k>> \o s, j)
    BY <1>1, <2>3 DEF Has
  <2> QED BY <2>2, <2>3
<1>3. ASSUME s # <<>>, NEW j, Has(s, j) PROVE Has(Tail(s), j) \/ j = Head(s)
  <2>1. /\ Len(s) \in Nat \ {0} /\ Len(Tail(s)) = Len(s) - 1 /\ Head(s) = s[1]
        /\ \A i \in 1 .. Len(Tail(s)) : Tail(s)[i] = s[i + 1]
    BY <1>3, StackPop
  <2>2. PICK i \in 1 .. Len(s) : s[i] = j
    BY <1>3 DEF Has
  <2>3. CASE i = 1
    BY <2>1, <2>2, <2>3
  <2>4. CASE i # 1
    <3>1. i - 1 \in 1 .. Len(Tail(s)) /\ (i - 1) + 1 = i
      BY <2>1, <2>2, <2>4
    <3> QED BY <2>1, <2>2, <3>1 DEF Has
  <2> QED BY <2>3, <2>4
<1> QED BY <1>2, <1>3

\* The calls that a posted or a run callback leaves in the queue, by window
\* and by flash.
LEMMA CallsPosted ==
  ASSUME NEW q \in Seq(Callbacks), NEW c \in Callbacks
  PROVE  /\ HasCall(Append(q, c), c.win, c.fn)
         /\ \A w, fn : HasCall(q, w, fn) => HasCall(Append(q, c), w, fn)
         /\ \A f, fn : CallOf(Append(q, c), f, fn) => CallOf(q, f, fn) \/ (c.flash = f /\ c.fn = fn)
<1>1. /\ Len(Append(q, c)) = Len(q) + 1 /\ Len(q) \in Nat /\ Append(q, c)[Len(q) + 1] = c
      /\ \A i \in 1 .. Len(q) : Append(q, c)[i] = q[i]
  BY QueueAdd
<1>2. /\ Len(q) + 1 \in 1 .. Len(Append(q, c))
      /\ \A i \in 1 .. Len(q) : i \in 1 .. Len(Append(q, c))
      /\ \A i \in 1 .. Len(Append(q, c)) : i \in 1 .. Len(q) \/ i = Len(q) + 1
  BY <1>1
<1>3. HasCall(Append(q, c), c.win, c.fn)
  BY <1>1, <1>2 DEF HasCall
<1>4. ASSUME NEW w, NEW fn, HasCall(q, w, fn) PROVE HasCall(Append(q, c), w, fn)
  BY <1>1, <1>2, <1>4 DEF HasCall
<1>5. ASSUME NEW f, NEW fn, CallOf(Append(q, c), f, fn)
      PROVE  CallOf(q, f, fn) \/ (c.flash = f /\ c.fn = fn)
  BY <1>1, <1>2, <1>5 DEF CallOf
<1> QED BY <1>3, <1>4, <1>5

LEMMA CallsRun ==
  ASSUME NEW q \in Seq(Callbacks), q # <<>>
  PROVE  /\ CallOf(q, Head(q).flash, Head(q).fn)
         /\ \A w, fn : HasCall(q, w, fn) =>
              HasCall(Tail(q), w, fn) \/ (Head(q).win = w /\ Head(q).fn = fn)
         /\ \A f, fn : CallOf(Tail(q), f, fn) => CallOf(q, f, fn)
<1>1. /\ Len(q) \in Nat \ {0} /\ Len(Tail(q)) = Len(q) - 1 /\ Head(q) = q[1]
      /\ \A i \in 1 .. Len(Tail(q)) : Tail(q)[i] = q[i + 1] /\ i + 1 \in 1 .. Len(q)
  BY StackPop
<1>2. CallOf(q, Head(q).flash, Head(q).fn)
  BY <1>1 DEF CallOf
<1>3. ASSUME NEW w, NEW fn, HasCall(q, w, fn)
      PROVE  HasCall(Tail(q), w, fn) \/ (Head(q).win = w /\ Head(q).fn = fn)
  <2>1. PICK i \in 1 .. Len(q) : q[i].win = w /\ q[i].fn = fn
    BY <1>3 DEF HasCall
  <2>2. CASE i = 1
    BY <1>1, <2>1, <2>2
  <2>3. CASE i # 1
    <3>1. i - 1 \in 1 .. Len(Tail(q)) /\ (i - 1) + 1 = i
      BY <1>1, <2>1, <2>3
    <3> QED BY <1>1, <2>1, <3>1 DEF HasCall
  <2> QED BY <2>2, <2>3
<1>4. ASSUME NEW f, NEW fn, CallOf(Tail(q), f, fn) PROVE CallOf(q, f, fn)
  BY <1>1, <1>4 DEF CallOf
<1> QED BY <1>2, <1>3, <1>4

\* The speed question and the ending in the dialogs of w after a step.
LEMMA PushKeeps ==
  ASSUME TypeOK, NEW w \in Windows, NEW k \in DialogKinds, Push(w, k)
  PROVE  /\ \A v \in Windows \ {w} : dialogs'[v] = dialogs[v]
         /\ Has(dialogs'[w], k)
         /\ \A j : Has(dialogs[w], j) => Has(dialogs'[w], j)
         /\ \A j : Has(dialogs'[w], j) => j = k \/ Has(dialogs[w], j)
<1>1. /\ dialogs \in [Windows -> Seq(DialogKinds)] /\ dialogs[w] \in Seq(DialogKinds)
      /\ dialogs' = [dialogs EXCEPT ![w] = <<k>> \o dialogs[w]]
  BY DEF TypeOK, Push
<1>2. dialogs'[w] = <<k>> \o dialogs[w] /\ \A v \in Windows \ {w} : dialogs'[v] = dialogs[v]
  BY <1>1
<1> QED BY <1>1, <1>2, PushFacts, DialogsKept

LEMMA PopKeeps ==
  ASSUME TypeOK, NEW w \in Windows, NEW k, Answers(w, k), Pop(w)
  PROVE  /\ \A v \in Windows \ {w} : dialogs'[v] = dialogs[v]
         /\ \A j : Has(dialogs[w], j) => j = k \/ Has(dialogs'[w], j)
         /\ \A j : Has(dialogs'[w], j) => Has(dialogs[w], j)
<1>1. /\ dialogs \in [Windows -> Seq(DialogKinds)] /\ dialogs[w] \in Seq(DialogKinds)
      /\ dialogs[w] # <<>> /\ Head(dialogs[w]) = k
      /\ dialogs' = [dialogs EXCEPT ![w] = Tail(dialogs[w])]
  BY DEF TypeOK, Pop, Answers
<1>2. dialogs'[w] = Tail(dialogs[w]) /\ \A v \in Windows \ {w} : dialogs'[v] = dialogs[v]
  BY <1>1
<1>3. Head(dialogs[w]) \in DialogKinds
  BY <1>1, StackPop
<1> QED BY <1>1, <1>2, <1>3, PopFacts, DialogsKept

LEMMA SwapKeeps ==
  ASSUME TypeOK, NEW w \in Windows, NEW k, Answers(w, k), NEW l \in DialogKinds, Swap(w, l)
  PROVE  /\ \A v \in Windows \ {w} : dialogs'[v] = dialogs[v]
         /\ \A j : Has(dialogs[w], j) => j = k \/ Has(dialogs'[w], j)
         /\ \A j : Has(dialogs'[w], j) => j = l \/ Has(dialogs[w], j)
<1>1. /\ dialogs \in [Windows -> Seq(DialogKinds)] /\ dialogs[w] \in Seq(DialogKinds)
      /\ dialogs[w] # <<>> /\ Head(dialogs[w]) = k
      /\ dialogs' = [dialogs EXCEPT ![w] = <<l>> \o Tail(dialogs[w])]
  BY DEF TypeOK, Swap, Answers
<1>2. dialogs'[w] = <<l>> \o Tail(dialogs[w]) /\ \A v \in Windows \ {w} : dialogs'[v] = dialogs[v]
  BY <1>1
<1>3. Head(dialogs[w]) \in DialogKinds /\ Tail(dialogs[w]) \in Seq(DialogKinds)
  BY <1>1, StackPop
<1>4. \A j : Has(dialogs[w], j) => j = k \/ Has(dialogs'[w], j)
  BY <1>1, <1>2, <1>3, DialogsKept
<1>5. \A j : Has(dialogs'[w], j) => j = l \/ Has(dialogs[w], j)
  BY <1>1, <1>2, <1>3, PushFacts, PopFacts
<1> QED BY <1>2, <1>4, <1>5

\* No answer of the user asks the speed question, and only the answers to an
\* ending take one away.
LEMMA UserDialogs ==
  ASSUME TypeOK, NEW w \in Windows, UserStep(w)
  PROVE  /\ \A v \in Windows \ {w} : dialogs'[v] = dialogs[v]
         /\ Has(dialogs'[w], "speed") => Has(dialogs[w], "speed")
         /\ Has(dialogs[w], "ending") =>
              Has(dialogs'[w], "ending") \/ OnErrorClose(w) \/ OnErrorRestart(w)
<1> DEFINE Goal == /\ \A v \in Windows \ {w} : dialogs'[v] = dialogs[v]
                   /\ Has(dialogs'[w], "speed") => Has(dialogs[w], "speed")
                   /\ Has(dialogs[w], "ending") =>
                        Has(dialogs'[w], "ending") \/ OnErrorClose(w) \/ OnErrorRestart(w)
<1>1. ASSUME NEW k \in DialogKinds \ {"speed"}, Push(w, k) PROVE Goal
  BY <1>1, PushKeeps
<1>2. ASSUME NEW k, Answers(w, k), Pop(w), k # "ending" \/ OnErrorRestart(w) PROVE Goal
  BY <1>2, PopKeeps
<1>3. ASSUME NEW k, Answers(w, k), k # "ending", NEW l \in DialogKinds \ {"speed"}, Swap(w, l) PROVE Goal
  BY <1>3, SwapKeeps
<1>4. {"warn1", "deps", "info", "capacity", "warn2"} \subseteq DialogKinds \ {"speed"}
  BY DEF DialogKinds, Confirmations
<1>5. ASSUME NEW rest \in Seq(DialogKinds), OnCloseRequest(w, rest),
             Has(rest, "speed") => Has(dialogs[w], "speed"),
             Has(dialogs[w], "ending") => Has(rest, "ending") \/ OnErrorClose(w)
      PROVE  Goal
  <2>1. /\ dialogs \in [Windows -> Seq(DialogKinds)] /\ {"interrupt", "info"} \subseteq DialogKinds
        /\ \E d \in {<<"interrupt">> \o rest, <<"info">> \o rest, rest} :
             dialogs' = [dialogs EXCEPT ![w] = d]
    BY <1>5 DEF OnCloseRequest, TypeOK, DialogKinds
  <2>2. ASSUME NEW k \in {"interrupt", "info"}
        PROVE  /\ Has(<<k>> \o rest, "speed") => Has(rest, "speed")
               /\ Has(rest, "ending") => Has(<<k>> \o rest, "ending")
    <3>1. k \in DialogKinds /\ k # "speed"
      BY <2>1
    <3> QED BY <3>1, PushFacts, DialogsKept
  <2> QED BY <1>5, <2>1, <2>2
<1>6. CASE GoNext(w) \/ GoBack(w)
  BY <1>6 DEF GoNext, GoBack, Turn
<1>7. CASE RequestStart(w)
  BY <1>1, <1>4, <1>7 DEF RequestStart, NextQuestion
<1>8. CASE OnCapacityResponse(w)
  BY <1>2, <1>3, <1>4, <1>8 DEF OnCapacityResponse, NextQuestion
<1>9. CASE OnInstallDepsCancel(w) \/ OnInstallDepsResponse(w) \/ OnWarn2Cancel(w) \/ OnErrorRestart(w)
  BY <1>2, <1>9 DEF OnInstallDepsCancel, OnInstallDepsResponse, OnWarn2Cancel, OnErrorRestart
<1>10. CASE OnWarn1Response(w)
  BY <1>2, <1>3, <1>4, <1>10 DEF OnWarn1Response
<1>11. CASE \E f \in Flashes : OnWarn2Response(w, f)
  BY <1>2, <1>11 DEF OnWarn2Response
<1>12. CASE OnInterruptResponse(w) \/ DismissInfo(w) \/ OnSpeedtestContinue(w) \/ RefuseLowersFlag(w)
  BY <1>2, <1>12 DEF OnInterruptResponse, DismissInfo, OnSpeedtestContinue, RefuseLowersFlag
<1>13. CASE OnLangChanged(w)
  BY <1>1, <1>4, <1>13 DEF OnLangChanged
<1>14. dialogs[w] \in Seq(DialogKinds) /\ <<>> \in Seq(DialogKinds) /\ \A j : ~Has(<<>>, j)
  BY DEF TypeOK, Has
<1>15. CASE UserCloses(w) \/ UserIsDone(w)
  BY <1>5, <1>14, <1>15 DEF UserCloses, UserIsDone, AtPage
<1>16. CASE OnErrorClose(w)
  <2>1. dialogs[w] # <<>> /\ OnCloseRequest(w, Tail(dialogs[w]))
    BY <1>16 DEF OnErrorClose, Answers
  <2> QED BY <1>5, <1>14, <1>16, <2>1, PopFacts
<1> QED
  BY UserStep(w), <1>6, <1>7, <1>8, <1>9, <1>10, <1>11, <1>12, <1>13, <1>15, <1>16 DEF UserStep

\* What else an answer of the user leaves alone.
LEMMA UserRest ==
  ASSUME NEW w \in Windows, UserStep(w)
  PROVE  /\ UNCHANGED endings
         /\ UNCHANGED idle \/ IdleAdd("rebuild", w, NoWorker)
         /\ UNCHANGED speed_answer \/ OnSpeedtestContinue(w)
         /\ UNCHANGED refusing \/ RefuseLowersFlag(w)
<1>1. CASE UserCloses(w) \/ UserIsDone(w) \/ OnErrorClose(w)
  BY <1>1 DEF UserCloses, UserIsDone, OnErrorClose, CloseFrame, flagVars
<1>2. CASE GoNext(w) \/ GoBack(w) \/ RequestStart(w) \/ OnCapacityResponse(w)
           \/ OnInstallDepsCancel(w) \/ OnInstallDepsResponse(w)
  BY <1>2 DEF GoNext, GoBack, Turn, RequestStart, OnCapacityResponse, OnInstallDepsCancel,
              OnInstallDepsResponse, flagVars
<1>3. CASE OnWarn1Response(w) \/ OnWarn2Cancel(w) \/ OnErrorRestart(w) \/ OnInterruptResponse(w)
  BY <1>3 DEF OnWarn1Response, OnWarn2Cancel, OnErrorRestart, OnInterruptResponse, flagVars
<1>4. CASE DismissInfo(w) \/ OnLangChanged(w)
  BY <1>4 DEF DismissInfo, OnLangChanged, flagVars
<1>5. CASE OnSpeedtestContinue(w)
  BY <1>5 DEF OnSpeedtestContinue
<1>6. CASE RefuseLowersFlag(w)
  BY <1>6 DEF RefuseLowersFlag
<1>7. CASE \E f \in Flashes : OnWarn2Response(w, f)
  BY <1>7 DEF OnWarn2Response
<1> QED
  BY UserStep(w), <1>1, <1>2, <1>3, <1>4, <1>5, <1>6, <1>7 DEF UserStep

\* Who writes the history of a flash.
LEMMA TellChange ==
  ASSUME TypeOK, [Next]_vars, NEW f \in Flashes
  PROVE  \/ endings'[f] = endings[f]
         \/ \E w \in Windows : \/ RefuseAnswers(w, f) \/ OnFlashSuccess(w, f)
                              \/ ShowFlashFailed(w, f) \/ ShowInterruptedError(w, f)
<1>1. endings \in [Flashes -> SUBSET Endings]
  BY DEF TypeOK
<1>2. ASSUME NEW w \in Windows, UserStep(w) PROVE UNCHANGED endings
  BY <1>2, UserRest
<1>3. ASSUME NEW w \in Windows, InstallDepsWorker(w) \/ OnActivate(w) PROVE UNCHANGED endings
  BY <1>3 DEF InstallDepsWorker, OnActivate
<1>4. ASSUME NEW w \in Windows, NEW v \in Windows,
             \/ OnDepsInstalledSuccess(w) \/ ShowDepsError(w) \/ OnSpeedtest(w)
             \/ RefuseMarks(w) \/ Rebuild(w, v)
      PROVE  UNCHANGED endings
  BY <1>4 DEF OnDepsInstalledSuccess, ShowDepsError, OnSpeedtest, RefuseMarks, Rebuild
<1>5. ASSUME NEW w \in Windows, NEW g \in Flashes \ {f},
             \/ OnFlashSuccess(w, g) \/ ShowFlashFailed(w, g) \/ ShowInterruptedError(w, g)
             \/ RefuseAnswers(w, g)
      PROVE  endings'[f] = endings[f]
  BY <1>1, <1>5 DEF OnFlashSuccess, ShowFlashFailed, ShowInterruptedError, Report, RefuseAnswers
<1>6. ASSUME NEW g \in Flashes, WorkerStep(g) PROVE UNCHANGED endings
  BY <1>6, ThreadFrameHolds
<1>7. CASE UNCHANGED vars
  BY <1>7 DEF vars
<1> QED BY <1>2, <1>3, <1>4, <1>5, <1>6, <1>7 DEF Next, Terminated, LoopStep

\* Who posts the ending of a flash: its own thread, as its last step but one.
LEMMA CallChange ==
  ASSUME TypeOK, [Next]_vars, NEW f \in Flashes, NEW fn \in EndingCalls, CallOf(idle', f, fn)
  PROVE  \/ CallOf(idle, f, fn)
         \/ fn = "on_flash_success" /\ ReportSuccess(f)
         \/ fn = "show_flash_failed" /\ ReportFailure(f)
         \/ fn = "show_interrupted_error" /\ ReportStopped(f)
<1>0. idle \in Seq(Callbacks) /\ f # NoWorker
  BY BoundsAssumption DEF TypeOK, Flashes, NoWorker
<1>1. ASSUME idle # <<>>, idle' = Tail(idle) PROVE CallOf(idle, f, fn)
  BY <1>0, <1>1, CallsRun
<1>2. ASSUME NEW c \in FlashCallbacks \cup JobCallbacks \cup {"rebuild"}, NEW w \in Windows,
             NEW g \in Flashes \cup {NoWorker}, IdleAdd(c, w, g), ~CallOf(idle, f, fn)
      PROVE  g = f /\ c = fn
  <2> DEFINE cb == [fn |-> c, win |-> w, flash |-> g]
  <2>1. cb \in Callbacks /\ cb.fn = c /\ cb.flash = g /\ idle' = Append(idle, cb)
    BY <1>2 DEF Callbacks, IdleAdd
  <2> HIDE DEF cb
  <2> QED BY <1>0, <1>2, <2>1, CallsPosted
<1>3. ASSUME NEW w \in Windows, UserStep(w) PROVE CallOf(idle, f, fn)
  BY <1>0, <1>2, <1>3, UserRest
<1>4. ASSUME NEW w \in Windows, InstallDepsWorker(w) PROVE CallOf(idle, f, fn)
  <2>1. \E c \in JobCallbacks : IdleAdd(c, w, NoWorker)
    BY <1>4 DEF InstallDepsWorker
  <2> QED BY <1>0, <1>2, <2>1
<1>5. ASSUME NEW w \in Windows, OnActivate(w) PROVE CallOf(idle, f, fn)
  BY <1>5 DEF OnActivate
<1>6. CASE LoopStep
  <2>1. ASSUME NEW w \in Windows, NEW v \in Windows,
               \/ OnDepsInstalledSuccess(w) \/ ShowDepsError(w) \/ OnSpeedtest(w) \/ Rebuild(w, v)
        PROVE  CallOf(idle, f, fn)
    BY <1>1, <2>1 DEF OnDepsInstalledSuccess, ShowDepsError, OnSpeedtest, Rebuild, Called
  <2>2. ASSUME NEW w \in Windows, NEW g \in Flashes,
               OnFlashSuccess(w, g) \/ ShowFlashFailed(w, g) \/ ShowInterruptedError(w, g)
        PROVE  CallOf(idle, f, fn)
    BY <1>1, <2>2 DEF OnFlashSuccess, ShowFlashFailed, ShowInterruptedError, Called
  <2>3. ASSUME NEW w \in Windows, NEW g \in Flashes, RefuseMarks(w) \/ RefuseAnswers(w, g)
        PROVE  CallOf(idle, f, fn)
    BY <2>3 DEF RefuseMarks, RefuseAnswers
  <2> QED BY <1>6, <2>1, <2>2, <2>3 DEF LoopStep
<1>7. ASSUME NEW g \in Flashes, WorkerStep(g), ~CallOf(idle, f, fn)
      PROVE  \/ fn = "on_flash_success" /\ ReportSuccess(f)
             \/ fn = "show_flash_failed" /\ ReportFailure(f)
             \/ fn = "show_interrupted_error" /\ ReportStopped(f)
  <2>0. owner[g] \in Windows
    BY DEF TypeOK
  <2>1. CASE CheckDrive(g) \/ AskSpeed(g) \/ WaitAnswer(g) \/ WriterStops(g) \/ WriterEnds(g)
             \/ LowerFlag(g) \/ ThreadEnds(g)
    BY <1>7, <2>1 DEF CheckDrive, AskSpeed, WaitAnswer, WriterStops, WriterEnds, LowerFlag, ThreadEnds
  <2>2. CASE PrepareToGo(g)
    <3>1. UNCHANGED idle \/ IdleAdd("on_speedtest", owner[g], g)
      BY <2>2 DEF PrepareToGo
    <3> QED BY <1>2, <1>7, <2>0, <3>1 DEF EndingCalls, FlashCallbacks
  <2>3. CASE ReportFailure(g)
    BY <1>2, <1>7, <2>0, <2>3 DEF ReportFailure, FlashCallbacks
  <2>4. CASE ReportSuccess(g)
    BY <1>2, <1>7, <2>0, <2>4 DEF ReportSuccess, FlashCallbacks
  <2>5. CASE ReportStopped(g)
    BY <1>2, <1>7, <2>0, <2>5 DEF ReportStopped, FlashCallbacks
  <2> QED BY <1>7, <2>1, <2>2, <2>3, <2>4, <2>5 DEF WorkerStep
<1>8. CASE UNCHANGED vars
  BY <1>8 DEF vars
<1> QED BY <1>3, <1>4, <1>5, <1>6, <1>7, <1>8 DEF Next, Terminated

\* Who touches the queue of the speed question: its answers, while it is open,
\* and the thread that asks and waits.
LEMMA AnswerChange ==
  ASSUME TypeOK, [Next]_vars, NEW v \in Windows
  PROVE  \/ speed_answer'[v] = speed_answer[v]
         \/ SpeedOpen(v)
         \/ \E g \in Flashes : WorkerStep(g) /\ owner[g] = v
<1>0. speed_answer \in [Windows -> Seq({"continue", "abort"})]
  BY DEF TypeOK
<1>1. ASSUME NEW w \in Windows, UserStep(w)
      PROVE  speed_answer'[v] = speed_answer[v] \/ SpeedOpen(v)
  <2>1. CASE OnSpeedtestContinue(w)
    <3>1. dialogs[w] \in Seq(DialogKinds) /\ dialogs[w] # <<>> /\ Head(dialogs[w]) = "speed"
      BY <2>1 DEF OnSpeedtestContinue, Answers, TypeOK
    <3>2. SpeedOpen(w)
      BY <3>1, PopFacts DEF SpeedOpen
    <3>3. v # w => speed_answer'[v] = speed_answer[v]
      BY <1>0, <2>1 DEF OnSpeedtestContinue
    <3> QED BY <3>2, <3>3
  <2> QED BY <1>1, <2>1, UserRest
<1>2. ASSUME NEW w \in Windows, InstallDepsWorker(w) \/ OnActivate(w) PROVE UNCHANGED speed_answer
  BY <1>2 DEF InstallDepsWorker, OnActivate, flagVars
<1>3. ASSUME NEW w \in Windows, NEW u \in Windows,
             OnDepsInstalledSuccess(w) \/ ShowDepsError(w) \/ RefuseMarks(w) \/ Rebuild(w, u)
      PROVE  UNCHANGED speed_answer
  BY <1>3 DEF OnDepsInstalledSuccess, ShowDepsError, RefuseMarks, Rebuild, flagVars
<1>4. ASSUME NEW w \in Windows, NEW g \in Flashes,
             OnFlashSuccess(w, g) \/ ShowFlashFailed(w, g) \/ ShowInterruptedError(w, g)
      PROVE  UNCHANGED speed_answer
  BY <1>4 DEF OnFlashSuccess, ShowFlashFailed, ShowInterruptedError, flagVars
<1>5. ASSUME NEW w \in Windows, OnSpeedtest(w)
      PROVE  speed_answer'[v] = speed_answer[v] \/ SpeedOpen(v)
  <2>1. idle \in Seq(Callbacks) /\ idle # <<>> /\ Head(idle).fn = "on_speedtest" /\ Head(idle).win = w
    BY <1>5 DEF OnSpeedtest, Called, TypeOK
  <2>2. SpeedOpen(w)
    BY <2>1, RunFacts DEF SpeedOpen
  <2>3. v # w => speed_answer'[v] = speed_answer[v]
    BY <1>0, <1>5 DEF OnSpeedtest
  <2> QED BY <2>2, <2>3
<1>6. ASSUME NEW w \in Windows, NEW g \in Flashes, RefuseAnswers(w, g)
      PROVE  speed_answer'[v] = speed_answer[v] \/ SpeedOpen(v)
  BY <1>0, <1>6 DEF RefuseAnswers, SpeedOpen
<1>7. ASSUME NEW g \in Flashes, WorkerStep(g), owner[g] # v
      PROVE  speed_answer'[v] = speed_answer[v]
  <2>1. \/ UNCHANGED speed_answer
        \/ \E a : speed_answer' = [speed_answer EXCEPT ![owner[g]] = a]
    BY <1>7 DEF WorkerStep, flagVars, CheckDrive, PrepareToGo, AskSpeed, WaitAnswer, WriterStops,
                WriterEnds, LowerFlag, ReportFailure, ReportSuccess, ReportStopped, ThreadEnds
  <2> QED BY <1>0, <1>7, <2>1
<1>8. CASE UNCHANGED vars
  BY <1>8 DEF vars, flagVars
<1> QED BY <1>1, <1>2, <1>3, <1>4, <1>5, <1>6, <1>7, <1>8 DEF Next, Terminated, LoopStep

\* Only the thread of a window opens its speed question.
LEMMA SpeedChange ==
  ASSUME TypeOK, [Next]_vars, NEW v \in Windows, (SpeedOpen(v))'
  PROVE  SpeedOpen(v) \/ \E g \in Flashes : owner[g] = v /\ PrepareToGo(g)
<1> DEFINE Dialog == Has(dialogs'[v], "speed") => SpeedOpen(v)
           Call == HasCall(idle', v, "on_speedtest") => SpeedOpen(v)
           Rest == refusing'[v] # "no" => SpeedOpen(v)
<1> SUFFICES ASSUME \A g \in Flashes : owner[g] = v => ~PrepareToGo(g)
             PROVE  Dialog /\ Call /\ Rest
  BY DEF SpeedOpen
<1>0. /\ idle \in Seq(Callbacks) /\ dialogs \in [Windows -> Seq(DialogKinds)]
      /\ refusing \in [Windows -> {"no", "lowered", "marked"}]
      /\ {"warn1", "info", "ending", "speed"} \subseteq DialogKinds
  BY DEF TypeOK, DialogKinds, Confirmations
<1>1. ASSUME idle # <<>>, idle' = Tail(idle) PROVE Call
  BY <1>0, <1>1, RunFacts DEF SpeedOpen
<1>2. ASSUME NEW c \in FlashCallbacks \cup JobCallbacks \cup {"rebuild"}, NEW w \in Windows,
             NEW g \in Flashes \cup {NoWorker}, IdleAdd(c, w, g), c # "on_speedtest" \/ w # v
      PROVE  Call
  BY <1>2, IdleAddFacts DEF SpeedOpen
<1>3. ASSUME NEW w \in Windows, NEW k \in DialogKinds, Push(w, k), k # "speed" \/ w # v
      PROVE  Dialog
  BY <1>3, PushKeeps DEF SpeedOpen
<1>4. /\ UNCHANGED idle => Call
      /\ UNCHANGED dialogs => Dialog
      /\ UNCHANGED refusing => Rest
  BY DEF SpeedOpen
<1>5. ASSUME NEW w \in Windows, UserStep(w) PROVE Dialog /\ Call /\ Rest
  <2>1. Dialog
    BY <1>5, UserDialogs DEF SpeedOpen
  <2>2. Call
    BY <1>2, <1>4, <1>5, UserRest
  <2>3. CASE RefuseLowersFlag(w)
    <3>1. dialogs[w] \in Seq(DialogKinds) /\ dialogs[w] # <<>> /\ Head(dialogs[w]) = "speed"
      BY <1>0, <2>3 DEF RefuseLowersFlag, Answers
    <3>2. SpeedOpen(w)
      BY <3>1, PopFacts DEF SpeedOpen
    <3>3. v # w => refusing'[v] = refusing[v]
      BY <1>0, <2>3 DEF RefuseLowersFlag
    <3>4. Rest
      BY <3>2, <3>3 DEF SpeedOpen
    <3> QED BY <2>1, <2>2, <3>4
  <2> QED BY <1>4, <1>5, <2>1, <2>2, <2>3, UserRest
<1>6. ASSUME NEW w \in Windows, InstallDepsWorker(w) PROVE Dialog /\ Call /\ Rest
  <2>1. /\ \E c \in JobCallbacks : IdleAdd(c, w, NoWorker)
        /\ UNCHANGED <<dialogs, refusing>>
    BY <1>6 DEF InstallDepsWorker, flagVars
  <2> QED BY <1>2, <1>4, <2>1 DEF JobCallbacks
<1>7. ASSUME NEW w \in Windows, OnActivate(w) PROVE Dialog /\ Call /\ Rest
  BY <1>4, <1>7 DEF OnActivate, flagVars
<1>8. ASSUME NEW w \in Windows, OnDepsInstalledSuccess(w) \/ ShowDepsError(w)
      PROVE  Dialog /\ Call /\ Rest
  <2>1. /\ idle # <<>> /\ idle' = Tail(idle) /\ UNCHANGED refusing
        /\ \E k \in {"warn1", "info"} : Push(w, k)
    BY <1>8 DEF OnDepsInstalledSuccess, ShowDepsError, Called, flagVars
  <2> QED BY <1>0, <1>1, <1>3, <1>4, <2>1
<1>9. ASSUME NEW w \in Windows, OnSpeedtest(w) PROVE Dialog /\ Call /\ Rest
  <2>1. /\ idle # <<>> /\ idle' = Tail(idle) /\ UNCHANGED refusing
        /\ Head(idle).fn = "on_speedtest" /\ Head(idle).win = w
        /\ UNCHANGED dialogs \/ Push(w, "speed")
    BY <1>9 DEF OnSpeedtest, Called
  <2>2. SpeedOpen(w)
    BY <1>0, <2>1, RunFacts DEF SpeedOpen
  <2>3. CASE w = v
    BY <2>2, <2>3
  <2>4. CASE w # v
    BY <1>0, <1>1, <1>3, <1>4, <2>1, <2>4
  <2> QED BY <2>3, <2>4
<1>10. ASSUME NEW w \in Windows, NEW u \in Windows, NEW g \in Flashes,
              Rebuild(w, u) \/ OnFlashSuccess(w, g)
       PROVE  Dialog /\ Call /\ Rest
  <2>1. idle # <<>> /\ idle' = Tail(idle) /\ UNCHANGED <<dialogs, refusing>>
    BY <1>10 DEF Rebuild, OnFlashSuccess, Called, flagVars
  <2> QED BY <1>1, <1>4, <2>1
<1>11. ASSUME NEW w \in Windows, NEW g \in Flashes, ShowFlashFailed(w, g) \/ ShowInterruptedError(w, g)
       PROVE  Dialog /\ Call /\ Rest
  <2>1. idle # <<>> /\ idle' = Tail(idle) /\ UNCHANGED refusing /\ Push(w, "ending")
    BY <1>11 DEF ShowFlashFailed, ShowInterruptedError, Called, flagVars
  <2> QED BY <1>0, <1>1, <1>3, <1>4, <2>1
<1>12. ASSUME NEW w \in Windows, NEW g \in Flashes, RefuseMarks(w) \/ RefuseAnswers(w, g)
       PROVE  Dialog /\ Call /\ Rest
  <2>1. SpeedOpen(w)
    BY <1>12 DEF RefuseMarks, RefuseAnswers, SpeedOpen
  <2>2. /\ UNCHANGED idle
        /\ UNCHANGED dialogs \/ Push(w, "ending")
        /\ v # w => refusing'[v] = refusing[v]
    BY <1>0, <1>12 DEF RefuseMarks, RefuseAnswers
  <2>3. CASE w = v
    BY <2>1, <2>3
  <2>4. CASE w # v
    BY <1>0, <1>3, <1>4, <2>2, <2>4 DEF SpeedOpen
  <2> QED BY <2>3, <2>4
<1>13. ASSUME NEW g \in Flashes, WorkerStep(g) PROVE Dialog /\ Call /\ Rest
  <2>0. UNCHANGED <<dialogs, refusing>> /\ owner[g] \in Windows
    BY <1>13, ThreadFrameHolds DEF TypeOK
  <2>1. CASE CheckDrive(g) \/ AskSpeed(g) \/ WaitAnswer(g) \/ WriterStops(g) \/ WriterEnds(g)
             \/ LowerFlag(g) \/ ThreadEnds(g)
    <3>1. UNCHANGED idle
      BY <2>1 DEF CheckDrive, AskSpeed, WaitAnswer, WriterStops, WriterEnds, LowerFlag, ThreadEnds
    <3> QED BY <1>4, <2>0, <3>1
  <2>2. CASE PrepareToGo(g)
    <3>1. UNCHANGED idle \/ IdleAdd("on_speedtest", owner[g], g)
      BY <2>2 DEF PrepareToGo
    <3>2. owner[g] # v /\ "on_speedtest" \in FlashCallbacks
      BY <2>2 DEF FlashCallbacks
    <3> QED BY <1>2, <1>4, <2>0, <3>1, <3>2
  <2>3. CASE ReportFailure(g) \/ ReportSuccess(g) \/ ReportStopped(g)
    <3>1. \/ UNCHANGED idle
          \/ \E c \in EndingCalls : IdleAdd(c, owner[g], g)
      BY <2>3 DEF ReportFailure, ReportSuccess, ReportStopped, EndingCalls
    <3> QED BY <1>2, <1>4, <2>0, <3>1 DEF EndingCalls, FlashCallbacks
  <2> QED BY <1>13, <2>1, <2>2, <2>3 DEF WorkerStep
<1>14. CASE UNCHANGED vars
  BY <1>4, <1>14 DEF vars, flagVars
<1> QED
  BY <1>5, <1>6, <1>7, <1>8, <1>9, <1>10, <1>11, <1>12, <1>13, <1>14, BoundsAssumption
  DEF Next, Terminated, LoopStep, Flashes

-----------------------------------------------------------------------------
(* The invariant behind the endings, part by part                          *)

\* A thread that was started stays where it was started, and one that has
\* reported never reports again.
LEMMA ThreadGoesOn ==
  ASSUME TypeOK, [Next]_vars, NEW f \in Flashes, pc[f] # "unborn"
  PROVE  /\ owner'[f] = owner[f]
         /\ pc'[f] # "unborn"
         /\ pc'[f] = pc[f] \/ WorkerStep(f)
         /\ pc[f] \in {"over", "dead"} => pc'[f] \in {"over", "dead"}
<1>0. pc \in [Flashes -> Labels] /\ owner \in [Flashes -> Windows]
  BY DEF TypeOK
<1>1. CASE UNCHANGED <<pc, owner, worker>>
  BY <1>1
<1>2. ASSUME NEW w \in Windows, NEW g \in Flashes, OnWarn2Response(w, g)
      PROVE  pc'[f] = pc[f] /\ owner'[f] = owner[f]
  <2>1. /\ pc[g] = "unborn"
        /\ pc' = [pc EXCEPT ![g] = "check"] /\ owner' = [owner EXCEPT ![g] = w]
    BY <1>2 DEF OnWarn2Response, Unstarted
  <2> QED BY <1>0, <2>1
<1>3. ASSUME NEW g \in Flashes, WorkerStep(g), g # f
      PROVE  pc'[f] = pc[f] /\ owner'[f] = owner[f]
  BY <1>3, ThreadFrameHolds
<1>4. ASSUME WorkerStep(f), pc[f] \in {"over", "dead"} PROVE pc'[f] = "dead"
  BY <1>0, <1>4 DEF WorkerStep, Goes, CheckDrive, PrepareToGo, AskSpeed, WaitAnswer, WriterStops,
                    WriterEnds, LowerFlag, ReportFailure, ReportSuccess, ReportStopped, ThreadEnds
<1>5. ASSUME WorkerStep(f) PROVE owner'[f] = owner[f] /\ pc'[f] # "unborn"
  BY <1>5, ThreadFrameHolds
<1> QED BY <1>1, <1>2, <1>3, <1>4, <1>5, StepKinds

\* A callback that runs was in the queue.
LEMMA ToldWasCalled ==
  ASSUME TypeOK, NEW w \in Windows, NEW f \in Flashes
  PROVE  /\ OnFlashSuccess(w, f) => CallOf(idle, f, "on_flash_success")
         /\ ShowFlashFailed(w, f) => CallOf(idle, f, "show_flash_failed")
         /\ ShowInterruptedError(w, f) => CallOf(idle, f, "show_interrupted_error")
<1>1. ASSUME NEW fn, Called(fn), Head(idle).flash = f PROVE CallOf(idle, f, fn)
  BY <1>1, CallsRun DEF Called, TypeOK
<1> QED BY <1>1 DEF OnFlashSuccess, ShowFlashFailed, ShowInterruptedError, Report

LEMMA OwnKept ==
  ASSUME TypeOK, WorkerIsOwn, [Next]_vars
  PROVE  WorkerIsOwn'
<1> SUFFICES ASSUME NEW w \in Windows, worker'[w] # NoWorker
             PROVE  owner'[worker'[w]] = w /\ pc'[worker'[w]] # "unborn"
  BY DEF WorkerIsOwn
<1>0. /\ worker \in [Windows -> Flashes \cup {NoWorker}]
      /\ pc \in [Flashes -> Labels] /\ owner \in [Flashes -> Windows]
  BY DEF TypeOK
<1>1. CASE worker'[w] = worker[w]
  <2>1. worker[w] \in Flashes /\ owner[worker[w]] = w /\ pc[worker[w]] # "unborn"
    BY <1>0, <1>1 DEF WorkerIsOwn
  <2> QED BY <1>1, <2>1, ThreadGoesOn
<1>2. ASSUME NEW v \in Windows, NEW f \in Flashes, OnWarn2Response(v, f), worker'[w] # worker[w]
      PROVE  owner'[worker'[w]] = w /\ pc'[worker'[w]] # "unborn"
  <2>1. /\ worker' = [worker EXCEPT ![v] = f]
        /\ pc' = [pc EXCEPT ![f] = "check"] /\ owner' = [owner EXCEPT ![f] = v]
    BY <1>2 DEF OnWarn2Response
  <2>2. w = v /\ worker'[w] = f
    BY <1>0, <1>2, <2>1
  <2> QED BY <1>0, <2>1, <2>2
<1>3. ASSUME NEW f \in Flashes, WorkerStep(f) PROVE worker'[w] = worker[w]
  BY <1>3, ThreadFrameHolds
<1> QED BY <1>1, <1>2, <1>3, StepKinds

LEMMA ReportsKept ==
  ASSUME TypeOK, ReportsAreLast, [Next]_vars
  PROVE  ReportsAreLast'
<1> SUFFICES ASSUME NEW f \in Flashes, pc'[f] \notin {"over", "dead"}
             PROVE  /\ endings'[f] \subseteq {"refused"}
                    /\ \A fn \in EndingCalls : ~CallOf(idle', f, fn)
  BY DEF ReportsAreLast
<1>0. pc \in [Flashes -> Labels] /\ endings \in [Flashes -> SUBSET Endings]
  BY DEF TypeOK
<1>1. pc[f] \notin {"over", "dead"}
  BY ThreadGoesOn
<1>2. endings[f] \subseteq {"refused"} /\ \A fn \in EndingCalls : ~CallOf(idle, f, fn)
  BY <1>1 DEF ReportsAreLast
<1>3. endings'[f] \subseteq {"refused"}
  <2>1. ASSUME NEW w \in Windows, RefuseAnswers(w, f) PROVE endings'[f] \subseteq {"refused"}
    BY <1>0, <1>2, <2>1 DEF RefuseAnswers
  <2>2. ASSUME NEW w \in Windows
        PROVE  ~(OnFlashSuccess(w, f) \/ ShowFlashFailed(w, f) \/ ShowInterruptedError(w, f))
    BY <1>2, ToldWasCalled DEF EndingCalls
  <2> QED BY <1>2, <2>1, <2>2, TellChange
<1>4. ASSUME NEW fn \in EndingCalls, CallOf(idle', f, fn) PROVE FALSE
  <2>1. ReportSuccess(f) \/ ReportFailure(f) \/ ReportStopped(f) => pc'[f] = "over"
    BY <1>0 DEF ReportSuccess, ReportFailure, ReportStopped, Goes
  <2> QED BY <1>2, <1>4, <2>1, CallChange
<1> QED BY <1>3, <1>4

\* The queue of a thread that waits is its own: while it holds an answer no
\* other is put there, and no other thread takes it.
LEMMA AnswerStays ==
  ASSUME TypeOK, WriterInv, [Next]_vars, NEW f \in Flashes, Alive(f),
         speed_answer[owner[f]] # <<>>, pc[f] \in {"ask", "wait"}, ~WorkerStep(f)
  PROVE  speed_answer'[owner[f]] = speed_answer[owner[f]]
<1>1. owner[f] \in Windows
  BY DEF TypeOK
<1>2. ~SpeedOpen(owner[f])
  BY DEF WriterInv, AskedWaits
<1>3. ASSUME NEW g \in Flashes, WorkerStep(g), owner[g] = owner[f] PROVE FALSE
  <2>1. Alive(g)
    BY <1>3, ThreadFrameHolds
  <2> QED BY <1>3, <2>1 DEF WriterInv, LiveIsWorker
<1> QED BY <1>1, <1>2, <1>3, AnswerChange

\* A refusal is told of the window's own flash, while its question is open.
LEMMA RefusalIsOwn ==
  ASSUME TypeOK, WorkerIsOwn, NEW w \in Windows, NEW f \in Flashes, RefuseAnswers(w, f)
  PROVE  owner[f] = w /\ worker[w] = f /\ pc[f] # "unborn" /\ SpeedOpen(w)
<1>1. worker[w] = f /\ f # NoWorker /\ SpeedOpen(w)
  BY BoundsAssumption DEF RefuseAnswers, Flashes, NoWorker, SpeedOpen
<1> QED BY <1>1 DEF WorkerIsOwn

LEMMA RefusedKept ==
  ASSUME TypeOK, WriterInv, WorkerIsOwn, RefusedStops, [Next]_vars
  PROVE  RefusedStops'
<1> SUFFICES ASSUME NEW f \in Flashes, "refused" \in endings'[f]
             PROVE  \/ pc'[f] \in {"ask", "wait"} /\ speed_answer'[owner'[f]] = <<"abort">>
                    \/ pc'[f] \in {"false", "over", "dead"}
  BY DEF RefusedStops
<1>0. /\ pc \in [Flashes -> Labels] /\ endings \in [Flashes -> SUBSET Endings]
      /\ owner \in [Flashes -> Windows]
      /\ speed_answer \in [Windows -> Seq({"continue", "abort"})]
  BY DEF TypeOK
<1>1. CASE "refused" \in endings[f]
  <2>1. \/ pc[f] \in {"ask", "wait"} /\ speed_answer[owner[f]] = <<"abort">>
        \/ pc[f] \in {"false", "over", "dead"}
    BY <1>1 DEF RefusedStops
  <2>2. owner'[f] = owner[f] /\ (pc'[f] = pc[f] \/ WorkerStep(f))
    BY <2>1, ThreadGoesOn
  <2>3. CASE ~WorkerStep(f)
    <3>1. CASE pc[f] \in {"ask", "wait"} /\ speed_answer[owner[f]] = <<"abort">>
      <4>1. Alive(f) /\ speed_answer[owner[f]] # <<>>
        BY <3>1 DEF Alive
      <4> QED BY <2>2, <2>3, <3>1, <4>1, AnswerStays
    <3> QED BY <2>1, <2>2, <2>3, <3>1
  <2>4. CASE AskSpeed(f)
    BY <1>0, <2>1, <2>2, <2>4 DEF AskSpeed, Goes, flagVars
  <2>5. CASE WaitAnswer(f)
    <3>1. <<"abort">> # <<>> /\ Head(<<"abort">>) = "abort"
      OBVIOUS
    <3> QED BY <1>0, <2>1, <2>5, <3>1 DEF WaitAnswer, Goes
  <2>6. CASE ReportStopped(f) \/ ThreadEnds(f)
    BY <1>0, <2>6 DEF ReportStopped, ThreadEnds, Goes
  <2>7. CheckDrive(f) \/ PrepareToGo(f) \/ WriterStops(f) \/ WriterEnds(f) \/ LowerFlag(f)
          \/ ReportFailure(f) \/ ReportSuccess(f) => FALSE
    BY <2>1 DEF CheckDrive, PrepareToGo, WriterStops, WriterEnds, LowerFlag, ReportFailure,
                ReportSuccess, Goes
  <2> QED BY <2>3, <2>4, <2>5, <2>6, <2>7 DEF WorkerStep
<1>2. CASE "refused" \notin endings[f]
  <2>1. PICK w \in Windows : RefuseAnswers(w, f)
    BY <1>0, <1>2, TellChange DEF OnFlashSuccess, ShowFlashFailed, ShowInterruptedError, Report
  <2>2. owner[f] = w /\ pc[f] # "unborn" /\ SpeedOpen(w)
    BY <2>1, RefusalIsOwn
  <2>3. /\ UNCHANGED <<pc, owner>>
        /\ speed_answer[w] = <<>> => speed_answer'[w] = <<"abort">>
    <3>1. UNCHANGED <<pc, owner>> /\ speed_answer'[w] = Append(speed_answer[w], "abort")
      BY <1>0, <2>1 DEF RefuseAnswers, threadVars
    <3>2. Append(<<>>, "abort") = <<"abort">>
      OBVIOUS
    <3> QED BY <3>1, <3>2
  <2>4. \/ pc[f] \in {"ask", "wait"} /\ speed_answer[w] = <<>>
        \/ pc[f] \in {"false", "over", "dead"}
    BY <2>2 DEF WriterInv, AskedWaits, Alive
  <2> QED BY <2>2, <2>3, <2>4
<1> QED BY <1>1, <1>2

\* What makes a flash written that was not: its writer ends.
LEMMA WrittenByWriter ==
  ASSUME TypeOK, [Next]_vars, NEW f \in Flashes, (Written(f))'
  PROVE  Written(f) \/ WriterEnds(f)
<1>0. pc \in [Flashes -> Labels] /\ endings \in [Flashes -> SUBSET Endings]
  BY DEF TypeOK
<1>1. ASSUME pc'[f] = "true", pc[f] # "true" PROVE WriterEnds(f)
  <2>1. CASE UNCHANGED <<pc, owner, worker>>
    BY <1>1, <2>1
  <2>2. ASSUME NEW w \in Windows, NEW g \in Flashes, OnWarn2Response(w, g) PROVE FALSE
    BY <1>0, <1>1, <2>2 DEF OnWarn2Response
  <2>3. ASSUME NEW g \in Flashes, WorkerStep(g) PROVE WriterEnds(f)
    <3>1. g = f
      BY <1>1, <2>3, ThreadFrameHolds
    <3>2. \A from, to \in Labels : Goes(f, from, to) => to = "true"
      BY <1>0, <1>1 DEF Goes
    <3>3. Labels = {"unborn", "check", "prep", "ask", "wait", "write",
                    "raised", "report", "false", "true", "over", "dead"}
      BY DEF Labels
    <3>4. ~(CheckDrive(f) \/ PrepareToGo(f) \/ AskSpeed(f) \/ WaitAnswer(f) \/ WriterStops(f))
      BY <3>2, <3>3 DEF CheckDrive, PrepareToGo, AskSpeed, WaitAnswer, WriterStops
    <3>5. ~(LowerFlag(f) \/ ReportFailure(f) \/ ReportSuccess(f) \/ ReportStopped(f) \/ ThreadEnds(f))
      BY <3>2, <3>3 DEF LowerFlag, ReportFailure, ReportSuccess, ReportStopped, ThreadEnds
    <3> QED BY <2>3, <3>1, <3>4, <3>5 DEF WorkerStep
  <2> QED BY <2>1, <2>2, <2>3, StepKinds
<1>2. ASSUME CallOf(idle', f, "on_flash_success") PROVE Written(f)
  <2>1. ReportSuccess(f) => pc[f] = "true"
    BY DEF ReportSuccess, Goes
  <2> QED BY <1>2, <2>1, CallChange DEF EndingCalls, Written
<1>3. ASSUME "success" \in endings'[f] PROVE Written(f)
  <2>1. ASSUME NEW w \in Windows, "success" \notin endings[f]
        PROVE  ~(RefuseAnswers(w, f) \/ ShowFlashFailed(w, f) \/ ShowInterruptedError(w, f))
    BY <1>0, <1>3, <2>1 DEF RefuseAnswers, ShowFlashFailed, ShowInterruptedError, Report
  <2> QED BY <1>3, <2>1, TellChange, ToldWasCalled DEF Written
<1> QED BY <1>1, <1>2, <1>3 DEF Written

LEMMA WrittenKept ==
  ASSUME TypeOK, WriterInv, WorkerIsOwn, ReportsAreLast, RefusedStops, WrittenIsFinal, [Next]_vars
  PROVE  WrittenIsFinal'
<1> SUFFICES ASSUME NEW f \in Flashes, (Written(f))'
             PROVE  /\ pc'[f] \in {"true", "over", "dead"} /\ endings'[f] \subseteq {"success"}
                    /\ \A fn \in EndingCalls \ {"on_flash_success"} : ~CallOf(idle', f, fn)
                    /\ worker'[owner'[f]] = f => ~(SpeedOpen(owner[f]))'
  BY DEF WrittenIsFinal
<1>0. /\ pc \in [Flashes -> Labels] /\ endings \in [Flashes -> SUBSET Endings]
      /\ owner \in [Flashes -> Windows] /\ worker \in [Windows -> Flashes \cup {NoWorker}]
  BY DEF TypeOK
<1>1. PICK v \in Windows : v = owner[f]
  BY <1>0
<1>2. ASSUME pc[f] # "unborn", worker[v] = f => ~(SpeedOpen(v))'
      PROVE  worker'[owner'[f]] = f => ~(SpeedOpen(owner[f]))'
  <2>1. owner'[f] = v
    BY <1>1, <1>2, ThreadGoesOn
  <2>2. worker'[v] = f => worker[v] = f
    <3>1. ASSUME NEW w \in Windows, NEW g \in Flashes, OnWarn2Response(w, g), worker'[v] = f
          PROVE  worker[v] = f
      <4>1. worker' = [worker EXCEPT ![w] = g] /\ pc[g] = "unborn"
        BY <3>1 DEF OnWarn2Response, Unstarted
      <4> QED BY <1>0, <1>2, <3>1, <4>1
    <3> QED BY <3>1, ThreadFrameHolds, StepKinds
  <2> QED BY <1>2, <2>1, <2>2 DEF SpeedOpen
<1>3. ASSUME NEW g \in Flashes, worker[v] = f, PrepareToGo(g), owner[g] = v PROVE pc[f] = "prep"
  <2>1. Alive(g) /\ pc[g] = "prep"
    BY <1>3 DEF PrepareToGo, Goes, Alive
  <2> QED BY <1>3, <2>1 DEF WriterInv, LiveIsWorker
<1>4. CASE Written(f)
  <2>1. /\ pc[f] \in {"true", "over", "dead"} /\ endings[f] \subseteq {"success"}
        /\ \A fn \in EndingCalls \ {"on_flash_success"} : ~CallOf(idle, f, fn)
        /\ worker[v] = f => ~SpeedOpen(v)
    <3>1. worker[owner[f]] = f => ~SpeedOpen(owner[f])
      BY <1>4 DEF WrittenIsFinal
    <3> QED BY <1>1, <1>4, <3>1 DEF WrittenIsFinal
  <2>2. pc'[f] \in {"true", "over", "dead"}
    <3>1. CASE WorkerStep(f)
      BY <1>0, <2>1, <3>1 DEF WorkerStep, Goes, CheckDrive, PrepareToGo, AskSpeed, WaitAnswer,
                WriterStops, WriterEnds, LowerFlag, ReportFailure, ReportSuccess, ReportStopped,
                ThreadEnds
    <3> QED BY <2>1, <3>1, ThreadGoesOn
  <2>3. endings'[f] \subseteq {"success"}
    <3>1. ASSUME NEW w \in Windows, OnFlashSuccess(w, f) PROVE endings'[f] \subseteq {"success"}
      BY <1>0, <2>1, <3>1 DEF OnFlashSuccess, Report
    <3>2. ASSUME NEW w \in Windows PROVE ~(ShowFlashFailed(w, f) \/ ShowInterruptedError(w, f))
      BY <2>1, ToldWasCalled DEF EndingCalls
    <3>3. ASSUME NEW w \in Windows PROVE ~RefuseAnswers(w, f)
      BY <1>1, <2>1, RefusalIsOwn
    <3> QED BY <2>1, <3>1, <3>2, <3>3, TellChange
  <2>4. ASSUME NEW fn \in EndingCalls \ {"on_flash_success"}, CallOf(idle', f, fn) PROVE FALSE
    BY <2>1, <2>4, CallChange DEF ReportFailure, ReportStopped, Goes
  <2>5. worker[v] = f => ~(SpeedOpen(v))'
    BY <1>3, <2>1, SpeedChange
  <2> QED BY <1>2, <2>1, <2>2, <2>3, <2>4, <2>5
<1>5. CASE WriterEnds(f) /\ ~Written(f)
  <2>1. /\ pc[f] = "write" /\ pc'[f] \in {"true", "raised"}
        /\ UNCHANGED <<idle, endings>>
    BY <1>0, <1>5 DEF WriterEnds, Goes
  <2>2. endings[f] = {} /\ \A fn \in EndingCalls : ~CallOf(idle, f, fn)
    BY <2>1 DEF ReportsAreLast, RefusedStops
  <2>3. pc'[f] = "true"
    BY <1>5, <2>1 DEF Written
  <2>4. ~SpeedOpen(v)
    BY <1>1, <2>1 DEF WriterInv, AskedWaits, Alive
  <2>5. worker[v] = f => ~(SpeedOpen(v))'
    BY <1>3, <2>1, <2>4, SpeedChange
  <2> QED BY <1>2, <2>1, <2>2, <2>3, <2>5
<1> QED BY <1>4, <1>5, WrittenByWriter

\* What a user's answer does to the page of a window: another window keeps
\* all of it, and its own gains no flash page and loses no way out, unless a
\* flash is started or the page is left.
LEMMA UserPage ==
  ASSUME TypeOK, NEW w \in Windows, UserStep(w), NEW v \in Windows
  PROVE  \/ v = w /\ (OnErrorRestart(w) \/ \E f \in Flashes : OnWarn2Response(w, f))
         \/ /\ current_step'[v] = 3 => current_step[v] = 3
            /\ open'[v] # "gone" => open[v] # "gone"
            /\ btn_done'[v] = btn_done[v] /\ (close_asked[v] = TRUE => close_asked'[v] = TRUE)
            /\ speed_refused'[v] = speed_refused[v] /\ worker'[v] = worker[v]
            /\ refusing[v] # "no" => refusing'[v] # "no"
<1>0. /\ open \in [Windows -> {"unborn", "open", "gone"}] /\ current_step \in [Windows -> 0 .. 3]
      /\ btn_done \in [Windows -> BOOLEAN] /\ close_asked \in [Windows -> BOOLEAN]
      /\ speed_refused \in [Windows -> BOOLEAN] /\ worker \in [Windows -> Flashes \cup {NoWorker}]
      /\ refusing \in [Windows -> {"no", "lowered", "marked"}]
  BY DEF TypeOK
<1> DEFINE Kept == /\ current_step'[v] = 3 => current_step[v] = 3
                   /\ open'[v] # "gone" => open[v] # "gone"
                   /\ btn_done'[v] = btn_done[v] /\ (close_asked[v] = TRUE => close_asked'[v] = TRUE)
                   /\ speed_refused'[v] = speed_refused[v] /\ worker'[v] = worker[v]
                   /\ refusing[v] # "no" => refusing'[v] # "no"
<1>1. CASE GoNext(w) \/ GoBack(w)
  <2>1. PICK page \in 0 .. 2 : current_step' = [current_step EXCEPT ![w] = page]
    BY <1>0, <1>1 DEF GoNext, GoBack, Turn
  <2>2. current_step'[v] = 3 => current_step[v] = 3
    BY <1>0, <2>1
  <2>3. UNCHANGED <<open, btn_done, close_asked, speed_refused, worker, refusing>>
    BY <1>1 DEF GoNext, GoBack, Turn, flagVars
  <2> QED BY <2>2, <2>3
<1>2. CASE RequestStart(w) \/ OnCapacityResponse(w) \/ OnInstallDepsCancel(w)
           \/ OnInstallDepsResponse(w) \/ OnWarn1Response(w) \/ OnWarn2Cancel(w) \/ DismissInfo(w)
           \/ OnLangChanged(w) \/ OnInterruptResponse(w) \/ OnSpeedtestContinue(w)
  <2>1. UNCHANGED <<open, current_step, btn_done, close_asked, speed_refused, worker, refusing>>
    BY <1>2 DEF RequestStart, OnCapacityResponse, OnInstallDepsCancel, OnInstallDepsResponse,
                OnWarn1Response, OnWarn2Cancel, DismissInfo, OnLangChanged, OnInterruptResponse,
                OnSpeedtestContinue, pageVars, flagVars
  <2> QED BY <2>1
<1>3. CASE RefuseLowersFlag(w)
  <2>1. /\ UNCHANGED <<open, current_step, btn_done, close_asked, speed_refused, worker>>
        /\ refusing' = [refusing EXCEPT ![w] = "lowered"]
    BY <1>3 DEF RefuseLowersFlag, pageVars
  <2> QED BY <1>0, <2>1
<1>4. CASE UserCloses(w) \/ UserIsDone(w) \/ OnErrorClose(w)
  <2>1. PICK rest : OnCloseRequest(w, rest) /\ CloseFrame
    BY <1>4 DEF UserCloses, UserIsDone, OnErrorClose
  <2>2. UNCHANGED <<current_step, btn_done, speed_refused, worker, refusing>>
    BY <2>1 DEF CloseFrame, flagVars
  <2>3. /\ \/ UNCHANGED open
           \/ open' = [open EXCEPT ![w] = "gone"]
        /\ \/ UNCHANGED close_asked
           \/ close_asked' = [close_asked EXCEPT ![w] = TRUE]
    BY <2>1 DEF OnCloseRequest
  <2> QED BY <1>0, <2>2, <2>3
<1>5. CASE OnErrorRestart(w) /\ v # w
  BY <1>0, <1>5 DEF OnErrorRestart, flagVars
<1>6. ASSUME NEW f \in Flashes, OnWarn2Response(w, f), v # w PROVE Kept
  BY <1>0, <1>6 DEF OnWarn2Response
<1> QED
  BY UserStep(w), <1>1, <1>2, <1>3, <1>4, <1>5, <1>6 DEF UserStep

\* The ways out a window keeps: the queue gains a call, or loses one that is
\* none of them or is another window's.
LEMMA CallsStay ==
  ASSUME TypeOK, NEW v \in Windows
  PROVE  /\ UNCHANGED idle => \A fn : HasCall(idle, v, fn) => HasCall(idle', v, fn)
         /\ \A w \in Windows, g \in Flashes \cup {NoWorker},
               c \in FlashCallbacks \cup JobCallbacks \cup {"rebuild"} :
              IdleAdd(c, w, g) => /\ \A fn : HasCall(idle, v, fn) => HasCall(idle', v, fn)
                                  /\ HasCall(idle', w, c)
         /\ idle # <<>> /\ idle' = Tail(idle) =>
              \A fn : HasCall(idle, v, fn) =>
                HasCall(idle', v, fn) \/ (Head(idle).win = v /\ Head(idle).fn = fn)
<1>0. idle \in Seq(Callbacks)
  BY DEF TypeOK
<1>1. ASSUME NEW w \in Windows, NEW g \in Flashes \cup {NoWorker},
             NEW c \in FlashCallbacks \cup JobCallbacks \cup {"rebuild"}, IdleAdd(c, w, g)
      PROVE  /\ \A fn : HasCall(idle, v, fn) => HasCall(idle', v, fn)
             /\ HasCall(idle', w, c)
  <2> DEFINE cb == [fn |-> c, win |-> w, flash |-> g]
  <2>1. cb \in Callbacks /\ cb.fn = c /\ cb.win = w /\ idle' = Append(idle, cb)
    BY <1>1 DEF Callbacks, IdleAdd
  <2> HIDE DEF cb
  <2> QED BY <1>0, <2>1, CallsPosted
<1>2. ASSUME idle # <<>>, idle' = Tail(idle), NEW fn, HasCall(idle, v, fn)
      PROVE  HasCall(idle', v, fn) \/ (Head(idle).win = v /\ Head(idle).fn = fn)
  BY <1>0, <1>2, CallsRun
<1> QED BY <1>1, <1>2

LEMMA PageKept ==
  ASSUME TypeOK, WriterInv, WorkerIsOwn, PageHasExit, [Next]_vars
  PROVE  PageHasExit'
<1> SUFFICES ASSUME NEW v \in Windows, open'[v] # "gone", current_step'[v] = 3
             PROVE  (Exit(v))' \/ (WillReport(v))'
  BY DEF PageHasExit
<1>0. /\ open \in [Windows -> {"unborn", "open", "gone"}]
      /\ btn_done \in [Windows -> BOOLEAN] /\ is_flashing \in [Windows -> BOOLEAN]
      /\ speed_refused \in [Windows -> BOOLEAN] /\ worker \in [Windows -> Flashes \cup {NoWorker}]
      /\ refusing \in [Windows -> {"no", "lowered", "marked"}]
      /\ {"warn1", "info", "ending", "speed"} \subseteq DialogKinds
      /\ EndingCalls \cap (JobCallbacks \cup {"on_speedtest", "rebuild"}) = {}
  BY DEF TypeOK, DialogKinds, Confirmations, EndingCalls, JobCallbacks
<1> DEFINE Page == open[v] # "gone" /\ current_step[v] = 3
           Buttons == btn_done'[v] = btn_done[v] /\ (close_asked[v] = TRUE => close_asked'[v] = TRUE)
           Ending == Has(dialogs[v], "ending") => Has(dialogs'[v], "ending")
           Calls == \A fn \in EndingCalls : HasCall(idle, v, fn) => HasCall(idle', v, fn)
           Rest == refusing[v] # "no" => refusing'[v] # "no"
           Worker == speed_refused'[v] = speed_refused[v] /\ worker'[v] = worker[v]
\* What keeps the exit of a window, and the promise of its worker.
<1>1. ASSUME Page, Buttons, Ending, Calls, Rest, Exit(v) PROVE (Exit(v))'
  BY <1>1 DEF Exit
<1>2. ASSUME Worker, WillReport(v), \A g \in Flashes : ~WorkerStep(g) PROVE (WillReport(v))'
  <2>1. worker[v] \in Flashes /\ pc[worker[v]] # "unborn"
    BY <1>0, <1>2 DEF WillReport, WorkerIsOwn
  <2>2. pc'[worker[v]] = pc[worker[v]]
    BY <1>2, <2>1, ThreadGoesOn
  <2> QED BY <1>2, <2>2 DEF WillReport
<1>3. ASSUME Page, Buttons, Ending, Calls, Rest, Worker, \A g \in Flashes : ~WorkerStep(g)
      PROVE  (Exit(v))' \/ (WillReport(v))'
  BY <1>1, <1>2, <1>3 DEF PageHasExit
<1>4. /\ UNCHANGED dialogs => Ending
      /\ UNCHANGED idle => Calls
      /\ \A w \in Windows, k \in DialogKinds : Push(w, k) => Ending
      /\ \A w \in Windows, g \in Flashes \cup {NoWorker},
            c \in FlashCallbacks \cup JobCallbacks \cup {"rebuild"} : IdleAdd(c, w, g) => Calls
      /\ idle # <<>> /\ idle' = Tail(idle) /\ (Head(idle).fn \notin EndingCalls \/ Head(idle).win # v)
           => Calls
  BY CallsStay, PushKeeps
\* The thread of some flash.
<1>5. ASSUME NEW g \in Flashes, WorkerStep(g) PROVE (Exit(v))' \/ (WillReport(v))'
  <2>1. /\ UNCHANGED <<pageVars, dialogs, worker, speed_refused, refusing>> /\ Alive(g)
        /\ \A h \in Flashes \ {g} : pc'[h] = pc[h]
        /\ owner[g] \in Windows
    BY <1>5, ThreadFrameHolds DEF TypeOK
  <2>2. Calls
    <3>1. CASE CheckDrive(g) \/ AskSpeed(g) \/ WaitAnswer(g) \/ WriterStops(g) \/ WriterEnds(g)
               \/ LowerFlag(g) \/ ThreadEnds(g)
      <4>1. UNCHANGED idle
        BY <3>1 DEF CheckDrive, AskSpeed, WaitAnswer, WriterStops, WriterEnds, LowerFlag, ThreadEnds
      <4> QED BY <1>4, <4>1
    <3>2. CASE PrepareToGo(g) \/ ReportFailure(g) \/ ReportSuccess(g) \/ ReportStopped(g)
      <4>1. UNCHANGED idle \/ \E c \in FlashCallbacks : IdleAdd(c, owner[g], g)
        BY <3>2 DEF PrepareToGo, ReportFailure, ReportSuccess, ReportStopped, FlashCallbacks
      <4> QED BY <1>4, <2>1, <4>1
    <3> QED BY <1>5, <3>1, <3>2 DEF WorkerStep
  <2>3. Page /\ Buttons /\ Ending /\ Rest
    BY <1>4, <2>1 DEF pageVars
  <2>4. CASE Exit(v)
    BY <1>1, <2>2, <2>3, <2>4
  <2>5. CASE WillReport(v)
    <3>1. CASE worker[v] # g
      BY <1>0, <2>1, <2>5, <3>1 DEF WillReport
    <3>2. CASE worker[v] = g
      <4>1. owner[g] = v /\ speed_refused[v] = FALSE /\ pc[g] \notin {"over", "dead"} /\ g # NoWorker
        BY <1>0, <2>5, <3>2 DEF WillReport, WorkerIsOwn
      <4>2. CASE ReportFailure(g) \/ ReportSuccess(g) \/ ReportStopped(g)
        <5>1. \E fn \in EndingCalls : IdleAdd(fn, v, g)
          BY <4>1, <4>2 DEF ReportFailure, ReportSuccess, ReportStopped, EndingCalls
        <5>2. \E fn \in EndingCalls : HasCall(idle', v, fn)
          BY <5>1, CallsStay DEF EndingCalls, FlashCallbacks
        <5> QED BY <5>2 DEF Exit
      <4>3. CASE ~(ReportFailure(g) \/ ReportSuccess(g) \/ ReportStopped(g))
        <5>1. pc \in [Flashes -> Labels] /\ ~ThreadEnds(g)
          BY <4>1 DEF ThreadEnds, Goes, TypeOK
        <5>2. pc'[g] \notin {"over", "dead"}
          BY <1>5, <4>3, <5>1 DEF WorkerStep, Goes, CheckDrive, PrepareToGo, AskSpeed, WaitAnswer,
                    WriterStops, WriterEnds, LowerFlag
        <5> QED BY <2>1, <3>2, <4>1, <5>2 DEF WillReport
      <4> QED BY <4>2, <4>3
    <3> QED BY <3>1, <3>2
  <2> QED BY <2>3, <2>4, <2>5 DEF PageHasExit
<1> SUFFICES ASSUME \A g \in Flashes : ~WorkerStep(g) PROVE (Exit(v))' \/ (WillReport(v))'
  BY <1>5
\* An answer of the user.
<1>6. ASSUME NEW w \in Windows, UserStep(w) PROVE (Exit(v))' \/ (WillReport(v))'
  <2>1. CASE OnErrorRestart(w) /\ v = w
    <3>1. current_step' = [current_step EXCEPT ![w] = 0] /\ current_step \in [Windows -> 0 .. 3]
      BY <2>1 DEF OnErrorRestart, TypeOK
    <3> QED BY <2>1, <3>1
  <2>2. ASSUME NEW f \in Flashes, OnWarn2Response(w, f), v = w PROVE (WillReport(v))'
    <3>1. pc \in [Flashes -> Labels] /\ f # NoWorker
      <4>1. pc \in [Flashes -> Labels]
        BY DEF TypeOK
      <4>2. f # NoWorker
        BY BoundsAssumption DEF Flashes, NoWorker
      <4> QED BY <4>1, <4>2
    <3>2. worker'[v] = f /\ pc'[f] = "check" /\ speed_refused'[v] = FALSE
      BY <1>0, <2>2, <3>1 DEF OnWarn2Response
    <3> QED BY <3>1, <3>2 DEF WillReport
  <2>3. CASE Page /\ Buttons /\ Worker /\ Rest
    <3>1. Calls
      BY <1>4, <1>6, UserRest
    <3>2. CASE OnErrorClose(w) /\ v = w /\ Has(dialogs[v], "ending")
      <4>1. is_flashing[w] = FALSE
        BY <3>2, <1>0 DEF WriterInv, FlagDown, EndingDue
      <4>2. open'[w] = "gone" \/ close_asked'[w] = TRUE
        <5>1. OnCloseRequest(w, Tail(dialogs[w])) /\ close_asked \in [Windows -> BOOLEAN]
          BY <3>2 DEF OnErrorClose, TypeOK
        <5> QED BY <1>0, <4>1, <5>1 DEF OnCloseRequest
      <4> QED BY <3>2, <4>2 DEF Exit
    <3>3. CASE ~(OnErrorClose(w) /\ v = w /\ Has(dialogs[v], "ending")) /\ ~(OnErrorRestart(w) /\ v = w)
      <4>1. Ending
        BY <1>6, <3>3, UserDialogs
      <4> QED BY <1>3, <2>3, <3>1, <4>1
    <3> QED BY <2>1, <3>2, <3>3
  <2> QED BY <1>6, <2>1, <2>2, <2>3, UserPage
<1>7. ASSUME NEW w \in Windows, InstallDepsWorker(w) PROVE (Exit(v))' \/ (WillReport(v))'
  <2>1. /\ \E c \in JobCallbacks : IdleAdd(c, w, NoWorker)
        /\ UNCHANGED <<pageVars, dialogs, worker, speed_refused, refusing>>
    BY <1>7 DEF InstallDepsWorker, flagVars
  <2> QED BY <1>3, <1>4, <2>1 DEF pageVars
<1>8. ASSUME NEW w \in Windows, OnActivate(w) PROVE (Exit(v))' \/ (WillReport(v))'
  <2>1. /\ open[w] = "unborn" /\ open' = [open EXCEPT ![w] = "open"]
        /\ UNCHANGED <<current_step, btn_done, close_asked, dialogs, idle, worker, speed_refused, refusing>>
    BY <1>8 DEF OnActivate, Unborn, flagVars
  <2>2. open[v] # "gone"
    BY <1>0, <2>1
  <2> QED BY <1>3, <1>4, <2>1, <2>2
\* The callbacks that are no ending.
<1>9. ASSUME NEW w \in Windows, NEW u \in Windows,
             OnDepsInstalledSuccess(w) \/ ShowDepsError(w) \/ OnSpeedtest(w) \/ Rebuild(w, u)
      PROVE  (Exit(v))' \/ (WillReport(v))'
  <2>1. /\ idle # <<>> /\ idle' = Tail(idle)
        /\ Head(idle).fn \in JobCallbacks \cup {"on_speedtest", "rebuild"}
        /\ UNCHANGED <<current_step, btn_done, close_asked, worker, speed_refused, refusing>>
        /\ UNCHANGED dialogs \/ \E k \in {"warn1", "info", "speed"} : Push(w, k)
    BY <1>9 DEF OnDepsInstalledSuccess, ShowDepsError, OnSpeedtest, Rebuild, Called, pageVars,
                flagVars, JobCallbacks
  <2>2. open[v] # "gone"
    <3>1. UNCHANGED open \/ (open[u] = "unborn" /\ open' = [open EXCEPT ![w] = "gone", ![u] = "open"])
      BY <1>9 DEF OnDepsInstalledSuccess, ShowDepsError, OnSpeedtest, Rebuild, Unborn, pageVars
    <3> QED BY <1>0, <3>1
  <2>3. Calls /\ Ending
    BY <1>0, <1>4, <2>1
  <2> QED BY <1>3, <2>1, <2>2, <2>3
\* The endings themselves, and the rest of a refusal.
<1>10. ASSUME NEW w \in Windows, NEW f \in Flashes, OnFlashSuccess(w, f)
       PROVE  (Exit(v))' \/ (WillReport(v))'
  <2>1. /\ idle # <<>> /\ idle' = Tail(idle) /\ Head(idle).win = w
        /\ UNCHANGED <<open, current_step, close_asked, dialogs, worker, speed_refused, refusing>>
        /\ btn_done' = [btn_done EXCEPT ![w] = TRUE]
    BY <1>10 DEF OnFlashSuccess, Called, Report
  <2>2. CASE v = w
    BY <1>0, <2>1, <2>2 DEF Exit
  <2>3. CASE v # w
    BY <1>0, <1>3, <1>4, <2>1, <2>3
  <2> QED BY <2>2, <2>3
<1>11. ASSUME NEW w \in Windows, NEW f \in Flashes, ShowFlashFailed(w, f) \/ ShowInterruptedError(w, f)
       PROVE  (Exit(v))' \/ (WillReport(v))'
  <2>1. /\ idle # <<>> /\ idle' = Tail(idle) /\ Head(idle).win = w /\ Push(w, "ending")
        /\ UNCHANGED <<pageVars, worker, speed_refused, refusing>>
    BY <1>11 DEF ShowFlashFailed, ShowInterruptedError, Called, Report, flagVars
  <2>2. CASE v = w
    BY <1>0, <2>1, <2>2, PushKeeps DEF Exit
  <2>3. CASE v # w
    BY <1>0, <1>3, <1>4, <2>1, <2>3 DEF pageVars
  <2> QED BY <2>2, <2>3
<1>12. ASSUME NEW w \in Windows, RefuseMarks(w) PROVE (Exit(v))' \/ (WillReport(v))'
  <2>1. /\ refusing' = [refusing EXCEPT ![w] = "marked"]
        /\ speed_refused' = [speed_refused EXCEPT ![w] = TRUE]
        /\ UNCHANGED <<pageVars, dialogs, idle, worker>>
    BY <1>12 DEF RefuseMarks
  <2>2. CASE v = w
    BY <1>0, <2>1, <2>2 DEF Exit
  <2>3. CASE v # w
    BY <1>0, <1>3, <1>4, <2>1, <2>3 DEF pageVars
  <2> QED BY <2>2, <2>3
<1>13. ASSUME NEW w \in Windows, NEW f \in Flashes, RefuseAnswers(w, f)
       PROVE  (Exit(v))' \/ (WillReport(v))'
  <2>1. /\ refusing' = [refusing EXCEPT ![w] = "no"] /\ Push(w, "ending")
        /\ UNCHANGED <<pageVars, idle, worker, speed_refused>>
    BY <1>13 DEF RefuseAnswers
  <2>2. CASE v = w
    BY <1>0, <2>1, <2>2, PushKeeps DEF Exit
  <2>3. CASE v # w
    BY <1>0, <1>3, <1>4, <2>1, <2>3 DEF pageVars
  <2> QED BY <2>2, <2>3
<1>14. CASE UNCHANGED vars
  BY <1>3, <1>4, <1>14 DEF vars, pageVars, flagVars
<1> QED
  BY <1>6, <1>7, <1>8, <1>9, <1>10, <1>11, <1>12, <1>13, <1>14 DEF Next, Terminated, LoopStep

\* With no install under way, a flash page without a way out has a worker that
\* still reports, what it reports is the last it does, and once the drive is
\* written nothing else can be told of the flash.
THEOREM EndingsSafe ==
  ASSUME MaxInstalls = 0
  PROVE  Spec => []EndingInv
<1>1. Init => EndingInv
  <2> SUFFICES ASSUME Init PROVE EndingInv
    OBVIOUS
  <2>1. /\ \A w \in Windows : current_step[w] = 0 /\ worker[w] = NoWorker
        /\ idle = <<>> /\ \A f \in Flashes : pc[f] = "unborn" /\ endings[f] = {}
    BY DEF Init
  <2>2. \A f, fn : ~CallOf(<<>>, f, fn)
    BY DEF CallOf
  <2>3. WorkerIsOwn /\ PageHasExit
    BY <2>1 DEF WorkerIsOwn, PageHasExit
  <2>4. ReportsAreLast /\ RefusedStops /\ WrittenIsFinal
    BY <2>1, <2>2 DEF ReportsAreLast, RefusedStops, WrittenIsFinal, Written
  <2> QED BY <2>3, <2>4 DEF EndingInv
<1>2. TypeOK /\ WriterInv /\ EndingInv /\ [Next]_vars => EndingInv'
  BY OwnKept, PageKept, ReportsKept, RefusedKept, WrittenKept DEF EndingInv
<1> QED
  BY <1>1, <1>2, WriterSafe, TypeCorrect, PTL DEF Spec

\* A flash page whose writer is gone, and for which nothing is queued, shows a
\* dialog or the Done button, unless the user chose to close meanwhile.
THEOREM PageNeverStuck ==
  ASSUME MaxInstalls = 0
  PROVE  Spec => []NeverStuck
<1>1. TypeOK /\ EndingInv => NeverStuck
  <2> SUFFICES ASSUME TypeOK, EndingInv, NEW w \in Windows, open[w] = "open", current_step[w] = 3,
                      MainFree, ~HasLiveWorker(w), \A i \in 1 .. Len(idle) : idle[i].win # w
               PROVE  dialogs[w] # <<>> \/ btn_done[w] \/ close_asked[w]
    BY DEF NeverStuck
  <2>1. refusing[w] = "no" /\ \A fn : ~HasCall(idle, w, fn)
    BY DEF MainFree, HasCall
  <2>2. Exit(w) => dialogs[w] # <<>> \/ btn_done[w] \/ close_asked[w]
    BY <2>1 DEF Exit, Has
  <2>3. WillReport(w) => HasLiveWorker(w)
    BY DEF WillReport, HasLiveWorker, Alive, EndingInv, WorkerIsOwn
  <2> QED BY <2>2, <2>3 DEF EndingInv, PageHasExit
<1> QED
  BY <1>1, EndingsSafe, TypeCorrect, PTL

\* A flash reported as written is never also reported as failed, interrupted
\* or refused.
THEOREM SuccessStays ==
  ASSUME MaxInstalls = 0
  PROVE  Spec => []SuccessIsFinal
<1>1. EndingInv => SuccessIsFinal
  BY DEF EndingInv, WrittenIsFinal, Written, SuccessIsFinal
<1> QED
  BY <1>1, EndingsSafe, PTL

-----------------------------------------------------------------------------
(* What on_lang_changed trusts: the count of the installs                  *)

\* The calls of installs that a posted or a run callback leaves in the queue.
LEMMA JobsFinite ==
  ASSUME NEW q \in Seq(Callbacks), NEW w
  PROVE  IsFiniteSet(JobCalls(q, w)) /\ Cardinality(JobCalls(q, w)) \in Nat
<1>1. IsFiniteSet(1 .. Len(q)) /\ JobCalls(q, w) \subseteq 1 .. Len(q)
  BY FS_Interval DEF JobCalls
<1> QED BY <1>1, FS_Subset, FS_CardinalityType

LEMMA JobsPosted ==
  ASSUME NEW q \in Seq(Callbacks), NEW c \in Callbacks, NEW w
  PROVE  Cardinality(JobCalls(Append(q, c), w)) =
           Cardinality(JobCalls(q, w)) + (IF c.win = w /\ c.fn \in JobCallbacks THEN 1 ELSE 0)
<1>1. /\ Len(Append(q, c)) = Len(q) + 1 /\ Len(q) \in Nat /\ Append(q, c)[Len(q) + 1] = c
      /\ \A i \in 1 .. Len(q) : Append(q, c)[i] = q[i]
  BY QueueAdd
<1>2. IsFiniteSet(JobCalls(q, w)) /\ Cardinality(JobCalls(q, w)) \in Nat
  BY JobsFinite
<1>3. JobCalls(Append(q, c), w) =
        JobCalls(q, w) \cup (IF c.win = w /\ c.fn \in JobCallbacks THEN {Len(q) + 1} ELSE {})
  BY <1>1 DEF JobCalls
<1>4. Len(q) + 1 \notin JobCalls(q, w)
  BY <1>1 DEF JobCalls
<1>5. CASE c.win = w /\ c.fn \in JobCallbacks
  <2>1. JobCalls(Append(q, c), w) = JobCalls(q, w) \cup {Len(q) + 1}
    BY <1>3, <1>5
  <2> QED BY <1>2, <1>4, <1>5, <2>1, FS_AddElement
<1>6. CASE ~(c.win = w /\ c.fn \in JobCallbacks)
  <2>1. JobCalls(Append(q, c), w) = JobCalls(q, w)
    BY <1>3, <1>6
  <2> QED BY <1>2, <1>6, <2>1
<1> QED BY <1>2, <1>5, <1>6

LEMMA JobsRun ==
  ASSUME NEW q \in Seq(Callbacks), q # <<>>, NEW w
  PROVE  Cardinality(JobCalls(q, w)) =
           Cardinality(JobCalls(Tail(q), w))
             + (IF Head(q).win = w /\ Head(q).fn \in JobCallbacks THEN 1 ELSE 0)
<1>1. /\ Tail(q) \in Seq(Callbacks) /\ Len(q) \in Nat \ {0} /\ Len(Tail(q)) = Len(q) - 1
      /\ Head(q) = q[1] /\ \A i \in 1 .. Len(Tail(q)) : Tail(q)[i] = q[i + 1]
  BY StackPop
<1> DEFINE Later == {i + 1 : i \in JobCalls(Tail(q), w)}
           first == IF Head(q).win = w /\ Head(q).fn \in JobCallbacks THEN {1} ELSE {}
<1>2. IsFiniteSet(JobCalls(Tail(q), w)) /\ Cardinality(JobCalls(Tail(q), w)) \in Nat
  BY <1>1, JobsFinite
<1>3. IsFiniteSet(Later) /\ Cardinality(Later) = Cardinality(JobCalls(Tail(q), w))
  <2> DEFINE shift == [i \in JobCalls(Tail(q), w) |-> i + 1]
  <2>1. JobCalls(Tail(q), w) \subseteq Int
    BY DEF JobCalls
  <2>2. shift \in Bijection(JobCalls(Tail(q), w), Later)
    BY <2>1 DEF Bijection, Injection, Surjection, IsInjective
  <2>3. ExistsBijection(JobCalls(Tail(q), w), Later)
    BY <2>2 DEF ExistsBijection
  <2> QED BY <1>2, <2>3, FS_Bijection
<1>4. JobCalls(q, w) = Later \cup first
  <2>1. ASSUME NEW i \in JobCalls(q, w) PROVE i \in Later \cup first
    <3>1. i \in 1 .. Len(q) /\ q[i].win = w /\ q[i].fn \in JobCallbacks
      BY DEF JobCalls
    <3>2. CASE i = 1
      BY <1>1, <3>1, <3>2
    <3>3. CASE i # 1
      <4>1. i - 1 \in 1 .. Len(Tail(q)) /\ (i - 1) + 1 = i
        BY <1>1, <3>1, <3>3
      <4>2. i - 1 \in JobCalls(Tail(q), w)
        BY <1>1, <3>1, <4>1 DEF JobCalls
      <4> QED BY <4>1, <4>2
    <3> QED BY <3>2, <3>3
  <2>2. ASSUME NEW i \in JobCalls(Tail(q), w) PROVE i + 1 \in JobCalls(q, w)
    BY <1>1 DEF JobCalls
  <2>3. first \subseteq JobCalls(q, w)
    BY <1>1 DEF JobCalls
  <2> QED BY <2>1, <2>2, <2>3
<1>5. 1 \notin Later
  BY DEF JobCalls
<1>6. CASE Head(q).win = w /\ Head(q).fn \in JobCallbacks
  <2>1. JobCalls(q, w) = Later \cup {1}
    BY <1>4, <1>6
  <2>2. Cardinality(JobCalls(q, w)) = Cardinality(Later) + 1
    BY <1>3, <1>5, <2>1, FS_AddElement
  <2> QED BY <1>3, <1>6, <2>2
<1>7. CASE ~(Head(q).win = w /\ Head(q).fn \in JobCallbacks)
  <2>1. JobCalls(q, w) = Later
    BY <1>4, <1>7
  <2> QED BY <1>2, <1>3, <1>7, <2>1
<1> QED BY <1>6, <1>7

\* A step that leaves the installs alone posts or runs no call of theirs.
LEMMA JobsLeft ==
  ASSUME TypeOK, JobsCounted, UNCHANGED <<jobs, installers>>,
         \/ UNCHANGED idle
         \/ idle # <<>> /\ idle' = Tail(idle) /\ Head(idle).fn \notin JobCallbacks
         \/ \E c \in FlashCallbacks \cup {"rebuild"}, v \in Windows, g \in Flashes \cup {NoWorker} :
              IdleAdd(c, v, g)
  PROVE  JobsCounted'
<1>0. idle \in Seq(Callbacks)
  BY DEF TypeOK
<1>1. CASE UNCHANGED idle
  BY <1>1 DEF JobsCounted
<1>2. CASE idle # <<>> /\ idle' = Tail(idle) /\ Head(idle).fn \notin JobCallbacks
  <2>1. \A w : Cardinality(JobCalls(Tail(idle), w)) \in Nat
    <3>1. Tail(idle) \in Seq(Callbacks)
      BY <1>0, <1>2, StackPop
    <3> QED BY <3>1, JobsFinite
  <2>2. \A w : Cardinality(JobCalls(idle', w)) = Cardinality(JobCalls(idle, w))
    BY <1>0, <1>2, <2>1, JobsRun
  <2> QED BY <2>2 DEF JobsCounted
<1>3. ASSUME NEW c \in FlashCallbacks \cup {"rebuild"}, NEW v \in Windows,
             NEW g \in Flashes \cup {NoWorker}, IdleAdd(c, v, g)
      PROVE  JobsCounted'
  <2> DEFINE cb == [fn |-> c, win |-> v, flash |-> g]
  <2>1. cb \in Callbacks /\ cb.fn \notin JobCallbacks /\ idle' = Append(idle, cb)
    BY <1>3 DEF Callbacks, IdleAdd, FlashCallbacks, JobCallbacks
  <2> HIDE DEF cb
  <2>2. \A w : Cardinality(JobCalls(idle', w)) = Cardinality(JobCalls(idle, w))
    BY <1>0, <2>1, JobsPosted, JobsFinite
  <2> QED BY <2>2 DEF JobsCounted
<1> QED BY <1>1, <1>2, <1>3

\* An answer of the user starts an install or leaves them alone.
LEMMA UserJobs ==
  ASSUME NEW w \in Windows, UserStep(w)
  PROVE  UNCHANGED <<jobs, installers>> \/ OnInstallDepsResponse(w)
<1>1. CASE UserCloses(w) \/ UserIsDone(w) \/ OnErrorClose(w)
  BY <1>1 DEF UserCloses, UserIsDone, OnErrorClose, CloseFrame, jobVars
<1>2. CASE GoNext(w) \/ GoBack(w) \/ RequestStart(w) \/ OnCapacityResponse(w)
           \/ OnInstallDepsCancel(w)
  BY <1>2 DEF GoNext, GoBack, Turn, RequestStart, OnCapacityResponse, OnInstallDepsCancel, jobVars
<1>3. CASE OnWarn1Response(w) \/ OnWarn2Cancel(w) \/ OnErrorRestart(w) \/ OnInterruptResponse(w)
           \/ \E f \in Flashes : OnWarn2Response(w, f)
  BY <1>3 DEF OnWarn1Response, OnWarn2Cancel, OnErrorRestart, OnInterruptResponse,
              OnWarn2Response, jobVars
<1>4. CASE DismissInfo(w) \/ OnLangChanged(w) \/ OnSpeedtestContinue(w) \/ RefuseLowersFlag(w)
  BY <1>4 DEF DismissInfo, OnLangChanged, OnSpeedtestContinue, RefuseLowersFlag, jobVars
<1> QED BY UserStep(w), <1>1, <1>2, <1>3, <1>4 DEF UserStep

LEMMA JobsKept ==
  ASSUME TypeOK, JobsCounted, [Next]_vars
  PROVE  JobsCounted'
<1>0. /\ idle \in Seq(Callbacks) /\ jobs \in [Windows -> Int] /\ installers \in [Windows -> Nat]
      /\ JobCallbacks \cap {"on_speedtest", "rebuild", "on_flash_success", "show_flash_failed",
                            "show_interrupted_error"} = {}
  BY DEF TypeOK, JobCallbacks
<1> DEFINE Queued(v) == Cardinality(JobCalls(idle, v))
           Same(v) == jobs'[v] = jobs[v] /\ installers'[v] = installers[v]
                        /\ Cardinality(JobCalls(idle', v)) = Queued(v)
<1>a. \A v \in Windows : /\ Queued(v) \in Nat /\ jobs[v] \in Int /\ installers[v] \in Nat
                         /\ jobs[v] = installers[v] + Queued(v)
  BY <1>0, JobsFinite DEF JobsCounted
\* An install that begins, ends or is answered moves the two sides alike.
<1>b. ASSUME NEW w \in Windows, \A v \in Windows \ {w} : Same(v),
             jobs'[w] = installers'[w] + Cardinality(JobCalls(idle', w))
      PROVE  JobsCounted'
  BY <1>a, <1>b DEF JobsCounted
<1>1. ASSUME NEW w \in Windows, OnInstallDepsResponse(w) PROVE JobsCounted'
  <2>1. /\ jobs'[w] = jobs[w] + 1 /\ installers'[w] = installers[w] + 1 /\ UNCHANGED idle
        /\ \A v \in Windows \ {w} : Same(v)
    BY <1>0, <1>1 DEF OnInstallDepsResponse
  <2>2. jobs'[w] = installers'[w] + Cardinality(JobCalls(idle', w))
    BY <1>a, <2>1
  <2> QED BY <1>b, <2>1, <2>2
<1>2. ASSUME NEW w \in Windows, UserStep(w), ~OnInstallDepsResponse(w) PROVE JobsCounted'
  BY <1>2, UserJobs, UserRest, JobsLeft
<1>3. ASSUME NEW w \in Windows, InstallDepsWorker(w) PROVE JobsCounted'
  <2>1. PICK c \in JobCallbacks : IdleAdd(c, w, NoWorker)
    BY <1>3 DEF InstallDepsWorker
  <2> DEFINE cb == [fn |-> c, win |-> w, flash |-> NoWorker]
  <2>2. cb \in Callbacks /\ cb.fn \in JobCallbacks /\ cb.win = w /\ idle' = Append(idle, cb)
    BY <2>1 DEF Callbacks, IdleAdd
  <2> HIDE DEF cb
  <2>3. /\ Cardinality(JobCalls(idle', w)) = Queued(w) + 1
        /\ \A v \in Windows \ {w} : Cardinality(JobCalls(idle', v)) = Queued(v)
    BY <1>0, <1>a, <2>2, JobsPosted
  <2>4. /\ jobs'[w] = jobs[w] /\ installers'[w] = installers[w] - 1
        /\ \A v \in Windows \ {w} : jobs'[v] = jobs[v] /\ installers'[v] = installers[v]
    BY <1>0, <1>3 DEF InstallDepsWorker
  <2>5. jobs'[w] = installers'[w] + Cardinality(JobCalls(idle', w))
    BY <1>a, <2>3, <2>4
  <2> QED BY <1>b, <2>3, <2>4, <2>5
<1>4. ASSUME NEW w \in Windows, OnDepsInstalledSuccess(w) \/ ShowDepsError(w) PROVE JobsCounted'
  <2>1. /\ idle # <<>> /\ idle' = Tail(idle) /\ Head(idle).win = w /\ Head(idle).fn \in JobCallbacks
        /\ UNCHANGED installers /\ jobs' = [jobs EXCEPT ![w] = @ - 1]
    BY <1>4 DEF OnDepsInstalledSuccess, ShowDepsError, Called, JobCallbacks
  <2>2. Tail(idle) \in Seq(Callbacks)
    BY <1>0, <2>1, StackPop
  <2>3. \A v : Cardinality(JobCalls(Tail(idle), v)) \in Nat
    BY <2>2, JobsFinite
  <2>4. /\ Queued(w) = Cardinality(JobCalls(Tail(idle), w)) + 1
        /\ \A v \in Windows \ {w} : Queued(v) = Cardinality(JobCalls(Tail(idle), v))
    <3>1. Queued(w) = Cardinality(JobCalls(Tail(idle), w)) + 1
      BY <1>0, <2>1, JobsRun
    <3>2. ASSUME NEW v \in Windows \ {w} PROVE Queued(v) = Cardinality(JobCalls(Tail(idle), v))
      <4>1. Queued(v) = Cardinality(JobCalls(Tail(idle), v)) + 0
        BY <1>0, <2>1, JobsRun
      <4> QED BY <2>3, <4>1
    <3> QED BY <3>1, <3>2
  <2>5. jobs'[w] = jobs[w] - 1 /\ \A v \in Windows \ {w} : Same(v)
    BY <1>0, <2>1, <2>4
  <2>6. jobs'[w] = installers'[w] + Cardinality(JobCalls(idle', w))
    <3> DEFINE left == Cardinality(JobCalls(Tail(idle), w))
    <3>1. left \in Nat /\ Queued(w) = left + 1
      BY <2>3, <2>4
    <3>2. jobs[w] \in Int /\ installers[w] \in Nat /\ jobs[w] = installers[w] + Queued(w)
      BY <1>a
    <3>3. jobs'[w] = installers[w] + left
      BY <2>5, <3>1, <3>2
    <3>4. installers'[w] = installers[w] /\ Cardinality(JobCalls(idle', w)) = left
      BY <2>1
    <3> QED BY <3>3, <3>4
  <2> QED BY <1>b, <2>5, <2>6
<1>5. ASSUME NEW w \in Windows, NEW u \in Windows, NEW f \in Flashes,
             \/ OnSpeedtest(w) \/ Rebuild(w, u) \/ OnFlashSuccess(w, f)
             \/ ShowFlashFailed(w, f) \/ ShowInterruptedError(w, f)
      PROVE  JobsCounted'
  <2>1. /\ idle # <<>> /\ idle' = Tail(idle) /\ UNCHANGED <<jobs, installers>>
        /\ Head(idle).fn \in {"on_speedtest", "rebuild", "on_flash_success", "show_flash_failed",
                              "show_interrupted_error"}
    BY <1>5 DEF OnSpeedtest, Rebuild, OnFlashSuccess, ShowFlashFailed, ShowInterruptedError, Called,
                jobVars
  <2> QED BY <1>0, <2>1, JobsLeft
<1>6. ASSUME NEW w \in Windows, NEW f \in Flashes,
             OnActivate(w) \/ RefuseMarks(w) \/ RefuseAnswers(w, f)
      PROVE  JobsCounted'
  BY <1>6, JobsLeft DEF OnActivate, RefuseMarks, RefuseAnswers, jobVars
<1>7. ASSUME NEW f \in Flashes, WorkerStep(f) PROVE JobsCounted'
  <2>1. UNCHANGED <<jobs, installers>> /\ owner[f] \in Windows
    BY <1>7, ThreadFrameHolds DEF jobVars, TypeOK
  <2>2. CASE CheckDrive(f) \/ AskSpeed(f) \/ WaitAnswer(f) \/ WriterStops(f) \/ WriterEnds(f)
             \/ LowerFlag(f) \/ ThreadEnds(f)
    <3>1. UNCHANGED idle
      BY <2>2 DEF CheckDrive, AskSpeed, WaitAnswer, WriterStops, WriterEnds, LowerFlag, ThreadEnds
    <3> QED BY <2>1, <3>1, JobsLeft
  <2>3. CASE PrepareToGo(f) \/ ReportFailure(f) \/ ReportSuccess(f) \/ ReportStopped(f)
    <3>1. UNCHANGED idle \/ \E c \in FlashCallbacks : IdleAdd(c, owner[f], f)
      BY <2>3 DEF PrepareToGo, ReportFailure, ReportSuccess, ReportStopped, FlashCallbacks
    <3> QED BY <2>1, <3>1, JobsLeft
  <2> QED BY <1>7, <2>2, <2>3 DEF WorkerStep
<1>8. CASE UNCHANGED vars
  BY <1>8, JobsLeft DEF vars, jobVars
<1> QED
  BY <1>1, <1>2, <1>3, <1>4, <1>5, <1>6, <1>7, <1>8, BoundsAssumption
  DEF Next, Terminated, LoopStep, Flashes

\* self.jobs counts the installs that run or whose callback is still queued,
\* whatever else the windows and the threads do.
THEOREM JobsAreCounted == Spec => []JobsCounted
<1>1. Init => JobsCounted
  <2>1. \A w : Cardinality(JobCalls(<<>>, w)) = 0
    <3>1. \A w : JobCalls(<<>>, w) = {}
      BY DEF JobCalls
    <3> QED BY <3>1, FS_EmptySet
  <2>2. Init => idle = <<>> /\ \A w \in Windows : jobs[w] = 0 /\ installers[w] = 0
    BY DEF Init
  <2> QED BY <2>1, <2>2 DEF JobsCounted
<1>2. TypeOK /\ JobsCounted /\ [Next]_vars => JobsCounted'
  BY JobsKept
<1> QED
  BY <1>1, <1>2, TypeCorrect, PTL DEF Spec
=============================================================================
