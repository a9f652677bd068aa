-------------------------- MODULE RestoreTransaction --------------------------
(***************************************************************************)
(* One "apply" of a saved session: the executor (session_v2/executor.py)   *)
(* drives the compositor through the journal of RecoveryJournal, while the *)
(* guard (session_v2/guard.py), an external watchdog, holds the layout     *)
(* helpers stopped, watches the executor, and takes over its obligations   *)
(* when it fails, dies or exceeds its deadline.  The two talk over a       *)
(* socket pair; the guard inherits the transaction lock.                   *)
(*                                                                         *)
(* A helper that was already stopped when the guard met it is not the      *)
(* guard's to resume; every other one is owed a SIGCONT from before its    *)
(* SIGSTOP until the SIGCONT is proved to have worked.                     *)
(***************************************************************************)
EXTENDS RecoveryJournal

CONSTANTS
    Engine, Guard,
    Helpers,        \* the layout helpers that guard.discover found
    Killable,       \* the processes that may be killed (subset of Procs)
    MaxFaults       \* bound on handshake timeouts and helper signal failures

ASSUME ProcsAssumption == Procs = {Engine, Guard} /\ Engine # Guard
ASSUME FaultsAssumption == Killable \subseteq Procs /\ MaxFaults \in Nat

VARIABLES
    pcE,        \* phase of Executor._apply
    left,       \* windows the current loop of _apply has still to handle
    owned,      \* _apply's "guard is not None"
    pcG,        \* phase of guard.run
    normal,     \* guard: the executor asked it to finish
    prepared,   \* guard: the anchor helper was proven to be gone
    request,    \* control socket, executor to guard
    answer,     \* control socket, guard to executor
    closed,     \* the executor's end of the control socket is closed
    helpers,    \* the process state of each layout helper
    owed,       \* guard: helpers it must resume ("stopped" and not "resumed")
    frozen,     \* history: helpers the guard found stopped, or not at all
    report,     \* durable: session-v2-restore-attempt.json
    faults      \* what is left of MaxFaults

engineVars == <<pcE, left, owned>>
guardVars == <<pcG, normal, prepared>>
channelVars == <<request, answer, closed>>
helperVars == <<helpers, owed, frozen>>
tvars == <<engineVars, guardVars, channelVars, helperVars, report, faults>>
vars == <<jvars, tvars>>

EnginePhases == {"idle", "open", "attempt", "spawn", "ready", "admit", "stage",
                 "mark", "show", "resolve", "swap", "verify",
                 "prepared", "focus", "resume", "resumed", "finished",
                 "complete", "receipt", "success",
                 "abandon", "failing", "finishing", "closing", "recovering"}
GuardPhases == {"off", "stopping", "watch", "clean", "decide", "recovering",
                "resume", "report", "error", "error-recovering", "error-report"}
Awaiting == {"prepared", "resumed", "finished"}

TransactionTypeOK ==
    /\ TypeOK
    /\ pcE \in EnginePhases /\ pcG \in GuardPhases
    /\ left \subseteq Windows
    /\ owned \in BOOLEAN /\ normal \in BOOLEAN /\ prepared \in BOOLEAN
    /\ request \in {"none", "prepare", "resume", "finish"}
    /\ answer \in {"none", "ready", "prepared", "resumed", "finished", "failed"}
    /\ closed \in BOOLEAN
    /\ helpers \in [Helpers -> {"running", "stopped", "gone"}]
    /\ owed \subseteq Helpers /\ frozen \subseteq Helpers
    /\ report \in [tx : Nat,
                   status : {"none", "running", "success", "failed", "interrupted"}]
    /\ faults \in 0..MaxFaults

TransactionInit ==
    /\ Init
    /\ pcE = "idle" /\ left = {} /\ owned = FALSE
    /\ pcG = "off" /\ normal = FALSE /\ prepared = FALSE
    /\ request = "none" /\ answer = "none" /\ closed = FALSE
    /\ helpers \in [Helpers -> {"running", "stopped"}]
    /\ owed = {}
    /\ frozen = {h \in Helpers : helpers[h] = "stopped"}
    /\ report = [tx |-> 0, status |-> "none"]
    /\ faults = MaxFaults

Fault == faults > 0 /\ faults' = faults - 1
ReportAs(status) == report' = [report EXCEPT !.status = status]

-----------------------------------------------------------------------------
\* The executor: opening.

\* The lock is free only when no guard still holds its inherited descriptor.
EBegin ==
    /\ pcE = "idle" /\ pcG = "off"
    /\ Begin(Engine)
    /\ pcE' = "open" /\ owned' = FALSE
    /\ UNCHANGED <<left, guardVars, channelVars, helperVars, report, faults>>

EOpen ==
    /\ pcE = "open"
    /\ OpenReceipt(Engine)
    /\ pcE' = "attempt"
    /\ UNCHANGED <<left, owned, guardVars, channelVars, helperVars, report, faults>>

EAttempt ==
    /\ pcE = "attempt"
    /\ report' = [tx |-> journal.tx, status |-> "running"]
    /\ pcE' = "spawn"
    /\ UNCHANGED <<jvars, left, owned, guardVars, channelVars, helperVars, faults>>

\* Anchors and Guard are started; Guard.__init__ waits for "ready".  A new guard
\* owes nothing: what a killed one left stopped is to it somebody else's.
ESpawn ==
    /\ pcE = "spawn"
    /\ pcE' = "ready"
    /\ pcG' = "stopping" /\ normal' = FALSE /\ prepared' = FALSE
    /\ request' = "none" /\ answer' = "none" /\ closed' = FALSE
    /\ owed' = {} /\ frozen' = {h \in Helpers : helpers[h] # "running"}
    /\ UNCHANGED <<jvars, left, owned, helpers, report, faults>>

\* Mistake: the guard is started and not waited for.
EReadyUnheard ==
    /\ pcE = "ready"
    /\ answer' = "none"
    /\ owned' = TRUE
    /\ pcE' = "admit" /\ left' = Windows
    /\ UNCHANGED <<jvars, guardVars, request, closed, helperVars, report, faults>>

EReady ==
    /\ pcE = "ready" /\ answer = "ready"
    /\ answer' = "none"
    /\ owned' = TRUE
    /\ pcE' = "admit" /\ left' = Windows
    /\ UNCHANGED <<jvars, guardVars, request, closed, helperVars, report, faults>>

\* check_batch: every window of phase 0 is where it was observed or confirmed.
BatchKept ==
    foreign = "kept" /\ \A w \in Windows : InPlace(mem[Engine], w)

EAdmit(w) ==
    /\ pcE = "admit" /\ w \in left
    /\ Admit(Engine, w)
    /\ left' = left \ {w}
    /\ UNCHANGED <<pcE, owned, guardVars, channelVars, helperVars, report, faults>>

EAdmitted ==
    /\ pcE = "admit" /\ left = {} /\ BatchKept
    /\ pcE' = "stage" /\ left' = Windows
    /\ UNCHANGED <<jvars, owned, guardVars, channelVars, helperVars, report, faults>>

-----------------------------------------------------------------------------
\* The executor: driving.

Driving(phase) == pcE = phase /\ at[Engine] = "driving"

\* A command of the executor: the phase changes once its intention is durable.
ECommand(op, w, phase) ==
    /\ \/ Issue(Engine, op, w) /\ pcE' = phase
       \/ IssueRefused(Engine) /\ pcE' = "failing"
    /\ UNCHANGED <<owned, guardVars, channelVars, helperVars, report, faults>>

EStage(w) ==
    /\ Driving("stage") /\ w \in left /\ BatchKept
    /\ ECommand("stage", w, "stage")
    /\ left' = left \ {w}

EBuild ==
    /\ Driving("stage") /\ left = {}
    /\ CreateAnchor(Engine)
    /\ pcE' = "mark"
    /\ UNCHANGED <<left, owned, guardVars, channelVars, helperVars, report, faults>>

EMark ==
    /\ Driving("mark")
    /\ ECommand("mark", NoWindow, "show")
    /\ UNCHANGED left

EShow ==
    /\ Driving("show")
    /\ ECommand("show", NoWindow, "resolve")
    /\ UNCHANGED left

\* The identities are resolved and the slots assigned; the batch is checked
\* again because the provider may have waited.
EResolve ==
    /\ Driving("resolve") /\ BatchKept
    /\ pcE' = "swap" /\ left' = Windows
    /\ UNCHANGED <<jvars, owned, guardVars, channelVars, helperVars, report, faults>>

ESwap(w) ==
    /\ Driving("swap") /\ w \in left
    /\ loc[w] = "stage" /\ anchor # "none"
    /\ ECommand("swap", w, "swap")
    /\ left' = left \ {w}

ECleanup ==
    /\ Driving("swap") /\ left = {}
    /\ ECommand("kill", NoWindow, "verify")
    /\ UNCHANGED left

\* What the compositor did with the command in flight.
ECommandStep ==
    /\ pcE \notin {"recovering", "closing", "failing", "finishing", "abandon"}
    /\ \/ Send(Engine) \/ SendLost(Engine) \/ SendRejected(Engine)
       \/ Confirm(Engine) \/ ConfirmConflict(Engine) \/ ConfirmFailed(Engine)
    /\ pcE' = IF at'[Engine] = "failed" THEN "failing" ELSE pcE
    /\ UNCHANGED <<left, owned, guardVars, channelVars, helperVars, report, faults>>

\* _verify and _verify_structure: the saved layout is there.
LayoutVerified == \A w \in Windows : loc[w] = "slot"

Ask(message, phase) ==
    /\ request' = message /\ answer' = "none"
    /\ pcE' = phase
    /\ UNCHANGED <<jvars, left, owned, guardVars, closed, helperVars, report, faults>>

EPrepare ==
    /\ Driving("verify") /\ LayoutVerified /\ anchor = "none"
    /\ FocusHeld(mem[Engine])
    /\ Ask("prepare", "prepared")

EPrepared ==
    /\ Driving("prepared") /\ answer = "prepared"
    /\ FocusHeld(mem[Engine])
    /\ pcE' = "focus"
    /\ UNCHANGED <<jvars, left, owned, guardVars, channelVars, helperVars, report,
                   faults>>

EFocus(w) ==
    /\ Driving("focus")
    /\ ECommand("focus", w, "resume")
    /\ UNCHANGED left

EResume ==
    /\ Driving("resume") /\ FocusHeld(mem[Engine])
    /\ Ask("resume", "resumed")

EFinish ==
    /\ Driving("resumed") /\ answer = "resumed"
    /\ FocusHeld(mem[Engine]) /\ LayoutVerified
    /\ Ask("finish", "finished")

\* Mistake: the guard is asked to finish and not waited for.
EFinishedEarly ==
    /\ Driving("finished")
    /\ owned' = FALSE
    /\ pcE' = "complete"
    /\ UNCHANGED <<jvars, left, guardVars, channelVars, helperVars, report, faults>>

\* guard.finish returns once the guard's process has ended.
EFinished ==
    /\ Driving("finished") /\ answer = "finished" /\ pcG = "off"
    /\ owned' = FALSE
    /\ pcE' = "complete"
    /\ UNCHANGED <<jvars, left, guardVars, channelVars, helperVars, report, faults>>

EComplete ==
    /\ pcE = "complete"
    /\ Complete(Engine)
    /\ pcE' = "receipt"
    /\ UNCHANGED <<left, owned, guardVars, channelVars, helperVars, report, faults>>

EReceipt ==
    /\ pcE = "receipt"
    /\ CompleteReceipt(Engine)
    /\ pcE' = "success"
    /\ UNCHANGED <<left, owned, guardVars, channelVars, helperVars, report, faults>>

ESuccess ==
    /\ pcE = "success"
    /\ ReportAs("success")
    /\ pcE' = "idle"
    /\ UNCHANGED <<jvars, left, owned, guardVars, channelVars, helperVars, faults>>

-----------------------------------------------------------------------------
\* The executor: failure.

\* A check of the driving part fails, or one of its reads raises.
ERaise ==
    /\ pcE \notin {"idle", "open", "ready"} /\ at[Engine] = "driving"
    /\ pcE \notin Awaiting
    /\ Raise(Engine)
    /\ pcE' = "failing"
    /\ UNCHANGED <<left, owned, guardVars, channelVars, helperVars, report, faults>>

\* A boundary of the guard's transitions observes a focus it did not expect.
EBoundaryConflict ==
    /\ pcE \in {"verify", "prepared", "resume", "resumed", "complete"}
    /\ BoundaryConflict(Engine)
    /\ pcE' = "failing"
    /\ UNCHANGED <<left, owned, guardVars, channelVars, helperVars, report, faults>>

\* The guard answered an error, died, or did not answer in time; or its answer
\* came and a verification that follows it failed.
EAnswerFailed ==
    /\ Driving(pcE) /\ pcE \in Awaiting
    /\ \/ answer # "none" /\ UNCHANGED faults
       \/ pcG = "off" /\ UNCHANGED faults
       \/ Fault
    /\ Raise(Engine)
    /\ pcE' = "failing"
    /\ UNCHANGED <<left, owned, guardVars, channelVars, helperVars, report>>

\* Guard.__init__ closes the socket, then waits for the process to end.
EReadyFailed ==
    /\ Driving("ready")
    /\ \/ (answer = "failed" \/ pcG = "off") /\ UNCHANGED faults
       \/ Fault
    /\ Raise(Engine)
    /\ closed' = TRUE
    /\ pcE' = "abandon"
    /\ UNCHANGED <<left, owned, guardVars, request, answer, helperVars, report>>

EAbandon ==
    /\ pcE = "abandon"
    /\ \/ pcG = "off" /\ UNCHANGED faults
       \/ Fault
    /\ pcE' = "failing"
    /\ UNCHANGED <<jvars, left, owned, guardVars, channelVars, helperVars, report>>

\* except, then finally: the failure is published before the guard finishes.
EFailing ==
    /\ pcE = "failing"
    /\ report' = [tx |-> journal.tx, status |-> "failed"]
    /\ IF owned
       THEN pcE' = "finishing" /\ request' = "finish" /\ answer' = "none"
       ELSE pcE' = "closing" /\ UNCHANGED <<request, answer>>
    /\ UNCHANGED <<jvars, left, owned, guardVars, closed, helperVars, faults>>

\* Mistake: the executor recovers while the guard may still be recovering.
EFinishingAtOnce ==
    /\ pcE = "finishing"
    /\ pcE' = "closing"
    /\ UNCHANGED <<jvars, left, owned, guardVars, channelVars, helperVars, report,
                   faults>>

\* Mistake: the guard is believed to be ending only once it has answered.
EFinishingUnanswered ==
    /\ pcE = "finishing" /\ answer = "finished"
    /\ pcE' = "closing"
    /\ UNCHANGED <<jvars, left, owned, guardVars, channelVars, helperVars, report,
                   faults>>

EFinishing ==
    /\ pcE = "finishing"
    /\ \/ pcG = "off" /\ UNCHANGED faults
       \/ Fault
    /\ pcE' = "closing"
    /\ UNCHANGED <<jvars, left, owned, guardVars, channelVars, helperVars, report>>

\* anchors.close, then Recovery(...).recover().
EClosing ==
    /\ pcE = "closing" /\ anchor # "none"
    /\ AnchorGone
    /\ UNCHANGED <<fileVars, at, mem, cmd, scanVars, histVars, budget, tvars>>

\* Mistake: the executor relies on the guard's recovery alone.
ERecoverNot ==
    /\ pcE = "closing" /\ anchor = "none"
    /\ Exit(Engine)
    /\ pcE' = "idle"
    /\ UNCHANGED <<treeVars, fileVars, histVars, budget, left, owned, guardVars,
                   channelVars, helperVars, report, faults>>

ERecover ==
    /\ pcE = "closing" /\ anchor = "none"
    /\ EnterRecovery(Engine)
    /\ pcE' = IF at'[Engine] = "off" THEN "idle" ELSE "recovering"
    /\ UNCHANGED <<left, owned, guardVars, channelVars, helperVars, report, faults>>

RecoveryStep(p) ==
    Recover(p) \/ Send(p) \/ SendLost(p) \/ SendRejected(p)

ERecovering ==
    /\ pcE = "recovering"
    /\ RecoveryStep(Engine)
    /\ pcE' = IF at'[Engine] = "off" THEN "idle" ELSE pcE
    /\ UNCHANGED <<left, owned, guardVars, channelVars, helperVars, report, faults>>

EngineDies ==
    /\ pcE # "idle"
    /\ IF at[Engine] = "off" THEN UNCHANGED jvars ELSE Crash(Engine)
    /\ pcE' = "idle" /\ left' = {} /\ owned' = FALSE

ECrash ==
    /\ Engine \in Killable
    /\ EngineDies
    /\ UNCHANGED <<guardVars, channelVars, helperVars, report, faults>>
-----------------------------------------------------------------------------
\* The guard.

Answer(message) == answer' = message
GPhase(phase) == pcG' = phase

GFrame == UNCHANGED <<engineVars, closed, report>>

EngineDead == pcE = "idle"
Unheard == EngineDead \/ closed    \* nobody is at the other end of the socket

\* One helper: verified, then stopped.  The obligation precedes the SIGSTOP.
GStop(h) ==
    /\ pcG = "stopping" /\ h \notin owed
    /\ helpers[h] = "running"
    /\ helpers' = [helpers EXCEPT ![h] = "stopped"]
    /\ owed' = owed \cup {h}
    /\ GFrame
    /\ UNCHANGED <<jvars, pcG, normal, prepared, request, answer, frozen, faults>>

GReady ==
    /\ pcG = "stopping"
    /\ \A h \in Helpers : helpers[h] = "stopped" \/ h \in owed \cup frozen
    /\ IF Unheard THEN GPhase("error") /\ UNCHANGED answer
                  ELSE GPhase("watch") /\ Answer("ready")
    /\ GFrame /\ UNCHANGED <<jvars, normal, prepared, request, helperVars, faults>>

\* Mistake: the obligation is recorded once the helper is seen stopped.
GStopFailsUnowed(h) ==
    /\ pcG = "stopping" /\ h \notin owed
    /\ \/ helpers[h] = "gone" /\ UNCHANGED <<helpers, owed, faults>>
       \/ /\ helpers[h] = "running" /\ Fault
          /\ helpers' \in {helpers, [helpers EXCEPT ![h] = "stopped"]}
          /\ UNCHANGED owed
    /\ GPhase("error")
    /\ GFrame /\ UNCHANGED <<jvars, normal, prepared, request, answer, frozen>>

\* A helper has ended, cannot be verified, or does not stop in time.
GStopFails(h) ==
    /\ pcG = "stopping" /\ h \notin owed
    /\ \/ helpers[h] = "gone" /\ UNCHANGED <<helpers, owed, faults>>
       \/ helpers[h] = "running" /\ UNCHANGED <<helpers, owed>> /\ Fault
       \/ /\ helpers[h] = "running" /\ Fault
          /\ owed' = owed \cup {h}
          /\ helpers' \in {helpers, [helpers EXCEPT ![h] = "stopped"]}
    /\ GPhase("error")
    /\ GFrame /\ UNCHANGED <<jvars, normal, prepared, request, answer, frozen>>

\* resume_helpers: each helper still owed is verified and resumed, or gone; those
\* that fail stay owed and do not keep the others from being resumed.
Resume(failed) ==
    /\ helpers' = [h \in Helpers |->
                     IF h \in owed \ failed /\ helpers[h] = "stopped"
                     THEN "running" ELSE helpers[h]]
    /\ owed' = owed \cap failed
    /\ UNCHANGED frozen

\* One fault is one call that fails, of whichever helpers cannot be verified or
\* do not resume in time: a lasting cause takes a fault at each call.
ResumeFails ==
    /\ Fault
    /\ \E failed \in SUBSET {h \in owed : helpers[h] # "gone"} :
          failed # {} /\ Resume(failed)

\* A call whose result is not looked at.
Resuming ==
    \/ Resume({}) /\ UNCHANGED faults
    \/ ResumeFails

Serving(message) == pcG = "watch" /\ ~Unheard /\ request = message

\* The anchors are gone and the helper process that showed them has ended.
GPrepare ==
    /\ Serving("prepare") /\ ~prepared /\ anchor = "none"
    /\ prepared' = TRUE
    /\ Answer("prepared") /\ request' = "none"
    /\ GFrame /\ UNCHANGED <<jvars, pcG, normal, helperVars, faults>>

GResume ==
    /\ Serving("resume") /\ prepared
    /\ Resume({})
    /\ Answer("resumed") /\ request' = "none"
    /\ GFrame /\ UNCHANGED <<jvars, pcG, normal, prepared, faults>>

\* An anchor is left, the anchor helper does not end, a layout helper does not
\* resume, or the executor died after its request was read: the answer raises.
GServeFails ==
    /\ \/ /\ Serving("prepare") /\ (anchor # "none" \/ prepared)
          /\ UNCHANGED <<helperVars, faults>>
       \/ Serving("prepare") /\ Fault /\ UNCHANGED helperVars
       \/ Serving("resume") /\ ResumeFails
       \/ /\ pcG = "watch" /\ EngineDead /\ request = "prepare"
          /\ UNCHANGED <<helperVars, faults>>
       \/ /\ pcG = "watch" /\ EngineDead /\ request = "resume" /\ prepared
          /\ Resuming
    /\ GPhase("error")
    /\ GFrame
    /\ UNCHANGED <<jvars, normal, prepared, request, answer>>

GFinish ==
    /\ Serving("finish")
    /\ normal' = TRUE
    /\ GPhase("clean")
    /\ GFrame /\ UNCHANGED <<jvars, prepared, request, answer, helperVars, faults>>

\* Mistake: only the socket is watched for end of file, not the executor.
GEngineLostUnseen ==
    /\ pcG = "watch"
    /\ closed
    /\ GPhase("clean")
    /\ GFrame
    /\ UNCHANGED <<jvars, normal, prepared, request, answer, helperVars, faults>>

\* The executor died, or closed its end without asking to finish.
GEngineLost ==
    /\ pcG = "watch"
    /\ Unheard
    /\ GPhase("clean")
    /\ GFrame
    /\ UNCHANGED <<jvars, normal, prepared, request, answer, helperVars, faults>>

\* The deadline: the executor is killed, whatever it is doing.
GDeadline ==
    /\ pcG = "watch" /\ Engine \in Killable
    /\ EngineDies
    /\ GPhase("clean")
    /\ UNCHANGED <<normal, prepared, channelVars, helperVars, report, faults>>

\* Anchors that remain are killed through the journal of the executor.
GClean ==
    /\ pcG = "clean" /\ at[Guard] = "off"
    /\ ~prepared /\ anchor # "none"
    /\ \/ CleanIssue(Guard) /\ GPhase("clean")
       \/ CleanRefused(Guard) /\ GPhase("error")
    /\ GFrame
    /\ UNCHANGED <<normal, prepared, request, answer, helperVars, faults>>

GCleanStep ==
    /\ pcG = "clean"
    /\ \/ Send(Guard) \/ SendLost(Guard) \/ SendRejected(Guard)
       \/ Confirm(Guard) \/ ConfirmConflict(Guard) \/ ConfirmFailed(Guard)
    /\ GPhase(IF at'[Guard] = "failed" THEN "error" ELSE "clean")
    /\ GFrame
    /\ UNCHANGED <<normal, prepared, request, answer, helperVars, faults>>

GCleaned ==
    /\ pcG = "clean" /\ at[Guard] = "off"
    /\ prepared \/ anchor = "none"
    /\ GPhase("decide")
    /\ GFrame
    /\ UNCHANGED <<jvars, normal, prepared, request, answer, helperVars, faults>>

\* The windows are recovered while the helpers are still held.
GDecide ==
    /\ pcG = "decide"
    /\ IF ~normal \/ report.status = "failed"
       THEN /\ EnterRecovery(Guard)
            /\ GPhase(IF at'[Guard] = "off" THEN "resume" ELSE "recovering")
       ELSE GPhase("resume") /\ UNCHANGED jvars
    /\ GFrame
    /\ UNCHANGED <<normal, prepared, request, answer, helperVars, faults>>

GRecovering ==
    /\ pcG \in {"recovering", "error-recovering"}
    /\ RecoveryStep(Guard)
    /\ GPhase(IF at'[Guard] # "off" THEN pcG
              ELSE IF pcG = "recovering" THEN "resume" ELSE "error-report")
    /\ GFrame
    /\ UNCHANGED <<normal, prepared, request, answer, helperVars, faults>>

GRelease ==
    /\ pcG = "resume"
    /\ \/ Resume({}) /\ GPhase("report") /\ UNCHANGED faults
       \/ ResumeFails /\ GPhase("error")
    /\ GFrame
    /\ UNCHANGED <<jvars, normal, prepared, request, answer>>

\* Leaving tries once more to resume what is still owed, and ends whatever comes
\* of it; it closes the anchor helper's input: its surfaces go with it.
GLeave(message) ==
    /\ Answer(message)
    /\ Resuming
    /\ GPhase("off")
    /\ AnchorGone
    /\ UNCHANGED <<engineVars, normal, prepared, request, closed,
                   fileVars, at, mem, cmd, scanVars, histVars, budget>>

Interrupted ==
    report' = [report EXCEPT !.status = IF @ = "running" THEN "interrupted" ELSE @]

GReport ==
    /\ pcG = "report" /\ (normal => ~Unheard)
    /\ IF normal THEN GLeave("finished") /\ UNCHANGED report
                 ELSE GLeave(answer) /\ Interrupted

\* The executor asked to finish and died since: the answer raises.
GReportFails ==
    /\ pcG = "report" /\ normal /\ Unheard
    /\ GPhase("error")
    /\ GFrame
    /\ UNCHANGED <<jvars, normal, prepared, request, answer, helperVars, faults>>

\* The error path resumes the helpers first, stops the anchor helper, then
\* recovers.
GError ==
    /\ pcG = "error"
    /\ Resuming
    /\ \/ AnchorGone
       \/ UNCHANGED treeVars
    /\ GPhase("error-recovering")
    /\ GFrame
    /\ UNCHANGED <<fileVars, at, mem, cmd, scanVars, histVars, budget, normal,
                   prepared, request, answer>>

GErrorRecover ==
    /\ pcG = "error-recovering"
    /\ EnterRecovery(Guard)
    /\ GPhase(IF at'[Guard] = "off" THEN "error-report" ELSE pcG)
    /\ GFrame
    /\ UNCHANGED <<normal, prepared, request, answer, helperVars, faults>>

GErrorReport ==
    /\ pcG = "error-report"
    /\ GLeave("failed") /\ Interrupted

GCrash ==
    /\ Guard \in Killable /\ pcG # "off"
    /\ Crash(Guard) \/ CrashOutside(Guard)
    /\ GPhase("off")
    /\ GFrame
    /\ UNCHANGED <<normal, prepared, request, answer, helperVars, faults>>

\* A layout helper ends, stopped (SIGKILL) or running.
HelperEnds(h) ==
    /\ helpers[h] # "gone" /\ Fault
    /\ helpers' = [helpers EXCEPT ![h] = "gone"]
    /\ UNCHANGED <<jvars, engineVars, guardVars, channelVars, owed, frozen, report>>

-----------------------------------------------------------------------------
EngineStep ==
    \/ EBegin \/ EOpen \/ EAttempt \/ ESpawn \/ EReady
    \/ (\E w \in Windows : EAdmit(w) \/ EStage(w) \/ ESwap(w))
    \/ EAdmitted \/ EBuild \/ EMark \/ EShow \/ EResolve \/ ECleanup
    \/ ECommandStep
    \/ EPrepare \/ EPrepared \/ (\E w \in Windows \cup {NoWindow} : EFocus(w))
    \/ EResume \/ EFinish \/ EFinished \/ EComplete \/ EReceipt \/ ESuccess
    \/ ERaise \/ EBoundaryConflict \/ EAnswerFailed \/ EReadyFailed \/ EAbandon
    \/ EFailing \/ EFinishing \/ EClosing \/ ERecover \/ ERecovering

GuardStep ==
    \/ (\E h \in Helpers : GStop(h) \/ GStopFails(h))
    \/ GReady \/ GPrepare \/ GResume \/ GServeFails \/ GFinish
    \/ GEngineLost \/ GClean \/ GCleanStep \/ GCleaned \/ GDecide
    \/ GRecovering \/ GRelease \/ GReport \/ GReportFails
    \/ GError \/ GErrorRecover
    \/ GErrorReport

Environment ==
    \/ ECrash \/ GDeadline \/ GCrash
    \/ \E h \in Helpers : HelperEnds(h)
    \/ User /\ UNCHANGED tvars

TransactionNext == EngineStep \/ GuardStep \/ Environment

TransactionSpec == TransactionInit /\ [][TransactionNext]_vars

\* The two processes are scheduled; nothing is assumed of the user, of crashes
\* or of faults.
FairSpec ==
    TransactionSpec /\ WF_vars(EngineStep /\ ~EBegin) /\ WF_vars(GuardStep)

-----------------------------------------------------------------------------
\* Correctness.

\* A success is what the user sees: when the report of the current
\* transaction says so, the journal and the receipt agree, the guard has
\* ended, and the helpers it had stopped run again.
SuccessIsComplete ==
    report.status = "success" /\ report.tx = journal.tx =>
        /\ journal.status = "complete"
        /\ receipt = [tx |-> journal.tx, status |-> "complete"]
        /\ owed = {} /\ pcG = "off"
        /\ \A h \in Helpers \ frozen : helpers[h] # "stopped"

\* While the executor moves windows the layout helpers are held: none of them
\* can rearrange the stage under it (guard.py, Guard.ready before the moves).
MovesWhileHeld ==
    at[Engine] = "issued" /\ ~Recovering(Engine) /\ Moves(cmd[Engine])
        => \A h \in Helpers : helpers[h] # "running"

\* A guard that ends unkilled leaves none of its helpers stopped after a single
\* failure, wherever that failure struck.  A helper it does leave stopped still
\* counts as owed, took at least two failures (the call of the error path and the
\* last one), and the guard never announced "finished".  "tenter tous les helpers
\* encore dus, puis signaler un echec global sans perdre leurs etats" (guard.py
\* 133-134).  A helper somebody else had stopped is never resumed: "un helper
\* initialement stoppe n'est jamais repris par Labfy" (guard.py 5).
HelpersReleased ==
    [][/\ pcG # "off" /\ pcG' = "off" /\ budget' = budget =>
              \A h \in Helpers \ frozen :
                  helpers'[h] = "stopped" => /\ h \in owed'
                                            /\ answer' = "failed"
                                            /\ faults' <= MaxFaults - 2
       /\ \A h \in frozen : helpers'[h] # "running"]_vars

\* The windows are recovered while the helpers are still held, unless the
\* executor had them resumed, which it may ask for only once "prepared".
\* (guard.py 220-222)
ReturnsWhileHeld ==
    at[Guard] = "issued" /\ cmd[Guard].op = "return" /\ ~prepared
        => \A h \in Helpers : helpers[h] # "running"

\* The journal protocol is what the two processes follow together.
Protocol == Spec

\* Every attempt ends, whatever its handshake with the guard comes to.
EngineEnds == (pcE # "idle") ~> (pcE = "idle")

\* A helper that was stopped runs again, unless two things failed: no single
\* failure of the handshake, of a signal or of a helper costs it its resumption.
HelpersResumed ==
    \A h \in Helpers :
        (h \in owed) ~> \/ h \notin owed /\ helpers[h] # "stopped"
                        \/ faults <= MaxFaults - 2

\* A journal left active is decided, complete, recovered or required, unless
\* the executor was killed (executor.py 424-449: every failure ends in recover).
JournalDecided ==
    (journal.status = "active")
        ~> (journal.status # "active" \/ budget["crash"] < MaxBudget["crash"])

\* Windows that the transaction has put in their slots do not stay under an
\* active journal: the executor's death does not prevent it (guard.py 1).
LayoutDecided ==
    (journal.status = "active" /\ \E w \in Windows : loc[w] = "slot")
        ~> (journal.status # "active" \/ \A w \in Windows : loc[w] # "slot")
=============================================================================
