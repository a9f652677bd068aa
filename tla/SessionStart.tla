---------------------------- MODULE SessionStart ----------------------------
(***************************************************************************)
(* The offer to restore the previous session: the chooser                  *)
(* (SessionStartupPromptV2.qml), the one backend process of the shell      *)
(* (SessionV2Service.qml), the claim and its acknowledgement (startup.py), *)
(* and the gate on the keyring (keyring.py, cli.py).  The shell may        *)
(* restart at any time; its backend dies with it or survives it, and the   *)
(* guard of a restore that died keeps the transaction lock for a while.    *)
(*                                                                         *)
(* Abstractions.  There is a checkpoint of an earlier compositor session.  *)
(* A restore is what RestoreTransaction models: here it only succeeds, is  *)
(* deferred or fails.  The claim of another session counts as none.  Two   *)
(* frames without the surface are one step.                                *)
(***************************************************************************)
EXTENDS Integers

CONSTANT MaxRestarts    \* bound on restarts of the shell

ASSUME StartAssumption == MaxRestarts \in Nat

VARIABLES
    popup,      \* the chooser
    operation,  \* SessionV2Service.operation
    keyState,   \* SessionV2Service.keyringState
    back,       \* the backend of the shell, and one that outlived a shell
    keyProc,    \* the keyring process of the shell
    admission,  \* who holds keyring.lock
    lock,       \* who holds transaction.lock
    marker,     \* startup.json, for this session
    report,     \* the restore attempt: "none", "success", "failed"
    locked,     \* whether the collection is locked
    restores,   \* history: restores of this session that succeeded
    restarts,   \* restarts of the shell so far
    early       \* history: a backend outlived its shell before it had the lock

tvars == <<popup, operation, keyState, back, keyProc, admission, lock, marker,
           report, locked, restores, restarts, early>>

BackendKinds == {"none", "status", "apply", "ack-new", "ack-restored", "report"}
Values == {"none", "shown", "deferred", "interrupted", "watch", "hidden", "ok",
           "failed", "keyring"}
KeyStates == {"CHECKING", "READY", "LOCKED", "CANCELLED", "UNAVAILABLE",
              "UNLOCKING"}
Idle == [kind |-> "none", pc |-> "off", value |-> "none"]
NewPopup == [visible |-> FALSE, attempted |-> FALSE, failed |-> FALSE,
             retry |-> FALSE, releasing |-> FALSE, restored |-> FALSE,
             watching |-> FALSE, checked |-> FALSE]

StartTypeOK ==
    /\ popup \in [visible : BOOLEAN, attempted : BOOLEAN, failed : BOOLEAN,
                  retry : BOOLEAN, releasing : BOOLEAN, restored : BOOLEAN,
                  watching : BOOLEAN, checked : BOOLEAN]
    /\ operation \in BackendKinds \cup {"release-focus"}
    /\ keyState \in KeyStates
    /\ back \in [{"child", "orphan"} ->
                   [kind : BackendKinds, pc : {"off", "go", "ready", "lock", "run", "end"},
                    value : Values]]
    /\ keyProc \in [unlock : BOOLEAN, pc : {"off", "go", "check", "prompt", "end"},
                    value : KeyStates]
    /\ admission \in {"free", "child", "orphan", "keyring"}
    /\ lock \in {"free", "child", "orphan", "guard"}
    /\ marker \in {"none", "claimed", "deferred", "new", "restored"}
    /\ report \in {"none", "success", "failed"}
    /\ locked \in BOOLEAN /\ restores \in Nat
    /\ restarts \in 0..MaxRestarts /\ early \in BOOLEAN

Asking(unlock) == [unlock |-> unlock, pc |-> "go", value |-> "CHECKING"]
NoKeyProc == [unlock |-> FALSE, pc |-> "off", value |-> "CHECKING"]

StartInit ==
    /\ popup = NewPopup /\ operation = "none" /\ keyState = "CHECKING"
    /\ back = [b \in {"child", "orphan"} |-> Idle] /\ keyProc = Asking(FALSE)
    /\ admission = "free" /\ lock = "free"
    /\ marker \in {"none", "new"} /\ report = "none" /\ locked \in BOOLEAN
    /\ restores = 0 /\ restarts = 0 /\ early = FALSE

qml == <<popup, operation, keyState>>
disk == <<marker, report, restores>>
KeyBusy == keyProc.pc # "off"
KeyReady == keyState = "READY" /\ ~KeyBusy
Busy == operation # "none" \/ back["child"].pc # "off"

-----------------------------------------------------------------------------
\* SessionV2Service.run, once its tests have passed.
Runs(kind) ==
    /\ operation' = kind
    /\ back' = [back EXCEPT !["child"] = [kind |-> kind, pc |-> "go", value |-> "none"]]
NoRun == UNCHANGED back /\ UNCHANGED operation
Ask(unlock) ==
    /\ keyProc' = Asking(unlock)
    /\ keyState' = IF unlock THEN "UNLOCKING" ELSE "CHECKING"

\* Mistake: the poll is not armed.
ReadStatusOnce ==
    /\ ~Busy /\ ~popup.checked
    /\ Runs("status")
    /\ popup' = [popup EXCEPT !.checked = TRUE]
    /\ UNCHANGED <<keyState, keyProc, admission, lock, disk, locked, restarts, early>>

\* The timers: the first status, and the poll while another backend runs.
ReadStatus ==
    /\ ~Busy /\ (~popup.checked \/ popup.watching)
    /\ Runs("status")
    /\ popup' = [popup EXCEPT !.checked = TRUE]
    /\ UNCHANGED <<keyState, keyProc, admission, lock, disk, locked, restarts, early>>

\* checkKeyring, from the unlock button or the timer.
CheckKeyring ==
    /\ popup.visible /\ ~Busy /\ ~KeyBusy
    /\ \/ ~KeyReady /\ Ask(TRUE)
       \/ keyState = "UNLOCKING" /\ Ask(FALSE)
    /\ UNCHANGED <<popup, operation, back, admission, lock, disk, locked, restarts, early>>

\* restoreRequested, prepareRestore
Request ==
    /\ popup.visible /\ KeyReady /\ ~Busy /\ ~popup.watching /\ ~popup.restored
    /\ ~popup.attempted \/ popup.retry
    /\ popup' = [popup EXCEPT !.attempted = TRUE, !.failed = FALSE, !.retry = FALSE,
                              !.releasing = TRUE, !.visible = FALSE]
    /\ operation' = "release-focus"
    /\ UNCHANGED <<keyState, back, keyProc, admission, lock, disk, locked, restarts, early>>

\* startRestore, or the surface has not gone in time.
Release ==
    /\ popup.releasing
    /\ \/ KeyReady /\ Runs("apply") /\ popup' = [popup EXCEPT !.releasing = FALSE]
       \/ /\ operation' = "none" /\ UNCHANGED back
          /\ popup' = [popup EXCEPT !.releasing = FALSE, !.failed = TRUE,
                                    !.retry = TRUE, !.visible = TRUE]
    /\ UNCHANGED <<keyState, keyProc, admission, lock, disk, locked, restarts, early>>

\* newSessionRequested, which cancels a keyring process.
NewSession ==
    /\ popup.visible /\ ~Busy /\ ~popup.restored
    /\ ~popup.attempted \/ popup.failed
    /\ Runs("ack-new")
    /\ keyProc' = IF KeyBusy THEN [keyProc EXCEPT !.pc = "end", !.value = "CANCELLED"]
                  ELSE keyProc
    /\ keyState' = "CHECKING"
    /\ admission' = IF admission = "keyring" THEN "free" ELSE admission
    /\ UNCHANGED <<popup, lock, disk, locked, restarts, early>>

CloseSuccess ==
    /\ popup.restored /\ popup.visible
    /\ popup' = [popup EXCEPT !.visible = FALSE]
    /\ UNCHANGED <<operation, keyState, back, keyProc, admission, lock, disk,
                   locked, restarts, early>>

-----------------------------------------------------------------------------
\* The backends (cli.py main, startup.py).
Ends(b, value) == back' = [back EXCEPT ![b].pc = "end", ![b].value = value]
NoTransaction == lock = "free"
Decided == marker \in {"new", "restored"}

\* startup.status with --execute: the claim, under the lock.
Status(b) ==
    /\ back[b].kind = "status" /\ back[b].pc = "go"
    /\ marker' = IF NoTransaction /\ marker = "none" THEN "claimed" ELSE marker
    /\ Ends(b, IF ~NoTransaction THEN "watch"
               ELSE CASE Decided -> "hidden"
                      [] marker = "none" -> "shown"
                      [] marker = "deferred" -> "deferred"
                      [] OTHER -> "interrupted")
    /\ UNCHANGED <<qml, keyProc, admission, lock, report, locked, restores, restarts, early>>

\* startup.acknowledge
Acknowledge(b) ==
    /\ back[b].kind \in {"ack-new", "ack-restored"} /\ back[b].pc = "go"
    /\ LET restored == back[b].kind = "ack-restored" IN
       IF ~NoTransaction \/ (restored /\ (marker = "none" \/ report # "success"))
       THEN Ends(b, "failed") /\ UNCHANGED marker
       ELSE /\ marker' = IF restored THEN "restored" ELSE "new"
            /\ Ends(b, "ok")
    /\ UNCHANGED <<qml, keyProc, admission, lock, report, locked, restores, restarts, early>>

ReadReport(b) ==
    /\ back[b].kind = "report" /\ back[b].pc = "go" /\ Ends(b, "ok")
    /\ UNCHANGED <<qml, keyProc, admission, lock, disk, locked, restarts, early>>

BackGoes(b, pc) == back' = [back EXCEPT ![b].pc = pc]
Applying(b, pc) == back[b].kind = "apply" /\ back[b].pc = pc

\* apply-last: admission, the keyring, the transaction lock, the claim's
\* annotation, the restore.
Admit(b) ==
    /\ Applying(b, "go")
    /\ IF admission = "free" THEN admission' = b /\ BackGoes(b, "ready")
       ELSE Ends(b, "failed") /\ UNCHANGED admission
    /\ UNCHANGED <<qml, keyProc, lock, disk, locked, restarts, early>>

RequireReady(b) ==
    /\ Applying(b, "ready")
    /\ \/ ~locked /\ BackGoes(b, "lock") /\ UNCHANGED admission
       \/ Ends(b, "keyring") /\ admission' = "free"
    /\ UNCHANGED <<qml, keyProc, lock, disk, locked, restarts, early>>

\* Mistake: a deferral is not taken back when the restore is tried again.
TakeLockDeferred(b) ==
    /\ Applying(b, "lock")
    /\ IF NoTransaction
       THEN /\ lock' = b /\ BackGoes(b, "run") /\ UNCHANGED admission
       ELSE Ends(b, "failed") /\ admission' = "free" /\ UNCHANGED lock
    /\ UNCHANGED <<qml, keyProc, disk, locked, restarts, early>>

TakeLock(b) ==
    /\ Applying(b, "lock")
    /\ IF NoTransaction
       THEN /\ lock' = b /\ BackGoes(b, "run")
            /\ marker' = IF marker = "deferred" THEN "claimed" ELSE marker
            /\ UNCHANGED admission
       ELSE Ends(b, "failed") /\ admission' = "free" /\ UNCHANGED <<lock, marker>>
    /\ UNCHANGED <<qml, keyProc, report, locked, restores, restarts, early>>

Finish(b) ==
    /\ Applying(b, "run") /\ lock' = "free" /\ admission' = "free"
    /\ \/ Ends(b, "ok") /\ report' = "success" /\ restores' = restores + 1
          /\ UNCHANGED marker
       \/ Ends(b, "failed") /\ report' \in {report, "failed"}
          /\ UNCHANGED <<marker, restores>>
       \/ /\ Ends(b, "deferred")
          /\ marker' = IF marker = "claimed" THEN "deferred" ELSE marker
          /\ UNCHANGED <<report, restores>>
    /\ UNCHANGED <<qml, keyProc, locked, restarts, early>>

Backend(b) ==
    \/ Status(b) \/ Acknowledge(b) \/ ReadReport(b)
    \/ Admit(b) \/ RequireReady(b) \/ TakeLock(b) \/ Finish(b)

\* Nobody reads what an orphan prints.
OrphanExits ==
    /\ back["orphan"].pc = "end" /\ back' = [back EXCEPT !["orphan"] = Idle]
    /\ UNCHANGED <<qml, keyProc, admission, lock, disk, locked, restarts, early>>

GuardEnds ==
    /\ lock = "guard" /\ lock' = "free"
    /\ UNCHANGED <<qml, back, keyProc, admission, disk, locked, restarts, early>>

-----------------------------------------------------------------------------
\* Mistake: an unlock does not ask for admission.
KeyringUnadmitted ==
    /\ keyProc.pc = "go"
    /\ keyProc' = [keyProc EXCEPT !.pc = IF NoTransaction THEN "check" ELSE "end",
                                  !.value = "UNLOCKING"]
    /\ UNCHANGED <<qml, back, admission, lock, disk, locked, restarts, early>>

\* keyring.command: admission, and no restore that holds the older lock.
KeyringAdmit ==
    /\ keyProc.pc = "go"
    /\ IF admission = "free" /\ NoTransaction
       THEN admission' = "keyring" /\ keyProc' = [keyProc EXCEPT !.pc = "check"]
       ELSE /\ keyProc' = [keyProc EXCEPT !.pc = "end", !.value = "UNLOCKING"]
            /\ UNCHANGED admission
    /\ UNCHANGED <<qml, back, lock, disk, locked, restarts, early>>

\* check: the daemon may also be missing, replaced or set up otherwise.
KeyringCheck ==
    /\ keyProc.pc = "check"
    /\ LET ends(v) == /\ keyProc' = [keyProc EXCEPT !.pc = "end", !.value = v]
                      /\ admission' = "free" IN
       \/ ~locked /\ ends("READY")
       \/ locked /\ ~keyProc.unlock /\ ends("LOCKED")
       \/ /\ locked /\ keyProc.unlock
          /\ keyProc' = [keyProc EXCEPT !.pc = "prompt"] /\ UNCHANGED admission
       \/ ends("UNAVAILABLE")
    /\ UNCHANGED <<qml, back, lock, disk, locked, restarts, early>>

\* unlock: 90 s for the prompt; then the collection is looked at again.
KeyringPrompt ==
    /\ keyProc.pc = "prompt" /\ admission' = "free"
    /\ \/ locked' = FALSE /\ keyProc' = [keyProc EXCEPT !.pc = "end", !.value = "READY"]
       \/ /\ UNCHANGED locked
          /\ \E v \in {"CANCELLED", "UNAVAILABLE", "LOCKED"} :
               keyProc' = [keyProc EXCEPT !.pc = "end", !.value = v]
    /\ UNCHANGED <<qml, back, lock, disk, restarts, early>>

KeyringExits ==
    /\ keyProc.pc = "end" /\ keyProc' = NoKeyProc /\ keyState' = keyProc.value
    /\ UNCHANGED <<popup, operation, back, admission, lock, disk, locked, restarts, early>>

\* The collection is locked or unlocked by somebody else.
Relock ==
    /\ locked' = ~locked
    /\ UNCHANGED <<qml, back, keyProc, admission, lock, disk, restarts, early>>

-----------------------------------------------------------------------------
\* onCompleted.  fail() asks for the report unless the restore is deferred.
CheckIfIdle == IF KeyBusy THEN UNCHANGED <<keyProc, keyState>> ELSE Ask(FALSE)
Fails(p) ==
    /\ popup' = [p EXCEPT !.failed = TRUE, !.restored = FALSE, !.retry = FALSE,
                          !.visible = TRUE]
    /\ operation' = "report"
    /\ back' = [back EXCEPT !["child"] = [kind |-> "report", pc |-> "go", value |-> "none"]]
Quits == operation' = "none" /\ back' = [back EXCEPT !["child"] = Idle]
Deferred(p) == [p EXCEPT !.attempted = TRUE, !.failed = TRUE, !.restored = FALSE,
                         !.retry = TRUE, !.visible = TRUE]

Completed ==
    /\ back["child"].pc = "end"
    /\ LET kind == back["child"].kind
           value == back["child"].value
           quiet == UNCHANGED <<keyProc, keyState>>
           settled == [popup EXCEPT !.watching = FALSE] IN
       CASE kind = "status" /\ value = "watch" ->
              Quits /\ quiet /\ popup' = [popup EXCEPT !.watching = TRUE, !.visible = FALSE]
         [] kind = "status" /\ value = "hidden" ->
              Quits /\ quiet /\ popup' = [settled EXCEPT !.visible = FALSE]
         [] kind = "status" /\ value = "shown" ->
              Quits /\ CheckIfIdle /\ popup' = [settled EXCEPT !.visible = TRUE]
         [] kind = "status" /\ value = "deferred" ->
              Quits /\ CheckIfIdle /\ popup' = Deferred(settled)
         [] kind = "status" /\ value = "interrupted" ->
              Fails([settled EXCEPT !.attempted = TRUE]) /\ quiet
         [] kind = "apply" /\ value = "ok" ->
              Runs("ack-restored") /\ quiet /\ UNCHANGED popup
         [] kind = "apply" /\ value = "deferred" ->
              Quits /\ quiet /\ popup' = Deferred(popup)
         [] kind = "apply" /\ value = "keyring" ->
              /\ Quits /\ CheckIfIdle
              /\ popup' = [popup EXCEPT !.attempted = FALSE, !.failed = FALSE,
                                        !.restored = FALSE, !.visible = TRUE]
         [] kind = "ack-restored" /\ value = "ok" ->
              Quits /\ quiet /\ popup' = [popup EXCEPT !.restored = TRUE, !.visible = TRUE]
         [] kind = "ack-new" /\ value = "ok" ->
              Quits /\ quiet /\ popup' = [popup EXCEPT !.visible = FALSE]
         [] kind = "report" -> Quits /\ quiet /\ UNCHANGED popup
         [] OTHER -> Fails(popup) /\ quiet
    /\ UNCHANGED <<admission, lock, disk, locked, restarts, early>>

\* The shell restarts.  Its backend dies with it or outlives it; the lock of a
\* restore that died stays with the guard.
Restart ==
    /\ restarts < MaxRestarts /\ restarts' = restarts + 1
    /\ popup' = NewPopup /\ operation' = "none"
    /\ keyProc' = Asking(FALSE) /\ keyState' = "CHECKING"
    /\ LET child == back["child"]
           outlives == child.pc \notin {"off", "end"} /\ back["orphan"].pc = "off"
           became(holder, heir) == IF holder = "child" THEN heir
                                   ELSE IF holder = "keyring" THEN "free" ELSE holder IN
       \/ /\ outlives
          /\ back' = [back EXCEPT !["child"] = Idle, !["orphan"] = child]
          /\ lock' = became(lock, "orphan") /\ admission' = became(admission, "orphan")
          /\ early' = (early \/ child.pc # "run")
       \/ /\ back' = [back EXCEPT !["child"] = Idle]
          /\ lock' \in {became(lock, "guard"), became(lock, "free")}
          /\ admission' = became(admission, "free") /\ UNCHANGED early
    /\ UNCHANGED <<disk, locked>>

StartNext ==
    \/ ReadStatus \/ CheckKeyring \/ Request \/ Release \/ NewSession \/ CloseSuccess
    \/ \E b \in {"child", "orphan"} : Backend(b)
    \/ OrphanExits \/ GuardEnds
    \/ KeyringAdmit \/ KeyringCheck \/ KeyringPrompt \/ KeyringExits \/ Relock
    \/ Completed \/ Restart

\* The timers fire, every backend and prompt ends (30 s, 90 s), the guard has
\* its deadline.  Nothing is assumed of the user.
StartFairness ==
    /\ WF_tvars(ReadStatus) /\ WF_tvars(Release) /\ WF_tvars(Completed)
    /\ WF_tvars(Backend("child")) /\ WF_tvars(Backend("orphan"))
    /\ WF_tvars(OrphanExits) /\ WF_tvars(GuardEnds)

StartSpec == StartInit /\ [][StartNext]_tvars /\ StartFairness

-----------------------------------------------------------------------------
\* The chooser restores a session at most once, restarts and retries included,
\* never once the user has decided, and "restored" is only recorded of a
\* restore that succeeded (status, acknowledge, record_deferred, fail() of the
\* chooser) -- except that a backend that outlives its shell before it has the
\* transaction lock is seen by nobody.
RestoredOnce ==
    /\ ~early => /\ restores <= 1
                 /\ Decided => \A b \in {"child", "orphan"} : back[b].pc # "run"
    /\ marker = "restored" => restores > 0

\* The unlock prompt and a restore never run together: both would take the
\* focus (admission, command).
PromptAlone ==
    keyProc.pc = "prompt" => \A b \in {"child", "orphan"} : back[b].pc # "run"

\* As long as nothing is decided the user gets the offer, or the report of what
\* became of it, whatever was running when the shell started.
Offered == ~Decided ~> (popup.visible \/ Decided)
=============================================================================
