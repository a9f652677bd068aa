# Formal models of the Labfy desktop

This directory keeps TLA+ models of the parts of this repository that are programs
with a protocol: several processes, files that survive them, messages, timeouts, and a
user who acts at the same time. TLC checks the models on small instances; TLAPS proves
the safety properties and the refinements for every instance. `PROJECT.json` says which
lines of the source each definition stands for, which run checks which property, and
which mistake in the code would break it.

`Q` below is `src/quickshell/.config/quickshell/labfy-sway`.

## 1. Inventory

| Component | State it keeps | Operations | What makes it hard | What makes it correct |
|---|---|---|---|---|
| **Recovery journal** `Q/session_v2/recovery.py`, `storage.py`, `ipc.py` | `session-v2-recovery.json` (expected place, pending and recovered windows, expected focus, conflict, known structures), its receipt, the lock | open, admit, journaled command, complete, recover (return windows, restore focus, verdict) | a crash or a lost IPC answer between the durable intention, the IPC and the confirmation; the user moves, closes and focuses windows throughout | nothing ambiguous is replayed; the user wins; a settled journal leaves nothing behind; the receipt never lies |
| **Executor** `Q/session_v2/executor.py`, `anchors.py`, `observability.py` | phase, windows left to handle, `session-v2-restore-attempt.json` | apply: admit, stage, build anchors, swap, verify, hand over, complete; the failure path | each phase may fail, be killed, or time out on the guard | success only when everything is over; every attempt ends with a verdict |
| **Guard** `Q/session_v2/guard.py` | helpers it stopped and owes, requests served, inherited lock | stop helpers, serve prepare / resume / finish, take over, error path | executor dies or exceeds its deadline anywhere; signals fail; answers time out | helpers are held while windows move and never left stopped; at most one process recovers |
| **Startup claim** `Q/session_v2/startup.py` | `startup.json`: interrupted, deferred, acknowledged; the restore report | status, acknowledge, record_deferred | two shells in turn, and children that outlive one | one restore per session, never after the user decided, and an offer that comes |
| **Session capture and layout** `snapshot.py`, `layout.py`, `slots.py`, `schema.py`, `checkpoint.py`, `applications.py` | the saved session | capture, validate, assign slots, build the layout | duplicated identities, partial matches | an assignment is one-to-one and stable; what is saved validates |
| **Session admission** `keyring.py`, `cli.py`, `native_host.py`, `firefox_identity.py` | keyring readiness, `keyring.lock`, native messages | check, unlock, apply-last, identify | the keyring locks again, a prompt waits for the user, processes of two shells | nothing is launched before the keyring is ready; prompt and restore exclude each other |
| **Session UI** `SessionStartupPromptV2.qml`, `SessionV2Service.qml`, `SessionExitGate.qml`, `SessionManagerV2.qml` | the chooser, one backend process and what it was asked, keyring state | offer, restore, defer, new session, completion, restart | completions of processes of an older request; a restart while one runs | what the chooser shows is what the disk says |
| **Firefox companion** `src/firefox-extension/session-v2/background.js` | windows being identified, native port | identify, resume, disconnect | tabs change under a marker, port reconnects | a marker is always taken back; an identity is never guessed |
| **Login update** `src/greetd/scripts/session-update.py`, `mosaic-user-update.py`, `login-recovery-update.py` | targets, snapshots, a journal per lot and one for the pair | apply, rollback, recovery, barrier | several files, two owners, two tools under a coordinator; a failed write, a kill, a loss of power, an edit between two of them | each lot and the pair are all new or all old when a journal says so; the greeter comes last |
| **Workspace overview** `Q/overview/backend.py`, `labfy-lock`, `labfy-lock/shell.qml` | cached previews with metadata, policy, lock guard | capture, state, lock, unlock | a lock in the middle of a capture or of a reading; a kill between two files; eviction | no preview from before a lock is shown after it |
| **Idle bridge** `Q/idlebridge/bridge.py`, `IdleBridgeReceiver.qml` | requests by cookie, operation queue, durable cookie counter; displayed count | Inhibit, UnInhibit, NameOwnerChanged, connect, frame, timeout, disconnect | callers, shell and bridge each come and go in the middle of an operation | a granted inhibition is shown, a departed caller's is not, a cookie is never reused |
| **Greeter** `src/greetd/src/` | authentication conversation, frozen controls, the account remembered | begin, answer, start, reset, change of user or session | an answer for a cancelled conversation; no answer at all | an answer reaches the prompt it was typed for; the session shown starts; the screen thaws |
| **Mosaic login launcher** `src/greetd/mosaic-login-v2/launcher/` | `default-id` and its backup; the units and the environment of the shared systemd manager | arm, stable, launch, guard | `uwsm select` beside it; a writer that dies; SWAYSOCK of another session | a backup before the experimental default; the shell of a session talks to its own compositor |
| **Appearance managers** `src/bin/.local/bin/wallpaper-manager.py`, `night-light-manager.py`, `location-time-manager.py`, `appearance-app-sync.py`, `Q/theme/AppearanceController.qml` | `preferences.json`, `effective.json`, theme, wallpaper, Sway, wlsunset, time zone, applications | transaction, change, apply, status, reconcile; adapters | a step fails, or the handler of the failure does; a kill; the shell restarts | all or nothing; the applications end with the look of the file |
| **Removable media** `labfy-removable-media` | devices, operations in progress | mount, eject, devices_changed | device disappears during an operation | no result is applied to another device |
| **Photo backup** `labfy-photo-backup` | copies, history and reports on the device, `status.json` | run_backup | the library changes while it is copied; unplug, kill, torn copies | a report names one state of the library, and the device holds it |
| Shell views, dotfiles | none of their own | — | — | not modelled: presentation and static configuration |

How they interact: the shell starts `cli.py`, which takes the transaction lock and runs
the **executor**. The executor opens the **journal**, starts the anchor helper and the
**guard** (which inherits the lock) and talks with the guard over a socket pair. Both
drive Sway only through journaled commands. Whoever is left when something fails
recovers the journal; the UI reads the receipt and the attempt report. The **idle
bridge** is a separate process between D-Bus callers and the shell's socket. The
**chooser** of the shell runs one backend at a time, which goes through the keyring's
admission, the transaction lock and the startup claim before it runs the executor. The
**managers** of the appearance share one lock, publish `effective.json`, tell the shell
over its socket, and leave the applications to a service that systemd starts when the
file changes. Before all of it, **greeter** and **launcher** start the compositor, and
the **login update** replaces both. These groups share no state at run time other than
what a module below names, and are modelled apart.

## 2. Modules

| Module | Models | Built on |
|---|---|---|
| `RestorePromise` | abstract: what a restore promises of the user's windows | — |
| `RecoveryJournal` | the compositor as the journal sees it, the journal and receipt files, and the protocol any process follows; implements `RestorePromise` | — |
| `RecoveryJournalInvariant` | the inductive invariant `IInv` | `RecoveryJournal` |
| `RestoreTransaction` | executor and guard together, on top of the journal's actions; implements `RecoveryJournal`'s protocol | `RecoveryJournal` |
| `IdleBridge` | bridge, callers, socket and receiver | — |
| `SessionStart` | chooser, service, claim and keyring gate, over restarts of the shell | — |
| `AtomicUpdate` | abstract: what an update of several files promises | — |
| `UpdateBundle` | the two update tools, file by file | — |
| `LoginUpdate` | the coordinator around them; implements `AtomicUpdate` three times | `UpdateBundle` |
| `Greeter` | login screen, its worker, and greetd | — |
| `SessionSelection` | the durable default session | — |
| `MosaicSession` | launcher and guard of the experimental session beside the stable one | — |
| `AppearanceRegister` | abstract: what a change of the look promises | — |
| `Appearance` | the managers, Sway, services and the shell's view; implements `AppearanceRegister` | — |
| `AppearanceSync` | the adapters of applications and the path unit | — |
| `PhotoBackup` | one run of the backup, the library and the device | — |
| `OverviewCapture` | previews, their cache, and the lock of the screen | — |
| `RecoveryJournalProofs` | proofs about the journal | `RecoveryJournalInvariant` |
| `RestoreProofs` | proofs about executor and guard | `RestoreTransaction`, `RecoveryJournalProofs` |
| `SessionProofs` | proofs from the login screen to the offer to restore, one section each | `Greeter`, `SessionSelection`, `MosaicSession`, `SessionStart` |
| `AppearanceProofs` | proofs about the managers and the applications | `Appearance`, `AppearanceSync` |
| `SnapshotProofs` | proofs about the previews and the backup | `OverviewCapture`, `PhotoBackup` |
| `IdleBridgeProofs`, `LoginUpdateProofs` | proofs about one module | `IdleBridge`, `LoginUpdate` |
| `MC...` | instances for TLC; `MCDesktop` holds all the modules from `SessionStart` to `OverviewCapture` | each of the above |
| `DesktopProofs` | that the components of `MCDesktop` keep their types side by side | `MCDesktop`, the proofs of its components |

### RestorePromise and RecoveryJournal

`RestorePromise` speaks of the windows' places, of a phase (`idle`, `forward`, `back`,
`complete`, `recovered`), of the windows given back and of whether the claim was
published; it knows of no journal, process or IPC. While the phase is `forward` windows
may be moved into the transaction's places; once the driver has given up, for whatever
reason, windows only come back, none twice after it was given back, none that the user has put
elsewhere; `Complete` and `Recovered` are claimed only of a desktop that is so; and `Begin` waits
until the last claim was reported. `PromiseKept` is that the journal's protocol implements
it: the phase is `forward` while some process `Steers` (it drives, or has a command of
its own in flight) and `back` otherwise, until the journal's status is a claim; a claim is
reported when the receipt says the same of the same transaction (`ClaimReported`), which is
all that `recovery_status` can read from two files.

One action per step between two durable or visible effects. `Intend` is the first half
of `Recovery.command`: the tree is observed, compared with what the journal expects,
and every admitted window is published *pending*. `Send`, `SendLost` and `SendRejected`
are Sway's execution with its answer, its execution or not without an answer, and its
refusal. `Confirm`, `ConfirmConflict` and `ConfirmFailed` are the second half. `Begin`,
`OpenReceipt`, `Admit`, `Complete` and `CompleteReceipt` open and close a transaction;
`RecoverEnter`, the `Scan...`, `Return...`, `Refocus...` actions, `Verdict` and
`CloseReceipt` are `_recover` in its order. `Crash`, `UserMove`, `UserClose`,
`UserFocus` and `ForeignChange` may come between any two of them. `mem` is the process's
private copy (`self.data`), `journal` the file: they differ when two processes are at
work, which is why the copy is modelled.

A place is relative to the transaction (home, stage, slot, elsewhere, gone), and stands
for workspace, output, path and geometry together. `parked` and `unconfirmed` are
history: the windows the user put elsewhere while no IPC was in flight, and the windows
whose last command has an unknown outcome.

### RestoreTransaction

`pcE` is the phase of `Executor._apply`, `pcG` that of `guard.run`; every action that
touches the compositor or the files is an action of `RecoveryJournal` with the phase
added, so that `Protocol == RecoveryJournal's Spec` can be checked as a refinement. The
socket pair is one slot per direction (`request`, `answer`), as the handshake is
strictly alternating, plus `closed`. Each layout helper has its own process state;
`owed` is the guard's list of obligations, and `frozen` (history) the helpers somebody
else had stopped: `ESpawn` starts a guard that owes nothing and finds the
helpers that do not run as they are. Every handshake may time out (`MaxFaults`), and either
process may be killed (`Killable`), by its deadline or otherwise. `Resume(failed)` is the
guard's `resume()`: of the helpers it owes, those of `failed` could not be verified or
signalled, stay stopped and stay owed. One fault is one call that fails, of any set of
helpers, so that a lasting cause takes one fault per call. Every call can fail. Those of the
normal path (`GServe...`, `GRelease`) raise; those of the error path (`GError`) and of the
`finally` (`GLeave`) go on, because guard.py 236 and 250 do not look at the result.

### IdleBridge

The queue is the set of the operations that wait, each with the number of the call it
answers; the code's `deque` is served by that number. Each handler of the bridge's main loop is one action that ends, as in the code, with
`Advance`: nothing while a snapshot is awaited, a snapshot if the requests have changed
otherwise, or the queue popped up to the first operation that takes effect. A
connection (`links`) holds at most the snapshot and the acknowledgement in flight, and
survives at the shell's end after the bridge has closed its own. `held`, `known` and
`stale` are what callers know: the cookies they were given, still hold, or were given by
a bridge that has died.

### SessionStart

The chooser and its service are one state machine per shell: `ReadStatus`, `Request`,
`Release` (the frames the surface needs before the child may take the focus),
`NewSession`, `Completed` with each answer it understands, `CloseSuccess`. `back` has two
processes, the child of the shell that runs and the one an older shell left behind, and
`Backend(b)` is `cli.py` and `startup.py`, one action per lock taken, marker written
and report made: `Status`, `Acknowledge`, `ReadReport`, `Admit`, `RequireReady`, `TakeLock`,
`Finish`. `Keyring...` is `keyring.py`; `Relock` locks the collection at any time.
`Restart` kills the shell, and its child or not. `restores` and `early` are history: how
often this session was restored, and whether a child outlived its shell *before* it held
the transaction lock. Such a child is seen by nobody (a second shell may offer, and
restore, before it gets there), so that `RestoredOnce` promises nothing then.

### AtomicUpdate, UpdateBundle, LoginUpdate

`UpdateBundle` is `transact` of both scripts: `Barrier` (the sealed bundle is made durable
first), `Decide` (apply, roll back, or resume what was interrupted), `Open` (the journal
says "applying"), then per file `Skip`, `Write` or `SnapshotRefuses`, then `Confirm` and
`Settle`; `Recover` and `Recheck` begin the handler of an exception, which publishes the
originals the same way.
`LoginUpdate` is `coordinate`: `OpenBatch`, `Call` and `Return` of each tool in the order of the
operation, `Undo`, `Close`, `Timeout` of the child; `KillCoordinator` leaves the child at
work, `PowerLoss` stops all, `RunAlone` runs one tool without the coordinator, `Edit` is
somebody else's write. `AtomicUpdate` has a verdict and a content; the refinements map the
journals to the first and the files to the second, once per lot and once for the pair.

The last target of the user tool is a link, in a directory which is the tool's to make and
to remove. `MakeDirectory`, `MakeTemporary` and `PlaceLink` are the steps of that branch of
`publish`, `LeftBehind` is the temporary that a kill between the last two leaves, and `Clean`
is the `rmdir` of a rollback, which fails when anything else lies in the directory, or by
itself, and is passed over. The directory (`dir`) is no target and no part of the content:
the verdict "original" speaks of the targets. What may be expected of it is `DirectoryGoes`, a
conjunct of `LotsAtomic`: it is gone with the originals unless there was a fault or an edit.

### Greeter

`ui` is what the GTK thread has, `flow` the `AuthFlow`, `job` the one operation in the
worker, `greetd` the daemon (external). `Perform` freezes the controls and starts the
worker; `Create`, `Answer`, `Start` and `Cancel` are its requests, each of which may lose
its reply before or after greetd has acted (`Loses`); `Handle...` is what the main loop does
with the reply. What is typed is remembered as the prompt it was typed under, so that
an answer to another prompt can be told.

### SessionSelection and MosaicSession

`SessionSelection` is `Selection.change`: `Lock`, `Validate`, `Backup`, `Again`, `Replace`,
`ConfirmChoice`, with `Die` anywhere and `UwsmSelect`, which takes no lock, anywhere. `default.by`
says who wrote last. `MosaicSession` has the two sessions' units and compositors;
`BeginLaunch` to `Exec` is `launch`, `BeginGuard` to `StartShell` is the guard, and each reads one
thing per step while `Finalize` of either session overwrites the shared SWAYSOCK
(`exported`), sessions end and units stop. The guard is the unit's `ExecStartPre` and the shell
its `ExecStart`: two processes, each with the environment the manager has when it is started.
`BeginGuard` reads `exported` for the guard, `StartShell` reads it again for the shell, and
`changed` (history) says whether the two differ.

### AppearanceRegister, Appearance, AppearanceSync

A change has a plan, the set of steps it needs, computed when it begins (`Transaction`,
`BeginNight`, `BeginPlace`, `BeginStatus`, ...), as the code reads everything under the
lock before it writes, and `todo`, what is left of it. It is at the first step of `todo`
in the order of the body (`Forth`) or of the handler (`Back`). `StepSucceeds` and
`StepFails` take that step; a failure replaces `todo` by what the handler of that change
takes back (`TakesBack`) and turns `undoing`, `HandlerFails` is a failure in there,
`Kill` leaves everything where it is. Every step may raise before or after it had its
effect. `damage` is the phase of the register between changes, `was` and `asked` are
its look and what was asked of it since (history, written where a change begins or
ends); `status` and `reconcile` ask for nothing. The look is taken part by part (theme,
wallpaper and revision together, night mode, place, zone): a change of the place that is
killed between its two files leaves the new zone with the old coordinates, and the
register's `Repair` allows for that, part by part, and for nothing that was neither asked
for nor there.

`AppearanceSync` keeps an application as the look it has; `Publish` and `RollBack` write
`effective.json`, a path unit starts the service and is re-armed when that has ended,
`reconcile` reads before, between and after. `missed` is history: a write after the last
read and before the re-arming, a file that was not there, a killed run.

### PhotoBackup and OverviewCapture

A version of a photo is what `file_identity` tells apart. The run pins a mount, lists
the library photo by photo, copies, synchronises, verifies, lists again and reports;
`seen` is a history: the states the library had since the copies were synchronised,
against which the report is judged when it is written. `device.durable` is what an
unplug leaves.

`OverviewCapture` gives each file of the cache the time it was written and the revision
of the lock guard under which its pixels were taken (`rev`, history). A batch and a panel take one
step per read of the guard, the policy, the tree or the cache; both sweep and prune.
`given` is what panels have been handed, with the state of the lock at that moment.

## 3. Runs

| Run | Instance | Shows |
|---|---|---|
| `journal` | 1 window, 2 transactions, 2 interchangeable processes, 3 commands, 1 crash, 1 lost answer, 1 user action | `NoReplay`, `SettledIsResolved`, `ReceiptNeverAhead`, `ConflictFreezes`, `SettledIsFinal`, `PromiseKept` (the protocol implements `RestorePromise`, which implies `UserPlacementWins`); and `IInv`, which includes the types, before it is proved |
| `transaction` | 2 windows, 2 transactions, 1 helper, executor killable, no timeout | `Protocol` (executor and guard implement the journal protocol), `TransactionTypeOK` |
| `faults` | 1 window, 2 helpers, both processes killable, 1 timeout or signal failure | what survives when both may recover at once: `UserPlacementWins`, `SuccessIsComplete`, `MovesWhileHeld` |
| `fair` | 1 window, 1 helper, 1 crash of the executor, 1 lost answer, 2 timeouts or signal failures, fairness | `EngineEnds`, `JournalDecided`, `HelpersResumed`, `HelpersReleased` |
| `idle` | 2 callers, 4 calls, 3 cookies, 2 requests, 2 connections, 1 failure, timeouts anywhere | `IdleTypeOK`, `HeldIsShown`, `SettledIsExact`, `NoLostCall`, `StaleNeverLive`, `FramesAccepted`, `Answered` |
| `desktop` | the nine components from `SessionStart` to `OverviewCapture`, see below | `DesktopTypeOK` and the properties of the next table |
| `undecided` | 1 crash | counterexample to `LayoutDecided`: finding 1 |
| `timeout` | 2 windows, 1 user action, 1 timeout | counterexample to `ConflictFreezes`: finding 2 |
| `guard_error` | 2 helpers, 1 fault | counterexample to `ReturnsWhileHeld`: finding 3 |
| `idle_orphan` | no failure but an acknowledgement that is late | counterexample to `NoOrphan`: finding 4 |
| `login_foreign` | 1 edit, no fault, 1 run | counterexample to `NeverOverwritten`: finding 5 |
| `restart_decides` | 1 change, 2 mishaps, 1 start of the shell | counterexample to `RestartDecides`: finding 6 |

`desktop` checks nine models in one run. They share no variable; `component` is chosen
initially and only that one steps, the others stay as they begin. The reachable
states are the disjoint union of those of the nine modules, a property of one of them is
evaluated on all of its behaviours, and on the others it holds where it holds initially.

| Component | Instance | Properties |
|---|---|---|
| `LoginUpdate` | 2 files per lot, 2 failed writes or kills, 1 edit or 1 tool run alone, 2 runs | `LotsAtomic`, `PairAtomic` (refinements), `GreeterLast` |
| `Greeter` | 2 accounts and a typed one, 3 conversations of at most 2 prompts, 1 lost answer | `AnswerToItsPrompt`, `StartsAsShown`, `Thaws` |
| `SessionSelection` | 2 commands, 2 selections by uwsm, every initial default | `SelectionSerialised` |
| `MosaicSession` | 3 compositors | `OwnShell` |
| `SessionStart` | 2 restarts of the shell | `RestoredOnce`, `PromptAlone`, `Offered` |
| `Appearance` | 2 wallpapers, zones and places; two changes and one mishap, or one change, two mishaps and two starts of the shell | `AtomicLook` (refinement), `ShellNotBehind` |
| `AppearanceSync` | 2 adapters, 2 looks, 3 writes, a run by the user, 1 failure | `AppsFollow` |
| `PhotoBackup` | 2 photos, 1 edit, 1 removal, 2 runs, 2 of unplug, kill and torn copy | `BackupIsSnapshot` |
| `OverviewCapture` | 2 batches over a window with 2 writes of the guard, a batch over 2 windows, a batch with an edit of the policy; 3 files | `PreviewIsCurrent` |

**Why the bounds are enough.** The journal treats windows alike and one at a time; two
windows let a failure of one be followed by the return of the other (`transaction`,
`timeout`), and the proofs cover any number. One crash, one lost answer and one user
action can be combined in one behaviour and in any order; `MaxOperations` = 3 in
`journal` reaches the limit on commands, 20 elsewhere is above what a transaction
needs. Two transactions let a settled journal be followed by another, and a crash come
between a claim and its receipt before the next. In `idle`, three
calls fill the queue behind an operation in progress, four use up the cookies when one
was lost to a failed write or a rollback, and the second connection meets the leftovers
of the first. The guard's last two calls of `resume()` (on its error path, in its `finally`)
both fail with the 2 faults of `fair`, the fewest after which a helper may stay stopped; the
crash brings the guard to its error path without spending one. The theorem
`HelpersAreReleased` is for any number of helpers and faults.

In `desktop`: two files per lot make a lot that is half written, and two faults a
recovery that fails in its turn, or a kill that leaves the link's temporary and a second one. Three conversations are a cancelled one, its successor and one
after that, which is where a late answer can be mistaken; in two prompts an answer can reach the
wrong one. Two restarts leave a child of the first shell at work while the second is
restarted. Three changes of `effective.json` publish, roll back and publish the same revision
again. Two mishaps in one change are a failure and the failure of its handler; the
cases with two changes have one, so that a change after a double failure is not
seen. Two writes of the lock guard are a lock and an unlock. `MaxFiles` = 3 makes
the quota remove one file of a pair. The proofs of section 4 remove the bounds from
every safety property and every refinement of this run.

`CHECK_DEADLOCK FALSE` is in every configuration: once the bounds are spent and the
attempt is over, nothing remains to be done, and the program rests as well.

**Symmetry** is declared on windows, helpers or processes only in runs without liveness.

**Fairness.** `FairSpec` assumes that a running executor and a running guard are
scheduled, `WF(EngineStep)` without the start of a new attempt and `WF(GuardStep)`;
waits in the code are bounded by timeouts or by the other's death. `IdleBridge`'s
`Spec` assumes that the bridge's main loop serves its timer and its socket, and nothing of
the shell: `Answered` holds even if the shell never acknowledges. `GreeterFairness`: the
worker's request ends, with an answer or after 10 s, and the main loop runs its
callbacks; nobody has to touch the screen. `StartFairness`: timers fire, a backend that
can go on does, the keyring's answer and a process's end are noticed, and the guard of a
restore that died reaches its deadline; nothing is assumed of the user, and a prompt
may stay open for ever. No crash, lost answer, user action, caller or shell step is
assumed to happen. In `MCDesktop` each of these conditions holds while its
component is the one that steps.

## 4. Proofs

Each theorem holds for every value of the constants that satisfies the named
assumptions of the modules: any number of windows, callers, files, accounts, images, any
number of faults, kills, restarts and edits. Every proof has the same outline: an
inductive invariant, which TLC has checked on the instances of section 3 before
it was proved, `Init => Inv`, one lemma per action (or per group of actions that change
the same variables), and the property as a consequence.

### The recovery journal: `RecoveryJournalProofs`

| Theorem | States |
|---|---|
| `TypeCorrect` | `Spec => []TypeOK` |
| `InvariantHolds` | `Spec => []IInv` |
| `NeverReplayed` | `Spec => []NoReplay` |
| `UserIsNeverUndone` | `Spec => []UserPlacementWins` |
| `SettledMeansResolved` | `Spec => []SettledIsResolved` |
| `ReceiptFollowsJournal` | `Spec => []ReceiptNeverAhead` |
| `ConflictsFreeze` | `Spec => ConflictFreezes` |
| `SettledStays` | `Spec => SettledIsFinal` |
| `PromiseIsKept` | `Spec => PromiseKept` |

None of the properties is inductive. What they leave implicit is `IInv = TypeOK /\
LockInv /\ DataInv`. `LockInv`: at most one process is in the protocol (`Exclusive`), its
copy is the file (`MemIsJournal`), and `PhaseKnown` says what each point of a command or
of a recovery knows: that a command in flight was issued without a conflict and with its
window pending, that before it is sent nothing has an unknown outcome, that a recovery
without a fault has still to examine exactly what it has not recovered. `DataInv`: the
sets of the journal are nested, a recovered window is out of the transaction's places,
the receipt does not run ahead. `ActiveStep` and `RestStep` carry `LockInv` through the
process that steps and the ones that do not.

`Exclusive` holds because `Begin`, `CleanIssue` and `RecoverEnter` wait for the other
processes to rest, which is what the lock and the handshake are for. That executor and
guard together do so is the next section.

`PromiseIsKept` is a refinement, step by step. Its invariant, `PromiseInv`, is `IInv` with
`OnlyAdmitted`: a window that was not admitted is at home, elsewhere or gone. It is what
makes `recovered = admitted` of the journal mean that *no* window is left on the stage or in
a slot when `Recovered` is claimed. As the phase depends on who steers, each action has to show that
no other process does (`OneSteers`, from the lock), and that nobody steers again after
a failure; `GoesOn`, `Stops` and the `...Promised` lemmas do this for the steps of a
driver, of a failure and of a recovery.

### Executor and guard: `RestoreProofs`

| Theorem | States |
|---|---|
| `RestoreHolds` | `TransactionSpec => []RestoreInv` |
| `TransactionTypesHold` | `TransactionSpec => []TransactionTypeOK` |
| `MovesAreHeld` | `TransactionSpec => []MovesWhileHeld` |
| `SuccessesAreComplete` | `TransactionSpec => []SuccessIsComplete` |
| `HelpersAreReleased` | `TransactionSpec => HelpersReleased` |
| `JournalIsKept` | `TransactionSpec => [](faults = MaxFaults => IInv)` |
| `ProtocolIsFollowed` | `MaxFaults = 0 => (TransactionSpec => Protocol)` |
| `RestoresKeepThePromise` | `MaxFaults = 0 => (TransactionSpec => PromiseKept)` |
| `PlacementsAreKept` | `TransactionSpec => []UserPlacementWins` |

`RestoreInv` holds whoever is killed and whatever times out. `EnginePart` and `GuardPart`
say where in the journal protocol each phase of the two programs is, and which commands it
may have in flight; `SameTransaction` that nobody is at work on an older one's journal;
`Obligations` that every stopped helper is owed by the guard or was found stopped;
`Retried` that nothing is owed any more on the normal way out, and that a fault has been spent
when something is still owed after the error path's own attempt;
`Held` that between the guard's *ready* and the executor's *prepare* the socket is quiet
and no helper runs; `Ending` that *finished* is the guard's last word and leaves it with
no obligation; `Reported` what a written verdict stands for. None of
them needs a handshake to succeed.

`HelpersAreReleased` promises no more than guard.py does, whose last attempt may fail like any
other: a guard that is not killed leaves a helper of its own stopped only if two calls of
`resume()` failed, and then the helper is still owed and the guard's last word is a failure. It
follows from `Obligations` and `Retried`. For any `MaxFaults`, a single failure, wherever it
strikes, costs no helper its resumption.

`JournalIsKept` is the proof that the inherited lock excludes: until the first fault
(`faults = MaxFaults`), executor and guard are never both in the journal protocol, *although
both hold the lock and both may be killed*, and so everything of the previous section holds of
them. The invariant is `Solo`: who acts is told by the messages on the way and
by the death of the other, never by the lock. `ProtocolIsFollowed` makes it a step by step
refinement, whichever of the two is killed: the death of a process that is not in the
protocol is `CrashOutside` there. `RestoresKeepThePromise` composes it with
`PromiseIsKept`: executor and guard implement the promise. After a fault `JournalIsKept` and
`ProtocolIsFollowed` are false: finding 2.

`PlacementsAreKept` needs no exclusion: it holds after any fault, with executor and guard
recovering side by side, each on its own copy of the journal. `Expected` says that neither
copy, nor the file, ever expects a window in a place where only the user puts one, so that
whoever checks a window before moving it finds the conflict; `Untouched` that no command
that is issued, whoever issued it, moves a window which the user has placed.

### The idle bridge: `IdleBridgeProofs`

| Theorem | States |
|---|---|
| `BridgeHolds` | `Spec => []IdleInv` |
| `IdleTypesHold` | `Spec => []IdleTypeOK` |
| `HeldIsCounted` | `Spec => []HeldIsShown` |
| `SettledIsTold` | `Spec => []SettledIsExact` |
| `CallsAreKept` | `Spec => []NoLostCall` |
| `StaleStaysDead` | `Spec => []StaleNeverLive` |
| `FramesFit` | `Spec => []FramesAccepted` |

`IdleInv` has five parts. `Memory`: every cookie held is a live request of its
caller, an operation in progress has its cookie in the requests (or out of
them) already, those of a dead bridge are below the counter and never live again.
`Ledger`: the calls that are unanswered are the ones queued or in progress, each once.
`Wire`: whatever frame a shell has not read yet, or has read, counts at least what is held.
`Told`: over the bridge's own connection it also counts what is about to be granted, and it
counts *exactly* the requests unless they are marked as changed. `Advanced`: between
handlers there is nothing left to do, or a snapshot is awaited. That a granted inhibition is
counted rests on `Told` for the grant and on `Wire` afterwards, for the connections that the
bridge has given up and a shell still reads.

### The login update: `LoginUpdateProofs`

| Theorem | States |
|---|---|
| `LotsAreAtomic` | `LoginUpdateSpec => LotsAtomic` |
| `PairIsAtomic` | `LoginUpdateSpec => PairAtomic` |
| `GreeterIsLast` | `LoginUpdateSpec => []GreeterLast` |
| `UpdateTypesHold` | `LoginUpdateSpec => []LoginUpdateTypeOK` |

Each step of the two tools and their coordinator is a step of `AtomicUpdate`, or leaves its
variables alone, three times over. The content is that of the targets, so that the link's
temporary and a directory that stays are outside of it; the third conjunct of
`LotsAtomic`, `[]DirectoryGoes`, is proved by `DirInv`: as long as nothing has failed and nobody
has edited, the directory is gone when the journal says "original", and already when the tool
is about to write that. `ToolInv` says that the files change between the two
writes of the journal that bracket them, and that whoever settles has all its files of the version
it publishes, or one that somebody else has edited. For the pair, `Calling`, `Exclusive` and
`Progress` say what the coordinator has had done when a lot is off its list. They hold while no tool is run
alone (`alone = 0`); a tool run alone counts as an edit of the pair, whose content is
`foreign` from then on. A child that outlives its coordinator is part of `Exclusive`.

### From login to restore: `SessionProofs`

| Theorem | States |
|---|---|
| `AnswersReachTheirPrompt` | `GreeterSpec => []AnswerToItsPrompt` |
| `StartsAreAsShown` | `GreeterSpec => []StartsAsShown` |
| `GreeterTypesHold` | `GreeterSpec => []GreeterTypeOK` |
| `SelectionTypesHold` | `SelectionSpec => []SelectionTypeOK` |
| `SelectionsSerialised` | `SelectionSpec => []SelectionSerialised` |
| `MosaicTypesHold` | `MosaicSpec => []MosaicTypeOK` |
| `ShellIsOwn` | `MosaicSpec => []OwnShell` |
| `PromptIsAlone` | `StartSpec => []PromptAlone` |
| `StartTypesHold` | `StartSpec => []StartTypeOK` |
| `RestoresAtMostOnce` | `StartSpec => []RestoredOnce` |

For the greeter, the invariant ties the operation in the worker to the screen it froze:
what is typed is typed under the prompt that is pending (`Frozen`), that prompt is the one
greetd waits on for the user the screen asked for (`Asked`), and an operation keeps what the screen
showed when it began (`Traced`, `Answering`). A start spends an authentication that is not
spent yet (`Starting`).

`RestoresAtMostOnce` rests on `OnceInv`: what the disk records has happened (`Recorded`), and, as long as
no child has outlived its shell before it held the lock, an orphan, the chooser
and the child know of each other through the marker (`Calm`). `PromptIsAlone` needs that whoever is past its admission holds it, and
`SelectionsSerialised` that one command holds the lock; `ShellIsOwn` that the guard, once it
has validated the unit, has the process number of a compositor that is not replaced while
the session is not ending. `OwnShell` excepts, by name, a shell that was given another socket
than its guard had (`changed`), see section 6.

### The overview and the backup: `SnapshotProofs`

| Theorem | States |
|---|---|
| `PreviewsAreCurrent` | `OverviewSpec => []PreviewIsCurrent` |
| `OverviewTypesHold` | `OverviewSpec => []OverviewTypeOK` |
| `ReportsAreSnapshots` | `BackupSpec => []BackupIsSnapshot` |
| `BackupTypesHold` | `BackupSpec => []BackupTypeOK` |

`PreviewsAreCurrent` is about two helpers and a lock that come between any two of each other's
steps. `PreviewsPublished`: a published file was captured while the screen was unlocked, and the image of a window
never under an earlier revision than its metadata. `Batch`: a batch publishes under the
revision it has read, or that revision has passed and nobody will compare equal to it.
`Looking`: what a panel holds in its hands is of the window it looks at.

`ReportsAreSnapshots` is about a run that looks at one photo after the other while the
library changes, and concludes that all the photos once were as listed *together*. The
invariant's key is `Lived`: as versions do not return (`Fresh`), a photo that has its
listed version now has had it since the copies were synchronised. `SnapshotSoFar` turns
that into one state of the library for what was verified, and, from the second inventory, an
absence for what was not listed; `Stored` says that the verified copies are the device's
and survive an unplug, `ReportsKept` that no later run removes a reported version, because what
rsync replaces goes to the history. The report is judged by what the run
has lived through when it is written, and its verdict does not change afterwards.

### The appearance: `AppearanceProofs`

| Theorem | States |
|---|---|
| `LooksAreAtomic` | `AppearanceSpec => AtomicLook` |
| `ShellsAreTold` | `AppearanceSpec => []ShellNotBehind` |
| `LooksAreKept` | `AppearanceSpec => [](AppearanceTypeOK /\ Plans /\ LookInv)` |
| `AppearanceTypesHold` | `AppearanceSpec => []AppearanceTypeOK` |
| `SyncTypesHold` | `SyncSpec => []SyncTypeOK` |
| `ApplicationsFollow` | `SyncSpec => []AppsFollow` |

`LooksAreAtomic` is a refinement: each step of a manager, of the shell or of anything else that
reads the files is a step of `AppearanceRegister` or a stutter. `Plans` says of the
change that runs that its plan takes the old files to the new ones and misses
no service whose arguments differ (`Planned`, `NightPlanned`). `BodyDone` is how far its body has
come: each file is new if its step has returned and old if not, and Sway, wlsunset and
the opacity are as the files were when their step ran; `HandlerDone` is the same for the
handler, whatever step it was that failed and whether it had its effect. `AtRest` is what
both end in: everything as asked, everything as before, or, after a kill, each part of the look known
from before or from what was asked. `Told` says that the shell shows the files' look or a
later revision, or that an answer which says so is on its way.

`ApplicationsFollow` rests on `Achieved`: what a run has brought about at each of its
points (the adapters it has passed, then its result on disk), for the file *it read*; and
on `AppsSettled`: when neither a run nor a service that will run looks at the file, what
was achieved is for the file as it is. The lock (`OneRun`) keeps two runs from
undoing each other.

### The desktop: `DesktopProofs`

| Theorem | States |
|---|---|
| `DesktopTypesHold` | `Spec => []DesktopTypeOK` |

Here `Spec` is that of `MCDesktop`, for any values of its constants. A step of the desktop
is a step of one component and leaves the variables of the others (`OneSteps`), and it
begins as each of them does (`AllStart`), so that what each keeps by itself holds of them
together. It is the reason why the properties of the nine models can be checked in one run.

### What is assumed, and what is only model-checked

The assumptions are those named in the modules, which TLC evaluates on the instances: bounds are
natural numbers; names that stand for "none" are no window, caller, account or session
record; executor and guard are the two processes; the lists of targets of the two lots are
sequences of files of their lot, have no file in common and the root lot's is not empty;
there are an image, a zone, a place, an adapter and a window to preview; `MaxLocks` bounds the
writes of the lock guard in `Bounds`; and `Absent` and `Partial` are no looks.
Finiteness is assumed of no set.

Only model-checked is liveness: `EngineEnds`, `JournalDecided`, `HelpersResumed`,
`Answered`, `Thaws`, `Offered`, because TLAPS does not reason about `ENABLED`. Every other
property of a passing run is a theorem. `Protocol` and `PromiseKept` after a fault are not among
them, as they are false: the first for finding 2, the second already when the guard cannot
stop a helper and recovers on its error path, while the executor, which still waits to hear
that the guard is ready, has not given up: the phase goes from `forward` to `recovered` without `back`.

## 5. Findings

1. `undecided`: `guard.finish()` ends the guard before `Recovery.complete`. An executor killed in
   between leaves an active journal and nobody to decide it; every later apply refuses.
2. `timeout`: `Guard.finish` gives up after 20 s, and the executor then recovers while the guard
   is still recovering, both holding the lock. An IPC follows a durable conflict.
3. `guard_error`: the guard's error path resumes the layout helpers before it returns the
   windows, against the reason given for the order of the normal path.
4. `idle_orphan`: a release that is in progress, or queued, when the shell's socket drops is
   rolled back and its request kept, though the contract in `on_method` says that no
   request is retained because the shell is down.
5. `login_foreign`: `publish` of `session-update.py` replaces a file that somebody else
   has written since the preflight, though an external change is "never overwritten".
6. `restart_decides`: after a change whose rollback restored the files but could not reload
   Sway, the `status` of the next shell finds the files right and reloads nothing: Sway
   keeps the look that was undone, though `effective.json` is to decide on a restart.

## 6. Not modelled

**Of the restore.** Of the journal: scratchpad leaves, the floating sub-commands of a return (one command
stands for the return of a window), the equivalence of paths after a removal, a command
that Sway executes after its timeout was reported. Of the executor: phase 0 (admission of
providers, preflight, proof of the batch) is one step, and layout construction and slot
assignment are abstracted. Of the guard: discovery over `/proc`, a helper started after
discovery, the anchors one by one. Of the bridge: start-up name conflict, malformed
frames, labels too long, a session bus that does not answer `has_owner`.

**Of the other components**, what the models assume of the world or leave out:

- *Session start.* There is a checkpoint of an earlier session; a restore succeeds, is
  deferred or fails (what it does is `RestoreTransaction`). The exit gate (one flag between a
  request and its answer, whose tests drive every order) and the manager's page are left out.
- *Login update.* What the files hold, their owners and modes, and the command line. A file
  is the old version, the new one or a foreign one. The two files per lot stand for the
  list of the bundle. Only the link's temporary is in the model: that of a file lies in a
  directory which no tool removes, so that nothing depends on it.
- *Greeter.* Layout, fonts, clock, battery, avatar, power buttons. A reply and the idle
  callback that handles it come in order, as GTK runs idle callbacks of one priority so.
- *Launcher.* The hashes of the installed kit are one outcome: refused or not. Between the
  guard's start and the shell's, the other compositor may finalize; the shell is then given
  that one's SWAYSOCK, though quickshell-labfy-mosaic.service:12 says that the guard validates
  the owner of these variables. The model has this behaviour, and `OwnShell` excepts it:
  nothing in the code prevents it.
- *Appearance.* Colours, solar times and what a theme or an adapter writes. `status` fails
  at once when a change holds the lock (`LOCK_NB`), and succeeds without a repair when the
  image is gone; both are in the model. A step of a place that raises after its effect is not
  taken back by the code; the model calls the desktop broken and promises nothing. An
  answer lost on the way to the shell leaves it ahead of the files after a rollback. A write between the
  service's last read and systemd's re-arming of the path is missed; `AppsFollow` excludes
  that moment and names it.
- *Photo backup.* A changed directory entry of one photo reaches the device as a whole; a version
  (size, times, inode) does not recur; a kill of the service takes rsync with it (the unit's
  control group); a mount number is not used twice while it is pinned. Names on exFAT,
  free space, progress and the catalogues (a second root treated alike) only decide whether a
  run fails.
- *Overview.* A window is its container and its foreign-toplevel identifier together; the
  candidates fit one batch (cursor and deadline are left out); a purge is one step; the
  commands that focus or move a window are left out, and so is the removal of a killed
  batch's temporaries after ten minutes.

**Without a module.**

- *Session capture and layout*: pure functions over trees and rectangles, without an
  interleaving; their tests compare results with expected ones. A model would be a
  second implementation.
- *Firefox companion*, native messaging host and Firefox identities: the state that
  matters is the browser's windows, tabs and titles, which this repository only observes
  through the extension API; its order of events is not to be read from this code.
- *Removable media*: one operation per device behind GLib callbacks; what happens when a
  device disappears is decided by UDisks and MTP daemons that are not here.
- *Shell views*, *dotfiles*: presentation and static configuration.

## 7. Plan

What is left, in order:

1. A call of the idle bridge that fails in `has_owner`, as a fault of `IdleBridge`: it takes a session
   bus that does not answer for a second.
2. A weaker promise that holds after a fault as well, in which the guard may give up for the
   executor: of what two recoveries at once keep, only `UserPlacementWins` is proved.
3. Removing the abstraction of a return into one command (the floating sub-commands).
