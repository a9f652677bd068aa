--------------------------- MODULE RecoveryJournal ---------------------------
(***************************************************************************)
(* The durable journal of the session restore (session_v2/recovery.py): how *)
(* a process drives the compositor through journaled IPC commands, and how *)
(* a process recovers what an interrupted driver left behind.              *)
(*                                                                         *)
(* A driver publishes its intention (every admitted window pending), sends *)
(* the IPC, observes the tree again and publishes the confirmed state.  It *)
(* may crash, and the IPC may be lost, between any two of these steps; the *)
(* user acts on the same compositor throughout.                            *)
(*                                                                         *)
(* Abstractions.  A place is named relative to the transaction: "home" is  *)
(* where phase 0 found the window, "stage" the hidden staging workspace,   *)
(* "slot" its place in the saved layout, "elsewhere" any place only the    *)
(* user can have chosen.  A placement stands for workspace, output, path   *)
(* and geometry together.  "desk" is any surface or workspace outside the  *)
(* lot and the stage, "unknown" a focus that cannot be read or is          *)
(* ambiguous.  The anchors of a plan are built, used and killed in loops   *)
(* with the same checks: one Boolean stands for them.                      *)
(***************************************************************************)
EXTENDS Integers, FiniteSets

CONSTANTS
    Windows,            \* the application windows of the saved session
    NoWindow,           \* the target of a command that addresses no window
    Procs,              \* processes that can hold the transaction lock
    MaxOperations,      \* commands one journal may record (4096 in the code)
    MaxTransactions,    \* bound on restore attempts
    MaxBudget           \* bound on crashes, lost IPC answers, user actions...

FocusNames == {"desk", "stage", "anchor", "unknown"}

ASSUME WindowsAssumption ==
    /\ NoWindow \notin Windows
    /\ FocusNames \cap (Windows \cup {NoWindow}) = {}

ASSUME BoundsAssumption ==
    /\ MaxOperations \in Nat
    /\ MaxTransactions \in Nat
    /\ MaxBudget \in [{"crash", "lost", "user"} -> Nat]

VARIABLES
    loc,          \* compositor: where each window is
    anchor,       \* compositor: the anchors, "none", in a "slot" or on the "stage"
    foreign,      \* compositor: windows outside the lot, "kept" or "changed"
    focus,        \* compositor: the focused surface
    journal,      \* durable: session-v2-recovery.json
    receipt,      \* durable: session-v2-recovery-receipt.json
    at,           \* where each process is in the journal protocol
    mem,          \* each process's private copy of the journal (self.data)
    cmd,          \* the command each process has issued
    todo,         \* windows a recovery has still to examine
    fault,        \* a recovery has met a window or an issue it cannot resolve
    broken,       \* structure_changed, computed once at the recovery's entry
    parked,       \* history: windows the user put elsewhere, no IPC in flight
    unconfirmed,  \* history: windows sent an IPC whose effect was never observed
    budget        \* what is left of each bound

treeVars == <<loc, anchor, foreign, focus>>
fileVars == <<journal, receipt>>
scanVars == <<todo, fault, broken>>
histVars == <<parked, unconfirmed>>
jvars == <<treeVars, fileVars, at, mem, cmd, scanVars, histVars, budget>>

Places == {"home", "stage", "slot", "elsewhere", "gone"}
Focus == Windows \cup FocusNames
Statuses == {"none", "active", "required", "complete", "recovered"}
Ops == {"stage", "mark", "show", "swap", "kill", "focus", "clean", "return",
        "refocus"}
RecoveryOps == {"return", "refocus"}
Commands ==
    {c \in [op : Ops, win : Windows \cup {NoWindow}, focus : Focus] :
        c.win = NoWindow => c.op \notin {"stage", "swap", "return"}}

\* "off" and "failed" touch nothing; the others belong to one command, to the
\* opening or closing of a transaction, or to the recovery loop.
Points == {"off", "failed", "opening", "driving", "issued", "sent",
           "completing", "scanning", "returned", "verifying", "publishing"}
Resting == {"off", "failed"}

Topology == [loc |-> loc, anchor |-> anchor, foreign |-> foreign]
AnchorPlaces == {"none", "slot", "stage"}
Topologies == [loc : [Windows -> Places], anchor : AnchorPlaces,
               foreign : {"kept", "changed"}]

Journals == [tx : Nat, status : Statuses, admitted : SUBSET Windows,
             expected : [Windows -> Places], pending : SUBSET Windows,
             recovered : SUBSET Windows, focusOrigin : Focus,
             focusExp : Focus, focusPending : BOOLEAN, conflict : BOOLEAN,
             struct : SUBSET Topologies, operations : Nat]

EmptyJournal ==
    [tx |-> 0, status |-> "none", admitted |-> {},
     expected |-> [w \in Windows |-> "home"], pending |-> {}, recovered |-> {},
     focusOrigin |-> "desk", focusExp |-> "desk", focusPending |-> FALSE,
     conflict |-> FALSE, struct |-> {}, operations |-> 0]

NoCommand == [op |-> "show", win |-> NoWindow, focus |-> "desk"]

TypeOK ==
    /\ loc \in [Windows -> Places]
    /\ anchor \in AnchorPlaces
    /\ foreign \in {"kept", "changed"}
    /\ focus \in Focus
    /\ journal \in Journals
    /\ receipt \in [tx : Nat, status : Statuses]
    /\ at \in [Procs -> Points]
    /\ mem \in [Procs -> Journals]
    /\ cmd \in [Procs -> Commands]
    /\ todo \in [Procs -> SUBSET Windows]
    /\ fault \in [Procs -> BOOLEAN]
    /\ broken \in [Procs -> BOOLEAN]
    /\ parked \in SUBSET Windows
    /\ unconfirmed \in SUBSET Windows
    /\ budget \in [{"crash", "lost", "user"} -> Nat]

Init ==
    /\ loc = [w \in Windows |-> "home"]
    /\ anchor = "none"
    /\ foreign = "kept"
    /\ focus \in Windows \cup {"desk"}
    /\ journal = EmptyJournal
    /\ receipt = [tx |-> 0, status |-> "none"]
    /\ at = [p \in Procs |-> "off"]
    /\ mem = [p \in Procs |-> EmptyJournal]
    /\ cmd = [p \in Procs |-> NoCommand]
    /\ todo = [p \in Procs |-> {}]
    /\ fault = [p \in Procs |-> FALSE]
    /\ broken = [p \in Procs |-> FALSE]
    /\ parked = {}
    /\ unconfirmed = {}
    /\ budget = MaxBudget

Spend(k) == budget[k] > 0 /\ budget' = [budget EXCEPT ![k] = @ - 1]
Goto(p, l) == at' = [at EXCEPT ![p] = l]
Alone(p) == \A q \in Procs \ {p} : at[q] \in Resting

Idle(p) == cmd' = [cmd EXCEPT ![p] = NoCommand]

\* The Recovery object of a driver that failed is not used again.
Forget(p) == mem' = [mem EXCEPT ![p] = EmptyJournal] /\ Idle(p)
Fail(p) == Goto(p, "failed") /\ Forget(p) /\ UNCHANGED scanVars

Exit(p) ==
    /\ Goto(p, "off")
    /\ Forget(p)
    /\ todo' = [todo EXCEPT ![p] = {}]
    /\ fault' = [fault EXCEPT ![p] = FALSE]
    /\ broken' = [broken EXCEPT ![p] = FALSE]

\* Every publication is atomic: a temporary file, reread, renamed, fsynced.
Publish(p, j) == journal' = j /\ mem' = [mem EXCEPT ![p] = j]

-----------------------------------------------------------------------------
\* What a command does to the compositor, and where it predicts the focus.

Destination(op) ==
    CASE op = "stage"  -> "stage"
      [] op = "swap"   -> "slot"
      [] op = "return" -> "home"

Moves(c) == c.op \in {"stage", "swap", "return"}

LocAfter(c, from) ==
    IF Moves(c) THEN [from EXCEPT ![c.win] = Destination(c.op)] ELSE from

\* Mistake: a workspace command predicts the focus of its absent target.
FocusAfterUntargeted(op, w) ==
    CASE op \in {"stage", "return"} /\ focus = w -> "desk"
      [] op \in {"kill", "clean"} /\ focus = "anchor" -> "desk"
      [] op = "mark" -> "anchor"
      [] op = "show" -> "stage"
      [] op \in {"focus", "refocus"} -> w
      [] OTHER -> focus

FocusAfter(op, w) ==
    CASE op \in {"stage", "return"} /\ focus = w -> "desk"
      [] op = "swap" /\ focus = w -> "anchor"
      [] op = "swap" /\ focus = "anchor" -> w
      [] op \in {"kill", "clean"} /\ focus = "anchor" -> "desk"
      [] op = "mark" -> "anchor"
      [] op = "show" -> "stage"
      [] op \in {"focus", "refocus"} -> IF w = NoWindow THEN "desk" ELSE w
      [] OTHER -> focus

\* Sway rejects a command whose criteria match nothing.
Applicable(c) ==
    /\ c.win \in Windows => loc[c.win] # "gone"
    /\ c.op \in {"swap", "mark", "kill", "clean"} => anchor # "none"

Apply(c) ==
    /\ loc' = LocAfter(c, loc)
    /\ anchor' = CASE c.op \in {"kill", "clean"} -> "none"
                   [] c.op = "swap" -> "stage"
                   [] OTHER -> anchor
    /\ focus' = FocusAfter(c.op, c.win)
    /\ UNCHANGED foreign
-----------------------------------------------------------------------------
\* Opening and closing a transaction.

\* Mistake: the receipt is not read, and the journal alone is the status.
RecoveryStatusUnreported ==
    IF journal.status = "none" THEN "idle"
    ELSE IF journal.status \in {"complete", "recovered"}
         THEN journal.status ELSE "RECOVERY_REQUIRED"

\* recovery_status: the two files agree and leave nothing to recover.
RecoveryStatus ==
    IF journal.status = "none" THEN "idle"
    ELSE IF receipt.tx = journal.tx /\ receipt.status = journal.status
         THEN journal.status ELSE "RECOVERY_REQUIRED"

\* Executor.apply admits a transaction, phase 0 has every window mapped (the
\* places are renamed relative to the new transaction) and proves the focus;
\* Recovery.__init__ then publishes the journal, before the receipt.
Begin(p) ==
    LET proven == IF focus \in Windows THEN focus ELSE "desk" IN
    /\ at[p] = "off" /\ Alone(p)
    /\ RecoveryStatus \in {"idle", "complete", "recovered"}
    /\ journal.tx < MaxTransactions
    /\ focus # "unknown"
    /\ loc' = [w \in Windows |-> "home"]
    /\ anchor' = "none"
    /\ foreign' = "kept"
    /\ focus' = proven
    /\ Publish(p, [EmptyJournal EXCEPT !.tx = journal.tx + 1,
                                       !.status = "active",
                                       !.focusOrigin = proven,
                                       !.focusExp = proven])
    /\ Goto(p, "opening")
    /\ parked' = {} /\ unconfirmed' = {}
    /\ UNCHANGED <<receipt, cmd, scanVars, budget>>

PublishReceipt(p, status) ==
    receipt' = [tx |-> mem[p].tx, status |-> status]

OpenReceipt(p) ==
    /\ at[p] = "opening"
    /\ PublishReceipt(p, "active")
    /\ Goto(p, "driving")
    /\ UNCHANGED <<treeVars, journal, mem, cmd, scanVars, histVars, budget>>

\* Recovery.admit: the window is where phase 0 observed it.
Admit(p, w) ==
    /\ at[p] = "driving"
    /\ w \notin mem[p].admitted
    /\ loc[w] = "home"
    /\ Publish(p, [mem[p] EXCEPT !.admitted = @ \cup {w},
                                 !.expected[w] = "home"])
    /\ UNCHANGED <<treeVars, receipt, at, cmd, scanVars, histVars, budget>>

\* The helper process maps an anchor surface; Sway may give it the focus.
CreateAnchor(p) ==
    /\ at[p] = "driving"
    /\ anchor' = IF anchor = "none" THEN "slot" ELSE anchor
    /\ focus' \in {focus, "anchor"}
    /\ UNCHANGED <<loc, foreign, fileVars, at, mem, cmd, scanVars, histVars,
                   budget>>

\* Any failed require or exception of the driver: nothing is published.
Raise(p) ==
    /\ at[p] = "driving"
    /\ Fail(p)
    /\ UNCHANGED <<treeVars, fileVars, histVars, budget>>

FocusHeld(j) == focus = j.focusExp /\ focus # "unknown"
InPlace(j, w) == loc[w] = j.expected[w]

\* record_focus_conflict, then the driver raises.
RecordConflict(p, j) ==
    /\ journal' = [j EXCEPT !.conflict = TRUE]
    /\ Fail(p)
    /\ UNCHANGED <<treeVars, receipt, histVars, budget>>

\* Recovery.boundary and check_command_focus around the guard's transitions.
\* When the focus is the expected one they change nothing this model keeps.
BoundaryConflict(p) ==
    /\ at[p] = "driving" /\ ~FocusHeld(mem[p])
    /\ RecordConflict(p, mem[p])

\* Recovery.verify: no surface is left on the stage, the others are unchanged.
StageEmpty ==
    /\ \A w \in Windows : loc[w] # "stage"
    /\ anchor # "stage"
    /\ foreign = "kept"

\* validate_final and verify_structure: nothing ambiguous, every window of
\* the lot alive and in its slot, the expected focus, outside the stage.
FinalTreeVerified(p) ==
    /\ ~mem[p].focusPending /\ ~mem[p].conflict /\ mem[p].pending = {}
    /\ FocusHeld(mem[p]) /\ focus # "stage"
    /\ mem[p].admitted = Windows
    /\ \A w \in Windows : InPlace(mem[p], w) /\ loc[w] = "slot"
    /\ StageEmpty /\ anchor = "none"

Complete(p) ==
    /\ at[p] = "driving"
    /\ FinalTreeVerified(p)
    /\ Publish(p, [mem[p] EXCEPT !.status = "complete"])
    /\ Goto(p, "completing")
    /\ UNCHANGED <<treeVars, receipt, cmd, scanVars, histVars, budget>>

CompleteReceipt(p) ==
    /\ at[p] = "completing"
    /\ PublishReceipt(p, "complete")
    /\ Exit(p)
    /\ UNCHANGED <<treeVars, journal, histVars, budget>>

-----------------------------------------------------------------------------
\* Recovery.command: check, publish the intention, send, observe, publish.

\* Mistake: the windows are not compared with what the journal expects.
AllInPlaceUnread(j) == j.admitted \cap j.pending = {}

AllInPlace(j) == \A w \in j.admitted : w \notin j.pending /\ InPlace(j, w)

\* An anchor of the transaction may hold the focus it took when it mapped.
FocusOwned(j) == (FocusHeld(j) \/ focus = "anchor") /\ ~j.conflict

Intend(p, j, op, w) ==
    /\ j.operations < MaxOperations
    /\ FocusOwned(j) /\ AllInPlace(j)
    /\ Publish(p, [j EXCEPT !.pending = j.admitted,
                            !.focusPending = TRUE,
                            !.operations = @ + 1])
    /\ cmd' = [cmd EXCEPT ![p] = [op |-> op, win |-> w,
                                  focus |-> FocusAfter(op, w)]]
    /\ Goto(p, "issued")
    /\ UNCHANGED <<treeVars, receipt, scanVars, histVars, budget>>

\* A focus nobody owns is recorded as a durable conflict before the refusal;
\* a window that is not where the journal expects it is RECOVERY_STATE_CHANGED.
Refuse(p, j) ==
    \/ ~FocusOwned(j) /\ RecordConflict(p, j)
    \/ /\ FocusOwned(j) /\ ~AllInPlace(j)
       /\ journal' = j
       /\ Fail(p)
       /\ UNCHANGED <<treeVars, receipt, histVars, budget>>

Issue(p, op, w) == at[p] = "driving" /\ Intend(p, mem[p], op, w)
IssueRefused(p) == at[p] = "driving" /\ Refuse(p, mem[p])

\* The guard removes the anchors of a transaction it did not open, through
\* its journal (guard.run), before any recovery.
CleanIssue(p) ==
    at[p] = "off" /\ anchor # "none" /\ Intend(p, journal, "clean", NoWindow)
CleanRefused(p) ==
    at[p] = "off" /\ anchor # "none" /\ Refuse(p, journal)

Recovering(p) == cmd[p].op \in RecoveryOps

\* What follows a command that raised: the driver's transaction fails, the
\* recovery blames the window, or the focus, and goes on.
Blamed(p) ==
    IF Recovering(p)
    THEN /\ Goto(p, IF cmd[p].op = "return" THEN "scanning" ELSE "verifying")
         /\ todo' = [todo EXCEPT ![p] = @ \ {cmd[p].win}]
         /\ fault' = [fault EXCEPT ![p] = TRUE]
         /\ Idle(p)
         /\ UNCHANGED <<mem, broken>>
    ELSE Fail(p)

SentTo(p) ==
    IF Moves(cmd[p]) THEN unconfirmed \cup {cmd[p].win} ELSE unconfirmed

Send(p) ==
    /\ at[p] = "issued" /\ Applicable(cmd[p])
    /\ Apply(cmd[p])
    /\ unconfirmed' = SentTo(p)
    /\ Goto(p, "sent")
    /\ UNCHANGED <<fileVars, mem, cmd, scanVars, parked, budget>>

\* The IPC times out: Sway may or may not have executed the command.
SendLost(p) ==
    /\ at[p] = "issued" /\ Spend("lost")
    /\ \/ Applicable(cmd[p]) /\ Apply(cmd[p])
       \/ UNCHANGED treeVars
    /\ unconfirmed' = SentTo(p)
    /\ Blamed(p)
    /\ UNCHANGED <<fileVars, parked>>

SendRejected(p) ==
    /\ at[p] = "issued" /\ ~Applicable(cmd[p])
    /\ Blamed(p)
    /\ UNCHANGED <<treeVars, fileVars, histVars, budget>>

\* command_postcondition: the target is where the command sends it and every
\* other window of the lot where it was.
Postcondition(p) ==
    \A w \in mem[p].admitted : loc[w] = LocAfter(cmd[p], mem[p].expected)[w]

FocusPredicted(p) == focus = cmd[p].focus /\ focus # "unknown"

Observed(p) == [mem[p] EXCEPT !.expected = LocAfter(cmd[p], @), !.pending = {}]
Known(p) == unconfirmed' = unconfirmed \ {cmd[p].win}

Confirmed(p) == [Observed(p) EXCEPT !.focusExp = focus,
                                    !.focusPending = FALSE,
                                    !.struct = {Topology}]

Confirm(p) ==
    /\ at[p] = "sent" /\ ~Recovering(p)
    /\ Postcondition(p) /\ FocusPredicted(p)
    /\ IF cmd[p].op = "clean"
       THEN journal' = Confirmed(p) /\ Exit(p)
       ELSE /\ Publish(p, Confirmed(p))
            /\ Goto(p, "driving") /\ Idle(p)
            /\ UNCHANGED scanVars
    /\ Known(p)
    /\ UNCHANGED <<treeVars, receipt, parked, budget>>

\* check_command_focus publishes what it observed together with the conflict;
\* focus_pending stays set.
ConfirmConflict(p) ==
    /\ at[p] = "sent" /\ ~Recovering(p)
    /\ Postcondition(p) /\ ~FocusPredicted(p)
    /\ journal' = [Observed(p) EXCEPT !.conflict = TRUE]
    /\ Known(p)
    /\ Fail(p)
    /\ UNCHANGED <<treeVars, receipt, parked, budget>>

\* RECOVERY_POSTCONDITION_FAILED, RECOVERY_ORDER_CHANGED: nothing published,
\* the durable journal keeps every window pending.
ConfirmFailed(p) ==
    /\ at[p] = "sent" /\ ~Recovering(p)
    /\ ~Postcondition(p)
    /\ Fail(p)
    /\ UNCHANGED <<treeVars, fileVars, histVars, budget>>

-----------------------------------------------------------------------------
\* Recovery.recover, in the driver after its failure or in another process
\* after the driver's death.

StructureKept(j) == j.struct \subseteq {Topology}

RecoverSettled(p) ==
    /\ at[p] \in Resting
    /\ journal.status \in {"complete", "recovered"}
    /\ Exit(p)
    /\ UNCHANGED <<treeVars, fileVars, histVars, budget>>

\* Mistake: a settled journal is recovered again.
RecoverEnterSettled(p) ==
    LET j == [journal EXCEPT !.conflict = @ \/ focus # journal.focusExp]
    IN /\ at[p] \in Resting
       /\ journal.status # "none"
       /\ Publish(p, j)
       /\ broken' = [broken EXCEPT ![p] = ~StructureKept(journal)]
       /\ todo' = [todo EXCEPT ![p] = journal.admitted \ journal.recovered]
       /\ fault' = [fault EXCEPT ![p] = FALSE]
       /\ Goto(p, "scanning")
       /\ UNCHANGED <<treeVars, receipt, cmd, histVars, budget>>

RecoverEnter(p) ==
    LET kept == focus = journal.focusExp
        j == [journal EXCEPT !.conflict = @ \/ ~kept]
    IN /\ at[p] \in Resting
       /\ journal.status \in {"active", "required"}
       /\ Publish(p, j)
       /\ broken' = [broken EXCEPT ![p] = ~StructureKept(journal)]
       /\ todo' = [todo EXCEPT ![p] = journal.admitted \ journal.recovered]
       /\ fault' = [fault EXCEPT ![p] = FALSE]
       /\ Goto(p, "scanning")
       /\ UNCHANGED <<treeVars, receipt, cmd, histVars, budget>>

\* The tree cannot be read: RECOVERY_OBSERVATION_UNAVAILABLE, without IPC.
RecoverUnavailable(p) ==
    /\ at[p] \in Resting
    /\ journal.status \in {"active", "required"}
    /\ Spend("lost")
    /\ Publish(p, [journal EXCEPT !.status = "required"])
    /\ Goto(p, "publishing")
    /\ UNCHANGED <<treeVars, receipt, cmd, scanVars, histVars>>

Examined(p, w) == todo' = [todo EXCEPT ![p] = @ \ {w}]
\* Mistake: a window that cannot be recovered leaves no issue.
BlameSilently(p, w) ==
    Examined(p, w) /\ UNCHANGED <<fault, broken>>

Blame(p, w) ==
    /\ Examined(p, w)
    /\ fault' = [fault EXCEPT ![p] = TRUE]
    /\ UNCHANGED broken

Closed(p, w) ==
    /\ Publish(p, [mem[p] EXCEPT !.recovered = @ \cup {w},
                                 !.pending = @ \ {w}])
    /\ Examined(p, w)
    /\ UNCHANGED <<fault, broken>>

\* A client that is gone is recovered: never relaunched, never killed.
ScanGone(p, w) ==
    /\ at[p] = "scanning" /\ w \in todo[p]
    /\ loc[w] = "gone"
    /\ Publish(p, [mem[p] EXCEPT !.recovered = @ \cup {w}])
    /\ Examined(p, w)
    /\ UNCHANGED <<treeVars, receipt, at, cmd, fault, broken, histVars, budget>>

\* Mistake: an ambiguous intention is taken for a confirmed one.
ReturnableAmbiguous(p, w) ==
    /\ loc[w] # "gone"
    /\ ~broken[p]
    /\ InPlace(mem[p], w)

\* Mistake: a window is returned wherever it is.
ReturnableAnywhere(p, w) ==
    /\ loc[w] # "gone"
    /\ w \notin mem[p].pending
    /\ ~broken[p]

Returnable(p, w) ==
    /\ loc[w] # "gone"
    /\ w \notin mem[p].pending
    /\ ~broken[p]
    /\ InPlace(mem[p], w)

\* AMBIGUOUS_INTENTION, STRUCTURE_OR_ORDER_CHANGED, a window that moved; or
\* the origin's output is gone, or the tree cannot be read.
ScanBlame(p, w) ==
    /\ at[p] = "scanning" /\ w \in todo[p]
    /\ loc[w] # "gone"
    /\ \/ ~Returnable(p, w) /\ UNCHANGED budget
       \/ Returnable(p, w) /\ Spend("lost")
    /\ Blame(p, w)
    /\ UNCHANGED <<treeVars, fileVars, at, mem, cmd, histVars>>

\* Already home: nothing is commanded.
ScanHome(p, w) ==
    /\ at[p] = "scanning" /\ w \in todo[p]
    /\ Returnable(p, w) /\ loc[w] = "home"
    /\ Closed(p, w)
    /\ UNCHANGED <<treeVars, receipt, at, cmd, histVars, budget>>

\* recovery_command: the same conditions for the return of a window and for
\* the restoration of the focus.
\* Mistake: a recorded conflict is forgotten once the focus is back.
RecoveryFocusOwnedAgain(p) == FocusHeld(mem[p])

RecoveryFocusOwned(p) == FocusHeld(mem[p]) /\ ~mem[p].conflict

RecoveryIssue(p, op, w, j) ==
    /\ RecoveryFocusOwned(p)
    /\ StructureKept(mem[p]) /\ mem[p].operations < MaxOperations
    /\ Publish(p, [j EXCEPT !.focusPending = TRUE, !.operations = @ + 1])
    /\ cmd' = [cmd EXCEPT ![p] = [op |-> op, win |-> w,
                                  focus |-> FocusAfter(op, w)]]
    /\ Goto(p, "issued")
    /\ UNCHANGED <<treeVars, receipt, scanVars, histVars, budget>>

\* A refusal on the focus publishes the conflict; one on the structure, or
\* on the number of operations, publishes nothing.
RecoveryRefused(p) ==
    \/ ~RecoveryFocusOwned(p) /\ Publish(p, [mem[p] EXCEPT !.conflict = TRUE])
    \/ /\ RecoveryFocusOwned(p)
       /\ ~StructureKept(mem[p]) \/ mem[p].operations >= MaxOperations
       /\ UNCHANGED <<journal, mem>>

ReturnIssue(p, w) ==
    /\ at[p] = "scanning" /\ w \in todo[p]
    /\ Returnable(p, w) /\ loc[w] # "home"
    /\ RecoveryIssue(p, "return", w, [mem[p] EXCEPT !.pending = @ \cup {w}])

ReturnRefused(p, w) ==
    /\ at[p] = "scanning" /\ w \in todo[p]
    /\ Returnable(p, w) /\ loc[w] # "home"
    /\ RecoveryRefused(p)
    /\ Blame(p, w)
    /\ UNCHANGED <<treeVars, receipt, at, cmd, histVars, budget>>

Returning(p) == cmd[p].op = "return"
Returned(p) == at[p] = "sent" /\ Returning(p)
Home(p) == loc[cmd[p].win] = "home"

\* pending stays set until ReturnClose: a crash in between is ambiguous.
ReturnConfirm(p) ==
    /\ Returned(p) /\ Home(p) /\ FocusPredicted(p)
    /\ Publish(p, [mem[p] EXCEPT !.expected[cmd[p].win] = "home",
                                 !.focusExp = focus,
                                 !.focusPending = FALSE,
                                 !.struct = {Topology}])
    /\ Known(p)
    /\ Goto(p, "returned")
    /\ UNCHANGED <<treeVars, receipt, cmd, scanVars, parked, budget>>

ReturnConflict(p) ==
    /\ Returned(p) /\ Home(p) /\ ~FocusPredicted(p)
    /\ Publish(p, [mem[p] EXCEPT !.expected[cmd[p].win] = "home",
                                 !.conflict = TRUE])
    /\ Known(p)
    /\ Goto(p, "scanning") /\ Idle(p)
    /\ Blame(p, cmd[p].win)
    /\ UNCHANGED <<treeVars, receipt, parked, budget>>

\* Not home after the IPC, or not any more after its confirmation.
ReturnFailed(p) ==
    /\ Returned(p) \/ at[p] = "returned"
    /\ ~Home(p)
    /\ Blamed(p)
    /\ UNCHANGED <<treeVars, fileVars, histVars, budget>>

ReturnClose(p) ==
    /\ at[p] = "returned" /\ Returning(p) /\ Home(p)
    /\ Closed(p, cmd[p].win)
    /\ Goto(p, "scanning") /\ Idle(p)
    /\ UNCHANGED <<treeVars, receipt, histVars, budget>>

\* The focus is restored only when every window of the lot was resolved and
\* the window that had it is back.
FocusRestorable(p) ==
    LET origin == mem[p].focusOrigin IN
    /\ ~fault[p] /\ ~mem[p].focusPending /\ ~mem[p].conflict
    /\ origin \in Windows => origin \in mem[p].admitted /\ loc[origin] = "home"

ScanDone(p) == at[p] = "scanning" /\ todo[p] = {}

RefocusIssue(p) ==
    LET origin == mem[p].focusOrigin IN
    /\ ScanDone(p) /\ FocusRestorable(p)
    /\ RecoveryIssue(p, "refocus",
                     IF origin \in Windows THEN origin ELSE NoWindow, mem[p])

RefocusRefused(p) ==
    /\ ScanDone(p)
    /\ \/ ~FocusRestorable(p) /\ UNCHANGED <<journal, mem>>
       \/ FocusRestorable(p) /\ RecoveryRefused(p)
    /\ fault' = [fault EXCEPT ![p] = TRUE]
    /\ Goto(p, "verifying")
    /\ UNCHANGED <<treeVars, receipt, cmd, todo, broken, histVars, budget>>

Refocused(p) == at[p] = "sent" /\ cmd[p].op = "refocus"

RefocusConfirm(p) ==
    /\ Refocused(p) /\ FocusPredicted(p)
    /\ Publish(p, [mem[p] EXCEPT !.focusExp = focus,
                                 !.focusPending = FALSE,
                                 !.struct = {Topology}])
    /\ Goto(p, "verifying") /\ Idle(p)
    /\ UNCHANGED <<treeVars, receipt, scanVars, histVars, budget>>

RefocusConflict(p) ==
    /\ Refocused(p) /\ ~FocusPredicted(p)
    /\ Publish(p, [mem[p] EXCEPT !.conflict = TRUE])
    /\ Goto(p, "verifying") /\ Idle(p)
    /\ fault' = [fault EXCEPT ![p] = TRUE]
    /\ UNCHANGED <<treeVars, receipt, todo, broken, histVars, budget>>

Verdict(p) ==
    /\ at[p] = "verifying"
    /\ Publish(p, [mem[p] EXCEPT !.status =
                       IF fault[p] \/ ~StageEmpty THEN "required" ELSE "recovered"])
    /\ Goto(p, "publishing")
    /\ UNCHANGED <<treeVars, receipt, cmd, scanVars, histVars, budget>>

\* Mistake: the receipt reports the end of the recovery, not its verdict.
CloseReceiptRecovered(p) ==
    /\ at[p] = "publishing"
    /\ PublishReceipt(p, "recovered")
    /\ Exit(p)
    /\ UNCHANGED <<treeVars, journal, histVars, budget>>

CloseReceipt(p) ==
    /\ at[p] = "publishing"
    /\ PublishReceipt(p, mem[p].status)
    /\ Exit(p)
    /\ UNCHANGED <<treeVars, journal, histVars, budget>>

-----------------------------------------------------------------------------
\* The environment: crashes, the anchor helper's end, the user.

Crash(p) ==
    /\ at[p] # "off" /\ Spend("crash")
    /\ Exit(p)
    /\ UNCHANGED <<treeVars, fileVars, histVars>>

\* A process outside the protocol dies.
CrashOutside(p) ==
    /\ at[p] = "off" /\ Spend("crash")
    /\ UNCHANGED <<treeVars, fileVars, at, mem, cmd, scanVars, histVars>>

AnchorGone ==
    /\ anchor' = "none"
    /\ focus' = IF focus = "anchor" THEN "desk" ELSE focus
    /\ UNCHANGED <<loc, foreign>>

\* Closed by the executor or stopped by the guard once the driver has failed.
AnchorExit ==
    /\ anchor # "none"
    /\ \A p \in Procs : at[p] \in Resting
    /\ AnchorGone
    /\ UNCHANGED <<fileVars, at, mem, cmd, scanVars, histVars, budget>>

InFlight == \E p \in Procs : at[p] = "issued"

UserMove(w, place) ==
    /\ Spend("user")
    /\ loc[w] \notin {"gone", place}
    /\ loc' = [loc EXCEPT ![w] = place]
    /\ parked' = IF place = "elsewhere" /\ ~InFlight
                 THEN parked \cup {w} ELSE parked \ {w}
    /\ UNCHANGED <<anchor, foreign, focus, fileVars, at, mem, cmd, scanVars,
                   unconfirmed>>

UserClose(w) ==
    /\ Spend("user")
    /\ loc[w] # "gone"
    /\ loc' = [loc EXCEPT ![w] = "gone"]
    /\ focus' = IF focus = w THEN "desk" ELSE focus
    /\ parked' = parked \ {w}
    /\ UNCHANGED <<anchor, foreign, fileVars, at, mem, cmd, scanVars,
                   unconfirmed>>

UserFocus(f) ==
    /\ Spend("user")
    /\ f # focus
    /\ f \in Windows => loc[f] # "gone"
    /\ focus' = f
    /\ UNCHANGED <<loc, anchor, foreign, fileVars, at, mem, cmd, scanVars,
                   histVars>>

ForeignChange ==
    /\ Spend("user")
    /\ foreign = "kept"
    /\ foreign' = "changed"
    /\ UNCHANGED <<loc, anchor, focus, fileVars, at, mem, cmd, scanVars,
                   histVars>>

User ==
    \/ \E w \in Windows : \/ \E place \in {"home", "elsewhere"} : UserMove(w, place)
                          \/ UserClose(w)
    \/ \E f \in Windows \cup {"desk", "stage", "unknown"} : UserFocus(f)
    \/ ForeignChange

-----------------------------------------------------------------------------
\* The protocol: one process at a time holds the lock; a driver may issue any
\* command on the windows it has admitted, and any process may take over once
\* the others rest.

Drive(p) ==
    \/ OpenReceipt(p)
    \/ \E w \in Windows : Admit(p, w)
    \/ CreateAnchor(p) \/ Raise(p) \/ BoundaryConflict(p)
    \/ \E w \in mem[p].admitted : \E op \in {"stage", "swap", "focus"} :
           Issue(p, op, w)
    \/ \E op \in {"mark", "show", "kill", "focus"} : Issue(p, op, NoWindow)
    \/ IssueRefused(p)
    \/ Send(p) \/ SendLost(p) \/ SendRejected(p)
    \/ Confirm(p) \/ ConfirmConflict(p) \/ ConfirmFailed(p)
    \/ Complete(p) \/ CompleteReceipt(p)

ScanWindow(p, w) ==
    \/ ScanGone(p, w) \/ ScanBlame(p, w) \/ ScanHome(p, w)
    \/ ReturnIssue(p, w) \/ ReturnRefused(p, w)

Recover(p) ==
    \/ \E w \in Windows : ScanWindow(p, w)
    \/ ReturnConfirm(p) \/ ReturnConflict(p) \/ ReturnFailed(p) \/ ReturnClose(p)
    \/ RefocusIssue(p) \/ RefocusRefused(p) \/ RefocusConfirm(p)
    \/ RefocusConflict(p)
    \/ Verdict(p) \/ CloseReceipt(p)

Clean(p) ==
    /\ journal.status = "active" /\ journal.recovered = {}
    /\ CleanIssue(p) \/ CleanRefused(p)

EnterRecovery(p) == RecoverSettled(p) \/ RecoverEnter(p) \/ RecoverUnavailable(p)

Next ==
    \/ \E p \in Procs : \/ Begin(p)
                        \/ Drive(p)
                        \/ Alone(p) /\ (Clean(p) \/ EnterRecovery(p))
                        \/ Recover(p)
                        \/ Crash(p) \/ CrashOutside(p)
    \/ AnchorExit
    \/ User

Spec == Init /\ [][Next]_jvars

-----------------------------------------------------------------------------
\* Correctness.

\* A window whose last IPC was never observed to have taken effect is the
\* target of no further command of the transaction: an unknown outcome is
\* never retried (session-restore-v2.md; pending is published before the IPC
\* and cleared only by an observation).
NoReplay ==
    \A p \in Procs :
        at[p] = "issued" /\ Moves(cmd[p]) => cmd[p].win \notin unconfirmed

\* A window that the user put elsewhere while no command was in flight stays
\* there: neither the driver nor any recovery moves it again.
UserPlacementWins == \A w \in parked : loc[w] = "elsewhere"

\* Once a focus conflict is durable, no IPC of the journal is sent any more,
\* by the driver or by a recovery (check_focus_preservation).
ConflictFreezes ==
    [][\A p \in Procs : at[p] = "issued" /\ at'[p] = "sent" => ~journal.conflict]_jvars

\* A transaction recorded as settled is resolved: no living window pending, no
\* focus conflict, and no window is left where only the transaction could have
\* put it, on the stage (or, after a recovery, in a slot).  A window that was
\* pending and is closed by the user stays marked pending (_recover, "gone").
SettledIsResolved ==
    journal.status \in {"complete", "recovered"} =>
        /\ \A w \in journal.pending : loc[w] = "gone"
        /\ ~journal.focusPending /\ ~journal.conflict
        /\ journal.status = "recovered" => journal.recovered = journal.admitted
        /\ \A w \in journal.admitted :
               /\ loc[w] # "stage"
               /\ journal.status = "recovered" => loc[w] # "slot"

\* A settled journal is never written again, except by the next transaction.
SettledIsFinal ==
    [][journal.status \in {"complete", "recovered"} /\ journal' # journal
           => journal'.tx = journal.tx + 1]_jvars

\* The receipt never claims more than the journal: a success or a recovery it
\* reports for the current transaction is the journal's own status.
ReceiptNeverAhead ==
    receipt.tx = journal.tx /\ receipt.status \in {"complete", "recovered"}
        => journal.status = receipt.status

-----------------------------------------------------------------------------
\* What the journal protocol promises.

\* A driver steers from its opening until it is done or has given up; the
\* guard's cleaning of anchors, and a recovery, do not.
Steers(p) ==
    \/ at[p] \in {"opening", "driving"}
    \/ at[p] \in {"issued", "sent"} /\ cmd[p].op \notin RecoveryOps \cup {"clean"}

RestorePhase ==
    CASE journal.status = "none" -> "idle"
      [] journal.status \in {"complete", "recovered"} -> journal.status
      [] OTHER -> IF \E p \in Procs : Steers(p) THEN "forward" ELSE "back"

ClaimReported ==
    /\ journal.status \in {"complete", "recovered"}
    /\ receipt.tx = journal.tx /\ receipt.status = journal.status

Restore == INSTANCE RestorePromise WITH
    place <- loc, phase <- RestorePhase, returned <- journal.recovered,
    reported <- ClaimReported

\* Every step of the drivers, the recoveries, the crashes and the user is one
\* that RestorePromise allows: nobody resumes driving after a driver has given
\* up, no window goes back and forth, no claim is made of a desktop it does
\* not describe, no restore begins over one whose receipt was not published.
PromiseKept == Restore!Spec
=============================================================================
