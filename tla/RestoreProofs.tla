---------------------------- MODULE RestoreProofs ----------------------------
(***************************************************************************)
(* Proofs about the executor and the guard of RestoreTransaction, for every *)
(* set of windows and of helpers, any number of transactions and of faults, *)
(* and any kill of either process.                                         *)
(***************************************************************************)
EXTENDS RestoreTransaction, RecoveryJournalProofs

USE DEF jvars, treeVars, fileVars, scanVars, histVars
USE DEF vars, tvars, engineVars, guardVars, channelVars, helperVars

-----------------------------------------------------------------------------
\* The inductive invariant.

Commanding == {"issued", "sent"}
DriverOps == {"stage", "mark", "show", "swap", "kill", "focus"}
RecoveryPoints == {"scanning", "issued", "sent", "returned", "verifying",
                   "publishing"}

\* A recovery has only its own commands in flight.
RecoveryKnown(p) ==
    /\ at[p] \in Commanding => Recovering(p)
    /\ at[p] = "returned" => Returning(p)

\* The phase of the executor says where it is in the journal protocol.
EnginePoint ==
    /\ pcE \in {"idle", "success"} => at[Engine] = "off"
    /\ pcE = "open" => at[Engine] = "opening"
    /\ pcE = "receipt" => at[Engine] = "completing"
    /\ pcE \in {"abandon", "failing", "finishing", "closing"}
           => at[Engine] = "failed"
    /\ pcE \in {"attempt", "spawn", "ready", "admit", "mark", "prepared", "focus",
                "resumed", "finished", "complete"}
           => at[Engine] = "driving"
    /\ pcE \in {"stage", "show", "resolve", "swap", "verify", "resume"}
           => at[Engine] \in Commanding \cup {"driving"}
    /\ pcE = "recovering" => at[Engine] \in RecoveryPoints

EngineCommand ==
    /\ at[Engine] \in Commanding /\ pcE # "recovering" => cmd[Engine].op \in DriverOps
    /\ at[Engine] \in Commanding /\ pcE = "resume" => cmd[Engine].op = "focus"
    /\ pcE = "recovering" => RecoveryKnown(Engine)

\* So does the phase of the guard.
GuardPoint ==
    /\ pcG \in {"off", "stopping", "watch", "decide", "resume", "report",
                "error-report"} => at[Guard] = "off"
    /\ pcG = "error" => at[Guard] \in Resting
    /\ pcG = "clean" => at[Guard] \in Commanding \cup {"off"}
    /\ pcG = "recovering" => at[Guard] \in RecoveryPoints
    /\ pcG = "error-recovering" => at[Guard] \in RecoveryPoints \cup Resting

GuardCommand ==
    /\ at[Guard] \in Commanding /\ pcG = "clean" => cmd[Guard].op = "clean"
    /\ pcG \in {"recovering", "error-recovering"} => RecoveryKnown(Guard)

EnginePart == EnginePoint /\ EngineCommand
GuardPart == GuardPoint /\ GuardCommand

\* Whoever is in the protocol holds a journal of the current transaction.
SameTransaction ==
    \A p \in Procs : at[p] \notin Resting => mem[p].tx = journal.tx

\* What the guard owes is neither forgotten nor somebody else's.
Obligations ==
    /\ owed \cap frozen = {}
    /\ \A h \in frozen : helpers[h] # "running"
    /\ \A h \in Helpers \ (owed \cup frozen) : helpers[h] # "stopped"

Quiet == request = "none" /\ ~closed
AllHeld == pcG \in {"watch", "off"} /\ \A h \in Helpers : helpers[h] # "running"

\* From the guard's "ready" to the executor's "prepare" nothing is asked of the
\* guard, and no helper runs.
Held ==
    /\ pcE \in {"open", "attempt", "spawn"} => pcG = "off"
    /\ pcG = "stopping" => \A h \in owed : helpers[h] # "running"
    /\ pcE = "ready" => Quiet
    /\ pcE = "ready" /\ answer = "ready" => AllHeld
    /\ pcE \in {"admit", "stage", "mark", "show", "resolve", "swap", "verify"}
           => Quiet /\ AllHeld

\* "finished" is the guard's last word, and the executor completes after it.
Ending ==
    /\ answer = "finished" => pcG = "off" /\ owed = {}
    /\ pcE \in {"complete", "receipt", "success"} => pcG = "off" /\ owed = {}

\* Whoever leaves by "report" owes nothing; a helper still owed after the error
\* path's own call was failed by it.
Retried ==
    /\ pcG = "report" => owed = {}
    /\ pcG \in {"error-recovering", "error-report"} /\ owed # {} =>
           faults < MaxFaults

Completed ==
    journal.status = "complete" /\ receipt = [tx |-> journal.tx, status |-> "complete"]

Reported ==
    /\ pcE = "receipt" => journal.status = "complete"
    /\ pcE = "success" => Completed
    /\ report.tx <= journal.tx
    /\ pcE \notin {"idle", "open", "attempt", "failing"} => report.tx = journal.tx
    /\ report.status = "success" /\ report.tx = journal.tx =>
           pcE = "idle" /\ pcG = "off" /\ owed = {} /\ Completed

RestoreInv ==
    /\ TransactionTypeOK /\ EnginePart /\ GuardPart /\ SameTransaction
    /\ Obligations /\ Held /\ Retried /\ Ending /\ Reported

-----------------------------------------------------------------------------
\* One process of the journal protocol steps.

\* Executor and guard are the two processes.
LEMMA TwoProcs == Engine \in Procs /\ Guard \in Procs /\ Engine # Guard
BY ProcsAssumption

\* A step of p, which leaves the other process alone and opens no transaction.
Local(p) ==
    /\ \A q \in Procs \ {p} : at'[q] = at[q] /\ mem'[q] = mem[q] /\ cmd'[q] = cmd[q]
    /\ journal'.tx = journal.tx
    /\ at'[p] \notin Resting => mem'[p].tx = journal.tx

\* What a step of p may assume: a journal of this transaction in memory.
Steps(p) == TypeOK /\ p \in Procs /\ (at[p] \notin Resting => mem[p].tx = journal.tx)

\* A publication by p of a journal of the current transaction is local.
LEMMA PublishedLocal ==
    ASSUME NEW p, Steps(p), NEW j \in Journals, j.tx = journal.tx,
           journal' = j, mem' = [mem EXCEPT ![p] = j],
           NEW l, at' = [at EXCEPT ![p] = l],
           NEW c, cmd' = [cmd EXCEPT ![p] = c]
    PROVE  Local(p)
BY DEF Steps, Local, TypeOK

\* A stop of p, whatever it has published before, is local.
LEMMA StoppedLocal ==
    ASSUME NEW p, Steps(p), Forget(p), journal'.tx = journal.tx,
           NEW l \in Resting, at' = [at EXCEPT ![p] = l]
    PROVE  Local(p) /\ at'[p] = l
BY DEF Steps, Local, TypeOK, Forget, Idle

\* Opening, closing, and what only reads: local.
LEMMA DriveLocal ==
    ASSUME NEW p, Steps(p)
    PROVE  /\ OpenReceipt(p) => Local(p) /\ at'[p] = "driving"
           /\ \A w \in Windows : Admit(p, w) => Local(p) /\ at' = at
           /\ CreateAnchor(p) => Local(p) /\ at' = at
           /\ Raise(p) \/ BoundaryConflict(p) => Local(p) /\ at'[p] = "failed"
           /\ Complete(p) => /\ Local(p) /\ at'[p] = "completing"
                             /\ journal'.status = "complete"
           /\ CompleteReceipt(p) =>
                  /\ Local(p) /\ at'[p] = "off" /\ journal' = journal
                  /\ receipt' = [tx |-> journal.tx, status |-> "complete"]
           /\ Crash(p) => Local(p) /\ at'[p] = "off" /\ UNCHANGED fileVars
<1>0. mem[p] \in Journals /\ p \in Procs /\ at \in [Procs -> Points]
      /\ mem \in [Procs -> Journals] /\ journal \in Journals
  BY DEF Steps, TypeOK
<1>1. ASSUME OpenReceipt(p) PROVE Local(p) /\ at'[p] = "driving"
  BY <1>0, <1>1 DEF OpenReceipt, Goto, Steps, Local, Resting
<1>2. ASSUME NEW w \in Windows, Admit(p, w) PROVE Local(p) /\ at' = at
  <2>1. PICK j : /\ j = [mem[p] EXCEPT !.admitted = @ \cup {w}, !.expected[w] = "home"]
                 /\ Publish(p, j)
    BY <1>2 DEF Admit
  <2>2. j.tx = mem[p].tx
    BY <2>1, <1>0 DEF Journals
  <2> QED
    BY <1>0, <1>2, <2>1, <2>2 DEF Admit, Publish, Steps, Local, Resting
<1>3. ASSUME CreateAnchor(p) PROVE Local(p) /\ at' = at
  BY <1>0, <1>3 DEF CreateAnchor, Steps, Local
<1>4. ASSUME Raise(p) PROVE Local(p) /\ at'[p] = "failed"
  BY <1>0, <1>4, StoppedLocal DEF Raise, Fail, Goto, Resting
<1>5. ASSUME BoundaryConflict(p) PROVE Local(p) /\ at'[p] = "failed"
  <2>1. journal'.tx = journal.tx
    BY <1>0, <1>5 DEF BoundaryConflict, RecordConflict, Journals, Steps, Resting
  <2> QED
    BY <2>1, <1>5, StoppedLocal DEF BoundaryConflict, RecordConflict, Fail, Goto, Resting
<1>6. ASSUME Complete(p)
      PROVE  Local(p) /\ at'[p] = "completing" /\ journal'.status = "complete"
  <2>1. PICK j : j = [mem[p] EXCEPT !.status = "complete"] /\ Publish(p, j)
    BY <1>6 DEF Complete
  <2>2. j.tx = mem[p].tx /\ j.status = "complete"
    BY <2>1, <1>0 DEF Journals
  <2> QED
    BY <1>0, <1>6, <2>1, <2>2 DEF Complete, Publish, Goto, Steps, Local, Resting
<1>7. ASSUME CompleteReceipt(p)
      PROVE  /\ Local(p) /\ at'[p] = "off" /\ journal' = journal
             /\ receipt' = [tx |-> journal.tx, status |-> "complete"]
  BY <1>0, <1>7, StoppedLocal
     DEF CompleteReceipt, PublishReceipt, Exit, Goto, Steps, Resting
<1>8. ASSUME Crash(p) PROVE Local(p) /\ at'[p] = "off" /\ UNCHANGED fileVars
  BY <1>0, <1>8, StoppedLocal DEF Crash, Exit, Goto, Resting
<1> QED
  BY <1>1, <1>2, <1>3, <1>4, <1>5, <1>6, <1>7, <1>8

\* Announcing a command: the process has issued it, and its journal says so.
LEMMA IntendLocal ==
    ASSUME NEW p, Steps(p), NEW j \in Journals, j.tx = journal.tx,
           NEW op, NEW w, Intend(p, j, op, w)
    PROVE  /\ Local(p) /\ at'[p] = "issued" /\ cmd'[p].op = op
           /\ journal'.status = j.status /\ journal'.recovered = j.recovered
           /\ mem'[p].admitted = j.admitted
<1>0. /\ p \in Procs /\ at \in [Procs -> Points] /\ mem \in [Procs -> Journals]
      /\ cmd \in [Procs -> Commands]
  BY DEF Steps, TypeOK
<1>1. PICK k : /\ k = [j EXCEPT !.pending = j.admitted, !.focusPending = TRUE,
                                !.operations = @ + 1]
               /\ journal' = k /\ mem' = [mem EXCEPT ![p] = k]
  BY DEF Intend, Publish
<1>2. /\ k.tx = j.tx /\ k.status = j.status /\ k.recovered = j.recovered
      /\ k.admitted = j.admitted
  BY <1>1 DEF Journals
<1>3. PICK c : c.op = op /\ cmd' = [cmd EXCEPT ![p] = c]
  BY DEF Intend
<1>4. at' = [at EXCEPT ![p] = "issued"]
  BY DEF Intend, Goto
<1>5. Local(p) /\ mem'[p] = k
  BY <1>0, <1>1, <1>2, <1>3, <1>4 DEF Local
<1> QED
  BY <1>0, <1>1, <1>2, <1>3, <1>4, <1>5

\* A refusal stops the process; at most the conflict is new in the journal.
LEMMA RefuseLocal ==
    ASSUME NEW p, Steps(p), NEW j \in Journals, j.tx = journal.tx, Refuse(p, j)
    PROVE  /\ Local(p) /\ at'[p] = "failed"
           /\ journal'.status = j.status /\ journal'.recovered = j.recovered
<1>1. /\ journal'.tx = j.tx /\ journal'.status = j.status
      /\ journal'.recovered = j.recovered /\ Fail(p)
  BY DEF Refuse, RecordConflict, Journals
<1> QED
  BY <1>1, StoppedLocal DEF Fail, Goto, Resting

\* A command of a driver, and of the guard on the anchors.
LEMMA IssueLocal ==
    ASSUME NEW p, Steps(p)
    PROVE  /\ \A op, w : Issue(p, op, w) =>
                  Local(p) /\ at[p] = "driving" /\ at'[p] = "issued" /\ cmd'[p].op = op
           /\ IssueRefused(p) => Local(p) /\ at[p] = "driving" /\ at'[p] = "failed"
           /\ CleanIssue(p) =>
                  /\ Local(p) /\ at[p] = "off" /\ at'[p] = "issued"
                  /\ cmd'[p].op = "clean"
           /\ CleanRefused(p) => Local(p) /\ at[p] = "off" /\ at'[p] = "failed"
<1>0. mem[p] \in Journals /\ journal \in Journals
  BY DEF Steps, TypeOK
<1> QED
  BY <1>0, IntendLocal, RefuseLocal
     DEF Issue, IssueRefused, CleanIssue, CleanRefused, Steps, Resting

\* What follows a command that raised.
LEMMA BlamedLocal ==
    ASSUME NEW p, Steps(p), Blamed(p), journal' = journal, at[p] \notin Resting
    PROVE  /\ Local(p)
           /\ Recovering(p) => at'[p] \in {"scanning", "verifying"}
           /\ ~Recovering(p) => at'[p] = "failed"
<1>0. /\ p \in Procs /\ at \in [Procs -> Points] /\ mem \in [Procs -> Journals]
      /\ cmd \in [Procs -> Commands]
  BY DEF Steps, TypeOK
<1>1. ASSUME Recovering(p) PROVE Local(p) /\ at'[p] \in {"scanning", "verifying"}
  BY <1>0, <1>1 DEF Blamed, Goto, Idle, Local, Steps
<1>2. ASSUME ~Recovering(p) PROVE Local(p) /\ at'[p] = "failed"
  BY <1>0, <1>2, StoppedLocal DEF Blamed, Fail, Goto, Resting
<1> QED
  BY <1>1, <1>2

\* A driver is told what Sway did, or is not.
LEMMA SendLocal ==
    ASSUME NEW p, Steps(p), Send(p) \/ SendLost(p) \/ SendRejected(p)
    PROVE  /\ Local(p) /\ at[p] = "issued" /\ UNCHANGED fileVars
           /\ \/ at'[p] = "sent" /\ cmd'[p] = cmd[p] /\ mem'[p] = mem[p]
              \/ Recovering(p) /\ at'[p] \in {"scanning", "verifying"}
              \/ ~Recovering(p) /\ at'[p] = "failed"
<1>0. /\ p \in Procs /\ at \in [Procs -> Points] /\ mem \in [Procs -> Journals]
      /\ cmd \in [Procs -> Commands]
  BY DEF Steps, TypeOK
<1>1. CASE Send(p)
  BY <1>0, <1>1 DEF Send, Goto, Local, Steps, Resting
<1>2. CASE SendLost(p) \/ SendRejected(p)
  <2>1. Blamed(p) /\ UNCHANGED fileVars /\ at[p] = "issued"
    BY <1>2 DEF SendLost, SendRejected
  <2> QED
    BY <2>1, BlamedLocal DEF Resting
<1> QED
  BY <1>1, <1>2

\* The confirmation of a command leaves the rest of the journal as it was.
LEMMA ObservedFields ==
    ASSUME NEW p \in Procs, TypeOK
    PROVE  /\ Observed(p).tx = mem[p].tx /\ Observed(p).status = mem[p].status
           /\ Observed(p).recovered = mem[p].recovered
           /\ Observed(p).admitted = mem[p].admitted
           /\ Confirmed(p).tx = mem[p].tx /\ Confirmed(p).status = mem[p].status
           /\ Confirmed(p).recovered = mem[p].recovered
           /\ Confirmed(p).admitted = mem[p].admitted
<1>0. mem[p] \in Journals
  BY DEF TypeOK
<1>1. PICK m : m = mem[p]
  OBVIOUS
<1>2. PICK o : o = Observed(p)
  OBVIOUS
<1>3. o = [m EXCEPT !.expected = LocAfter(cmd[p], @), !.pending = {}] /\ m \in Journals
  BY <1>0, <1>1, <1>2 DEF Observed
<1>4. /\ o.tx = m.tx /\ o.status = m.status /\ o.recovered = m.recovered
      /\ o.admitted = m.admitted /\ DOMAIN o = DOMAIN m
  BY <1>3 DEF Journals
<1>5. Confirmed(p) = [o EXCEPT !.focusExp = focus, !.focusPending = FALSE,
                                !.struct = {Topology}]
  BY <1>2 DEF Confirmed
<1>6. DOMAIN o = {"tx", "status", "admitted", "expected", "pending", "recovered",
                  "focusOrigin", "focusExp", "focusPending", "conflict", "struct",
                  "operations"}
  BY <1>3, <1>4 DEF Journals
<1>7. PICK k : k = Confirmed(p)
  OBVIOUS
<1>8. k.tx = o.tx /\ k.status = o.status /\ k.recovered = o.recovered
      /\ k.admitted = o.admitted
  BY <1>5, <1>6, <1>7
<1> QED
  BY <1>1, <1>2, <1>4, <1>7, <1>8

\* A driver observes what its command did.
LEMMA ConfirmLocal ==
    ASSUME NEW p, Steps(p), Confirm(p) \/ ConfirmConflict(p) \/ ConfirmFailed(p)
    PROVE  /\ Local(p) /\ at[p] = "sent" /\ ~Recovering(p)
           /\ \/ /\ at'[p] = "driving" /\ cmd[p].op # "clean"
                 /\ mem'[p].admitted = mem[p].admitted
              \/ at'[p] = "off" /\ cmd[p].op = "clean"
              \/ at'[p] = "failed"
           /\ \/ /\ journal'.status = mem[p].status
                 /\ journal'.recovered = mem[p].recovered
              \/ journal' = journal
<1>0. /\ p \in Procs /\ at \in [Procs -> Points] /\ mem \in [Procs -> Journals]
      /\ cmd \in [Procs -> Commands] /\ at[p] = "sent" /\ ~Recovering(p)
      /\ mem[p].tx = journal.tx
  BY DEF Steps, TypeOK, Confirm, ConfirmConflict, ConfirmFailed, Resting
<1>1. CASE Confirm(p) /\ cmd[p].op = "clean"
  BY <1>0, <1>1, ObservedFields, StoppedLocal DEF Confirm, Exit, Goto, Resting, Steps
<1>2. CASE Confirm(p) /\ cmd[p].op # "clean"
  <2>1. PICK k : k = Confirmed(p) /\ journal' = k /\ mem' = [mem EXCEPT ![p] = k]
    BY <1>2 DEF Confirm, Publish
  <2>2. /\ k.tx = journal.tx /\ k.status = mem[p].status
        /\ k.recovered = mem[p].recovered /\ k.admitted = mem[p].admitted
    BY <1>0, <2>1, ObservedFields DEF Steps
  <2> QED
    BY <1>0, <1>2, <2>1, <2>2 DEF Confirm, Goto, Idle, Local
<1>3. CASE ConfirmConflict(p)
  <2>1. PICK o : o = Observed(p) /\ journal' = [o EXCEPT !.conflict = TRUE]
    BY <1>3 DEF ConfirmConflict
  <2>2. /\ o.tx = journal.tx /\ o.status = mem[p].status
        /\ o.recovered = mem[p].recovered
    BY <1>0, <2>1, ObservedFields DEF Steps
  <2>3. DOMAIN o = {"tx", "status", "admitted", "expected", "pending", "recovered",
                    "focusOrigin", "focusExp", "focusPending", "conflict", "struct",
                    "operations"}
    BY <2>1, <1>0 DEF Observed, Journals
  <2>4. /\ journal'.tx = journal.tx /\ journal'.status = mem[p].status
        /\ journal'.recovered = mem[p].recovered
    BY <2>1, <2>2, <2>3
  <2> QED
    BY <1>0, <1>3, <2>4, StoppedLocal DEF ConfirmConflict, Fail, Goto, Resting
<1>4. CASE ConfirmFailed(p)
  BY <1>0, <1>4, StoppedLocal DEF ConfirmFailed, Fail, Goto, Resting
<1> QED
  BY <1>1, <1>2, <1>3, <1>4

\* Whoever recovers takes the journal as it is on disk.
LEMMA EnterLocal ==
    ASSUME NEW p, Steps(p), EnterRecovery(p)
    PROVE  /\ Local(p) /\ at[p] \in Resting
           /\ at'[p] \in {"off", "scanning", "publishing"}
<1>0. /\ p \in Procs /\ at \in [Procs -> Points] /\ mem \in [Procs -> Journals]
      /\ cmd \in [Procs -> Commands] /\ journal \in Journals
  BY DEF Steps, TypeOK
<1>1. CASE RecoverSettled(p)
  BY <1>0, <1>1, StoppedLocal DEF RecoverSettled, Exit, Goto, Resting
<1>2. CASE RecoverEnter(p)
  <2>1. PICK j : /\ j = [journal EXCEPT !.conflict = @ \/ ~(focus = journal.focusExp)]
                 /\ Publish(p, j)
    BY <1>2 DEF RecoverEnter
  <2>2. j.tx = journal.tx
    BY <1>0, <2>1 DEF Journals
  <2> QED
    BY <1>0, <1>2, <2>1, <2>2 DEF RecoverEnter, Publish, Goto, Local
<1>3. CASE RecoverUnavailable(p)
  <2>1. PICK j : j = [journal EXCEPT !.status = "required"] /\ Publish(p, j)
    BY <1>3 DEF RecoverUnavailable
  <2>2. j.tx = journal.tx
    BY <1>0, <2>1 DEF Journals
  <2> QED
    BY <1>0, <1>3, <2>1, <2>2 DEF RecoverUnavailable, Publish, Goto, Local
<1> QED
  BY <1>1, <1>2, <1>3 DEF EnterRecovery

\* A recovery that publishes and goes on.
LEMMA RecoveryPublished ==
    ASSUME NEW p, Steps(p), at[p] \notin Resting,
           NEW j, j.tx = mem[p].tx, Publish(p, j),
           \A q \in Procs \ {p} : at'[q] = at[q] /\ cmd'[q] = cmd[q]
    PROVE  Local(p)
BY DEF Steps, TypeOK, Publish, Local

\* Issuing a recovery's own command.
LEMMA RecoveryIssueLocal ==
    ASSUME NEW p, Steps(p), at[p] \notin Resting, NEW op \in RecoveryOps, NEW w,
           NEW j \in Journals, j.tx = mem[p].tx, RecoveryIssue(p, op, w, j)
    PROVE  Local(p) /\ at'[p] = "issued" /\ Recovering(p)'
<1>0. /\ p \in Procs /\ at \in [Procs -> Points] /\ mem \in [Procs -> Journals]
      /\ cmd \in [Procs -> Commands]
  BY DEF Steps, TypeOK
<1>1. PICK k : /\ k = [j EXCEPT !.focusPending = TRUE, !.operations = @ + 1]
               /\ Publish(p, k)
  BY DEF RecoveryIssue
<1>2. k.tx = mem[p].tx
  BY <1>1 DEF Journals
<1>3. PICK c : c.op = op /\ cmd' = [cmd EXCEPT ![p] = c]
  BY DEF RecoveryIssue
<1>4. at' = [at EXCEPT ![p] = "issued"]
  BY DEF RecoveryIssue, Goto
<1> QED
  BY <1>0, <1>1, <1>2, <1>3, <1>4, RecoveryPublished DEF Recovering

\* A refusal of a recovery publishes the conflict, or nothing.
LEMMA RecoveryRefusedTx ==
    ASSUME NEW p, Steps(p), at[p] \notin Resting, RecoveryRefused(p)
    PROVE  /\ journal'.tx = journal.tx /\ mem'[p].tx = journal.tx
           /\ \A q \in Procs \ {p} : mem'[q] = mem[q]
<1>0. p \in Procs /\ mem \in [Procs -> Journals] /\ mem[p].tx = journal.tx
  BY DEF Steps, TypeOK
<1>1. CASE UNCHANGED <<journal, mem>>
  BY <1>0, <1>1
<1>2. CASE Publish(p, [mem[p] EXCEPT !.conflict = TRUE])
  <2>1. PICK j : j = [mem[p] EXCEPT !.conflict = TRUE] /\ Publish(p, j)
    BY <1>2
  <2>2. j.tx = mem[p].tx
    BY <2>1, <1>0 DEF Journals
  <2> QED
    BY <1>0, <2>1, <2>2 DEF Publish
<1> QED
  BY <1>1, <1>2 DEF RecoveryRefused

\* A recovery examines a window.
LEMMA ScanLocal ==
    ASSUME NEW p, Steps(p), NEW w \in Windows, ScanWindow(p, w)
    PROVE  /\ Local(p) /\ at[p] = "scanning"
           /\ at'[p] = "scanning" \/ (at'[p] = "issued" /\ Recovering(p)')
<1>0. /\ p \in Procs /\ at \in [Procs -> Points] /\ mem \in [Procs -> Journals]
      /\ cmd \in [Procs -> Commands] /\ at[p] = "scanning" /\ at[p] \notin Resting
      /\ mem[p] \in Journals
  BY DEF Steps, TypeOK, ScanWindow, ScanGone, ScanBlame, ScanHome, ReturnIssue,
     ReturnRefused, Resting
<1>1. CASE ScanGone(p, w)
  <2>1. PICK j : j = [mem[p] EXCEPT !.recovered = @ \cup {w}] /\ Publish(p, j)
    BY <1>1 DEF ScanGone
  <2>2. j.tx = mem[p].tx
    BY <1>0, <2>1 DEF Journals
  <2> QED
    BY <1>0, <1>1, <2>1, <2>2, RecoveryPublished DEF ScanGone
<1>2. CASE ScanBlame(p, w)
  BY <1>0, <1>2 DEF ScanBlame, Local, Steps
<1>3. CASE ScanHome(p, w)
  <2>1. PICK j : /\ j = [mem[p] EXCEPT !.recovered = @ \cup {w}, !.pending = @ \ {w}]
                 /\ Publish(p, j)
    BY <1>3 DEF ScanHome, Closed
  <2>2. j.tx = mem[p].tx
    BY <1>0, <2>1 DEF Journals
  <2> QED
    BY <1>0, <1>3, <2>1, <2>2, RecoveryPublished DEF ScanHome
<1>4. CASE ReturnIssue(p, w)
  <2>1. PICK j : /\ j = [mem[p] EXCEPT !.pending = @ \cup {w}]
                 /\ RecoveryIssue(p, "return", w, j)
    BY <1>4 DEF ReturnIssue
  <2>2. j \in Journals /\ j.tx = mem[p].tx
    BY <1>0, <2>1 DEF Journals
  <2> QED
    BY <1>0, <2>1, <2>2, RecoveryIssueLocal DEF RecoveryOps
<1>5. CASE ReturnRefused(p, w)
  BY <1>0, <1>5, RecoveryRefusedTx DEF ReturnRefused, Local
<1> QED
  BY <1>0, <1>1, <1>2, <1>3, <1>4, <1>5 DEF ScanWindow

\* A recovery concludes on the window it has returned.
LEMMA ReturnLocal ==
    ASSUME NEW p, Steps(p), RecoveryKnown(p),
           ReturnConfirm(p) \/ ReturnConflict(p) \/ ReturnFailed(p) \/ ReturnClose(p)
    PROVE  /\ Local(p) /\ at[p] \in {"sent", "returned"}
           /\ \/ at'[p] \in {"scanning", "verifying"}
              \/ at'[p] = "returned" /\ Returning(p)'
<1>0. /\ p \in Procs /\ at \in [Procs -> Points] /\ mem \in [Procs -> Journals]
      /\ cmd \in [Procs -> Commands] /\ at[p] \in {"sent", "returned"}
      /\ at[p] \notin Resting /\ mem[p] \in Journals /\ Returning(p)
  BY DEF Steps, TypeOK, ReturnConfirm, ReturnConflict, ReturnFailed, ReturnClose,
     Returned, Resting, RecoveryKnown
<1>1. CASE ReturnConfirm(p)
  <2>1. PICK j : /\ j = [mem[p] EXCEPT !.expected[cmd[p].win] = "home",
                                       !.focusExp = focus, !.focusPending = FALSE,
                                       !.struct = {Topology}]
                 /\ Publish(p, j)
    BY <1>1 DEF ReturnConfirm
  <2>2. j.tx = mem[p].tx
    BY <1>0, <2>1 DEF Journals
  <2> QED
    BY <1>0, <1>1, <2>1, <2>2, RecoveryPublished DEF ReturnConfirm, Goto, Returning
<1>2. CASE ReturnConflict(p)
  <2>1. PICK j : /\ j = [mem[p] EXCEPT !.expected[cmd[p].win] = "home",
                                       !.conflict = TRUE]
                 /\ Publish(p, j)
    BY <1>2 DEF ReturnConflict
  <2>2. j.tx = mem[p].tx
    BY <1>0, <2>1 DEF Journals
  <2> QED
    BY <1>0, <1>2, <2>1, <2>2, RecoveryPublished DEF ReturnConflict, Goto, Idle
<1>3. CASE ReturnFailed(p)
  <2>1. Recovering(p)
    BY <1>0 DEF Recovering, Returning, RecoveryOps
  <2> QED
    BY <1>0, <1>3, <2>1, BlamedLocal DEF ReturnFailed
<1>4. CASE ReturnClose(p)
  <2>1. PICK j : /\ j = [mem[p] EXCEPT !.recovered = @ \cup {cmd[p].win},
                                       !.pending = @ \ {cmd[p].win}]
                 /\ Publish(p, j)
    BY <1>4 DEF ReturnClose, Closed
  <2>2. j.tx = mem[p].tx
    BY <1>0, <2>1 DEF Journals
  <2> QED
    BY <1>0, <1>4, <2>1, <2>2, RecoveryPublished DEF ReturnClose, Goto, Idle
<1> QED
  BY <1>0, <1>1, <1>2, <1>3, <1>4

\* A recovery restores the focus.
LEMMA RefocusLocal ==
    ASSUME NEW p, Steps(p),
           RefocusIssue(p) \/ RefocusRefused(p) \/ RefocusConfirm(p) \/ RefocusConflict(p)
    PROVE  /\ Local(p) /\ at[p] \in {"scanning", "sent"}
           /\ at'[p] = "verifying" \/ (at'[p] = "issued" /\ Recovering(p)')
<1>0. /\ p \in Procs /\ at \in [Procs -> Points] /\ mem \in [Procs -> Journals]
      /\ cmd \in [Procs -> Commands] /\ at[p] \in {"scanning", "sent"}
      /\ at[p] \notin Resting /\ mem[p] \in Journals
  BY DEF Steps, TypeOK, RefocusIssue, RefocusRefused, RefocusConfirm,
     RefocusConflict, ScanDone, Refocused, Resting
<1>1. CASE RefocusIssue(p)
  <2>1. PICK w : RecoveryIssue(p, "refocus", w, mem[p])
    BY <1>1 DEF RefocusIssue
  <2> QED
    BY <1>0, <2>1, RecoveryIssueLocal DEF RecoveryOps
<1>2. CASE RefocusRefused(p)
  <2>1. /\ journal'.tx = journal.tx /\ mem'[p].tx = journal.tx
        /\ \A q \in Procs \ {p} : mem'[q] = mem[q]
    BY <1>0, <1>2, RecoveryRefusedTx DEF RefocusRefused, Steps
  <2> QED
    BY <1>0, <1>2, <2>1 DEF RefocusRefused, Goto, Local
<1>3. CASE RefocusConfirm(p)
  <2>1. PICK j : /\ j = [mem[p] EXCEPT !.focusExp = focus, !.focusPending = FALSE,
                                       !.struct = {Topology}]
                 /\ Publish(p, j)
    BY <1>3 DEF RefocusConfirm
  <2>2. j.tx = mem[p].tx
    BY <1>0, <2>1 DEF Journals
  <2> QED
    BY <1>0, <1>3, <2>1, <2>2, RecoveryPublished DEF RefocusConfirm, Goto, Idle
<1>4. CASE RefocusConflict(p)
  <2>1. PICK j : j = [mem[p] EXCEPT !.conflict = TRUE] /\ Publish(p, j)
    BY <1>4 DEF RefocusConflict
  <2>2. j.tx = mem[p].tx
    BY <1>0, <2>1 DEF Journals
  <2> QED
    BY <1>0, <1>4, <2>1, <2>2, RecoveryPublished DEF RefocusConflict, Goto, Idle
<1> QED
  BY <1>0, <1>1, <1>2, <1>3, <1>4

\* A recovery decides, then closes.
LEMMA VerdictLocal ==
    ASSUME NEW p, Steps(p), Verdict(p) \/ CloseReceipt(p)
    PROVE  /\ Local(p) /\ at[p] \in {"verifying", "publishing"}
           /\ at'[p] \in {"publishing", "off"}
<1>0. /\ p \in Procs /\ at \in [Procs -> Points] /\ mem \in [Procs -> Journals]
      /\ cmd \in [Procs -> Commands] /\ at[p] \notin Resting /\ mem[p] \in Journals
      /\ at[p] \in {"verifying", "publishing"}
  BY DEF Steps, TypeOK, Verdict, CloseReceipt, Resting
<1>1. CASE Verdict(p)
  <2>1. PICK s : Publish(p, [mem[p] EXCEPT !.status = s])
    BY <1>1 DEF Verdict
  <2>2. PICK j : j = [mem[p] EXCEPT !.status = s] /\ Publish(p, j)
    BY <2>1
  <2>3. j.tx = mem[p].tx
    BY <1>0, <2>2 DEF Journals
  <2> QED
    BY <1>0, <1>1, <2>2, <2>3, RecoveryPublished DEF Verdict, Goto
<1>2. CASE CloseReceipt(p)
  BY <1>0, <1>2, StoppedLocal DEF CloseReceipt, Exit, Goto, Resting
<1> QED
  BY <1>1, <1>2

\* A recovery stays a recovery, until it is over.
LEMMA RecoveryLocal ==
    ASSUME NEW p, Steps(p), at[p] \in RecoveryPoints, RecoveryKnown(p), RecoveryStep(p)
    PROVE  /\ Local(p) /\ RecoveryKnown(p)'
           /\ at'[p] \in RecoveryPoints \cup {"off"}
<1>1. ASSUME NEW w \in Windows, ScanWindow(p, w)
      PROVE  /\ Local(p) /\ RecoveryKnown(p)'
             /\ at'[p] \in RecoveryPoints \cup {"off"}
  BY <1>1, ScanLocal DEF RecoveryPoints, RecoveryKnown, Commanding
<1>2. ASSUME ReturnConfirm(p) \/ ReturnConflict(p) \/ ReturnFailed(p) \/ ReturnClose(p)
      PROVE  /\ Local(p) /\ RecoveryKnown(p)'
             /\ at'[p] \in RecoveryPoints \cup {"off"}
  BY <1>2, ReturnLocal DEF RecoveryPoints, RecoveryKnown, Commanding
<1>3. ASSUME RefocusIssue(p) \/ RefocusRefused(p) \/ RefocusConfirm(p)
                 \/ RefocusConflict(p)
      PROVE  /\ Local(p) /\ RecoveryKnown(p)'
             /\ at'[p] \in RecoveryPoints \cup {"off"}
  BY <1>3, RefocusLocal DEF RecoveryPoints, RecoveryKnown, Commanding
<1>4. ASSUME Verdict(p) \/ CloseReceipt(p)
      PROVE  /\ Local(p) /\ RecoveryKnown(p)'
             /\ at'[p] \in RecoveryPoints \cup {"off"}
  BY <1>4, VerdictLocal DEF RecoveryPoints, RecoveryKnown, Commanding
<1>5. ASSUME Send(p) \/ SendLost(p) \/ SendRejected(p)
      PROVE  /\ Local(p) /\ RecoveryKnown(p)'
             /\ at'[p] \in RecoveryPoints \cup {"off"}
  BY <1>5, SendLocal DEF RecoveryPoints, RecoveryKnown, Commanding, Recovering
<1> QED
  BY <1>1, <1>2, <1>3, <1>4, <1>5 DEF RecoveryStep, Recover

\* The user changes nothing that the processes keep.
LEMMA UserLocal ==
    User => UNCHANGED <<fileVars, at, mem, cmd, scanVars>>
BY DEF User, UserMove, UserClose, UserFocus, ForeignChange

-----------------------------------------------------------------------------
\* Types.

ControlTypeOK ==
    /\ pcE \in EnginePhases /\ pcG \in GuardPhases
    /\ left \subseteq Windows
    /\ owned \in BOOLEAN /\ normal \in BOOLEAN /\ prepared \in BOOLEAN
    /\ request \in {"none", "prepare", "resume", "finish"}
    /\ answer \in {"none", "ready", "prepared", "resumed", "finished", "failed"}
    /\ closed \in BOOLEAN
    /\ helpers \in [Helpers -> {"running", "stopped", "gone"}]
    /\ owed \subseteq Helpers /\ frozen \subseteq Helpers
    /\ report \in [tx : Nat,
                   status : {"none", "running", "success", "failed", "interrupted"}]
    /\ faults \in 0..MaxFaults

\* The transaction's types are those of the journal and of the two programs.
LEMMA TypesSplit == TransactionTypeOK <=> TypeOK /\ ControlTypeOK
BY DEF TransactionTypeOK, ControlTypeOK

\* Spending a fault keeps the count in its range.
LEMMA FaultType == ASSUME ControlTypeOK, Fault PROVE faults' \in 0..MaxFaults
BY FaultsAssumption DEF ControlTypeOK, Fault

\* resume_helpers keeps the helpers' states, and forgets obligations only.
LEMMA ResumeType ==
    ASSUME ControlTypeOK, NEW failed, Resume(failed)
    PROVE  /\ helpers' \in [Helpers -> {"running", "stopped", "gone"}]
           /\ owed' \subseteq Helpers /\ frozen' \subseteq Helpers
BY DEF ControlTypeOK, Resume

\* The same when one of them does not resume.
LEMMA ResumeFailsType ==
    ASSUME ControlTypeOK, ResumeFails
    PROVE  /\ helpers' \in [Helpers -> {"running", "stopped", "gone"}]
           /\ owed' \subseteq Helpers /\ frozen' \subseteq Helpers
           /\ faults' \in 0..MaxFaults
<1>1. PICK failed : Resume(failed)
  BY DEF ResumeFails
<1> QED
  BY <1>1, ResumeType, FaultType DEF ResumeFails

\* And of a call whose result is not looked at.
LEMMA ResumingType ==
    ASSUME ControlTypeOK, Resuming
    PROVE  /\ helpers' \in [Helpers -> {"running", "stopped", "gone"}]
           /\ owed' \subseteq Helpers /\ frozen' \subseteq Helpers
           /\ faults' \in 0..MaxFaults
<1>1. CASE Resume({}) /\ UNCHANGED faults
  BY <1>1, ResumeType DEF ControlTypeOK
<1>2. CASE ResumeFails
  BY <1>2, ResumeFailsType
<1> QED
  BY <1>1, <1>2 DEF Resuming

\* The executor, up to the guard's "ready".
LEMMA OpeningTypes ==
    ASSUME TypeOK, ControlTypeOK
    PROVE  /\ EBegin \/ EOpen \/ EAttempt \/ ESpawn \/ EReady => TypeOK' /\ ControlTypeOK'
<1>0. Engine \in Procs /\ journal.tx \in Nat
  BY TwoProcs DEF TypeOK, Journals
<1>1. ASSUME EBegin \/ EOpen PROVE TypeOK'
  BY <1>0, <1>1, BeginType, DriveType DEF EBegin, EOpen
<1>2. ASSUME EAttempt \/ ESpawn \/ EReady PROVE TypeOK'
  BY <1>2 DEF EAttempt, ESpawn, EReady, TypeOK
<1>3. ASSUME EBegin \/ EOpen \/ EReady PROVE ControlTypeOK'
  BY <1>3 DEF EBegin, EOpen, EReady, ControlTypeOK, EnginePhases
<1>4. ASSUME EAttempt PROVE ControlTypeOK'
  BY <1>0, <1>4 DEF EAttempt, ControlTypeOK, EnginePhases
<1>5. ASSUME ESpawn PROVE ControlTypeOK'
  BY <1>5 DEF ESpawn, ControlTypeOK, EnginePhases, GuardPhases
<1> QED
  BY <1>1, <1>2, <1>3, <1>4, <1>5

\* A command of the executor on any window of the lot.
LEMMA ECommandTypes ==
    ASSUME TypeOK, NEW op \in DriverOps, NEW w \in Windows \cup {NoWindow},
           NEW phase \in EnginePhases, w = NoWindow => op \notin {"stage", "swap"},
           ECommand(op, w, phase)
    PROVE  TypeOK' /\ pcE' \in EnginePhases
<1>0. Engine \in Procs /\ mem[Engine] \in Journals
  BY TwoProcs DEF TypeOK
<1>1. op \in Ops /\ op # "return"
  BY DEF DriverOps, Ops
<1>2. CASE Issue(Engine, op, w) /\ pcE' = phase
  BY <1>0, <1>1, <1>2, IntendType DEF Issue
<1>3. CASE IssueRefused(Engine) /\ pcE' = "failing"
  BY <1>0, <1>3, RefuseType DEF IssueRefused, EnginePhases
<1> QED
  BY <1>2, <1>3 DEF ECommand

\* The executor, driving.
LEMMA DrivingTypes ==
    ASSUME TypeOK, ControlTypeOK
    PROVE  /\ \A w \in Windows : EAdmit(w) \/ EStage(w) \/ ESwap(w)
                  => TypeOK' /\ ControlTypeOK'
           /\ EAdmitted \/ EBuild \/ EMark \/ EShow \/ EResolve \/ ECleanup
                  => TypeOK' /\ ControlTypeOK'
           /\ ECommandStep => TypeOK' /\ ControlTypeOK'
           /\ \A w \in Windows \cup {NoWindow} : EFocus(w) => TypeOK' /\ ControlTypeOK'
<1>0. Engine \in Procs
  BY TwoProcs
<1>1. ASSUME NEW w \in Windows, EAdmit(w) PROVE TypeOK' /\ ControlTypeOK'
  BY <1>0, <1>1, DriveType DEF EAdmit, ControlTypeOK
<1>2. ASSUME NEW w \in Windows, EStage(w) PROVE TypeOK' /\ ControlTypeOK'
  <2>1. ECommand("stage", w, "stage")
    BY <1>2 DEF EStage
  <2>2. TypeOK' /\ pcE' \in EnginePhases
    BY <2>1, ECommandTypes, WindowsAssumption DEF DriverOps, EnginePhases
  <2> QED
    BY <1>2, <2>1, <2>2 DEF EStage, ECommand, ControlTypeOK
<1>3. ASSUME NEW w \in Windows, ESwap(w) PROVE TypeOK' /\ ControlTypeOK'
  <2>1. ECommand("swap", w, "swap")
    BY <1>3 DEF ESwap
  <2>2. TypeOK' /\ pcE' \in EnginePhases
    BY <2>1, ECommandTypes, WindowsAssumption DEF DriverOps, EnginePhases
  <2> QED
    BY <1>3, <2>1, <2>2 DEF ESwap, ECommand, ControlTypeOK
<1>4. ASSUME EAdmitted \/ EResolve PROVE TypeOK' /\ ControlTypeOK'
  BY <1>4 DEF EAdmitted, EResolve, ControlTypeOK, TypeOK, EnginePhases
<1>5. ASSUME EBuild PROVE TypeOK' /\ ControlTypeOK'
  BY <1>0, <1>5, DriveType DEF EBuild, ControlTypeOK, EnginePhases
<1>6. ASSUME EMark \/ EShow \/ ECleanup PROVE TypeOK' /\ ControlTypeOK'
  <2>1. PICK op \in {"mark", "show", "kill"}, phase \in {"show", "resolve", "verify"} :
            ECommand(op, NoWindow, phase) /\ UNCHANGED left
    BY <1>6 DEF EMark, EShow, ECleanup
  <2>2. TypeOK' /\ pcE' \in EnginePhases
    BY <2>1, ECommandTypes DEF DriverOps, EnginePhases
  <2> QED
    BY <2>1, <2>2 DEF ECommand, ControlTypeOK
<1>7. ASSUME NEW w \in Windows \cup {NoWindow}, EFocus(w)
      PROVE  TypeOK' /\ ControlTypeOK'
  <2>1. ECommand("focus", w, "resume") /\ UNCHANGED left
    BY <1>7 DEF EFocus
  <2>2. TypeOK' /\ pcE' \in EnginePhases
    BY <2>1, ECommandTypes DEF DriverOps, EnginePhases
  <2> QED
    BY <2>1, <2>2 DEF ECommand, ControlTypeOK
<1>8. ASSUME ECommandStep PROVE TypeOK' /\ ControlTypeOK'
  <2>1. TypeOK'
    BY <1>0, <1>8, SendType, ConfirmType DEF ECommandStep
  <2> QED
    BY <1>8, <2>1 DEF ECommandStep, ControlTypeOK, EnginePhases
<1> QED
  BY <1>1, <1>2, <1>3, <1>4, <1>5, <1>6, <1>7, <1>8

\* The executor, handing over and closing.
LEMMA ClosingTypes ==
    ASSUME TypeOK, ControlTypeOK
    PROVE  /\ EPrepare \/ EPrepared \/ EResume \/ EFinish \/ EFinished
                  => TypeOK' /\ ControlTypeOK'
           /\ EComplete \/ EReceipt \/ ESuccess => TypeOK' /\ ControlTypeOK'
<1>0. Engine \in Procs
  BY TwoProcs
<1>1. ASSUME EPrepare \/ EPrepared \/ EResume \/ EFinish \/ EFinished
      PROVE  TypeOK' /\ ControlTypeOK'
  BY <1>1 DEF EPrepare, EPrepared, EResume, EFinish, EFinished, Ask, TypeOK,
     ControlTypeOK, EnginePhases
<1>2. ASSUME EComplete \/ EReceipt PROVE TypeOK' /\ ControlTypeOK'
  BY <1>0, <1>2, DriveType DEF EComplete, EReceipt, ControlTypeOK, EnginePhases
<1>3. ASSUME ESuccess PROVE TypeOK' /\ ControlTypeOK'
  BY <1>3 DEF ESuccess, ReportAs, TypeOK, ControlTypeOK, EnginePhases
<1> QED
  BY <1>1, <1>2, <1>3

\* The anchors' end keeps the compositor's types.
LEMMA AnchorGoneType ==
    ASSUME TypeOK, AnchorGone,
           UNCHANGED <<fileVars, at, mem, cmd, scanVars, histVars, budget>>
    PROVE  TypeOK'
BY DEF TypeOK, AnchorGone, AnchorPlaces, Focus, FocusNames

\* The executor, failing.
LEMMA FailingTypes ==
    ASSUME TypeOK, ControlTypeOK
    PROVE  /\ ERaise \/ EBoundaryConflict \/ EAnswerFailed \/ EReadyFailed
                  => TypeOK' /\ ControlTypeOK'
           /\ EAbandon \/ EFailing \/ EFinishing \/ EClosing => TypeOK' /\ ControlTypeOK'
           /\ ERecover \/ ERecovering => TypeOK' /\ ControlTypeOK'
<1>0. Engine \in Procs /\ journal.tx \in Nat
  BY TwoProcs DEF TypeOK, Journals
<1>1. ASSUME ERaise \/ EBoundaryConflict \/ EAnswerFailed \/ EReadyFailed
      PROVE  TypeOK' /\ ControlTypeOK'
  <2>1. TypeOK'
    BY <1>0, <1>1, DriveType DEF ERaise, EBoundaryConflict, EAnswerFailed, EReadyFailed
  <2>2. faults' \in 0..MaxFaults
    BY <1>1, FaultType DEF ERaise, EBoundaryConflict, EAnswerFailed, EReadyFailed,
       ControlTypeOK
  <2> QED
    BY <1>1, <2>1, <2>2 DEF ERaise, EBoundaryConflict, EAnswerFailed, EReadyFailed,
       ControlTypeOK, EnginePhases
<1>2. ASSUME EAbandon \/ EFinishing PROVE TypeOK' /\ ControlTypeOK'
  <2>1. faults' \in 0..MaxFaults
    BY <1>2, FaultType DEF EAbandon, EFinishing, ControlTypeOK
  <2> QED
    BY <1>2, <2>1 DEF EAbandon, EFinishing, TypeOK, ControlTypeOK, EnginePhases
<1>3. ASSUME EFailing PROVE TypeOK' /\ ControlTypeOK'
  BY <1>0, <1>3 DEF EFailing, TypeOK, ControlTypeOK, EnginePhases
<1>4. ASSUME EClosing PROVE TypeOK' /\ ControlTypeOK'
  BY <1>4, AnchorGoneType DEF EClosing, ControlTypeOK
<1>5. ASSUME ERecover \/ ERecovering PROVE TypeOK' /\ ControlTypeOK'
  <2>1. TypeOK'
    BY <1>0, <1>5, EnterType, ScanType, ReturnedType, RefocusType, VerdictType, SendType
       DEF ERecover, ERecovering, RecoveryStep, Recover
  <2> QED
    BY <1>5, <2>1 DEF ERecover, ERecovering, ControlTypeOK, EnginePhases
<1> QED
  BY <1>1, <1>2, <1>3, <1>4, <1>5

\* The guard, before the executor is lost or finishes.
LEMMA WatchingTypes ==
    ASSUME TypeOK, ControlTypeOK
    PROVE  /\ \A h \in Helpers : GStop(h) \/ GStopFails(h) => TypeOK' /\ ControlTypeOK'
           /\ GReady \/ GPrepare \/ GResume \/ GServeFails => TypeOK' /\ ControlTypeOK'
           /\ GFinish \/ GEngineLost => TypeOK' /\ ControlTypeOK'
<1>1. ASSUME NEW h \in Helpers, GStop(h) PROVE TypeOK' /\ ControlTypeOK'
  BY <1>1 DEF GStop, GFrame, TypeOK, ControlTypeOK
<1>2. ASSUME NEW h \in Helpers, GStopFails(h) PROVE TypeOK' /\ ControlTypeOK'
  <2>1. faults' \in 0..MaxFaults
    BY <1>2, FaultType DEF GStopFails, ControlTypeOK
  <2>2. /\ helpers' \in [Helpers -> {"running", "stopped", "gone"}]
        /\ owed' \subseteq Helpers
    BY <1>2 DEF GStopFails, ControlTypeOK
  <2> QED
    BY <1>2, <2>1, <2>2 DEF GStopFails, GFrame, GPhase, TypeOK, ControlTypeOK, GuardPhases
<1>3. ASSUME GReady \/ GPrepare PROVE TypeOK' /\ ControlTypeOK'
  <2>1. TypeOK'
    BY <1>3 DEF GReady, GPrepare, TypeOK
  <2>2. CASE GReady
    BY <2>1, <2>2 DEF GReady, GFrame, GPhase, Answer, ControlTypeOK, GuardPhases
  <2>3. CASE GPrepare
    BY <2>1, <2>3 DEF GPrepare, GFrame, Answer, ControlTypeOK
  <2> QED
    BY <1>3, <2>2, <2>3
<1>4. ASSUME GResume PROVE TypeOK' /\ ControlTypeOK'
  BY <1>4, ResumeType DEF GResume, GFrame, Answer, TypeOK, ControlTypeOK
<1>5. ASSUME GServeFails PROVE TypeOK' /\ ControlTypeOK'
  <2>1. /\ helpers' \in [Helpers -> {"running", "stopped", "gone"}]
        /\ owed' \subseteq Helpers /\ frozen' \subseteq Helpers
        /\ faults' \in 0..MaxFaults
    BY <1>5, ResumingType, ResumeFailsType, FaultType DEF GServeFails, ControlTypeOK
  <2> QED
    BY <1>5, <2>1 DEF GServeFails, GFrame, GPhase, TypeOK, ControlTypeOK, GuardPhases
<1>6. ASSUME GFinish \/ GEngineLost PROVE TypeOK' /\ ControlTypeOK'
  <2>1. TypeOK'
    BY <1>6 DEF GFinish, GEngineLost, TypeOK
  <2> QED
    BY <1>6, <2>1 DEF GFinish, GEngineLost, GFrame, GPhase, ControlTypeOK, GuardPhases
<1> QED
  BY <1>1, <1>2, <1>3, <1>4, <1>5, <1>6

\* The guard, cleaning up and recovering.
LEMMA CleaningTypes ==
    ASSUME TypeOK, ControlTypeOK
    PROVE  /\ GClean \/ GCleanStep \/ GCleaned => TypeOK' /\ ControlTypeOK'
           /\ GDecide \/ GRecovering \/ GErrorRecover => TypeOK' /\ ControlTypeOK'
<1>0. Guard \in Procs /\ journal \in Journals
  BY TwoProcs DEF TypeOK
<1>1. ASSUME GClean PROVE TypeOK' /\ ControlTypeOK'
  <2>1. TypeOK'
    BY <1>0, <1>1, IssueType, RefuseType DEF GClean, CleanRefused
  <2> QED
    BY <1>1, <2>1 DEF GClean, GFrame, GPhase, ControlTypeOK, GuardPhases
<1>2. ASSUME GCleanStep PROVE TypeOK' /\ ControlTypeOK'
  <2>1. TypeOK'
    BY <1>0, <1>2, SendType, ConfirmType DEF GCleanStep
  <2> QED
    BY <1>2, <2>1 DEF GCleanStep, GFrame, GPhase, ControlTypeOK, GuardPhases
<1>3. ASSUME GCleaned PROVE TypeOK' /\ ControlTypeOK'
  BY <1>3 DEF GCleaned, GFrame, GPhase, TypeOK, ControlTypeOK, GuardPhases
<1>4. ASSUME GDecide PROVE TypeOK' /\ ControlTypeOK'
  <2>1. TypeOK'
    <3>1. CASE EnterRecovery(Guard)
      BY <1>0, <3>1, EnterType
    <3>2. CASE UNCHANGED jvars
      BY <3>2 DEF TypeOK
    <3> QED
      BY <1>4, <3>1, <3>2 DEF GDecide
  <2> QED
    BY <1>4, <2>1 DEF GDecide, GFrame, GPhase, ControlTypeOK, GuardPhases
<1>5. ASSUME GRecovering PROVE TypeOK' /\ ControlTypeOK'
  <2>1. TypeOK'
    BY <1>0, <1>5, ScanType, ReturnedType, RefocusType, VerdictType, SendType
       DEF GRecovering, RecoveryStep, Recover
  <2>2. pcG' \in GuardPhases
    BY <1>5 DEF GRecovering, GPhase, ControlTypeOK, GuardPhases
  <2> QED
    BY <1>5, <2>1, <2>2 DEF GRecovering, GFrame, ControlTypeOK
<1>6. ASSUME GErrorRecover PROVE TypeOK' /\ ControlTypeOK'
  <2>1. TypeOK'
    BY <1>0, <1>6, EnterType DEF GErrorRecover
  <2> QED
    BY <1>6, <2>1 DEF GErrorRecover, GFrame, GPhase, ControlTypeOK, GuardPhases
<1> QED
  BY <1>1, <1>2, <1>3, <1>4, <1>5, <1>6

\* The guard, releasing the helpers and leaving.
LEMMA LeavingTypes ==
    ASSUME TypeOK, ControlTypeOK
    PROVE  /\ GRelease \/ GReport \/ GReportFails => TypeOK' /\ ControlTypeOK'
           /\ GError \/ GErrorReport => TypeOK' /\ ControlTypeOK'
<1>1. ASSUME GRelease \/ GReportFails PROVE TypeOK' /\ ControlTypeOK'
  <2>1. /\ helpers' \in [Helpers -> {"running", "stopped", "gone"}]
        /\ owed' \subseteq Helpers /\ frozen' \subseteq Helpers
        /\ faults' \in 0..MaxFaults
    BY <1>1, ResumeType, ResumeFailsType DEF GRelease, GReportFails, ControlTypeOK
  <2> QED
    BY <1>1, <2>1 DEF GRelease, GReportFails, GFrame, GPhase, TypeOK, ControlTypeOK,
       GuardPhases
<1>2. ASSUME GError PROVE TypeOK' /\ ControlTypeOK'
  <2>1. TypeOK'
    <3>1. CASE AnchorGone
      BY <1>2, <3>1, AnchorGoneType DEF GError
    <3>2. CASE UNCHANGED treeVars
      BY <1>2, <3>2 DEF GError, TypeOK
    <3> QED
      BY <1>2, <3>1, <3>2 DEF GError
  <2>2. /\ helpers' \in [Helpers -> {"running", "stopped", "gone"}]
        /\ owed' \subseteq Helpers /\ frozen' \subseteq Helpers
        /\ faults' \in 0..MaxFaults
    BY <1>2, ResumingType DEF GError
  <2> QED
    BY <1>2, <2>1, <2>2 DEF GError, GFrame, GPhase, ControlTypeOK, GuardPhases
<1>3. ASSUME GReport \/ GErrorReport PROVE TypeOK' /\ ControlTypeOK'
  <2>1. PICK message \in {"none", "ready", "prepared", "resumed", "finished", "failed"} :
            GLeave(message) /\ (Interrupted \/ UNCHANGED report)
    BY <1>3 DEF GReport, GErrorReport, ControlTypeOK
  <2>2. TypeOK'
    BY <2>1, AnchorGoneType DEF GLeave
  <2>3. /\ helpers' \in [Helpers -> {"running", "stopped", "gone"}]
        /\ owed' \subseteq Helpers /\ frozen' \subseteq Helpers
        /\ faults' \in 0..MaxFaults
    BY <2>1, ResumingType DEF GLeave
  <2>4. report' \in [tx : Nat, status : {"none", "running", "success", "failed",
                                         "interrupted"}]
    BY <2>1 DEF Interrupted, ControlTypeOK
  <2> QED
    BY <2>1, <2>2, <2>3, <2>4 DEF GLeave, GPhase, Answer, ControlTypeOK, GuardPhases
<1> QED
  BY <1>1, <1>2, <1>3

\* Kills, the helpers' ends, and the user.
LEMMA EnvironmentTypes ==
    ASSUME TypeOK, ControlTypeOK, Environment
    PROVE  TypeOK' /\ ControlTypeOK'
<1>0. Engine \in Procs /\ Guard \in Procs
  BY TwoProcs
<1>1. ASSUME EngineDies PROVE TypeOK' /\ pcE' \in EnginePhases /\ left' \subseteq Windows
                              /\ owned' \in BOOLEAN
  <2>1. TypeOK'
    <3>1. CASE Crash(Engine)
      BY <1>0, <3>1, VerdictType
    <3>2. CASE UNCHANGED jvars
      BY <3>2 DEF TypeOK
    <3> QED
      BY <1>1, <3>1, <3>2 DEF EngineDies
  <2> QED
    BY <1>1, <2>1 DEF EngineDies, EnginePhases
<1>2. ASSUME ECrash \/ GDeadline PROVE TypeOK' /\ ControlTypeOK'
  <2>1. EngineDies
    BY <1>2 DEF ECrash, GDeadline
  <2> QED
    BY <1>1, <1>2, <2>1 DEF ECrash, GDeadline, GPhase, ControlTypeOK, GuardPhases
<1>3. ASSUME GCrash PROVE TypeOK' /\ ControlTypeOK'
  <2>1. TypeOK'
    <3>1. CASE CrashOutside(Guard)
      BY <3>1, SpendType DEF CrashOutside, TypeOK
    <3>2. CASE Crash(Guard)
      BY <1>0, <3>2, VerdictType
    <3> QED
      BY <1>3, <3>1, <3>2 DEF GCrash
  <2> QED
    BY <1>3, <2>1 DEF GCrash, GFrame, GPhase, ControlTypeOK, GuardPhases
<1>4. ASSUME NEW h \in Helpers, HelperEnds(h) PROVE TypeOK' /\ ControlTypeOK'
  BY <1>4, FaultType DEF HelperEnds, TypeOK, ControlTypeOK
<1>5. ASSUME User /\ UNCHANGED tvars PROVE TypeOK' /\ ControlTypeOK'
  BY <1>5, EnvironmentType DEF ControlTypeOK
<1> QED
  BY <1>2, <1>3, <1>4, <1>5 DEF Environment

\* Every step keeps the types.
LEMMA TransactionTypes ==
    ASSUME TransactionTypeOK, [TransactionNext]_vars PROVE TransactionTypeOK'
<1>0. TypeOK /\ ControlTypeOK
  BY TypesSplit
<1>1. ASSUME EngineStep PROVE TypeOK' /\ ControlTypeOK'
  BY <1>0, <1>1, OpeningTypes, DrivingTypes, ClosingTypes, FailingTypes DEF EngineStep
<1>2. ASSUME GuardStep PROVE TypeOK' /\ ControlTypeOK'
  BY <1>0, <1>2, WatchingTypes, CleaningTypes, LeavingTypes DEF GuardStep
<1>3. ASSUME Environment PROVE TypeOK' /\ ControlTypeOK'
  BY <1>0, <1>3, EnvironmentTypes
<1>4. ASSUME UNCHANGED vars PROVE TypeOK' /\ ControlTypeOK'
  BY <1>0, <1>4 DEF TypeOK, ControlTypeOK
<1> QED
  BY <1>1, <1>2, <1>3, <1>4 DEF TransactionNext, TransactionTypeOK, ControlTypeOK

-----------------------------------------------------------------------------
\* Where each process is.

\* What every lemma below assumes of the state.
Known0 == TransactionTypeOK /\ EnginePart /\ GuardPart /\ SameTransaction

\* Each process may take the steps of the lemmas above.
LEMMA BothStep == ASSUME Known0 PROVE Steps(Engine) /\ Steps(Guard)
BY TwoProcs DEF Known0, TransactionTypeOK, SameTransaction, Steps

\* A step that leaves the journal's variables alone is local to any process.
LEMMA QuietLocal ==
    ASSUME NEW p, Steps(p), UNCHANGED <<journal, at, mem, cmd>>
    PROVE  Local(p)
BY DEF Steps, Local

\* The executor's phase follows its point, up to the first command.
LEMMA OpeningPoint ==
    ASSUME Known0
    PROVE  /\ EBegin => EnginePart'
           /\ EOpen \/ EAttempt \/ ESpawn \/ EReady \/ EAdmitted \/ EBuild
                  => EnginePart' /\ Local(Engine)
           /\ \A w \in Windows : EAdmit(w) => EnginePart' /\ Local(Engine)
<1>0. /\ EnginePoint /\ EngineCommand /\ Steps(Engine) /\ Engine \in Procs
      /\ at \in [Procs -> Points] /\ pcE \in EnginePhases
  BY BothStep, TwoProcs DEF Known0, EnginePart, TransactionTypeOK, TypeOK
<1>1. ASSUME EBegin PROVE EnginePart'
  <2>1. at'[Engine] = "opening" /\ pcE' = "open"
    BY <1>0, <1>1 DEF EBegin, Begin, Goto
  <2> QED
    BY <2>1 DEF EnginePart, EnginePoint, EngineCommand, Commanding
<1>2. ASSUME EOpen PROVE EnginePart' /\ Local(Engine)
  <2>1. at'[Engine] = "driving" /\ pcE' = "attempt" /\ Local(Engine)
    BY <1>0, <1>2, DriveLocal DEF EOpen
  <2> QED
    BY <2>1 DEF EnginePart, EnginePoint, EngineCommand, Commanding
<1>3. ASSUME EAttempt \/ ESpawn \/ EReady \/ EAdmitted PROVE EnginePart' /\ Local(Engine)
  <2>1. /\ UNCHANGED <<journal, at, mem, cmd>> /\ at[Engine] = "driving"
        /\ pcE' \in {"spawn", "ready", "admit", "stage"}
    BY <1>0, <1>3 DEF EAttempt, ESpawn, EReady, EAdmitted, EnginePoint
  <2>2. Local(Engine)
    BY <1>0, <2>1, QuietLocal
  <2> QED
    BY <2>1, <2>2 DEF EnginePart, EnginePoint, EngineCommand, Commanding
<1>4. ASSUME EBuild PROVE EnginePart' /\ Local(Engine)
  <2>1. at'[Engine] = "driving" /\ pcE' = "mark" /\ Local(Engine)
    BY <1>0, <1>4, DriveLocal DEF EBuild, Driving
  <2> QED
    BY <2>1 DEF EnginePart, EnginePoint, EngineCommand, Commanding
<1>5. ASSUME NEW w \in Windows, EAdmit(w) PROVE EnginePart' /\ Local(Engine)
  <2>1. at'[Engine] = "driving" /\ pcE' = "admit" /\ Local(Engine)
    BY <1>0, <1>5, DriveLocal DEF EAdmit, EnginePoint
  <2> QED
    BY <2>1 DEF EnginePart, EnginePoint, EngineCommand, Commanding
<1> QED
  BY <1>1, <1>2, <1>3, <1>4, <1>5

\* A command of the executor: its phase waits for the outcome.
LEMMA CommandPoint ==
    ASSUME Known0, NEW op \in DriverOps, NEW w,
           NEW phase \in {"stage", "show", "resolve", "swap", "verify", "resume"},
           phase = "resume" => op = "focus", ECommand(op, w, phase)
    PROVE  EnginePart' /\ Local(Engine)
<1>0. Steps(Engine)
  BY BothStep
<1>1. CASE Issue(Engine, op, w) /\ pcE' = phase
  <2>1. at'[Engine] = "issued" /\ cmd'[Engine].op = op /\ Local(Engine)
    BY <1>0, <1>1, IssueLocal
  <2> QED
    BY <1>1, <2>1 DEF EnginePart, EnginePoint, EngineCommand, Commanding
<1>2. CASE IssueRefused(Engine) /\ pcE' = "failing"
  <2>1. at'[Engine] = "failed" /\ Local(Engine)
    BY <1>0, <1>2, IssueLocal
  <2> QED
    BY <1>2, <2>1 DEF EnginePart, EnginePoint, EngineCommand, Commanding
<1> QED
  BY <1>1, <1>2 DEF ECommand

\* The executor's commands and their outcomes.
LEMMA DrivingPoint ==
    ASSUME Known0
    PROVE  /\ \A w \in Windows : EStage(w) \/ ESwap(w) => EnginePart' /\ Local(Engine)
           /\ EMark \/ EShow \/ ECleanup => EnginePart' /\ Local(Engine)
           /\ \A w \in Windows \cup {NoWindow} : EFocus(w) => EnginePart' /\ Local(Engine)
           /\ ECommandStep => EnginePart' /\ Local(Engine)
<1>0. /\ EnginePoint /\ EngineCommand /\ Steps(Engine) /\ Engine \in Procs
      /\ at \in [Procs -> Points] /\ pcE \in EnginePhases
  BY BothStep, TwoProcs DEF Known0, EnginePart, TransactionTypeOK, TypeOK
<1>1. ASSUME NEW w \in Windows, EStage(w) \/ ESwap(w) PROVE EnginePart' /\ Local(Engine)
  BY <1>1, CommandPoint DEF EStage, ESwap, DriverOps
<1>2. ASSUME EMark \/ EShow \/ ECleanup PROVE EnginePart' /\ Local(Engine)
  BY <1>2, CommandPoint DEF EMark, EShow, ECleanup, DriverOps
<1>3. ASSUME NEW w \in Windows \cup {NoWindow}, EFocus(w)
      PROVE  EnginePart' /\ Local(Engine)
  BY <1>3, CommandPoint DEF EFocus, DriverOps
<1>4. ASSUME ECommandStep PROVE EnginePart' /\ Local(Engine)
  <2>1. /\ at[Engine] \in Commanding
        /\ pcE \notin {"recovering", "closing", "failing", "finishing", "abandon"}
    BY <1>0, <1>4, SendLocal, ConfirmLocal DEF ECommandStep, Commanding
  <2>6. pcE \in {"stage", "show", "resolve", "swap", "verify", "resume"}
    BY <1>0, <2>1 DEF EnginePoint, EnginePhases, Commanding
  <2>2. cmd[Engine].op \in DriverOps /\ ~Recovering(Engine)
    BY <1>0, <2>1 DEF EngineCommand, DriverOps, Recovering, RecoveryOps
  <2>3. /\ Local(Engine)
        /\ \/ at'[Engine] = "sent" /\ cmd'[Engine] = cmd[Engine]
           \/ at'[Engine] \in {"driving", "failed"}
    BY <1>0, <1>4, <2>2, SendLocal, ConfirmLocal DEF ECommandStep, DriverOps
  <2>4. pcE' = IF at'[Engine] = "failed" THEN "failing" ELSE pcE
    BY <1>4 DEF ECommandStep
  <2> QED
    BY <1>0, <2>1, <2>6, <2>2, <2>3, <2>4
       DEF EnginePart, EnginePoint, EngineCommand, Commanding
<1> QED
  BY <1>1, <1>2, <1>3, <1>4

\* The executor's handshakes and its completion.
LEMMA ClosingPoint ==
    ASSUME Known0
    PROVE  /\ EResolve \/ EPrepare \/ EPrepared \/ EResume \/ EFinish \/ EFinished
                  => EnginePart' /\ Local(Engine)
           /\ EComplete \/ EReceipt \/ ESuccess => EnginePart' /\ Local(Engine)
<1>0. /\ EnginePoint /\ EngineCommand /\ Steps(Engine) /\ Engine \in Procs
      /\ at \in [Procs -> Points] /\ pcE \in EnginePhases
  BY BothStep, TwoProcs DEF Known0, EnginePart, TransactionTypeOK, TypeOK
<1>1. ASSUME EResolve \/ EPrepare \/ EPrepared \/ EResume \/ EFinish \/ EFinished
      PROVE  EnginePart' /\ Local(Engine)
  <2>1. /\ UNCHANGED <<journal, at, mem, cmd>> /\ at[Engine] = "driving"
        /\ pcE' \in {"swap", "prepared", "focus", "resumed", "finished", "complete"}
    BY <1>1 DEF EResolve, EPrepare, EPrepared, EResume, EFinish, EFinished, Ask, Driving
  <2>2. Local(Engine)
    BY <1>0, <2>1, QuietLocal
  <2> QED
    BY <2>1, <2>2 DEF EnginePart, EnginePoint, EngineCommand, Commanding
<1>2. ASSUME EComplete PROVE EnginePart' /\ Local(Engine)
  <2>1. at'[Engine] = "completing" /\ pcE' = "receipt" /\ Local(Engine)
    BY <1>0, <1>2, DriveLocal DEF EComplete
  <2> QED
    BY <2>1 DEF EnginePart, EnginePoint, EngineCommand, Commanding
<1>3. ASSUME EReceipt PROVE EnginePart' /\ Local(Engine)
  <2>1. at'[Engine] = "off" /\ pcE' = "success" /\ Local(Engine)
    BY <1>0, <1>3, DriveLocal DEF EReceipt
  <2> QED
    BY <2>1 DEF EnginePart, EnginePoint, EngineCommand, Commanding
<1>4. ASSUME ESuccess PROVE EnginePart' /\ Local(Engine)
  <2>1. UNCHANGED <<journal, at, mem, cmd>> /\ at[Engine] = "off" /\ pcE' = "idle"
    BY <1>0, <1>4 DEF ESuccess, EnginePoint
  <2>2. Local(Engine)
    BY <1>0, <2>1, QuietLocal
  <2> QED
    BY <2>1, <2>2 DEF EnginePart, EnginePoint, EngineCommand, Commanding
<1> QED
  BY <1>1, <1>2, <1>3, <1>4

\* The executor's failure and its recovery.
LEMMA FailingPoint ==
    ASSUME Known0
    PROVE  /\ ERaise \/ EBoundaryConflict \/ EAnswerFailed \/ EReadyFailed
                  => EnginePart' /\ Local(Engine)
           /\ EAbandon \/ EFailing \/ EFinishing \/ EClosing
                  => EnginePart' /\ Local(Engine)
           /\ ERecover \/ ERecovering => EnginePart' /\ Local(Engine)
<1>0. /\ EnginePoint /\ EngineCommand /\ Steps(Engine) /\ Engine \in Procs
      /\ at \in [Procs -> Points] /\ pcE \in EnginePhases
  BY BothStep, TwoProcs DEF Known0, EnginePart, TransactionTypeOK, TypeOK
<1>1. ASSUME ERaise \/ EBoundaryConflict \/ EAnswerFailed \/ EReadyFailed
      PROVE  EnginePart' /\ Local(Engine)
  <2>1. /\ at'[Engine] = "failed" /\ pcE' \in {"failing", "abandon"} /\ Local(Engine)
    BY <1>0, <1>1, DriveLocal DEF ERaise, EBoundaryConflict, EAnswerFailed, EReadyFailed
  <2> QED
    BY <2>1 DEF EnginePart, EnginePoint, EngineCommand, Commanding
<1>2. ASSUME EAbandon \/ EFailing \/ EFinishing \/ EClosing
      PROVE  EnginePart' /\ Local(Engine)
  <2>1. /\ UNCHANGED <<journal, at, mem, cmd>> /\ at[Engine] = "failed"
        /\ pcE' \in {"failing", "finishing", "closing"}
    BY <1>0, <1>2 DEF EAbandon, EFailing, EFinishing, EClosing, EnginePoint
  <2>2. Local(Engine)
    BY <1>0, <2>1, QuietLocal
  <2> QED
    BY <2>1, <2>2 DEF EnginePart, EnginePoint, EngineCommand, Commanding
<1>3. ASSUME ERecover PROVE EnginePart' /\ Local(Engine)
  <2>1. /\ at'[Engine] \in {"off", "scanning", "publishing"} /\ Local(Engine)
        /\ pcE' = IF at'[Engine] = "off" THEN "idle" ELSE "recovering"
    BY <1>0, <1>3, EnterLocal DEF ERecover
  <2> QED
    BY <2>1 DEF EnginePart, EnginePoint, EngineCommand, Commanding, RecoveryPoints,
       RecoveryKnown
<1>4. ASSUME ERecovering PROVE EnginePart' /\ Local(Engine)
  <2>1. /\ pcE = "recovering" /\ RecoveryStep(Engine)
        /\ pcE' = IF at'[Engine] = "off" THEN "idle" ELSE "recovering"
    BY <1>4 DEF ERecovering
  <2>2. at[Engine] \in RecoveryPoints /\ RecoveryKnown(Engine)
    BY <1>0, <2>1 DEF EnginePoint, EngineCommand
  <2>3. /\ Local(Engine) /\ RecoveryKnown(Engine)'
        /\ at'[Engine] \in RecoveryPoints \cup {"off"}
    BY <1>0, <2>1, <2>2, RecoveryLocal
  <2> QED
    BY <2>1, <2>3 DEF EnginePart, EnginePoint, EngineCommand, Commanding,
       RecoveryPoints
<1> QED
  BY <1>1, <1>2, <1>3, <1>4

\* Every step of the executor is its own, or opens a transaction.
LEMMA EnginePoints ==
    ASSUME Known0, EngineStep
    PROVE  EnginePart' /\ (EBegin \/ Local(Engine))
BY OpeningPoint, DrivingPoint, ClosingPoint, FailingPoint DEF EngineStep

\* The guard's phase follows its point, too.
LEMMA GuardPoints ==
    ASSUME Known0, GuardStep PROVE GuardPart' /\ Local(Guard)
<1>0. /\ GuardPoint /\ GuardCommand /\ Steps(Guard) /\ Guard \in Procs
      /\ at \in [Procs -> Points] /\ pcG \in GuardPhases
  BY BothStep, TwoProcs DEF Known0, GuardPart, TransactionTypeOK, TypeOK
<1>1. ASSUME UNCHANGED <<journal, at, mem, cmd>>, at[Guard] = "off",
             pcG' \in {"off", "stopping", "watch", "clean", "decide", "resume", "report",
                       "error", "error-recovering", "error-report"}
      PROVE  GuardPart' /\ Local(Guard)
  <2>1. Local(Guard)
    BY <1>0, <1>1, QuietLocal
  <2> QED
    BY <1>1, <2>1 DEF GuardPart, GuardPoint, GuardCommand, Commanding, Resting,
       RecoveryKnown
<1>2. ASSUME NEW h \in Helpers, GStop(h) \/ GStopFails(h) PROVE GuardPart' /\ Local(Guard)
  <2>1. /\ UNCHANGED <<journal, at, mem, cmd>> /\ at[Guard] = "off"
        /\ pcG' \in {"stopping", "error"}
    BY <1>0, <1>2 DEF GStop, GStopFails, GPhase, GuardPoint
  <2> QED
    BY <1>1, <2>1
<1>3. ASSUME GReady \/ GPrepare \/ GResume \/ GServeFails \/ GFinish \/ GEngineLost
      PROVE  GuardPart' /\ Local(Guard)
  <2>1. /\ UNCHANGED <<journal, at, mem, cmd>> /\ at[Guard] = "off"
        /\ pcG' \in {"watch", "error", "clean"}
    BY <1>0, <1>3 DEF GReady, GPrepare, GResume, GServeFails, GFinish, GEngineLost,
       Serving, GPhase, GuardPoint
  <2> QED
    BY <1>1, <2>1
<1>4. ASSUME GClean PROVE GuardPart' /\ Local(Guard)
  <2>1. /\ Local(Guard)
        /\ \/ at'[Guard] = "issued" /\ cmd'[Guard].op = "clean" /\ pcG' = "clean"
           \/ at'[Guard] = "failed" /\ pcG' = "error"
    BY <1>0, <1>4, IssueLocal DEF GClean, GPhase
  <2> QED
    BY <2>1 DEF GuardPart, GuardPoint, GuardCommand, Commanding, Resting
<1>5. ASSUME GCleanStep PROVE GuardPart' /\ Local(Guard)
  <2>1. at[Guard] \in Commanding /\ cmd[Guard].op = "clean" /\ ~Recovering(Guard)
    BY <1>0, <1>5, SendLocal, ConfirmLocal DEF GCleanStep, Commanding, GuardCommand,
       Recovering, RecoveryOps
  <2>2. /\ Local(Guard)
        /\ \/ at'[Guard] = "sent" /\ cmd'[Guard] = cmd[Guard]
           \/ at'[Guard] \in {"off", "failed"}
    BY <1>0, <1>5, <2>1, SendLocal, ConfirmLocal DEF GCleanStep
  <2>3. pcG' = IF at'[Guard] = "failed" THEN "error" ELSE "clean"
    BY <1>5 DEF GCleanStep, GPhase
  <2> QED
    BY <2>1, <2>2, <2>3 DEF GuardPart, GuardPoint, GuardCommand, Commanding, Resting
<1>6. ASSUME GCleaned \/ GRelease \/ GReport \/ GReportFails \/ GErrorReport
      PROVE  GuardPart' /\ Local(Guard)
  <2>1. /\ UNCHANGED <<journal, at, mem, cmd>> /\ at[Guard] = "off"
        /\ pcG' \in {"off", "decide", "report", "error"}
    BY <1>0, <1>6 DEF GCleaned, GRelease, GReport, GReportFails, GErrorReport, GLeave,
       GPhase, GuardPoint
  <2> QED
    BY <1>1, <2>1
<1>7. ASSUME GDecide PROVE GuardPart' /\ Local(Guard)
  <2>1. CASE UNCHANGED jvars /\ pcG' = "resume"
    <3>1. at[Guard] = "off" /\ UNCHANGED <<journal, at, mem, cmd>>
      BY <1>0, <1>7, <2>1 DEF GDecide, GuardPoint
    <3> QED
      BY <1>1, <2>1, <3>1
  <2>2. CASE /\ EnterRecovery(Guard)
             /\ pcG' = IF at'[Guard] = "off" THEN "resume" ELSE "recovering"
    <3>1. Local(Guard) /\ at'[Guard] \in {"off", "scanning", "publishing"}
      BY <1>0, <2>2, EnterLocal
    <3> QED
      BY <2>2, <3>1 DEF GuardPart, GuardPoint, GuardCommand, Commanding, Resting,
         RecoveryPoints, RecoveryKnown
  <2> QED
    BY <1>7, <2>1, <2>2 DEF GDecide, GPhase
<1>8. ASSUME GRecovering PROVE GuardPart' /\ Local(Guard)
  <2>1. /\ pcG \in {"recovering", "error-recovering"} /\ RecoveryStep(Guard)
        /\ \/ at'[Guard] # "off" /\ pcG' = pcG
           \/ at'[Guard] = "off" /\ pcG' \in {"resume", "error-report"}
    BY <1>8 DEF GRecovering, GPhase
  <2>2. RecoveryKnown(Guard) /\ at[Guard] \in RecoveryPoints \cup Resting
    BY <1>0, <2>1 DEF GuardPoint, GuardCommand
  <2>3. at[Guard] \in RecoveryPoints
    BY <1>0, <2>1, <2>2, ScanLocal, ReturnLocal, RefocusLocal, VerdictLocal, SendLocal
       DEF RecoveryStep, Recover, RecoveryPoints, Resting
  <2>4. /\ Local(Guard) /\ RecoveryKnown(Guard)'
        /\ at'[Guard] \in RecoveryPoints \cup {"off"}
    BY <1>0, <2>1, <2>2, <2>3, RecoveryLocal
  <2> QED
    BY <2>1, <2>4 DEF GuardPart, GuardPoint, GuardCommand, Commanding, Resting,
       RecoveryPoints
<1>9. ASSUME GError PROVE GuardPart' /\ Local(Guard)
  <2>1. /\ UNCHANGED <<journal, at, mem, cmd>> /\ at[Guard] \in Resting
        /\ pcG' = "error-recovering"
    BY <1>0, <1>9 DEF GError, GPhase, GuardPoint
  <2>2. Local(Guard)
    BY <1>0, <2>1, QuietLocal
  <2> QED
    BY <2>1, <2>2 DEF GuardPart, GuardPoint, GuardCommand, Commanding, Resting,
       RecoveryKnown
<1>10. ASSUME GErrorRecover PROVE GuardPart' /\ Local(Guard)
  <2>1. /\ Local(Guard) /\ at'[Guard] \in {"off", "scanning", "publishing"}
        /\ pcG' = IF at'[Guard] = "off" THEN "error-report" ELSE "error-recovering"
    BY <1>0, <1>10, EnterLocal DEF GErrorRecover, GPhase
  <2> QED
    BY <2>1 DEF GuardPart, GuardPoint, GuardCommand, Commanding, Resting,
       RecoveryPoints, RecoveryKnown
<1> QED
  BY <1>2, <1>3, <1>4, <1>5, <1>6, <1>7, <1>8, <1>9, <1>10 DEF GuardStep

\* A kill leaves its process at rest, and everything durable as it was.
LEMMA KillPoints ==
    ASSUME Known0
    PROVE  /\ EngineDies => /\ EnginePart' /\ Local(Engine) /\ UNCHANGED fileVars
                            /\ at'[Engine] = "off"
           /\ GCrash => GuardPart' /\ Local(Guard) /\ UNCHANGED fileVars
<1>0. /\ EnginePoint /\ EngineCommand /\ Steps(Engine) /\ Steps(Guard)
      /\ GuardPoint /\ at \in [Procs -> Points]
  BY BothStep DEF Known0, EnginePart, GuardPart, TransactionTypeOK, TypeOK
<1>1. ASSUME EngineDies
      PROVE  /\ EnginePart' /\ Local(Engine) /\ UNCHANGED fileVars
             /\ at'[Engine] = "off"
  <2>1. Local(Engine) /\ at'[Engine] = "off" /\ pcE' = "idle" /\ UNCHANGED fileVars
    BY <1>0, <1>1, DriveLocal, QuietLocal DEF EngineDies
  <2> QED
    BY <2>1 DEF EnginePart, EnginePoint, EngineCommand, Commanding
<1>2. ASSUME GCrash PROVE GuardPart' /\ Local(Guard) /\ UNCHANGED fileVars
  <2>1. Local(Guard) /\ at'[Guard] = "off" /\ pcG' = "off" /\ UNCHANGED fileVars
    BY <1>0, <1>2, DriveLocal, QuietLocal DEF GCrash, GPhase, CrashOutside
  <2> QED
    BY <2>1 DEF GuardPart, GuardPoint, GuardCommand, Commanding
<1> QED
  BY <1>1, <1>2

\* What a process does leaves the other's part alone.
LEMMA OtherPart ==
    ASSUME Known0
    PROVE  /\ Local(Engine) /\ pcG' = pcG => GuardPart'
           /\ Local(Guard) /\ pcE' = pcE => EnginePart'
BY TwoProcs DEF Known0, Local, GuardPart, GuardPoint, GuardCommand, EnginePart,
   EnginePoint, EngineCommand, RecoveryKnown, Recovering, Returning

\* A local step keeps every process in the current transaction.
LEMMA LocalTransaction ==
    ASSUME SameTransaction, NEW p \in Procs, Local(p) PROVE SameTransaction'
BY DEF SameTransaction, Local

-----------------------------------------------------------------------------
\* The helpers.

\* The executor signals no helper; it only starts a guard that owes nothing.
LEMMA EngineHelpers ==
    ASSUME EngineStep PROVE ESpawn \/ UNCHANGED <<helpers, owed, frozen, pcG>>
BY DEF EngineStep, EBegin, EOpen, EAttempt, EReady, EAdmit, EStage, ESwap, EAdmitted,
   EBuild, EMark, EShow, EResolve, ECleanup, ECommand, ECommandStep, EPrepare,
   EPrepared, EFocus, EResume, EFinish, EFinished, Ask, EComplete, EReceipt, ESuccess,
   ERaise, EBoundaryConflict, EAnswerFailed, EReadyFailed, EAbandon, EFailing,
   EFinishing, EClosing, ERecover, ERecovering

\* resume_helpers signals only what the guard owes, and forgets nothing else.
LEMMA ResumeKeeps ==
    ASSUME ControlTypeOK, Obligations, NEW failed, Resume(failed)
    PROVE  /\ Obligations' /\ frozen' = frozen
           /\ failed = {} => /\ owed' = {}
                             /\ \A h \in Helpers \ frozen : helpers'[h] # "stopped"
           /\ \A h \in Helpers : helpers[h] = "gone" <=> helpers'[h] = "gone"
BY DEF ControlTypeOK, Obligations, Resume

\* The guard's obligations are kept by whatever it does.
LEMMA GuardHelpers ==
    ASSUME ControlTypeOK, Obligations, GuardStep
    PROVE  Obligations' /\ frozen' = frozen
<1>1. ASSUME NEW h \in Helpers, GStop(h) PROVE Obligations' /\ frozen' = frozen
  BY <1>1 DEF GStop, Obligations, ControlTypeOK
<1>2. ASSUME NEW h \in Helpers, GStopFails(h) PROVE Obligations' /\ frozen' = frozen
  BY <1>2 DEF GStopFails, Obligations, ControlTypeOK
<1>3. ASSUME NEW failed, Resume(failed) PROVE Obligations' /\ frozen' = frozen
  BY <1>3, ResumeKeeps
<1>4. ASSUME UNCHANGED helperVars PROVE Obligations' /\ frozen' = frozen
  BY <1>4 DEF Obligations
<1>5. ASSUME GServeFails \/ GRelease \/ GError PROVE Obligations' /\ frozen' = frozen
  BY <1>3, <1>4, <1>5 DEF GServeFails, GRelease, GError, Resuming, ResumeFails
<1>6. ASSUME GResume \/ GReport \/ GErrorReport PROVE Obligations' /\ frozen' = frozen
  BY <1>3, <1>6 DEF GResume, GReport, GErrorReport, GLeave, Resuming, ResumeFails
<1>7. ASSUME GReady \/ GPrepare \/ GFinish \/ GEngineLost \/ GClean \/ GCleanStep
                 \/ GCleaned \/ GDecide \/ GRecovering \/ GReportFails \/ GErrorRecover
      PROVE  UNCHANGED helperVars
  BY <1>7 DEF GReady, GPrepare, GFinish, GEngineLost, GClean, GCleanStep, GCleaned,
     GDecide, GRecovering, GReportFails, GErrorRecover
<1> QED
  BY <1>1, <1>2, <1>4, <1>5, <1>6, <1>7 DEF GuardStep

\* No step loses a helper the guard has stopped, or adopts a stranger.
LEMMA ObligationsKept ==
    ASSUME ControlTypeOK, Obligations, [TransactionNext]_vars
    PROVE  Obligations'
<1>1. CASE EngineStep
  <2>1. CASE ESpawn
    BY <2>1 DEF ESpawn, Obligations, ControlTypeOK
  <2>2. CASE UNCHANGED <<helpers, owed, frozen>>
    BY <2>2 DEF Obligations
  <2> QED
    BY <1>1, <2>1, <2>2, EngineHelpers
<1>2. CASE GuardStep
  BY <1>2, GuardHelpers
<1>3. CASE Environment
  <2>1. ASSUME NEW h \in Helpers, HelperEnds(h) PROVE Obligations'
    BY <2>1 DEF HelperEnds, Obligations, ControlTypeOK
  <2>2. ASSUME UNCHANGED helperVars PROVE Obligations'
    BY <2>2 DEF Obligations
  <2> QED
    BY <1>3, <2>1, <2>2 DEF Environment, ECrash, GDeadline, GCrash
<1>4. CASE UNCHANGED vars
  BY <1>4 DEF Obligations
<1> QED
  BY <1>1, <1>2, <1>3, <1>4 DEF TransactionNext

HeldPhases == {"admit", "stage", "mark", "show", "resolve", "swap", "verify"}

\* The executor's phases from "ready" to "verify" follow one another.
LEMMA EngineHeld ==
    ASSUME ControlTypeOK, Held, EngineStep PROVE Held'
<1>1. ASSUME UNCHANGED <<pcG, request, answer, closed, helpers, owed>>,
             pcE' \in {"open", "attempt", "spawn"} => pcG = "off",
             pcE' # "ready",
             pcE' \in HeldPhases =>
                 pcE \in HeldPhases \/ (pcE = "ready" /\ answer = "ready")
      PROVE  Held'
  BY <1>1 DEF Held, HeldPhases, Quiet, AllHeld
<1>2. ASSUME UNCHANGED <<pcG, helpers, owed>>,
             pcE' \notin HeldPhases \cup {"open", "attempt", "spawn", "ready"}
      PROVE  Held'
  BY <1>2 DEF Held, HeldPhases
<1>3. CASE EBegin \/ EOpen \/ EAttempt
  BY <1>1, <1>3 DEF EBegin, EOpen, EAttempt, Held, HeldPhases
<1>4. CASE ESpawn
  BY <1>4 DEF ESpawn, Held, Quiet
<1>5. CASE EReady
  BY <1>5 DEF EReady, Held, HeldPhases, Quiet, AllHeld
<1>6. CASE \E w \in Windows : EAdmit(w) \/ EStage(w) \/ ESwap(w)
  BY <1>1, <1>6 DEF EAdmit, EStage, ESwap, ECommand, Driving, HeldPhases
<1>7. CASE EAdmitted \/ EBuild \/ EMark \/ EShow \/ EResolve \/ ECleanup
  BY <1>1, <1>7 DEF EAdmitted, EBuild, EMark, EShow, EResolve, ECleanup, ECommand,
     Driving, HeldPhases
<1>8. CASE ECommandStep
  <2>1. pcE' \in {pcE, "failing"}
    BY <1>8 DEF ECommandStep
  <2> QED
    BY <1>8, <2>1 DEF ECommandStep, Held, Quiet, AllHeld
<1>9. CASE \/ EPrepare \/ EPrepared \/ \E w \in Windows \cup {NoWindow} : EFocus(w)
           \/ EResume \/ EFinish \/ EFinished \/ EComplete \/ EReceipt \/ ESuccess
  BY <1>2, <1>9 DEF EPrepare, EPrepared, EFocus, EResume, EFinish, EFinished, Ask,
     EComplete, EReceipt, ESuccess, ECommand, HeldPhases
<1>10. CASE ERaise \/ EBoundaryConflict \/ EAnswerFailed \/ EReadyFailed \/ EAbandon
            \/ EFailing \/ EFinishing
  BY <1>2, <1>10 DEF ERaise, EBoundaryConflict, EAnswerFailed, EReadyFailed, EAbandon,
     EFailing, EFinishing, HeldPhases
<1>11. CASE EClosing \/ ERecover \/ ERecovering
  BY <1>2, <1>11 DEF EClosing, ERecover, ERecovering, HeldPhases
<1> QED
  BY <1>3, <1>4, <1>5, <1>6, <1>7, <1>8, <1>9, <1>10, <1>11 DEF EngineStep

\* While the executor moves windows the guard has nothing to do but to watch.
LEMMA GuardHeld ==
    ASSUME ControlTypeOK, Obligations, Held, GuardStep PROVE Held'
<1>1. pcE' = pcE /\ closed' = closed /\ pcG # "off"
  BY DEF GuardStep, GFrame, GStop, GStopFails, GReady, GPrepare, GResume, GServeFails,
     Serving, GFinish, GEngineLost, GClean, GCleanStep, GCleaned, GDecide, GRecovering,
     GRelease, GReport, GLeave, GReportFails, GError, GErrorRecover, GErrorReport
<1>2. pcE \notin {"open", "attempt", "spawn"}
  BY <1>1 DEF Held
<1>3. CASE pcE \in HeldPhases
  <2>1. pcG = "watch" /\ request = "none" /\ ~Unheard
    BY <1>1, <1>3 DEF Held, HeldPhases, AllHeld, Quiet, Unheard, EngineDead
  <2>2. FALSE
    BY <2>1 DEF GuardStep, GStop, GStopFails, GReady, GPrepare, GResume, GServeFails,
       Serving, GFinish, GEngineLost, GClean, GCleanStep, GCleaned, GDecide,
       GRecovering, GRelease, GReport, GReportFails, GError, GErrorRecover,
       GErrorReport, Unheard
  <2> QED
    BY <2>2
<1>4. CASE pcE \notin HeldPhases
  <2>1. SUFFICES /\ pcG' = "stopping" => \A h \in owed' : helpers'[h] # "running"
                 /\ pcE = "ready" =>
                        request' = "none" /\ (answer' = "ready" => AllHeld')
    BY <1>1, <1>2, <1>4 DEF Held, HeldPhases, Quiet
  <2>2. CASE \E h \in Helpers : GStop(h) \/ GStopFails(h)
    BY <2>2 DEF GStop, GStopFails, GPhase, Held, Quiet, AllHeld, ControlTypeOK
  <2>3. CASE GReady
    <3>1. \A h \in Helpers : helpers[h] # "running"
      BY <2>3 DEF GReady, Held, Obligations
    <3> QED
      BY <2>3, <3>1 DEF GReady, GPhase, Answer, Held, Quiet, AllHeld
  <2>4. CASE GPrepare \/ GResume
    BY <2>4 DEF GPrepare, GResume, Serving, Answer, Held, Quiet
  <2>5. CASE GServeFails
    BY <2>5 DEF GServeFails, Serving, GPhase, Held, Quiet, EngineDead
  <2>6. CASE GFinish \/ GEngineLost
    BY <2>6 DEF GFinish, GEngineLost, Serving, GPhase, Held, Quiet, Unheard, EngineDead
  <2>7. ASSUME pcG \notin {"watch", "off"}, pcG' # "stopping", request' = request,
               answer' \in {answer, "finished", "failed"}
        PROVE  /\ pcG' = "stopping" => \A h \in owed' : helpers'[h] # "running"
               /\ pcE = "ready" =>
                      request' = "none" /\ (answer' = "ready" => AllHeld')
    BY <2>7 DEF Held, Quiet, AllHeld
  <2>8. CASE GClean \/ GCleanStep \/ GCleaned \/ GDecide
    BY <2>7, <2>8 DEF GClean, GCleanStep, GCleaned, GDecide, GPhase
  <2>9. CASE GRecovering \/ GRelease \/ GReportFails \/ GError \/ GErrorRecover
    BY <2>7, <2>9 DEF GRecovering, GRelease, GReportFails, GError, GErrorRecover, GPhase
  <2>10. CASE GReport \/ GErrorReport
    BY <2>7, <2>10 DEF GReport, GErrorReport, GLeave, GPhase, Answer
  <2> QED
    BY <2>2, <2>3, <2>4, <2>5, <2>6, <2>8, <2>9, <2>10 DEF GuardStep
<1> QED
  BY <1>3, <1>4

\* A kill, or a helper's end, sets none running.
LEMMA HeldKept ==
    ASSUME ControlTypeOK, Obligations, Held, [TransactionNext]_vars PROVE Held'
<1>1. CASE EngineStep
  BY <1>1, EngineHeld
<1>2. CASE GuardStep
  BY <1>2, GuardHeld
<1>3. CASE Environment
  <2>1. ASSUME ECrash \/ GDeadline PROVE Held'
    BY <2>1 DEF ECrash, GDeadline, EngineDies, GPhase, Held
  <2>2. ASSUME GCrash PROVE Held'
    BY <2>2 DEF GCrash, GFrame, GPhase, Held, Quiet, AllHeld
  <2>3. ASSUME NEW h \in Helpers, HelperEnds(h) PROVE Held'
    BY <2>3 DEF HelperEnds, Held, Quiet, AllHeld, ControlTypeOK
  <2>4. ASSUME UNCHANGED tvars PROVE Held'
    BY <2>4 DEF Held, Quiet, AllHeld
  <2> QED
    BY <1>3, <2>1, <2>2, <2>3, <2>4 DEF Environment
<1>4. CASE UNCHANGED vars
  BY <1>4 DEF Held, Quiet, AllHeld
<1> QED
  BY <1>1, <1>2, <1>3, <1>4 DEF TransactionNext

-----------------------------------------------------------------------------
\* The end of a transaction.

LastPhases == {"complete", "receipt", "success"}

\* The executor completes only after the guard's last word.
LEMMA EngineEnding ==
    ASSUME Ending, Held, EngineStep PROVE Ending'
<1>1. ASSUME UNCHANGED <<pcG, owed>>, answer' \in {answer, "none"},
             pcE' \in LastPhases => pcE \in LastPhases \/ answer = "finished"
      PROVE  Ending'
  BY <1>1 DEF Ending, LastPhases
<1>2. CASE EBegin \/ EOpen \/ EAttempt \/ EReady
  BY <1>1, <1>2 DEF EBegin, EOpen, EAttempt, EReady, LastPhases
<1>3. CASE ESpawn
  BY <1>3 DEF ESpawn, Ending
<1>4. CASE \E w \in Windows : EAdmit(w) \/ EStage(w) \/ ESwap(w)
  BY <1>1, <1>4 DEF EAdmit, EStage, ESwap, ECommand, Driving, LastPhases
<1>5. CASE EAdmitted \/ EBuild \/ EMark \/ EShow \/ EResolve \/ ECleanup
  BY <1>1, <1>5 DEF EAdmitted, EBuild, EMark, EShow, EResolve, ECleanup, ECommand,
     LastPhases
<1>6. CASE ECommandStep
  <2>1. pcE' \in {pcE, "failing"}
    BY <1>6 DEF ECommandStep
  <2> QED
    BY <1>1, <1>6, <2>1 DEF ECommandStep, LastPhases
<1>7. CASE \/ EPrepare \/ EPrepared \/ \E w \in Windows \cup {NoWindow} : EFocus(w)
           \/ EResume \/ EFinish
  BY <1>1, <1>7 DEF EPrepare, EPrepared, EFocus, EResume, EFinish, Ask, ECommand,
     LastPhases
<1>8. CASE EFinished \/ EComplete \/ EReceipt \/ ESuccess
  BY <1>1, <1>8 DEF EFinished, EComplete, EReceipt, ESuccess, LastPhases
<1>9. CASE ERaise \/ EBoundaryConflict \/ EAnswerFailed \/ EReadyFailed \/ EAbandon
           \/ EFailing \/ EFinishing
  BY <1>1, <1>9 DEF ERaise, EBoundaryConflict, EAnswerFailed, EReadyFailed, EAbandon,
     EFailing, EFinishing, LastPhases
<1>10. CASE EClosing \/ ERecover \/ ERecovering
  BY <1>1, <1>10 DEF EClosing, ERecover, ERecovering, LastPhases
<1> QED
  BY <1>2, <1>3, <1>4, <1>5, <1>6, <1>7, <1>8, <1>9, <1>10 DEF EngineStep

\* A step of the guard: it is not over yet, and it touches no phase of the executor.
LEMMA GuardFrame ==
    ASSUME GuardStep
    PROVE  pcG # "off" /\ UNCHANGED <<pcE, left, owned, closed>>
BY DEF GuardStep, GFrame, GStop, GStopFails, GReady, GPrepare, GResume, GServeFails,
   Serving, GFinish, GEngineLost, GClean, GCleanStep, GCleaned, GDecide, GRecovering,
   GRelease, GReport, GLeave, GReportFails, GError, GErrorRecover, GErrorReport

\* Each call of the guard leaves nothing owed, or has cost a fault.
LEMMA ResumingCosts ==
    ASSUME ControlTypeOK, Resuming
    PROVE  owed' = {} \/ (owed # {} /\ faults' < faults)
<1>1. CASE Resume({})
  BY <1>1 DEF Resume
<1>2. CASE ResumeFails
  BY <1>2 DEF ResumeFails, Fault, ControlTypeOK
<1> QED
  BY <1>1, <1>2 DEF Resuming

LEMMA GuardRetried ==
    ASSUME ControlTypeOK, Retried, GuardStep PROVE Retried'
<1>1. ASSUME pcG' \notin {"report", "error-recovering", "error-report"} PROVE Retried'
  BY <1>1 DEF Retried
<1>2. ASSUME pcG \in {"error-recovering", "error-report"},
             pcG' \in {"error-recovering", "error-report"}, UNCHANGED <<owed, faults>>
      PROVE  Retried'
  BY <1>2 DEF Retried
<1>3. CASE GRelease
  BY <1>3 DEF GRelease, GPhase, Resume, Retried
<1>4. CASE GError
  <2>1. owed' = {} \/ faults' < faults
    BY <1>4, ResumingCosts DEF GError
  <2>2. /\ faults \in Int /\ faults' \in Int /\ MaxFaults \in Int
        /\ faults <= MaxFaults
    BY <1>4, ResumingType, FaultsAssumption DEF GError, ControlTypeOK
  <2>3. owed' = {} \/ faults' < MaxFaults
    BY <2>1, <2>2
  <2>4. pcG' = "error-recovering"
    BY <1>4 DEF GError, GPhase
  <2> QED
    BY <2>3, <2>4 DEF Retried
<1>5. CASE GRecovering
  <2>1. CASE pcG' \in {"error-recovering", "error-report"}
    BY <1>2, <1>5, <2>1 DEF GRecovering, GPhase
  <2>2. CASE pcG' \notin {"error-recovering", "error-report"}
    BY <1>1, <1>5, <2>2 DEF GRecovering, GPhase
  <2> QED
    BY <2>1, <2>2
<1>6. CASE GErrorRecover
  BY <1>2, <1>6 DEF GErrorRecover, GPhase
<1>7. CASE GReport \/ GErrorReport \/ GReportFails
  BY <1>1, <1>7 DEF GReport, GErrorReport, GReportFails, GLeave, GPhase
<1>8. CASE (\E h \in Helpers : GStop(h) \/ GStopFails(h)) \/ GReady \/ GPrepare \/ GResume
  BY <1>1, <1>8 DEF GStop, GStopFails, GReady, GPrepare, GResume, Serving, GPhase
<1>9. CASE GServeFails \/ GFinish \/ GEngineLost \/ GClean \/ GCleanStep \/ GCleaned
           \/ GDecide
  BY <1>1, <1>9 DEF GServeFails, GFinish, GEngineLost, GClean, GCleanStep, GCleaned,
     GDecide, GPhase
<1> QED
  BY <1>3, <1>4, <1>5, <1>6, <1>7, <1>8, <1>9 DEF GuardStep

\* A fault is never given back.
LEMMA RetriedKept ==
    ASSUME ControlTypeOK, Retried, [TransactionNext]_vars PROVE Retried'
<1>0. faults \in 0..MaxFaults /\ MaxFaults \in Nat
  BY FaultsAssumption DEF ControlTypeOK
<1>1. CASE EngineStep
  <2>1. CASE ESpawn
    BY <2>1 DEF ESpawn, Retried
  <2>2. CASE UNCHANGED <<owed, pcG>>
    <3>1. faults' = faults \/ Fault
      BY <1>1 DEF EngineStep, EBegin, EOpen, EAttempt, ESpawn, EReady, EAdmit, EStage,
         ESwap, EAdmitted, EBuild, EMark, EShow, EResolve, ECleanup, ECommand,
         ECommandStep, EPrepare, EPrepared, EFocus, EResume, EFinish, EFinished, Ask,
         EComplete, EReceipt, ESuccess, ERaise, EBoundaryConflict, EAnswerFailed,
         EReadyFailed, EAbandon, EFailing, EFinishing, EClosing, ERecover, ERecovering
    <3> QED
      BY <1>0, <2>2, <3>1 DEF Fault, Retried
  <2> QED
    BY <1>1, <2>1, <2>2, EngineHelpers
<1>2. CASE GuardStep
  BY <1>2, GuardRetried
<1>3. CASE Environment
  <2>1. ASSUME pcG' = pcG \/ pcG' \in {"off", "clean"}, owed' = owed,
               faults' = faults \/ Fault
        PROVE  Retried'
    BY <1>0, <2>1 DEF Fault, Retried
  <2> QED
    BY <1>3, <2>1 DEF Environment, ECrash, GDeadline, GCrash, GFrame, GPhase, HelperEnds
<1>4. CASE UNCHANGED vars
  BY <1>4 DEF Retried
<1> QED
  BY <1>1, <1>2, <1>3, <1>4 DEF TransactionNext

\* The guard says "finished" when it owes nothing any more, and ends.
LEMMA GuardEnding ==
    ASSUME ControlTypeOK, Obligations, Retried, Ending, GuardStep PROVE Ending'
<1>1. pcE' = pcE /\ pcE \notin LastPhases /\ answer # "finished"
  BY GuardFrame DEF Ending, LastPhases
<1>2. ASSUME answer' # "finished" \/ (pcG' = "off" /\ owed' = {}) PROVE Ending'
  BY <1>1, <1>2 DEF Ending, LastPhases
<1>3. CASE GReport \/ GErrorReport
  <2>1. CASE GReport
    <3>1. Resuming /\ pcG' = "off" /\ owed = {}
      BY <2>1 DEF GReport, GLeave, GPhase, Retried
    <3> QED
      BY <1>2, <3>1, ResumingCosts
  <2>2. CASE GErrorReport
    BY <1>2, <2>2 DEF GErrorReport, GLeave, Answer
  <2> QED
    BY <1>3, <2>1, <2>2
<1>4. CASE (\E h \in Helpers : GStop(h) \/ GStopFails(h)) \/ GReady \/ GPrepare \/ GResume
  BY <1>1, <1>2, <1>4 DEF GStop, GStopFails, GReady, GPrepare, GResume, Answer
<1>5. CASE GServeFails \/ GFinish \/ GEngineLost \/ GClean \/ GCleanStep \/ GCleaned
  BY <1>1, <1>2, <1>5 DEF GServeFails, GFinish, GEngineLost, GClean, GCleanStep, GCleaned
<1>6. CASE GDecide \/ GRecovering \/ GRelease \/ GReportFails \/ GError \/ GErrorRecover
  BY <1>1, <1>2, <1>6 DEF GDecide, GRecovering, GRelease, GReportFails, GError,
     GErrorRecover
<1> QED
  BY <1>3, <1>4, <1>5, <1>6 DEF GuardStep

\* So the executor completes with no helper owed, whoever dies.
LEMMA EndingKept ==
    ASSUME ControlTypeOK, Obligations, Held, Retried, Ending, [TransactionNext]_vars
    PROVE  Ending'
<1>1. CASE EngineStep
  BY <1>1, EngineEnding
<1>2. CASE GuardStep
  BY <1>2, GuardEnding
<1>3. CASE Environment
  BY <1>3 DEF Environment, ECrash, GDeadline, EngineDies, GCrash, GFrame, GPhase,
     HelperEnds, Ending
<1>4. CASE UNCHANGED vars
  BY <1>4 DEF Ending
<1> QED
  BY <1>1, <1>2, <1>3, <1>4 DEF TransactionNext

\* The report follows the executor's phase, up to the success it shows.
LEMMA EngineReported ==
    ASSUME Known0, Ending, Reported, EngineStep PROVE Reported'
<1>0. /\ TypeOK /\ ControlTypeOK /\ Steps(Engine) /\ EnginePart'
      /\ journal.tx \in Nat /\ report.tx \in Nat
  BY EnginePoints, BothStep, TypesSplit DEF Known0, TypeOK, ControlTypeOK, Journals
<1>1. CASE EBegin
  <2>1. /\ journal'.tx = journal.tx + 1 /\ report' = report /\ pcE' = "open"
    BY <1>1 DEF EBegin, Begin, Publish, EmptyJournal
  <2> QED
    BY <1>0, <2>1 DEF Reported
<1>2. ASSUME ~EBegin PROVE journal'.tx = journal.tx
  BY <1>2, EnginePoints DEF Local
<1>3. ASSUME report' = report, journal'.tx = journal.tx, pcE # "idle",
             pcE' \notin {"receipt", "success"},
             pcE' \in {"idle", "open", "attempt", "failing"}
                 \/ pcE \notin {"idle", "open", "attempt", "failing"}
      PROVE  Reported'
  BY <1>3 DEF Reported
<1>4. CASE EOpen \/ EReady
  BY <1>2, <1>3, <1>4 DEF EOpen, EReady, EBegin
<1>5. CASE EAttempt
  BY <1>0, <1>5 DEF EAttempt, Reported
<1>6. CASE ESpawn \/ \E w \in Windows : EAdmit(w) \/ EStage(w) \/ ESwap(w)
  BY <1>2, <1>3, <1>6 DEF ESpawn, EAdmit, EStage, ESwap, ECommand, Driving, EBegin
<1>7. CASE EAdmitted \/ EBuild \/ EMark \/ EShow \/ EResolve \/ ECleanup
  BY <1>2, <1>3, <1>7 DEF EAdmitted, EBuild, EMark, EShow, EResolve, ECleanup,
     ECommand, Driving, EBegin
<1>8. CASE ECommandStep
  <2>1. at[Engine] \in Commanding
    BY <1>0, <1>8, SendLocal, ConfirmLocal DEF ECommandStep, Commanding
  <2>2. pcE \notin {"idle", "open", "attempt", "receipt", "success"}
    BY <2>1 DEF Known0, EnginePart, EnginePoint, Commanding
  <2>3. pcE' \in {pcE, "failing"} /\ report' = report
        /\ pcE \notin {"recovering", "closing", "failing", "finishing", "abandon"}
    BY <1>8 DEF ECommandStep
  <2>4. ~EBegin
    BY <2>2 DEF EBegin
  <2> QED
    BY <1>2, <1>3, <2>2, <2>3, <2>4
<1>9. CASE \/ EPrepare \/ EPrepared \/ \E w \in Windows \cup {NoWindow} : EFocus(w)
           \/ EResume \/ EFinish \/ EFinished
  BY <1>2, <1>3, <1>9 DEF EPrepare, EPrepared, EFocus, EResume, EFinish, EFinished, Ask,
     ECommand, Driving, EBegin
<1>10. CASE EComplete
  <2>1. /\ journal'.status = "complete" /\ journal'.tx = journal.tx
        /\ report' = report /\ pcE = "complete" /\ pcE' = "receipt"
    BY <1>0, <1>10, DriveLocal DEF EComplete, Local
  <2> QED
    BY <2>1 DEF Reported
<1>11. CASE EReceipt
  <2>1. /\ journal' = journal /\ report' = report /\ pcE = "receipt" /\ pcE' = "success"
        /\ receipt' = [tx |-> journal.tx, status |-> "complete"]
    BY <1>0, <1>11, DriveLocal DEF EReceipt
  <2> QED
    BY <2>1 DEF Reported, Completed
<1>12. CASE ESuccess
  <2>1. /\ UNCHANGED <<journal, receipt, pcG, owed>> /\ report'.tx = report.tx
        /\ pcE = "success" /\ pcE' = "idle"
    BY <1>0, <1>12 DEF ESuccess, ReportAs, ControlTypeOK
  <2> QED
    BY <2>1 DEF Reported, Completed, Ending
<1>13. CASE ERaise \/ EBoundaryConflict \/ EAnswerFailed
  BY <1>2, <1>3, <1>13 DEF ERaise, EBoundaryConflict, EAnswerFailed, Driving, Awaiting,
     EBegin
<1>14. CASE EReadyFailed \/ EAbandon
  BY <1>2, <1>3, <1>14 DEF EReadyFailed, EAbandon, Driving, EBegin
<1>15. CASE EFailing
  BY <1>0, <1>15 DEF EFailing, Reported
<1>16. CASE EFinishing \/ EClosing \/ ERecover \/ ERecovering
  <2>1. /\ pcE \in {"finishing", "closing", "recovering"} /\ report' = report
        /\ pcE' \in {"idle", "closing", "recovering"}
    BY <1>16 DEF EFinishing, EClosing, ERecover, ERecovering
  <2>2. journal'.tx = journal.tx
    BY <1>2, <2>1 DEF EBegin
  <2> QED
    BY <1>3, <2>1, <2>2
<1> QED
  BY <1>1, <1>4, <1>5, <1>6, <1>7, <1>8, <1>9, <1>10, <1>11, <1>12, <1>13, <1>14, <1>15,
     <1>16 DEF EngineStep

\* The guard only marks a report that says "running".
LEMMA GuardReported ==
    ASSUME ControlTypeOK, GuardStep
    PROVE  /\ report'.tx = report.tx
           /\ report'.status = report.status \/ report'.status = "interrupted"
<1>1. ASSUME Interrupted
      PROVE  /\ report'.tx = report.tx
             /\ report'.status = report.status \/ report'.status = "interrupted"
  BY <1>1 DEF Interrupted, ControlTypeOK
<1>2. Interrupted \/ report' = report
  BY DEF GuardStep, GFrame, GStop, GStopFails, GReady, GPrepare, GResume, GServeFails,
     GFinish, GEngineLost, GClean, GCleanStep, GCleaned, GDecide, GRecovering, GRelease,
     GReport, GReportFails, GError, GErrorRecover, GErrorReport
<1> QED
  BY <1>1, <1>2

\* A success is shown with everything over, and stays so until the next attempt.
LEMMA ReportedKept ==
    ASSUME Known0, Ending, Reported, [TransactionNext]_vars PROVE Reported'
<1>0. TypeOK /\ ControlTypeOK
  BY TypesSplit DEF Known0
<1>1. CASE EngineStep
  BY <1>1, EngineReported
<1>2. CASE GuardStep
  <2>1. journal'.tx = journal.tx
    BY <1>2, GuardPoints DEF Local
  <2>2. pcG # "off" /\ pcE' = pcE
    BY <1>2, GuardFrame
  <2>3. /\ report'.tx = report.tx
        /\ report'.status = report.status \/ report'.status = "interrupted"
    BY <1>0, <1>2, GuardReported
  <2>4. pcE \notin {"receipt", "success"}
    BY <2>2 DEF Ending
  <2> QED
    BY <2>1, <2>2, <2>3, <2>4 DEF Reported
<1>3. CASE Environment
  <2>1. ASSUME ECrash \/ GDeadline PROVE Reported'
    <3>1. /\ UNCHANGED <<journal, receipt, report>> /\ pcE' = "idle" /\ pcE # "idle"
      BY <2>1, KillPoints DEF ECrash, GDeadline, EngineDies
    <3> QED
      BY <3>1 DEF Reported
  <2>2. ASSUME GCrash PROVE Reported'
    <3>1. UNCHANGED <<journal, receipt, report, pcE>> /\ pcG # "off"
      BY <2>2, KillPoints DEF GCrash, GFrame
    <3> QED
      BY <3>1 DEF Reported, Completed
  <2>3. ASSUME NEW h \in Helpers, HelperEnds(h) PROVE Reported'
    BY <2>3 DEF HelperEnds, Reported, Completed
  <2>4. ASSUME User, UNCHANGED tvars PROVE Reported'
    BY <2>4, UserLocal DEF Reported, Completed
  <2> QED
    BY <1>3, <2>1, <2>2, <2>3, <2>4 DEF Environment
<1>4. CASE UNCHANGED vars
  BY <1>4 DEF Reported, Completed
<1> QED
  BY <1>1, <1>2, <1>3, <1>4 DEF TransactionNext

-----------------------------------------------------------------------------
\* The invariant.

\* A step keeps each process where its phase says it is.
LEMMA PartsKept ==
    ASSUME Known0, Held, [TransactionNext]_vars
    PROVE  EnginePart' /\ GuardPart' /\ SameTransaction'
<1>0. Engine \in Procs /\ Guard \in Procs /\ SameTransaction
  BY TwoProcs DEF Known0
<1>1. CASE EBegin
  <2>1. EnginePart'
    BY <1>1, OpeningPoint
  <2>2. PICK j : journal' = j /\ mem' = [mem EXCEPT ![Engine] = j]
    BY <1>1 DEF EBegin, Begin, Publish
  <2>3. /\ pcG' = pcG /\ cmd' = cmd /\ at' = [at EXCEPT ![Engine] = "opening"]
        /\ \A q \in Procs \ {Engine} : at[q] \in Resting
    BY <1>1 DEF EBegin, Begin, Goto, Alone
  <2>4. at'[Guard] = at[Guard] /\ cmd' = cmd /\ pcG' = pcG
    BY <1>0, <2>3, TwoProcs DEF Known0, TransactionTypeOK, TypeOK
  <2>5. GuardPart'
    BY <2>4 DEF Known0, GuardPart, GuardPoint, GuardCommand, RecoveryKnown, Recovering,
       Returning
  <2>6. SameTransaction'
    BY <1>0, <2>2, <2>3 DEF SameTransaction, Known0, TransactionTypeOK, TypeOK
  <2> QED
    BY <2>1, <2>5, <2>6
<1>2. CASE EngineStep /\ ~EBegin
  <2>1. EnginePart' /\ Local(Engine)
    BY <1>2, EnginePoints
  <2>2. GuardPart'
    <3>1. CASE ESpawn
      <4>1. pcG = "off"
        BY <3>1 DEF ESpawn, Held
      <4>2. at' = at /\ pcG' = "stopping"
        BY <3>1 DEF ESpawn
      <4> QED
        BY <4>1, <4>2 DEF Known0, GuardPart, GuardPoint, GuardCommand, Commanding
    <3>2. CASE pcG' = pcG
      BY <2>1, <3>2, OtherPart
    <3> QED
      BY <1>2, <3>1, <3>2, EngineHelpers
  <2> QED
    BY <1>0, <2>1, <2>2, LocalTransaction
<1>3. CASE GuardStep
  <2>1. GuardPart' /\ Local(Guard)
    BY <1>3, GuardPoints
  <2>2. EnginePart'
    BY <1>3, <2>1, GuardFrame, OtherPart
  <2> QED
    BY <1>0, <2>1, <2>2, LocalTransaction
<1>4. CASE ECrash
  <2>1. EnginePart' /\ Local(Engine) /\ pcG' = pcG
    BY <1>4, KillPoints DEF ECrash
  <2> QED
    BY <1>0, <2>1, OtherPart, LocalTransaction
<1>5. CASE GDeadline
  <2>1. EnginePart' /\ Local(Engine) /\ pcG = "watch" /\ pcG' = "clean"
    BY <1>5, KillPoints DEF GDeadline, GPhase
  <2>2. GuardPart'
    BY <1>0, <2>1, TwoProcs DEF Local, Known0, GuardPart, GuardPoint, GuardCommand,
       Commanding
  <2> QED
    BY <1>0, <2>1, <2>2, LocalTransaction
<1>6. CASE GCrash
  <2>1. GuardPart' /\ Local(Guard) /\ pcE' = pcE
    BY <1>6, KillPoints DEF GCrash, GFrame
  <2> QED
    BY <1>0, <2>1, OtherPart, LocalTransaction
<1>7. ASSUME UNCHANGED <<journal, at, mem, cmd, pcE, pcG>>
      PROVE  EnginePart' /\ GuardPart' /\ SameTransaction'
  BY <1>7 DEF Known0, EnginePart, EnginePoint, EngineCommand, GuardPart, GuardPoint,
     GuardCommand, RecoveryKnown, Recovering, Returning, SameTransaction
<1>8. CASE (\E h \in Helpers : HelperEnds(h)) \/ UNCHANGED vars
  BY <1>7, <1>8 DEF HelperEnds
<1>9. CASE User /\ UNCHANGED tvars
  BY <1>7, <1>9, UserLocal
<1> QED
  BY <1>1, <1>2, <1>3, <1>4, <1>5, <1>6, <1>8, <1>9 DEF TransactionNext, Environment


LEMMA InitRestore == TransactionInit => RestoreInv
<1> SUFFICES ASSUME TransactionInit PROVE RestoreInv
  OBVIOUS
<1>1. TypeOK
  BY InitType DEF TransactionInit
<1>2. \A p \in Procs : at[p] = "off"
  BY DEF TransactionInit, Init
<1>3. journal.tx = 0 /\ report.tx = 0 /\ report.status = "none"
  BY DEF TransactionInit, Init, EmptyJournal
<1>4. TransactionTypeOK
  <2>1. pcE \in EnginePhases /\ pcG \in GuardPhases /\ faults \in 0..MaxFaults
    BY FaultsAssumption DEF TransactionInit, EnginePhases, GuardPhases
  <2>2. /\ helpers \in [Helpers -> {"running", "stopped", "gone"}]
        /\ frozen \subseteq Helpers /\ left \subseteq Windows /\ owed \subseteq Helpers
    BY DEF TransactionInit
  <2>3. /\ owned \in BOOLEAN /\ normal \in BOOLEAN /\ prepared \in BOOLEAN
        /\ request = "none" /\ answer = "none" /\ closed \in BOOLEAN
        /\ report = [tx |-> 0, status |-> "none"]
    BY DEF TransactionInit
  <2> QED
    BY <1>1, <2>1, <2>2, <2>3 DEF TransactionTypeOK
<1>5. EnginePart /\ GuardPart /\ SameTransaction
  BY <1>2, TwoProcs DEF TransactionInit, EnginePart, EnginePoint, EngineCommand, GuardPart,
     GuardPoint, GuardCommand, SameTransaction, Commanding, Resting
<1>6. Obligations /\ Held /\ Retried /\ Ending
  BY DEF TransactionInit, Obligations, Held, Retried, Ending
<1>7. Reported
  BY <1>3 DEF TransactionInit, Reported
<1> QED
  BY <1>4, <1>5, <1>6, <1>7 DEF RestoreInv

LEMMA RestoreStep == RestoreInv /\ [TransactionNext]_vars => RestoreInv'
<1> SUFFICES ASSUME RestoreInv, [TransactionNext]_vars PROVE RestoreInv'
  OBVIOUS
<1>1. /\ Known0 /\ ControlTypeOK /\ Obligations /\ Held /\ Retried /\ Ending
      /\ Reported
  BY TypesSplit DEF RestoreInv, Known0
<1>2. TransactionTypeOK'
  BY TransactionTypes DEF RestoreInv
<1>3. EnginePart' /\ GuardPart' /\ SameTransaction'
  BY <1>1, PartsKept
<1>4. Obligations' /\ Held'
  BY <1>1, ObligationsKept, HeldKept
<1>5. Retried' /\ Ending' /\ Reported'
  BY <1>1, RetriedKept, EndingKept, ReportedKept
<1> QED
  BY <1>2, <1>3, <1>4, <1>5 DEF RestoreInv

\* Where executor and guard are, the guard's obligations and the helpers
\* stopped agree in every state (executor.py, guard.py).
THEOREM RestoreHolds == TransactionSpec => []RestoreInv
BY InitRestore, RestoreStep, PTL DEF TransactionSpec

-----------------------------------------------------------------------------
\* What it says.

\* Phases, messages, obligations and the journal keep their types, whoever is
\* killed and whatever the user does meanwhile.
THEOREM TransactionTypesHold == TransactionSpec => []TransactionTypeOK
<1>1. RestoreInv => TransactionTypeOK
  BY DEF RestoreInv
<1> QED
  BY <1>1, RestoreHolds, PTL

\* No helper runs while the executor moves a window: it moves only between the
\* guard's "ready" and its own "prepare", and the guard resumes nothing before
\* (executor.py, guard.py).
THEOREM MovesAreHeld == TransactionSpec => []MovesWhileHeld
<1>1. RestoreInv => MovesWhileHeld
  <2> SUFFICES ASSUME RestoreInv, at[Engine] = "issued", ~Recovering(Engine),
                      Moves(cmd[Engine])
               PROVE  \A h \in Helpers : helpers[h] # "running"
    BY DEF MovesWhileHeld
  <2>1. pcE \in EnginePhases /\ EnginePoint /\ EngineCommand /\ Held
    BY DEF RestoreInv, TransactionTypeOK, EnginePart
  <2>2. pcE \in {"stage", "show", "resolve", "swap", "verify", "resume", "recovering"}
    BY <2>1 DEF EnginePoint, EnginePhases, Commanding
  <2>3. pcE # "resume"
    BY <2>1 DEF EngineCommand, Commanding, Moves
  <2>4. pcE # "recovering"
    BY <2>1 DEF EngineCommand, RecoveryKnown, Commanding
  <2> QED
    BY <2>1, <2>2, <2>3, <2>4 DEF Held, AllHeld
<1> QED
  BY <1>1, RestoreHolds, PTL

\* "success" is reported of a complete journal with its receipt, once the guard
\* has ended and every helper it stopped runs again or has ended.
THEOREM SuccessesAreComplete == TransactionSpec => []SuccessIsComplete
<1>1. RestoreInv => SuccessIsComplete
  BY DEF RestoreInv, Reported, Completed, Obligations, SuccessIsComplete
<1> QED
  BY <1>1, RestoreHolds, PTL

\* One failure, wherever it strikes, costs no helper its resumption: a guard that
\* ends unkilled with a helper of its own stopped has failed at least twice, still
\* owes it, and answered "failed"; and a helper it found stopped, it never resumes
\* (guard.py).
THEOREM HelpersAreReleased == TransactionSpec => HelpersReleased
<1>1. ASSUME RestoreInv, [TransactionNext]_vars
      PROVE  \A h \in frozen : helpers'[h] # "running"
  <2>1. ControlTypeOK /\ Obligations
    BY <1>1, TypesSplit DEF RestoreInv
  <2>2. Obligations'
    BY <1>1, <2>1, ObligationsKept
  <2>3. frozen' = frozen \/ helpers' = helpers
    <3>1. CASE EngineStep
      BY <3>1, EngineHelpers DEF ESpawn
    <3>2. CASE GuardStep
      BY <2>1, <3>2, GuardHelpers
    <3>3. CASE Environment \/ UNCHANGED vars
      BY <3>3 DEF Environment, ECrash, GDeadline, GCrash, HelperEnds
    <3> QED
      BY <1>1, <3>1, <3>2, <3>3 DEF TransactionNext
  <2> QED
    BY <2>1, <2>2, <2>3 DEF Obligations
<1>2. ASSUME RestoreInv, [TransactionNext]_vars, pcG # "off", pcG' = "off",
             budget' = budget, NEW h \in Helpers \ frozen, helpers'[h] = "stopped"
      PROVE  h \in owed' /\ answer' = "failed" /\ faults' <= MaxFaults - 2
  <2>1. /\ ControlTypeOK /\ Obligations /\ TypeOK /\ Retried
        /\ faults \in Int /\ MaxFaults \in Int
    BY <1>2, TypesSplit, FaultsAssumption DEF RestoreInv, ControlTypeOK
  <2>3. ~EngineStep
    BY <1>2, EngineHelpers DEF ESpawn
  <2>4. ~GCrash
    <3>1. GCrash => Spend("crash")
      BY DEF GCrash, Crash, CrashOutside
    <3> QED
      BY <1>2, <2>1, <3>1 DEF Spend, TypeOK
  <2>5. ~Environment
    BY <1>2, <2>4 DEF Environment, ECrash, GDeadline, GPhase, HelperEnds
  <2>6. GuardStep
    BY <1>2, <2>3, <2>5 DEF TransactionNext
  <2>7. GReport \/ GErrorReport
    BY <1>2, <2>6 DEF GuardStep, GPhase, GStop, GStopFails, GReady, GPrepare, GResume,
       GServeFails, GFinish, GEngineLost, GClean, GCleanStep, GCleaned, GDecide,
       GRecovering, GRelease, GReportFails, GError, GErrorRecover
  <2>8. h \in owed'
    BY <1>2, <2>1, <2>6, GuardHelpers DEF Obligations
  <2>9. Resuming
    BY <2>7 DEF GReport, GErrorReport, GLeave
  <2>10. owed # {} /\ faults' < faults
    BY <2>1, <2>8, <2>9, ResumingCosts
  <2>11. GErrorReport
    BY <2>1, <2>7, <2>10 DEF GReport, Retried
  <2>12. faults < MaxFaults
    BY <2>1, <2>10, <2>11 DEF GErrorReport, Retried
  <2>13. faults' \in Int
    BY <2>1, <2>9, ResumingType, FaultsAssumption
  <2>14. faults' <= MaxFaults - 2
    BY <2>1, <2>10, <2>12, <2>13
  <2>15. answer' = "failed"
    BY <2>11 DEF GErrorReport, GLeave, Answer
  <2> QED
    BY <2>8, <2>14, <2>15
<1>3. RestoreInv /\ [TransactionNext]_vars
        => /\ pcG # "off" /\ pcG' = "off" /\ budget' = budget =>
                \A h \in Helpers \ frozen :
                    helpers'[h] = "stopped" => /\ h \in owed'
                                              /\ answer' = "failed"
                                              /\ faults' <= MaxFaults - 2
           /\ \A h \in frozen : helpers'[h] # "running"
  BY <1>1, <1>2
<1> QED
  BY <1>3, RestoreHolds, PTL DEF HelpersReleased, TransactionSpec

-----------------------------------------------------------------------------
\* Before the first fault: no handshake has timed out, and no helper has failed
\* or ended.

Lot == {"stage", "mark", "show", "resolve", "swap", "verify", "prepared", "focus",
        "resume", "resumed", "finished"}
Finishing == {"finished", "complete", "receipt", "success", "failing", "finishing",
              "closing", "recovering", "idle", "open", "attempt", "spawn"}

\* The executor has verified the layout and leaves the rest to the guard.
HandedOver == pcE = "finished" /\ normal /\ prepared

\* One of the two acts on the journal, never both.
OneActs ==
    /\ pcG \in {"clean", "decide", "resume", "report"}
           => at[Engine] \in Resting \/ HandedOver
    /\ pcG \in {"recovering", "error", "error-recovering", "error-report"}
           => at[Engine] \in Resting
    /\ pcG = "stopping" => pcE \in {"ready", "idle"}
    /\ pcE \in {"closing", "recovering"} => pcG = "off"
    /\ pcE = "failing" /\ ~owned => pcG = "off"
    /\ pcE \in Lot \cup {"admit"} => owned

\* What is on the control socket belongs to the phases of its two ends.
Channel ==
    /\ closed => pcG = "off"
    /\ answer = "failed" => pcG = "off"
    /\ answer = "prepared" => prepared
    /\ request = "finish" => pcE \in Finishing
    /\ request = "prepare" /\ pcG # "off" => pcE = "prepared" \/ at[Engine] \in Resting
    /\ pcE = "prepared" /\ answer # "none" /\ pcG # "off" => request = "none"
    /\ pcE = "finished" /\ pcG = "watch" => request = "finish"
    /\ pcE = "finished" /\ answer # "none" => pcG = "off"
    /\ pcE \in Lot \cup {"spawn", "ready", "admit"} => report.status = "running"

\* The anchors are there for the swaps only.
Anchors ==
    /\ focus = "anchor" => anchor # "none"
    /\ prepared /\ pcG # "off" => anchor = "none"
    /\ pcE = "prepared" /\ pcG = "watch" /\ request = "prepare"
           => anchor = "none" /\ ~prepared
    /\ pcE \in HeldPhases \cup {"ready"} => ~prepared
    /\ pcE \in {"focus", "resume", "resumed", "finished"} => prepared

\* The journal is undecided as long as the guard watches.
Undecided ==
    pcG \in {"stopping", "watch", "clean"} \/ pcE \in {"open", "attempt", "spawn"}
        => journal.status = "active" /\ journal.recovered = {}

AllAdmitted ==
    /\ pcE \in Lot => journal.admitted = Windows
    /\ pcE = "admit" => Windows \ left \subseteq journal.admitted

Solo ==
    /\ OneActs /\ Channel /\ Anchors /\ Undecided /\ AllAdmitted
    /\ \A h \in Helpers : helpers[h] # "gone"

SoloInv == faults = MaxFaults => IInv /\ Solo

Sound == RestoreInv /\ IInv /\ Solo

\* What is known of both processes while nothing has failed.
LEMMA SoundParts ==
    ASSUME Sound
    PROVE  /\ Known0 /\ ControlTypeOK /\ TypeOK
           /\ Held /\ Ending /\ EnginePoint /\ GuardPoint
           /\ at \in [Procs -> Points] /\ Engine \in Procs /\ Guard \in Procs
           /\ pcE \in EnginePhases /\ pcG \in GuardPhases
           /\ owned \in BOOLEAN /\ normal \in BOOLEAN /\ prepared \in BOOLEAN
BY TypesSplit, TwoProcs DEF Sound, RestoreInv, Known0, EnginePart, GuardPart,
   ControlTypeOK, TypeOK

\* A step that is not a fault.
LEMMA NoFault == ASSUME ControlTypeOK, faults' = faults PROVE ~Fault
BY FaultsAssumption DEF ControlTypeOK, Fault

\* Faults are only ever spent.
LEMMA FaultsFall ==
    ASSUME ControlTypeOK, [TransactionNext]_vars
    PROVE  faults' = faults \/ Fault
<1>1. CASE EngineStep
  <2>1. CASE EAnswerFailed \/ EReadyFailed \/ EAbandon \/ EFinishing
    BY <2>1 DEF EAnswerFailed, EReadyFailed, EAbandon, EFinishing
  <2>2. CASE EBegin \/ EOpen \/ EAttempt \/ ESpawn \/ EReady
             \/ (\E w \in Windows : EAdmit(w) \/ EStage(w) \/ ESwap(w))
    BY <2>2 DEF EBegin, EOpen, EAttempt, ESpawn, EReady, EAdmit, EStage, ESwap, ECommand
  <2>3. CASE EAdmitted \/ EBuild \/ EMark \/ EShow \/ EResolve \/ ECleanup \/ ECommandStep
             \/ EPrepare \/ EPrepared \/ (\E w \in Windows \cup {NoWindow} : EFocus(w))
    BY <2>3 DEF EAdmitted, EBuild, EMark, EShow, EResolve, ECleanup, ECommandStep,
       EPrepare, EPrepared, EFocus, ECommand, Ask
  <2>4. CASE EResume \/ EFinish \/ EFinished \/ EComplete \/ EReceipt \/ ESuccess
             \/ ERaise \/ EBoundaryConflict \/ EFailing \/ EClosing \/ ERecover
             \/ ERecovering
    BY <2>4 DEF EResume, EFinish, EFinished, EComplete, EReceipt, ESuccess, ERaise,
       EBoundaryConflict, EFailing, EClosing, ERecover, ERecovering, Ask
  <2> QED
    BY <1>1, <2>1, <2>2, <2>3, <2>4 DEF EngineStep
<1>2. CASE GuardStep
  BY <1>2 DEF GuardStep, GStop, GStopFails, GReady, GPrepare, GResume, GServeFails,
     GFinish, GEngineLost, GClean, GCleanStep, GCleaned, GDecide, GRecovering, GRelease,
     GReport, GReportFails, GError, GErrorRecover, GErrorReport, GLeave, Resuming,
     ResumeFails
<1>3. CASE Environment \/ UNCHANGED vars
  BY <1>3 DEF Environment, ECrash, GDeadline, GCrash, HelperEnds
<1> QED
  BY <1>1, <1>2, <1>3 DEF TransactionNext

\* An executor that drives has the journal to itself.
LEMMA DriverAlone ==
    ASSUME OneActs, pcG \in GuardPhases, at[Engine] \notin Resting
    PROVE  pcG \in {"off", "stopping", "watch"} \/ HandedOver
BY DEF OneActs, GuardPhases

\* Every journal step of the executor is one of the protocol's.
LEMMA EngineFollows ==
    ASSUME Sound, EngineStep, faults' = faults
    PROVE  \/ Begin(Engine) \/ Drive(Engine) \/ UNCHANGED jvars
           \/ /\ pcE \in {"closing", "recovering"}
              /\ pcE' \in {"idle", "closing", "recovering"}
              /\ \/ Recover(Engine) \/ AnchorExit
                 \/ Alone(Engine) /\ EnterRecovery(Engine)
<1>0. /\ OneActs /\ AllAdmitted /\ EnginePoint /\ GuardPoint /\ IInv
      /\ Engine \in Procs /\ Procs = {Engine, Guard}
  BY SoundParts, ProcsAssumption DEF Sound, Solo
<1>1. ASSUME NEW w \in Windows \cup {NoWindow}, NEW op \in DriverOps, NEW phase,
             ECommand(op, w, phase),
             w = NoWindow => op \in {"mark", "show", "kill", "focus"},
             w # NoWindow => op \in {"stage", "swap", "focus"} /\ pcE \in Lot
      PROVE  Drive(Engine)
  <2>1. CASE IssueRefused(Engine)
    BY <2>1 DEF Drive
  <2>2. CASE Issue(Engine, op, w) /\ w = NoWindow
    BY <1>1, <2>2 DEF Drive
  <2>3. CASE Issue(Engine, op, w) /\ w # NoWindow
    <3>1. w \in journal.admitted /\ at[Engine] = "driving"
      BY <1>0, <1>1, <2>3 DEF AllAdmitted, Issue
    <3>2. mem[Engine] = journal
      BY <1>0, <3>1 DEF IInv, LockInv, MemIsJournal, Resting
    <3> QED
      BY <1>1, <2>3, <3>1, <3>2 DEF Drive
  <2> QED
    BY <1>1, <2>1, <2>2, <2>3 DEF ECommand
<1>2. CASE EBegin \/ EOpen \/ (\E w \in Windows : EAdmit(w)) \/ EBuild \/ ECommandStep
  BY <1>2 DEF EBegin, EOpen, EAdmit, EBuild, ECommandStep, Drive
<1>3. CASE EAttempt \/ ESpawn \/ EReady \/ EAdmitted \/ EResolve \/ EPrepare \/ EPrepared
           \/ EResume \/ EFinish \/ EFinished \/ ESuccess
  BY <1>3 DEF EAttempt, ESpawn, EReady, EAdmitted, EResolve, EPrepare, EPrepared,
     EResume, EFinish, EFinished, ESuccess, Ask
<1>4. ASSUME NEW w \in Windows, EStage(w) \/ ESwap(w) PROVE Drive(Engine)
  BY <1>1, <1>4, WindowsAssumption DEF EStage, ESwap, DriverOps, Driving, Lot
<1>5. CASE EMark \/ EShow \/ ECleanup
  BY <1>1, <1>5 DEF EMark, EShow, ECleanup, DriverOps
<1>6. ASSUME NEW w \in Windows \cup {NoWindow}, EFocus(w) PROVE Drive(Engine)
  <2>1. pcE = "focus" /\ ECommand("focus", w, "resume")
    BY <1>6 DEF EFocus, Driving
  <2>2. CASE w = NoWindow
    BY <1>1, <2>1, <2>2 DEF DriverOps
  <2>3. CASE w # NoWindow
    BY <1>1, <2>1, <2>3, Zenon DEF DriverOps, Lot
  <2> QED
    BY <2>2, <2>3
<1>7. CASE EComplete \/ EReceipt \/ ERaise \/ EBoundaryConflict \/ EAnswerFailed
           \/ EReadyFailed
  BY <1>7 DEF EComplete, EReceipt, ERaise, EBoundaryConflict, EAnswerFailed,
     EReadyFailed, Drive
<1>8. CASE EAbandon \/ EFailing \/ EFinishing
  BY <1>8 DEF EAbandon, EFailing, EFinishing
<1>9. CASE EClosing
  <2>1. \A p \in Procs : at[p] \in Resting
    BY <1>0, <1>9 DEF EClosing, OneActs, EnginePoint, GuardPoint, Resting
  <2> QED
    BY <1>9, <2>1 DEF EClosing, AnchorExit
<1>10. CASE ERecover
  <2>1. Alone(Engine)
    BY <1>0, <1>10 DEF ERecover, OneActs, GuardPoint, Resting, Alone
  <2> QED
    BY <1>10, <2>1 DEF ERecover
<1>11. CASE ERecovering
  BY <1>11 DEF ERecovering, RecoveryStep, Drive
<1> QED
  BY <1>2, <1>3, <1>4, <1>5, <1>6, <1>7, <1>8, <1>9, <1>10, <1>11 DEF EngineStep

\* So is every journal step of the guard, which leaves it alone as long as the
\* executor drives.
LEMMA GuardFollows ==
    ASSUME Sound, GuardStep, faults' = faults
    PROVE  \/ at[Engine] \in Resting
              /\ \/ Drive(Guard) \/ Recover(Guard)
                 \/ Alone(Guard) /\ (Clean(Guard) \/ EnterRecovery(Guard))
                 \/ AnchorExit
           \/ UNCHANGED jvars
<1>0. /\ OneActs /\ Channel /\ Anchors /\ Undecided /\ EnginePoint /\ GuardPoint /\ IInv
      /\ Guard \in Procs /\ Procs = {Engine, Guard} /\ Engine # Guard
      /\ pcG \in GuardPhases
  BY SoundParts, ProcsAssumption DEF Sound, Solo
<1>1. at[Guard] \notin Resting => at[Engine] \in Resting
  BY <1>0 DEF IInv, LockInv, Exclusive
<1>2. at[Engine] \in Resting => Alone(Guard)
  BY <1>0 DEF Alone
<1>3. CASE \/ (\E h \in Helpers : GStop(h) \/ GStopFails(h)) \/ GReady \/ GPrepare
           \/ GResume \/ GServeFails \/ GFinish \/ GEngineLost \/ GCleaned \/ GRelease
           \/ GReportFails
  BY <1>3 DEF GStop, GStopFails, GReady, GPrepare, GResume, GServeFails, GFinish,
     GEngineLost, GCleaned, GRelease, GReportFails
<1>4. CASE GClean
  <2>1. at[Engine] \in Resting
    BY <1>0, <1>4 DEF GClean, OneActs, HandedOver
  <2>2. journal.status = "active" /\ journal.recovered = {}
    BY <1>0, <1>4 DEF GClean, Undecided
  <2> QED
    BY <1>2, <1>4, <2>1, <2>2 DEF GClean, Clean
<1>5. CASE GCleanStep
  <2>1. Drive(Guard) /\ at[Guard] \in {"issued", "sent"}
    BY <1>5 DEF GCleanStep, Drive, Send, SendLost, SendRejected, Confirm,
       ConfirmConflict, ConfirmFailed
  <2> QED
    BY <1>1, <2>1 DEF Resting
<1>6. CASE GDecide
  <2>1. CASE UNCHANGED jvars
    BY <2>1
  <2>2. CASE EnterRecovery(Guard) /\ (~normal \/ report.status = "failed")
    <3>1. ~HandedOver
      BY <1>0, <2>2 DEF HandedOver, Channel, Lot
    <3>2. at[Engine] \in Resting
      BY <1>0, <1>6, <3>1 DEF GDecide, OneActs
    <3> QED
      BY <1>2, <2>2, <3>2
  <2> QED
    BY <1>6, <2>1, <2>2 DEF GDecide
<1>7. CASE GRecovering
  <2>1. Drive(Guard) \/ Recover(Guard)
    BY <1>7 DEF GRecovering, RecoveryStep, Drive
  <2>2. at[Engine] \in Resting
    BY <1>0, <1>7 DEF GRecovering, OneActs
  <2> QED
    BY <2>1, <2>2
<1>8. CASE GErrorRecover
  <2>1. at[Engine] \in Resting
    BY <1>0, <1>8 DEF GErrorRecover, OneActs
  <2> QED
    BY <1>2, <1>8, <2>1 DEF GErrorRecover
<1>9. ASSUME AnchorGone, UNCHANGED <<fileVars, at, mem, cmd, scanVars, histVars, budget>>,
             at[Guard] \in Resting, at[Engine] \in Resting \/ anchor = "none"
      PROVE  (at[Engine] \in Resting /\ AnchorExit) \/ UNCHANGED jvars
  <2>1. CASE anchor = "none"
    BY <1>0, <1>9, <2>1 DEF AnchorGone, Anchors
  <2>2. CASE anchor # "none"
    BY <1>0, <1>9, <2>2 DEF AnchorExit
  <2> QED
    BY <2>1, <2>2
<1>10. CASE GReport \/ GErrorReport
  <2>1. at[Guard] \in Resting /\ (at[Engine] \in Resting \/ anchor = "none")
    BY <1>0, <1>10 DEF GReport, GErrorReport, GuardPoint, Resting, OneActs, HandedOver,
       Anchors
  <2>2. AnchorGone /\ UNCHANGED <<fileVars, at, mem, cmd, scanVars, histVars, budget>>
    BY <1>10 DEF GReport, GErrorReport, GLeave
  <2> QED
    BY <1>9, <2>1, <2>2
<1>11. CASE GError
  <2>1. at[Guard] \in Resting /\ at[Engine] \in Resting
    BY <1>0, <1>11 DEF GError, GuardPoint, OneActs
  <2>2. /\ AnchorGone \/ UNCHANGED treeVars
        /\ UNCHANGED <<fileVars, at, mem, cmd, scanVars, histVars, budget>>
    BY <1>11 DEF GError
  <2> QED
    BY <1>9, <2>1, <2>2
<1> QED
  BY <1>3, <1>4, <1>5, <1>6, <1>7, <1>8, <1>10, <1>11 DEF GuardStep

\* A kill is the protocol's, or it leaves the journal's variables alone.
LEMMA EnvironmentFollows ==
    ASSUME Sound, Environment, faults' = faults
    PROVE  \/ Crash(Engine) \/ Crash(Guard) \/ CrashOutside(Guard) \/ User
           \/ UNCHANGED jvars
<1>1. ~Fault
  BY SoundParts, NoFault
<1> QED
  BY <1>1 DEF Environment, ECrash, GDeadline, GCrash, EngineDies, HelperEnds

\* Without a fault, the two processes keep the invariant of the journal.
LEMMA JournalKept ==
    ASSUME Sound, [TransactionNext]_vars, faults' = faults PROVE IInv'
<1>1. Engine \in Procs /\ Guard \in Procs /\ IInv /\ TypeOK'
  BY SoundParts, TransactionTypes, TypesSplit DEF Sound, RestoreInv, TransactionTypeOK
<1>2. CASE Next \/ UNCHANGED jvars
  BY <1>1, <1>2, StepSafe
<1>3. CASE EngineStep
  BY <1>1, <1>2, <1>3, EngineFollows DEF Next
<1>4. CASE GuardStep
  BY <1>1, <1>2, <1>4, GuardFollows DEF Next
<1>5. CASE Environment
  BY <1>1, <1>2, <1>5, EnvironmentFollows DEF Next
<1>6. CASE UNCHANGED vars
  BY <1>2, <1>6
<1> QED
  BY <1>3, <1>4, <1>5, <1>6 DEF TransactionNext

-----------------------------------------------------------------------------
\* Solo is kept: one of the two acts on the journal.

LEMMA EngineOneActs ==
    ASSUME Sound, EngineStep, faults' = faults PROVE OneActs'
<1>0. /\ OneActs /\ Channel /\ Held /\ Ending /\ EnginePoint /\ EnginePoint' /\ ~Fault
      /\ pcG \in GuardPhases /\ pcE \in EnginePhases
  BY SoundParts, EnginePoints, NoFault DEF Sound, Solo, EnginePart
<1>1. ASSUME pcG' = pcG, pcG # "off" => pcG # "stopping" \/ pcE' = "ready",
             pcG \notin {"off", "stopping", "watch"}
                 => pcE' \in {"abandon", "failing", "finishing"},
             pcG # "off" => pcE' \notin {"closing", "recovering"},
             pcG # "off" /\ pcE' = "failing" => owned',
             pcE' \in Lot \cup {"admit"} => owned'
      PROVE  OneActs'
  BY <1>0, <1>1 DEF OneActs, EnginePoint, GuardPhases, Resting
<1>2. pcE \in Lot \cup {"admit"}
        => pcG \in {"off", "watch"} \/ HandedOver
  <2>1. pcE \in Lot \cup {"admit"} => at[Engine] \notin Resting
    BY <1>0 DEF EnginePoint, Lot, Commanding, Resting
  <2> QED
    BY <1>0, <2>1, DriverAlone DEF OneActs, Lot
<1>3. CASE EBegin \/ EOpen \/ EAttempt
  BY <1>0, <1>1, <1>3 DEF EBegin, EOpen, EAttempt, Held, Lot
<1>4. CASE ESpawn
  BY <1>4 DEF ESpawn, OneActs, Lot
<1>5. CASE EReady
  BY <1>0, <1>1, <1>5 DEF EReady, Held, AllHeld, Lot
<1>6. ASSUME pcG' = pcG, owned' = owned, pcE \in Lot \cup {"admit"}, pcE # "finished",
             pcE' \in Lot \cup {"failing"}
      PROVE  OneActs'
  <2>1. pcG \in {"off", "watch"} /\ owned
    BY <1>0, <1>2, <1>6 DEF HandedOver, OneActs
  <2> QED
    BY <1>1, <1>6, <2>1 DEF Lot
<1>7. CASE \E w \in Windows : EAdmit(w)
  <2>1. pcG \in {"off", "watch"} /\ owned /\ UNCHANGED <<pcE, pcG, owned>>
    BY <1>0, <1>2, <1>7 DEF EAdmit, HandedOver, OneActs
  <2> QED
    BY <1>0, <1>1, <1>7, <2>1 DEF EAdmit
<1>8. CASE (\E w \in Windows : EStage(w) \/ ESwap(w)) \/ EAdmitted \/ EBuild \/ EMark
           \/ EShow \/ EResolve \/ ECleanup
  BY <1>6, <1>8 DEF EStage, ESwap, EAdmitted, EBuild, EMark, EShow, EResolve, ECleanup,
     ECommand, Driving, Lot
<1>9. CASE ECommandStep
  <2>1. at[Engine] \in Commanding
    BY <1>9 DEF ECommandStep, Send, SendLost, SendRejected, Confirm, ConfirmConflict,
       ConfirmFailed, Commanding
  <2>2. pcE \in Lot /\ pcE # "finished"
    BY <1>0, <1>9, <2>1 DEF ECommandStep, EnginePoint, EnginePhases, Commanding, Lot
  <2> QED
    BY <1>6, <1>9, <2>2 DEF ECommandStep
<1>10. CASE EPrepare \/ EPrepared \/ (\E w \in Windows \cup {NoWindow} : EFocus(w))
            \/ EResume \/ EFinish
  BY <1>6, <1>10 DEF EPrepare, EPrepared, EFocus, EResume, EFinish, Ask, ECommand,
     Driving, Lot
<1>11. CASE EFinished \/ EComplete \/ EReceipt \/ ESuccess
  BY <1>0, <1>1, <1>11 DEF EFinished, EComplete, EReceipt, ESuccess, Ending, Lot
<1>12. CASE ERaise \/ EBoundaryConflict
  <2>1. /\ pcG' = pcG /\ owned' = owned /\ pcE' = "failing" /\ at[Engine] = "driving"
        /\ pcE \notin {"idle", "open", "ready"} /\ pcE # "finished"
    BY <1>12 DEF ERaise, EBoundaryConflict, BoundaryConflict, Awaiting
  <2>2. pcE \in {"attempt", "spawn", "complete"} \cup Lot \cup {"admit"}
    BY <1>0, <2>1 DEF EnginePoint, EnginePhases, Lot, RecoveryPoints
  <2>3. CASE pcE \in Lot \cup {"admit"}
    BY <1>6, <2>1, <2>3
  <2>4. CASE pcE \in {"attempt", "spawn", "complete"}
    BY <1>0, <1>1, <2>1, <2>4 DEF Held, Ending, Lot
  <2> QED
    BY <2>2, <2>3, <2>4
<1>13. CASE EAnswerFailed
  <2>1. pcE \in Awaiting /\ (answer # "none" \/ pcG = "off")
    BY <1>0, <1>13 DEF EAnswerFailed
  <2>2. CASE pcE # "finished"
    BY <1>6, <1>13, <2>1, <2>2 DEF EAnswerFailed, Awaiting, Lot
  <2>3. CASE pcE = "finished"
    BY <1>0, <1>1, <1>13, <2>1, <2>3 DEF EAnswerFailed, Channel, Lot
  <2> QED
    BY <2>2, <2>3
<1>14. CASE EReadyFailed \/ EAbandon \/ EFinishing
  BY <1>0, <1>1, <1>14 DEF EReadyFailed, EAbandon, EFinishing, Channel, OneActs, Lot
<1>15. CASE EFailing
  BY <1>0, <1>1, <1>15 DEF EFailing, OneActs, Lot
<1>16. CASE EClosing \/ ERecover \/ ERecovering
  BY <1>0, <1>1, <1>16 DEF EClosing, ERecover, ERecovering, OneActs, Lot
<1> QED
  BY <1>3, <1>4, <1>5, <1>7, <1>8, <1>9, <1>10, <1>11, <1>12, <1>13, <1>14, <1>15, <1>16
     DEF EngineStep

\* The guard takes the journal from an executor that rests.
LEMMA GuardOneActs ==
    ASSUME Sound, GuardStep, faults' = faults PROVE OneActs'
<1>0. /\ OneActs /\ Channel /\ Anchors /\ EnginePoint /\ GuardPoint /\ ~Fault
      /\ pcG # "off" /\ UNCHANGED <<pcE, left, owned, closed>>
      /\ \A h \in Helpers : helpers[h] # "gone"
      /\ pcE \in EnginePhases
  BY SoundParts, NoFault, GuardFrame DEF Sound, Solo
<1>1. at'[Engine] = at[Engine]
  BY GuardPoints, SoundParts, TwoProcs DEF Local
<1>2. pcE \notin {"closing", "recovering"} /\ (pcE = "failing" => owned)
      /\ (pcE \in Lot \cup {"admit"} => owned)
  BY <1>0 DEF OneActs
<1>3. EngineDead => at[Engine] \in Resting
  BY <1>0 DEF EngineDead, EnginePoint, Resting
<1>4. ASSUME pcG' \in {"off", "watch"} \/ at[Engine] \in Resting, pcG' # "stopping"
      PROVE  OneActs'
  BY <1>0, <1>1, <1>2, <1>4 DEF OneActs
<1>5. ASSUME HandedOver, UNCHANGED <<normal, prepared>>,
             pcG' \in {"clean", "decide", "resume", "report"}
      PROVE  OneActs'
  BY <1>0, <1>1, <1>2, <1>5 DEF OneActs, HandedOver
<1>6. CASE \E h \in Helpers : GStop(h)
  BY <1>0, <1>1, <1>2, <1>6 DEF GStop, OneActs
<1>7. CASE \E h \in Helpers : GStopFails(h)
  BY <1>0, <1>7 DEF GStopFails
<1>8. CASE GReady
  BY <1>0, <1>3, <1>4, <1>8 DEF GReady, Unheard, Channel, GPhase
<1>9. CASE GPrepare \/ GResume
  BY <1>4, <1>9 DEF GPrepare, GResume, Serving
<1>10. CASE GServeFails
  <2>1. at[Engine] \in Resting
    <3>1. ASSUME Serving("prepare"), anchor # "none" \/ prepared
          PROVE  at[Engine] \in Resting
      BY <1>0, <3>1 DEF Serving, Channel, Anchors
    <3>2. ~ResumeFails
      BY <1>0 DEF ResumeFails
    <3> QED
      BY <1>0, <1>3, <1>10, <3>1, <3>2 DEF GServeFails, Resuming
  <2> QED
    BY <1>4, <1>10, <2>1 DEF GServeFails, GPhase
<1>11. CASE GFinish
  <2>1. pcG = "watch" /\ request = "finish" /\ normal' = TRUE /\ prepared' = prepared
        /\ pcG' = "clean"
    BY <1>11 DEF GFinish, Serving, GPhase
  <2>2. pcE \in Finishing /\ pcE \notin {"complete", "receipt", "success", "open",
                                         "attempt", "spawn"}
    BY <1>0, <2>1, SoundParts DEF Channel, Ending, Held
  <2>3. CASE pcE = "finished"
    BY <1>0, <1>1, <1>2, <2>1, <2>3 DEF OneActs, HandedOver, Anchors
  <2>4. CASE pcE # "finished"
    BY <1>0, <1>2, <1>4, <2>1, <2>2, <2>4 DEF Finishing, EnginePoint, Resting
  <2> QED
    BY <2>3, <2>4
<1>12. CASE GEngineLost
  BY <1>0, <1>3, <1>4, <1>12 DEF GEngineLost, Unheard, Channel, GPhase
<1>13. CASE GClean
  BY <1>0, <1>4, <1>13 DEF GClean, GPhase, OneActs, HandedOver
<1>14. CASE GCleanStep
  <2>1. at[Guard] \in {"issued", "sent"}
    BY <1>14 DEF GCleanStep, Send, SendLost, SendRejected, Confirm, ConfirmConflict,
       ConfirmFailed
  <2>2. at[Engine] \in Resting
    BY <2>1, TwoProcs DEF Sound, IInv, LockInv, Exclusive, Resting
  <2> QED
    BY <1>4, <1>14, <2>2 DEF GCleanStep, GPhase
<1>15. CASE GCleaned \/ GReport \/ GReportFails \/ GRelease
  <2>1. at[Engine] \in Resting \/ HandedOver
    BY <1>0, <1>15 DEF GCleaned, GReport, GReportFails, GRelease, OneActs
  <2>2. CASE at[Engine] \in Resting
    BY <1>4, <1>15, <2>2 DEF GCleaned, GReport, GReportFails, GRelease, GPhase, GLeave
  <2>3. CASE HandedOver
    <3>1. ~Unheard /\ ~ResumeFails
      BY <1>0, <2>3 DEF HandedOver, Unheard, EngineDead, Channel, ResumeFails
    <3>2. CASE GCleaned \/ GRelease
      BY <1>5, <2>3, <3>1, <3>2 DEF GCleaned, GRelease, GPhase
    <3>3. CASE GReport
      BY <1>4, <3>3 DEF GReport, GLeave, GPhase
    <3> QED
      BY <1>15, <3>1, <3>2, <3>3 DEF GReportFails
  <2> QED
    BY <2>1, <2>2, <2>3
<1>16. CASE GDecide
  <2>1. CASE at[Engine] \in Resting
    BY <1>4, <1>16, <2>1 DEF GDecide, GPhase
  <2>2. CASE at[Engine] \notin Resting
    <3>1. HandedOver
      BY <1>0, <1>16, <2>2 DEF GDecide, OneActs
    <3>2. normal /\ report.status # "failed"
      BY <1>0, <3>1 DEF HandedOver, Channel, Lot
    <3> QED
      BY <1>5, <1>16, <3>1, <3>2 DEF GDecide, GPhase
  <2> QED
    BY <2>1, <2>2
<1>17. CASE GRecovering \/ GError \/ GErrorRecover \/ GErrorReport
  <2>1. at[Engine] \in Resting
    BY <1>0, <1>17 DEF GRecovering, GError, GErrorRecover, GErrorReport, OneActs
  <2> QED
    BY <1>4, <1>17, <2>1 DEF GRecovering, GError, GErrorRecover, GErrorReport, GPhase,
       GLeave
<1> QED
  BY <1>6, <1>7, <1>8, <1>9, <1>10, <1>11, <1>12, <1>13, <1>14, <1>15, <1>16, <1>17
     DEF GuardStep

LEMMA OneActsKept ==
    ASSUME Sound, [TransactionNext]_vars, faults' = faults PROVE OneActs'
<1>0. OneActs /\ ~Fault /\ Known0 /\ EnginePoint /\ at \in [Procs -> Points]
  BY SoundParts, NoFault DEF Sound, Solo
<1>1. CASE EngineStep
  BY <1>1, EngineOneActs
<1>2. CASE GuardStep
  BY <1>2, GuardOneActs
<1>3. CASE ECrash \/ GDeadline
  <2>1. /\ at'[Engine] = "off" /\ pcE' = "idle"
        /\ pcG' = pcG \/ pcG' = "clean"
    BY <1>0, <1>3, KillPoints DEF ECrash, GDeadline, GPhase, EngineDies
  <2> QED
    BY <1>0, <2>1 DEF OneActs, Resting, Lot
<1>4. CASE GCrash
  <2>1. pcG' = "off" /\ UNCHANGED <<pcE, owned>>
    BY <1>4 DEF GCrash, GPhase, GFrame
  <2> QED
    BY <1>0, <2>1 DEF OneActs
<1>5. CASE UNCHANGED vars \/ (User /\ UNCHANGED tvars)
  BY <1>0, <1>5, UserLocal DEF OneActs, HandedOver
<1> QED
  BY <1>0, <1>1, <1>2, <1>3, <1>4, <1>5 DEF TransactionNext, Environment, HelperEnds

-----------------------------------------------------------------------------
\* Solo is kept: what is on the socket.

LEMMA EngineChannel ==
    ASSUME Sound, EngineStep, faults' = faults PROVE Channel'
<1>0. /\ OneActs /\ OneActs' /\ Channel /\ Held /\ Ending /\ EnginePoint /\ EnginePoint'
      /\ pcG \in GuardPhases /\ pcE \in EnginePhases /\ ~Fault /\ ControlTypeOK
  BY SoundParts, EnginePoints, EngineOneActs, NoFault DEF Sound, Solo, EnginePart
<1>1. ASSUME UNCHANGED <<pcG, prepared, request, closed, report>>,
             answer' \in {answer, "none"},
             request = "finish" => pcE' \in Finishing,
             request = "prepare" /\ pcG # "off"
                 => pcE' = "prepared" \/ pcE' \in {"idle", "abandon", "failing", "finishing"},
             pcE' \notin {"prepared", "finished"},
             pcE' \in Lot \cup {"spawn", "ready", "admit"}
                 => pcE \in Lot \cup {"spawn", "ready", "admit"}
      PROVE  Channel'
  BY <1>0, <1>1 DEF Channel, EnginePoint, Resting
<1>2. CASE EBegin \/ EOpen
  BY <1>0, <1>1, <1>2 DEF EBegin, EOpen, Held, Finishing, Lot
<1>3. CASE EAttempt
  BY <1>0, <1>3 DEF EAttempt, Channel, Held, Finishing, Lot
<1>4. CASE ESpawn
  BY <1>0, <1>4 DEF ESpawn, Channel, Lot
<1>5. ASSUME UNCHANGED <<pcG, prepared, request, closed, report>>,
             answer' \in {answer, "none"},
             pcE \in Lot \cup {"admit", "ready"}, pcE \notin {"prepared", "finished"},
             pcE' \in Lot \cup {"failing", "admit"}, pcE' \notin {"prepared", "finished"}
      PROVE  Channel'
  <2>1. request # "finish"
    BY <1>0, <1>5 DEF Channel, Finishing, Lot
  <2>2. at[Engine] \notin Resting
    BY <1>0, <1>5 DEF EnginePoint, Lot, Commanding, Resting
  <2>3. request = "prepare" => pcG = "off"
    BY <1>0, <1>5, <2>2 DEF Channel
  <2> QED
    BY <1>1, <1>5, <2>1, <2>3
<1>6. CASE EReady \/ (\E w \in Windows : EAdmit(w) \/ EStage(w) \/ ESwap(w)) \/ EAdmitted
  BY <1>5, <1>6 DEF EReady, EAdmit, EStage, ESwap, EAdmitted, ECommand, Driving, Lot
<1>7. CASE EBuild \/ EMark \/ EShow \/ EResolve \/ ECleanup
           \/ (\E w \in Windows \cup {NoWindow} : EFocus(w))
  BY <1>5, <1>7 DEF EBuild, EMark, EShow, EResolve, ECleanup, EFocus, ECommand, Driving,
     Lot
<1>8. CASE ECommandStep
  <2>1. at[Engine] \in Commanding
    BY <1>8 DEF ECommandStep, Send, SendLost, SendRejected, Confirm, ConfirmConflict,
       ConfirmFailed, Commanding
  <2>2. pcE \in Lot /\ pcE \notin {"prepared", "finished"}
    BY <1>0, <1>8, <2>1 DEF ECommandStep, EnginePoint, EnginePhases, Commanding, Lot
  <2> QED
    BY <1>5, <1>8, <2>2 DEF ECommandStep, Lot
<1>9. CASE EPrepare \/ EFinish
  <2>1. /\ UNCHANGED <<pcG, prepared, closed, report>> /\ answer' = "none"
        /\ pcE \in Lot
        /\ \/ pcE' = "prepared" /\ request' = "prepare"
           \/ pcE' = "finished" /\ request' = "finish"
    BY <1>9 DEF EPrepare, EFinish, Ask, Driving, Lot
  <2> QED
    BY <1>0, <2>1 DEF Channel, Finishing, Lot
<1>10. CASE EPrepared
  <2>1. request # "prepare" \/ pcG = "off"
    BY <1>0, <1>10 DEF EPrepared, Driving, Channel
  <2> QED
    BY <1>0, <1>1, <1>10, <2>1 DEF EPrepared, Driving, Channel, Finishing, Lot
<1>11. CASE EResume
  <2>1. /\ UNCHANGED <<pcG, prepared, closed, report>> /\ answer' = "none"
        /\ pcE \in Lot /\ pcE' = "resumed" /\ request' = "resume"
    BY <1>11 DEF EResume, Ask, Driving, Lot
  <2> QED
    BY <1>0, <2>1 DEF Channel, Lot
<1>12. CASE EFinished \/ EComplete \/ EReceipt
  BY <1>0, <1>1, <1>12 DEF EFinished, EComplete, EReceipt, Ending, Finishing, Lot
<1>13. CASE ESuccess
  <2>1. pcG = "off" /\ pcE' = "idle" /\ UNCHANGED <<pcG, prepared, closed, request, answer>>
    BY <1>0, <1>13 DEF ESuccess, Ending
  <2> QED
    BY <1>0, <2>1 DEF Channel, Finishing, Lot
<1>14. CASE ERaise \/ EBoundaryConflict \/ EAnswerFailed
  BY <1>0, <1>1, <1>14 DEF ERaise, EBoundaryConflict, EAnswerFailed, Finishing, Lot
<1>15. CASE EReadyFailed
  <2>1. pcG = "off" /\ pcE = "ready" /\ pcE' = "abandon" /\ pcG' = pcG
        /\ UNCHANGED <<prepared, request, answer>>
    BY <1>0, <1>15 DEF EReadyFailed, Driving, Channel
  <2> QED
    BY <1>0, <2>1 DEF Channel, Finishing, Lot
<1>16. CASE EAbandon \/ EFinishing \/ EClosing \/ ERecover \/ ERecovering
  BY <1>0, <1>1, <1>16 DEF EAbandon, EFinishing, EClosing, ERecover, ERecovering, OneActs,
     Finishing, Lot
<1>17. CASE EFailing
  BY <1>0, <1>17 DEF EFailing, Channel, Finishing, Lot, OneActs, EnginePoint, Resting
<1> QED
  BY <1>2, <1>3, <1>4, <1>6, <1>7, <1>8, <1>9, <1>10, <1>11, <1>12, <1>13, <1>14, <1>15,
     <1>16, <1>17 DEF EngineStep

LEMMA GuardChannel ==
    ASSUME Sound, GuardStep, faults' = faults PROVE Channel'
<1>0. /\ OneActs /\ Channel /\ EnginePoint /\ ~Fault /\ ControlTypeOK
      /\ pcG # "off" /\ UNCHANGED <<pcE, left, owned, closed>>
      /\ pcE \in EnginePhases
  BY SoundParts, NoFault, GuardFrame DEF Sound, Solo
<1>1. at'[Engine] = at[Engine] /\ ~closed /\ answer # "failed"
  BY <1>0, GuardPoints, SoundParts, TwoProcs DEF Local, Channel
<1>2. (pcE \in Lot \cup {"spawn", "ready", "admit"}) /\ pcG \notin {"stopping", "watch"}
        => HandedOver
  <2>1. pcE \in Lot \cup {"ready", "admit"} => at[Engine] \notin Resting
    BY <1>0 DEF EnginePoint, Lot, Commanding, Resting
  <2>2. pcE # "spawn"
    BY <1>0, SoundParts DEF Held
  <2> QED
    BY <1>0, <2>1, <2>2, SoundParts, DriverAlone
<1>3. ASSUME UNCHANGED <<prepared, request, answer, report>>, pcG' # "watch"
      PROVE  Channel'
  BY <1>0, <1>1, <1>3 DEF Channel
<1>4. CASE (\E h \in Helpers : GStop(h) \/ GStopFails(h)) \/ GServeFails \/ GFinish
  BY <1>0, <1>3, <1>4 DEF GStop, GStopFails, GServeFails, GFinish, GPhase, GFrame
<1>5. CASE GReady
  <2>1. pcE \in {"ready", "idle"}
    BY <1>0, <1>5 DEF GReady, OneActs
  <2>2. UNCHANGED <<prepared, request, report, closed>> /\ answer' \in {answer, "ready"}
    BY <1>5 DEF GReady, GFrame, Answer
  <2> QED
    BY <1>0, <1>1, <2>1, <2>2 DEF Channel
<1>6. CASE GPrepare
  <2>1. /\ request = "prepare" /\ request' = "none" /\ answer' = "prepared"
        /\ prepared' = TRUE /\ UNCHANGED <<report, pcG>> /\ pcG = "watch"
    BY <1>6 DEF GPrepare, Serving, Answer, GFrame
  <2> QED
    BY <1>0, <1>1, <2>1 DEF Channel
<1>7. CASE GResume
  <2>1. /\ request = "resume" /\ request' = "none" /\ answer' = "resumed"
        /\ UNCHANGED <<report, pcG, prepared>> /\ pcG = "watch"
    BY <1>7 DEF GResume, Serving, Answer, GFrame
  <2> QED
    BY <1>0, <1>1, <2>1 DEF Channel
<1>8. CASE GEngineLost \/ GClean \/ GCleanStep \/ GCleaned \/ GDecide
  BY <1>0, <1>3, <1>8 DEF GEngineLost, GClean, GCleanStep, GCleaned, GDecide, GPhase, GFrame
<1>9. CASE GRecovering \/ GRelease \/ GReportFails \/ GError \/ GErrorRecover
  BY <1>0, <1>3, <1>9 DEF GRecovering, GRelease, GReportFails, GError, GErrorRecover,
     GPhase, GFrame
<1>10. CASE GReport
  <2>1. /\ UNCHANGED <<prepared, request>> /\ pcG' = "off" /\ answer' \in {answer, "finished"}
    BY <1>10 DEF GReport, GLeave, Answer, GPhase
  <2>2. pcE \in Lot \cup {"spawn", "ready", "admit"} => report' = report
    BY <1>2, <1>10 DEF GReport, HandedOver
  <2> QED
    BY <1>0, <1>1, <2>1, <2>2 DEF Channel
<1>11. CASE GErrorReport
  <2>1. /\ UNCHANGED <<prepared, request>> /\ pcG' = "off" /\ answer' = "failed"
    BY <1>11 DEF GErrorReport, GLeave, Answer, GPhase
  <2>2. at[Engine] \in Resting
    BY <1>0, <1>11 DEF GErrorReport, OneActs
  <2>3. pcE \notin Lot \cup {"spawn", "ready", "admit"}
    BY <1>0, <2>2 DEF EnginePoint, Lot, Commanding, Resting
  <2> QED
    BY <1>0, <1>1, <2>1, <2>3 DEF Channel, Lot
<1> QED
  BY <1>4, <1>5, <1>6, <1>7, <1>8, <1>9, <1>10, <1>11 DEF GuardStep

LEMMA ChannelKept ==
    ASSUME Sound, [TransactionNext]_vars, faults' = faults PROVE Channel'
<1>0. Channel /\ ~Fault /\ Known0 /\ EnginePoint /\ at \in [Procs -> Points]
  BY SoundParts, NoFault DEF Sound, Solo
<1>1. CASE EngineStep
  BY <1>1, EngineChannel
<1>2. CASE GuardStep
  BY <1>2, GuardChannel
<1>3. CASE ECrash \/ GDeadline
  <2>1. /\ at'[Engine] = "off" /\ pcE' = "idle"
        /\ pcG' = pcG \/ (pcG = "watch" /\ pcG' = "clean")
        /\ UNCHANGED <<channelVars, prepared, report>>
    BY <1>0, <1>3, KillPoints DEF ECrash, GDeadline, GPhase, EngineDies
  <2> QED
    BY <1>0, <2>1 DEF Channel, Resting, Lot, Finishing
<1>4. CASE GCrash
  <2>1. pcG' = "off" /\ UNCHANGED <<pcE, closed, report, prepared, request, answer>>
    BY <1>4 DEF GCrash, GPhase, GFrame
  <2> QED
    BY <1>0, <2>1 DEF Channel
<1>5. CASE UNCHANGED vars \/ (User /\ UNCHANGED tvars)
  BY <1>0, <1>5, UserLocal DEF Channel
<1> QED
  BY <1>0, <1>1, <1>2, <1>3, <1>4, <1>5 DEF TransactionNext, Environment, HelperEnds

-----------------------------------------------------------------------------
\* Solo is kept: the anchors.

\* Only the driver makes anchors; whatever else a command does, the focus is on
\* an anchor only while there is one.
LEMMA ApplyAnchors ==
    ASSUME NEW c \in Commands, Applicable(c), Apply(c), focus = "anchor" => anchor # "none"
    PROVE  /\ focus' = "anchor" => anchor' # "none"
           /\ anchor = "none" => anchor' = "none"
<1>0. c.op \in Ops /\ c.win # "anchor"
  BY WindowsAssumption DEF Commands, FocusNames
<1>1. CASE c.op \in {"kill", "clean"}
  BY <1>0, <1>1 DEF Apply, Applicable, FocusAfter
<1>2. CASE c.op = "swap"
  BY <1>0, <1>2 DEF Apply, Applicable, FocusAfter
<1>3. CASE c.op = "mark"
  BY <1>0, <1>3 DEF Apply, Applicable, FocusAfter
<1>4. CASE c.op \in {"stage", "return"}
  BY <1>0, <1>4 DEF Apply, Applicable, FocusAfter
<1>5. CASE c.op \in {"show", "focus", "refocus"}
  BY <1>0, <1>5 DEF Apply, Applicable, FocusAfter
<1> QED
  BY <1>0, <1>1, <1>2, <1>3, <1>4, <1>5 DEF Ops

LEMMA ProtocolAnchors ==
    ASSUME TypeOK, NEW p \in Procs, focus = "anchor" => anchor # "none",
           \/ Begin(p) \/ Drive(p) \/ Recover(p) \/ Clean(p) \/ EnterRecovery(p)
           \/ Crash(p) \/ CrashOutside(p) \/ AnchorExit \/ User \/ UNCHANGED treeVars
    PROVE  /\ focus' = "anchor" => anchor' # "none"
           /\ anchor = "none" /\ ~CreateAnchor(p) => anchor' = "none"
<1>0. cmd[p] \in Commands
  BY DEF TypeOK
<1>1. CASE UNCHANGED treeVars
  BY <1>1
<1>2. CASE Begin(p)
  BY <1>2, WindowsAssumption DEF Begin, FocusNames
<1>3. CASE Send(p) \/ SendLost(p) \/ SendRejected(p)
  <2>1. (Applicable(cmd[p]) /\ Apply(cmd[p])) \/ UNCHANGED treeVars
    BY <1>3 DEF Send, SendLost, SendRejected
  <2> QED
    BY <1>0, <1>1, <2>1, ApplyAnchors
<1>4. CASE CreateAnchor(p)
  BY <1>4 DEF CreateAnchor
<1>5. CASE AnchorExit
  BY <1>5 DEF AnchorExit, AnchorGone
<1>6. CASE User
  BY <1>6, WindowsAssumption DEF User, UserMove, UserClose, UserFocus, ForeignChange,
     FocusNames
<1>7. CASE Recover(p)
  <2>1. ASSUME NEW w \in Windows, ScanWindow(p, w) PROVE UNCHANGED treeVars
    BY <2>1 DEF ScanWindow, ScanGone, ScanBlame, ScanHome, ReturnIssue, ReturnRefused,
       RecoveryIssue
  <2>2. ASSUME ReturnConfirm(p) \/ ReturnConflict(p) \/ ReturnFailed(p) \/ ReturnClose(p)
        PROVE  UNCHANGED treeVars
    BY <2>2 DEF ReturnConfirm, ReturnConflict, ReturnFailed, ReturnClose
  <2>3. ASSUME RefocusIssue(p) \/ RefocusRefused(p) \/ RefocusConfirm(p)
               \/ RefocusConflict(p) \/ Verdict(p) \/ CloseReceipt(p)
        PROVE  UNCHANGED treeVars
    BY <2>3 DEF RefocusIssue, RefocusRefused, RefocusConfirm, RefocusConflict, Verdict,
       CloseReceipt, RecoveryIssue
  <2> QED
    BY <1>1, <1>7, <2>1, <2>2, <2>3 DEF Recover
<1>8. CASE Clean(p) \/ EnterRecovery(p) \/ Crash(p) \/ CrashOutside(p)
  <2>1. UNCHANGED treeVars
    BY <1>8 DEF Clean, CleanIssue, CleanRefused, EnterRecovery, RecoverSettled,
       RecoverEnter, RecoverUnavailable, Crash, CrashOutside, Intend, Refuse,
       RecordConflict
  <2> QED
    BY <1>1, <2>1
<1>9. CASE Drive(p)
  <2>1. ASSUME NEW w, NEW op, Issue(p, op, w) \/ IssueRefused(p)
        PROVE  UNCHANGED treeVars
    BY <2>1 DEF Issue, IssueRefused, Intend, Refuse, RecordConflict
  <2>2. ASSUME OpenReceipt(p) \/ (\E w \in Windows : Admit(p, w)) \/ Raise(p)
               \/ BoundaryConflict(p) \/ Complete(p) \/ CompleteReceipt(p)
        PROVE  UNCHANGED treeVars
    BY <2>2 DEF OpenReceipt, Admit, Raise, BoundaryConflict, RecordConflict, Complete,
       CompleteReceipt
  <2>3. ASSUME Confirm(p) \/ ConfirmConflict(p) \/ ConfirmFailed(p)
        PROVE  UNCHANGED treeVars
    BY <2>3 DEF Confirm, ConfirmConflict, ConfirmFailed
  <2> QED
    BY <1>1, <1>3, <1>4, <1>9, <2>1, <2>2, <2>3 DEF Drive
<1> QED
  BY <1>1, <1>2, <1>5, <1>6, <1>7, <1>8, <1>9

\* The executor makes them in one phase.
LEMMA OneBuild ==
    ASSUME TypeOK, EngineStep, anchor = "none", CreateAnchor(Engine) PROVE EBuild
<1>1. anchor' = "slot" /\ at' = at /\ at[Engine] = "driving"
  BY DEF CreateAnchor
<1>2. ASSUME Send(Engine) \/ SendLost(Engine) \/ SendRejected(Engine) PROVE FALSE
  BY <1>1, <1>2 DEF Send, SendLost, SendRejected
<1>3. UNCHANGED treeVars => FALSE
  BY <1>1
<1>4. CASE EBegin \/ EOpen \/ EAttempt \/ ESpawn \/ EReady \/ (\E w \in Windows : EAdmit(w))
  BY <1>1, <1>4 DEF EBegin, Begin, EOpen, OpenReceipt, EAttempt, ESpawn, EReady, EAdmit,
     Admit
<1>5. ASSUME NEW op, NEW w, NEW phase, ECommand(op, w, phase) PROVE FALSE
  BY <1>1, <1>5 DEF ECommand, Issue, IssueRefused, Intend, Refuse, RecordConflict
<1>6. CASE (\E w \in Windows : EStage(w) \/ ESwap(w)) \/ EMark \/ EShow \/ ECleanup
           \/ (\E w \in Windows \cup {NoWindow} : EFocus(w))
  BY <1>5, <1>6 DEF EStage, ESwap, EMark, EShow, ECleanup, EFocus
<1>7. CASE EAdmitted \/ EResolve \/ EPrepare \/ EPrepared \/ EResume \/ EFinish
           \/ EFinished \/ ESuccess \/ EAbandon \/ EFailing \/ EFinishing
  BY <1>3, <1>7 DEF EAdmitted, EResolve, EPrepare, EPrepared, EResume, EFinish, EFinished,
     ESuccess, EAbandon, EFailing, EFinishing, Ask
<1>8. CASE ECommandStep
  BY <1>1, <1>2, <1>8 DEF ECommandStep, Confirm, ConfirmConflict, ConfirmFailed
<1>9. CASE EComplete \/ EReceipt \/ ERaise \/ EBoundaryConflict \/ EAnswerFailed
           \/ EReadyFailed
  BY <1>3, <1>9 DEF EComplete, EReceipt, ERaise, EBoundaryConflict, EAnswerFailed,
     EReadyFailed, Complete, CompleteReceipt, Raise, BoundaryConflict, RecordConflict
<1>10. CASE EClosing \/ ERecover
  BY <1>1, <1>10 DEF EClosing, AnchorGone, ERecover, EnterRecovery, RecoverSettled,
     RecoverEnter, RecoverUnavailable
<1>11. CASE ERecovering
  <2>1. \A w \in Windows : ~ScanWindow(Engine, w)
    BY <1>1 DEF ScanWindow, ScanGone, ScanBlame, ScanHome, ReturnIssue, ReturnRefused
  <2>2. ~(ReturnConfirm(Engine) \/ ReturnConflict(Engine) \/ ReturnFailed(Engine)
          \/ ReturnClose(Engine) \/ RefocusIssue(Engine) \/ RefocusRefused(Engine))
    BY <1>1 DEF ReturnConfirm, ReturnConflict, ReturnFailed, ReturnClose, RefocusIssue,
       RefocusRefused, Returned, ScanDone
  <2>3. ~(RefocusConfirm(Engine) \/ RefocusConflict(Engine) \/ Verdict(Engine)
          \/ CloseReceipt(Engine))
    BY <1>1 DEF RefocusConfirm, RefocusConflict, Verdict, CloseReceipt, Refocused
  <2> QED
    BY <1>2, <1>11, <2>1, <2>2, <2>3 DEF ERecovering, RecoveryStep, Recover
<1> QED
  BY <1>4, <1>6, <1>7, <1>8, <1>9, <1>10, <1>11 DEF EngineStep

\* So no step makes one but that.
LEMMA StepAnchors ==
    ASSUME Sound, [TransactionNext]_vars, faults' = faults
    PROVE  /\ focus' = "anchor" => anchor' # "none"
           /\ anchor = "none" => anchor' = "none" \/ EBuild
<1>0. /\ TypeOK /\ Engine \in Procs /\ Guard \in Procs
      /\ focus = "anchor" => anchor # "none"
      /\ at[Guard] # "driving"
  BY SoundParts DEF Sound, Solo, Anchors, GuardPoint, GuardPhases, Commanding, Resting,
     RecoveryPoints
<1>1. CASE EngineStep
  BY <1>0, <1>1, EngineFollows, ProtocolAnchors, OneBuild
<1>2. CASE GuardStep
  BY <1>0, <1>2, GuardFollows, ProtocolAnchors DEF CreateAnchor
<1>3. CASE Environment
  <2>1. focus' = "anchor" => anchor' # "none"
    BY <1>0, <1>3, EnvironmentFollows, ProtocolAnchors
  <2>2. anchor' = anchor
    BY <1>3 DEF Environment, ECrash, GDeadline, GCrash, EngineDies, Crash, CrashOutside,
       HelperEnds, User, UserMove, UserClose, UserFocus, ForeignChange
  <2> QED
    BY <2>1, <2>2
<1>4. CASE UNCHANGED vars
  BY <1>0, <1>4
<1> QED
  BY <1>1, <1>2, <1>3, <1>4 DEF TransactionNext

\* The anchors are gone before the helpers run again, and none is made after.
LEMMA AnchorsKept ==
    ASSUME Sound, [TransactionNext]_vars, faults' = faults PROVE Anchors'
<1>0. /\ OneActs /\ Channel /\ Anchors /\ Held /\ Ending /\ EnginePoint /\ ~Fault
      /\ ControlTypeOK /\ Known0 /\ at \in [Procs -> Points]
      /\ focus' = "anchor" => anchor' # "none"
      /\ anchor = "none" => anchor' = "none" \/ EBuild
  BY SoundParts, NoFault, StepAnchors DEF Sound, Solo
<1>1. ASSUME UNCHANGED <<pcG, prepared, request>>, ~EBuild,
             pcE' \notin {"prepared", "focus"},
             pcE' \in HeldPhases \cup {"ready"} => pcE \in HeldPhases \cup {"ready"},
             pcE' \in {"resume", "resumed", "finished"}
                 => pcE \in {"focus", "resume", "resumed", "finished"}
      PROVE  Anchors'
  BY <1>0, <1>1 DEF Anchors
<1>2. CASE EBegin \/ EOpen \/ EAttempt \/ EReady \/ (\E w \in Windows : EAdmit(w))
  BY <1>1, <1>2 DEF EBegin, EOpen, EAttempt, EReady, EAdmit, EBuild, Driving, HeldPhases
<1>3. CASE ESpawn
  BY <1>0, <1>3 DEF ESpawn, Anchors
<1>4. CASE EBuild
  <2>1. UNCHANGED <<pcG, prepared, request>> /\ pcE = "stage" /\ pcE' = "mark"
    BY <1>4 DEF EBuild, Driving
  <2> QED
    BY <1>0, <2>1 DEF Anchors, HeldPhases
<1>5. CASE EAdmitted \/ (\E w \in Windows : EStage(w) \/ ESwap(w)) \/ EMark \/ EShow
           \/ EResolve \/ ECleanup \/ (\E w \in Windows \cup {NoWindow} : EFocus(w))
  BY <1>1, <1>5 DEF EAdmitted, EStage, ESwap, EMark, EShow, EResolve, ECleanup, EFocus,
     ECommand, EBuild, Driving, CreateAnchor, Issue, IssueRefused, Intend, Refuse,
     RecordConflict, HeldPhases
<1>6. CASE ECommandStep
  <2>1. at[Engine] \in Commanding /\ pcE' \in {pcE, "failing"}
        /\ UNCHANGED <<pcG, prepared, request>>
    BY <1>6 DEF ECommandStep, Send, SendLost, SendRejected, Confirm, ConfirmConflict,
       ConfirmFailed, Commanding
  <2>2. ~EBuild /\ pcE \notin {"prepared", "focus"}
    BY <1>0, <2>1 DEF EBuild, Driving, EnginePoint, Commanding
  <2> QED
    BY <1>1, <2>1, <2>2 DEF HeldPhases
<1>7. CASE EPrepare
  <2>1. /\ UNCHANGED <<pcG, prepared, anchor>> /\ pcE = "verify" /\ pcE' = "prepared"
        /\ anchor = "none"
    BY <1>7 DEF EPrepare, Ask, Driving
  <2> QED
    BY <1>0, <2>1 DEF Anchors, HeldPhases
<1>8. CASE EPrepared
  <2>1. /\ UNCHANGED <<pcG, prepared, anchor, request>> /\ pcE' = "focus"
        /\ answer = "prepared"
    BY <1>8 DEF EPrepared, Driving
  <2> QED
    BY <1>0, <2>1 DEF Anchors, Channel, HeldPhases
<1>9. CASE EResume \/ EFinish
  <2>1. /\ UNCHANGED <<pcG, prepared, anchor>> /\ pcE \in {"resume", "resumed"}
        /\ pcE' \in {"resumed", "finished"}
    BY <1>9 DEF EResume, EFinish, Ask, Driving
  <2> QED
    BY <1>0, <2>1 DEF Anchors, HeldPhases
<1>10. CASE EFinished \/ EComplete \/ EReceipt \/ ESuccess \/ ERaise \/ EBoundaryConflict
            \/ EAnswerFailed
  BY <1>1, <1>10 DEF EFinished, EComplete, EReceipt, ESuccess, ERaise, EBoundaryConflict,
     EAnswerFailed, EBuild, Driving, Awaiting, CreateAnchor, Raise, BoundaryConflict,
     RecordConflict, Fail, Goto, HeldPhases
<1>11. CASE EReadyFailed \/ EAbandon \/ EFinishing \/ EClosing \/ ERecover \/ ERecovering
  BY <1>1, <1>11 DEF EReadyFailed, EAbandon, EFinishing, EClosing, ERecover, ERecovering,
     EBuild, Driving, HeldPhases
<1>12. CASE EFailing
  <2>1. UNCHANGED <<pcG, prepared, anchor>> /\ pcE' \in {"finishing", "closing"}
    BY <1>12 DEF EFailing
  <2> QED
    BY <1>0, <2>1 DEF Anchors, HeldPhases
<1>13. CASE GuardStep
  <2>0. pcG # "off" /\ pcE' = pcE /\ ~EBuild
    BY <1>13, GuardFrame DEF EBuild, Driving
  <2>1. ASSUME UNCHANGED <<prepared, request>>, pcG' # "watch" \/ pcE # "prepared"
        PROVE  Anchors'
    BY <1>0, <2>0, <2>1 DEF Anchors
  <2>2. CASE (\E h \in Helpers : GStop(h) \/ GStopFails(h)) \/ GServeFails \/ GFinish
             \/ GEngineLost \/ GClean \/ GCleanStep \/ GCleaned \/ GDecide
    BY <2>1, <2>2 DEF GStop, GStopFails, GServeFails, GFinish, GEngineLost, GClean,
       GCleanStep, GCleaned, GDecide, GPhase
  <2>3. CASE GRecovering \/ GRelease \/ GReport \/ GReportFails \/ GError
             \/ GErrorRecover \/ GErrorReport
    BY <2>1, <2>3 DEF GRecovering, GRelease, GReport, GReportFails, GError, GErrorRecover,
       GErrorReport, GLeave, GPhase
  <2>4. CASE GReady
    BY <1>0, <2>1, <2>4 DEF GReady, OneActs
  <2>5. CASE GPrepare
    <3>1. /\ UNCHANGED <<anchor, focus>> /\ request = "prepare" /\ anchor = "none"
          /\ request' = "none"
      BY <2>5 DEF GPrepare, Serving
    <3>2. pcE \notin HeldPhases \cup {"ready"}
      BY <1>0, <3>1 DEF Held, Quiet, HeldPhases
    <3> QED
      BY <1>0, <2>0, <2>5, <3>1, <3>2 DEF Anchors, GPrepare
  <2>6. CASE GResume
    <3>1. UNCHANGED <<anchor, focus, prepared>> /\ request' = "none"
      BY <2>6 DEF GResume, Serving
    <3> QED
      BY <1>0, <2>0, <3>1 DEF Anchors
  <2> QED
    BY <1>13, <2>2, <2>3, <2>4, <2>5, <2>6 DEF GuardStep
<1>14. CASE ECrash \/ GDeadline \/ GCrash
  <2>1. /\ UNCHANGED <<anchor, focus, prepared, request>>
        /\ pcE' \in {pcE, "idle"} /\ pcG' \in {pcG, "off", "clean"}
        /\ pcG # "off" \/ pcG' = "off"
    <3>1. ASSUME EngineDies PROVE UNCHANGED <<anchor, focus>> /\ pcE' = "idle"
      BY <3>1 DEF EngineDies, Crash
    <3>2. CASE ECrash \/ GDeadline
      BY <3>1, <3>2 DEF ECrash, GDeadline, GPhase
    <3>3. CASE GCrash
      BY <3>3 DEF GCrash, GPhase, GFrame, Crash, CrashOutside
    <3> QED
      BY <1>14, <3>2, <3>3
  <2> QED
    BY <1>0, <2>1 DEF Anchors, HeldPhases
<1>15. CASE UNCHANGED vars \/ (User /\ UNCHANGED tvars)
  <2>1. UNCHANGED <<anchor, tvars>>
    BY <1>15 DEF User, UserMove, UserClose, UserFocus, ForeignChange
  <2> QED
    BY <1>0, <2>1 DEF Anchors
<1>16. CASE EngineStep
  BY <1>2, <1>3, <1>4, <1>5, <1>6, <1>7, <1>8, <1>9, <1>10, <1>11, <1>12, <1>16
     DEF EngineStep
<1> QED
  BY <1>0, <1>13, <1>14, <1>15, <1>16 DEF TransactionNext, Environment, HelperEnds

-----------------------------------------------------------------------------
\* Solo is kept: the journal of a driver.

\* A driver's step keeps the status of the journal and its windows, unless it
\* completes it.
LEMMA DriveKeeps ==
    ASSUME IInv, NEW p \in Procs, Drive(p) \/ Clean(p), ~Complete(p)
    PROVE  /\ journal'.status = journal.status /\ journal'.recovered = journal.recovered
           /\ journal.admitted \subseteq journal'.admitted
<1>0. /\ journal \in Journals /\ mem[p] \in Journals
      /\ at[p] \notin Resting => mem[p] = journal
  BY DEF IInv, LockInv, MemIsJournal, TypeOK
<1>1. ASSUME journal' = journal
      PROVE  /\ journal'.status = journal.status /\ journal'.recovered = journal.recovered
             /\ journal.admitted \subseteq journal'.admitted
  BY <1>1
<1>2. ASSUME NEW j \in Journals, NEW op, NEW w, j = journal, Intend(p, j, op, w) \/ Refuse(p, j)
      PROVE  /\ journal'.status = journal.status /\ journal'.recovered = journal.recovered
             /\ journal.admitted \subseteq journal'.admitted
  BY <1>2 DEF Intend, Publish, Refuse, RecordConflict, Journals
<1>3. CASE OpenReceipt(p) \/ CreateAnchor(p) \/ Raise(p) \/ CompleteReceipt(p)
           \/ Send(p) \/ SendLost(p) \/ SendRejected(p) \/ ConfirmFailed(p)
  BY <1>1, <1>3 DEF OpenReceipt, CreateAnchor, Raise, CompleteReceipt, Send, SendLost,
     SendRejected, ConfirmFailed
<1>4. CASE \E w \in Windows : Admit(p, w)
  BY <1>0, <1>4 DEF Admit, Publish, Journals, Resting
<1>5. CASE BoundaryConflict(p)
  BY <1>0, <1>5 DEF BoundaryConflict, RecordConflict, Journals, Resting
<1>6. ASSUME NEW op, NEW w, Issue(p, op, w) \/ IssueRefused(p)
      PROVE  /\ journal'.status = journal.status /\ journal'.recovered = journal.recovered
             /\ journal.admitted \subseteq journal'.admitted
  BY <1>0, <1>2, <1>6 DEF Issue, IssueRefused, Resting
<1>7. CASE Confirm(p) \/ ConfirmConflict(p)
  <2>1. mem[p] = journal
    BY <1>0, <1>7 DEF Confirm, ConfirmConflict, Resting
  <2>2. /\ Observed(p).status = mem[p].status /\ Observed(p).recovered = mem[p].recovered
        /\ Observed(p).admitted = mem[p].admitted
        /\ Confirmed(p).status = mem[p].status /\ Confirmed(p).recovered = mem[p].recovered
        /\ Confirmed(p).admitted = mem[p].admitted
        /\ [Observed(p) EXCEPT !.conflict = TRUE].status = mem[p].status
        /\ [Observed(p) EXCEPT !.conflict = TRUE].recovered = mem[p].recovered
        /\ [Observed(p) EXCEPT !.conflict = TRUE].admitted = mem[p].admitted
    BY <1>0 DEF Observed, Confirmed, Journals
  <2>3. journal' = Confirmed(p) \/ journal' = [Observed(p) EXCEPT !.conflict = TRUE]
    BY <1>7 DEF Confirm, ConfirmConflict, Publish
  <2> QED
    BY <2>1, <2>2, <2>3
<1>8. CASE Clean(p)
  BY <1>0, <1>2, <1>8 DEF Clean, CleanIssue, CleanRefused
<1> QED
  BY <1>3, <1>4, <1>5, <1>6, <1>7, <1>8 DEF Drive

\* The executor is in the middle of its attempt, or the guard watches.
LEMMA UndecidedKept ==
    ASSUME Sound, [TransactionNext]_vars, faults' = faults PROVE Undecided'
<1>0. /\ Undecided /\ OneActs /\ IInv /\ EnginePoint /\ Held /\ ~Fault /\ Known0
      /\ Engine \in Procs /\ Guard \in Procs
  BY SoundParts, NoFault DEF Sound, Solo
<1>1. ASSUME journal'.status = journal.status, journal'.recovered = journal.recovered,
             pcG' \in {"stopping", "watch", "clean"} \/ pcE' \in {"open", "attempt", "spawn"}
                 => \/ pcG \in {"stopping", "watch", "clean"}
                    \/ pcE \in {"open", "attempt", "spawn"}
      PROVE  Undecided'
  BY <1>0, <1>1 DEF Undecided
<1>2. CASE EBegin
  <2>1. journal'.status = "active" /\ journal'.recovered = {}
    BY <1>2 DEF EBegin, Begin, Publish, EmptyJournal
  <2> QED
    BY <2>1 DEF Undecided
<1>3. CASE EngineStep /\ ~EBegin
  <2>1. pcG' \in {"stopping", "watch", "clean"} \/ pcE' \in {"open", "attempt", "spawn"}
          => \/ pcG \in {"stopping", "watch", "clean"}
             \/ pcE \in {"open", "attempt", "spawn"}
    <3>1. CASE ESpawn
      BY <3>1 DEF ESpawn
    <3>2. pcE' \in {"open", "attempt", "spawn"} => pcE \in {"open", "attempt", "spawn"}
      <4>1. CASE EOpen \/ EAttempt \/ ESpawn \/ EReady
                 \/ (\E w \in Windows : EAdmit(w) \/ EStage(w) \/ ESwap(w))
        BY <4>1 DEF EOpen, EAttempt, ESpawn, EReady, EAdmit, EStage, ESwap, ECommand
      <4>2. CASE EAdmitted \/ EBuild \/ EMark \/ EShow \/ EResolve \/ ECleanup
                 \/ ECommandStep \/ EPrepare \/ EPrepared
                 \/ (\E w \in Windows \cup {NoWindow} : EFocus(w))
        BY <4>2 DEF EAdmitted, EBuild, EMark, EShow, EResolve, ECleanup, ECommandStep,
           EPrepare, EPrepared, EFocus, ECommand, Ask
      <4>3. CASE EResume \/ EFinish \/ EFinished \/ EComplete \/ EReceipt \/ ESuccess
                 \/ ERaise \/ EBoundaryConflict \/ EAnswerFailed \/ EReadyFailed
        BY <4>3 DEF EResume, EFinish, EFinished, EComplete, EReceipt, ESuccess, ERaise,
           EBoundaryConflict, EAnswerFailed, EReadyFailed, Ask
      <4>4. CASE EAbandon \/ EFailing \/ EFinishing \/ EClosing \/ ERecover \/ ERecovering
        BY <4>4 DEF EAbandon, EFailing, EFinishing, EClosing, ERecover, ERecovering
      <4> QED
        BY <1>3, <4>1, <4>2, <4>3, <4>4 DEF EngineStep
    <3> QED
      BY <1>3, <3>1, <3>2, EngineHelpers
  <2>2. EnginePoint' /\ Ending' /\ pcE' \in EnginePhases
    BY <1>0, <1>3, EnginePoints, EngineEnding, TransactionTypes, SoundParts
       DEF EnginePart, Sound, RestoreInv, TransactionTypeOK, TransactionNext
  <2>3. CASE Complete(Engine)
    <3>1. at'[Engine] = "completing"
      BY <2>3, SoundParts DEF Complete, Goto
    <3>2. pcE' = "receipt"
      BY <2>2, <3>1 DEF EnginePoint, EnginePhases, Commanding, RecoveryPoints
    <3> QED
      BY <2>2, <3>2 DEF Ending, Undecided
  <2>4. CASE Drive(Engine) /\ ~Complete(Engine)
    BY <1>0, <1>1, <2>1, <2>4, DriveKeeps
  <2>5. CASE UNCHANGED jvars
    BY <1>1, <2>1, <2>5
  <2>6. CASE pcE \in {"closing", "recovering"} /\ pcE' \in {"idle", "closing", "recovering"}
    BY <1>0, <1>3, <2>6, EngineHelpers DEF OneActs, Undecided, ESpawn
  <2>7. CASE Begin(Engine)
    <3>1. journal'.status = "active" /\ journal'.recovered = {}
      BY <2>7 DEF Begin, Publish, EmptyJournal
    <3> QED
      BY <3>1 DEF Undecided
  <2> QED
    BY <1>3, <2>3, <2>4, <2>5, <2>6, <2>7, EngineFollows
<1>4. CASE GuardStep
  <2>0. pcG # "off" /\ pcE' = pcE /\ pcE \notin {"open", "attempt", "spawn"}
    BY <1>0, <1>4, GuardFrame DEF Held
  <2>1. CASE (\E h \in Helpers : GStop(h) \/ GStopFails(h)) \/ GReady \/ GPrepare
             \/ GResume \/ GServeFails \/ GFinish \/ GEngineLost
    BY <1>1, <2>0, <2>1 DEF GStop, GStopFails, GReady, GPrepare, GResume, GServeFails,
       GFinish, GEngineLost, Serving
  <2>2. CASE GClean
    <3>1. Clean(Guard) /\ ~Complete(Guard)
      BY <1>0, <2>2 DEF GClean, Clean, Undecided, Complete
    <3> QED
      BY <1>0, <1>1, <2>0, <2>2, <3>1, DriveKeeps DEF GClean
  <2>3. CASE GCleanStep
    <3>1. Drive(Guard) /\ ~Complete(Guard)
      BY <2>3 DEF GCleanStep, Drive, Complete, Send, SendLost, SendRejected, Confirm,
         ConfirmConflict, ConfirmFailed
    <3> QED
      BY <1>0, <1>1, <2>0, <2>3, <3>1, DriveKeeps DEF GCleanStep
  <2>4. ASSUME pcG' \notin {"stopping", "watch", "clean"} PROVE Undecided'
    BY <2>0, <2>4 DEF Undecided
  <2>5. CASE GCleaned \/ GDecide \/ GRecovering \/ GRelease \/ GReport \/ GReportFails
             \/ GError \/ GErrorRecover \/ GErrorReport
    BY <2>4, <2>5 DEF GCleaned, GDecide, GRecovering, GRelease, GReport, GReportFails,
       GError, GErrorRecover, GErrorReport, GLeave, GPhase
  <2> QED
    BY <1>4, <2>1, <2>2, <2>3, <2>5 DEF GuardStep
<1>5. CASE ECrash \/ GDeadline \/ GCrash
  <2>1. /\ journal' = journal /\ pcE' \in {pcE, "idle"}
        /\ pcG' = pcG \/ pcG' = "off" \/ (pcG = "watch" /\ pcG' = "clean")
    BY <1>0, <1>5, KillPoints DEF ECrash, GDeadline, GCrash, EngineDies, GPhase, GFrame
  <2> QED
    BY <1>1, <2>1
<1>6. CASE UNCHANGED vars \/ (User /\ UNCHANGED tvars)
  BY <1>1, <1>6, UserLocal
<1> QED
  BY <1>0, <1>2, <1>3, <1>4, <1>5, <1>6 DEF TransactionNext, Environment, HelperEnds

\* The lot is admitted before its first window moves, and stays so.
LEMMA AdmittedKept ==
    ASSUME Sound, [TransactionNext]_vars, faults' = faults PROVE AllAdmitted'
<1>0. /\ AllAdmitted /\ IInv /\ EnginePoint /\ Known0 /\ ~Fault
      /\ Engine \in Procs /\ journal.admitted \subseteq Windows
      /\ journal'.admitted \subseteq Windows
  <2>1. TypeOK' /\ TypeOK
    BY TransactionTypes, SoundParts DEF Sound, RestoreInv, TransactionTypeOK
  <2> QED
    BY <2>1, SoundParts, NoFault DEF Sound, Solo, TypeOK, Journals
<1>1. ASSUME journal.admitted \subseteq journal'.admitted,
             pcE' \in Lot => pcE \in Lot, pcE' # "admit"
      PROVE  AllAdmitted'
  BY <1>0, <1>1 DEF AllAdmitted
<1>2. CASE EReady
  <2>1. pcE' = "admit" /\ left' = Windows
    BY <1>2 DEF EReady
  <2> QED
    BY <2>1 DEF AllAdmitted, Lot
<1>3. ASSUME NEW w \in Windows, EAdmit(w) PROVE AllAdmitted'
  <2>1. mem[Engine] = journal /\ mem[Engine] \in Journals
    BY <1>0, <1>3 DEF EAdmit, Admit, IInv, LockInv, MemIsJournal, Resting, TypeOK
  <2>2. journal'.admitted = journal.admitted \cup {w}
    BY <1>3, <2>1 DEF EAdmit, Admit, Publish, Journals
  <2>3. pcE = "admit" /\ pcE' = "admit" /\ left' = left \ {w}
    BY <1>3 DEF EAdmit
  <2> QED
    BY <1>0, <2>2, <2>3 DEF AllAdmitted, Lot
<1>4. CASE EAdmitted
  <2>1. pcE = "admit" /\ left = {} /\ pcE' = "stage" /\ journal' = journal
    BY <1>4 DEF EAdmitted
  <2> QED
    BY <1>0, <2>1 DEF AllAdmitted, Lot
<1>5. CASE EngineStep /\ ~EReady /\ ~EAdmitted /\ ~(\E w \in Windows : EAdmit(w))
  <2>1. pcE' # "admit" /\ (pcE' \in Lot => pcE \in Lot)
    <3>1. CASE EBegin \/ EOpen \/ EAttempt \/ ESpawn
               \/ (\E w \in Windows : EStage(w) \/ ESwap(w))
      BY <3>1 DEF EBegin, EOpen, EAttempt, ESpawn, EStage, ESwap, ECommand, Driving, Lot
    <3>2. CASE EBuild \/ EMark \/ EShow \/ EResolve \/ ECleanup
               \/ EPrepare \/ EPrepared \/ (\E w \in Windows \cup {NoWindow} : EFocus(w))
      BY <3>2 DEF EBuild, EMark, EShow, EResolve, ECleanup, EPrepare, EPrepared, EFocus,
         ECommand, Ask, Driving, Lot
    <3>3. CASE ECommandStep
      <4>1. at[Engine] \in Commanding /\ pcE' \in {pcE, "failing"}
        BY <3>3 DEF ECommandStep, Send, SendLost, SendRejected, Confirm, ConfirmConflict,
           ConfirmFailed, Commanding
      <4>2. pcE # "admit"
        BY <1>0, <4>1 DEF EnginePoint, Commanding
      <4> QED
        BY <4>1, <4>2 DEF Lot
    <3>4. CASE EResume \/ EFinish \/ EFinished \/ EComplete \/ EReceipt \/ ESuccess
               \/ ERaise \/ EBoundaryConflict \/ EAnswerFailed \/ EReadyFailed
      BY <3>4 DEF EResume, EFinish, EFinished, EComplete, EReceipt, ESuccess, ERaise,
         EBoundaryConflict, EAnswerFailed, EReadyFailed, Ask, Driving, Lot
    <3>5. CASE EAbandon \/ EFailing \/ EFinishing \/ EClosing \/ ERecover \/ ERecovering
      BY <3>5 DEF EAbandon, EFailing, EFinishing, EClosing, ERecover, ERecovering, Lot
    <3> QED
      BY <1>5, <3>1, <3>2, <3>3, <3>4, <3>5 DEF EngineStep
  <2>2. CASE pcE' \notin Lot
    BY <2>1, <2>2 DEF AllAdmitted
  <2>3. CASE pcE' \in Lot
    <3>1. journal.admitted = Windows /\ pcE \in Lot
      BY <1>0, <2>1, <2>3 DEF AllAdmitted
    <3>2. ~Begin(Engine) /\ pcE \notin {"closing", "recovering"}
      BY <1>0, <3>1 DEF Begin, EnginePoint, Lot, Commanding
    <3>3. ~Complete(Engine)
      <4>1. Complete(Engine) => at'[Engine] = "completing"
        BY SoundParts DEF Complete, Goto
      <4>2. EnginePoint'
        BY <1>0, <1>5, EnginePoints DEF EnginePart
      <4> QED
        BY <2>3, <4>1, <4>2 DEF EnginePoint, Lot, Commanding
    <3>4. CASE Drive(Engine)
      BY <1>0, <1>1, <2>1, <3>3, <3>4, DriveKeeps
    <3>5. CASE UNCHANGED jvars
      BY <1>1, <2>1, <3>5
    <3> QED
      BY <1>5, <3>2, <3>4, <3>5, EngineFollows
  <2> QED
    BY <2>2, <2>3
<1>6. ASSUME pcE' = pcE, left' = left, journal' = journal PROVE AllAdmitted'
  BY <1>0, <1>6 DEF AllAdmitted
<1>7. CASE GuardStep
  <2>1. pcE' = pcE /\ left' = left
    BY <1>7, GuardFrame
  <2>2. CASE at[Engine] \in Resting
    <3>1. pcE \notin Lot \cup {"admit"}
      BY <1>0, <2>2 DEF EnginePoint, Lot, Commanding, Resting
    <3> QED
      BY <2>1, <3>1 DEF AllAdmitted
  <2>3. CASE UNCHANGED jvars
    BY <1>6, <2>1, <2>3
  <2> QED
    BY <1>7, <2>2, <2>3, GuardFollows
<1>8. CASE ECrash \/ GDeadline
  BY <1>8 DEF ECrash, GDeadline, EngineDies, AllAdmitted, Lot
<1>9. CASE GCrash
  <2>1. journal' = journal /\ pcE' = pcE /\ left' = left
    BY <1>0, <1>9, KillPoints DEF GCrash, GFrame
  <2> QED
    BY <1>6, <2>1
<1>10. CASE UNCHANGED vars \/ (User /\ UNCHANGED tvars)
  BY <1>6, <1>10, UserLocal
<1> QED
  BY <1>0, <1>2, <1>3, <1>4, <1>5, <1>7, <1>8, <1>9, <1>10
     DEF TransactionNext, Environment, HelperEnds

\* Without a fault no helper ends.
LEMMA NoneGone ==
    ASSUME Sound, [TransactionNext]_vars, faults' = faults
    PROVE  \A h \in Helpers : helpers'[h] # "gone"
<1>0. /\ ~Fault /\ ControlTypeOK /\ Obligations
      /\ \A h \in Helpers : helpers[h] # "gone"
  BY SoundParts, NoFault DEF Sound, Solo, RestoreInv
<1>1. CASE EngineStep
  BY <1>0, <1>1, EngineHelpers DEF ESpawn
<1>2. ASSUME NEW failed, Resume(failed) PROVE \A h \in Helpers : helpers'[h] # "gone"
  BY <1>0, <1>2, ResumeKeeps
<1>3. CASE GuardStep
  <2>1. CASE \E h \in Helpers : GStop(h) \/ GStopFails(h)
    BY <1>0, <2>1 DEF GStop, GStopFails, ControlTypeOK
  <2>2. CASE GResume \/ GReport \/ GErrorReport \/ GRelease \/ GError \/ GServeFails
    BY <1>0, <1>2, <2>2 DEF GResume, GReport, GErrorReport, GRelease, GError, GServeFails,
       GLeave, Resuming, ResumeFails
  <2>3. CASE GReady \/ GPrepare \/ GFinish \/ GEngineLost \/ GClean \/ GCleanStep
             \/ GCleaned \/ GDecide \/ GRecovering \/ GReportFails \/ GErrorRecover
    BY <1>0, <2>3 DEF GReady, GPrepare, GFinish, GEngineLost, GClean, GCleanStep,
       GCleaned, GDecide, GRecovering, GReportFails, GErrorRecover
  <2> QED
    BY <1>3, <2>1, <2>2, <2>3 DEF GuardStep
<1>4. CASE Environment \/ UNCHANGED vars
  BY <1>0, <1>4 DEF Environment, ECrash, GDeadline, GCrash, HelperEnds
<1> QED
  BY <1>1, <1>3, <1>4 DEF TransactionNext

LEMMA SoloInit == TransactionInit => SoloInv
<1> SUFFICES ASSUME TransactionInit PROVE IInv /\ Solo
  BY DEF SoloInv
<1>1. IInv
  BY InitSafe DEF TransactionInit
<1>2. focus # "anchor" /\ pcE = "idle" /\ pcG = "off"
  BY WindowsAssumption DEF TransactionInit, Init, FocusNames
<1>3. OneActs /\ Channel /\ AllAdmitted
  BY <1>2 DEF TransactionInit, OneActs, Channel, AllAdmitted, Lot
<1>4. Anchors /\ Undecided
  BY <1>2 DEF TransactionInit, Anchors, Undecided, HeldPhases
<1>5. \A h \in Helpers : helpers[h] # "gone"
  BY DEF TransactionInit
<1> QED
  BY <1>1, <1>3, <1>4, <1>5 DEF Solo

LEMMA SoloStep == RestoreInv /\ SoloInv /\ [TransactionNext]_vars => SoloInv'
<1> SUFFICES ASSUME RestoreInv, SoloInv, [TransactionNext]_vars, faults' = MaxFaults
             PROVE  IInv' /\ Solo'
  BY DEF SoloInv
<1>1. ControlTypeOK
  BY TypesSplit DEF RestoreInv
<1>2. faults' = faults
  BY <1>1, FaultsFall, FaultsAssumption DEF Fault, ControlTypeOK
<1>3. Sound
  BY <1>2 DEF Sound, SoloInv
<1>4. IInv' /\ OneActs' /\ Channel' /\ Anchors'
  BY <1>2, <1>3, JournalKept, OneActsKept, ChannelKept, AnchorsKept
<1>5. Undecided' /\ AllAdmitted' /\ \A h \in Helpers : helpers'[h] # "gone"
  BY <1>2, <1>3, UndecidedKept, AdmittedKept, NoneGone
<1> QED
  BY <1>4, <1>5 DEF Solo

\* Until the first fault, two processes that may both be killed keep the
\* journal as one process at a time does: the lock's exclusion, and with it
\* every invariant of RecoveryJournal, holds of the executor and its guard
\* although the guard inherits the lock (executor.py, guard.py).
THEOREM JournalIsKept == TransactionSpec => [](faults = MaxFaults => IInv)
<1>1. RestoreInv /\ SoloInv => (faults = MaxFaults => IInv)
  BY DEF SoloInv
<1> QED
  BY <1>1, InitRestore, RestoreStep, SoloInit, SoloStep, PTL DEF TransactionSpec

\* The executor and the guard implement the journal protocol, step by step,
\* when no handshake times out, whichever of them is killed: each step of theirs
\* is a step of RecoveryJournal or leaves its variables alone.
THEOREM ProtocolIsFollowed == MaxFaults = 0 => (TransactionSpec => Protocol)
<1> SUFFICES ASSUME MaxFaults = 0 PROVE TransactionSpec => Protocol
  OBVIOUS
<1>1. TransactionInit => Init
  BY DEF TransactionInit
<1>2. ASSUME RestoreInv, RestoreInv', SoloInv, [TransactionNext]_vars
      PROVE  [Next]_jvars
  <2>1. faults = MaxFaults /\ faults' = faults
    BY <1>2 DEF RestoreInv, TransactionTypeOK
  <2>2. Sound /\ Engine \in Procs /\ Guard \in Procs
    BY <1>2, <2>1, TwoProcs DEF Sound, SoloInv
  <2>3. CASE EngineStep
    BY <2>1, <2>2, <2>3, EngineFollows DEF Next
  <2>4. CASE GuardStep
    BY <2>1, <2>2, <2>4, GuardFollows DEF Next
  <2>5. CASE Environment
    BY <2>1, <2>2, <2>5, EnvironmentFollows DEF Next
  <2> QED
    BY <1>2, <2>3, <2>4, <2>5 DEF TransactionNext
<1> QED
  BY <1>1, <1>2, InitRestore, RestoreStep, SoloInit, SoloStep, PTL
     DEF TransactionSpec, Protocol, Spec

\* What the journal promises is therefore kept by the executor and the guard
\* together: when the executor is killed at any point, the guard that takes over
\* only gives windows back, and the next apply waits for its published claim.
THEOREM RestoresKeepThePromise == MaxFaults = 0 => (TransactionSpec => PromiseKept)
<1> SUFFICES ASSUME MaxFaults = 0 PROVE TransactionSpec => PromiseKept
  OBVIOUS
<1>1. TransactionSpec => Spec
  BY ProtocolIsFollowed DEF Protocol
<1> QED
  BY <1>1, PromiseIsKept, PTL

-----------------------------------------------------------------------------
\* What the user has put elsewhere stays there, though two recover at once.

\* No copy of the journal expects a window where only the user puts one, and
\* no command that moves a window the user has put elsewhere is about to be sent.
Expecting(j) == \A w \in Windows : j.expected[w] # "elsewhere"
Expected == Expecting(journal) /\ \A p \in Procs : Expecting(mem[p])
Untouched ==
    \A p \in Procs : at[p] = "issued" /\ Moves(cmd[p]) => cmd[p].win \notin parked

PlacementInv == UserPlacementWins /\ Expected /\ Untouched

\* A window that is where a journal expects it was not put elsewhere.
LEMMA WhereExpected ==
    ASSUME PlacementInv, NEW j, Expecting(j), NEW w \in Windows, InPlace(j, w)
    PROVE  w \notin parked
BY DEF PlacementInv, UserPlacementWins, Expecting, InPlace

\* A step of p that moves no window.
LEMMA PlacesKept ==
    ASSUME PlacementInv, NEW p \in Procs, Local(p), UNCHANGED <<loc, parked>>,
           Expecting(journal'), Expecting(mem'[p]),
           at'[p] = "issued" /\ Moves(cmd'[p]) => cmd'[p].win \notin parked
    PROVE  PlacementInv'
<1>1. UserPlacementWins'
  BY DEF PlacementInv, UserPlacementWins
<1>2. Expected'
  BY DEF PlacementInv, Expected, Local
<1>3. Untouched'
  BY DEF PlacementInv, Untouched, Local
<1> QED
  BY <1>1, <1>2, <1>3 DEF PlacementInv

\* A stop of p moves none.
LEMMA StopPlaces ==
    ASSUME PlacementInv, NEW p \in Procs, TypeOK, Local(p), UNCHANGED <<loc, parked>>,
           Expecting(journal'), Forget(p), at'[p] \in Resting
    PROVE  PlacementInv'
<1>1. mem'[p] = EmptyJournal
  BY DEF Forget, TypeOK
<1>2. Expecting(mem'[p])
  BY <1>1 DEF EmptyJournal, Expecting
<1> QED
  BY <1>2, PlacesKept DEF Resting

\* What p expects, and what is expected after a change of another field.
LEMMA PlacesKnown ==
    ASSUME PlacementInv, NEW p, Steps(p)
    PROVE  /\ p \in Procs /\ TypeOK /\ mem[p] \in Journals /\ journal \in Journals
           /\ mem \in [Procs -> Journals] /\ at \in [Procs -> Points]
           /\ cmd \in [Procs -> Commands]
           /\ Expecting(mem[p]) /\ Expecting(journal)
           /\ at[p] = "issued" /\ Moves(cmd[p]) => cmd[p].win \notin parked
BY DEF Steps, TypeOK, PlacementInv, Expected, Untouched

\* Opening and closing.
LEMMA DrivePlaces ==
    ASSUME PlacementInv, NEW p, Steps(p),
           \/ OpenReceipt(p) \/ (\E w \in Windows : Admit(p, w)) \/ CreateAnchor(p)
           \/ Raise(p) \/ BoundaryConflict(p) \/ Complete(p) \/ CompleteReceipt(p)
           \/ Crash(p)
    PROVE  PlacementInv'
<1>0. /\ p \in Procs /\ TypeOK /\ mem[p] \in Journals /\ journal \in Journals
      /\ mem \in [Procs -> Journals] /\ at \in [Procs -> Points] /\ Local(p)
      /\ cmd \in [Procs -> Commands]
      /\ Expecting(mem[p]) /\ Expecting(journal)
      /\ at[p] = "issued" /\ Moves(cmd[p]) => cmd[p].win \notin parked
  BY PlacesKnown, DriveLocal
<1>1. CASE OpenReceipt(p) \/ CreateAnchor(p)
  BY <1>0, <1>1, PlacesKept DEF OpenReceipt, CreateAnchor, Goto
<1>2. ASSUME NEW w \in Windows, Admit(p, w) PROVE PlacementInv'
  <2>1. PICK j : /\ j = [mem[p] EXCEPT !.admitted = @ \cup {w}, !.expected[w] = "home"]
                 /\ Publish(p, j)
    BY <1>2 DEF Admit
  <2>2. j.expected = [mem[p].expected EXCEPT ![w] = "home"]
    BY <1>0, <2>1 DEF Journals
  <2>3. Expecting(j)
    BY <1>0, <2>2 DEF Expecting, Journals
  <2>4. journal' = j /\ mem'[p] = j /\ at' = at /\ UNCHANGED <<loc, parked>>
        /\ at[p] = "driving"
    BY <1>0, <1>2, <2>1 DEF Admit, Publish
  <2> QED
    BY <1>0, <2>3, <2>4, PlacesKept
<1>3. CASE Raise(p) \/ Crash(p)
  BY <1>0, <1>3, StopPlaces DEF Raise, Crash, Fail, Exit, Goto, Resting
<1>4. CASE BoundaryConflict(p)
  <2>1. PICK j : j = [mem[p] EXCEPT !.conflict = TRUE] /\ journal' = j
    BY <1>4 DEF BoundaryConflict, RecordConflict
  <2>2. Expecting(j)
    BY <1>0, <2>1 DEF Expecting, Journals
  <2> QED
    BY <1>0, <1>4, <2>1, <2>2, StopPlaces
       DEF BoundaryConflict, RecordConflict, Fail, Goto, Resting
<1>5. CASE Complete(p)
  <2>1. PICK j : j = [mem[p] EXCEPT !.status = "complete"] /\ Publish(p, j)
    BY <1>5 DEF Complete
  <2>2. Expecting(j)
    BY <1>0, <2>1 DEF Expecting, Journals
  <2>3. journal' = j /\ mem'[p] = j /\ at'[p] = "completing" /\ UNCHANGED <<loc, parked>>
    BY <1>0, <1>5, <2>1 DEF Complete, Publish, Goto
  <2> QED
    BY <1>0, <2>2, <2>3, PlacesKept
<1>6. CASE CompleteReceipt(p)
  BY <1>0, <1>6, StopPlaces DEF CompleteReceipt, Exit, Goto, Resting
<1> QED
  BY <1>1, <1>2, <1>3, <1>4, <1>5, <1>6

\* A command is announced for a window that is in its place only.
LEMMA IntendPlaces ==
    ASSUME PlacementInv, NEW p, Steps(p), NEW j \in Journals, j.tx = journal.tx,
           Expecting(j), NEW op, NEW w, Intend(p, j, op, w),
           op \in {"stage", "swap", "return"} => w \notin parked
    PROVE  PlacementInv'
<1>0. /\ p \in Procs /\ mem \in [Procs -> Journals] /\ at \in [Procs -> Points]
      /\ cmd \in [Procs -> Commands] /\ Local(p)
  BY PlacesKnown, IntendLocal
<1>1. PICK k : /\ k = [j EXCEPT !.pending = j.admitted, !.focusPending = TRUE,
                                !.operations = @ + 1]
               /\ Publish(p, k)
  BY DEF Intend
<1>2. Expecting(k)
  BY <1>1 DEF Expecting, Journals
<1>3. PICK f : f = FocusAfter(op, w)
  OBVIOUS
<1>4. cmd' = [cmd EXCEPT ![p] = [op |-> op, win |-> w, focus |-> f]]
  BY <1>3 DEF Intend
<1>5. /\ journal' = k /\ mem'[p] = k /\ cmd'[p].op = op /\ cmd'[p].win = w
      /\ UNCHANGED <<loc, parked>>
  BY <1>0, <1>1, <1>4 DEF Intend, Publish
<1> QED
  BY <1>0, <1>2, <1>5, PlacesKept DEF Moves

\* A refusal.
LEMMA RefusePlaces ==
    ASSUME PlacementInv, NEW p, Steps(p), NEW j \in Journals, j.tx = journal.tx,
           Expecting(j), Refuse(p, j)
    PROVE  PlacementInv'
<1>0. p \in Procs /\ TypeOK /\ Local(p)
  BY PlacesKnown, RefuseLocal
<1>1. journal' = j \/ journal' = [j EXCEPT !.conflict = TRUE]
  BY DEF Refuse, RecordConflict
<1>2. Expecting(journal')
  BY <1>1 DEF Expecting, Journals
<1>3. Fail(p) /\ UNCHANGED <<loc, parked>>
  BY DEF Refuse, RecordConflict
<1> QED
  BY <1>0, <1>2, <1>3, StopPlaces, RefuseLocal DEF Fail, Resting

\* The commands of a driver, and of the guard on the anchors.
LEMMA IssuePlaces ==
    ASSUME PlacementInv, NEW p, Steps(p)
    PROVE  /\ \A op, w : /\ Issue(p, op, w)
                         /\ op \in {"stage", "swap", "return"} => w \notin parked
                         => PlacementInv'
           /\ IssueRefused(p) \/ CleanIssue(p) \/ CleanRefused(p) => PlacementInv'
<1>0. /\ mem[p] \in Journals /\ journal \in Journals /\ Expecting(mem[p])
      /\ Expecting(journal)
  BY PlacesKnown
<1>1. ASSUME NEW op, NEW w, Issue(p, op, w),
             op \in {"stage", "swap", "return"} => w \notin parked
      PROVE  PlacementInv'
  BY <1>0, <1>1, IntendPlaces DEF Issue, Steps, Resting
<1>2. CASE IssueRefused(p)
  BY <1>0, <1>2, RefusePlaces DEF IssueRefused, Steps, Resting
<1>3. CASE CleanIssue(p)
  BY <1>0, <1>3, IntendPlaces DEF CleanIssue
<1>4. CASE CleanRefused(p)
  BY <1>0, <1>4, RefusePlaces DEF CleanRefused
<1> QED
  BY <1>1, <1>2, <1>3, <1>4

\* Sway moves the window of the command, and nobody put that one elsewhere.
LEMMA SendPlaces ==
    ASSUME PlacementInv, NEW p, Steps(p), Send(p) \/ SendLost(p) \/ SendRejected(p)
    PROVE  PlacementInv'
<1>0. /\ p \in Procs /\ TypeOK /\ mem \in [Procs -> Journals] /\ Local(p)
      /\ cmd \in [Procs -> Commands] /\ at \in [Procs -> Points]
      /\ Expecting(mem[p]) /\ Expecting(journal)
      /\ at[p] = "issued" /\ (Moves(cmd[p]) => cmd[p].win \notin parked)
      /\ UNCHANGED <<fileVars, parked>> /\ at'[p] # "issued"
  BY PlacesKnown, SendLocal DEF Send, SendLost, SendRejected
<1>1. loc' = loc \/ loc' = LocAfter(cmd[p], loc)
  BY DEF Send, SendLost, SendRejected, Apply
<1>2. UserPlacementWins'
  <2>1. loc \in [Windows -> Places]
    BY <1>0 DEF TypeOK
  <2>2. ASSUME NEW w \in parked PROVE loc'[w] = loc[w] /\ w \in Windows
    BY <1>0, <1>1, <2>1, <2>2 DEF LocAfter, TypeOK
  <2> QED
    BY <1>0, <2>2 DEF UserPlacementWins, PlacementInv
<1>3. Expecting(mem'[p])
  <2>1. CASE mem'[p] = mem[p]
    BY <1>0, <2>1
  <2>2. CASE mem'[p] = EmptyJournal
    BY <2>2 DEF EmptyJournal, Expecting
  <2> QED
    BY <1>0, <2>1, <2>2 DEF Send, SendLost, SendRejected, Blamed, Fail, Forget
<1>4. Expected'
  BY <1>0, <1>3 DEF PlacementInv, Expected, Local
<1>5. Untouched'
  BY <1>0 DEF PlacementInv, Untouched, Local
<1> QED
  BY <1>2, <1>4, <1>5 DEF PlacementInv

\* The places that a command leads to are the transaction's.
LEMMA AfterExpected ==
    ASSUME NEW j \in Journals, Expecting(j), NEW c
    PROVE  \A w \in Windows : LocAfter(c, j.expected)[w] # "elsewhere"
<1>1. j.expected \in [Windows -> Places]
  BY DEF Journals
<1>2. Moves(c) => Destination(c.op) # "elsewhere"
  BY DEF Moves, Destination
<1> QED
  BY <1>1, <1>2 DEF LocAfter, Expecting

\* A driver observes what its command did.
LEMMA ConfirmPlaces ==
    ASSUME PlacementInv, NEW p, Steps(p), Confirm(p) \/ ConfirmConflict(p) \/ ConfirmFailed(p)
    PROVE  PlacementInv'
<1>0. /\ p \in Procs /\ TypeOK /\ mem[p] \in Journals /\ mem \in [Procs -> Journals]
      /\ Local(p) /\ cmd \in [Procs -> Commands] /\ at \in [Procs -> Points]
      /\ Expecting(mem[p]) /\ Expecting(journal) /\ UNCHANGED <<loc, parked>>
  BY PlacesKnown, ConfirmLocal DEF Confirm, ConfirmConflict, ConfirmFailed
<1>1. PICK o : o = Observed(p)
  OBVIOUS
<1>2. /\ o = [mem[p] EXCEPT !.expected = LocAfter(cmd[p], @), !.pending = {}]
      /\ o.expected = LocAfter(cmd[p], mem[p].expected)
      /\ DOMAIN o = {"tx", "status", "admitted", "expected", "pending", "recovered",
                  "focusOrigin", "focusExp", "focusPending", "conflict", "struct",
                  "operations"}
  BY <1>0, <1>1 DEF Observed, Journals
<1>3. Expecting(o)
  BY <1>0, <1>2, AfterExpected DEF Expecting
<1>4. PICK k : k = Confirmed(p)
  OBVIOUS
<1>5. k = [o EXCEPT !.focusExp = focus, !.focusPending = FALSE, !.struct = {Topology}]
  BY <1>1, <1>4 DEF Confirmed
<1>6. Expecting(k)
  BY <1>2, <1>3, <1>5 DEF Expecting
<1>7. CASE Confirm(p) /\ cmd[p].op = "clean"
  BY <1>0, <1>4, <1>6, <1>7, StopPlaces DEF Confirm, Exit, Goto, Resting
<1>8. CASE Confirm(p) /\ cmd[p].op # "clean"
  <2>1. journal' = k /\ mem'[p] = k /\ at'[p] = "driving"
    BY <1>0, <1>4, <1>8 DEF Confirm, Publish, Goto
  <2> QED
    BY <1>0, <1>6, <2>1, PlacesKept
<1>9. CASE ConfirmConflict(p)
  <2>1. journal' = [o EXCEPT !.conflict = TRUE]
    BY <1>1, <1>9 DEF ConfirmConflict
  <2>2. Expecting(journal')
    BY <1>2, <1>3, <2>1 DEF Expecting
  <2> QED
    BY <1>0, <1>9, <2>2, StopPlaces DEF ConfirmConflict, Fail, Goto, Resting
<1>10. CASE ConfirmFailed(p)
  BY <1>0, <1>10, StopPlaces DEF ConfirmFailed, Fail, Goto, Resting
<1> QED
  BY <1>7, <1>8, <1>9, <1>10

\* Whoever recovers expects what is on disk.
LEMMA EnterPlaces ==
    ASSUME PlacementInv, NEW p, Steps(p), EnterRecovery(p) PROVE PlacementInv'
<1>0. /\ p \in Procs /\ TypeOK /\ mem \in [Procs -> Journals] /\ journal \in Journals
      /\ Local(p) /\ cmd \in [Procs -> Commands] /\ at \in [Procs -> Points]
      /\ Expecting(mem[p]) /\ Expecting(journal) /\ UNCHANGED <<loc, parked>>
      /\ at'[p] # "issued"
  BY PlacesKnown, EnterLocal
     DEF EnterRecovery, RecoverSettled, RecoverEnter, RecoverUnavailable
<1>1. CASE RecoverSettled(p)
  BY <1>0, <1>1, StopPlaces DEF RecoverSettled, Exit, Goto, Resting
<1>2. CASE RecoverEnter(p)
  <2>1. PICK j : /\ j = [journal EXCEPT !.conflict = @ \/ ~(focus = journal.focusExp)]
                 /\ Publish(p, j)
    BY <1>2 DEF RecoverEnter
  <2>2. Expecting(j)
    BY <1>0, <2>1 DEF Expecting, Journals
  <2> QED
    BY <1>0, <2>1, <2>2, PlacesKept DEF Publish
<1>3. CASE RecoverUnavailable(p)
  <2>1. PICK j : j = [journal EXCEPT !.status = "required"] /\ Publish(p, j)
    BY <1>3 DEF RecoverUnavailable
  <2>2. Expecting(j)
    BY <1>0, <2>1 DEF Expecting, Journals
  <2> QED
    BY <1>0, <2>1, <2>2, PlacesKept DEF Publish
<1> QED
  BY <1>1, <1>2, <1>3 DEF EnterRecovery

\* A recovery publishes what it expected before.
LEMMA RecoveryPlaces ==
    ASSUME PlacementInv, NEW p, Steps(p), Local(p), UNCHANGED <<loc, parked>>,
           NEW j, Expecting(j), Publish(p, j),
           at'[p] # "issued" \/ (at' = at /\ cmd' = cmd)
    PROVE  PlacementInv'
<1>0. /\ p \in Procs /\ mem \in [Procs -> Journals] /\ at \in [Procs -> Points]
      /\ cmd \in [Procs -> Commands]
      /\ at[p] = "issued" /\ Moves(cmd[p]) => cmd[p].win \notin parked
  BY PlacesKnown
<1>1. journal' = j /\ mem'[p] = j
  BY <1>0 DEF Publish
<1> QED
  BY <1>0, <1>1, PlacesKept

\* So does its own command, for a window that nobody put elsewhere.
LEMMA RecoveryIssuePlaces ==
    ASSUME PlacementInv, NEW p, Steps(p), at[p] \notin Resting, NEW op \in RecoveryOps, NEW w,
           NEW j \in Journals, j.tx = mem[p].tx, Expecting(j), RecoveryIssue(p, op, w, j),
           op = "return" => w \notin parked
    PROVE  PlacementInv'
<1>0. /\ p \in Procs /\ mem \in [Procs -> Journals] /\ at \in [Procs -> Points]
      /\ cmd \in [Procs -> Commands] /\ Local(p)
  BY PlacesKnown, RecoveryIssueLocal
<1>1. PICK k : /\ k = [j EXCEPT !.focusPending = TRUE, !.operations = @ + 1]
               /\ Publish(p, k)
  BY DEF RecoveryIssue
<1>2. Expecting(k)
  BY <1>1 DEF Expecting, Journals
<1>3. PICK f : f = FocusAfter(op, w)
  OBVIOUS
<1>4. cmd' = [cmd EXCEPT ![p] = [op |-> op, win |-> w, focus |-> f]]
  BY <1>3 DEF RecoveryIssue
<1>5. /\ journal' = k /\ mem'[p] = k /\ cmd'[p].op = op /\ cmd'[p].win = w
      /\ UNCHANGED <<loc, parked>>
  BY <1>0, <1>1, <1>4 DEF RecoveryIssue, Publish
<1> QED
  BY <1>0, <1>2, <1>5, PlacesKept DEF Moves, RecoveryOps

\* A refusal of a recovery.
LEMMA RecoveryRefusedPlaces ==
    ASSUME PlacementInv, NEW p, Steps(p), Local(p), RecoveryRefused(p),
           UNCHANGED <<loc, parked>>, at'[p] # "issued"
    PROVE  PlacementInv'
<1>0. /\ p \in Procs /\ mem \in [Procs -> Journals] /\ mem[p] \in Journals
      /\ Expecting(mem[p]) /\ Expecting(journal)
  BY PlacesKnown
<1>1. CASE UNCHANGED <<journal, mem>>
  BY <1>0, <1>1, PlacesKept
<1>2. CASE Publish(p, [mem[p] EXCEPT !.conflict = TRUE])
  <2>1. PICK j : j = [mem[p] EXCEPT !.conflict = TRUE] /\ Publish(p, j)
    BY <1>2
  <2>2. Expecting(j)
    BY <1>0, <2>1 DEF Expecting, Journals
  <2> QED
    BY <2>1, <2>2, RecoveryPlaces
<1> QED
  BY <1>1, <1>2 DEF RecoveryRefused

\* A recovery returns a window only from where its journal expects it.
LEMMA ScanPlaces ==
    ASSUME PlacementInv, NEW p, Steps(p), NEW w \in Windows, ScanWindow(p, w)
    PROVE  PlacementInv'
<1>0. /\ p \in Procs /\ mem \in [Procs -> Journals] /\ mem[p] \in Journals
      /\ Local(p) /\ at[p] = "scanning" /\ at[p] \notin Resting
      /\ Expecting(mem[p]) /\ Expecting(journal)
  BY PlacesKnown, ScanLocal DEF Resting
<1>1. CASE ScanGone(p, w)
  <2>1. PICK j : j = [mem[p] EXCEPT !.recovered = @ \cup {w}] /\ Publish(p, j)
    BY <1>1 DEF ScanGone
  <2>2. Expecting(j)
    BY <1>0, <2>1 DEF Expecting, Journals
  <2> QED
    BY <1>0, <1>1, <2>1, <2>2, RecoveryPlaces DEF ScanGone
<1>2. CASE ScanBlame(p, w)
  BY <1>0, <1>2, PlacesKept DEF ScanBlame
<1>3. CASE ScanHome(p, w)
  <2>1. PICK j : /\ j = [mem[p] EXCEPT !.recovered = @ \cup {w}, !.pending = @ \ {w}]
                 /\ Publish(p, j)
    BY <1>3 DEF ScanHome, Closed
  <2>2. Expecting(j)
    BY <1>0, <2>1 DEF Expecting, Journals
  <2> QED
    BY <1>0, <1>3, <2>1, <2>2, RecoveryPlaces DEF ScanHome
<1>4. CASE ReturnIssue(p, w)
  <2>1. PICK j : /\ j = [mem[p] EXCEPT !.pending = @ \cup {w}]
                 /\ RecoveryIssue(p, "return", w, j)
    BY <1>4 DEF ReturnIssue
  <2>2. j \in Journals /\ j.tx = mem[p].tx /\ Expecting(j)
    BY <1>0, <2>1 DEF Expecting, Journals
  <2>3. w \notin parked
    BY <1>0, <1>4, WhereExpected DEF ReturnIssue, Returnable
  <2> QED
    BY <1>0, <2>1, <2>2, <2>3, RecoveryIssuePlaces DEF RecoveryOps
<1>5. CASE ReturnRefused(p, w)
  BY <1>0, <1>5, RecoveryRefusedPlaces DEF ReturnRefused
<1> QED
  BY <1>1, <1>2, <1>3, <1>4, <1>5 DEF ScanWindow

\* It expects the window it has returned at home.
LEMMA ReturnPlaces ==
    ASSUME PlacementInv, NEW p, Steps(p), RecoveryKnown(p),
           ReturnConfirm(p) \/ ReturnConflict(p) \/ ReturnFailed(p) \/ ReturnClose(p)
    PROVE  PlacementInv'
<1>0. /\ p \in Procs /\ mem \in [Procs -> Journals] /\ mem[p] \in Journals
      /\ Local(p) /\ at'[p] # "issued" /\ Expecting(mem[p]) /\ Expecting(journal)
  BY PlacesKnown, ReturnLocal
<1>1. PICK c : c = cmd[p].win
  OBVIOUS
<1>2. CASE ReturnConfirm(p)
  <2>1. PICK j : /\ j = [mem[p] EXCEPT !.expected[c] = "home",
                                       !.focusExp = focus, !.focusPending = FALSE,
                                       !.struct = {Topology}]
                 /\ Publish(p, j)
    BY <1>1, <1>2 DEF ReturnConfirm
  <2>2. j.expected = [mem[p].expected EXCEPT ![c] = "home"]
    BY <1>0, <2>1 DEF Journals
  <2>3. Expecting(j)
    BY <1>0, <2>2 DEF Expecting, Journals
  <2> QED
    BY <1>0, <1>2, <2>1, <2>3, RecoveryPlaces DEF ReturnConfirm
<1>3. CASE ReturnConflict(p)
  <2>1. PICK j : /\ j = [mem[p] EXCEPT !.expected[c] = "home", !.conflict = TRUE]
                 /\ Publish(p, j)
    BY <1>1, <1>3 DEF ReturnConflict
  <2>2. j.expected = [mem[p].expected EXCEPT ![c] = "home"]
    BY <1>0, <2>1 DEF Journals
  <2>3. Expecting(j)
    BY <1>0, <2>2 DEF Expecting, Journals
  <2> QED
    BY <1>0, <1>3, <2>1, <2>3, RecoveryPlaces DEF ReturnConflict
<1>4. CASE ReturnFailed(p)
  <2>1. at[p] \in Commanding \cup {"returned"}
    BY <1>4 DEF ReturnFailed, Returned, Commanding
  <2>2. Recovering(p)
    BY <2>1 DEF RecoveryKnown, Returning, Recovering, RecoveryOps
  <2> QED
    BY <1>0, <1>4, <2>2, PlacesKept DEF ReturnFailed, Blamed
<1>5. CASE ReturnClose(p)
  <2>1. PICK j : /\ j = [mem[p] EXCEPT !.recovered = @ \cup {c}, !.pending = @ \ {c}]
                 /\ Publish(p, j)
    BY <1>1, <1>5 DEF ReturnClose, Closed
  <2>2. Expecting(j)
    BY <1>0, <2>1 DEF Expecting, Journals
  <2> QED
    BY <1>0, <1>5, <2>1, <2>2, RecoveryPlaces DEF ReturnClose
<1> QED
  BY <1>2, <1>3, <1>4, <1>5

\* The focus moves no window.
LEMMA RefocusPlaces ==
    ASSUME PlacementInv, NEW p, Steps(p),
           RefocusIssue(p) \/ RefocusRefused(p) \/ RefocusConfirm(p) \/ RefocusConflict(p)
    PROVE  PlacementInv'
<1>0. /\ p \in Procs /\ mem \in [Procs -> Journals] /\ mem[p] \in Journals
      /\ Local(p) /\ at[p] \notin Resting /\ at \in [Procs -> Points]
      /\ Expecting(mem[p]) /\ Expecting(journal)
  BY PlacesKnown, RefocusLocal DEF Resting
<1>1. CASE RefocusIssue(p)
  <2>1. PICK w : RecoveryIssue(p, "refocus", w, mem[p])
    BY <1>1 DEF RefocusIssue
  <2> QED
    BY <1>0, <2>1, RecoveryIssuePlaces DEF RecoveryOps
<1>2. CASE RefocusRefused(p)
  <2>1. at'[p] # "issued" /\ UNCHANGED <<loc, parked>>
    BY <1>0, <1>2 DEF RefocusRefused, Goto
  <2>2. CASE UNCHANGED <<journal, mem>>
    BY <1>0, <2>1, <2>2, PlacesKept
  <2>3. CASE RecoveryRefused(p)
    BY <1>0, <2>1, <2>3, RecoveryRefusedPlaces
  <2> QED
    BY <1>2, <2>2, <2>3 DEF RefocusRefused
<1>3. CASE RefocusConfirm(p)
  <2>1. PICK j : /\ j = [mem[p] EXCEPT !.focusExp = focus, !.focusPending = FALSE,
                                       !.struct = {Topology}]
                 /\ Publish(p, j)
    BY <1>3 DEF RefocusConfirm
  <2>2. Expecting(j)
    BY <1>0, <2>1 DEF Expecting, Journals
  <2>3. at'[p] # "issued" /\ UNCHANGED <<loc, parked>>
    BY <1>0, <1>3 DEF RefocusConfirm, Goto
  <2> QED
    BY <1>0, <2>1, <2>2, <2>3, RecoveryPlaces
<1>4. CASE RefocusConflict(p)
  <2>1. PICK j : j = [mem[p] EXCEPT !.conflict = TRUE] /\ Publish(p, j)
    BY <1>4 DEF RefocusConflict
  <2>2. Expecting(j)
    BY <1>0, <2>1 DEF Expecting, Journals
  <2>3. at'[p] # "issued" /\ UNCHANGED <<loc, parked>>
    BY <1>0, <1>4 DEF RefocusConflict, Goto
  <2> QED
    BY <1>0, <2>1, <2>2, <2>3, RecoveryPlaces
<1> QED
  BY <1>1, <1>2, <1>3, <1>4

\* Nor does the verdict.
LEMMA VerdictPlaces ==
    ASSUME PlacementInv, NEW p, Steps(p), Verdict(p) \/ CloseReceipt(p)
    PROVE  PlacementInv'
<1>0. /\ p \in Procs /\ mem \in [Procs -> Journals] /\ mem[p] \in Journals /\ TypeOK
      /\ Local(p) /\ at'[p] # "issued" /\ at \in [Procs -> Points]
      /\ Expecting(mem[p]) /\ Expecting(journal)
  BY PlacesKnown, VerdictLocal
<1>1. CASE Verdict(p)
  <2>1. PICK s : Publish(p, [mem[p] EXCEPT !.status = s])
    BY <1>1 DEF Verdict
  <2>2. PICK j : j = [mem[p] EXCEPT !.status = s] /\ Publish(p, j)
    BY <2>1
  <2>3. Expecting(j)
    BY <1>0, <2>2 DEF Expecting, Journals
  <2> QED
    BY <1>0, <1>1, <2>2, <2>3, RecoveryPlaces DEF Verdict
<1>2. CASE CloseReceipt(p)
  BY <1>0, <1>2, StopPlaces DEF CloseReceipt, Exit, Goto, Resting
<1> QED
  BY <1>1, <1>2

\* A step of a recovery.
LEMMA RecoveryStepPlaces ==
    ASSUME PlacementInv, NEW p, Steps(p), RecoveryKnown(p), RecoveryStep(p)
    PROVE  PlacementInv'
BY ScanPlaces, ReturnPlaces, RefocusPlaces, VerdictPlaces, SendPlaces
   DEF RecoveryStep, Recover

\* The user's move becomes the user's placement only with no command in flight.
LEMMA UserPlaces ==
    ASSUME PlacementInv, TypeOK, User PROVE PlacementInv'
<1>0. /\ UNCHANGED <<journal, at, mem, cmd>> /\ loc \in [Windows -> Places]
      /\ parked \subseteq Windows
  BY UserLocal DEF TypeOK
<1>1. Expected'
  BY <1>0 DEF PlacementInv, Expected, Expecting
<1>2. UserPlacementWins' /\ Untouched'
  <2>1. ASSUME NEW w \in Windows, NEW place \in {"home", "elsewhere"}, UserMove(w, place)
        PROVE  UserPlacementWins' /\ Untouched'
    <3>1. /\ loc' = [loc EXCEPT ![w] = place]
          /\ parked' = IF place = "elsewhere" /\ ~InFlight
                       THEN parked \cup {w} ELSE parked \ {w}
      BY <2>1 DEF UserMove
    <3>2. UserPlacementWins'
      BY <1>0, <3>1 DEF UserPlacementWins, PlacementInv
    <3>3. Untouched'
      BY <1>0, <3>1 DEF Untouched, PlacementInv, InFlight
    <3> QED
      BY <3>2, <3>3
  <2>2. ASSUME NEW w \in Windows, UserClose(w) PROVE UserPlacementWins' /\ Untouched'
    BY <1>0, <2>2 DEF UserClose, UserPlacementWins, Untouched, PlacementInv
  <2>3. ASSUME UNCHANGED <<loc, parked>> PROVE UserPlacementWins' /\ Untouched'
    BY <1>0, <2>3 DEF UserPlacementWins, Untouched, PlacementInv
  <2> QED
    BY <2>1, <2>2, <2>3 DEF User, UserFocus, ForeignChange
<1> QED
  BY <1>1, <1>2 DEF PlacementInv

\* A step in which no window moves, nor what any process expects or commands.
LEMMA QuietPlaces ==
    ASSUME PlacementInv, UNCHANGED <<loc, parked, journal, at, mem, cmd>>
    PROVE  PlacementInv'
BY DEF PlacementInv, UserPlacementWins, Expected, Expecting, Untouched

\* A transaction begins: every window is where it was found.
LEMMA BeginPlaces ==
    ASSUME PlacementInv, NEW p, Steps(p), Begin(p) PROVE PlacementInv'
<1>0. /\ p \in Procs /\ mem \in [Procs -> Journals] /\ at \in [Procs -> Points]
  BY PlacesKnown
<1>1. PICK f : f = IF focus \in Windows THEN focus ELSE "desk"
  OBVIOUS
<1>2. PICK j : /\ j = [EmptyJournal EXCEPT !.tx = journal.tx + 1, !.status = "active",
                                           !.focusOrigin = f, !.focusExp = f]
               /\ Publish(p, j)
  BY <1>1 DEF Begin
<1>3. j.expected = [w \in Windows |-> "home"]
  BY <1>2 DEF EmptyJournal
<1>4. Expecting(j)
  BY <1>3 DEF Expecting
<1>5. /\ journal' = j /\ mem' = [mem EXCEPT ![p] = j] /\ parked' = {}
  BY <1>2 DEF Publish, Begin
<1>6. Expected'
  BY <1>0, <1>4, <1>5 DEF PlacementInv, Expected
<1>7. UserPlacementWins' /\ Untouched'
  BY <1>5 DEF UserPlacementWins, Untouched
<1> QED
  BY <1>6, <1>7 DEF PlacementInv

-----------------------------------------------------------------------------
\* The executor stages a window where the journal expects it, and swaps one that
\* is on the stage.
LEMMA EnginePlaces ==
    ASSUME PlacementInv, Known0, EngineStep
    PROVE  PlacementInv'
<1>0. /\ Steps(Engine) /\ Engine \in Procs /\ mem[Engine] \in Journals
      /\ Expecting(mem[Engine]) /\ EnginePart
  BY BothStep, PlacesKnown DEF Known0
<1>1. CASE EBegin
  BY <1>0, <1>1, BeginPlaces DEF EBegin
<1>2. CASE EOpen \/ EBuild \/ EComplete \/ EReceipt \/ ERaise \/ EBoundaryConflict
           \/ EAnswerFailed \/ EReadyFailed \/ \E w \in Windows : EAdmit(w)
  BY <1>0, <1>2, DrivePlaces
     DEF EOpen, EBuild, EComplete, EReceipt, ERaise, EBoundaryConflict, EAnswerFailed,
         EReadyFailed, EAdmit
<1>3. CASE EAttempt \/ ESpawn \/ EReady \/ EAdmitted \/ EResolve \/ EPrepare \/ EPrepared
           \/ EResume \/ EFinish \/ EFinished \/ ESuccess \/ EAbandon \/ EFailing
           \/ EFinishing \/ EClosing
  BY <1>3, QuietPlaces
     DEF EAttempt, ESpawn, EReady, EAdmitted, EResolve, EPrepare, EPrepared, EResume,
         EFinish, EFinished, ESuccess, EAbandon, EFailing, EFinishing, EClosing, Ask,
         AnchorGone
<1>4. ASSUME NEW w \in Windows, EStage(w) PROVE PlacementInv'
  <2>1. w \notin parked
    BY <1>0, <1>4, WhereExpected DEF EStage, BatchKept
  <2> QED
    BY <1>0, <1>4, <2>1, IssuePlaces DEF EStage, ECommand
<1>5. ASSUME NEW w \in Windows, ESwap(w) PROVE PlacementInv'
  <2>1. w \notin parked
    BY <1>5 DEF ESwap, PlacementInv, UserPlacementWins
  <2> QED
    BY <1>0, <1>5, <2>1, IssuePlaces DEF ESwap, ECommand
<1>6. CASE EMark \/ EShow \/ ECleanup \/ \E w \in Windows \cup {NoWindow} : EFocus(w)
  BY <1>0, <1>6, IssuePlaces DEF EMark, EShow, ECleanup, EFocus, ECommand
<1>7. CASE ECommandStep
  BY <1>0, <1>7, SendPlaces, ConfirmPlaces DEF ECommandStep
<1>8. CASE ERecover
  BY <1>0, <1>8, EnterPlaces DEF ERecover
<1>9. CASE ERecovering
  BY <1>0, <1>9, RecoveryStepPlaces DEF ERecovering, EnginePart, EngineCommand
<1> QED
  BY <1>1, <1>2, <1>3, <1>4, <1>5, <1>6, <1>7, <1>8, <1>9 DEF EngineStep

\* The guard moves windows in its recovery only.
LEMMA GuardPlaces ==
    ASSUME PlacementInv, Known0, GuardStep
    PROVE  PlacementInv'
<1>0. Steps(Guard) /\ GuardPart
  BY BothStep DEF Known0
<1>1. CASE \/ \E h \in Helpers : GStop(h) \/ GStopFails(h)
           \/ GReady \/ GPrepare \/ GResume \/ GServeFails \/ GFinish \/ GEngineLost
           \/ GCleaned \/ GRelease \/ GReport \/ GReportFails \/ GError \/ GErrorReport
  BY <1>1, QuietPlaces
     DEF GStop, GStopFails, GReady, GPrepare, GResume, GServeFails, GFinish, GEngineLost,
         GCleaned, GRelease, GReport, GReportFails, GError, GErrorReport, GLeave,
         AnchorGone
<1>2. CASE GClean
  BY <1>0, <1>2, IssuePlaces DEF GClean
<1>3. CASE GCleanStep
  BY <1>0, <1>3, SendPlaces, ConfirmPlaces DEF GCleanStep
<1>4. CASE GDecide
  BY <1>0, <1>4, EnterPlaces, QuietPlaces DEF GDecide
<1>5. CASE GErrorRecover
  BY <1>0, <1>5, EnterPlaces DEF GErrorRecover
<1>6. CASE GRecovering
  BY <1>0, <1>6, RecoveryStepPlaces DEF GRecovering, GuardPart, GuardCommand
<1> QED
  BY <1>1, <1>2, <1>3, <1>4, <1>5, <1>6 DEF GuardStep

\* Neither a kill nor a helper's end moves a window.
LEMMA EnvironmentPlaces ==
    ASSUME PlacementInv, Known0, Environment
    PROVE  PlacementInv'
<1>0. Steps(Engine) /\ Steps(Guard) /\ TypeOK
  BY BothStep DEF Steps
<1>1. CASE ECrash \/ GDeadline
  BY <1>0, <1>1, DrivePlaces, QuietPlaces DEF ECrash, GDeadline, EngineDies
<1>2. CASE GCrash
  BY <1>0, <1>2, DrivePlaces, QuietPlaces DEF GCrash, CrashOutside
<1>3. CASE \E h \in Helpers : HelperEnds(h)
  BY <1>3, QuietPlaces DEF HelperEnds
<1>4. CASE User
  BY <1>0, <1>4, UserPlaces
<1> QED
  BY <1>1, <1>2, <1>3, <1>4 DEF Environment

\* It holds at first, and of every step.
LEMMA PlacementInit == TransactionInit => PlacementInv
<1> SUFFICES ASSUME TransactionInit PROVE PlacementInv
  OBVIOUS
<1>1. /\ journal = EmptyJournal /\ parked = {} /\ mem = [p \in Procs |-> EmptyJournal]
  BY DEF TransactionInit, Init
<1>2. Expecting(EmptyJournal)
  BY DEF Expecting, EmptyJournal
<1>3. Expected
  BY <1>1, <1>2 DEF Expected
<1> QED
  BY <1>1, <1>3 DEF PlacementInv, UserPlacementWins, Untouched

\* It is inductive together with where executor and guard are.
LEMMA PlacementStep ==
    RestoreInv /\ PlacementInv /\ [TransactionNext]_vars => PlacementInv'
<1> SUFFICES ASSUME RestoreInv, PlacementInv, [TransactionNext]_vars PROVE PlacementInv'
  OBVIOUS
<1>1. Known0
  BY DEF RestoreInv, Known0
<1>2. CASE UNCHANGED vars
  BY <1>2, QuietPlaces
<1> QED
  BY <1>1, <1>2, EnginePlaces, GuardPlaces, EnvironmentPlaces DEF TransactionNext

\* Under any kill, loss and time limit, even with the executor and the guard
\* recovering at once, a window that the user put elsewhere while no command was
\* in flight stays there (recovery.py, _recover; executor.py, _apply).
THEOREM PlacementsAreKept == TransactionSpec => []UserPlacementWins
<1>1. PlacementInv => UserPlacementWins
  BY DEF PlacementInv
<1> QED
  BY <1>1, InitRestore, RestoreStep, PlacementInit, PlacementStep, PTL
     DEF TransactionSpec
=============================================================================
