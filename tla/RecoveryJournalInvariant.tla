----------------------- MODULE RecoveryJournalInvariant -----------------------
(***************************************************************************)
(* The inductive invariant of the journal protocol: what the properties of *)
(* RecoveryJournal leave implicit about the process that holds the lock,   *)
(* its command in flight and the windows a recovery has still to examine.  *)
(***************************************************************************)
EXTENDS RecoveryJournal

\* The transaction lock: at most one process is in the journal protocol, and
\* its private copy of the journal is the durable one.
Exclusive ==
    \A p, q \in Procs : p # q => at[p] \in Resting \/ at[q] \in Resting
MemIsJournal == \A p \in Procs : at[p] \notin Resting => mem[p] = journal

Open == {"opening", "driving", "issued", "sent", "scanning", "returned",
         "verifying"}

\* The phase of a process and the status of the journal agree.
StatusAgrees(p) ==
    /\ at[p] \in Open => journal.status \in {"active", "required"}
    /\ at[p] = "completing" => journal.status = "complete"
    /\ at[p] = "publishing" => journal.status \in {"required", "recovered"}

InCommand(p) == at[p] \in {"issued", "sent"}

\* What is known of the command in flight: no conflict was recorded, the window
\* it moves is pending, and its outcome is the only one that may be unknown.
CommandKnown(p) ==
    /\ InCommand(p) => ~journal.conflict
    /\ InCommand(p) /\ Moves(cmd[p]) => cmd[p].win \in journal.pending
    /\ InCommand(p) /\ ~Recovering(p) => unconfirmed \subseteq {cmd[p].win}
    /\ at[p] = "issued" /\ Moves(cmd[p])
           => cmd[p].win \notin unconfirmed /\ cmd[p].win \notin parked
    /\ at[p] = "issued" /\ ~Recovering(p) => unconfirmed = {}
    /\ at[p] = "returned" => cmd[p].win \notin unconfirmed

InDrive(p) == at[p] \in {"opening", "driving"} \/ (InCommand(p) /\ ~Recovering(p))
InReturn(p) == at[p] = "returned" \/ (InCommand(p) /\ Returning(p))
InRefocus(p) ==
    at[p] = "verifying" \/ (InCommand(p) /\ cmd[p].op = "refocus")
InRecovery(p) == at[p] = "scanning" \/ InReturn(p) \/ InRefocus(p)

\* A driver has recovered nothing; a recovery has still to examine what is not
\* recovered, unless it has met a fault.
ScanKnown(p) ==
    /\ InDrive(p) => journal.recovered = {}
    /\ InRecovery(p) => todo[p] \subseteq journal.admitted \ journal.recovered
    /\ InRecovery(p) /\ ~fault[p] => todo[p] = journal.admitted \ journal.recovered
    /\ InReturn(p) => Returning(p) /\ cmd[p].win \in todo[p]
    /\ InRefocus(p) => todo[p] = {}
    /\ at[p] = "verifying" /\ ~fault[p]
           => ~journal.conflict /\ ~journal.focusPending

PhaseKnown == \A p \in Procs : StatusAgrees(p) /\ CommandKnown(p) /\ ScanKnown(p)

JournalShape ==
    /\ journal.pending \subseteq journal.admitted
    /\ journal.recovered \subseteq journal.admitted
    /\ unconfirmed \subseteq journal.pending
    /\ \A w \in Windows : journal.expected[w] # "elsewhere"

\* A window that was recovered stays out of the transaction's places.
RecoveredReleased ==
    \A w \in journal.recovered :
        /\ loc[w] \notin {"slot", "stage"}
        /\ w \in journal.pending => loc[w] = "gone"

ReceiptBehind == receipt.tx <= journal.tx /\ ReceiptNeverAhead

LockInv == Exclusive /\ MemIsJournal /\ PhaseKnown

DataInv ==
    /\ JournalShape /\ RecoveredReleased /\ ReceiptBehind
    /\ UserPlacementWins /\ SettledIsResolved

IInv == TypeOK /\ LockInv /\ DataInv
=============================================================================
