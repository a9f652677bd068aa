------------------------ MODULE RecoveryJournalProofs ------------------------
(***************************************************************************)
(* Proofs about the journal protocol of RecoveryJournal: its types, then    *)
(* its safety, from RecoveryJournalInvariant's IInv, which is inductive for *)
(* every set of windows and of processes, any number of transactions and   *)
(* of operations, and any crashes, lost answers and user actions.          *)
(***************************************************************************)
EXTENDS RecoveryJournalInvariant, TLAPS

USE DEF jvars, treeVars, fileVars, scanVars, histVars

-----------------------------------------------------------------------------
\* Types.

\* The updates that the actions make to a journal keep its type.
LEMMA JournalIntention ==
    ASSUME NEW j \in Journals, NEW P \in SUBSET Windows
    PROVE  [j EXCEPT !.pending = P, !.focusPending = TRUE,
                     !.operations = @ + 1] \in Journals
<1>1. j.operations + 1 \in Nat
  BY DEF Journals
<1> QED
  BY <1>1 DEF Journals

\* Recording, or clearing, a focus conflict keeps a journal well typed.
LEMMA JournalConflict ==
    ASSUME NEW j \in Journals, NEW b \in BOOLEAN
    PROVE  [j EXCEPT !.conflict = b] \in Journals
BY DEF Journals

\* Giving a journal any of the statuses keeps it well typed.
LEMMA JournalStatus ==
    ASSUME NEW j \in Journals, NEW s \in Statuses
    PROVE  [j EXCEPT !.status = s] \in Journals
BY DEF Journals

\* A place the compositor gives a window is one of the places.
LEMMA LocAfterType ==
    ASSUME NEW c \in Commands, NEW from \in [Windows -> Places]
    PROVE  LocAfter(c, from) \in [Windows -> Places]
BY DEF LocAfter, Moves, Destination, Places, Commands

\* The focus that a command predicts is a surface of the model (command_focus).
LEMMA FocusAfterType ==
    ASSUME focus \in Focus, NEW op \in Ops, NEW w \in Windows \cup {NoWindow},
           w = NoWindow => op \notin {"stage", "return", "swap"}
    PROVE  FocusAfter(op, w) \in Focus
BY WindowsAssumption DEF FocusAfter, Focus, FocusNames, Ops

\* The state before the first transaction is well typed.
LEMMA InitType == Init => TypeOK
BY BoundsAssumption DEF Init, TypeOK, EmptyJournal, NoCommand, Journals, Commands,
   Places, Focus, FocusNames, AnchorPlaces, Statuses, Topologies, Points, Ops

\* Every process that rests, or stops, does so with well-typed private state.
LEMMA ExitType ==
    ASSUME TypeOK, NEW p \in Procs, Exit(p)
    PROVE  /\ at' \in [Procs -> Points] /\ mem' \in [Procs -> Journals]
           /\ cmd' \in [Procs -> Commands] /\ todo' \in [Procs -> SUBSET Windows]
           /\ fault' \in [Procs -> BOOLEAN] /\ broken' \in [Procs -> BOOLEAN]
<1>1. EmptyJournal \in Journals
  BY DEF EmptyJournal, Journals, Places, Statuses, Topologies, Focus, FocusNames
<1>2. NoCommand \in Commands
  BY DEF NoCommand, Commands, Ops, Focus, FocusNames
<1> QED
  BY <1>1, <1>2 DEF Exit, Forget, Goto, Idle, TypeOK, Points

\* A driver that fails forgets its journal and its command, nothing else.
LEMMA FailType ==
    ASSUME TypeOK, NEW p \in Procs, Fail(p)
    PROVE  /\ at' \in [Procs -> Points] /\ mem' \in [Procs -> Journals]
           /\ cmd' \in [Procs -> Commands] /\ UNCHANGED <<todo, fault, broken>>
<1>1. EmptyJournal \in Journals
  BY DEF EmptyJournal, Journals, Places, Statuses, Topologies, Focus, FocusNames
<1>2. NoCommand \in Commands
  BY DEF NoCommand, Commands, Ops, Focus, FocusNames
<1> QED
  BY <1>1, <1>2 DEF Fail, Forget, Goto, Idle, TypeOK, Points

\* A command that raised leaves well-typed private state, in a driver or a recovery.
LEMMA BlamedType ==
    ASSUME TypeOK, NEW p \in Procs, Blamed(p)
    PROVE  /\ at' \in [Procs -> Points] /\ mem' \in [Procs -> Journals]
           /\ cmd' \in [Procs -> Commands] /\ todo' \in [Procs -> SUBSET Windows]
           /\ fault' \in [Procs -> BOOLEAN] /\ broken' \in [Procs -> BOOLEAN]
<1>1. NoCommand \in Commands
  BY DEF NoCommand, Commands, Ops, Focus, FocusNames
<1>2. CASE Recovering(p)
  <2>1. at' \in [Procs -> Points]
    BY <1>2 DEF Blamed, Goto, TypeOK, Points
  <2>2. cmd' \in [Procs -> Commands] /\ fault' \in [Procs -> BOOLEAN]
    BY <1>1, <1>2 DEF Blamed, Idle, TypeOK
  <2>3. todo' \in [Procs -> SUBSET Windows]
    BY <1>2 DEF Blamed, TypeOK
  <2> QED
    BY <1>2, <2>1, <2>2, <2>3 DEF Blamed, TypeOK
<1>3. CASE ~Recovering(p)
  BY <1>3, FailType DEF Blamed, TypeOK
<1> QED
  BY <1>2, <1>3

\* What the compositor does with a command leaves a well-typed tree.
LEMMA ApplyType ==
    ASSUME TypeOK, NEW p \in Procs, Apply(cmd[p])
    PROVE  /\ loc' \in [Windows -> Places] /\ anchor' \in AnchorPlaces
           /\ foreign' \in {"kept", "changed"}
<1>1. cmd[p] \in Commands
  BY DEF TypeOK
<1>2. loc' \in [Windows -> Places]
  BY <1>1, LocAfterType DEF Apply, TypeOK
<1> QED
  BY <1>1, <1>2 DEF Apply, TypeOK, AnchorPlaces

\* The tree a step observes is one of the topologies a journal can hold.
LEMMA TopologyType == TypeOK => Topology \in Topologies
BY DEF TypeOK, Topology, Topologies

\* A journal published by p, everything else of a type it had.
LEMMA PublishType ==
    ASSUME TypeOK, NEW p \in Procs, NEW j \in Journals, Publish(p, j)
    PROVE  journal' \in Journals /\ mem' \in [Procs -> Journals]
BY DEF Publish, TypeOK

\* Moving a process to another point keeps the points well typed.
LEMMA GotoType ==
    ASSUME TypeOK, NEW p \in Procs, NEW l \in Points, Goto(p, l)
    PROVE  at' \in [Procs -> Points]
BY DEF Goto, TypeOK

\* A process with no command in flight has a well-typed command.
LEMMA IdleType ==
    ASSUME TypeOK, NEW p \in Procs, Idle(p)
    PROVE  cmd' \in [Procs -> Commands]
BY DEF Idle, TypeOK, NoCommand, Commands, Ops, Focus, FocusNames

\* Spending one unit of a bound keeps the bounds natural numbers.
LEMMA SpendType ==
    ASSUME TypeOK, NEW k \in {"crash", "lost", "user"}, Spend(k)
    PROVE  budget' \in [{"crash", "lost", "user"} -> Nat]
BY DEF Spend, TypeOK

\* record_focus_conflict, then the driver's failure, keeps the types.
LEMMA RecordConflictType ==
    ASSUME TypeOK, NEW p \in Procs, NEW j \in Journals, RecordConflict(p, j)
    PROVE  TypeOK'
<1>1. journal' \in Journals
  BY JournalConflict DEF RecordConflict
<1> QED
  BY <1>1, FailType DEF RecordConflict, TypeOK

\* Publishing the intention of a command keeps the types.
LEMMA IntendType ==
    ASSUME TypeOK, NEW p \in Procs, NEW j \in Journals, NEW op \in Ops,
           NEW w \in Windows \cup {NoWindow},
           w = NoWindow => op \notin {"stage", "return", "swap"},
           Intend(p, j, op, w)
    PROVE  TypeOK'
<1> DEFINE k == [j EXCEPT !.pending = j.admitted, !.focusPending = TRUE,
                          !.operations = @ + 1]
           c == [op |-> op, win |-> w, focus |-> FocusAfter(op, w)]
<1>1. k \in Journals
  <2>1. j.admitted \in SUBSET Windows
    BY DEF Journals
  <2> QED
    BY <2>1, JournalIntention
<1>2. c \in Commands
  BY FocusAfterType DEF Commands, TypeOK
<1>3. Publish(p, k) /\ cmd' = [cmd EXCEPT ![p] = c]
  BY DEF Intend
<1>4. cmd' \in [Procs -> Commands]
  BY <1>2, <1>3 DEF TypeOK
<1>5. at' \in [Procs -> Points]
  BY GotoType DEF Intend, Points
<1>6. journal' \in Journals /\ mem' \in [Procs -> Journals]
  BY <1>1, <1>3, PublishType
<1> QED
  BY <1>4, <1>5, <1>6 DEF Intend, TypeOK

\* Refusing a command keeps the types.
LEMMA RefuseType ==
    ASSUME TypeOK, NEW p \in Procs, NEW j \in Journals, Refuse(p, j)
    PROVE  TypeOK'
<1>1. CASE RecordConflict(p, j)
  BY <1>1, RecordConflictType
<1>2. CASE journal' = j /\ Fail(p) /\ UNCHANGED <<treeVars, receipt, histVars, budget>>
  BY <1>2, FailType DEF TypeOK
<1> QED
  BY <1>1, <1>2 DEF Refuse

\* Opening a transaction keeps the types.
LEMMA BeginType ==
    ASSUME TypeOK, NEW p \in Procs, Begin(p) PROVE TypeOK'
<1> DEFINE proven == IF focus \in Windows THEN focus ELSE "desk"
           j == [EmptyJournal EXCEPT !.tx = journal.tx + 1, !.status = "active",
                                     !.focusOrigin = proven, !.focusExp = proven]
<1>1. proven \in Focus
  BY DEF Focus, FocusNames
<1>2. j \in Journals
  <2>1. journal.tx + 1 \in Nat
    BY DEF TypeOK, Journals
  <2> QED
    BY <1>1, <2>1 DEF EmptyJournal, Journals, Places, Statuses, Topologies, Focus
<1>3. Publish(p, j) /\ focus' = proven
  BY DEF Begin
<1>4. journal' \in Journals /\ mem' \in [Procs -> Journals]
  BY <1>2, <1>3, PublishType
<1>5. at' \in [Procs -> Points]
  BY GotoType DEF Begin, Points
<1> HIDE DEF j, proven
<1> QED
  BY <1>1, <1>3, <1>4, <1>5 DEF Begin, TypeOK, Places, AnchorPlaces

\* Drive: the steps of the driver that send no command.
LEMMA DriveType ==
    ASSUME TypeOK, NEW p \in Procs
    PROVE  /\ OpenReceipt(p) \/ CompleteReceipt(p) => TypeOK'
           /\ \A w \in Windows : Admit(p, w) => TypeOK'
           /\ CreateAnchor(p) \/ Raise(p) \/ BoundaryConflict(p) => TypeOK'
           /\ Complete(p) => TypeOK'
<1>0. mem[p] \in Journals
  BY DEF TypeOK
<1>1. ASSUME OpenReceipt(p) PROVE TypeOK'
  <2>1. receipt' \in [tx : Nat, status : Statuses]
    BY <1>0, <1>1 DEF OpenReceipt, PublishReceipt, Journals, Statuses
  <2>2. at' \in [Procs -> Points]
    BY <1>1, GotoType DEF OpenReceipt, Points
  <2> QED
    BY <1>1, <2>1, <2>2 DEF OpenReceipt, TypeOK
<1>2. ASSUME CompleteReceipt(p) PROVE TypeOK'
  <2>1. receipt' \in [tx : Nat, status : Statuses]
    BY <1>0, <1>2 DEF CompleteReceipt, PublishReceipt, Journals, Statuses
  <2> QED
    BY <1>2, <2>1, ExitType DEF CompleteReceipt, TypeOK
<1>3. ASSUME NEW w \in Windows, Admit(p, w) PROVE TypeOK'
  <2> DEFINE j == [mem[p] EXCEPT !.admitted = @ \cup {w}, !.expected[w] = "home"]
  <2>1. j \in Journals
    <3>1. mem[p].admitted \cup {w} \in SUBSET Windows
      BY <1>0 DEF Journals
    <3>2. [mem[p].expected EXCEPT ![w] = "home"] \in [Windows -> Places]
      BY <1>0 DEF Journals, Places
    <3> QED
      BY <1>0, <3>1, <3>2 DEF Journals
  <2>2. Publish(p, j)
    BY <1>3 DEF Admit
  <2>3. journal' \in Journals /\ mem' \in [Procs -> Journals]
    BY <2>1, <2>2, PublishType
  <2> QED
    BY <1>3, <2>3 DEF Admit, TypeOK
<1>4. ASSUME CreateAnchor(p) PROVE TypeOK'
  BY <1>4 DEF CreateAnchor, TypeOK, AnchorPlaces, Focus, FocusNames
<1>5. ASSUME Raise(p) PROVE TypeOK'
  BY <1>5, FailType DEF Raise, TypeOK
<1>6. ASSUME BoundaryConflict(p) PROVE TypeOK'
  BY <1>0, <1>6, RecordConflictType DEF BoundaryConflict
<1>7. ASSUME Complete(p) PROVE TypeOK'
  <2>1. [mem[p] EXCEPT !.status = "complete"] \in Journals
    BY <1>0, JournalStatus DEF Statuses
  <2>2. journal' \in Journals /\ mem' \in [Procs -> Journals]
    BY <1>7, <2>1, PublishType DEF Complete
  <2>3. at' \in [Procs -> Points]
    BY <1>7, GotoType DEF Complete, Points
  <2> QED
    BY <1>7, <2>2, <2>3 DEF Complete, TypeOK
<1> QED
  BY <1>1, <1>2, <1>3, <1>4, <1>5, <1>6, <1>7

\* A command is issued, or refused, by a driver, the guard or a recovery.
LEMMA IssueType ==
    ASSUME TypeOK, NEW p \in Procs
    PROVE  /\ \A w \in mem[p].admitted, op \in {"stage", "swap", "focus"} :
                  Issue(p, op, w) => TypeOK'
           /\ \A op \in {"mark", "show", "kill", "focus"} :
                  Issue(p, op, NoWindow) => TypeOK'
           /\ CleanIssue(p) => TypeOK'
           /\ IssueRefused(p) \/ CleanRefused(p) => TypeOK'
<1>1. mem[p] \in Journals /\ journal \in Journals /\ mem[p].admitted \subseteq Windows
  BY DEF TypeOK, Journals
<1>2. ASSUME NEW w \in mem[p].admitted, NEW op \in {"stage", "swap", "focus"},
             Issue(p, op, w)
      PROVE  TypeOK'
  BY <1>1, <1>2, IntendType, WindowsAssumption DEF Issue, Ops
<1>3. ASSUME NEW op \in {"mark", "show", "kill", "focus"}, Issue(p, op, NoWindow)
      PROVE  TypeOK'
  BY <1>1, <1>3, IntendType DEF Issue, Ops
<1>4. ASSUME CleanIssue(p) PROVE TypeOK'
  BY <1>1, <1>4, IntendType DEF CleanIssue, Ops
<1>5. ASSUME IssueRefused(p) \/ CleanRefused(p) PROVE TypeOK'
  BY <1>1, <1>5, RefuseType DEF IssueRefused, CleanRefused
<1> QED
  BY <1>2, <1>3, <1>4, <1>5

\* What the compositor did with a command.
LEMMA SendType ==
    ASSUME TypeOK, NEW p \in Procs
    PROVE  Send(p) \/ SendLost(p) \/ SendRejected(p) => TypeOK'
<1>1. cmd[p] \in Commands /\ SentTo(p) \in SUBSET Windows
  <2>1. cmd[p] \in Commands
    BY DEF TypeOK
  <2>2. Moves(cmd[p]) => cmd[p].win \in Windows
    BY <2>1 DEF Moves, Commands
  <2> QED
    BY <2>1, <2>2 DEF SentTo, TypeOK
<1>2. ASSUME Apply(cmd[p]) PROVE focus' \in Focus
  <2>1. focus \in Focus /\ cmd[p].op \in Ops /\ cmd[p].win \in Windows \cup {NoWindow}
        /\ (cmd[p].win = NoWindow => cmd[p].op \notin {"stage", "return", "swap"})
    BY <1>1 DEF TypeOK, Commands
  <2>2. FocusAfter(cmd[p].op, cmd[p].win) \in Focus
    BY <2>1, FocusAfterType
  <2> QED
    BY <1>2, <2>2 DEF Apply
<1>3. ASSUME Send(p) PROVE TypeOK'
  <2>1. at' \in [Procs -> Points]
    BY <1>3, GotoType DEF Send, Points
  <2>2. Apply(cmd[p])
    BY <1>3 DEF Send
  <2> QED
    BY <1>1, <1>2, <1>3, <2>1, <2>2, ApplyType DEF Send, TypeOK
<1>4. ASSUME SendLost(p) PROVE TypeOK'
  <2>1. budget' \in [{"crash", "lost", "user"} -> Nat]
    BY <1>4, SpendType DEF SendLost
  <2>2. Blamed(p) /\ unconfirmed' = SentTo(p) /\ UNCHANGED <<fileVars, parked>>
    BY <1>4 DEF SendLost
  <2>3. CASE Apply(cmd[p])
    BY <1>1, <1>2, <2>1, <2>2, <2>3, ApplyType, BlamedType DEF TypeOK
  <2>4. CASE UNCHANGED treeVars
    BY <1>1, <2>1, <2>2, <2>4, BlamedType DEF TypeOK
  <2> QED
    BY <1>4, <2>3, <2>4 DEF SendLost
<1>5. ASSUME SendRejected(p) PROVE TypeOK'
  BY <1>5, BlamedType DEF SendRejected, TypeOK
<1> QED
  BY <1>3, <1>4, <1>5

\* The journal that a confirmation publishes.
LEMMA ConfirmedType ==
    ASSUME TypeOK, NEW p \in Procs
    PROVE  /\ mem[p] \in Journals
           /\ Observed(p) \in Journals
           /\ Confirmed(p) \in Journals
<1>1. mem[p] \in Journals /\ cmd[p] \in Commands
  BY DEF TypeOK
<1>2. LocAfter(cmd[p], mem[p].expected) \in [Windows -> Places]
  BY <1>1, LocAfterType DEF Journals
<1>3. Observed(p) \in Journals
  BY <1>1, <1>2 DEF Observed, Journals
<1>4. focus \in Focus /\ {Topology} \in SUBSET Topologies
  BY TopologyType DEF TypeOK
<1> QED
  BY <1>1, <1>3, <1>4 DEF Confirmed, Journals

\* Whatever a driver observes after its command keeps the types.
LEMMA ConfirmType ==
    ASSUME TypeOK, NEW p \in Procs
    PROVE  Confirm(p) \/ ConfirmConflict(p) \/ ConfirmFailed(p) => TypeOK'
<1>1. ASSUME Known(p) PROVE unconfirmed' \in SUBSET Windows
  BY <1>1 DEF Known, TypeOK
<1>2. ASSUME Confirm(p) PROVE TypeOK'
  <2>1. CASE cmd[p].op = "clean"
    BY <1>1, <1>2, <2>1, ConfirmedType, ExitType DEF Confirm, TypeOK
  <2>2. CASE cmd[p].op # "clean"
    <3>1. journal' \in Journals /\ mem' \in [Procs -> Journals]
      BY <1>2, <2>2, ConfirmedType, PublishType DEF Confirm
    <3>2. at' \in [Procs -> Points] /\ cmd' \in [Procs -> Commands]
      BY <1>2, <2>2, GotoType, IdleType DEF Confirm, Points
    <3> QED
      BY <1>1, <1>2, <2>2, <3>1, <3>2 DEF Confirm, TypeOK
  <2> QED
    BY <2>1, <2>2
<1>3. ASSUME ConfirmConflict(p) PROVE TypeOK'
  <2>1. journal' \in Journals
    BY <1>3, ConfirmedType, JournalConflict DEF ConfirmConflict
  <2> QED
    BY <1>1, <1>3, <2>1, FailType DEF ConfirmConflict, TypeOK
<1>4. ASSUME ConfirmFailed(p) PROVE TypeOK'
  BY <1>4, FailType DEF ConfirmFailed, TypeOK
<1> QED
  BY <1>2, <1>3, <1>4

\* Entering a recovery, or finding nothing to recover, keeps the types.
LEMMA EnterType ==
    ASSUME TypeOK, NEW p \in Procs
    PROVE  EnterRecovery(p) => TypeOK'
<1>1. ASSUME RecoverSettled(p) PROVE TypeOK'
  BY <1>1, ExitType DEF RecoverSettled, TypeOK
<1>2. ASSUME RecoverEnter(p) PROVE TypeOK'
  <2> DEFINE c == journal.conflict \/ ~(focus = journal.focusExp)
             j == [journal EXCEPT !.conflict = c]
  <2>1. j \in Journals
    BY JournalConflict DEF TypeOK, Journals
  <2>2. Publish(p, j)
    BY <1>2 DEF RecoverEnter
  <2>3. journal' \in Journals /\ mem' \in [Procs -> Journals]
    BY <2>1, <2>2, PublishType
  <2>4. journal.admitted \ journal.recovered \in SUBSET Windows
    BY DEF TypeOK, Journals
  <2>5. at' \in [Procs -> Points]
    BY <1>2, GotoType DEF RecoverEnter, Points
  <2> QED
    BY <1>2, <2>3, <2>4, <2>5 DEF RecoverEnter, TypeOK
<1>3. ASSUME RecoverUnavailable(p) PROVE TypeOK'
  <2>1. [journal EXCEPT !.status = "required"] \in Journals
    BY JournalStatus DEF TypeOK, Statuses
  <2>2. journal' \in Journals /\ mem' \in [Procs -> Journals]
    BY <1>3, <2>1, PublishType DEF RecoverUnavailable
  <2>3. at' \in [Procs -> Points]
    BY <1>3, GotoType DEF RecoverUnavailable, Points
  <2> QED
    BY <1>3, <2>2, <2>3, SpendType DEF RecoverUnavailable, TypeOK
<1> QED
  BY <1>1, <1>2, <1>3 DEF EnterRecovery

\* One window of a recovery.
LEMMA ClosedType ==
    ASSUME TypeOK, NEW p \in Procs, NEW w \in Windows, Closed(p, w)
    PROVE  /\ journal' \in Journals /\ mem' \in [Procs -> Journals]
           /\ todo' \in [Procs -> SUBSET Windows] /\ UNCHANGED <<fault, broken>>
<1> DEFINE j == [mem[p] EXCEPT !.recovered = @ \cup {w}, !.pending = @ \ {w}]
<1>1. j \in Journals
  <2>1. mem[p] \in Journals
    BY DEF TypeOK
  <2>2. mem[p].recovered \cup {w} \in SUBSET Windows
        /\ mem[p].pending \ {w} \in SUBSET Windows
    BY <2>1 DEF Journals
  <2> QED
    BY <2>1, <2>2 DEF Journals
<1>2. Publish(p, j)
  BY DEF Closed
<1>3. journal' \in Journals /\ mem' \in [Procs -> Journals]
  BY <1>1, <1>2, PublishType
<1> QED
  BY <1>3 DEF Closed, Examined, TypeOK

\* A window that a recovery cannot resolve leaves a well-typed scan.
LEMMA BlameType ==
    ASSUME TypeOK, NEW p \in Procs, NEW w, Blame(p, w)
    PROVE  /\ todo' \in [Procs -> SUBSET Windows] /\ fault' \in [Procs -> BOOLEAN]
           /\ UNCHANGED broken
BY DEF Blame, Examined, TypeOK

\* A command of a recovery is published with a well-typed journal.
LEMMA RecoveryIssueType ==
    ASSUME TypeOK, NEW p \in Procs, NEW P \in SUBSET Windows, NEW op \in Ops,
           NEW w \in Windows \cup {NoWindow},
           w = NoWindow => op \notin {"stage", "return", "swap"},
           RecoveryIssue(p, op, w, [mem[p] EXCEPT !.pending = P])
    PROVE  TypeOK'
<1> DEFINE k == [mem[p] EXCEPT !.pending = P, !.focusPending = TRUE,
                               !.operations = @ + 1]
           c == [op |-> op, win |-> w, focus |-> FocusAfter(op, w)]
<1>1. k \in Journals
  BY JournalIntention DEF TypeOK
<1>2. c \in Commands
  BY FocusAfterType DEF Commands, TypeOK
<1>3. cmd' = [cmd EXCEPT ![p] = c]
  BY DEF RecoveryIssue
<1>4. Publish(p, k)
  <2>1. mem[p] \in Journals
    BY DEF TypeOK
  <2>2. [[mem[p] EXCEPT !.pending = P] EXCEPT !.focusPending = TRUE,
                                              !.operations = @ + 1] = k
    BY <2>1 DEF Journals
  <2> QED
    BY <2>2 DEF RecoveryIssue
<1>5. cmd' \in [Procs -> Commands]
  BY <1>2, <1>3 DEF TypeOK
<1>6. at' \in [Procs -> Points]
  BY GotoType DEF RecoveryIssue, Points
<1>7. journal' \in Journals /\ mem' \in [Procs -> Journals]
  BY <1>1, <1>4, PublishType
<1> QED
  BY <1>5, <1>6, <1>7 DEF RecoveryIssue, TypeOK

\* A command that a recovery refuses leaves a well-typed journal.
LEMMA RecoveryRefusedType ==
    ASSUME TypeOK, NEW p \in Procs, RecoveryRefused(p)
    PROVE  journal' \in Journals /\ mem' \in [Procs -> Journals]
<1>1. [mem[p] EXCEPT !.conflict = TRUE] \in Journals
  BY JournalConflict DEF TypeOK
<1>2. CASE Publish(p, [mem[p] EXCEPT !.conflict = TRUE])
  BY <1>1, <1>2, PublishType
<1>3. CASE UNCHANGED <<journal, mem>>
  BY <1>3 DEF TypeOK
<1> QED
  BY <1>2, <1>3 DEF RecoveryRefused

\* Every outcome of the examination of one window keeps the types.
LEMMA ScanType ==
    ASSUME TypeOK, NEW p \in Procs, NEW w \in Windows, ScanWindow(p, w)
    PROVE  TypeOK'
<1>0. mem[p] \in Journals
  BY DEF TypeOK
<1>1. ASSUME ScanGone(p, w) PROVE TypeOK'
  <2>1. [mem[p] EXCEPT !.recovered = @ \cup {w}] \in Journals
    <3>1. mem[p].recovered \cup {w} \in SUBSET Windows
      BY <1>0 DEF Journals
    <3> QED
      BY <1>0, <3>1 DEF Journals
  <2>2. journal' \in Journals /\ mem' \in [Procs -> Journals]
    BY <1>1, <2>1, PublishType DEF ScanGone
  <2> QED
    BY <1>1, <2>2 DEF ScanGone, Examined, TypeOK
<1>2. ASSUME ScanBlame(p, w) PROVE TypeOK'
  <2>1. budget' \in [{"crash", "lost", "user"} -> Nat]
    BY <1>2, SpendType DEF ScanBlame, TypeOK
  <2> QED
    BY <1>2, <2>1, BlameType DEF ScanBlame, TypeOK
<1>3. ASSUME ScanHome(p, w) PROVE TypeOK'
  BY <1>3, ClosedType DEF ScanHome, TypeOK
<1>4. ASSUME ReturnIssue(p, w) PROVE TypeOK'
  <2>1. mem[p].pending \cup {w} \in SUBSET Windows
    BY <1>0 DEF Journals
  <2>2. RecoveryIssue(p, "return", w, [mem[p] EXCEPT !.pending = mem[p].pending \cup {w}])
    BY <1>4 DEF ReturnIssue
  <2> QED
    BY <2>1, <2>2, RecoveryIssueType, WindowsAssumption DEF Ops
<1>5. ASSUME ReturnRefused(p, w) PROVE TypeOK'
  BY <1>5, RecoveryRefusedType, BlameType DEF ReturnRefused, TypeOK
<1> QED
  BY <1>1, <1>2, <1>3, <1>4, <1>5 DEF ScanWindow

\* Every outcome of a window's return keeps the types.
LEMMA ReturnedType ==
    ASSUME TypeOK, NEW p \in Procs
    PROVE  ReturnConfirm(p) \/ ReturnConflict(p) \/ ReturnFailed(p) \/ ReturnClose(p)
               => TypeOK'
<1>0. /\ mem[p] \in Journals
      /\ [mem[p].expected EXCEPT ![cmd[p].win] = "home"] \in [Windows -> Places]
  BY DEF TypeOK, Journals, Places
<1>1. ASSUME Known(p) PROVE unconfirmed' \in SUBSET Windows
  BY <1>1 DEF Known, TypeOK
<1>2. ASSUME ReturnConfirm(p) PROVE TypeOK'
  <2> DEFINE j == [mem[p] EXCEPT !.expected[cmd[p].win] = "home",
                                 !.focusExp = focus, !.focusPending = FALSE,
                                 !.struct = {Topology}]
  <2>1. focus \in Focus /\ {Topology} \in SUBSET Topologies
    BY TopologyType DEF TypeOK
  <2>2. j \in Journals
    BY <1>0, <2>1 DEF Journals
  <2>3. Publish(p, j)
    BY <1>2 DEF ReturnConfirm
  <2>4. journal' \in Journals /\ mem' \in [Procs -> Journals]
    BY <2>2, <2>3, PublishType
  <2>5. at' \in [Procs -> Points]
    BY <1>2, GotoType DEF ReturnConfirm, Points
  <2> QED
    BY <1>1, <1>2, <2>4, <2>5 DEF ReturnConfirm, TypeOK
<1>3. ASSUME ReturnConflict(p) PROVE TypeOK'
  <2> DEFINE j == [mem[p] EXCEPT !.expected[cmd[p].win] = "home",
                                 !.conflict = TRUE]
  <2>1. j \in Journals
    BY <1>0 DEF Journals
  <2>2. Publish(p, j)
    BY <1>3 DEF ReturnConflict
  <2>3. journal' \in Journals /\ mem' \in [Procs -> Journals]
    BY <2>1, <2>2, PublishType
  <2>4. at' \in [Procs -> Points] /\ cmd' \in [Procs -> Commands]
    BY <1>3, GotoType, IdleType DEF ReturnConflict, Points
  <2>5. todo' \in [Procs -> SUBSET Windows] /\ fault' \in [Procs -> BOOLEAN]
        /\ UNCHANGED broken
    BY <1>3, BlameType DEF ReturnConflict
  <2> QED
    BY <1>1, <1>3, <2>3, <2>4, <2>5 DEF ReturnConflict, TypeOK
<1>4. ASSUME ReturnFailed(p) PROVE TypeOK'
  BY <1>4, BlamedType DEF ReturnFailed, TypeOK
<1>5. ASSUME ReturnClose(p) PROVE TypeOK'
  <2>1. cmd[p].win \in Windows
    BY <1>5 DEF ReturnClose, Returning, Commands, TypeOK
  <2>2. at' \in [Procs -> Points] /\ cmd' \in [Procs -> Commands]
    BY <1>5, GotoType, IdleType DEF ReturnClose, Points
  <2> QED
    BY <1>5, <2>1, <2>2, ClosedType DEF ReturnClose, TypeOK
<1> QED
  BY <1>2, <1>3, <1>4, <1>5

\* Every outcome of the restoration of the focus keeps the types.
LEMMA RefocusType ==
    ASSUME TypeOK, NEW p \in Procs
    PROVE  RefocusIssue(p) \/ RefocusRefused(p) \/ RefocusConfirm(p)
               \/ RefocusConflict(p) => TypeOK'
<1>0. mem[p] \in Journals
  BY DEF TypeOK
<1>1. ASSUME RefocusIssue(p) PROVE TypeOK'
  <2> DEFINE w == IF mem[p].focusOrigin \in Windows THEN mem[p].focusOrigin
                                                    ELSE NoWindow
  <2>1. mem[p].pending \in SUBSET Windows
        /\ [mem[p] EXCEPT !.pending = mem[p].pending] = mem[p]
    BY <1>0 DEF Journals
  <2>2. RecoveryIssue(p, "refocus", w, [mem[p] EXCEPT !.pending = mem[p].pending])
    BY <1>1, <2>1 DEF RefocusIssue
  <2> QED
    BY <2>1, <2>2, RecoveryIssueType DEF Ops
<1>2. ASSUME RefocusRefused(p) PROVE TypeOK'
  <2>1. journal' \in Journals /\ mem' \in [Procs -> Journals]
    BY <1>2, RecoveryRefusedType DEF RefocusRefused, TypeOK
  <2>2. at' \in [Procs -> Points]
    BY <1>2, GotoType DEF RefocusRefused, Points
  <2> QED
    BY <1>2, <2>1, <2>2 DEF RefocusRefused, TypeOK
<1>3. ASSUME RefocusConfirm(p) PROVE TypeOK'
  <2> DEFINE j == [mem[p] EXCEPT !.focusExp = focus, !.focusPending = FALSE,
                                 !.struct = {Topology}]
  <2>1. focus \in Focus /\ {Topology} \in SUBSET Topologies
    BY TopologyType DEF TypeOK
  <2>2. j \in Journals
    BY <1>0, <2>1 DEF Journals
  <2>3. Publish(p, j)
    BY <1>3 DEF RefocusConfirm
  <2>4. journal' \in Journals /\ mem' \in [Procs -> Journals]
    BY <2>2, <2>3, PublishType
  <2>5. at' \in [Procs -> Points] /\ cmd' \in [Procs -> Commands]
    BY <1>3, GotoType, IdleType DEF RefocusConfirm, Points
  <2> QED
    BY <1>3, <2>4, <2>5 DEF RefocusConfirm, TypeOK
<1>4. ASSUME RefocusConflict(p) PROVE TypeOK'
  <2>1. [mem[p] EXCEPT !.conflict = TRUE] \in Journals
    BY <1>0, JournalConflict
  <2>2. journal' \in Journals /\ mem' \in [Procs -> Journals]
    BY <1>4, <2>1, PublishType DEF RefocusConflict
  <2>3. at' \in [Procs -> Points] /\ cmd' \in [Procs -> Commands]
    BY <1>4, GotoType, IdleType DEF RefocusConflict, Points
  <2> QED
    BY <1>4, <2>2, <2>3 DEF RefocusConflict, TypeOK
<1> QED
  BY <1>1, <1>2, <1>3, <1>4

\* The verdict of a recovery and its receipt keep the types.
LEMMA VerdictType ==
    ASSUME TypeOK, NEW p \in Procs
    PROVE  Verdict(p) \/ CloseReceipt(p) \/ Crash(p) => TypeOK'
<1>0. mem[p] \in Journals
  BY DEF TypeOK
<1>1. ASSUME Verdict(p) PROVE TypeOK'
  <2>1. PICK s \in {"required", "recovered"} : Publish(p, [mem[p] EXCEPT !.status = s])
    BY <1>1 DEF Verdict
  <2>2. journal' \in Journals /\ mem' \in [Procs -> Journals]
    BY <1>0, <2>1, JournalStatus, PublishType DEF Statuses
  <2>3. at' \in [Procs -> Points]
    BY <1>1, GotoType DEF Verdict, Points
  <2> QED
    BY <1>1, <2>2, <2>3 DEF Verdict, TypeOK
<1>2. ASSUME CloseReceipt(p) PROVE TypeOK'
  <2>1. receipt' \in [tx : Nat, status : Statuses]
    BY <1>0, <1>2 DEF CloseReceipt, PublishReceipt, Journals
  <2> QED
    BY <1>2, <2>1, ExitType DEF CloseReceipt, TypeOK
<1>3. ASSUME Crash(p) PROVE TypeOK'
  BY <1>3, ExitType, SpendType DEF Crash, TypeOK
<1> QED
  BY <1>1, <1>2, <1>3

\* Crashes, the end of the anchors and the user keep the types.
LEMMA EnvironmentType == TypeOK /\ (AnchorExit \/ User) => TypeOK'
<1> SUFFICES ASSUME TypeOK PROVE AnchorExit \/ User => TypeOK'
  OBVIOUS
<1>1. ASSUME AnchorExit PROVE TypeOK'
  BY <1>1 DEF AnchorExit, AnchorGone, TypeOK, AnchorPlaces, Focus, FocusNames
<1>2. ASSUME NEW w \in Windows, NEW place \in {"home", "elsewhere"}, UserMove(w, place)
      PROVE  TypeOK'
  <2>1. loc' \in [Windows -> Places]
    BY <1>2 DEF UserMove, TypeOK, Places
  <2> QED
    BY <1>2, <2>1, SpendType DEF UserMove, TypeOK
<1>3. ASSUME NEW w \in Windows, UserClose(w) PROVE TypeOK'
  <2>1. loc' \in [Windows -> Places]
    BY <1>3 DEF UserClose, TypeOK, Places
  <2>2. focus' \in Focus
    BY <1>3 DEF UserClose, TypeOK, Focus, FocusNames
  <2> QED
    BY <1>3, <2>1, <2>2, SpendType DEF UserClose, TypeOK
<1>4. ASSUME NEW f \in Windows \cup {"desk", "stage", "unknown"}, UserFocus(f)
      PROVE  TypeOK'
  BY <1>4, SpendType DEF UserFocus, TypeOK, Focus, FocusNames
<1>5. ASSUME ForeignChange PROVE TypeOK'
  BY <1>5, SpendType DEF ForeignChange, TypeOK
<1> QED
  BY <1>1, <1>2, <1>3, <1>4, <1>5 DEF User

\* Every step of the protocol, and every stutter, keeps the types.
LEMMA NextType == TypeOK /\ [Next]_jvars => TypeOK'
<1> SUFFICES ASSUME TypeOK, [Next]_jvars PROVE TypeOK'
  OBVIOUS
<1>1. CASE UNCHANGED jvars
  BY <1>1 DEF TypeOK
<1>2. ASSUME NEW p \in Procs, Drive(p) PROVE TypeOK'
  BY <1>2, DriveType, IssueType, SendType, ConfirmType DEF Drive
<1>3. ASSUME NEW p \in Procs, Recover(p) PROVE TypeOK'
  BY <1>3, ScanType, ReturnedType, RefocusType, VerdictType DEF Recover
<1>4. ASSUME NEW p \in Procs, Clean(p) \/ EnterRecovery(p) PROVE TypeOK'
  BY <1>4, IssueType, EnterType DEF Clean
<1>5. ASSUME NEW p \in Procs, Begin(p) \/ Crash(p) PROVE TypeOK'
  BY <1>5, BeginType, VerdictType
<1>6. ASSUME NEW p \in Procs, CrashOutside(p) PROVE TypeOK'
  BY <1>6, SpendType DEF CrashOutside, TypeOK
<1> QED
  BY <1>1, <1>2, <1>3, <1>4, <1>5, <1>6, EnvironmentType DEF Next

\* Every reachable state is well typed.
THEOREM TypeCorrect == Spec => []TypeOK
BY InitType, NextType, PTL DEF Spec

-----------------------------------------------------------------------------
\* One process steps.

\* The process that steps holds the lock: the others rest, before and after.
LEMMA OthersRest ==
    ASSUME IInv, NEW p \in Procs, at[p] \notin Resting \/ Alone(p),
           NEW l \in Points, at' = [at EXCEPT ![p] = l]
    PROVE  /\ Exclusive'
           /\ \A q \in Procs \ {p} : at[q] \in Resting /\ at'[q] \in Resting
           /\ at'[p] = l
BY DEF IInv, LockInv, TypeOK, Exclusive, Alone

\* A process at rest knows nothing of the journal.
LEMMA RestKnowsNothing ==
    ASSUME NEW q \in Procs, at[q] \in Resting
    PROVE  StatusAgrees(q) /\ CommandKnown(q) /\ ScanKnown(q)
BY DEF Resting, StatusAgrees, CommandKnown, ScanKnown, Open, InCommand, InDrive,
   InReturn, InRefocus, InRecovery

\* A step that leaves its process at rest: every process rests.
LEMMA RestStep ==
    ASSUME IInv, NEW p \in Procs, at[p] \notin Resting \/ Alone(p),
           NEW l \in Resting, at' = [at EXCEPT ![p] = l]
    PROVE  Exclusive' /\ MemIsJournal' /\ PhaseKnown'
<1>1. l \in Points
  BY DEF Resting, Points
<1>2. Exclusive' /\ \A q \in Procs : at'[q] \in Resting
  BY <1>1, OthersRest
<1>3. MemIsJournal'
  BY <1>2 DEF MemIsJournal
<1>4. PhaseKnown'
  BY <1>2 DEF PhaseKnown, Resting, StatusAgrees, CommandKnown, ScanKnown, Open,
     InCommand, InDrive, InReturn, InRefocus, InRecovery
<1> QED
  BY <1>2, <1>3, <1>4

\* A step that leaves its process active, with the journal it has published.
LEMMA ActiveStep ==
    ASSUME IInv, NEW p \in Procs, at[p] \notin Resting \/ Alone(p),
           NEW l \in Points, at' = [at EXCEPT ![p] = l],
           mem' = [mem EXCEPT ![p] = journal'],
           StatusAgrees(p)', CommandKnown(p)', ScanKnown(p)'
    PROVE  Exclusive' /\ MemIsJournal' /\ PhaseKnown'
<1>1. Exclusive' /\ \A q \in Procs \ {p} : at'[q] \in Resting
  BY OthersRest
<1>2. MemIsJournal'
  BY <1>1 DEF MemIsJournal, IInv, TypeOK
<1>3. ASSUME NEW q \in Procs \ {p}
      PROVE  (StatusAgrees(q) /\ CommandKnown(q) /\ ScanKnown(q))'
  BY <1>1 DEF Resting, StatusAgrees, CommandKnown, ScanKnown, Open, InCommand,
     InDrive, InReturn, InRefocus, InRecovery
<1> QED
  BY <1>1, <1>2, <1>3 DEF PhaseKnown

-----------------------------------------------------------------------------
\* What is known of the process that steps.

\* An active process works on the durable journal, and its phase is known.
LEMMA Active ==
    ASSUME IInv, NEW p \in Procs, at[p] \notin Resting
    PROVE  /\ mem[p] = journal /\ journal \in Journals
           /\ StatusAgrees(p) /\ CommandKnown(p) /\ ScanKnown(p)
BY DEF IInv, LockInv, TypeOK, MemIsJournal, PhaseKnown

\* The data of a state the step does not touch stay correct.
LEMMA QuietData ==
    ASSUME DataInv, UNCHANGED <<loc, journal, receipt, parked, unconfirmed>>
    PROVE  DataInv'
BY DEF DataInv, JournalShape, RecoveredReleased, ReceiptBehind, ReceiptNeverAhead,
   UserPlacementWins, SettledIsResolved

\* A step that keeps every process where it is with the journal it has.
LEMMA QuietLock ==
    ASSUME LockInv, UNCHANGED <<journal, at, mem, cmd, todo, fault, unconfirmed>>,
           parked' \subseteq parked \/ \A q \in Procs : at[q] # "issued"
    PROVE  LockInv'
<1>1. Exclusive' /\ MemIsJournal'
  BY DEF LockInv, Exclusive, MemIsJournal
<1>2. ASSUME NEW q \in Procs
      PROVE  (StatusAgrees(q) /\ CommandKnown(q) /\ ScanKnown(q))'
  <2>1. StatusAgrees(q) /\ CommandKnown(q) /\ ScanKnown(q)
    BY DEF LockInv, PhaseKnown
  <2>2. StatusAgrees(q)'
    BY <2>1 DEF StatusAgrees
  <2>3. CommandKnown(q)'
    BY <2>1 DEF CommandKnown, InCommand, Recovering, Moves
  <2>4. ScanKnown(q)'
    BY <2>1 DEF ScanKnown, InDrive, InReturn, InRefocus, InRecovery, InCommand,
       Recovering, Returning
  <2> QED
    BY <2>2, <2>3, <2>4
<1> QED
  BY <1>1, <1>2 DEF LockInv, PhaseKnown

\* A conflict made durable in an open journal leaves its other data correct.
LEMMA ConflictData ==
    ASSUME IInv, NEW b \in BOOLEAN, journal.status \in {"active", "required"},
           journal' = [journal EXCEPT !.conflict = b],
           UNCHANGED <<loc, receipt, parked, unconfirmed>>
    PROVE  DataInv'
<1>0. journal \in Journals
  BY DEF IInv, TypeOK
<1>1. JournalShape'
  BY <1>0 DEF IInv, DataInv, JournalShape, Journals
<1>2. RecoveredReleased'
  BY <1>0 DEF IInv, DataInv, RecoveredReleased, Journals
<1>3. ReceiptBehind'
  BY <1>0 DEF IInv, DataInv, ReceiptBehind, ReceiptNeverAhead, Journals
<1>4. UserPlacementWins'
  BY DEF IInv, DataInv, UserPlacementWins
<1>5. SettledIsResolved'
  BY <1>0 DEF SettledIsResolved, Journals
<1> QED
  BY <1>1, <1>2, <1>3, <1>4, <1>5 DEF DataInv

\* A process that stops leaves the lock invariant to the processes at rest.
LEMMA FailStep ==
    ASSUME IInv, NEW p \in Procs, at[p] \notin Resting \/ Alone(p),
           Fail(p) \/ Exit(p)
    PROVE  LockInv'
BY RestStep DEF LockInv, Fail, Exit, Goto, Resting

-----------------------------------------------------------------------------
\* The actions, one lemma for each group.

\* Opening a transaction: nothing is admitted, nothing is known of the user.
LEMMA BeginSafe ==
    ASSUME IInv, NEW p \in Procs, Begin(p)
    PROVE  LockInv' /\ DataInv'
<1> DEFINE proven == IF focus \in Windows THEN focus ELSE "desk"
           j == [EmptyJournal EXCEPT !.tx = journal.tx + 1, !.status = "active",
                                     !.focusOrigin = proven, !.focusExp = proven]
<1>1. /\ journal' = j /\ mem' = [mem EXCEPT ![p] = j]
      /\ at' = [at EXCEPT ![p] = "opening"] /\ Alone(p)
  BY DEF Begin, Publish, Goto
<1>2. /\ j.status = "active" /\ j.admitted = {} /\ j.pending = {}
      /\ j.recovered = {} /\ j.tx = journal.tx + 1
      /\ j.expected = [w \in Windows |-> "home"]
  BY DEF EmptyJournal
<1>3. at'[p] = "opening"
  BY <1>1 DEF IInv, TypeOK
<1> HIDE DEF j
<1>4. StatusAgrees(p)' /\ CommandKnown(p)' /\ ScanKnown(p)'
  BY <1>1, <1>2, <1>3 DEF StatusAgrees, CommandKnown, ScanKnown, InDrive, InReturn,
     InRefocus, InRecovery, InCommand
<1>5. LockInv'
  BY <1>1, <1>4, ActiveStep DEF LockInv, Points
<1>6. journal.tx \in Nat /\ receipt.tx \in Nat
  BY DEF IInv, TypeOK, Journals
<1>7. ReceiptBehind'
  BY <1>1, <1>2, <1>6 DEF Begin, IInv, DataInv, ReceiptBehind, ReceiptNeverAhead
<1>8. JournalShape' /\ RecoveredReleased' /\ UserPlacementWins' /\ SettledIsResolved'
  BY <1>1, <1>2 DEF Begin, JournalShape, RecoveredReleased, UserPlacementWins,
     SettledIsResolved
<1> QED
  BY <1>5, <1>7, <1>8 DEF DataInv

\* The steps that end a process without touching the journal's data.
LEMMA StopSafe ==
    ASSUME IInv, NEW p \in Procs
    PROVE  /\ Raise(p) \/ ConfirmFailed(p) \/ Crash(p) => LockInv' /\ DataInv'
           /\ Alone(p) /\ RecoverSettled(p) => LockInv' /\ DataInv'
           /\ BoundaryConflict(p) => LockInv' /\ DataInv'
<1>1. ASSUME Raise(p) \/ ConfirmFailed(p) PROVE LockInv' /\ DataInv'
  <2>1. at[p] \notin Resting /\ Fail(p)
    BY <1>1 DEF Raise, ConfirmFailed, Resting
  <2>2. UNCHANGED <<loc, journal, receipt, parked, unconfirmed>>
    BY <1>1 DEF Raise, ConfirmFailed
  <2> QED
    BY <2>1, <2>2, FailStep, QuietData DEF IInv
<1>2. ASSUME Crash(p) PROVE LockInv' /\ DataInv'
  <2>1. DataInv'
    BY <1>2, QuietData DEF Crash, IInv
  <2>2. CASE at[p] \notin Resting
    BY <1>2, <2>1, <2>2, FailStep DEF Crash
  <2>3. CASE at[p] = "failed"
    <3>1. at' = [at EXCEPT ![p] = "off"]
      BY <1>2 DEF Crash, Exit, Goto
    <3>2. \A q \in Procs : at'[q] = at[q] \/ at'[q] \in Resting
      BY <3>1 DEF IInv, TypeOK, Resting
    <3>3. \A q \in Procs \ {p} : /\ mem'[q] = mem[q] /\ cmd'[q] = cmd[q]
                                 /\ todo'[q] = todo[q] /\ fault'[q] = fault[q]
                                 /\ at'[q] = at[q]
      BY <1>2, <3>1 DEF Crash, Exit, Forget, Idle, IInv, TypeOK
    <3>4. at'[p] \in Resting
      BY <3>1 DEF IInv, TypeOK, Resting
    <3>5. UNCHANGED <<journal, unconfirmed, parked>>
      BY <1>2 DEF Crash
    <3>6. Exclusive' /\ MemIsJournal'
      BY <3>2, <3>3, <3>4, <3>5 DEF IInv, LockInv, Exclusive, MemIsJournal
    <3>7. ASSUME NEW q \in Procs \ {p}
          PROVE  (StatusAgrees(q) /\ CommandKnown(q) /\ ScanKnown(q))'
      <4>1. StatusAgrees(q) /\ CommandKnown(q) /\ ScanKnown(q)
        BY DEF IInv, LockInv, PhaseKnown
      <4>2. StatusAgrees(q)'
        BY <3>3, <3>5, <4>1 DEF StatusAgrees
      <4>3. CommandKnown(q)'
        BY <3>3, <3>5, <4>1 DEF CommandKnown, InCommand, Recovering, Moves
      <4>4. ScanKnown(q)'
        BY <3>3, <3>5, <4>1 DEF ScanKnown, InDrive, InReturn, InRefocus,
           InRecovery, InCommand, Recovering, Returning
      <4> QED
        BY <4>2, <4>3, <4>4
    <3>8. (StatusAgrees(p) /\ CommandKnown(p) /\ ScanKnown(p))'
      BY <3>4 DEF Resting, StatusAgrees, CommandKnown, ScanKnown, Open, InCommand,
         InDrive, InReturn, InRefocus, InRecovery
    <3> QED
      BY <2>1, <3>6, <3>7, <3>8 DEF LockInv, PhaseKnown
  <2> QED
    BY <1>2, <2>2, <2>3 DEF Crash, Resting
<1>3. ASSUME Alone(p), RecoverSettled(p) PROVE LockInv' /\ DataInv'
  BY <1>3, FailStep, QuietData DEF RecoverSettled, IInv
<1>4. ASSUME BoundaryConflict(p) PROVE LockInv' /\ DataInv'
  <2>1. at[p] \notin Resting /\ at[p] = "driving" /\ Fail(p)
    BY <1>4 DEF BoundaryConflict, RecordConflict, Resting
  <2>2. mem[p] = journal /\ journal.status \in {"active", "required"}
    BY <2>1, Active DEF StatusAgrees, Open
  <2>3. DataInv'
    BY <1>4, <2>2, ConflictData DEF BoundaryConflict, RecordConflict
  <2> QED
    BY <2>1, <2>3, FailStep
<1> QED
  BY <1>1, <1>2, <1>3, <1>4

\* The receipt of the journal's own transaction and status, nothing else moving.
LEMMA ReceiptData ==
    ASSUME IInv, receipt' = [tx |-> journal.tx, status |-> journal.status],
           UNCHANGED <<loc, journal, parked, unconfirmed>>
    PROVE  DataInv'
<1>1. JournalShape' /\ RecoveredReleased' /\ UserPlacementWins' /\ SettledIsResolved'
  BY DEF IInv, DataInv, JournalShape, RecoveredReleased, UserPlacementWins,
     SettledIsResolved
<1>2. ReceiptBehind'
  BY DEF IInv, TypeOK, Journals, ReceiptBehind, ReceiptNeverAhead
<1> QED
  BY <1>1, <1>2 DEF DataInv

\* The receipts follow the journal they report.
LEMMA ReceiptSafe ==
    ASSUME IInv, NEW p \in Procs
    PROVE  /\ OpenReceipt(p) => LockInv' /\ DataInv'
           /\ CompleteReceipt(p) \/ CloseReceipt(p) => LockInv' /\ DataInv'
<1>1. ASSUME OpenReceipt(p) PROVE LockInv' /\ DataInv'
  <2>1. at[p] = "opening" /\ at[p] \notin Resting
    BY <1>1 DEF OpenReceipt, Resting
  <2>2. /\ mem[p] = journal /\ journal.status \in {"active", "required"}
        /\ journal.recovered = {}
    BY <2>1, Active DEF StatusAgrees, Open, ScanKnown, InDrive
  <2>3. /\ at' = [at EXCEPT ![p] = "driving"] /\ at'[p] = "driving"
        /\ mem' = [mem EXCEPT ![p] = journal'] /\ journal' = journal
    BY <1>1, <2>2 DEF OpenReceipt, Goto, IInv, TypeOK
  <2>4. StatusAgrees(p)' /\ CommandKnown(p)' /\ ScanKnown(p)'
    BY <2>2, <2>3 DEF StatusAgrees, CommandKnown, ScanKnown, InDrive, InReturn,
       InRefocus, InRecovery, InCommand
  <2>5. LockInv'
    BY <2>1, <2>3, <2>4, ActiveStep DEF LockInv, Points
  <2>6. ReceiptBehind'
    BY <1>1, <2>2 DEF OpenReceipt, PublishReceipt, IInv, TypeOK, Journals,
       ReceiptBehind, ReceiptNeverAhead
  <2>7. JournalShape' /\ RecoveredReleased' /\ UserPlacementWins' /\ SettledIsResolved'
    BY <1>1 DEF OpenReceipt, IInv, DataInv, JournalShape, RecoveredReleased,
       UserPlacementWins, SettledIsResolved
  <2> QED
    BY <2>5, <2>6, <2>7 DEF DataInv
<1>2. ASSUME CompleteReceipt(p) PROVE LockInv' /\ DataInv'
  <2>1. at[p] \notin Resting /\ mem[p] = journal /\ journal.status = "complete"
    BY <1>2, Active DEF CompleteReceipt, Resting, StatusAgrees
  <2>2. DataInv'
    BY <1>2, <2>1, ReceiptData DEF CompleteReceipt, PublishReceipt
  <2> QED
    BY <1>2, <2>1, <2>2, FailStep DEF CompleteReceipt
<1>3. ASSUME CloseReceipt(p) PROVE LockInv' /\ DataInv'
  <2>1. at[p] \notin Resting /\ mem[p] = journal
    BY <1>3, Active DEF CloseReceipt, Resting
  <2>2. DataInv'
    BY <1>3, <2>1, ReceiptData DEF CloseReceipt, PublishReceipt
  <2> QED
    BY <1>3, <2>1, <2>2, FailStep DEF CloseReceipt
<1> QED
  BY <1>1, <1>2, <1>3

\* The driver's steps that send no command.
LEMMA DriveSafe ==
    ASSUME IInv, NEW p \in Procs
    PROVE  /\ \A w \in Windows : Admit(p, w) => LockInv' /\ DataInv'
           /\ CreateAnchor(p) => LockInv' /\ DataInv'
           /\ Complete(p) => LockInv' /\ DataInv'
<1>1. ASSUME NEW w \in Windows, Admit(p, w) PROVE LockInv' /\ DataInv'
  <2>1. at[p] = "driving" /\ at[p] \notin Resting
    BY <1>1 DEF Admit, Resting
  <2>2. /\ mem[p] = journal /\ journal \in Journals
        /\ journal.status \in {"active", "required"} /\ journal.recovered = {}
    BY <2>1, Active DEF StatusAgrees, Open, ScanKnown, InDrive
  <2> DEFINE j == [journal EXCEPT !.admitted = @ \cup {w}, !.expected[w] = "home"]
  <2>3. journal' = j /\ mem' = [mem EXCEPT ![p] = j] /\ at' = at
    BY <1>1, <2>2 DEF Admit, Publish
  <2>4. /\ j.status = journal.status /\ j.tx = journal.tx
        /\ j.recovered = journal.recovered /\ j.pending = journal.pending
        /\ j.conflict = journal.conflict /\ j.admitted = journal.admitted \cup {w}
        /\ j.expected = [journal.expected EXCEPT ![w] = "home"]
    BY <2>2 DEF Journals
  <2> HIDE DEF j
  <2>5. at' = [at EXCEPT ![p] = "driving"] /\ at'[p] = "driving"
    BY <2>1, <2>3 DEF IInv, TypeOK
  <2>6. StatusAgrees(p)' /\ CommandKnown(p)' /\ ScanKnown(p)'
    BY <2>2, <2>3, <2>4, <2>5 DEF StatusAgrees, CommandKnown, ScanKnown, InDrive,
       InReturn, InRefocus, InRecovery, InCommand
  <2>7. LockInv'
    BY <2>1, <2>3, <2>5, <2>6, ActiveStep DEF LockInv, Points
  <2>8. UNCHANGED <<loc, receipt, parked, unconfirmed>>
    BY <1>1 DEF Admit
  <2>9. journal.expected \in [Windows -> Places]
    BY <2>2 DEF Journals
  <2>10. JournalShape'
    BY <2>3, <2>4, <2>8, <2>9 DEF IInv, DataInv, JournalShape
  <2>11. RecoveredReleased' /\ UserPlacementWins'
    BY <2>3, <2>4, <2>8 DEF IInv, DataInv, RecoveredReleased, UserPlacementWins
  <2>12. ReceiptBehind' /\ SettledIsResolved'
    BY <2>2, <2>3, <2>4, <2>8 DEF IInv, DataInv, ReceiptBehind, ReceiptNeverAhead,
       SettledIsResolved
  <2> QED
    BY <2>7, <2>10, <2>11, <2>12 DEF DataInv
<1>2. ASSUME CreateAnchor(p) PROVE LockInv' /\ DataInv'
  BY <1>2, QuietLock, QuietData DEF CreateAnchor, IInv
<1>3. ASSUME Complete(p) PROVE LockInv' /\ DataInv'
  <2>1. at[p] = "driving" /\ at[p] \notin Resting
    BY <1>3 DEF Complete, Resting
  <2>2. /\ mem[p] = journal /\ journal \in Journals
        /\ journal.status \in {"active", "required"} /\ journal.recovered = {}
    BY <2>1, Active DEF StatusAgrees, Open, ScanKnown, InDrive
  <2> DEFINE j == [journal EXCEPT !.status = "complete"]
  <2>3. /\ journal' = j /\ mem' = [mem EXCEPT ![p] = j]
        /\ at' = [at EXCEPT ![p] = "completing"]
    BY <1>3, <2>2 DEF Complete, Publish, Goto
  <2>4. /\ j.status = "complete" /\ j.tx = journal.tx
        /\ j.recovered = journal.recovered /\ j.pending = journal.pending
        /\ j.conflict = journal.conflict /\ j.admitted = journal.admitted
        /\ j.expected = journal.expected /\ j.focusPending = journal.focusPending
    BY <2>2 DEF Journals
  <2> HIDE DEF j
  <2>5. at'[p] = "completing"
    BY <2>3 DEF IInv, TypeOK
  <2>6. StatusAgrees(p)' /\ CommandKnown(p)' /\ ScanKnown(p)'
    BY <2>2, <2>3, <2>4, <2>5 DEF StatusAgrees, CommandKnown, ScanKnown, InDrive,
       InReturn, InRefocus, InRecovery, InCommand, Open
  <2>7. LockInv'
    BY <2>1, <2>3, <2>6, ActiveStep DEF LockInv, Points
  <2>8. UNCHANGED <<loc, receipt, parked, unconfirmed>>
    BY <1>3 DEF Complete
  <2>9. JournalShape' /\ RecoveredReleased' /\ UserPlacementWins'
    BY <2>3, <2>4, <2>8 DEF IInv, DataInv, JournalShape, RecoveredReleased,
       UserPlacementWins
  <2>10. ReceiptBehind'
    BY <2>2, <2>3, <2>4, <2>8 DEF IInv, DataInv, ReceiptBehind, ReceiptNeverAhead
  <2>11. SettledIsResolved'
    BY <1>3, <2>2, <2>3, <2>4, <2>8 DEF Complete, FinalTreeVerified, InPlace,
       SettledIsResolved
  <2> QED
    BY <2>7, <2>9, <2>10, <2>11 DEF DataInv
<1> QED
  BY <1>1, <1>2, <1>3

\* The journal of an intention keeps its data correct: nothing moved yet.
LEMMA IntentionData ==
    ASSUME IInv, NEW P \in SUBSET Windows,
           journal.pending \subseteq P, P \subseteq journal.admitted,
           P \cap journal.recovered \subseteq journal.pending,
           journal.status \in {"active", "required"},
           journal' = [journal EXCEPT !.pending = P, !.focusPending = TRUE,
                                      !.operations = @ + 1],
           UNCHANGED <<loc, receipt, parked, unconfirmed>>
    PROVE  DataInv'
<1>0. journal \in Journals
  BY DEF IInv, TypeOK
<1>1. /\ journal'.pending = P /\ journal'.admitted = journal.admitted
      /\ journal'.recovered = journal.recovered /\ journal'.tx = journal.tx
      /\ journal'.status = journal.status /\ journal'.expected = journal.expected
  BY <1>0 DEF Journals
<1>2. JournalShape' /\ RecoveredReleased' /\ UserPlacementWins'
  BY <1>1 DEF IInv, DataInv, JournalShape, RecoveredReleased, UserPlacementWins
<1>3. ReceiptBehind' /\ SettledIsResolved'
  BY <1>1 DEF IInv, DataInv, ReceiptBehind, ReceiptNeverAhead, SettledIsResolved
<1> QED
  BY <1>2, <1>3 DEF DataInv

\* A driver's intention: every window is where the journal expects it, so the
\* user parked none of them, and no outcome is unknown.
LEMMA IntendSafe ==
    ASSUME IInv, NEW p \in Procs, NEW op \in Ops \ RecoveryOps, NEW w,
           at[p] \notin Resting \/ Alone(p),
           journal.status \in {"active", "required"}, journal.recovered = {},
           op \in {"stage", "swap"} => w \in journal.admitted,
           Intend(p, journal, op, w)
    PROVE  LockInv' /\ DataInv'
<1>0. journal \in Journals /\ journal.admitted \subseteq Windows
  BY DEF IInv, TypeOK, Journals
<1> DEFINE j == [journal EXCEPT !.pending = journal.admitted, !.focusPending = TRUE,
                                !.operations = @ + 1]
           c == [op |-> op, win |-> w, focus |-> FocusAfter(op, w)]
<1>1. /\ journal' = j /\ mem' = [mem EXCEPT ![p] = j]
      /\ at' = [at EXCEPT ![p] = "issued"] /\ cmd' = [cmd EXCEPT ![p] = c]
      /\ UNCHANGED <<loc, receipt, parked, unconfirmed>>
  BY DEF Intend, Publish, Goto
<1>2. at'[p] = "issued" /\ cmd'[p] = c
  BY <1>1 DEF IInv, TypeOK
<1>3. /\ j.pending = journal.admitted /\ j.recovered = journal.recovered
      /\ j.status = journal.status /\ j.conflict = journal.conflict
  BY <1>0 DEF Journals
<1>4. ~journal.conflict /\ journal.pending = {}
  BY <1>0 DEF Intend, FocusOwned, AllInPlace, IInv, DataInv, JournalShape
<1>5. \A v \in journal.admitted : loc[v] = journal.expected[v]
  BY DEF Intend, AllInPlace, InPlace
<1>6. unconfirmed = {}
  BY <1>4 DEF IInv, DataInv, JournalShape
<1>7. \A v \in journal.admitted : v \notin parked
  BY <1>0, <1>5 DEF IInv, DataInv, JournalShape, UserPlacementWins
<1>8. DataInv'
  BY <1>0, <1>1, <1>4, IntentionData DEF IInv, DataInv, JournalShape
<1> HIDE DEF j
<1>9. ~Recovering(p)'
  BY <1>2 DEF Recovering
<1>10. Moves(c) => w \in journal.admitted
  BY DEF Moves, RecoveryOps
<1>11. StatusAgrees(p)'
  BY <1>1, <1>2, <1>3 DEF StatusAgrees
<1>12. CommandKnown(p)'
  BY <1>1, <1>2, <1>3, <1>4, <1>6, <1>7, <1>9, <1>10 DEF CommandKnown, InCommand
<1>13. ScanKnown(p)'
  BY <1>1, <1>2, <1>3, <1>9 DEF ScanKnown, InDrive, InReturn, InRefocus, InRecovery,
     InCommand, Recovering, Returning, RecoveryOps
<1>14. LockInv'
  BY <1>1, <1>11, <1>12, <1>13, ActiveStep DEF LockInv, Points
<1> QED
  BY <1>8, <1>14

\* A refusal publishes at most a conflict.
LEMMA RefuseSafe ==
    ASSUME IInv, NEW p \in Procs, at[p] \notin Resting \/ Alone(p),
           journal.status \in {"active", "required"}, Refuse(p, journal)
    PROVE  LockInv' /\ DataInv'
<1>1. Fail(p)
  BY DEF Refuse, RecordConflict
<1>2. CASE RecordConflict(p, journal)
  BY <1>1, <1>2, FailStep, ConflictData DEF RecordConflict
<1>3. CASE journal' = journal /\ UNCHANGED <<treeVars, receipt, histVars, budget>>
  BY <1>1, <1>3, FailStep, QuietData DEF IInv
<1> QED
  BY <1>2, <1>3 DEF Refuse

\* The commands of a driver and of the guard's cleaning.
LEMMA IssueSafe ==
    ASSUME IInv, NEW p \in Procs
    PROVE  /\ \A w \in mem[p].admitted, op \in {"stage", "swap", "focus"} :
                  Issue(p, op, w) => LockInv' /\ DataInv'
           /\ \A op \in {"mark", "show", "kill", "focus"} :
                  Issue(p, op, NoWindow) => LockInv' /\ DataInv'
           /\ IssueRefused(p) => LockInv' /\ DataInv'
           /\ Alone(p) /\ Clean(p) => LockInv' /\ DataInv'
<1>1. ASSUME at[p] = "driving"
      PROVE  /\ at[p] \notin Resting /\ mem[p] = journal
             /\ journal.status \in {"active", "required"} /\ journal.recovered = {}
  BY <1>1, Active DEF Resting, StatusAgrees, Open, ScanKnown, InDrive
<1>2. ASSUME NEW w \in mem[p].admitted, NEW op \in {"stage", "swap", "focus"},
             Issue(p, op, w)
      PROVE  LockInv' /\ DataInv'
  BY <1>1, <1>2, IntendSafe DEF Issue, Ops, RecoveryOps
<1>3. ASSUME NEW op \in {"mark", "show", "kill", "focus"}, Issue(p, op, NoWindow)
      PROVE  LockInv' /\ DataInv'
  BY <1>1, <1>3, IntendSafe DEF Issue, Ops, RecoveryOps
<1>4. ASSUME IssueRefused(p) PROVE LockInv' /\ DataInv'
  BY <1>1, <1>4, RefuseSafe DEF IssueRefused
<1>5. ASSUME Alone(p), Clean(p) PROVE LockInv' /\ DataInv'
  <2>1. CASE CleanIssue(p)
    BY <1>5, <2>1, IntendSafe DEF Clean, CleanIssue, Ops, RecoveryOps
  <2>2. CASE CleanRefused(p)
    BY <1>5, <2>2, RefuseSafe DEF Clean, CleanRefused
  <2> QED
    BY <1>5, <2>1, <2>2 DEF Clean
<1> QED
  BY <1>2, <1>3, <1>4, <1>5

-----------------------------------------------------------------------------
\* The IPC and its observation.

\* What the compositor may have done with the command in flight.
LEMMA AppliedData ==
    ASSUME IInv, NEW p \in Procs, at[p] = "issued",
           loc' = LocAfter(cmd[p], loc) \/ loc' = loc,
           unconfirmed' = SentTo(p), UNCHANGED <<journal, receipt, parked>>
    PROVE  DataInv'
<1>0. /\ CommandKnown(p) /\ ScanKnown(p) /\ cmd[p] \in Commands
      /\ journal.status \in {"active", "required"}
  BY Active DEF Resting, StatusAgrees, Open, IInv, TypeOK
<1>1. JournalShape'
  BY <1>0 DEF IInv, DataInv, JournalShape, SentTo, CommandKnown, InCommand
<1>2. Moves(cmd[p]) => /\ cmd[p].win \notin parked
                       /\ cmd[p].win \notin journal.recovered
  <2>1. CASE Recovering(p)
    BY <1>0, <2>1 DEF CommandKnown, ScanKnown, InReturn, InRecovery, InCommand,
       Recovering, Returning, RecoveryOps, Moves
  <2>2. CASE ~Recovering(p)
    BY <1>0, <2>2 DEF CommandKnown, ScanKnown, InDrive, InCommand
  <2> QED
    BY <2>1, <2>2
<1>3. \A w \in Windows : w # cmd[p].win \/ ~Moves(cmd[p]) => loc'[w] = loc[w]
  BY DEF LocAfter, IInv, TypeOK
<1>4. journal.recovered \subseteq Windows /\ parked \subseteq Windows
  BY DEF IInv, TypeOK, Journals
<1>5. RecoveredReleased' /\ UserPlacementWins'
  BY <1>2, <1>3, <1>4 DEF IInv, DataInv, RecoveredReleased, UserPlacementWins
<1>6. ReceiptBehind' /\ SettledIsResolved'
  BY <1>0 DEF IInv, DataInv, ReceiptBehind, ReceiptNeverAhead, SettledIsResolved
<1> QED
  BY <1>1, <1>5, <1>6 DEF DataInv

\* A command that raised: its process fails, or its recovery goes on, faulty.
LEMMA BlamedLock ==
    ASSUME IInv, NEW p \in Procs, at[p] \in {"issued", "sent", "returned"},
           Blamed(p), UNCHANGED journal
    PROVE  LockInv'
<1>0. /\ at[p] \notin Resting /\ mem[p] = journal /\ ScanKnown(p)
      /\ journal.status \in {"active", "required"}
  BY Active DEF Resting, StatusAgrees, Open
<1>1. CASE ~Recovering(p)
  BY <1>0, <1>1, FailStep DEF Blamed
<1>2. CASE Recovering(p)
  <2> DEFINE l == IF cmd[p].op = "return" THEN "scanning" ELSE "verifying"
  <2>1. /\ at' = [at EXCEPT ![p] = l] /\ at'[p] = l /\ l \in Points
        /\ mem' = [mem EXCEPT ![p] = journal']
        /\ todo'[p] = todo[p] \ {cmd[p].win} /\ fault'[p]
    BY <1>0, <1>2 DEF Blamed, Goto, IInv, TypeOK, Points
  <2>2. InRecovery(p)
    BY <1>2 DEF InRecovery, InReturn, InRefocus, InCommand, Recovering, RecoveryOps,
       Returning
  <2>3. l = "verifying" => todo[p] = {}
    BY <1>0, <1>2 DEF ScanKnown, InReturn, InRefocus, InCommand, Recovering,
       RecoveryOps, Returning
  <2>4. StatusAgrees(p)' /\ CommandKnown(p)'
    BY <1>0, <2>1 DEF StatusAgrees, CommandKnown, InCommand
  <2>5. ScanKnown(p)'
    BY <1>0, <2>1, <2>2, <2>3 DEF ScanKnown, InDrive, InReturn, InRefocus,
       InRecovery, InCommand
  <2> QED
    BY <1>0, <2>1, <2>4, <2>5, ActiveStep DEF LockInv
<1> QED
  BY <1>1, <1>2

\* The command is sent, executed or not.
LEMMA SendSafe ==
    ASSUME IInv, NEW p \in Procs, Send(p) \/ SendLost(p) \/ SendRejected(p)
    PROVE  LockInv' /\ DataInv'
<1>0. at[p] = "issued" /\ at[p] \notin Resting
  BY DEF Send, SendLost, SendRejected, Resting
<1>1. ASSUME Send(p) PROVE LockInv' /\ DataInv'
  <2>1. DataInv'
    BY <1>0, <1>1, AppliedData DEF Send, Apply
  <2>2. /\ mem[p] = journal /\ StatusAgrees(p) /\ CommandKnown(p) /\ ScanKnown(p)
        /\ journal.status \in {"active", "required"}
    BY <1>0, Active DEF StatusAgrees, Open
  <2>3. /\ at' = [at EXCEPT ![p] = "sent"] /\ at'[p] = "sent"
        /\ mem' = [mem EXCEPT ![p] = journal'] /\ unconfirmed' = SentTo(p)
        /\ UNCHANGED <<journal, cmd, todo, fault, parked>>
    BY <1>1, <2>2 DEF Send, Goto, IInv, TypeOK
  <2>4. StatusAgrees(p)'
    BY <2>2, <2>3 DEF StatusAgrees
  <2>5. CommandKnown(p)'
    BY <1>0, <2>2, <2>3 DEF CommandKnown, InCommand, SentTo, Recovering, Moves
  <2>6. ScanKnown(p)'
    BY <1>0, <2>2, <2>3 DEF ScanKnown, InDrive, InReturn, InRefocus, InRecovery,
       InCommand, Recovering, Returning
  <2>7. LockInv'
    BY <1>0, <2>3, <2>4, <2>5, <2>6, ActiveStep DEF LockInv, Points
  <2> QED
    BY <2>1, <2>7
<1>2. ASSUME SendLost(p) PROVE LockInv' /\ DataInv'
  BY <1>0, <1>2, AppliedData, BlamedLock DEF SendLost, Apply
<1>3. ASSUME SendRejected(p) PROVE LockInv' /\ DataInv'
  BY <1>0, <1>3, QuietData, BlamedLock DEF SendRejected, IInv
<1> QED
  BY <1>1, <1>2, <1>3

\* What the observation of a driver's command makes durable.
LEMMA ObservedData ==
    ASSUME IInv, NEW p \in Procs, at[p] = "sent", ~Recovering(p), Known(p),
           journal'.tx = journal.tx, journal'.status = journal.status,
           journal'.admitted = journal.admitted, journal'.pending = {},
           journal'.recovered = journal.recovered,
           journal'.expected = LocAfter(cmd[p], journal.expected),
           UNCHANGED <<loc, receipt, parked>>
    PROVE  DataInv'
<1>0. /\ CommandKnown(p) /\ ScanKnown(p) /\ journal \in Journals
      /\ journal.status \in {"active", "required"}
  BY Active DEF Resting, StatusAgrees, Open
<1>1. unconfirmed' = {} /\ journal.recovered = {}
  BY <1>0 DEF CommandKnown, ScanKnown, InDrive, InCommand, Known
<1>2. \A w \in Windows : journal'.expected[w] # "elsewhere"
  BY <1>0 DEF LocAfter, Moves, Destination, Journals, IInv, DataInv, JournalShape
<1>3. JournalShape' /\ RecoveredReleased'
  BY <1>1, <1>2 DEF JournalShape, RecoveredReleased
<1>4. UserPlacementWins' /\ ReceiptBehind' /\ SettledIsResolved'
  BY <1>0 DEF IInv, DataInv, UserPlacementWins, ReceiptBehind, ReceiptNeverAhead,
     SettledIsResolved
<1> QED
  BY <1>3, <1>4 DEF DataInv

\* The driver observes the tree again.
LEMMA ConfirmSafe ==
    ASSUME IInv, NEW p \in Procs
    PROVE  Confirm(p) \/ ConfirmConflict(p) => LockInv' /\ DataInv'
<1>1. ASSUME at[p] = "sent"
      PROVE  /\ at[p] \notin Resting /\ mem[p] = journal /\ journal \in Journals
             /\ journal.status \in {"active", "required"} /\ ScanKnown(p)
  BY <1>1, Active DEF Resting, StatusAgrees, Open
<1>2. ASSUME Confirm(p) PROVE LockInv' /\ DataInv'
  <2>0. at[p] = "sent" /\ ~Recovering(p) /\ Known(p)
    BY <1>2 DEF Confirm
  <2> DEFINE j == Confirmed(p)
  <2>1. /\ j.tx = journal.tx /\ j.status = journal.status
        /\ j.admitted = journal.admitted /\ j.pending = {}
        /\ j.recovered = journal.recovered
        /\ j.expected = LocAfter(cmd[p], journal.expected)
    BY <1>1, <2>0 DEF Confirmed, Observed, Journals
  <2> HIDE DEF j
  <2>2. journal' = j
    BY <1>2 DEF Confirm, Publish, j
  <2>3. DataInv'
    BY <1>2, <2>0, <2>1, <2>2, ObservedData DEF Confirm
  <2>4. CASE cmd[p].op = "clean"
    BY <1>1, <1>2, <2>0, <2>3, <2>4, FailStep DEF Confirm
  <2>5. CASE cmd[p].op # "clean"
    <3>1. /\ at' = [at EXCEPT ![p] = "driving"] /\ at'[p] = "driving"
          /\ mem' = [mem EXCEPT ![p] = journal']
      BY <1>2, <2>2, <2>5 DEF Confirm, Publish, Goto, IInv, TypeOK, j
    <3>2. journal.recovered = {}
      BY <1>1, <2>0 DEF ScanKnown, InDrive, InCommand
    <3>3. StatusAgrees(p)' /\ CommandKnown(p)' /\ ScanKnown(p)'
      BY <1>1, <2>0, <2>1, <2>2, <3>1, <3>2 DEF StatusAgrees, CommandKnown,
         ScanKnown, InDrive, InReturn, InRefocus, InRecovery, InCommand
    <3>4. LockInv'
      BY <1>1, <2>0, <3>1, <3>3, ActiveStep DEF LockInv, Points
    <3> QED
      BY <2>3, <3>4
  <2> QED
    BY <2>4, <2>5
<1>3. ASSUME ConfirmConflict(p) PROVE LockInv' /\ DataInv'
  <2>0. at[p] = "sent" /\ ~Recovering(p) /\ Known(p) /\ Fail(p)
    BY <1>3 DEF ConfirmConflict
  <2> DEFINE j == [Observed(p) EXCEPT !.conflict = TRUE]
  <2>1. /\ j.tx = journal.tx /\ j.status = journal.status
        /\ j.admitted = journal.admitted /\ j.pending = {}
        /\ j.recovered = journal.recovered
        /\ j.expected = LocAfter(cmd[p], journal.expected)
    BY <1>1, <2>0 DEF Observed, Journals
  <2> HIDE DEF j
  <2>2. journal' = j
    BY <1>3 DEF ConfirmConflict, j
  <2>3. DataInv'
    BY <1>3, <2>0, <2>1, <2>2, ObservedData DEF ConfirmConflict
  <2> QED
    BY <1>1, <2>0, <2>3, FailStep
<1> QED
  BY <1>2, <1>3

-----------------------------------------------------------------------------
\* The recovery.

\* A recovery opens on what the interrupted driver left.
LEMMA EnterSafe ==
    ASSUME IInv, NEW p \in Procs, Alone(p), RecoverEnter(p) \/ RecoverUnavailable(p)
    PROVE  LockInv' /\ DataInv'
<1>0. journal \in Journals
  BY DEF IInv, TypeOK
<1>1. ASSUME RecoverEnter(p) PROVE LockInv' /\ DataInv'
  <2>0. journal.status \in {"active", "required"}
    BY <1>1 DEF RecoverEnter
  <2> DEFINE c == journal.conflict \/ ~(focus = journal.focusExp)
             j == [journal EXCEPT !.conflict = c]
  <2>1. /\ journal' = j /\ mem' = [mem EXCEPT ![p] = j]
        /\ at' = [at EXCEPT ![p] = "scanning"] /\ at'[p] = "scanning"
        /\ todo'[p] = journal.admitted \ journal.recovered
    BY <1>1 DEF RecoverEnter, Publish, Goto, IInv, TypeOK
  <2>2. c \in BOOLEAN
    BY <1>0 DEF Journals
  <2>3. DataInv'
    BY <1>1, <2>0, <2>1, <2>2, ConflictData DEF RecoverEnter
  <2>4. /\ j.status = journal.status /\ j.admitted = journal.admitted
        /\ j.recovered = journal.recovered
    BY <1>0 DEF Journals
  <2> HIDE DEF j
  <2>5. StatusAgrees(p)' /\ CommandKnown(p)' /\ ScanKnown(p)'
    BY <2>0, <2>1, <2>4 DEF StatusAgrees, CommandKnown, ScanKnown, InDrive,
       InReturn, InRefocus, InRecovery, InCommand
  <2>6. LockInv'
    BY <2>1, <2>5, ActiveStep DEF LockInv, Points
  <2> QED
    BY <2>3, <2>6
<1>2. ASSUME RecoverUnavailable(p) PROVE LockInv' /\ DataInv'
  <2>0. journal.status \in {"active", "required"}
    BY <1>2 DEF RecoverUnavailable
  <2> DEFINE j == [journal EXCEPT !.status = "required"]
  <2>1. /\ journal' = j /\ mem' = [mem EXCEPT ![p] = j]
        /\ at' = [at EXCEPT ![p] = "publishing"] /\ at'[p] = "publishing"
        /\ UNCHANGED <<loc, receipt, parked, unconfirmed>>
    BY <1>2 DEF RecoverUnavailable, Publish, Goto, IInv, TypeOK
  <2>2. /\ j.status = "required" /\ j.admitted = journal.admitted
        /\ j.recovered = journal.recovered /\ j.tx = journal.tx
        /\ j.pending = journal.pending /\ j.expected = journal.expected
    BY <1>0 DEF Journals
  <2> HIDE DEF j
  <2>3. StatusAgrees(p)' /\ CommandKnown(p)' /\ ScanKnown(p)'
    BY <2>1, <2>2 DEF StatusAgrees, CommandKnown, ScanKnown, InDrive, InReturn,
       InRefocus, InRecovery, InCommand, Open
  <2>4. LockInv'
    BY <2>1, <2>3, ActiveStep DEF LockInv, Points
  <2>5. JournalShape' /\ RecoveredReleased' /\ UserPlacementWins'
    BY <2>1, <2>2 DEF IInv, DataInv, JournalShape, RecoveredReleased,
       UserPlacementWins
  <2>6. ReceiptBehind' /\ SettledIsResolved'
    BY <2>0, <2>1, <2>2 DEF IInv, DataInv, ReceiptBehind, ReceiptNeverAhead,
       SettledIsResolved
  <2> QED
    BY <2>4, <2>5, <2>6 DEF DataInv
<1> QED
  BY <1>1, <1>2

\* A window is marked recovered: it is gone, or back home and settled.
LEMMA RecoveredData ==
    ASSUME IInv, NEW w \in Windows, NEW P \in {journal.pending, journal.pending \ {w}},
           w \in journal.admitted, journal.status \in {"active", "required"},
           loc[w] = "gone" \/ (loc[w] = "home" /\ w \notin P),
           unconfirmed \subseteq P,
           journal' = [journal EXCEPT !.recovered = @ \cup {w}, !.pending = P],
           UNCHANGED <<loc, receipt, parked, unconfirmed>>
    PROVE  DataInv'
<1>1. /\ journal'.tx = journal.tx /\ journal'.status = journal.status
      /\ journal'.admitted = journal.admitted /\ journal'.pending = P
      /\ journal'.recovered = journal.recovered \cup {w}
      /\ journal'.expected = journal.expected
  BY DEF IInv, TypeOK, Journals
<1>2. JournalShape' /\ RecoveredReleased' /\ UserPlacementWins'
  BY <1>1 DEF IInv, DataInv, JournalShape, RecoveredReleased, UserPlacementWins
<1>3. ReceiptBehind' /\ SettledIsResolved'
  BY <1>1 DEF IInv, DataInv, ReceiptBehind, ReceiptNeverAhead, SettledIsResolved
<1> QED
  BY <1>2, <1>3 DEF DataInv

\* A recovery that stays in, or returns to, the examination of the windows.
LEMMA ScanningLock ==
    ASSUME IInv, NEW p \in Procs, NEW w \in Windows, InRecovery(p),
           at' = [at EXCEPT ![p] = "scanning"], mem' = [mem EXCEPT ![p] = journal'],
           journal'.status = journal.status, journal'.admitted = journal.admitted,
           todo'[p] = todo[p] \ {w},
           \/ journal'.recovered = journal.recovered \cup {w} /\ fault' = fault
           \/ journal'.recovered = journal.recovered /\ fault'[p]
    PROVE  LockInv'
<1>1. at'[p] = "scanning"
  BY DEF IInv, TypeOK
<1>2. /\ at[p] \notin Resting /\ ScanKnown(p)
      /\ journal.status \in {"active", "required"}
  BY Active DEF InRecovery, InReturn, InRefocus, InCommand, Resting, StatusAgrees, Open
<1>3. StatusAgrees(p)' /\ CommandKnown(p)'
  BY <1>1, <1>2 DEF StatusAgrees, CommandKnown, InCommand
<1>4. ScanKnown(p)'
  BY <1>1, <1>2 DEF ScanKnown, InDrive, InReturn, InRefocus, InRecovery, InCommand
<1> QED
  BY <1>2, <1>3, <1>4, ActiveStep DEF LockInv, Points

\* A recovery that issues a command: the window is in its place and its outcome
\* is known, so the user did not park it and nothing is retried.
LEMMA RecoveryIssueSafe ==
    ASSUME IInv, NEW p \in Procs, NEW op \in RecoveryOps, NEW w,
           NEW P \in SUBSET Windows, journal.pending \subseteq P,
           P \subseteq journal.pending \cup {w}, at[p] = "scanning",
           op = "return" => /\ w \in todo[p] /\ w \in P
                            /\ w \notin parked /\ w \notin unconfirmed,
           op = "refocus" => todo[p] = {} /\ P = journal.pending,
           RecoveryIssue(p, op, w, [journal EXCEPT !.pending = P])
    PROVE  LockInv' /\ DataInv'
<1>0. /\ at[p] \notin Resting /\ mem[p] = journal /\ journal \in Journals
      /\ journal.status \in {"active", "required"} /\ ScanKnown(p)
  BY Active DEF Resting, StatusAgrees, Open
<1> DEFINE k == [journal EXCEPT !.pending = P, !.focusPending = TRUE,
                                !.operations = @ + 1]
           c == [op |-> op, win |-> w, focus |-> FocusAfter(op, w)]
<1>1. [[journal EXCEPT !.pending = P] EXCEPT !.focusPending = TRUE,
                                             !.operations = @ + 1] = k
  BY <1>0 DEF Journals
<1>2. /\ journal' = k /\ mem' = [mem EXCEPT ![p] = k]
      /\ at' = [at EXCEPT ![p] = "issued"] /\ cmd' = [cmd EXCEPT ![p] = c]
      /\ UNCHANGED <<loc, receipt, todo, fault, broken, parked, unconfirmed>>
      /\ ~journal.conflict
  BY <1>0, <1>1 DEF RecoveryIssue, Publish, Goto, RecoveryFocusOwned
<1>3. /\ k.pending = P /\ k.admitted = journal.admitted
      /\ k.recovered = journal.recovered /\ k.status = journal.status
      /\ k.conflict = journal.conflict
  BY <1>0 DEF Journals
<1>4. at'[p] = "issued" /\ cmd'[p] = c
  BY <1>2 DEF IInv, TypeOK
<1>5. op = "return" => w \in journal.admitted \ journal.recovered
  BY <1>0 DEF ScanKnown, InRecovery
<1>6. DataInv'
  BY <1>0, <1>2, <1>5, IntentionData DEF IInv, DataInv, JournalShape, RecoveryOps
<1> HIDE DEF k
<1>7. StatusAgrees(p)'
  BY <1>0, <1>2, <1>3, <1>4 DEF StatusAgrees
<1>8. Recovering(p)' /\ (Moves(c) => op = "return")
  BY <1>4 DEF Recovering, Moves, RecoveryOps
<1>9. CommandKnown(p)'
  BY <1>2, <1>3, <1>4, <1>8 DEF CommandKnown, InCommand
<1>10. ScanKnown(p)'
  BY <1>0, <1>2, <1>3, <1>4, <1>8 DEF ScanKnown, InDrive, InReturn, InRefocus,
     InRecovery, InCommand, Recovering, Returning, RecoveryOps
<1>11. LockInv'
  BY <1>0, <1>2, <1>7, <1>9, <1>10, ActiveStep DEF LockInv, Points
<1> QED
  BY <1>6, <1>11

\* What a refused recovery command publishes: nothing, or the conflict.
LEMMA RefusedData ==
    ASSUME IInv, NEW p \in Procs, at[p] = "scanning", RecoveryRefused(p),
           UNCHANGED <<loc, receipt, parked, unconfirmed>>
    PROVE  /\ DataInv' /\ mem' = [mem EXCEPT ![p] = journal']
           /\ journal'.status = journal.status
           /\ journal'.admitted = journal.admitted
           /\ journal'.recovered = journal.recovered
<1>0. /\ mem[p] = journal /\ journal \in Journals
      /\ journal.status \in {"active", "required"}
  BY Active DEF Resting, StatusAgrees, Open
<1>1. CASE Publish(p, [mem[p] EXCEPT !.conflict = TRUE])
  BY <1>0, <1>1, ConflictData DEF Publish, Journals
<1>2. CASE UNCHANGED <<journal, mem>>
  BY <1>0, <1>2, QuietData DEF IInv, TypeOK
<1> QED
  BY <1>1, <1>2 DEF RecoveryRefused

\* One window of the lot is examined.
LEMMA ScanSafe ==
    ASSUME IInv, NEW p \in Procs, NEW w \in Windows, ScanWindow(p, w)
    PROVE  LockInv' /\ DataInv'
<1>0. at[p] = "scanning" /\ w \in todo[p]
  BY DEF ScanWindow, ScanGone, ScanBlame, ScanHome, ReturnIssue, ReturnRefused
<1>1. /\ at[p] \notin Resting /\ mem[p] = journal /\ journal \in Journals
      /\ journal.status \in {"active", "required"} /\ ScanKnown(p) /\ InRecovery(p)
      /\ at = [at EXCEPT ![p] = "scanning"]
  BY <1>0, Active DEF Resting, StatusAgrees, Open, InRecovery, IInv, TypeOK
<1>2. w \in journal.admitted \ journal.recovered
  BY <1>0, <1>1 DEF ScanKnown
<1>3. w \notin journal.pending => w \notin unconfirmed
  BY DEF IInv, DataInv, JournalShape
<1>4. Returnable(p, w) => w \notin parked
  BY <1>1 DEF Returnable, InPlace, IInv, DataInv, JournalShape, UserPlacementWins
<1>5. ASSUME ScanGone(p, w) PROVE LockInv' /\ DataInv'
  <2>1. journal' = [journal EXCEPT !.recovered = @ \cup {w}]
        /\ mem' = [mem EXCEPT ![p] = journal'] /\ todo'[p] = todo[p] \ {w}
    BY <1>1, <1>5 DEF ScanGone, Publish, Examined, IInv, TypeOK
  <2>2. journal' = [journal EXCEPT !.recovered = @ \cup {w},
                                   !.pending = journal.pending]
    BY <1>1, <2>1 DEF Journals
  <2>3. DataInv'
    BY <1>1, <1>2, <1>5, <2>2, RecoveredData DEF ScanGone, IInv, DataInv, JournalShape
  <2>4. /\ journal'.status = journal.status /\ journal'.admitted = journal.admitted
        /\ journal'.recovered = journal.recovered \cup {w}
    BY <1>1, <2>1 DEF Journals
  <2>5. LockInv'
    BY <1>1, <1>5, <2>1, <2>4, ScanningLock DEF ScanGone
  <2> QED
    BY <2>3, <2>5
<1>6. ASSUME ScanBlame(p, w) PROVE LockInv' /\ DataInv'
  <2>1. /\ UNCHANGED <<loc, journal, receipt, parked, unconfirmed, at, mem>>
        /\ todo'[p] = todo[p] \ {w} /\ fault'[p]
    BY <1>6 DEF ScanBlame, Blame, Examined, IInv, TypeOK
  <2>2. mem' = [mem EXCEPT ![p] = journal']
    BY <1>1, <2>1 DEF IInv, TypeOK
  <2> QED
    BY <1>1, <2>1, <2>2, QuietData, ScanningLock DEF IInv
<1>7. ASSUME ScanHome(p, w) PROVE LockInv' /\ DataInv'
  <2>1. journal' = [journal EXCEPT !.recovered = @ \cup {w}, !.pending = @ \ {w}]
        /\ mem' = [mem EXCEPT ![p] = journal'] /\ todo'[p] = todo[p] \ {w}
    BY <1>1, <1>7 DEF ScanHome, Closed, Publish, Examined, IInv, TypeOK
  <2>2. w \notin journal.pending /\ loc[w] = "home"
    BY <1>1, <1>7 DEF ScanHome, Returnable
  <2>3. UNCHANGED <<loc, receipt, parked, unconfirmed>>
        /\ unconfirmed \subseteq journal.pending \ {w}
    BY <1>3, <1>7, <2>2 DEF ScanHome, IInv, DataInv, JournalShape
  <2>4. DataInv'
    BY <1>1, <1>2, <2>1, <2>2, <2>3, RecoveredData
  <2>5. /\ journal'.status = journal.status /\ journal'.admitted = journal.admitted
        /\ journal'.recovered = journal.recovered \cup {w}
    BY <1>1, <2>1 DEF Journals
  <2>6. UNCHANGED <<at, fault>>
    BY <1>7 DEF ScanHome, Closed
  <2> QED
    BY <1>1, <2>1, <2>4, <2>5, <2>6, ScanningLock
<1>8. ASSUME ReturnIssue(p, w) PROVE LockInv' /\ DataInv'
  <2>1. RecoveryIssue(p, "return", w,
                      [journal EXCEPT !.pending = journal.pending \cup {w}])
    BY <1>1, <1>8 DEF ReturnIssue
  <2>2. w \notin parked /\ w \notin unconfirmed
    BY <1>1, <1>3, <1>4, <1>8 DEF ReturnIssue, Returnable
  <2>3. journal.pending \cup {w} \in SUBSET Windows
    BY <1>1 DEF Journals
  <2> QED
    BY <1>0, <2>1, <2>2, <2>3, RecoveryIssueSafe DEF RecoveryOps
<1>9. ASSUME ReturnRefused(p, w) PROVE LockInv' /\ DataInv'
  <2>1. RecoveryRefused(p) /\ UNCHANGED <<loc, receipt, parked, unconfirmed, at>>
    BY <1>9 DEF ReturnRefused
  <2>2. todo'[p] = todo[p] \ {w} /\ fault'[p]
    BY <1>9 DEF ReturnRefused, Blame, Examined, IInv, TypeOK
  <2>3. /\ DataInv' /\ mem' = [mem EXCEPT ![p] = journal']
        /\ journal'.status = journal.status
        /\ journal'.admitted = journal.admitted
        /\ journal'.recovered = journal.recovered
    BY <1>0, <2>1, RefusedData
  <2> QED
    BY <1>1, <2>1, <2>2, <2>3, ScanningLock
<1> QED
  BY <1>5, <1>6, <1>7, <1>8, <1>9 DEF ScanWindow

\* The return of a window is observed, then recorded.
LEMMA ReturnSafe ==
    ASSUME IInv, NEW p \in Procs
    PROVE  ReturnConfirm(p) \/ ReturnConflict(p) \/ ReturnFailed(p) \/ ReturnClose(p)
               => LockInv' /\ DataInv'
<1>1. ASSUME at[p] = "returned" \/ Returned(p)
      PROVE  /\ at[p] \notin Resting /\ mem[p] = journal /\ journal \in Journals
             /\ journal.status \in {"active", "required"}
             /\ ScanKnown(p) /\ CommandKnown(p) /\ InReturn(p) /\ InRecovery(p)
             /\ Returning(p) /\ cmd[p].win \in todo[p] /\ cmd[p].win \in Windows
             /\ cmd[p].win \in journal.admitted \ journal.recovered
  BY <1>1, Active DEF Returned, Resting, StatusAgrees, Open, ScanKnown, InReturn,
     InRecovery, InCommand, Journals
<1> DEFINE w == cmd[p].win
<1>2. ASSUME Returned(p), Known(p), UNCHANGED <<loc, receipt, parked>>, 
             journal'.tx = journal.tx, journal'.status = journal.status,
             journal'.admitted = journal.admitted,
             journal'.pending = journal.pending,
             journal'.recovered = journal.recovered,
             journal'.expected = [journal.expected EXCEPT ![w] = "home"]
      PROVE  DataInv'
  <2>0. journal.status \in {"active", "required"} /\ journal \in Journals
    BY <1>1, <1>2
  <2>1. JournalShape'
    BY <1>2, <2>0 DEF IInv, DataInv, JournalShape, Known, Journals
  <2>2. RecoveredReleased' /\ UserPlacementWins'
    BY <1>2 DEF IInv, DataInv, RecoveredReleased, UserPlacementWins
  <2>3. ReceiptBehind' /\ SettledIsResolved'
    BY <1>2, <2>0 DEF IInv, DataInv, ReceiptBehind, ReceiptNeverAhead,
       SettledIsResolved
  <2> QED
    BY <2>1, <2>2, <2>3 DEF DataInv
<1>3. ASSUME ReturnConfirm(p) PROVE LockInv' /\ DataInv'
  <2>0. Returned(p) /\ Known(p) /\ UNCHANGED <<loc, receipt, parked, cmd, todo, fault>>
    BY <1>3 DEF ReturnConfirm
  <2> DEFINE j == [journal EXCEPT !.expected[w] = "home", !.focusExp = focus,
                                  !.focusPending = FALSE, !.struct = {Topology}]
  <2>1. journal' = j /\ mem' = [mem EXCEPT ![p] = j]
    BY <1>1, <1>3, <2>0 DEF ReturnConfirm, Publish
  <2>2. /\ j.tx = journal.tx /\ j.status = journal.status
        /\ j.admitted = journal.admitted /\ j.pending = journal.pending
        /\ j.recovered = journal.recovered
        /\ j.expected = [journal.expected EXCEPT ![w] = "home"]
    BY <1>1, <2>0 DEF Journals
  <2> HIDE DEF j
  <2>3. DataInv'
    BY <1>2, <2>0, <2>1, <2>2
  <2>4. at' = [at EXCEPT ![p] = "returned"] /\ at'[p] = "returned"
    BY <1>3 DEF ReturnConfirm, Goto, IInv, TypeOK
  <2>5. StatusAgrees(p)'
    BY <1>1, <2>0, <2>1, <2>2, <2>4 DEF StatusAgrees
  <2>6. CommandKnown(p)'
    BY <2>0, <2>4 DEF CommandKnown, InCommand, Known
  <2>7. ScanKnown(p)'
    BY <1>1, <2>0, <2>1, <2>2, <2>4 DEF ScanKnown, InDrive, InReturn, InRefocus,
       InRecovery, InCommand, Returning
  <2>8. LockInv'
    BY <1>1, <2>0, <2>1, <2>4, <2>5, <2>6, <2>7, ActiveStep DEF LockInv, Points
  <2> QED
    BY <2>3, <2>8
<1>4. ASSUME ReturnConflict(p) PROVE LockInv' /\ DataInv'
  <2>0. Returned(p) /\ Known(p) /\ UNCHANGED <<loc, receipt, parked>>
    BY <1>4 DEF ReturnConflict
  <2> DEFINE j == [journal EXCEPT !.expected[w] = "home", !.conflict = TRUE]
  <2>1. journal' = j /\ mem' = [mem EXCEPT ![p] = j]
    BY <1>1, <1>4, <2>0 DEF ReturnConflict, Publish
  <2>2. /\ j.tx = journal.tx /\ j.status = journal.status
        /\ j.admitted = journal.admitted /\ j.pending = journal.pending
        /\ j.recovered = journal.recovered
        /\ j.expected = [journal.expected EXCEPT ![w] = "home"]
    BY <1>1, <2>0 DEF Journals
  <2> HIDE DEF j
  <2>3. DataInv'
    BY <1>2, <2>0, <2>1, <2>2
  <2>4. /\ at' = [at EXCEPT ![p] = "scanning"]
        /\ todo'[p] = todo[p] \ {w} /\ fault'[p]
    BY <1>4 DEF ReturnConflict, Goto, Blame, Examined, IInv, TypeOK
  <2> QED
    BY <1>1, <2>0, <2>1, <2>2, <2>3, <2>4, ScanningLock
<1>5. ASSUME ReturnFailed(p) PROVE LockInv' /\ DataInv'
  <2>1. at[p] \in {"issued", "sent", "returned"} /\ Blamed(p)
    BY <1>5 DEF ReturnFailed, Returned
  <2> QED
    BY <1>5, <2>1, BlamedLock, QuietData DEF ReturnFailed, IInv
<1>6. ASSUME ReturnClose(p) PROVE LockInv' /\ DataInv'
  <2>0. at[p] = "returned" /\ Home(p)
    BY <1>6 DEF ReturnClose
  <2>1. journal' = [journal EXCEPT !.recovered = @ \cup {w}, !.pending = @ \ {w}]
        /\ mem' = [mem EXCEPT ![p] = journal']
    BY <1>1, <1>6, <2>0 DEF ReturnClose, Closed, Publish
  <2>2. w \in Windows /\ w \notin unconfirmed /\ unconfirmed \subseteq journal.pending
    BY <1>1, <2>0 DEF CommandKnown, IInv, DataInv, JournalShape, Journals
  <2>3. UNCHANGED <<loc, receipt, parked, unconfirmed>> /\ loc[w] = "home"
    BY <1>6, <2>0 DEF ReturnClose, Home
  <2>4. DataInv'
    BY <1>1, <2>0, <2>1, <2>2, <2>3, RecoveredData
  <2>5. /\ at' = [at EXCEPT ![p] = "scanning"] /\ fault' = fault
        /\ todo'[p] = todo[p] \ {w}
    BY <1>6 DEF ReturnClose, Closed, Examined, Goto, IInv, TypeOK
  <2>6. /\ journal'.status = journal.status /\ journal'.admitted = journal.admitted
        /\ journal'.recovered = journal.recovered \cup {w}
    BY <1>1, <2>0, <2>1 DEF Journals
  <2> QED
    BY <1>1, <2>0, <2>1, <2>4, <2>5, <2>6, ScanningLock
<1> QED
  BY <1>3, <1>4, <1>5, <1>6

\* A recovery that ends the examination of the windows, on a faulty issue or
\* with a focus it has proved.
LEMMA VerifyingLock ==
    ASSUME IInv, NEW p \in Procs, InRecovery(p), todo[p] = {},
           at' = [at EXCEPT ![p] = "verifying"], mem' = [mem EXCEPT ![p] = journal'],
           journal'.status = journal.status, journal'.admitted = journal.admitted,
           journal'.recovered = journal.recovered, todo' = todo,
           fault'[p] \/ (fault' = fault /\ ~journal'.conflict /\ ~journal'.focusPending)
    PROVE  LockInv'
<1>1. at'[p] = "verifying"
  BY DEF IInv, TypeOK
<1>2. /\ at[p] \notin Resting /\ ScanKnown(p)
      /\ journal.status \in {"active", "required"}
  BY Active DEF InRecovery, InReturn, InRefocus, InCommand, Resting, StatusAgrees, Open
<1>3. StatusAgrees(p)' /\ CommandKnown(p)'
  BY <1>1, <1>2 DEF StatusAgrees, CommandKnown, InCommand
<1>4. ScanKnown(p)'
  BY <1>1, <1>2 DEF ScanKnown, InDrive, InReturn, InRefocus, InRecovery, InCommand
<1> QED
  BY <1>2, <1>3, <1>4, ActiveStep DEF LockInv, Points

\* The focus is restored, or left to the user.
LEMMA RefocusSafe ==
    ASSUME IInv, NEW p \in Procs
    PROVE  RefocusIssue(p) \/ RefocusRefused(p) \/ RefocusConfirm(p)
               \/ RefocusConflict(p) => LockInv' /\ DataInv'
<1>1. ASSUME ScanDone(p) \/ Refocused(p)
      PROVE  /\ mem[p] = journal /\ journal \in Journals
             /\ journal.status \in {"active", "required"}
             /\ todo[p] = {} /\ InRecovery(p)
  BY <1>1, Active DEF ScanDone, Refocused, Resting, StatusAgrees, Open, ScanKnown,
     InRefocus, InRecovery, InCommand
<1>2. Refocused(p) => ~journal.conflict
  BY Active DEF Refocused, Resting, CommandKnown, InCommand
<1>3. ASSUME RefocusIssue(p) PROVE LockInv' /\ DataInv'
  <2> DEFINE w == IF journal.focusOrigin \in Windows THEN journal.focusOrigin
                                                     ELSE NoWindow
  <2>1. at[p] = "scanning" /\ todo[p] = {} /\ mem[p] = journal /\ journal \in Journals
    BY <1>1, <1>3 DEF RefocusIssue, ScanDone
  <2>2. journal.pending \in SUBSET Windows
        /\ [journal EXCEPT !.pending = journal.pending] = journal
    BY <2>1 DEF Journals
  <2>3. RecoveryIssue(p, "refocus", w, [journal EXCEPT !.pending = journal.pending])
    BY <1>3, <2>1, <2>2 DEF RefocusIssue
  <2> HIDE DEF w
  <2> QED
    BY <2>1, <2>2, <2>3, RecoveryIssueSafe DEF RecoveryOps
<1>4. ASSUME RefocusRefused(p) PROVE LockInv' /\ DataInv'
  <2>1. ScanDone(p) /\ at[p] = "scanning" /\ todo[p] = {}
    BY <1>4 DEF RefocusRefused, ScanDone
  <2>2. UNCHANGED <<loc, receipt, parked, unconfirmed, todo>> /\ fault'[p]
        /\ at' = [at EXCEPT ![p] = "verifying"]
    BY <1>4 DEF RefocusRefused, Goto, IInv, TypeOK
  <2>3. /\ DataInv' /\ mem' = [mem EXCEPT ![p] = journal']
        /\ journal'.status = journal.status
        /\ journal'.admitted = journal.admitted
        /\ journal'.recovered = journal.recovered
    <3>1. CASE RecoveryRefused(p)
      BY <2>1, <2>2, <3>1, RefusedData
    <3>2. CASE UNCHANGED <<journal, mem>>
      BY <1>1, <2>1, <2>2, <3>2, QuietData DEF IInv, TypeOK
    <3> QED
      BY <1>4, <3>1, <3>2 DEF RefocusRefused
  <2> QED
    BY <1>1, <2>1, <2>2, <2>3, VerifyingLock
<1>5. ASSUME RefocusConfirm(p) PROVE LockInv' /\ DataInv'
  <2>0. /\ Refocused(p) /\ UNCHANGED <<loc, receipt, parked, unconfirmed, todo, fault>>
        /\ at' = [at EXCEPT ![p] = "verifying"]
    BY <1>5 DEF RefocusConfirm, Goto
  <2> DEFINE j == [journal EXCEPT !.focusExp = focus, !.focusPending = FALSE,
                                  !.struct = {Topology}]
  <2>1. journal' = j /\ mem' = [mem EXCEPT ![p] = j]
    BY <1>1, <1>5, <2>0 DEF RefocusConfirm, Publish
  <2>2. /\ j.tx = journal.tx /\ j.status = journal.status
        /\ j.admitted = journal.admitted /\ j.pending = journal.pending
        /\ j.recovered = journal.recovered /\ j.expected = journal.expected
        /\ j.conflict = journal.conflict /\ j.focusPending = FALSE
    BY <1>1, <2>0 DEF Journals
  <2> HIDE DEF j
  <2>3. JournalShape' /\ RecoveredReleased' /\ UserPlacementWins'
    BY <2>0, <2>1, <2>2 DEF IInv, DataInv, JournalShape, RecoveredReleased,
       UserPlacementWins
  <2>4. ReceiptBehind' /\ SettledIsResolved'
    BY <1>1, <2>0, <2>1, <2>2 DEF IInv, DataInv, ReceiptBehind, ReceiptNeverAhead,
       SettledIsResolved
  <2>5. LockInv'
    BY <1>1, <1>2, <2>0, <2>1, <2>2, VerifyingLock
  <2> QED
    BY <2>3, <2>4, <2>5 DEF DataInv
<1>6. ASSUME RefocusConflict(p) PROVE LockInv' /\ DataInv'
  <2>0. /\ Refocused(p) /\ UNCHANGED <<loc, receipt, parked, unconfirmed, todo>>
        /\ at' = [at EXCEPT ![p] = "verifying"] /\ fault'[p]
    BY <1>6 DEF RefocusConflict, Goto, IInv, TypeOK
  <2> DEFINE j == [journal EXCEPT !.conflict = TRUE]
  <2>1. journal' = j /\ mem' = [mem EXCEPT ![p] = j]
    BY <1>1, <1>6, <2>0 DEF RefocusConflict, Publish
  <2>2. DataInv'
    BY <1>1, <2>0, <2>1, ConflictData
  <2>3. /\ j.status = journal.status /\ j.admitted = journal.admitted
        /\ j.recovered = journal.recovered
    BY <1>1, <2>0 DEF Journals
  <2> HIDE DEF j
  <2> QED
    BY <1>1, <2>0, <2>1, <2>2, <2>3, VerifyingLock
<1> QED
  BY <1>3, <1>4, <1>5, <1>6

\* The verdict: recovered only when nothing is left to recover.
LEMMA VerdictSafe ==
    ASSUME IInv, NEW p \in Procs, Verdict(p)
    PROVE  LockInv' /\ DataInv'
<1>0. at[p] = "verifying" /\ at[p] \notin Resting
  BY DEF Verdict, Resting
<1>1. /\ mem[p] = journal /\ journal \in Journals /\ ScanKnown(p)
      /\ journal.status \in {"active", "required"}
      /\ InRecovery(p) /\ InRefocus(p)
  BY <1>0, Active DEF StatusAgrees, Open, InRecovery, InRefocus
<1> DEFINE s == IF fault[p] \/ ~StageEmpty THEN "required" ELSE "recovered"
           j == [journal EXCEPT !.status = s]
<1>2. /\ journal' = j /\ mem' = [mem EXCEPT ![p] = j]
      /\ at' = [at EXCEPT ![p] = "publishing"] /\ at'[p] = "publishing"
      /\ UNCHANGED <<loc, receipt, parked, unconfirmed>>
  BY <1>1 DEF Verdict, Publish, Goto, IInv, TypeOK
<1>3. /\ j.tx = journal.tx /\ j.status = s
      /\ j.admitted = journal.admitted /\ j.pending = journal.pending
      /\ j.recovered = journal.recovered /\ j.expected = journal.expected
      /\ j.conflict = journal.conflict /\ j.focusPending = journal.focusPending
  BY <1>1 DEF Journals
<1>4. s \in {"required", "recovered"}
  OBVIOUS
<1>5. s = "recovered" => ~fault[p]
  OBVIOUS
<1> HIDE DEF j, s
<1>6. StatusAgrees(p)' /\ CommandKnown(p)' /\ ScanKnown(p)'
  BY <1>2, <1>3, <1>4 DEF StatusAgrees, CommandKnown, ScanKnown, InDrive, InReturn,
     InRefocus, InRecovery, InCommand, Open
<1>7. LockInv'
  BY <1>0, <1>2, <1>6, ActiveStep DEF LockInv, Points
<1>8. JournalShape' /\ RecoveredReleased' /\ UserPlacementWins'
  BY <1>2, <1>3 DEF IInv, DataInv, JournalShape, RecoveredReleased, UserPlacementWins
<1>9. ReceiptBehind'
  BY <1>1, <1>2, <1>3 DEF IInv, DataInv, ReceiptBehind, ReceiptNeverAhead
<1>10. s = "recovered" => /\ journal.recovered = journal.admitted
                          /\ ~journal.conflict /\ ~journal.focusPending
  BY <1>0, <1>1, <1>5 DEF ScanKnown, IInv, DataInv, JournalShape
<1>11. SettledIsResolved'
  BY <1>2, <1>3, <1>4, <1>10 DEF IInv, DataInv, JournalShape, RecoveredReleased,
     SettledIsResolved
<1> QED
  BY <1>7, <1>8, <1>9, <1>11 DEF DataInv

-----------------------------------------------------------------------------
\* The environment.

\* The user and the end of the anchors' helper change places and focus only.
LEMMA EnvironmentSafe ==
    ASSUME IInv, AnchorExit \/ User
    PROVE  LockInv' /\ DataInv'
<1>1. ASSUME AnchorExit PROVE LockInv' /\ DataInv'
  BY <1>1, QuietLock, QuietData DEF AnchorExit, AnchorGone, IInv
<1>2. ASSUME NEW w \in Windows, NEW place \in {"home", "elsewhere", "gone"},
             loc' = [loc EXCEPT ![w] = place],
             parked' = parked \ {w} \/ (parked' = parked \cup {w} /\ place = "elsewhere"),
             UNCHANGED <<journal, receipt, unconfirmed>>, loc[w] # "gone"
      PROVE  DataInv'
  <2>1. loc \in [Windows -> Places] /\ journal \in Journals
    BY DEF IInv, TypeOK
  <2>2. JournalShape' /\ ReceiptBehind'
    BY <1>2 DEF IInv, DataInv, JournalShape, ReceiptBehind, ReceiptNeverAhead
  <2>3. RecoveredReleased'
    BY <1>2, <2>1 DEF IInv, DataInv, RecoveredReleased, Journals
  <2>4. SettledIsResolved'
    BY <1>2, <2>1 DEF IInv, DataInv, SettledIsResolved, Journals
  <2>5. parked \subseteq Windows
    BY DEF IInv, TypeOK
  <2>6. UserPlacementWins'
    BY <1>2, <2>1, <2>5 DEF IInv, DataInv, UserPlacementWins
  <2> QED
    BY <2>2, <2>3, <2>4, <2>6 DEF DataInv
<1>3. ASSUME NEW w \in Windows, NEW place \in {"home", "elsewhere"}, UserMove(w, place)
      PROVE  LockInv' /\ DataInv'
  <2>1. /\ parked' \subseteq parked \/ \A q \in Procs : at[q] # "issued"
        /\ UNCHANGED <<journal, at, mem, cmd, todo, fault, unconfirmed>>
    BY <1>3 DEF UserMove, InFlight
  <2>2. LockInv'
    BY <2>1, QuietLock DEF IInv
  <2>3. DataInv'
    BY <1>2, <1>3 DEF UserMove
  <2> QED
    BY <2>2, <2>3
<1>4. ASSUME NEW w \in Windows, UserClose(w) PROVE LockInv' /\ DataInv'
  <2>1. LockInv'
    BY <1>4, QuietLock DEF UserClose, IInv
  <2>2. DataInv'
    BY <1>2, <1>4 DEF UserClose
  <2> QED
    BY <2>1, <2>2
<1>5. ASSUME NEW f, UserFocus(f) PROVE LockInv' /\ DataInv'
  BY <1>5, QuietLock, QuietData DEF UserFocus, IInv
<1>6. ASSUME ForeignChange PROVE LockInv' /\ DataInv'
  BY <1>6, QuietLock, QuietData DEF ForeignChange, IInv
<1> QED
  BY <1>1, <1>3, <1>4, <1>5, <1>6 DEF User

-----------------------------------------------------------------------------
\* The invariant.

\* No process is active at first, and no window is in a transaction.
LEMMA InitSafe == Init => IInv
<1> SUFFICES ASSUME Init PROVE IInv
  OBVIOUS
<1>1. \A p \in Procs : at[p] \in Resting
  BY DEF Init, Resting
<1>2. LockInv
  BY <1>1, RestKnowsNothing DEF LockInv, Exclusive, MemIsJournal, PhaseKnown
<1>3. DataInv
  BY DEF Init, EmptyJournal, DataInv, JournalShape, RecoveredReleased, ReceiptBehind,
     ReceiptNeverAhead, UserPlacementWins, SettledIsResolved
<1> QED
  BY <1>2, <1>3, InitType DEF IInv

\* Every step of a driver, by the group it belongs to.
LEMMA DriverSafe ==
    ASSUME IInv, NEW p \in Procs, Drive(p)
    PROVE  LockInv' /\ DataInv'
BY ReceiptSafe, DriveSafe, StopSafe, IssueSafe, SendSafe, ConfirmSafe DEF Drive

\* Every step of a recovery, by the group it belongs to.
LEMMA RecoverSafe ==
    ASSUME IInv, NEW p \in Procs, Recover(p)
    PROVE  LockInv' /\ DataInv'
BY ScanSafe, ReturnSafe, RefocusSafe, VerdictSafe, ReceiptSafe DEF Recover

\* The invariant is inductive.
LEMMA StepSafe == IInv /\ [Next]_jvars => IInv'
<1> SUFFICES ASSUME IInv, [Next]_jvars PROVE IInv'
  OBVIOUS
<1>1. TypeOK'
  BY NextType DEF IInv
<1>2. CASE UNCHANGED jvars
  BY <1>2, QuietLock, QuietData, <1>1 DEF IInv
<1>3. ASSUME NEW p \in Procs, Begin(p) \/ Drive(p) \/ Recover(p) \/ Crash(p)
      PROVE  LockInv' /\ DataInv'
  BY <1>3, BeginSafe, DriverSafe, RecoverSafe, StopSafe
<1>4. ASSUME NEW p \in Procs, Alone(p), Clean(p) \/ EnterRecovery(p)
      PROVE  LockInv' /\ DataInv'
  BY <1>4, IssueSafe, StopSafe, EnterSafe DEF EnterRecovery
<1>5. ASSUME NEW p \in Procs, CrashOutside(p) PROVE LockInv' /\ DataInv'
  BY <1>5, QuietLock, QuietData DEF CrashOutside, IInv
<1> QED
  BY <1>1, <1>2, <1>3, <1>4, <1>5, EnvironmentSafe DEF Next, IInv

\* IInv holds in every reachable state.
THEOREM InvariantHolds == Spec => []IInv
BY InitSafe, StepSafe, PTL DEF Spec

\* An IPC whose outcome was never observed is never followed by another command
\* on its window in the same transaction: recovery.py clears pending only by an
\* observation, and neither command() nor _recover() acts on a pending window.
THEOREM NeverReplayed == Spec => []NoReplay
<1>1. IInv => NoReplay
  BY DEF IInv, LockInv, PhaseKnown, CommandKnown, InCommand, NoReplay
<1> QED
  BY <1>1, InvariantHolds, PTL

\* The place a user gives a window between two commands is never undone, by the
\* driver (AllInPlace) or by a recovery (the window moved, so it is blamed).
THEOREM UserIsNeverUndone == Spec => []UserPlacementWins
<1>1. IInv => UserPlacementWins
  BY DEF IInv, DataInv
<1> QED
  BY <1>1, InvariantHolds, PTL

\* A journal that says complete, or recovered, leaves no living window pending
\* and none on the staging workspace, whatever crashed on the way.
THEOREM SettledMeansResolved == Spec => []SettledIsResolved
<1>1. IInv => SettledIsResolved
  BY DEF IInv, DataInv
<1> QED
  BY <1>1, InvariantHolds, PTL

\* The receipt read by recovery_status never claims more than the journal.
THEOREM ReceiptFollowsJournal == Spec => []ReceiptNeverAhead
<1>1. IInv => ReceiptNeverAhead
  BY DEF IInv, DataInv, ReceiptBehind
<1> QED
  BY <1>1, InvariantHolds, PTL

-----------------------------------------------------------------------------
\* Action properties.

\* A command is sent only by a process whose journal records no conflict.
THEOREM ConflictsFreeze == Spec => ConflictFreezes
<1>1. IInv => \A p \in Procs : at[p] = "issued" /\ at'[p] = "sent" => ~journal.conflict
  BY DEF IInv, LockInv, PhaseKnown, CommandKnown, InCommand
<1> QED
  BY <1>1, InvariantHolds, PTL DEF ConflictFreezes

\* A process that is in the protocol, with an open or a closing journal, leaves
\* a settled journal alone.
LEMMA SettledKept ==
    ASSUME IInv, NEW p \in Procs, journal.status \in {"complete", "recovered"},
           Drive(p) \/ Recover(p) \/ Crash(p)
    PROVE  journal' = journal
<1>1. at[p] \notin Open
  BY Active DEF StatusAgrees, Open, Resting
<1>2. ASSUME Drive(p) PROVE journal' = journal
  <2>1. CompleteReceipt(p)
    BY <1>1, <1>2 DEF Drive, Open, OpenReceipt, Admit, CreateAnchor, Raise,
       BoundaryConflict, Issue, IssueRefused, Send, SendLost, SendRejected, Confirm,
       ConfirmConflict, ConfirmFailed, Complete
  <2> QED
    BY <2>1 DEF CompleteReceipt
<1>3. ASSUME Recover(p) PROVE journal' = journal
  <2>1. CloseReceipt(p)
    BY <1>1, <1>3 DEF Recover, Open, ScanWindow, ScanGone, ScanBlame, ScanHome,
       ReturnIssue, ReturnRefused, ReturnConfirm, ReturnConflict, ReturnFailed,
       ReturnClose, Returned, RefocusIssue, RefocusRefused, ScanDone, Refocused,
       RefocusConfirm, RefocusConflict, Verdict
  <2> QED
    BY <2>1 DEF CloseReceipt
<1>4. ASSUME Crash(p) PROVE journal' = journal
  BY <1>4 DEF Crash
<1> QED
  BY <1>2, <1>3, <1>4

\* Once complete or recovered, a journal changes only by the next transaction.
THEOREM SettledStays == Spec => SettledIsFinal
<1>1. ASSUME IInv, [Next]_jvars, journal.status \in {"complete", "recovered"},
             journal' # journal
      PROVE  journal'.tx = journal.tx + 1
  <2>1. ASSUME NEW p \in Procs, Begin(p) PROVE journal'.tx = journal.tx + 1
    BY <2>1 DEF Begin, Publish, EmptyJournal
  <2>2. ASSUME NEW p \in Procs, Clean(p) \/ EnterRecovery(p) PROVE FALSE
    BY <1>1, <2>2 DEF Clean, EnterRecovery, RecoverSettled, RecoverEnter,
       RecoverUnavailable
  <2>3. ~(AnchorExit \/ User \/ UNCHANGED jvars)
    BY <1>1 DEF AnchorExit, User, UserMove, UserClose, UserFocus, ForeignChange
  <2>4. \A p \in Procs : ~(Drive(p) \/ Recover(p) \/ Crash(p) \/ CrashOutside(p))
    BY <1>1, SettledKept DEF CrashOutside
  <2> QED
    BY <1>1, <2>1, <2>2, <2>3, <2>4 DEF Next
<1>2. IInv /\ [Next]_jvars =>
          [journal.status \in {"complete", "recovered"} /\ journal' # journal
               => journal'.tx = journal.tx + 1]_jvars
  BY <1>1
<1> QED
  BY <1>2, InvariantHolds, PTL DEF SettledIsFinal, Spec

-----------------------------------------------------------------------------
\* The protocol keeps the promise of RestorePromise.

\* Only a window that was admitted is in a place of the transaction.
OnlyAdmitted == \A w \in Windows \ journal.admitted : loc[w] \notin {"stage", "slot"}
PromiseInv == IInv /\ OnlyAdmitted

Unsettled == {"active", "required"}
AsPromised == [Restore!Next]_(Restore!vars) /\ OnlyAdmitted'

\* Of the processes, only the one that steps can steer.
LEMMA OneSteers ==
    ASSUME IInv, NEW p \in Procs, at[p] \notin Resting \/ Alone(p),
           NEW l \in Points, at' = [at EXCEPT ![p] = l]
    PROVE  /\ (\E q \in Procs : Steers(q)) <=> Steers(p)
           /\ (\E q \in Procs : Steers(q)') <=> Steers(p)'
BY OthersRest DEF Steers, Resting

\* A process that is not in the hands of its driver does not steer.
LEMMA StopsSteering ==
    ASSUME IInv, NEW p \in Procs, NEW l, at' = [at EXCEPT ![p] = l],
           l \notin {"opening", "driving", "issued", "sent"}
    PROVE  ~Steers(p)'
BY DEF IInv, TypeOK, Steers

\* An unsettled journal claims nothing.
LEMMA NothingClaimed ==
    /\ journal.status \in Unsettled => ClaimReported = FALSE
    /\ journal'.status \in Unsettled => ClaimReported' = FALSE
BY DEF Unsettled, ClaimReported

\* The phase of an unsettled journal, before and after a step of p.
LEMMA UnsettledPhase ==
    ASSUME IInv, NEW p \in Procs, at[p] \notin Resting \/ Alone(p),
           NEW l \in Points, at' = [at EXCEPT ![p] = l]
    PROVE  /\ journal.status \in Unsettled =>
                  RestorePhase = IF Steers(p) THEN "forward" ELSE "back"
           /\ journal'.status \in Unsettled =>
                  RestorePhase' = IF Steers(p)' THEN "forward" ELSE "back"
BY OneSteers DEF Unsettled, RestorePhase

\* A step that moves no window and claims nothing goes on, or gives up.
LEMMA GoesOn ==
    ASSUME PromiseInv, NEW p \in Procs, at[p] \notin Resting \/ Alone(p),
           NEW l \in Points, at' = [at EXCEPT ![p] = l], UNCHANGED <<loc, parked>>,
           journal.status \in Unsettled, journal'.status \in Unsettled,
           journal'.recovered = journal.recovered,
           journal.admitted \subseteq journal'.admitted, Steers(p)' => Steers(p)
    PROVE  AsPromised
<1>1. OnlyAdmitted'
  BY DEF PromiseInv, OnlyAdmitted
<1>2. /\ RestorePhase = IF Steers(p) THEN "forward" ELSE "back"
      /\ RestorePhase' = IF Steers(p)' THEN "forward" ELSE "back"
  BY UnsettledPhase DEF PromiseInv
<1>3. ClaimReported = FALSE /\ ClaimReported' = FALSE
  BY NothingClaimed
<1>4. Restore!GiveUp \/ UNCHANGED Restore!vars
  BY <1>2, <1>3 DEF Restore!GiveUp, Restore!vars
<1> QED
  BY <1>1, <1>4 DEF AsPromised, Restore!Next

\* A step after which p does not steer, on a journal that stays as it was but
\* for what the promise does not speak of.
LEMMA Stops ==
    ASSUME PromiseInv, NEW p \in Procs, at[p] \notin Resting \/ Alone(p),
           NEW l \in Points, at' = [at EXCEPT ![p] = l],
           l \notin {"opening", "driving", "issued", "sent"},
           UNCHANGED <<loc, parked>>,
           journal.status \in Unsettled, journal'.status \in Unsettled,
           journal'.recovered = journal.recovered,
           journal'.admitted = journal.admitted
    PROVE  AsPromised
BY StopsSteering, GoesOn DEF PromiseInv

\* A step that changes neither the files nor who steers.
LEMMA NothingPromised ==
    ASSUME PromiseInv, UNCHANGED <<loc, fileVars, parked>>,
           \A q \in Procs : Steers(q)' <=> Steers(q)
    PROVE  AsPromised
<1>1. UNCHANGED <<RestorePhase, ClaimReported>>
  BY DEF RestorePhase, ClaimReported
<1> QED
  BY <1>1 DEF AsPromised, Restore!vars, PromiseInv, OnlyAdmitted

\* A driver is at work on an unsettled journal, of which nothing is recovered.
LEMMA AtWork ==
    ASSUME PromiseInv, NEW p \in Procs, at[p] \in Open
    PROVE  /\ at[p] \notin Resting /\ mem[p] = journal /\ journal \in Journals
           /\ journal.status \in Unsettled
           /\ at \in [Procs -> Points] /\ cmd \in [Procs -> Commands]
BY Active DEF PromiseInv, IInv, TypeOK, StatusAgrees, Open, Resting, Unsettled

\* Opening, and what the driver does without a command.
LEMMA DrivePromised ==
    ASSUME PromiseInv, NEW p \in Procs
    PROVE  /\ OpenReceipt(p) => AsPromised
           /\ \A w \in Windows : Admit(p, w) => AsPromised
           /\ CreateAnchor(p) \/ Raise(p) \/ BoundaryConflict(p) => AsPromised
<1>1. ASSUME OpenReceipt(p) PROVE AsPromised
  <2>1. at[p] = "opening" /\ at[p] \in Open
    BY <1>1 DEF OpenReceipt, Open
  <2>2. /\ at' = [at EXCEPT ![p] = "driving"] /\ Steers(p)
        /\ UNCHANGED <<loc, parked, journal>>
    BY <1>1, <2>1 DEF OpenReceipt, Goto, Steers
  <2> QED
    BY <2>1, <2>2, AtWork, GoesOn DEF Points
<1>2. ASSUME NEW w \in Windows, Admit(p, w) PROVE AsPromised
  <2>1. at[p] = "driving" /\ at[p] \in Open
    BY <1>2 DEF Admit, Open
  <2>2. PICK j : /\ j = [mem[p] EXCEPT !.admitted = @ \cup {w}, !.expected[w] = "home"]
                 /\ journal' = j
    BY <1>2 DEF Admit, Publish
  <2>3. /\ j.status = journal.status /\ j.recovered = journal.recovered
        /\ journal.admitted \subseteq j.admitted
    BY <2>1, <2>2, AtWork DEF Journals
  <2>4. at' = [at EXCEPT ![p] = "driving"] /\ Steers(p) /\ UNCHANGED <<loc, parked>>
    BY <1>2, <2>1, AtWork DEF Admit, Steers
  <2> QED
    BY <2>1, <2>2, <2>3, <2>4, AtWork, GoesOn DEF Points
<1>3. ASSUME CreateAnchor(p) PROVE AsPromised
  BY <1>3, NothingPromised DEF CreateAnchor, Steers
<1>4. ASSUME Raise(p) PROVE AsPromised
  BY <1>4, AtWork, Stops DEF Raise, Fail, Goto, Open, Points
<1>5. ASSUME BoundaryConflict(p) PROVE AsPromised
  <2>1. at[p] = "driving" /\ at[p] \in Open
    BY <1>5 DEF BoundaryConflict, Open
  <2>2. /\ journal' = [journal EXCEPT !.conflict = TRUE]
        /\ at' = [at EXCEPT ![p] = "failed"] /\ UNCHANGED <<loc, parked>>
    BY <1>5, <2>1, AtWork DEF BoundaryConflict, RecordConflict, Fail, Goto
  <2>3. /\ journal'.status = journal.status /\ journal'.recovered = journal.recovered
        /\ journal'.admitted = journal.admitted
    BY <2>1, <2>2, AtWork DEF Journals
  <2> QED
    BY <2>1, <2>2, <2>3, AtWork, Stops DEF Points
<1> QED
  BY <1>1, <1>2, <1>3, <1>4, <1>5

\* Announcing a command, or refusing to: the journal keeps what it promised.
LEMMA IntendPromised ==
    ASSUME PromiseInv, NEW p \in Procs, at[p] \notin Resting \/ Alone(p),
           journal.status \in Unsettled, NEW op, NEW w,
           at[p] = "driving" \/ op = "clean",
           Intend(p, journal, op, w) \/ Refuse(p, journal)
    PROVE  AsPromised
<1>0. journal \in Journals /\ at \in [Procs -> Points] /\ cmd \in [Procs -> Commands]
  BY DEF PromiseInv, IInv, TypeOK
<1>1. CASE Intend(p, journal, op, w)
  <2>1. PICK j : /\ j = [journal EXCEPT !.pending = journal.admitted,
                                        !.focusPending = TRUE, !.operations = @ + 1]
                 /\ journal' = j
    BY <1>1 DEF Intend, Publish
  <2>2. /\ j.status = journal.status /\ j.recovered = journal.recovered
        /\ j.admitted = journal.admitted
    BY <2>1, <1>0 DEF Journals
  <2>3. PICK c : c.op = op /\ cmd' = [cmd EXCEPT ![p] = c]
    BY <1>1 DEF Intend
  <2>4. at' = [at EXCEPT ![p] = "issued"] /\ UNCHANGED <<loc, parked>>
    BY <1>1 DEF Intend, Goto
  <2>5. Steers(p)' => Steers(p)
    BY <1>0, <2>3, <2>4 DEF Steers
  <2> QED
    BY <2>1, <2>2, <2>4, <2>5, GoesOn DEF Points
<1>2. CASE Refuse(p, journal)
  <2>1. /\ journal'.status = journal.status /\ journal'.recovered = journal.recovered
        /\ journal'.admitted = journal.admitted
    BY <1>0, <1>2 DEF Refuse, RecordConflict, Journals
  <2>2. at' = [at EXCEPT ![p] = "failed"] /\ UNCHANGED <<loc, parked>>
    BY <1>2 DEF Refuse, RecordConflict, Fail, Goto
  <2> QED
    BY <2>1, <2>2, Stops DEF Points
<1> QED
  BY <1>1, <1>2

\* A command of the driver, and of the guard that removes the anchors.
LEMMA IssuePromised ==
    ASSUME PromiseInv, NEW p \in Procs
    PROVE  /\ \A op, w : Issue(p, op, w) => AsPromised
           /\ IssueRefused(p) => AsPromised
           /\ Alone(p) /\ Clean(p) => AsPromised
<1>1. ASSUME NEW op, NEW w, Issue(p, op, w) PROVE AsPromised
  BY <1>1, AtWork, IntendPromised DEF Issue, Open
<1>2. ASSUME IssueRefused(p) PROVE AsPromised
  BY <1>2, AtWork, IntendPromised DEF IssueRefused, Open
<1>3. ASSUME Alone(p), Clean(p) PROVE AsPromised
  BY <1>3, IntendPromised DEF Clean, CleanIssue, CleanRefused, Unsettled
<1> QED
  BY <1>1, <1>2, <1>3

\* A new transaction begins only over a journal whose receipt agrees with it.
LEMMA BeginPromised ==
    ASSUME PromiseInv, NEW p \in Procs, Begin(p)
    PROVE  AsPromised
<1>1. /\ at[p] = "off" /\ Alone(p) /\ at' = [at EXCEPT ![p] = "opening"]
      /\ loc' = [w \in Windows |-> "home"] /\ parked' = {}
      /\ RecoveryStatus \in {"idle", "complete", "recovered"}
  BY DEF Begin, Goto
<1>2. journal'.status = "active" /\ journal'.recovered = {}
  BY DEF Begin, Publish, EmptyJournal
<1>3. Steers(p)'
  BY <1>1 DEF Steers, PromiseInv, IInv, TypeOK
<1>4. RestorePhase' = "forward"
  BY <1>1, <1>2, <1>3, UnsettledPhase DEF PromiseInv, Points, Unsettled
<1>5. ClaimReported' = FALSE
  BY <1>2, NothingClaimed DEF Unsettled
<1>6. \/ RestorePhase = "idle"
      \/ RestorePhase \in {"complete", "recovered"} /\ ClaimReported
  <2>1. CASE journal.status = "none"
    BY <2>1 DEF RestorePhase
  <2>2. CASE journal.status # "none"
    <3>1. journal.status # "idle"
      BY DEF PromiseInv, IInv, TypeOK, Journals, Statuses
    <3>2. ClaimReported
      BY <1>1, <2>2, <3>1 DEF RecoveryStatus, ClaimReported
    <3> QED
      BY <3>2 DEF RestorePhase, ClaimReported
  <2> QED
    BY <2>1, <2>2
<1>7. Restore!Begin
  BY <1>1, <1>2, <1>4, <1>5, <1>6 DEF Restore!Begin, Restore!Claims
<1> QED
  BY <1>1, <1>7 DEF AsPromised, Restore!Next, OnlyAdmitted

\* A command that is executed moves its own window, forward or back, and never
\* one that the user has put elsewhere or that was returned.
LEMMA AppliedPromised ==
    ASSUME PromiseInv, NEW p \in Procs, at[p] = "issued", Applicable(cmd[p]),
           Apply(cmd[p]), Moves(cmd[p]), UNCHANGED <<fileVars, parked>>,
           NEW l \in Points, at' = [at EXCEPT ![p] = l], Steers(p)' => Steers(p)
    PROVE  AsPromised
<1> DEFINE w == cmd[p].win
           to == Destination(cmd[p].op)
<1>0. /\ at[p] \notin Resting /\ CommandKnown(p) /\ ScanKnown(p)
      /\ journal.status \in Unsettled /\ cmd[p] \in Commands
  BY Active, AtWork DEF PromiseInv, IInv, TypeOK, Open, Resting
<1>1. w \in Windows /\ loc[w] # "gone" /\ loc' = [loc EXCEPT ![w] = to]
  BY <1>0 DEF Moves, Commands, Applicable, Apply, LocAfter
<1>2. w \notin parked /\ w \in journal.admitted
  BY <1>0 DEF CommandKnown, InCommand, PromiseInv, IInv, DataInv, JournalShape
<1>3. OnlyAdmitted'
  BY <1>1, <1>2 DEF OnlyAdmitted, PromiseInv, IInv, TypeOK
<1>4. /\ RestorePhase = IF Steers(p) THEN "forward" ELSE "back"
      /\ RestorePhase' = IF Steers(p)' THEN "forward" ELSE "back"
      /\ UNCHANGED ClaimReported
  BY <1>0, UnsettledPhase DEF PromiseInv, ClaimReported
<1>5. Restore!Move(w, to)
  BY <1>1, <1>2, <1>4 DEF Restore!Move
<1>6. CASE cmd[p].op = "return"
  <2>1. ~Steers(p) /\ to = "home"
    BY <1>6 DEF Steers, RecoveryOps, Destination
  <2>2. w \notin journal.recovered
    BY <1>0, <1>6 DEF ScanKnown, InReturn, InRecovery, InCommand, Returning
  <2> QED
    BY <1>1, <1>3, <1>4, <1>5, <2>1, <2>2 DEF AsPromised, Restore!Next, Restore!Return
<1>7. CASE cmd[p].op \in {"stage", "swap"}
  <2>1. Steers(p) /\ to \in {"stage", "slot"}
    BY <1>7 DEF Steers, RecoveryOps, Destination
  <2> QED
    BY <1>1, <1>3, <1>4, <1>5, <2>1 DEF AsPromised, Restore!Next, Restore!Forward
<1> QED
  BY <1>6, <1>7 DEF Moves

\* The command is sent, executed or not, and answered or not.
LEMMA SendPromised ==
    ASSUME PromiseInv, NEW p \in Procs, Send(p) \/ SendLost(p) \/ SendRejected(p)
    PROVE  AsPromised
<1>0. /\ at[p] = "issued" /\ at[p] \notin Resting /\ journal.status \in Unsettled
      /\ UNCHANGED <<fileVars, parked>> /\ at \in [Procs -> Points]
  BY AtWork DEF Send, SendLost, SendRejected, Resting, Open
<1>1. PICK l \in Points : at' = [at EXCEPT ![p] = l] /\ (Steers(p)' => Steers(p))
  <2>1. CASE Send(p)
    BY <1>0, <2>1 DEF Send, Goto, Steers, Points
  <2>2. CASE Blamed(p)
    <3>1. PICK l \in {"failed", "scanning", "verifying"} : at' = [at EXCEPT ![p] = l]
      BY <2>2 DEF Blamed, Fail, Goto
    <3> QED
      BY <3>1, StopsSteering DEF PromiseInv, Points
  <2> QED
    BY <2>1, <2>2 DEF SendLost, SendRejected
<1>2. CASE Applicable(cmd[p]) /\ Apply(cmd[p]) /\ Moves(cmd[p])
  BY <1>0, <1>1, <1>2, AppliedPromised
<1>3. CASE UNCHANGED loc
  BY <1>0, <1>1, <1>3, GoesOn
<1>4. \/ Applicable(cmd[p]) /\ Apply(cmd[p]) /\ Moves(cmd[p])
      \/ UNCHANGED loc
  BY DEF Send, SendLost, SendRejected, Apply, LocAfter
<1> QED
  BY <1>2, <1>3, <1>4

\* A driver observes what its command did, and goes on or gives up.
LEMMA ConfirmPromised ==
    ASSUME PromiseInv, NEW p \in Procs,
           Confirm(p) \/ ConfirmConflict(p) \/ ConfirmFailed(p)
    PROVE  AsPromised
<1>0. /\ at[p] = "sent" /\ at[p] \in Open /\ ~Recovering(p)
      /\ UNCHANGED <<loc, parked>> /\ mem[p] \in Journals
  BY DEF Confirm, ConfirmConflict, ConfirmFailed, Open, PromiseInv, IInv, TypeOK
<1>1. /\ Observed(p).status = journal.status
      /\ Observed(p).recovered = journal.recovered
      /\ Observed(p).admitted = journal.admitted
      /\ DOMAIN Observed(p) = DOMAIN journal
  BY <1>0, AtWork DEF Observed, Journals
<1>2. CASE Confirm(p)
  <2>1. journal' = Confirmed(p)
    BY <1>2 DEF Confirm, Publish
  <2>2. /\ journal'.status = journal.status /\ journal'.recovered = journal.recovered
        /\ journal'.admitted = journal.admitted
    BY <1>0, <1>1, <2>1, AtWork DEF Confirmed, Journals
  <2>3. CASE cmd[p].op = "clean"
    BY <1>0, <1>2, <2>2, <2>3, AtWork, Stops DEF Confirm, Exit, Goto, Points
  <2>4. CASE cmd[p].op # "clean"
    <3>1. at' = [at EXCEPT ![p] = "driving"] /\ Steers(p)
      BY <1>0, <1>2, <2>4 DEF Confirm, Goto, Steers, Recovering
    <3> QED
      BY <1>0, <2>2, <3>1, AtWork, GoesOn DEF Points
  <2> QED
    BY <2>3, <2>4
<1>3. CASE ConfirmConflict(p)
  <2>1. PICK o : /\ o = Observed(p) /\ journal' = [o EXCEPT !.conflict = TRUE]
                 /\ at' = [at EXCEPT ![p] = "failed"]
    BY <1>3 DEF ConfirmConflict, Fail, Goto
  <2>2. /\ journal'.status = journal.status /\ journal'.recovered = journal.recovered
        /\ journal'.admitted = journal.admitted
    BY <1>0, <1>1, <2>1, AtWork DEF Journals
  <2> QED
    BY <1>0, <2>1, <2>2, AtWork, Stops DEF Points
<1>4. CASE ConfirmFailed(p)
  BY <1>0, <1>4, AtWork, Stops DEF ConfirmFailed, Fail, Goto, Points
<1> QED
  BY <1>2, <1>3, <1>4

\* Whoever takes over a transaction does not steer it.
LEMMA EnterPromised ==
    ASSUME PromiseInv, NEW p \in Procs, Alone(p), EnterRecovery(p)
    PROVE  AsPromised
<1>0. journal \in Journals /\ UNCHANGED <<loc, parked>> /\ at[p] \in Resting
      /\ at \in [Procs -> Points] /\ cmd \in [Procs -> Commands]
  BY DEF PromiseInv, IInv, TypeOK, EnterRecovery, RecoverSettled, RecoverEnter,
     RecoverUnavailable
<1>1. CASE RecoverSettled(p)
  BY <1>0, <1>1, NothingPromised
     DEF RecoverSettled, Exit, Goto, Forget, Idle, Steers, Resting
<1>2. CASE RecoverEnter(p)
  <2>1. PICK j : /\ j = [journal EXCEPT !.conflict = @ \/ ~(focus = journal.focusExp)]
                 /\ journal' = j
    BY <1>2 DEF RecoverEnter, Publish
  <2>2. /\ j.status = journal.status /\ j.recovered = journal.recovered
        /\ j.admitted = journal.admitted
    BY <1>0, <2>1 DEF Journals
  <2>3. at' = [at EXCEPT ![p] = "scanning"] /\ journal.status \in Unsettled
    BY <1>2 DEF RecoverEnter, Goto, Unsettled
  <2> QED
    BY <1>0, <2>1, <2>2, <2>3, Stops DEF Points
<1>3. CASE RecoverUnavailable(p)
  <2>1. PICK j : j = [journal EXCEPT !.status = "required"] /\ journal' = j
    BY <1>3 DEF RecoverUnavailable, Publish
  <2>2. /\ j.status = "required" /\ j.recovered = journal.recovered
        /\ j.admitted = journal.admitted
    BY <1>0, <2>1 DEF Journals
  <2>3. at' = [at EXCEPT ![p] = "publishing"] /\ journal.status \in Unsettled
    BY <1>3 DEF RecoverUnavailable, Goto, Unsettled
  <2>4. journal'.status \in Unsettled
    BY <2>1, <2>2 DEF Unsettled
  <2> QED
    BY <1>0, <2>1, <2>2, <2>3, <2>4, Stops DEF Points
<1> QED
  BY <1>1, <1>2, <1>3 DEF EnterRecovery

\* A window that is closed in the journal is at home, or gone.
LEMMA SettlePromised ==
    ASSUME PromiseInv, NEW p \in Procs, at[p] \in {"scanning", "returned"},
           NEW w \in Windows, loc[w] \in {"home", "gone"},
           NEW P \in SUBSET Windows, at' = [at EXCEPT ![p] = "scanning"],
           journal' = [journal EXCEPT !.recovered = @ \cup {w}, !.pending = P],
           UNCHANGED <<loc, parked>>
    PROVE  AsPromised
<1>0. at[p] \in Open /\ ~Steers(p) /\ ~Steers(p)'
  BY StopsSteering DEF Open, Steers, PromiseInv
<1>1. /\ journal'.status = journal.status /\ journal'.admitted = journal.admitted
      /\ journal'.recovered = journal.recovered \cup {w}
  BY <1>0, AtWork DEF Journals
<1>2. RestorePhase = "back" /\ RestorePhase' = "back"
  BY <1>0, <1>1, AtWork, UnsettledPhase DEF PromiseInv, Points
<1>3. ClaimReported = FALSE /\ ClaimReported' = FALSE
  BY <1>0, <1>1, AtWork, NothingClaimed
<1>4. Restore!Settle(w)
  BY <1>1, <1>2, <1>3 DEF Restore!Settle
<1>5. OnlyAdmitted'
  BY <1>1 DEF PromiseInv, OnlyAdmitted
<1> QED
  BY <1>4, <1>5 DEF AsPromised, Restore!Next

\* A recovery's own command, or its refusal, changes nothing the promise names.
LEMMA RecoveryIssuePromised ==
    ASSUME PromiseInv, NEW p \in Procs, at[p] = "scanning",
           NEW op \in RecoveryOps, NEW w, NEW j \in Journals,
           j.status = journal.status, j.recovered = journal.recovered,
           j.admitted = journal.admitted, RecoveryIssue(p, op, w, j)
    PROVE  AsPromised
<1>0. at[p] \in Open
  BY DEF Open
<1>1. PICK k : /\ k = [j EXCEPT !.focusPending = TRUE, !.operations = @ + 1]
               /\ journal' = k
  BY DEF RecoveryIssue, Publish
<1>2. /\ k.status = journal.status /\ k.recovered = journal.recovered
      /\ k.admitted = journal.admitted
  BY <1>1 DEF Journals
<1>3. PICK c : c.op = op /\ cmd' = [cmd EXCEPT ![p] = c]
  BY DEF RecoveryIssue
<1>4. at' = [at EXCEPT ![p] = "issued"] /\ UNCHANGED <<loc, parked>>
  BY DEF RecoveryIssue, Goto
<1>5. ~Steers(p)'
  BY <1>0, <1>3, <1>4, AtWork DEF Steers
<1> QED
  BY <1>0, <1>1, <1>2, <1>4, <1>5, AtWork, GoesOn DEF Points

\* The refusal of one publishes the conflict, or nothing.
LEMMA RecoveryRefusedPromised ==
    ASSUME PromiseInv, NEW p \in Procs, at[p] = "scanning",
           RecoveryRefused(p) \/ UNCHANGED <<journal, mem>>,
           NEW l \in {"scanning", "verifying"}, at' = [at EXCEPT ![p] = l],
           UNCHANGED <<loc, parked>>
    PROVE  AsPromised
<1>0. at[p] \in Open
  BY DEF Open
<1>1. /\ journal'.status = journal.status /\ journal'.recovered = journal.recovered
      /\ journal'.admitted = journal.admitted
  BY <1>0, AtWork DEF RecoveryRefused, Publish, Journals
<1> QED
  BY <1>0, <1>1, AtWork, Stops DEF Points

\* A recovery examines a window.
LEMMA ScanPromised ==
    ASSUME PromiseInv, NEW p \in Procs, NEW w \in Windows, ScanWindow(p, w)
    PROVE  AsPromised
<1>0. /\ at[p] = "scanning" /\ at[p] \in Open
      /\ UNCHANGED <<loc, parked>>
  BY DEF ScanWindow, ScanGone, ScanBlame, ScanHome, ReturnIssue, ReturnRefused,
     RecoveryIssue, Open
<1>1. CASE ScanGone(p, w)
  <2>1. PICK j : j = [mem[p] EXCEPT !.recovered = @ \cup {w}] /\ journal' = j
    BY <1>1 DEF ScanGone, Publish
  <2>2. /\ journal' = [journal EXCEPT !.recovered = @ \cup {w},
                                      !.pending = journal.pending]
        /\ journal.pending \in SUBSET Windows
    BY <1>0, <2>1, AtWork DEF Journals
  <2>3. at' = [at EXCEPT ![p] = "scanning"] /\ loc[w] = "gone"
    BY <1>0, <1>1, AtWork DEF ScanGone
  <2> QED
    BY <1>0, <2>2, <2>3, SettlePromised
<1>2. CASE ScanBlame(p, w)
  BY <1>0, <1>2, NothingPromised DEF ScanBlame, Steers
<1>3. CASE ScanHome(p, w)
  <2>1. journal' = [mem[p] EXCEPT !.recovered = @ \cup {w}, !.pending = @ \ {w}]
    BY <1>3 DEF ScanHome, Closed, Publish
  <2>2. journal' = [journal EXCEPT !.recovered = @ \cup {w},
                                   !.pending = journal.pending \ {w}]
        /\ journal.pending \ {w} \in SUBSET Windows
    BY <1>0, <2>1, AtWork DEF Journals
  <2>3. at' = [at EXCEPT ![p] = "scanning"] /\ loc[w] = "home"
    BY <1>0, <1>3, AtWork DEF ScanHome
  <2> QED
    BY <1>0, <2>2, <2>3, SettlePromised
<1>4. CASE ReturnIssue(p, w)
  <2>1. PICK j : /\ j = [mem[p] EXCEPT !.pending = @ \cup {w}]
                 /\ RecoveryIssue(p, "return", w, j)
    BY <1>4 DEF ReturnIssue
  <2>2. /\ j \in Journals /\ j.status = journal.status
        /\ j.recovered = journal.recovered /\ j.admitted = journal.admitted
    BY <1>0, <2>1, AtWork DEF Journals
  <2> QED
    BY <1>0, <2>1, <2>2, RecoveryIssuePromised DEF RecoveryOps
<1>5. CASE ReturnRefused(p, w)
  <2>1. at' = [at EXCEPT ![p] = "scanning"]
    BY <1>0, <1>5, AtWork DEF ReturnRefused
  <2> QED
    BY <1>0, <1>5, <2>1, RecoveryRefusedPromised DEF ReturnRefused
<1> QED
  BY <1>1, <1>2, <1>3, <1>4, <1>5 DEF ScanWindow

\* A recovery concludes on the window it has returned.
LEMMA ReturnPromised ==
    ASSUME PromiseInv, NEW p \in Procs,
           ReturnConfirm(p) \/ ReturnConflict(p) \/ ReturnFailed(p) \/ ReturnClose(p)
    PROVE  AsPromised
<1>0. /\ at[p] \in {"sent", "returned"} /\ at[p] \in Open
      /\ UNCHANGED <<loc, parked>>
  BY DEF ReturnConfirm, ReturnConflict, ReturnFailed, ReturnClose, Returned, Open
<1>1. CASE ReturnConfirm(p)
  <2>1. PICK j : /\ j = [mem[p] EXCEPT !.expected[cmd[p].win] = "home",
                                       !.focusExp = focus, !.focusPending = FALSE,
                                       !.struct = {Topology}]
                 /\ journal' = j
    BY <1>1 DEF ReturnConfirm, Publish
  <2>2. /\ j.status = journal.status /\ j.recovered = journal.recovered
        /\ j.admitted = journal.admitted
    BY <1>0, <2>1, AtWork DEF Journals
  <2>3. at' = [at EXCEPT ![p] = "returned"]
    BY <1>1 DEF ReturnConfirm, Goto
  <2> QED
    BY <1>0, <2>1, <2>2, <2>3, AtWork, Stops DEF Points
<1>2. CASE ReturnConflict(p)
  <2>1. PICK j : /\ j = [mem[p] EXCEPT !.expected[cmd[p].win] = "home",
                                       !.conflict = TRUE]
                 /\ journal' = j
    BY <1>2 DEF ReturnConflict, Publish
  <2>2. /\ j.status = journal.status /\ j.recovered = journal.recovered
        /\ j.admitted = journal.admitted
    BY <1>0, <2>1, AtWork DEF Journals
  <2>3. at' = [at EXCEPT ![p] = "scanning"]
    BY <1>2 DEF ReturnConflict, Goto
  <2> QED
    BY <1>0, <2>1, <2>2, <2>3, AtWork, Stops DEF Points
<1>3. CASE ReturnFailed(p)
  <2>1. PICK l \in {"failed", "scanning", "verifying"} : at' = [at EXCEPT ![p] = l]
    BY <1>3 DEF ReturnFailed, Blamed, Fail, Goto
  <2> QED
    BY <1>0, <1>3, <2>1, AtWork, Stops DEF ReturnFailed, Points
<1>4. CASE ReturnClose(p)
  <2> DEFINE w == cmd[p].win
  <2>1. cmd[p] \in Commands /\ w \in Windows /\ loc[w] = "home"
    BY <1>0, <1>4, AtWork DEF ReturnClose, Returning, Home, Commands
  <2>2. journal' = [mem[p] EXCEPT !.recovered = @ \cup {w}, !.pending = @ \ {w}]
    BY <1>4 DEF ReturnClose, Closed, Publish
  <2>3. journal' = [journal EXCEPT !.recovered = @ \cup {w},
                                   !.pending = journal.pending \ {w}]
        /\ journal.pending \ {w} \in SUBSET Windows
    BY <1>0, <2>2, AtWork DEF Journals
  <2>4. at[p] = "returned" /\ at' = [at EXCEPT ![p] = "scanning"]
    BY <1>4 DEF ReturnClose, Goto
  <2> QED
    BY <1>0, <2>1, <2>3, <2>4, SettlePromised
<1> QED
  BY <1>1, <1>2, <1>3, <1>4

\* A recovery restores the focus.
LEMMA RefocusPromised ==
    ASSUME PromiseInv, NEW p \in Procs,
           RefocusIssue(p) \/ RefocusRefused(p) \/ RefocusConfirm(p) \/ RefocusConflict(p)
    PROVE  AsPromised
<1>0. /\ at[p] \in {"scanning", "sent"} /\ at[p] \in Open
  BY DEF RefocusIssue, RefocusRefused, RefocusConfirm, RefocusConflict, ScanDone,
     Refocused, Open
<1>1. CASE RefocusIssue(p)
  <2>1. at[p] = "scanning" /\ \E w : RecoveryIssue(p, "refocus", w, mem[p])
    BY <1>1 DEF RefocusIssue, ScanDone
  <2> QED
    BY <1>0, <2>1, AtWork, RecoveryIssuePromised DEF RecoveryOps
<1>2. CASE RefocusRefused(p)
  BY <1>2, RecoveryRefusedPromised DEF RefocusRefused, ScanDone, Goto
<1>3. CASE RefocusConfirm(p) \/ RefocusConflict(p)
  <2>1. /\ journal'.status = journal.status /\ journal'.recovered = journal.recovered
        /\ journal'.admitted = journal.admitted
    BY <1>0, <1>3, AtWork DEF RefocusConfirm, RefocusConflict, Publish, Journals
  <2>2. at' = [at EXCEPT ![p] = "verifying"] /\ UNCHANGED <<loc, parked>>
    BY <1>3 DEF RefocusConfirm, RefocusConflict, Goto
  <2> QED
    BY <1>0, <2>1, <2>2, AtWork, Stops DEF Points
<1> QED
  BY <1>1, <1>2, <1>3

\* What a process claims it claims of windows that are where it says.
LEMMA ClaimPromised ==
    ASSUME PromiseInv, NEW p \in Procs
    PROVE  Complete(p) \/ Verdict(p) => AsPromised
<1>1. ASSUME Complete(p) PROVE AsPromised
  <2>1. at[p] = "driving" /\ at[p] \in Open /\ Steers(p) /\ UNCHANGED <<loc, parked>>
    BY <1>1 DEF Complete, Open, Steers
  <2>2. PICK j : j = [mem[p] EXCEPT !.status = "complete"] /\ journal' = j
    BY <1>1 DEF Complete, Publish
  <2>3. /\ journal'.status = "complete" /\ journal'.recovered = journal.recovered
        /\ journal'.admitted = journal.admitted /\ journal'.tx = journal.tx
    BY <2>1, <2>2, AtWork DEF Journals
  <2>4. RestorePhase = "forward" /\ RestorePhase' = "complete"
    BY <2>1, <2>3, AtWork DEF RestorePhase, Unsettled
  <2>5. ClaimReported = FALSE /\ ClaimReported' = FALSE
    BY <1>1, <2>1, <2>3, AtWork
       DEF Complete, ClaimReported, PromiseInv, IInv, DataInv, ReceiptBehind,
           ReceiptNeverAhead, Unsettled
  <2>6. Restore!Complete
    BY <1>1, <2>1, <2>3, <2>4, <2>5 DEF Restore!Complete, Complete, FinalTreeVerified
  <2>7. OnlyAdmitted'
    BY <2>1, <2>3 DEF PromiseInv, OnlyAdmitted
  <2> QED
    BY <2>6, <2>7 DEF AsPromised, Restore!Next
<1>2. ASSUME Verdict(p) PROVE AsPromised
  <2>1. /\ at[p] = "verifying" /\ at[p] \in Open /\ ~Steers(p)
        /\ UNCHANGED <<loc, parked, receipt>> /\ at' = [at EXCEPT ![p] = "publishing"]
    BY <1>2 DEF Verdict, Open, Steers, Goto
  <2>2. PICK s : /\ s = (IF fault[p] \/ ~StageEmpty THEN "required" ELSE "recovered")
                 /\ journal' = [mem[p] EXCEPT !.status = s]
    BY <1>2 DEF Verdict, Publish
  <2>3. /\ journal'.status = s /\ journal'.recovered = journal.recovered
        /\ journal'.admitted = journal.admitted /\ journal'.tx = journal.tx
    BY <2>1, <2>2, AtWork DEF Journals
  <2>4. CASE s = "required"
    BY <2>1, <2>3, <2>4, AtWork, Stops DEF Points, Unsettled
  <2>5. CASE s = "recovered"
    <3>1. StageEmpty /\ ~fault[p]
      BY <2>2, <2>5
    <3>2. journal.recovered = journal.admitted
      BY <2>1, <3>1, AtWork, Active
         DEF PromiseInv, ScanKnown, InRecovery, InRefocus, IInv, DataInv, JournalShape
    <3>3. \A w \in Windows : loc[w] \notin {"stage", "slot"}
      BY <3>2 DEF PromiseInv, OnlyAdmitted, IInv, DataInv, RecoveredReleased
    <3>4. RestorePhase = "back" /\ RestorePhase' = "recovered"
      BY <2>1, <2>3, <2>5, AtWork, UnsettledPhase
         DEF RestorePhase, Unsettled, PromiseInv, Points
    <3>5. ClaimReported = FALSE /\ ClaimReported' = FALSE
      BY <2>1, <2>3, <2>5, AtWork
         DEF ClaimReported, PromiseInv, IInv, DataInv, ReceiptBehind,
             ReceiptNeverAhead, Unsettled
    <3>6. Restore!Recovered
      BY <2>1, <2>3, <3>3, <3>4, <3>5 DEF Restore!Recovered
    <3>7. OnlyAdmitted'
      BY <2>1, <2>3 DEF PromiseInv, OnlyAdmitted
    <3> QED
      BY <3>6, <3>7 DEF AsPromised, Restore!Next
  <2> QED
    BY <2>2, <2>4, <2>5
<1> QED
  BY <1>1, <1>2

\* The receipt reports the claim that the journal makes, if it makes one.
LEMMA ReportPromised ==
    ASSUME PromiseInv, NEW p \in Procs, CompleteReceipt(p) \/ CloseReceipt(p)
    PROVE  AsPromised
<1>0. /\ at[p] \in {"completing", "publishing"} /\ at[p] \notin Resting
      /\ mem[p] = journal /\ journal \in Journals
      /\ journal.status \in {"complete", "recovered", "required"}
  BY Active DEF CompleteReceipt, CloseReceipt, PromiseInv, StatusAgrees, Resting
<1>1. /\ receipt' = [tx |-> journal.tx, status |-> journal.status]
      /\ at' = [at EXCEPT ![p] = "off"] /\ UNCHANGED <<loc, parked, journal>>
  BY <1>0, Active
     DEF CompleteReceipt, CloseReceipt, PublishReceipt, Exit, Goto, StatusAgrees,
         PromiseInv
<1>2. CASE journal.status = "required"
  BY <1>0, <1>1, <1>2, Stops DEF Points, Unsettled
<1>3. CASE journal.status \in {"complete", "recovered"}
  <2>1. RestorePhase = journal.status /\ RestorePhase' = journal.status
    BY <1>1, <1>3 DEF RestorePhase
  <2>2. ClaimReported'
    BY <1>1, <1>3 DEF ClaimReported
  <2>3. Restore!Report
    BY <1>1, <1>3, <2>1, <2>2 DEF Restore!Report, Restore!Claims
  <2> QED
    BY <1>1, <2>3 DEF AsPromised, Restore!Next, PromiseInv, OnlyAdmitted
<1> QED
  BY <1>0, <1>2, <1>3

\* A process that dies gives up what it was driving; what it has claimed, or
\* reported, is as it was.
LEMMA CrashPromised ==
    ASSUME PromiseInv, NEW p \in Procs, Crash(p)
    PROVE  AsPromised
<1>0. /\ at' = [at EXCEPT ![p] = "off"] /\ UNCHANGED <<loc, parked, fileVars>>
      /\ \A q \in Procs \ {p} : cmd'[q] = cmd[q] /\ at'[q] = at[q]
      /\ ~Steers(p)'
  BY StopsSteering
     DEF Crash, Exit, Goto, Forget, Idle, PromiseInv, IInv, TypeOK
<1>1. CASE at[p] \in Open
  BY <1>0, <1>1, AtWork, Stops DEF Points
<1>2. CASE at[p] \notin Open
  BY <1>0, <1>2, NothingPromised DEF Steers, Open
<1> QED
  BY <1>1, <1>2

\* The user, and the anchor helper's end.
LEMMA EnvironmentPromised ==
    ASSUME PromiseInv, AnchorExit \/ User
    PROVE  AsPromised
<1>1. CASE UNCHANGED <<loc, fileVars, at, cmd, parked>>
  BY <1>1, NothingPromised DEF Steers
<1>2. ASSUME NEW w \in Windows,
             UserClose(w) \/ \E to \in {"home", "elsewhere"} : UserMove(w, to)
      PROVE  AsPromised
  <2>1. PICK to \in {"home", "elsewhere", "gone"} :
            /\ loc[w] # "gone" /\ loc' = [loc EXCEPT ![w] = to]
            /\ \/ parked' = parked \ {w}
               \/ to = "elsewhere" /\ parked' = parked \cup {w}
            /\ UNCHANGED <<fileVars, at, cmd>>
    BY <1>2 DEF UserClose, UserMove
  <2>2. UNCHANGED <<RestorePhase, ClaimReported>>
    BY <2>1 DEF RestorePhase, ClaimReported, Steers
  <2>3. Restore!User(w)
    BY <2>1, <2>2 DEF Restore!User
  <2>4. OnlyAdmitted'
    BY <2>1 DEF PromiseInv, OnlyAdmitted, IInv, TypeOK
  <2> QED
    BY <2>3, <2>4 DEF AsPromised, Restore!Next
<1> QED
  BY <1>1, <1>2 DEF AnchorExit, AnchorGone, User, UserFocus, ForeignChange

\* Every step of the protocol is one of the promise.
LEMMA StepPromised == ASSUME PromiseInv, [Next]_jvars PROVE AsPromised
<1>1. ASSUME NEW p \in Procs, Drive(p) PROVE AsPromised
  BY <1>1, DrivePromised, IssuePromised, SendPromised, ConfirmPromised, ClaimPromised,
     ReportPromised DEF Drive
<1>2. ASSUME NEW p \in Procs, Recover(p) PROVE AsPromised
  BY <1>2, ScanPromised, ReturnPromised, RefocusPromised, ClaimPromised,
     ReportPromised DEF Recover
<1>3. ASSUME NEW p \in Procs, Alone(p), Clean(p) \/ EnterRecovery(p) PROVE AsPromised
  BY <1>3, IssuePromised, EnterPromised
<1>4. CASE UNCHANGED <<loc, fileVars, at, cmd, parked>>
  BY <1>4, NothingPromised DEF Steers
<1> QED
  BY <1>1, <1>2, <1>3, <1>4, BeginPromised, CrashPromised, EnvironmentPromised
     DEF Next, CrashOutside

\* Whatever crashes, is lost or is moved meanwhile, the journal protocol keeps
\* the promise of RestorePromise (recovery.py as a whole, with the admission of
\* executor.py): windows go forward, or back, but never back and forth; a claim
\* describes the whole desktop; and a restore whose claim was not published
\* (_recover's last two statements) is followed by no other.
THEOREM PromiseIsKept == Spec => PromiseKept
<1>1. Init => Restore!Init /\ OnlyAdmitted
  BY DEF Init, EmptyJournal, Restore!Init, RestorePhase, ClaimReported, OnlyAdmitted
<1>2. PromiseInv /\ [Next]_jvars => PromiseInv' /\ [Restore!Next]_(Restore!vars)
  BY StepPromised, StepSafe DEF PromiseInv, AsPromised
<1> QED
  BY <1>1, <1>2, InitSafe, PTL DEF Spec, PromiseKept, Restore!Spec, PromiseInv

=============================================================================
