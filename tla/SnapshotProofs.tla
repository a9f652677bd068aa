--------------------------- MODULE SnapshotProofs ---------------------------
(***************************************************************************)
(* What two helpers say of a world that changes under them was true of one *)
(* state of it.  A report that a backup leaves on the device names a state *)
(* of the library, for any photos and any number of edits, runs, unplugs   *)
(* and kills; a panel is given no preview that another unlocked period     *)
(* captured, for any windows and any number of batches, panels and locks.  *)
(***************************************************************************)
EXTENDS PhotoBackup, OverviewCapture, TLAPS

-----------------------------------------------------------------------------
(* The photo backup. *)

\* Each mount but the first follows an unplug.
MountsBounded ==
    used.mounts <= used.trouble + (IF device.mount = 0 THEN 0 ELSE 1)

\* A run that has reported finds its report.
Reported ==
    saving.pc \in {"confirm", "result"} => \E r \in reports : r.listed = saving.listed

TypeInv == BackupTypeOK /\ MountsBounded /\ Reported

\* The run has synchronised its copies.
Synced == saving.pc \in {"verify", "recheck", "probe", "report", "confirm", "result"}
FoundEqual(f) == saving.listed[f] # 0 /\ (saving.pc = "verify" => f \notin saving.todo)
Rechecked(f) ==
    \/ saving.pc \in {"probe", "report", "confirm", "result"}
    \/ saving.pc = "recheck" /\ f \notin saving.todo

\* The next version is one that nobody has listed.
Fresh == \A f \in Photos : library[f] <= used.shots /\ saving.listed[f] <= used.shots

\* The states lived through include the present one; a photo that has the
\* listed version now had it all that time, as versions do not return.
Lived ==
    /\ Synced <=> saving.seen # {}
    /\ Synced => library \in saving.seen
    /\ \A f \in Photos : saving.listed[f] # 0 /\ library[f] = saving.listed[f] =>
         \A lib \in saving.seen : lib[f] = saving.listed[f]

\* What the run has looked at so far is a snapshot, and absences were ones.
SnapshotSoFar ==
    Synced =>
      /\ \E lib \in saving.seen : \A f \in Photos : FoundEqual(f) => lib[f] = saving.listed[f]
      /\ \A f \in Photos : saving.listed[f] = 0 /\ Rechecked(f) =>
           \E lib \in saving.seen : lib[f] = 0

\* What was verified is on the device, and an unplug does not lose it.
Stored ==
    Synced =>
      /\ device.durable = device.now
      /\ \A f \in Photos : FoundEqual(f) => device.now[f].copy = saving.listed[f]

\* A directory has every reported version.
Keeps(directory) ==
    \A r \in reports, f \in Photos : r.listed[f] # 0 =>
      r.listed[f] \in {directory[f].copy} \cup directory[f].kept
ReportsKept == Keeps(device.now) /\ Keeps(device.durable)

Known ==
    /\ status.last \in reports \cup {NoReport}
    /\ status.phase = "success" => status.last \in reports

RunInv == TypeInv /\ Fresh /\ Lived /\ SnapshotSoFar /\ Stored
ReportsInv == ReportsKept /\ Known /\ \A r \in reports : IsSnapshot(r)
BackupInv == RunInv /\ ReportsInv

-----------------------------------------------------------------------------
(* Types. *)

\* The first state of library, device and status is well-formed.
LEMMA TypeInit == BackupInit => TypeInv
<1>1. Absence \in [Photos -> Shots] /\ 1 \in Shots
  BY BackupAssumption DEF Absence, Shots
<1> QED
  BY <1>1, BackupAssumption
  DEF BackupInit, TypeInv, BackupTypeOK, MountsBounded, Reported, NotSaving, NoReport, Reports,
      Directories, Shots, BackupPcs

\* No step of a run, of the device or of the library leaves the types.
LEMMA TypeStep == TypeInv /\ [BackupNext]_pvars => TypeInv'
<1> SUFFICES ASSUME TypeInv, [BackupNext]_pvars PROVE TypeInv'
  OBVIOUS
<1> USE BackupAssumption DEF TypeInv, BackupTypeOK, MountsBounded, Reported
<1>0. Absence \in [Photos -> Shots] /\ 0 \in Shots
  BY DEF Absence, Shots
<1>1. ASSUME NEW f \in Photos, Shoot(f) PROVE TypeInv'
  <2>1. used'.shots \in Shots /\ library' \in [Photos -> Shots]
    BY <1>1 DEF Shoot, Shots
  <2> QED
    BY <1>1, <2>1 DEF Shoot, Witness
<1>2. ASSUME NEW f \in Photos, Discard(f) PROVE TypeInv'
  <2>1. library' \in [Photos -> Shots]
    BY <1>0, <1>2 DEF Discard
  <2> QED
    BY <1>2, <2>1 DEF Discard, Witness
<1>3. CASE Unplug
  <2>1. PICK lost \in SUBSET Photos :
          device' = [mount |-> 0,
                     now |-> [f \in Photos |-> IF f \in lost THEN device.durable[f] ELSE device.now[f]],
                     durable |-> [f \in Photos |-> IF f \in lost THEN device.durable[f] ELSE device.now[f]]]
    BY <1>3 DEF Unplug
  <2>2. device'.now \in Directories /\ device'.durable \in Directories /\ device'.mount = 0
    BY <2>1 DEF Directories
  <2>3. device' \in [mount : 0..(MaxTrouble + 1), now : Directories, durable : Directories]
    BY <2>1, <2>2
  <2> QED
    BY <1>3, <2>2, <2>3 DEF Unplug, Trouble
<1>4. CASE Plug
  BY <1>4 DEF Plug
<1>5. CASE StartBackup
  BY <1>5 DEF StartBackup, BackupPcs
<1>6. CASE Abort
  BY <1>0, <1>6 DEF Abort, NotSaving, BackupPcs, Media, Undisturbed
<1>7. CASE KillBackup
  BY <1>0, <1>7 DEF KillBackup, NotSaving, BackupPcs, Trouble
<1>8. CASE OpenDestination
  BY <1>8 DEF OpenDestination, BackupPcs, Media, Undisturbed
<1>9. ASSUME NEW f \in Photos, List(f) PROVE TypeInv'
  <2>1. [saving.listed EXCEPT ![f] = library[f]] \in [Photos -> Shots]
    OBVIOUS
  <2> QED
    BY <1>9, <2>1 DEF List, BackupPcs, Media, Undisturbed
<1>10. ASSUME NEW f \in Photos, Copy(f) PROVE TypeInv'
  <2>1. device' \in [mount : 0..(MaxTrouble + 1), now : Directories, durable : Directories]
        /\ device'.mount = device.mount
    <3>1. CASE library[f] = 0
      BY <1>10, <3>1 DEF Copy
    <3>2. CASE library[f] # 0
      <4>1. PICK data \in {library[f], Torn} : device' = [device EXCEPT !.now[f] = Replaced(@, data)]
        BY <1>10, <3>2 DEF Copy
      <4>2. Replaced(device.now[f], data) \in [copy : Shots \cup {Torn}, kept : SUBSET (Shots \cup {Torn})]
        BY DEF Replaced, Directories
      <4> QED
        BY <4>1, <4>2 DEF Directories
    <3> QED
      BY <3>1, <3>2
  <2>2. used' \in [shots : Shots, discards : 0..MaxDiscards, backups : 0..MaxBackups,
                   trouble : 0..MaxTrouble, mounts : 1..(MaxTrouble + 1)]
        /\ used'.mounts = used.mounts /\ used'.trouble >= used.trouble
    BY <1>10 DEF Copy, Trouble
  <2>3. PICK pc \in {"copy", "sync"}, todo \in SUBSET Photos, code \in 0..1 :
          saving' = [saving EXCEPT !.todo = todo, !.pc = pc, !.code = code]
    <3> DEFINE rest == saving.todo \ {f}
               next == IF rest = {} THEN "sync" ELSE "copy"
               exit == IF library[f] = 0 THEN 1 ELSE saving.code
    <3>1. rest \in SUBSET Photos /\ next \in {"copy", "sync"} /\ exit \in 0..1
      OBVIOUS
    <3>2. saving' = [saving EXCEPT !.todo = rest, !.pc = next, !.code = exit]
      BY <1>10 DEF Copy
    <3> HIDE DEF rest, next, exit
    <3> QED
      BY <3>1, <3>2
  <2>4. saving' \in [pc : BackupPcs, mount : 0..(MaxTrouble + 1),
                     listed : [Photos -> Shots], todo : SUBSET Photos, code : 0..1,
                     seen : SUBSET [Photos -> Shots]]
        /\ saving'.pc \in {"copy", "sync"}
    BY <2>3 DEF BackupPcs
  <2>5. UNCHANGED <<library, reports, status>>
    BY <1>10 DEF Copy
  <2>6. BackupTypeOK'
    BY <2>1, <2>2, <2>4, <2>5
  <2>7. MountsBounded'
    <3>1. used.trouble \in Nat /\ used'.trouble \in Nat /\ used.mounts \in Nat
      BY <2>2
    <3> QED
      BY <2>1, <2>2, <3>1
  <2>8. Reported'
    BY <2>4
  <2> QED
    BY <2>6, <2>7, <2>8
<1>11. CASE SyncFilesystem
  BY <1>11 DEF SyncFilesystem, BackupPcs, Undisturbed
<1>12. ASSUME NEW f \in Photos, Verify(f) \/ SecondInventory(f) PROVE TypeInv'
  <2>1. PICK pc \in {"verify", "recheck", "probe"}, todo \in SUBSET Photos :
          saving' = [saving EXCEPT !.pc = pc, !.todo = todo]
    <3>1. CASE Verify(f)
      BY <3>1 DEF Verify, SavingGoes
    <3>2. CASE SecondInventory(f)
      BY <3>2 DEF SecondInventory, SavingGoes
    <3> QED
      BY <1>12, <3>1, <3>2
  <2>2. UNCHANGED <<library, device, reports, status, used>>
    BY <1>12 DEF Verify, SecondInventory, Media, Undisturbed
  <2> QED
    BY <2>1, <2>2 DEF BackupPcs
<1>13. CASE ProbeAgain
  BY <1>13 DEF ProbeAgain, SavingGoes, BackupPcs, Media, Undisturbed
<1>14. CASE Report
  <2>1. [listed |-> saving.listed, seen |-> saving.seen] \in Reports
    BY DEF Reports
  <2>2. saving' = [saving EXCEPT !.pc = "confirm", !.todo = {}]
        /\ reports' = reports \cup {[listed |-> saving.listed, seen |-> saving.seen]}
        /\ UNCHANGED <<library, device, status, used>>
    BY <1>14 DEF Report, SavingGoes, Undisturbed
  <2>3. reports' \subseteq Reports /\ Reported'
    BY <2>1, <2>2
  <2> QED
    BY <2>2, <2>3 DEF BackupPcs
<1>15. CASE ProbeAtEnd
  BY <1>15 DEF ProbeAtEnd, SavingGoes, BackupPcs, Undisturbed
<1>16. CASE BackupSucceeds
  <2>1. PICK r \in reports : r.listed = saving.listed
    BY <1>16 DEF BackupSucceeds
  <2>2. (CHOOSE q \in reports : q.listed = saving.listed) \in reports
    BY <2>1
  <2> QED
    BY <1>0, <1>16, <2>2 DEF BackupSucceeds, NotSaving, BackupPcs, Media, Undisturbed
<1>17. CASE UNCHANGED pvars
  BY <1>17 DEF pvars
<1> QED
  BY <1>1, <1>2, <1>3, <1>4, <1>5, <1>6, <1>7, <1>8, <1>9, <1>10, <1>11, <1>12, <1>13,
     <1>14, <1>15, <1>16, <1>17 DEF BackupNext

-----------------------------------------------------------------------------
(* What a run knows. *)

\* Versions grow with the count of edits, and a run lists only what was.
LEMMA FreshStep == BackupTypeOK /\ Fresh /\ [BackupNext]_pvars => Fresh'
<1> SUFFICES ASSUME BackupTypeOK, Fresh, [BackupNext]_pvars PROVE Fresh'
  OBVIOUS
<1>0. used.shots \in Nat /\ \A f \in Photos : library[f] \in Nat /\ saving.listed[f] \in Nat
  BY BackupAssumption DEF BackupTypeOK, Shots
<1>1. ASSUME NEW f \in Photos, Shoot(f) PROVE Fresh'
  BY <1>0, <1>1 DEF Shoot, Witness, Fresh, BackupTypeOK
<1>2. ASSUME NEW f \in Photos, Discard(f) PROVE Fresh'
  BY <1>0, <1>2 DEF Discard, Witness, Fresh, BackupTypeOK
<1>3. ASSUME NEW f \in Photos, List(f) PROVE Fresh'
  BY <1>0, <1>3 DEF List, Undisturbed, Fresh, BackupTypeOK
<1>4. ASSUME library' = library, used'.shots = used.shots,
             saving'.listed = saving.listed \/ saving' = NotSaving
      PROVE  Fresh'
  BY <1>0, <1>4 DEF NotSaving, Absence, Fresh
<1>5. CASE Unplug \/ Plug \/ StartBackup
  BY <1>4, <1>5 DEF Unplug, Trouble, Plug, StartBackup, BackupTypeOK
<1>6. CASE Abort \/ KillBackup \/ OpenDestination
  BY <1>4, <1>6 DEF Abort, KillBackup, Trouble, OpenDestination, Undisturbed, BackupTypeOK
<1>7. ASSUME NEW f \in Photos, Copy(f) PROVE Fresh'
  BY <1>4, <1>7 DEF Copy, Trouble, BackupTypeOK
<1>8. ASSUME NEW f \in Photos, Verify(f) \/ SecondInventory(f) PROVE Fresh'
  <2>1. saving'.listed = saving.listed /\ UNCHANGED <<library, used>>
    BY <1>8 DEF Verify, SecondInventory, SavingGoes, Undisturbed, BackupTypeOK
  <2> QED
    BY <1>4, <2>1
<1>9. CASE SyncFilesystem \/ ProbeAgain \/ Report
  BY <1>4, <1>9 DEF SyncFilesystem, ProbeAgain, Report, SavingGoes, Undisturbed, BackupTypeOK
<1>10. CASE ProbeAtEnd \/ BackupSucceeds
  BY <1>4, <1>10 DEF ProbeAtEnd, BackupSucceeds, SavingGoes, Undisturbed, BackupTypeOK
<1>11. CASE UNCHANGED pvars
  BY <1>4, <1>11 DEF pvars
<1> QED
  BY <1>1, <1>2, <1>3, <1>5, <1>6, <1>7, <1>8, <1>9, <1>10, <1>11 DEF BackupNext

\* Until it synchronises, and once it is over, a run has nothing to defend.
Early ==
    \/ StartBackup \/ Abort \/ KillBackup \/ OpenDestination \/ BackupSucceeds
    \/ \E f \in Photos : List(f) \/ Copy(f)

\* Such a step leaves the run without synchronised copies.
LEMMA EarlyStep ==
    ASSUME BackupTypeOK, Lived, Early
    PROVE  (Lived /\ SnapshotSoFar /\ Stored)'
<1>1. ASSUME ~Synced', saving'.seen = {} PROVE (Lived /\ SnapshotSoFar /\ Stored)'
  BY <1>1 DEF Lived, SnapshotSoFar, Stored
<1>2. CASE StartBackup \/ OpenDestination
  <2>1. ~Synced /\ saving.seen = {}
    BY <1>2 DEF StartBackup, OpenDestination, Synced, Lived
  <2>2. ~Synced' /\ saving'.seen = {}
    BY <1>2, <2>1 DEF StartBackup, OpenDestination, Synced, BackupTypeOK
  <2> QED
    BY <1>1, <2>2
<1>3. CASE Abort \/ KillBackup \/ BackupSucceeds
  <2>1. ~Synced' /\ saving'.seen = {}
    BY <1>3 DEF Abort, KillBackup, BackupSucceeds, NotSaving, Synced
  <2> QED
    BY <1>1, <2>1
<1>4. ASSUME NEW f \in Photos, List(f) PROVE (Lived /\ SnapshotSoFar /\ Stored)'
  <2>1. ~Synced /\ saving.seen = {}
    BY <1>4 DEF List, Synced, Lived
  <2>2. saving'.pc \in {"list", "copy"} /\ saving'.seen = saving.seen
    BY <1>4 DEF List, BackupTypeOK
  <2>3. ~Synced'
    BY <2>2 DEF Synced
  <2> QED
    BY <1>1, <2>1, <2>2, <2>3
<1>5. ASSUME NEW f \in Photos, Copy(f) PROVE (Lived /\ SnapshotSoFar /\ Stored)'
  <2>1. ~Synced /\ saving.seen = {}
    BY <1>5 DEF Copy, Synced, Lived
  <2>2. saving'.pc \in {"copy", "sync"} /\ saving'.seen = saving.seen
    BY <1>5 DEF Copy, BackupTypeOK
  <2>3. ~Synced'
    BY <2>2 DEF Synced
  <2> QED
    BY <1>1, <2>1, <2>2, <2>3
<1> QED
  BY <1>2, <1>3, <1>4, <1>5 DEF Early

\* Whoever edits the library adds a state, in which the photo is a new one.
LEMMA EditStep ==
    ASSUME RunInv, NEW f \in Photos, Shoot(f) \/ Discard(f)
    PROVE  (Lived /\ SnapshotSoFar /\ Stored)'
<1> USE DEF RunInv, TypeInv
<1>1. PICK version \in Shots : library' = [library EXCEPT ![f] = version]
                               /\ (saving.listed[f] # 0 => version # saving.listed[f])
  <2>1. CASE Shoot(f)
    <3>1. used.shots + 1 \in Shots /\ saving.listed[f] \in Nat
          /\ saving.listed[f] <= used.shots /\ used.shots \in Nat
      BY <2>1, BackupAssumption DEF Shoot, Shots, BackupTypeOK, Fresh
    <3>2. used.shots + 1 # saving.listed[f]
      BY <3>1
    <3> QED
      BY <2>1, <3>1, <3>2 DEF Shoot
  <2>2. CASE Discard(f)
    <3>1. 0 \in Shots /\ library' = [library EXCEPT ![f] = 0]
      BY <2>2, BackupAssumption DEF Discard, Shots
    <3> QED
      BY <3>1
  <2> QED
    BY <2>1, <2>2
<1>2. saving' = Witness /\ UNCHANGED <<device, reports, status>>
  BY DEF Shoot, Discard
<1>3. saving' = [saving EXCEPT !.seen = IF @ = {} THEN {} ELSE @ \cup {library'}]
  BY <1>2 DEF Witness
<1>4. /\ saving'.pc = saving.pc /\ saving'.listed = saving.listed
      /\ saving'.todo = saving.todo
      /\ saving'.seen = IF saving.seen = {} THEN {} ELSE saving.seen \cup {library'}
  BY <1>3 DEF BackupTypeOK
<1>5. Synced' = Synced /\ \A g \in Photos : FoundEqual(g)' = FoundEqual(g) /\ Rechecked(g)' = Rechecked(g)
  BY <1>4 DEF Synced, FoundEqual, Rechecked
<1>6. Lived'
  <2>1. ASSUME NEW g \in Photos, saving'.listed[g] # 0, library'[g] = saving'.listed[g],
               NEW lib \in saving'.seen
        PROVE  lib[g] = saving'.listed[g]
    <3>1. g # f /\ library[g] = saving.listed[g]
      BY <1>1, <1>4, <2>1 DEF BackupTypeOK
    <3> QED
      BY <1>4, <2>1, <3>1 DEF Lived
  <2> QED
    BY <1>4, <1>5, <2>1 DEF Lived
<1>7. SnapshotSoFar'
  BY <1>4, <1>5 DEF SnapshotSoFar
<1>8. Stored'
  BY <1>2, <1>4, <1>5 DEF Stored
<1> QED
  BY <1>6, <1>7, <1>8

\* What is unplugged after syncfs has nothing left to lose.
LEMMA MediaStep ==
    ASSUME RunInv, Unplug \/ Plug
    PROVE  (Lived /\ SnapshotSoFar /\ Stored)'
<1>1. UNCHANGED <<library, reports, saving, status>>
  BY DEF Unplug, Plug
<1>2. (Lived /\ SnapshotSoFar)'
  BY <1>1 DEF RunInv, Lived, SnapshotSoFar, Synced, FoundEqual, Rechecked
<1>3. CASE Unplug
  <2>1. PICK lost \in SUBSET Photos :
          device' = [mount |-> 0,
                     now |-> [f \in Photos |-> IF f \in lost THEN device.durable[f] ELSE device.now[f]],
                     durable |-> [f \in Photos |-> IF f \in lost THEN device.durable[f] ELSE device.now[f]]]
    BY <1>3 DEF Unplug
  <2>2. device'.durable = device'.now
    BY <2>1
  <2>3. Synced => \A f \in Photos : device'.now[f] = device.now[f]
    BY <2>1 DEF RunInv, Stored
  <2>4. Stored'
    BY <1>1, <2>2, <2>3 DEF RunInv, Stored, Synced, FoundEqual
  <2> QED
    BY <1>2, <2>4
<1>4. CASE Plug
  <2>1. device'.now = device.now /\ device'.durable = device.durable
    BY <1>4 DEF Plug, RunInv, TypeInv, BackupTypeOK
  <2>2. Stored'
    BY <1>1, <2>1 DEF RunInv, Stored, Synced, FoundEqual
  <2> QED
    BY <1>2, <2>2
<1> QED
  BY <1>3, <1>4

\* At syncfs the states lived through start with the present one.
LEMMA PhotoSyncStep ==
    ASSUME RunInv, SyncFilesystem
    PROVE  (Lived /\ SnapshotSoFar /\ Stored)'
<1>1. /\ device' = [device EXCEPT !.durable = device.now]
      /\ saving' = [saving EXCEPT !.pc = "verify", !.seen = {library},
                        !.todo = {f \in Photos : saving.listed[f] # 0}]
      /\ library' = library
  BY DEF SyncFilesystem, Undisturbed
<1>2. /\ saving'.pc = "verify" /\ saving'.seen = {library} /\ saving'.listed = saving.listed
      /\ saving'.todo = {f \in Photos : saving.listed[f] # 0}
      /\ device'.durable = device'.now
  BY <1>1 DEF RunInv, TypeInv, BackupTypeOK
<1>3. Synced' /\ \A f \in Photos : ~FoundEqual(f)' /\ ~Rechecked(f)'
  BY <1>2 DEF Synced, FoundEqual, Rechecked
<1> QED
  BY <1>1, <1>2, <1>3 DEF Lived, SnapshotSoFar, Stored

\* Each photo that is read again adds one fact.
LEMMA PhotoLookStep ==
    ASSUME RunInv, NEW f \in Photos, Verify(f) \/ SecondInventory(f)
    PROVE  (Lived /\ SnapshotSoFar /\ Stored)'
<1> USE DEF RunInv
<1>1. UNCHANGED <<library, device, reports, status, used>> /\ Synced
      /\ library[f] = saving.listed[f] /\ f \in saving.todo
  BY DEF Verify, SecondInventory, SameAsListed, Media, Undisturbed, Synced
<1>2. saving'.seen = saving.seen /\ saving'.listed = saving.listed /\ Synced'
  <2>1. CASE Verify(f)
    BY <2>1 DEF Verify, SavingGoes, TypeInv, BackupTypeOK, Synced
  <2>2. CASE SecondInventory(f)
    BY <2>2 DEF SecondInventory, SavingGoes, TypeInv, BackupTypeOK, Synced
  <2> QED
    BY <2>1, <2>2
<1>3. \A g \in Photos : FoundEqual(g)' => FoundEqual(g) \/ g = f
  <2>1. CASE Verify(f)
    <3>1. /\ saving'.listed = saving.listed
          /\ \/ saving.todo \ {f} = {}
             \/ saving'.pc = "verify" /\ saving'.todo = saving.todo \ {f}
      BY <2>1 DEF Verify, SavingGoes, TypeInv, BackupTypeOK
    <3>2. saving.pc = "verify"
      BY <2>1 DEF Verify
    <3> QED
      BY <3>1, <3>2 DEF FoundEqual
  <2>2. CASE SecondInventory(f)
    BY <2>2 DEF SecondInventory, SavingGoes, TypeInv, BackupTypeOK, FoundEqual
  <2> QED
    BY <2>1, <2>2
<1>4. \A g \in Photos : Rechecked(g)' => Rechecked(g) \/ g = f
  <2>1. CASE Verify(f)
    BY <2>1 DEF Verify, SavingGoes, TypeInv, BackupTypeOK, Rechecked
  <2>2. CASE SecondInventory(f)
    BY <2>2 DEF SecondInventory, SavingGoes, TypeInv, BackupTypeOK, Rechecked
  <2> QED
    BY <2>1, <2>2
<1>5. Lived'
  BY <1>1, <1>2 DEF Lived
<1>6. SnapshotSoFar'
  <2>1. PICK lib \in saving.seen : \A g \in Photos : FoundEqual(g) => lib[g] = saving.listed[g]
    BY <1>1 DEF SnapshotSoFar
  <2>2. saving.listed[f] # 0 => lib[f] = saving.listed[f]
    BY <1>1, <2>1 DEF Lived
  <2>3. \A g \in Photos : FoundEqual(g)' => lib[g] = saving.listed[g]
    BY <1>2, <1>3, <2>1, <2>2 DEF FoundEqual
  <2>4. saving.listed[f] = 0 => library \in saving.seen /\ library[f] = 0
    BY <1>1 DEF Lived
  <2> QED
    BY <1>1, <1>2, <1>4, <2>1, <2>3, <2>4 DEF SnapshotSoFar
<1>7. Stored'
  <2>1. CASE Verify(f)
    <3>1. device.now[f].copy = saving.listed[f]
      BY <2>1 DEF Verify
    <3> QED
      BY <1>1, <1>2, <1>3, <3>1 DEF Stored
  <2>2. CASE SecondInventory(f)
    <3>1. saving.pc = "recheck"
      BY <2>2 DEF SecondInventory
    <3>2. \A g \in Photos : FoundEqual(g)' => FoundEqual(g)
      BY <1>2, <3>1 DEF FoundEqual
    <3> QED
      BY <1>1, <1>2, <3>2 DEF Stored
  <2> QED
    BY <2>1, <2>2
<1> QED
  BY <1>5, <1>6, <1>7

\* Once everything was looked at twice, nothing that was found is lost.
LEMMA LateStep ==
    ASSUME RunInv, ProbeAgain \/ Report \/ ProbeAtEnd
    PROVE  (Lived /\ SnapshotSoFar /\ Stored)'
<1> USE DEF RunInv
<1>1. library' = library /\ saving.pc \in {"probe", "report", "confirm"}
  BY DEF ProbeAgain, Report, ProbeAtEnd, Undisturbed
<1>2. PICK pc \in {"report", "confirm", "result"} :
        saving' = [saving EXCEPT !.pc = pc, !.todo = {}]
  BY DEF ProbeAgain, Report, ProbeAtEnd, SavingGoes
<1>3. saving'.pc = pc /\ saving'.seen = saving.seen /\ saving'.listed = saving.listed
  BY <1>2 DEF TypeInv, BackupTypeOK
<1>4. Synced /\ Synced' /\ \A f \in Photos : FoundEqual(f)' = FoundEqual(f) /\ Rechecked(f)' = Rechecked(f)
  BY <1>1, <1>3 DEF Synced, FoundEqual, Rechecked
<1>5. device'.now = device.now /\ device'.durable = device.durable
  BY <1>4 DEF ProbeAgain, Report, ProbeAtEnd, Media, Stored, TypeInv, BackupTypeOK
<1> QED
  BY <1>1, <1>3, <1>4, <1>5 DEF Lived, SnapshotSoFar, Stored

\* Nothing was listed or reported at first.
LEMMA RunInit == BackupInit => BackupInv
<1> SUFFICES ASSUME BackupInit PROVE BackupInv
  OBVIOUS
<1>1. TypeInv
  BY TypeInit
<1>2. saving = NotSaving /\ reports = {} /\ status = [phase |-> "idle", last |-> NoReport]
      /\ used.shots = 1
  BY DEF BackupInit
<1>3. \A f \in Photos : library[f] = 0 \/ library[f] = 1
  BY DEF BackupInit
<1>4. Fresh
  <2>1. \A f \in Photos : saving.listed[f] = 0
    BY <1>2 DEF NotSaving, Absence
  <2>2. 0 <= used.shots /\ 1 <= used.shots
    BY <1>2
  <2>3. ASSUME NEW f \in Photos
        PROVE  library[f] <= used.shots /\ saving.listed[f] <= used.shots
    <3>1. CASE library[f] = 0
      BY <2>1, <2>2, <3>1
    <3>2. CASE library[f] = 1
      BY <2>1, <2>2, <3>2
    <3> QED
      BY <1>3, <3>1, <3>2
  <2> QED
    BY <2>3 DEF Fresh
<1>5. Lived /\ SnapshotSoFar /\ Stored
  BY <1>2 DEF NotSaving, Lived, SnapshotSoFar, Stored, Synced
<1>6. ReportsInv
  BY <1>2 DEF ReportsInv, ReportsKept, Keeps, Known
<1> QED
  BY <1>1, <1>4, <1>5, <1>6 DEF BackupInv, RunInv

\* Every step keeps what the run knows.
LEMMA RunStep == RunInv /\ [BackupNext]_pvars => RunInv'
<1> SUFFICES ASSUME RunInv, [BackupNext]_pvars PROVE RunInv'
  OBVIOUS
<1>1. TypeInv' /\ Fresh'
  BY TypeStep, FreshStep DEF RunInv, TypeInv
<1>2. CASE Early
  BY <1>1, <1>2, EarlyStep DEF RunInv, TypeInv
<1>3. ASSUME NEW f \in Photos, Shoot(f) \/ Discard(f) PROVE RunInv'
  BY <1>1, <1>3, EditStep DEF RunInv
<1>4. CASE Unplug \/ Plug
  BY <1>1, <1>4, MediaStep DEF RunInv
<1>5. CASE SyncFilesystem
  BY <1>1, <1>5, PhotoSyncStep DEF RunInv
<1>6. ASSUME NEW f \in Photos, Verify(f) \/ SecondInventory(f) PROVE RunInv'
  BY <1>1, <1>6, PhotoLookStep DEF RunInv
<1>7. CASE ProbeAgain \/ Report \/ ProbeAtEnd
  BY <1>1, <1>7, LateStep DEF RunInv
<1>8. CASE UNCHANGED pvars
  BY <1>1, <1>8 DEF pvars, RunInv, Lived, SnapshotSoFar, Stored, Synced, FoundEqual, Rechecked
<1> QED
  BY <1>2, <1>3, <1>4, <1>5, <1>6, <1>7, <1>8 DEF BackupNext, Early

-----------------------------------------------------------------------------
(* What a report is worth, when it is written and ever after. *)

\* rsync replaces nothing that it does not keep.
LEMMA CopyKeeps ==
    ASSUME BackupTypeOK, ReportsKept, NEW f \in Photos, Copy(f)
    PROVE  ReportsKept'
<1>1. reports' = reports /\ device'.durable = device.durable
  BY DEF Copy, BackupTypeOK
<1>2. CASE library[f] = 0
  BY <1>2 DEF Copy, ReportsKept, Keeps
<1>3. CASE library[f] # 0
  <2>1. PICK data \in {library[f], Torn} : device' = [device EXCEPT !.now[f] = Replaced(@, data)]
    BY <1>3 DEF Copy
  <2>2. device.now \in Directories
    BY DEF BackupTypeOK
  <2>3. device'.now = [device.now EXCEPT ![f] = Replaced(device.now[f], data)]
    BY <2>1 DEF BackupTypeOK
  <2>4. \A g \in Photos : device'.now[g] = IF g = f THEN Replaced(device.now[f], data)
                                           ELSE device.now[g]
    BY <2>2, <2>3 DEF Directories
  <2>5. /\ device.now[f].copy # 0 => device.now[f].copy
             \in {Replaced(device.now[f], data).copy} \cup Replaced(device.now[f], data).kept
        /\ device.now[f].kept \subseteq Replaced(device.now[f], data).kept
    BY DEF Replaced
  <2> QED
    BY <1>1, <2>4, <2>5 DEF ReportsKept, Keeps
<1> QED
  BY <1>2, <1>3

\* A report is written when the run knows that it is true and on the device.
LEMMA ReportHolds ==
    ASSUME RunInv, ReportsInv, Report
    PROVE  ReportsInv'
<1> DEFINE new == [listed |-> saving.listed, seen |-> saving.seen]
<1>1. reports' = reports \cup {new} /\ saving.pc = "report" /\ UNCHANGED <<device, status>>
  BY DEF Report
<1>2. Synced /\ \A f \in Photos : (saving.listed[f] # 0 => FoundEqual(f)) /\ Rechecked(f)
  BY <1>1 DEF Synced, FoundEqual, Rechecked
<1>3. IsSnapshot(new)
  BY <1>2 DEF RunInv, SnapshotSoFar, IsSnapshot
<1>4. \A f \in Photos : new.listed[f] # 0 =>
        new.listed[f] = device.now[f].copy /\ new.listed[f] = device.durable[f].copy
  BY <1>2 DEF RunInv, Stored
<1>5. ReportsKept'
  BY <1>1, <1>4 DEF ReportsInv, ReportsKept, Keeps
<1>6. Known' /\ \A r \in reports' : IsSnapshot(r)
  BY <1>1, <1>3 DEF ReportsInv, Known
<1>7. \A r : IsSnapshot(r)' = IsSnapshot(r)
  BY DEF IsSnapshot
<1> QED
  BY <1>5, <1>6, <1>7 DEF ReportsInv

\* Every step keeps old reports true and their photos on the device.
LEMMA ReportsStep == RunInv /\ ReportsInv /\ [BackupNext]_pvars => ReportsInv'
<1> SUFFICES ASSUME RunInv, ReportsInv, [BackupNext]_pvars PROVE ReportsInv'
  OBVIOUS
<1>1. BackupTypeOK /\ Reported
  BY DEF RunInv, TypeInv
<1>2. ASSUME UNCHANGED reports, ReportsKept', Known' PROVE ReportsInv'
  BY <1>2 DEF ReportsInv, IsSnapshot
<1>3. ASSUME NEW f \in Photos, Shoot(f) \/ Discard(f) PROVE ReportsInv'
  BY <1>2, <1>3 DEF Shoot, Discard, ReportsInv, ReportsKept, Keeps, Known
<1>4. CASE Unplug
  <2>1. PICK lost \in SUBSET Photos :
          device' = [mount |-> 0,
                     now |-> [f \in Photos |-> IF f \in lost THEN device.durable[f] ELSE device.now[f]],
                     durable |-> [f \in Photos |-> IF f \in lost THEN device.durable[f] ELSE device.now[f]]]
    BY <1>4 DEF Unplug
  <2>2. /\ device'.now = device'.durable
        /\ \A f \in Photos : device'.now[f] \in {device.durable[f], device.now[f]}
    BY <2>1
  <2>3. UNCHANGED <<reports, status>>
    BY <1>4 DEF Unplug
  <2> QED
    BY <1>2, <2>2, <2>3 DEF ReportsInv, ReportsKept, Keeps, Known
<1>5. CASE Plug
  <2>1. device'.now = device.now /\ device'.durable = device.durable
    BY <1>1, <1>5 DEF Plug, BackupTypeOK
  <2> QED
    BY <1>2, <1>5, <2>1 DEF Plug, ReportsInv, ReportsKept, Keeps, Known
<1>6. CASE StartBackup \/ Abort \/ KillBackup \/ OpenDestination
  <2>1. UNCHANGED <<device, reports>> /\ status'.last = status.last
        /\ status'.phase \in {"active", "error", status.phase}
    BY <1>1, <1>6 DEF StartBackup, Abort, KillBackup, OpenDestination, Media, BackupTypeOK
  <2> QED
    BY <1>2, <2>1 DEF ReportsInv, ReportsKept, Keeps, Known
<1>7. ASSUME NEW f \in Photos, List(f) \/ Verify(f) \/ SecondInventory(f) PROVE ReportsInv'
  BY <1>2, <1>7 DEF List, Verify, SecondInventory, Media, ReportsInv, ReportsKept, Keeps, Known
<1>8. ASSUME NEW f \in Photos, Copy(f) PROVE ReportsInv'
  BY <1>1, <1>2, <1>8, CopyKeeps DEF Copy, ReportsInv, Known
<1>9. CASE SyncFilesystem \/ ProbeAtEnd
  <2>1. device'.now = device.now /\ device'.durable = device.now
    BY <1>1, <1>9 DEF SyncFilesystem, ProbeAtEnd, BackupTypeOK
  <2>2. UNCHANGED <<reports, status>>
    BY <1>9 DEF SyncFilesystem, ProbeAtEnd
  <2> QED
    BY <1>2, <2>1, <2>2 DEF ReportsInv, ReportsKept, Keeps, Known
<1>10. CASE ProbeAgain
  BY <1>2, <1>10 DEF ProbeAgain, Media, ReportsInv, ReportsKept, Keeps, Known
<1>11. CASE Report
  BY <1>11, ReportHolds
<1>12. CASE BackupSucceeds
  <2>1. \E r \in reports : r.listed = saving.listed
    BY <1>1, <1>12 DEF BackupSucceeds, Reported
  <2>2. status'.last \in reports /\ UNCHANGED <<device, reports>>
    BY <1>12, <2>1 DEF BackupSucceeds, Media
  <2> QED
    BY <1>2, <2>2 DEF ReportsInv, ReportsKept, Keeps, Known
<1>13. CASE UNCHANGED pvars
  BY <1>2, <1>13 DEF pvars, ReportsInv, ReportsKept, Keeps, Known
<1> QED
  BY <1>3, <1>4, <1>5, <1>6, <1>7, <1>8, <1>9, <1>10, <1>11, <1>12, <1>13 DEF BackupNext

-----------------------------------------------------------------------------
\* A report left by run_backup names a state that the library had, its photos
\* stay on the device whatever later runs, kills and unplugs do, and a success
\* is only shown with its report.
THEOREM ReportsAreSnapshots == BackupSpec => []BackupIsSnapshot
<1>1. BackupInv /\ [BackupNext]_pvars => BackupInv'
  BY RunStep, ReportsStep DEF BackupInv
<1>2. BackupInv => BackupIsSnapshot
  <2> SUFFICES ASSUME BackupInv PROVE BackupIsSnapshot
    OBVIOUS
  <2>1. \A r \in reports : IsSnapshot(r) /\ OnDevice(r)
    BY DEF BackupInv, ReportsInv, ReportsKept, Keeps, OnDevice
  <2>2. ShownPhase = "success" => status.phase = "success"
    BY DEF ShownPhase
  <2> QED
    BY <2>1, <2>2 DEF BackupInv, ReportsInv, Known, BackupIsSnapshot
<1> QED
  BY RunInit, <1>1, <1>2, PTL DEF BackupSpec

\* The state of the backup, its device and its history stays well-formed for
\* every number of photos, edits, runs and troubles.
THEOREM BackupTypesHold == BackupSpec => []BackupTypeOK
<1>1. TypeInv => BackupTypeOK
  BY DEF TypeInv
<1> QED
  BY TypeInit, TypeStep, <1>1, PTL DEF BackupSpec

-----------------------------------------------------------------------------
(* The overview. *)

\* Each revision of the screen is a write of the guard that is spent.
CaptureShapes == OverviewTypeOK /\ screen.rev + more.locks <= MaxLocks

\* The time stamps of temporaries are unique, so that a batch knows its own.
Times == \A c \in cache : c.at <= ticks
Own(c) == c.kind = "temp" /\ c.at \in grab.taken

\* The metadata that exists, on the disk or in the hands of a panel.
Metas == {m \in cache \cup panel.meta : m.kind = "meta"}
Images == {c \in cache : c.kind = "image"}

\* A revision that has been, and that was not of a locked screen.
Unlocked(rev) == rev \in Nat /\ rev <= screen.rev /\ (rev = screen.rev => ~screen.active)

\* Published files were captured in an unlocked period, the image of a window
\* in the one of its metadata or in a later one.
PreviewsPublished ==
    /\ \A c \in Images \cup Metas : Unlocked(c.rev)
    /\ \A c \in Images, m \in Metas : c.win = m.win => m.rev <= c.rev

\* A batch past the reading of its revision.
Dated == grab.pc \notin {"off", "admit", "generation"}

\* A batch publishes under the revision that it read, or has lost the right to.
Batch ==
    /\ ~Dated => grab.taken = {}
    /\ Dated =>
         /\ grab.gen <= screen.rev
         /\ \A c \in Images \cup Metas : c.rev <= grab.gen
         /\ \A c \in cache : Own(c) => c.rev = grab.gen \/ grab.gen < screen.rev
    /\ grab.pc \in {"spawn", "grim", "image", "meta"} =>
         (grab.gen = screen.rev => ~screen.active)
    /\ grab.pc = "grim" => (grab.gen = screen.rev => grab.from = screen.rev)
    /\ grab.pc = "image" => \A c \in cache : Own(c) => c.rev = grab.gen
    /\ grab.pc = "meta" => \A c \in Images : c.win = grab.win => c.rev = grab.gen

\* A panel compares the metadata of the window it looks at.
Looking ==
    /\ \A m \in panel.meta : m.kind = "meta" /\ m.win = panel.win
    /\ panel.pc = "compare" <=> panel.meta # {}

CaptureInv == CaptureShapes /\ Times /\ PreviewsPublished /\ Batch /\ Looking /\ PreviewIsCurrent

-----------------------------------------------------------------------------
(* What is removed from the cache. *)

\* The clean-ups of both helpers only remove files.
LEMMA CleanUps ==
  /\ \A files : WithinQuota(files) \subseteq files
  /\ Swept \subseteq cache /\ WithoutTemps \subseteq cache
  /\ \A files, tree : Pruned(files, tree) \subseteq files
  /\ \A rules, tree : Tidied(rules, tree) \subseteq cache
BY DEF WithinQuota, Swept, WithoutTemps, Pruned, Tidied

\* The revisions are numbers, and are among the stamps a file may have.
LEMMA StampRange ==
  /\ LockRevisions \subseteq Stamps /\ Stamps \subseteq Nat /\ Spoilt \in Stamps
  /\ 0 \in LockRevisions /\ MaxLocks \in Nat /\ \A n \in Nat : n <= MaxLocks => n \in LockRevisions
BY OverviewAssumption DEF LockRevisions, Stamps, Spoilt

\* The shapes hold for the helpers at rest.
LEMMA HelpersAtRest ==
  /\ NoGrab \in Grabs /\ NoGrab.pc = "off" /\ NoGrab.taken = {}
  /\ NoPanel \in Panels /\ NoPanel.pc = "off" /\ NoPanel.meta = {} /\ NoPanel.given = {}
<1> DEFINE w == CHOOSE w \in Windows : TRUE
<1>1. w \in Windows
  BY OverviewAssumption
<1>2. 0 \in Stamps /\ 0 \in LockRevisions
  BY StampRange
<1> HIDE DEF w
<1>3. NoGrab = [pc |-> "off", gen |-> 0, rules |-> {}, todo |-> {}, win |-> w, from |-> 0,
                seen |-> {}, taken |-> {}]
  BY DEF NoGrab, w
<1>4. NoPanel = [pc |-> "off", rules |-> {}, tree |-> {}, todo |-> {}, win |-> w, stat |-> 0,
                 meta |-> {}, given |-> {}]
  BY DEF NoPanel, w
<1> QED
  BY <1>1, <1>2, <1>3, <1>4 DEF Grabs, Panels, GrabPcs, PanelPcs

\* What one use leaves of the quotas.
LEMMA QuotaSpent ==
  ASSUME more \in Quotas, NEW what \in {"locks", "policies", "batches", "panels"}, Uses(what)
  PROVE  /\ more' \in Quotas
         /\ more'.locks = IF what = "locks" THEN more.locks - 1 ELSE more.locks
BY DEF Uses, Quotas

\* Every step of the helpers keeps the shapes.
LEMMA ShapesKeep == CaptureShapes /\ [OverviewNext]_ovars => CaptureShapes'
<1> SUFFICES ASSUME CaptureShapes, [OverviewNext]_ovars PROVE CaptureShapes'
  OBVIOUS
<1>0. /\ screen \in LockScreens
      /\ policy \in [enabled : BOOLEAN, apps : SUBSET Windows]
      /\ overview \in [open : BOOLEAN, windows : SUBSET Windows]
      /\ grab \in Grabs /\ panel \in Panels /\ cache \subseteq CacheFiles /\ ticks \in Nat
      /\ more \in Quotas /\ screen.rev + more.locks <= MaxLocks
      /\ Excluded \in SUBSET Windows
  BY DEF CaptureShapes, OverviewTypeOK, Excluded
<1>1. ASSUME UNCHANGED <<screen, policy, overview>>, ticks' \in Nat, cache' \subseteq CacheFiles,
             grab' \in Grabs, panel' \in Panels,
             more' = more \/ Uses("batches") \/ Uses("panels")
      PROVE  CaptureShapes'
  <2>1. more' \in Quotas /\ more'.locks = more.locks
    BY <1>0, <1>1, QuotaSpent
  <2> QED
    BY <1>0, <1>1, <2>1 DEF CaptureShapes, OverviewTypeOK
<1>2. CASE LockScreen \/ Unlock \/ LockerQuits \/ EditPolicy \/ ToggleOverview
  <2>1. UNCHANGED Helpers
    BY <1>2 DEF LockScreen, Unlock, LockerQuits, EditPolicy, ToggleOverview
  <2>4. screen' \in LockScreens /\ more' \in Quotas /\ screen'.rev + more'.locks <= MaxLocks
    <3>0. screen.rev \in Nat /\ more.locks \in Nat /\ MaxLocks \in Nat
      BY <1>0, StampRange DEF LockScreens, Quotas
    <3>1. CASE LockScreen \/ Unlock
      <4>1. more.locks > 0 /\ more' \in Quotas /\ more'.locks = more.locks - 1
        BY <1>0, <3>1, QuotaSpent DEF LockScreen, Unlock, Uses
      <4>2. PICK n \in Nat : n = screen.rev + 1
        BY <3>0
      <4>3. n \in LockRevisions
        BY <1>0, <3>0, <4>1, <4>2, StampRange
      <4>4. PICK on \in BOOLEAN : screen' = [active |-> on, rev |-> n, locker |-> on]
        BY <3>1, <4>2 DEF LockScreen, Unlock
      <4> QED
        BY <1>0, <3>0, <4>1, <4>2, <4>3, <4>4 DEF LockScreens
    <3>2. CASE LockerQuits \/ ToggleOverview
      BY <1>0, <3>2 DEF LockerQuits, ToggleOverview, LockScreens
    <3>3. CASE EditPolicy
      BY <1>0, <3>3, QuotaSpent DEF EditPolicy
    <3> QED
      BY <1>2, <3>1, <3>2, <3>3
  <2>2. policy' \in [enabled : BOOLEAN, apps : SUBSET Windows]
    BY <1>0, <1>2 DEF LockScreen, Unlock, LockerQuits, EditPolicy, ToggleOverview
  <2>3. overview' \in [open : BOOLEAN, windows : SUBSET Windows]
    BY <1>0, <1>2 DEF LockScreen, Unlock, LockerQuits, EditPolicy, ToggleOverview
  <2> QED
    BY <1>0, <2>1, <2>2, <2>3, <2>4 DEF Helpers, CaptureShapes, OverviewTypeOK
<1>3. ASSUME NEW w \in Windows, CloseWindow(w) PROVE CaptureShapes'
  BY <1>0, <1>3 DEF CloseWindow, Helpers, CaptureShapes, OverviewTypeOK
<1>4. CASE BeginCapture \/ AdmitCapture \/ FinishCapture \/ CaptureCancelled
  <2>1. cache' \subseteq cache
    BY <1>4, CleanUps DEF BeginCapture, AdmitCapture, FinishCapture, CaptureCancelled, Returned
  <2>2. grab' \in Grabs
    BY <1>0, <1>4, HelpersAtRest DEF BeginCapture, AdmitCapture, FinishCapture, CaptureCancelled,
       Returned, GrabGoes, Grabs, GrabPcs
  <2> QED
    BY <1>0, <1>1, <1>4, <2>1, <2>2 DEF BeginCapture, AdmitCapture, FinishCapture,
       CaptureCancelled, Outside
<1>5. CASE Generation \/ NextWindow \/ SpawnGrim
  <2>1. screen.rev \in LockRevisions /\ screen.rev \in Stamps /\ Spoilt \in Stamps
    BY <1>0, StampRange DEF LockScreens
  <2>3. grab' \in Grabs
    <3>1. CASE Generation \/ SpawnGrim
      BY <1>0, <2>1, <3>1 DEF Generation, SpawnGrim, Grabs, GrabPcs
    <3>2. CASE GrabGoes("sweepAgain")
      BY <1>0, <3>2 DEF GrabGoes, Grabs, GrabPcs
    <3>3. ASSUME NEW w \in grab.todo,
                 grab' = [grab EXCEPT !.pc = "spawn", !.win = w, !.todo = @ \ {w}]
          PROVE  grab' \in Grabs
      BY <1>0, <3>3 DEF Grabs, GrabPcs
    <3> QED
      BY <1>5, <3>1, <3>2, <3>3 DEF NextWindow
  <2> QED
    BY <1>0, <1>1, <1>5, <2>3 DEF Generation, NextWindow, SpawnGrim, Outside
<1>6. ASSUME SweepForCapture("sweep", "tree") \/ SweepForCapture("sweepAgain", "treeAgain")
      PROVE  CaptureShapes'
  <2>1. cache' \subseteq cache
    BY <1>6, CleanUps DEF SweepForCapture
  <2>2. grab' \in Grabs
    BY <1>0, <1>6 DEF SweepForCapture, Grabs, GrabPcs
  <2> QED
    BY <1>0, <1>1, <1>6, <2>1, <2>2 DEF SweepForCapture, Outside
<1>7. CASE Candidates \/ CandidatesAgain
  <2>1. cache' \subseteq cache
    BY <1>7, CleanUps DEF Candidates, CandidatesAgain
  <2>2. overview.windows \in SUBSET Windows
    BY <1>0
  <2>3. grab' \in Grabs
    <3> DEFINE todo == {w \in Windows : Temps(w) # {}}
    <3>1. todo \in SUBSET Windows
      OBVIOUS
    <3>2. \/ grab' = [grab EXCEPT !.pc = "each", !.todo = overview.windows \ Excluded]
          \/ grab' = [grab EXCEPT !.pc = "publish", !.seen = overview.windows, !.todo = todo]
      BY <1>7 DEF Candidates, CandidatesAgain
    <3> HIDE DEF todo
    <3>3. overview.windows \ Excluded \in SUBSET Windows
      BY <2>2
    <3>4. CASE grab' = [grab EXCEPT !.pc = "each", !.todo = overview.windows \ Excluded]
      BY <1>0, <3>3, <3>4 DEF Grabs, GrabPcs
    <3>5. CASE grab' = [grab EXCEPT !.pc = "publish", !.seen = overview.windows, !.todo = todo]
      BY <1>0, <2>2, <3>1, <3>5 DEF Grabs, GrabPcs
    <3> QED
      BY <3>2, <3>4, <3>5
  <2> QED
    BY <1>0, <1>1, <1>7, <2>1, <2>3 DEF Candidates, CandidatesAgain, Outside
<1>8. CASE GrimEnds
  <2>1. /\ grab.win \in Windows /\ grab.taken \in SUBSET Nat
        /\ screen.rev \in Stamps /\ Spoilt \in Stamps
    BY <1>0, StampRange DEF Grabs, LockScreens
  <2>2. ASSUME ticks' = ticks + 1,
               grab' = [grab EXCEPT !.pc = "each", !.taken = @ \cup {ticks'}]
        PROVE  grab' \in Grabs
    <3> DEFINE taken == grab.taken \cup {ticks'}
    <3>1. taken \in SUBSET Nat /\ grab' = [grab EXCEPT !.pc = "each", !.taken = taken]
      BY <1>0, <2>1, <2>2
    <3> HIDE DEF taken
    <3> QED
      BY <1>0, <3>1 DEF Grabs, GrabPcs
  <2>3. cache' \subseteq CacheFiles /\ ticks' \in Nat /\ grab' \in Grabs
    <3>1. CASE GrabGoes("each") /\ UNCHANGED <<cache, ticks>>
      BY <1>0, <3>1 DEF GrabGoes, Grabs, GrabPcs
    <3>2. CASE /\ ticks' = ticks + 1
               /\ grab' = [grab EXCEPT !.pc = "each", !.taken = @ \cup {ticks'}]
               /\ cache' = cache \cup
                    {[kind |-> "temp", win |-> grab.win, at |-> ticks', of |-> 0,
                      rev |-> IF grab.from = screen.rev THEN screen.rev ELSE Spoilt]}
      BY <1>0, <2>1, <2>2, <3>2 DEF CacheFiles
    <3> QED
      BY <1>8, <3>1, <3>2 DEF GrimEnds
  <2> QED
    BY <1>0, <1>1, <1>8, <2>3 DEF GrimEnds, Outside
<1>9. CASE NextPublished
  <2>1. grab' \in Grabs
    <3>1. CASE GrabGoes("finish")
      BY <1>0, <3>1 DEF GrabGoes, Grabs, GrabPcs
    <3>2. ASSUME NEW w \in grab.todo, NEW pc \in {"publish", "image"},
                 grab' = [grab EXCEPT !.todo = @ \ {w}, !.win = w, !.pc = pc]
          PROVE  grab' \in Grabs
      BY <1>0, <3>2 DEF Grabs, GrabPcs
    <3> QED
      BY <1>9, <3>1, <3>2 DEF NextPublished
  <2> QED
    BY <1>0, <1>1, <1>9, <2>1 DEF NextPublished, Outside
<1>10. CASE PublishImage
  <2>1. cache' \subseteq CacheFiles
    <3>1. ASSUME NEW c \in Temps(grab.win) PROVE [c EXCEPT !.kind = "image"] \in CacheFiles
      BY <1>0, <3>1 DEF Temps, Of, CacheFiles
    <3> QED
      BY <1>0, <1>10, <3>1, CleanUps DEF PublishImage, Returned
  <2>2. grab' \in Grabs
    BY <1>0, <1>10, HelpersAtRest DEF PublishImage, Returned, GrabGoes, Grabs, GrabPcs
  <2> QED
    BY <1>0, <1>1, <1>10, <2>1, <2>2 DEF PublishImage, Outside
<1>11. CASE PublishMetadata
  <2>1. grab.win \in Windows /\ grab.gen \in Stamps
    BY <1>0, StampRange DEF Grabs
  <2>2. cache' \subseteq CacheFiles /\ ticks' \in Nat
    <3>1. ASSUME NEW c \in Of("image", grab.win), ticks' \in Nat
          PROVE  [kind |-> "meta", win |-> grab.win, at |-> ticks', of |-> c.at,
                  rev |-> grab.gen] \in CacheFiles
      BY <1>0, <2>1, <3>1 DEF Of, CacheFiles
    <3> QED
      BY <1>0, <1>11, <3>1, CleanUps DEF PublishMetadata, Returned
  <2>3. grab' \in Grabs
    BY <1>0, <1>11, HelpersAtRest DEF PublishMetadata, Returned, GrabGoes, Grabs, GrabPcs
  <2> QED
    BY <1>0, <1>1, <1>11, <2>2, <2>3 DEF PublishMetadata, Outside
<1>12. CASE BeginPanel \/ Sweep \/ ReadTree \/ FinishPanel \/ PanelKilled
  <2>1. cache' \subseteq cache
    BY <1>12, CleanUps DEF BeginPanel, Sweep, ReadTree, FinishPanel, PanelKilled
  <2>2. panel' \in Panels
    BY <1>0, <1>12, HelpersAtRest DEF BeginPanel, Sweep, ReadTree, FinishPanel, PanelKilled, Panels,
       PanelPcs
  <2> QED
    BY <1>0, <1>1, <1>12, <2>1, <2>2 DEF BeginPanel, Sweep, ReadTree, FinishPanel, PanelKilled,
       Outside
<1>13. ASSUME NEW w \in Windows, Inspect(w) PROVE CaptureShapes'
  <2>2. \A c \in Of("image", w) : c.at \in Nat
    BY <1>0 DEF Of, CacheFiles
  <2>3. \/ panel' = [panel EXCEPT !.todo = @ \ {w}]
        \/ \E at \in Nat :
             panel' = [panel EXCEPT !.todo = @ \ {w}, !.pc = "meta", !.win = w, !.stat = at]
    BY <1>13, <2>2 DEF Inspect
  <2>4. panel' \in Panels
    <3>1. CASE panel' = [panel EXCEPT !.todo = @ \ {w}]
      BY <1>0, <3>1 DEF Panels, PanelPcs
    <3>2. ASSUME NEW at \in Nat,
                 panel' = [panel EXCEPT !.todo = @ \ {w}, !.pc = "meta", !.win = w, !.stat = at]
          PROVE  panel' \in Panels
      BY <1>0, <3>2 DEF Panels, PanelPcs
    <3> QED
      BY <2>3, <3>1, <3>2
  <2>5. cache' \subseteq cache
    BY <1>13 DEF Inspect
  <2> QED
    BY <1>0, <1>1, <1>13, <2>4, <2>5 DEF Inspect, Outside
<1>14. CASE ReadMetadata
  <2>1. Of("meta", panel.win) \subseteq CacheFiles
    BY <1>0 DEF Of
  <2>2. panel' \in Panels
    BY <1>0, <1>14, <2>1 DEF ReadMetadata, Panels, PanelPcs
  <2> QED
    BY <1>0, <1>1, <1>14, <2>2 DEF ReadMetadata, Outside
<1>15. CASE Compare
  <2> DEFINE now == [active |-> screen.active, rev |-> screen.rev]
             added == [screen : {now}, file : Of("image", panel.win)]
  <2>1. now \in Moments /\ Of("image", panel.win) \subseteq CacheFiles
    BY <1>0 DEF LockScreens, Moments, Of
  <2> HIDE DEF now
  <2>2. added \subseteq [screen : Moments, file : CacheFiles]
    BY <2>1
  <2>3. \E given \in SUBSET [screen : Moments, file : CacheFiles] :
          panel' = [panel EXCEPT !.pc = "each", !.meta = {}, !.given = given]
    <3>1. panel.given \in SUBSET [screen : Moments, file : CacheFiles]
      BY <1>0 DEF Panels
    <3>2. panel' = [panel EXCEPT !.pc = "each", !.meta = {},
                       !.given = IF IsValid THEN panel.given \cup added ELSE panel.given]
      BY <1>15 DEF Compare, now
    <3> QED
      BY <2>2, <3>1, <3>2
  <2>4. panel' \in Panels
    BY <1>0, <2>3 DEF Panels, PanelPcs
  <2> QED
    BY <1>0, <1>1, <1>15, <2>4 DEF Compare, Outside
<1>16. CASE UNCHANGED ovars
  BY <1>0, <1>1, <1>16 DEF ovars
<1> QED
  BY <1>2, <1>3, <1>4, <1>5, <1>6, <1>7, <1>8, <1>9, <1>10, <1>11, <1>12, <1>13, <1>14, <1>15,
     <1>16 DEF OverviewNext

-----------------------------------------------------------------------------
(* Revisions of the screen. *)

\* What a step does to the screen: nothing that its revision does not tell.
ScreenMoves ==
    \/ screen'.rev = screen.rev /\ screen'.active = screen.active
    \/ screen'.rev = screen.rev + 1

\* Published files stay so when files are removed or the screen is locked.
LEMMA PublishedStays ==
  ASSUME CaptureShapes, PreviewsPublished, Images' \subseteq Images, Metas' \subseteq Metas, ScreenMoves
  PROVE  PreviewsPublished'
<1>1. screen.rev \in Nat
  BY StampRange DEF CaptureShapes, OverviewTypeOK, LockScreens
<1>2. ASSUME NEW rev, Unlocked(rev) PROVE Unlocked(rev)'
  BY <1>1, <1>2 DEF Unlocked, ScreenMoves
<1>3. \A c \in Images' \cup Metas' : Unlocked(c.rev)
  BY DEF PreviewsPublished
<1>4. \A c \in Images' \cup Metas' : Unlocked(c.rev)'
  BY <1>2, <1>3
<1>5. \A c \in Images', m \in Metas' : c.win = m.win => m.rev <= c.rev
  BY DEF PreviewsPublished
<1> QED
  BY <1>4, <1>5 DEF PreviewsPublished

\* So does what a batch knows, if it does not move itself.
LEMMA BatchStays ==
  ASSUME CaptureShapes, Batch, Images' \subseteq Images, Metas' \subseteq Metas, cache' \subseteq cache,
         ScreenMoves, grab' = grab
  PROVE  Batch'
<1>1. screen.rev \in Nat /\ grab.gen \in Nat
  BY StampRange DEF CaptureShapes, OverviewTypeOK, LockScreens, Grabs
<1>2. Dated' = Dated
  BY DEF Dated
<1>3. \A c \in cache' : Own(c)' = Own(c)
  BY DEF Own
<1>4. grab.gen <= screen.rev => grab.gen <= screen'.rev
  BY <1>1 DEF ScreenMoves
<1>5. grab.gen < screen.rev => grab.gen < screen'.rev
  BY <1>1 DEF ScreenMoves
<1>6. ~Dated => grab.taken = {}
  BY DEF Batch
<1>7. Dated => /\ \A c \in Images' \cup Metas' : c.rev <= grab.gen
               /\ \A c \in cache' : Own(c)' => c.rev = grab.gen \/ grab.gen < screen'.rev
  BY <1>3, <1>5 DEF Batch
<1>8. grab.pc = "image" => \A c \in cache' : Own(c)' => c.rev = grab.gen
  BY <1>3 DEF Batch
<1>9. grab.pc = "meta" => \A c \in Images' : c.win = grab.win => c.rev = grab.gen
  BY DEF Batch
<1>10. Dated => grab.gen <= screen'.rev
  BY <1>4 DEF Batch
<1>11. Dated <=> grab.pc \notin {"off", "admit", "generation"}
  BY DEF Dated
<1>12. /\ grab.pc \in {"spawn", "grim", "image", "meta"} =>
            (grab.gen = screen'.rev => ~screen'.active)
       /\ grab.pc = "grim" => (grab.gen = screen'.rev => grab.from = screen'.rev)
  BY <1>1, <1>11 DEF Batch, ScreenMoves
<1> QED
  BY <1>2, <1>6, <1>7, <1>8, <1>9, <1>10, <1>12 DEF Batch

\* A batch that does not take, publish or check anything keeps what it knows.
LEMMA BatchMoves ==
  ASSUME CaptureShapes, Batch, Images' \subseteq Images, Metas' \subseteq Metas, cache' \subseteq cache,
         UNCHANGED screen, Dated, grab'.gen = grab.gen, grab'.taken = grab.taken,
         grab'.pc \in {"sweep", "tree", "each", "sweepAgain", "treeAgain", "publish", "finish"}
  PROVE  Batch'
<1>1. Dated'
  BY DEF Dated
<1>2. \A c \in cache' : Own(c)' = Own(c)
  BY DEF Own
<1>3. /\ grab.gen <= screen.rev
      /\ \A c \in Images' \cup Metas' : c.rev <= grab.gen
      /\ \A c \in cache' : Own(c)' => c.rev = grab.gen \/ grab.gen < screen.rev
  BY <1>2 DEF Batch
<1> QED
  BY <1>1, <1>3 DEF Batch

\* A batch that has ended knows nothing.
LEMMA BatchEnds ==
  ASSUME grab'.pc \in {"off", "admit", "generation"}, grab'.taken = {}
  PROVE  Batch'
BY DEF Batch, Dated

\* Time stamps stay behind the clock.
LEMMA TimesKeep == CaptureShapes /\ Times /\ [OverviewNext]_ovars => Times'
<1> SUFFICES ASSUME CaptureShapes, Times, [OverviewNext]_ovars PROVE Times'
  OBVIOUS
<1>0. ticks \in Nat /\ \A c \in cache : c.at \in Nat
  BY DEF CaptureShapes, OverviewTypeOK, CacheFiles
<1>1. ASSUME cache' \subseteq cache, ticks' = ticks PROVE Times'
  BY <1>1 DEF Times
<1>2. CASE GrimEnds
  BY <1>0, <1>2 DEF GrimEnds, Times
<1>3. CASE PublishImage
  <2>1. CASE Temps(grab.win) = {}
    BY <1>1, <1>3, <2>1, CleanUps DEF PublishImage, Returned
  <2>2. CASE Temps(grab.win) # {}
    <3>1. ASSUME NEW c \in Temps(grab.win) PROVE [c EXCEPT !.kind = "image"].at <= ticks
      BY <3>1 DEF Temps, Of, Times, CaptureShapes, OverviewTypeOK, CacheFiles
    <3> QED
      BY <1>3, <2>2, <3>1 DEF PublishImage, Times
  <2> QED
    BY <2>1, <2>2
<1>4. CASE PublishMetadata
  <2>1. CASE Of("image", grab.win) = {}
    BY <1>1, <1>4, <2>1, CleanUps DEF PublishMetadata, Returned
  <2>2. CASE Of("image", grab.win) # {}
    BY <1>0, <1>4, <2>2 DEF PublishMetadata, Times
  <2> QED
    BY <2>1, <2>2
<1>5. CASE ~(GrimEnds \/ PublishImage \/ PublishMetadata)
  <2>1. ticks' = ticks
    BY <1>5 DEF OverviewNext, ovars, LockScreen, Unlock, LockerQuits, EditPolicy, ToggleOverview,
       CloseWindow, Inspect, Helpers, BeginCapture, AdmitCapture, Generation, Candidates,
       NextWindow, SweepForCapture, SpawnGrim, CandidatesAgain, NextPublished, FinishCapture,
       CaptureCancelled, BeginPanel, Sweep, ReadTree, ReadMetadata, Compare, FinishPanel, PanelKilled
  <2>2. CASE \/ AdmitCapture \/ Candidates \/ CandidatesAgain \/ FinishCapture \/ CaptureCancelled
             \/ SweepForCapture("sweep", "tree") \/ SweepForCapture("sweepAgain", "treeAgain")
             \/ Sweep \/ FinishPanel
    BY <1>1, <2>1, <2>2, CleanUps DEF AdmitCapture, Candidates, CandidatesAgain, FinishCapture,
       CaptureCancelled, SweepForCapture, Sweep, FinishPanel, Returned
  <2>3. CASE \/ LockScreen \/ Unlock \/ LockerQuits \/ EditPolicy \/ ToggleOverview
             \/ (\E w \in Windows : CloseWindow(w) \/ Inspect(w))
             \/ UNCHANGED ovars
    BY <1>1, <2>1, <2>3 DEF LockScreen, Unlock, LockerQuits, EditPolicy, ToggleOverview,
       CloseWindow, Inspect, Helpers, ovars
  <2>4. CASE \/ BeginCapture \/ Generation \/ NextWindow \/ SpawnGrim \/ NextPublished
             \/ BeginPanel \/ ReadTree \/ ReadMetadata \/ Compare \/ PanelKilled
    BY <1>1, <2>1, <2>4 DEF BeginCapture, Generation, NextWindow, SpawnGrim, NextPublished,
       BeginPanel, ReadTree, ReadMetadata, Compare, PanelKilled
  <2> QED
    BY <1>5, <2>2, <2>3, <2>4 DEF OverviewNext
<1> QED
  BY <1>2, <1>3, <1>4, <1>5

-----------------------------------------------------------------------------
(* The steps. *)

\* The lock, the policy and the overview leave the files alone.
LEMMA OutsideMoves ==
  ASSUME CaptureInv,
         \/ LockScreen \/ Unlock \/ LockerQuits \/ EditPolicy \/ ToggleOverview
         \/ \E w \in Windows : CloseWindow(w)
         \/ UNCHANGED ovars
  PROVE  PreviewsPublished' /\ Batch' /\ Looking' /\ PreviewIsCurrent'
<1>1. UNCHANGED <<cache, grab, panel>>
  BY DEF LockScreen, Unlock, LockerQuits, EditPolicy, ToggleOverview, CloseWindow, Helpers, ovars
<1>2. screen \in LockScreens
  BY DEF CaptureInv, CaptureShapes, OverviewTypeOK
<1>3. ScreenMoves
  BY <1>2 DEF LockScreen, Unlock, LockerQuits, EditPolicy, ToggleOverview, CloseWindow, ovars,
     ScreenMoves, LockScreens
<1>4. Images' = Images /\ Metas' = Metas
  BY <1>1 DEF Images, Metas
<1>5. PreviewsPublished' /\ Batch'
  BY <1>1, <1>3, <1>4, PublishedStays, BatchStays DEF CaptureInv
<1> QED
  BY <1>1, <1>5 DEF CaptureInv, Looking, PreviewIsCurrent

\* What a batch does to the files without publishing.
LEMMA BatchWorks ==
  ASSUME CaptureInv,
         \/ BeginCapture \/ AdmitCapture \/ Generation \/ Candidates \/ NextWindow
         \/ SweepForCapture("sweep", "tree") \/ SweepForCapture("sweepAgain", "treeAgain")
         \/ SpawnGrim \/ CandidatesAgain \/ NextPublished
         \/ FinishCapture \/ CaptureCancelled
  PROVE  PreviewsPublished' /\ Batch' /\ Looking' /\ PreviewIsCurrent'
<1>1. /\ screen \in LockScreens /\ grab \in Grabs /\ screen.rev \in Nat /\ grab.gen \in Nat
      /\ CaptureShapes /\ PreviewsPublished /\ Batch
  BY StampRange DEF CaptureInv, CaptureShapes, OverviewTypeOK, LockScreens, Grabs
<1>2. UNCHANGED <<screen, panel>>
  BY DEF BeginCapture, AdmitCapture, Generation, Candidates, NextWindow, SweepForCapture,
     SpawnGrim, CandidatesAgain, NextPublished, FinishCapture, CaptureCancelled, Outside
<1>3. cache' \subseteq cache
  <2>1. CASE \/ AdmitCapture \/ Candidates \/ CandidatesAgain \/ FinishCapture \/ CaptureCancelled
             \/ SweepForCapture("sweep", "tree") \/ SweepForCapture("sweepAgain", "treeAgain")
    BY <2>1, CleanUps DEF AdmitCapture, Candidates, CandidatesAgain, FinishCapture,
       CaptureCancelled, SweepForCapture, Returned
  <2>2. CASE BeginCapture \/ Generation \/ NextWindow \/ SpawnGrim \/ NextPublished
    BY <2>2 DEF BeginCapture, Generation, NextWindow, SpawnGrim, NextPublished
  <2> QED
    BY <2>1, <2>2
<1>4. Images' \subseteq Images /\ Metas' \subseteq Metas
  BY <1>2, <1>3 DEF Images, Metas
<1>5. ScreenMoves
  BY <1>2 DEF ScreenMoves
<1>6. PreviewsPublished'
  BY <1>1, <1>4, <1>5, PublishedStays
<1>7. ASSUME Dated,
             \E pc \in {"sweep", "tree", "each", "sweepAgain", "treeAgain", "publish", "finish"} :
               grab'.pc = pc /\ grab'.gen = grab.gen /\ grab'.taken = grab.taken
      PROVE  Batch'
  BY <1>1, <1>2, <1>3, <1>4, <1>7, BatchMoves
<1>8. ASSUME grab'.pc \in {"off", "admit", "generation"}, grab'.taken = {} PROVE Batch'
  BY <1>8, BatchEnds
<1>9. ASSUME BeginCapture \/ AdmitCapture \/ FinishCapture \/ CaptureCancelled PROVE Batch'
  <2>1. CASE grab' = NoGrab
    BY <1>8, <2>1, HelpersAtRest
  <2>2. CASE (BeginCapture \/ AdmitCapture) /\ grab' # NoGrab
    <3>1. grab.pc \in {"off", "admit"} /\ grab.taken = {}
      BY <1>1, <2>2 DEF BeginCapture, AdmitCapture, Batch, Dated
    <3>2. grab' = [grab EXCEPT !.pc = "admit"] \/ grab' = [grab EXCEPT !.pc = "generation"]
      BY <2>2 DEF BeginCapture, AdmitCapture, Returned, GrabGoes
    <3> QED
      BY <1>1, <1>8, <3>1, <3>2 DEF Grabs
  <2> QED
    BY <1>9, <2>1, <2>2 DEF FinishCapture, CaptureCancelled, Returned
<1>10. ASSUME Generation PROVE Batch'
  <2>1. /\ grab'.pc = "sweep" /\ grab'.gen = screen.rev /\ grab'.taken = grab.taken
        /\ grab.taken = {}
    BY <1>1, <1>10 DEF Generation, Grabs, Batch, Dated
  <2>2. \A c \in Images' \cup Metas' : c.rev <= screen.rev
    BY <1>1, <1>4 DEF PreviewsPublished, Unlocked
  <2>3. \A c \in cache' : ~Own(c)'
    BY <2>1 DEF Own
  <2>4. Dated'
    BY <2>1 DEF Dated
  <2> QED
    BY <1>1, <1>2, <2>1, <2>2, <2>3, <2>4 DEF Batch
<1>11. ASSUME SweepForCapture("sweep", "tree") \/ SweepForCapture("sweepAgain", "treeAgain")
       PROVE  Batch'
  BY <1>1, <1>7, <1>11 DEF SweepForCapture, Grabs, Dated
<1>12. ASSUME Candidates \/ CandidatesAgain PROVE Batch'
  <2> DEFINE todo == {w \in Windows : Temps(w) # {}}
  <2>1. /\ Dated
        /\ \/ grab' = [grab EXCEPT !.pc = "each", !.todo = overview.windows \ Excluded]
           \/ grab' = [grab EXCEPT !.pc = "publish", !.seen = overview.windows, !.todo = todo]
    BY <1>12 DEF Candidates, CandidatesAgain, Dated
  <2> HIDE DEF todo
  <2> QED
    BY <1>1, <1>7, <2>1 DEF Grabs
<1>13. ASSUME NEW pc \in {"spawn", "image"}, Dated, MayCapture, grab'.pc = pc,
              grab'.gen = grab.gen, grab'.taken = grab.taken
       PROVE  Batch'
  <2>1. ~screen.active /\ grab.gen = screen.rev
    BY <1>13 DEF MayCapture
  <2>2. Dated'
    BY <1>13 DEF Dated
  <2>3. \A c \in cache' : Own(c)' = Own(c)
    BY <1>13 DEF Own
  <2>4. \A c \in cache' : Own(c)' => c.rev = grab.gen
    BY <1>1, <1>3, <1>13, <2>1, <2>3 DEF Batch
  <2>5. \A c \in Images' \cup Metas' : c.rev <= grab.gen
    BY <1>1, <1>4, <1>13 DEF Batch
  <2> QED
    BY <1>1, <1>2, <1>13, <2>1, <2>2, <2>4, <2>5 DEF Batch
<1>14. ASSUME NextWindow PROVE Batch'
  <2>1. Dated
    BY <1>14 DEF NextWindow, Dated
  <2>2. CASE GrabGoes("sweepAgain")
    BY <1>1, <1>7, <2>1, <2>2 DEF GrabGoes, Grabs
  <2>3. ASSUME NEW w, MayCapture, grab' = [grab EXCEPT !.pc = "spawn", !.win = w, !.todo = @ \ {w}]
        PROVE  Batch'
    BY <1>1, <1>13, <2>1, <2>3 DEF Grabs
  <2> QED
    BY <1>14, <2>2, <2>3 DEF NextWindow
<1>15. ASSUME NextPublished PROVE Batch'
  <2>1. Dated
    BY <1>15 DEF NextPublished, Dated
  <2>2. CASE GrabGoes("finish")
    BY <1>1, <1>7, <2>1, <2>2 DEF GrabGoes, Grabs
  <2>3. ASSUME NEW w, NEW pc \in {"publish", "image"}, MayCapture,
               grab' = [grab EXCEPT !.todo = @ \ {w}, !.win = w, !.pc = pc]
        PROVE  Batch'
    <3>1. grab'.pc = pc /\ grab'.gen = grab.gen /\ grab'.taken = grab.taken
      BY <1>1, <2>3 DEF Grabs
    <3> QED
      BY <1>7, <1>13, <2>1, <2>3, <3>1
  <2> QED
    BY <1>15, <2>2, <2>3 DEF NextPublished
<1>16. ASSUME SpawnGrim PROVE Batch'
  <2>1. /\ grab.pc = "spawn" /\ grab'.pc = "grim" /\ grab'.gen = grab.gen
        /\ grab'.taken = grab.taken /\ cache' = cache
        /\ grab'.from = IF screen.active THEN Spoilt ELSE screen.rev
    BY <1>1, <1>16 DEF SpawnGrim, Grabs
  <2>2. Dated /\ Dated'
    BY <2>1 DEF Dated
  <2>3. \A c \in cache' : Own(c)' = Own(c)
    BY <2>1 DEF Own
  <2>4. grab.gen = screen.rev => ~screen.active
    BY <1>1, <2>1 DEF Batch
  <2>5. /\ grab.gen <= screen.rev
        /\ \A c \in Images' \cup Metas' : c.rev <= grab.gen
        /\ \A c \in cache' : Own(c)' => c.rev = grab.gen \/ grab.gen < screen.rev
    BY <1>1, <1>4, <2>1, <2>2, <2>3 DEF Batch
  <2> QED
    BY <1>1, <1>2, <2>1, <2>2, <2>4, <2>5 DEF Batch
<1> QED
  BY <1>2, <1>6, <1>9, <1>10, <1>11, <1>12, <1>14, <1>15, <1>16
  DEF CaptureInv, Looking, PreviewIsCurrent

\* A file of its own for the batch, whose revision grim could not change.
LEMMA GrimWorks ==
  ASSUME CaptureInv, GrimEnds
  PROVE  PreviewsPublished' /\ Batch' /\ Looking' /\ PreviewIsCurrent'
<1>1. /\ grab \in Grabs /\ screen.rev \in Nat /\ grab.gen \in Nat /\ ticks \in Nat
      /\ cache \subseteq CacheFiles
      /\ CaptureShapes /\ PreviewsPublished /\ Batch /\ Times /\ grab.taken \in SUBSET Nat
  BY StampRange DEF CaptureInv, CaptureShapes, OverviewTypeOK, LockScreens, Grabs
<1>2. UNCHANGED <<screen, panel>> /\ grab.pc = "grim"
  BY DEF GrimEnds, Outside
<1>3. Dated
  BY <1>2 DEF Dated
<1>4. CASE GrabGoes("each") /\ UNCHANGED cache
  <2>1. Images' \subseteq Images /\ Metas' \subseteq Metas
    BY <1>2, <1>4 DEF Images, Metas
  <2>2. /\ grab'.pc = "each" /\ grab'.gen = grab.gen /\ grab'.taken = grab.taken
    BY <1>1, <1>4 DEF GrabGoes, Grabs
  <2>3. Batch'
    BY <1>1, <1>2, <1>3, <1>4, <2>1, <2>2, BatchMoves
  <2>4. PreviewsPublished'
    BY <1>1, <1>2, <2>1, PublishedStays DEF ScreenMoves
  <2> QED
    BY <1>2, <2>3, <2>4 DEF CaptureInv, Looking, PreviewIsCurrent
<1>5. ASSUME NEW rev, rev = IF grab.from = screen.rev THEN screen.rev ELSE Spoilt,
             NEW temp, temp = [kind |-> "temp", win |-> grab.win, at |-> ticks + 1, of |-> 0,
                               rev |-> rev],
             grab' = [grab EXCEPT !.pc = "each", !.taken = @ \cup {ticks + 1}],
             cache' = cache \cup {temp}
      PROVE  PreviewsPublished' /\ Batch' /\ Looking' /\ PreviewIsCurrent'
  <2>1. temp.kind = "temp" /\ temp.at = ticks + 1 /\ temp.rev = rev
    BY <1>5
  <2>2. Images' = Images /\ Metas' = Metas
    BY <1>2, <1>5, <2>1 DEF Images, Metas
  <2>3. PreviewsPublished'
    BY <1>1, <1>2, <2>2, PublishedStays DEF ScreenMoves
  <2>4. /\ grab'.pc = "each" /\ grab'.gen = grab.gen
        /\ grab'.taken = grab.taken \cup {ticks + 1}
    BY <1>1, <1>5 DEF Grabs
  <2>5. Dated'
    BY <2>4 DEF Dated
  <2>6. rev = grab.gen \/ grab.gen < screen.rev
    BY <1>1, <1>2, <1>3, <1>5 DEF Batch
  <2>7. ASSUME NEW c \in cache, Own(c)' PROVE Own(c)
    <3>1. c.at <= ticks /\ c.at \in Nat
      BY <1>1 DEF Times, CacheFiles
    <3>2. c.at # ticks + 1
      BY <1>1, <3>1
    <3> QED
      BY <2>4, <2>7, <3>2 DEF Own
  <2>8. \A c \in cache' : Own(c)' => c.rev = grab.gen \/ grab.gen < screen.rev
    <3>1. ASSUME NEW c \in cache, Own(c)' PROVE c.rev = grab.gen \/ grab.gen < screen.rev
      BY <1>1, <1>3, <2>7, <3>1 DEF Batch
    <3> QED
      BY <1>5, <2>1, <2>6, <3>1
  <2>9. grab.gen <= screen.rev /\ \A c \in Images' \cup Metas' : c.rev <= grab.gen
    BY <1>1, <1>3, <2>2 DEF Batch
  <2>10. Batch'
    BY <1>2, <2>4, <2>5, <2>8, <2>9 DEF Batch
  <2> QED
    BY <1>2, <2>3, <2>10 DEF CaptureInv, Looking, PreviewIsCurrent
<1> QED
  BY <1>4, <1>5 DEF GrimEnds

\* The image is published under the revision that the batch read.
LEMMA ImageIsPublished ==
  ASSUME CaptureInv, PublishImage
  PROVE  PreviewsPublished' /\ Batch' /\ Looking' /\ PreviewIsCurrent'
<1>1. /\ grab \in Grabs /\ screen.rev \in Nat /\ grab.gen \in Nat /\ cache \subseteq CacheFiles
      /\ CaptureShapes /\ PreviewsPublished /\ Batch
  BY StampRange DEF CaptureInv, CaptureShapes, OverviewTypeOK, LockScreens, Grabs
<1>2. UNCHANGED <<screen, panel>> /\ grab.pc = "image"
  BY DEF PublishImage, Outside
<1>3. Dated
  BY <1>2 DEF Dated
<1>4. CASE Returned(WithoutTemps)
  <2>1. cache' \subseteq cache /\ grab'.pc = "off" /\ grab'.taken = {}
    BY <1>4, CleanUps, HelpersAtRest DEF Returned
  <2>2. Images' \subseteq Images /\ Metas' \subseteq Metas
    BY <1>2, <2>1 DEF Images, Metas
  <2>3. Batch'
    BY <2>1, BatchEnds
  <2>4. PreviewsPublished'
    BY <1>1, <1>2, <2>2, PublishedStays DEF ScreenMoves
  <2> QED
    BY <1>2, <2>3, <2>4 DEF CaptureInv, Looking, PreviewIsCurrent
<1>5. CASE /\ GrabGoes("meta")
           /\ cache' = (cache \ (Temps(grab.win) \cup Of("image", grab.win)))
                       \cup {[c EXCEPT !.kind = "image"] : c \in Temps(grab.win)}
  <2> DEFINE new == {[c EXCEPT !.kind = "image"] : c \in Temps(grab.win)}
  <2>1. grab'.pc = "meta" /\ grab'.gen = grab.gen /\ grab'.taken = grab.taken
        /\ grab'.win = grab.win
    BY <1>1, <1>5 DEF GrabGoes, Grabs
  <2>2. Dated'
    BY <2>1 DEF Dated
  <2>3. ASSUME NEW c \in new
        PROVE  c.kind = "image" /\ c.win = grab.win /\ c.rev = grab.gen
    <3>1. PICK d \in Temps(grab.win) : c = [d EXCEPT !.kind = "image"]
      OBVIOUS
    <3>2. d \in CacheFiles /\ d.win = grab.win /\ Own(d) /\ d \in cache
      BY <1>1 DEF Temps, Of, Own
    <3>3. d.rev = grab.gen
      BY <1>1, <1>2, <3>2 DEF Batch
    <3> QED
      BY <3>1, <3>2, <3>3 DEF CacheFiles
  <2>4. \A c \in cache' : c \in new \/ (c \in cache /\ c \notin Of("image", grab.win))
    BY <1>5
  <2> HIDE DEF new
  <2>5. ASSUME NEW c \in Images'
        PROVE  (c \in Images /\ c.win # grab.win) \/ (c.win = grab.win /\ c.rev = grab.gen)
    <3>1. c \in cache' /\ c.kind = "image"
      BY <2>5 DEF Images
    <3>2. CASE c \in new
      BY <2>3, <3>2
    <3>3. CASE c \in cache /\ c \notin Of("image", grab.win)
      BY <3>1, <3>3 DEF Images, Of
    <3> QED
      BY <2>4, <3>1, <3>2, <3>3
  <2>6. Metas' \subseteq Metas
    BY <1>2, <2>3, <2>4 DEF Metas
  <2>7. ASSUME NEW c \in cache', Own(c)' PROVE c \in cache /\ Own(c)
    BY <2>1, <2>3, <2>4, <2>7 DEF Own
  <2>8. Unlocked(grab.gen)
    BY <1>1, <1>2, <1>3 DEF Batch, Unlocked
  <2>9. \A c \in Images \cup Metas : Unlocked(c.rev) /\ c.rev <= grab.gen
    BY <1>1, <1>3 DEF Batch, PreviewsPublished
  <2>10. \A c \in Images' \cup Metas' : Unlocked(c.rev) /\ c.rev <= grab.gen
    BY <1>1, <2>5, <2>6, <2>8, <2>9
  <2>11. \A c \in Images' \cup Metas' : Unlocked(c.rev)'
    BY <1>2, <2>10 DEF Unlocked
  <2>12. \A c \in Images', m \in Metas' : c.win = m.win => m.rev <= c.rev
    BY <1>1, <2>5, <2>6, <2>9 DEF PreviewsPublished
  <2>13. PreviewsPublished'
    BY <2>11, <2>12 DEF PreviewsPublished
  <2>14. \A c \in cache' : Own(c)' => c.rev = grab.gen \/ grab.gen < screen.rev
    BY <1>1, <1>2, <2>7 DEF Batch
  <2>15. \A c \in Images' : c.win = grab.win => c.rev = grab.gen
    BY <2>5
  <2>16. grab.gen <= screen.rev /\ (grab.gen = screen.rev => ~screen.active)
    BY <2>8 DEF Unlocked
  <2>17. Batch'
    BY <1>2, <2>1, <2>2, <2>10, <2>14, <2>15, <2>16 DEF Batch
  <2> QED
    BY <1>2, <2>13, <2>17 DEF CaptureInv, Looking, PreviewIsCurrent
<1> QED
  BY <1>4, <1>5 DEF PublishImage

\* So are its metadata.
LEMMA MetadataIsPublished ==
  ASSUME CaptureInv, PublishMetadata
  PROVE  PreviewsPublished' /\ Batch' /\ Looking' /\ PreviewIsCurrent'
<1>1. /\ grab \in Grabs /\ screen.rev \in Nat /\ grab.gen \in Nat /\ cache \subseteq CacheFiles
      /\ CaptureShapes /\ PreviewsPublished /\ Batch
  BY StampRange DEF CaptureInv, CaptureShapes, OverviewTypeOK, LockScreens, Grabs
<1>2. UNCHANGED <<screen, panel>> /\ grab.pc = "meta"
  BY DEF PublishMetadata, Outside
<1>3. Dated
  BY <1>2 DEF Dated
<1>4. CASE Returned(WithoutTemps)
  <2>1. cache' \subseteq cache /\ grab'.pc = "off" /\ grab'.taken = {}
    BY <1>4, CleanUps, HelpersAtRest DEF Returned
  <2>2. Images' \subseteq Images /\ Metas' \subseteq Metas
    BY <1>2, <2>1 DEF Images, Metas
  <2>3. Batch'
    BY <2>1, BatchEnds
  <2>4. PreviewsPublished'
    BY <1>1, <1>2, <2>2, PublishedStays DEF ScreenMoves
  <2> QED
    BY <1>2, <2>3, <2>4 DEF CaptureInv, Looking, PreviewIsCurrent
<1>5. CASE /\ GrabGoes("publish")
           /\ cache' = (cache \ Of("meta", grab.win)) \cup
                 {[kind |-> "meta", win |-> grab.win, at |-> ticks', of |-> c.at,
                   rev |-> grab.gen] : c \in Of("image", grab.win)}
  <2> DEFINE new == {[kind |-> "meta", win |-> grab.win, at |-> ticks', of |-> c.at,
                      rev |-> grab.gen] : c \in Of("image", grab.win)}
  <2>1. grab'.pc = "publish" /\ grab'.gen = grab.gen /\ grab'.taken = grab.taken
    BY <1>1, <1>5 DEF GrabGoes, Grabs
  <2>2. Dated'
    BY <2>1 DEF Dated
  <2>3. \A c \in new : c.kind = "meta" /\ c.win = grab.win /\ c.rev = grab.gen
    OBVIOUS
  <2>4. \A c \in cache' : c \in new \/ c \in cache
    BY <1>5
  <2> HIDE DEF new
  <2>5. Images' \subseteq Images
    BY <2>3, <2>4 DEF Images
  <2>6. \A m \in Metas' : m \in Metas \/ (m.win = grab.win /\ m.rev = grab.gen)
    BY <1>2, <2>3, <2>4 DEF Metas
  <2>7. ASSUME NEW c \in cache', Own(c)' PROVE c \in cache /\ Own(c)
    BY <2>1, <2>3, <2>4, <2>7 DEF Own
  <2>8. Unlocked(grab.gen)
    BY <1>1, <1>2, <1>3 DEF Batch, Unlocked
  <2>9. \A c \in Images \cup Metas : Unlocked(c.rev) /\ c.rev <= grab.gen
    BY <1>1, <1>3 DEF Batch, PreviewsPublished
  <2>10. \A c \in Images' \cup Metas' : Unlocked(c.rev) /\ c.rev <= grab.gen
    BY <1>1, <2>5, <2>6, <2>8, <2>9
  <2>11. \A c \in Images' \cup Metas' : Unlocked(c.rev)'
    BY <1>2, <2>10 DEF Unlocked
  <2>12. \A c \in Images : c.win = grab.win => c.rev = grab.gen
    BY <1>1, <1>2 DEF Batch
  <2>13. \A c \in Images', m \in Metas' : c.win = m.win => m.rev <= c.rev
    BY <1>1, <2>5, <2>6, <2>12 DEF PreviewsPublished
  <2>14. PreviewsPublished'
    BY <2>11, <2>13 DEF PreviewsPublished
  <2>15. \A c \in cache' : Own(c)' => c.rev = grab.gen \/ grab.gen < screen.rev
    BY <1>1, <1>3, <2>7 DEF Batch
  <2>16. grab.gen <= screen.rev
    BY <2>8 DEF Unlocked
  <2>17. Batch'
    BY <1>2, <2>1, <2>2, <2>10, <2>15, <2>16 DEF Batch
  <2>18. Looking' /\ PreviewIsCurrent'
    BY <1>2 DEF CaptureInv, Looking, PreviewIsCurrent
  <2> QED
    BY <2>14, <2>17, <2>18
<1> QED
  BY <1>4, <1>5 DEF PublishMetadata

\* A panel only removes files, and is given what it has compared.
LEMMA PanelWorks ==
  ASSUME CaptureInv,
         \/ BeginPanel \/ Sweep \/ ReadTree \/ ReadMetadata \/ Compare \/ FinishPanel \/ PanelKilled
         \/ \E w \in Windows : Inspect(w)
  PROVE  PreviewsPublished' /\ Batch' /\ Looking' /\ PreviewIsCurrent'
<1>1. /\ panel \in Panels /\ screen.rev \in Nat
      /\ CaptureShapes /\ PreviewsPublished /\ Batch /\ Looking /\ PreviewIsCurrent
  BY StampRange DEF CaptureInv, CaptureShapes, OverviewTypeOK, LockScreens
<1>2. UNCHANGED <<screen, grab>>
  BY DEF BeginPanel, Sweep, ReadTree, ReadMetadata, Compare, FinishPanel, PanelKilled, Inspect,
     Outside
<1>3. cache' \subseteq cache
  <2>1. ASSUME NEW w \in Windows, Inspect(w) PROVE cache' \subseteq cache
    BY <2>1 DEF Inspect
  <2>2. CASE Sweep \/ FinishPanel
    BY <2>2, CleanUps DEF Sweep, FinishPanel
  <2>3. CASE BeginPanel \/ ReadTree \/ ReadMetadata \/ Compare \/ PanelKilled
    BY <2>3 DEF BeginPanel, ReadTree, ReadMetadata, Compare, PanelKilled
  <2> QED
    BY <2>1, <2>2, <2>3
<1>4. ASSUME panel'.meta \subseteq Metas PROVE PreviewsPublished' /\ Batch'
  <2>1. Images' \subseteq Images /\ Metas' \subseteq Metas
    BY <1>3, <1>4 DEF Images, Metas
  <2> QED
    BY <1>1, <1>2, <1>3, <2>1, PublishedStays, BatchStays DEF ScreenMoves
<1>5. ASSUME panel'.meta = {}, panel'.pc # "compare", panel'.given \subseteq panel.given
      PROVE  PreviewsPublished' /\ Batch' /\ Looking' /\ PreviewIsCurrent'
  <2>1. PreviewsPublished' /\ Batch'
    BY <1>4, <1>5
  <2> QED
    BY <1>1, <1>5, <2>1 DEF Looking, PreviewIsCurrent
<1>6. CASE FinishPanel \/ PanelKilled
  BY <1>5, <1>6, HelpersAtRest DEF FinishPanel, PanelKilled
<1>7. CASE BeginPanel \/ Sweep \/ ReadTree
  <2>1. /\ panel'.meta = panel.meta /\ panel'.win = panel.win /\ panel'.given = panel.given
        /\ panel'.pc # "compare" /\ panel.pc # "compare"
    BY <1>1, <1>7 DEF BeginPanel, Sweep, ReadTree, Panels
  <2>2. panel'.meta \subseteq Metas
    BY <1>1, <2>1 DEF Looking, Metas
  <2>3. PreviewsPublished' /\ Batch'
    BY <1>4, <2>2
  <2> QED
    BY <1>1, <2>1, <2>3 DEF Looking, PreviewIsCurrent
<1>8. ASSUME NEW w \in Windows, Inspect(w)
      PROVE  PreviewsPublished' /\ Batch' /\ Looking' /\ PreviewIsCurrent'
  <2>1. panel.pc = "each" /\ panel.meta = {}
    BY <1>1, <1>8 DEF Inspect, Looking
  <2>2. panel'.meta = {} /\ panel'.pc # "compare" /\ panel'.given = panel.given
    <3>1. CASE panel' = [panel EXCEPT !.todo = @ \ {w}]
      BY <1>1, <2>1, <3>1 DEF Panels
    <3>2. ASSUME NEW at,
                 panel' = [panel EXCEPT !.todo = @ \ {w}, !.pc = "meta", !.win = w, !.stat = at]
          PROVE  panel'.meta = {} /\ panel'.pc # "compare" /\ panel'.given = panel.given
      BY <1>1, <2>1, <3>2 DEF Panels
    <3> QED
      BY <1>8, <3>1, <3>2 DEF Inspect
  <2> QED
    BY <1>5, <2>2
<1>9. CASE ReadMetadata
  <2>1. /\ panel'.meta = Of("meta", panel.win) /\ panel'.win = panel.win
        /\ panel'.given = panel.given
        /\ panel'.pc = "compare" <=> panel'.meta # {}
    BY <1>1, <1>9 DEF ReadMetadata, Panels
  <2>2. panel'.meta \subseteq Metas /\ \A m \in panel'.meta : m.kind = "meta" /\ m.win = panel.win
    BY <2>1 DEF Metas, Of
  <2>3. PreviewsPublished' /\ Batch'
    BY <1>4, <2>2
  <2> QED
    BY <1>1, <2>1, <2>2, <2>3 DEF Looking, PreviewIsCurrent
<1>10. CASE Compare
  <2> DEFINE now == [active |-> screen.active, rev |-> screen.rev]
             files == Of("image", panel.win)
  <2>1. /\ panel.pc = "compare" /\ panel'.meta = {} /\ panel'.pc = "each"
        /\ panel'.given = IF IsValid THEN panel.given \cup [screen : {now}, file : files]
                          ELSE panel.given
    BY <1>1, <1>10 DEF Compare, Panels
  <2>2. CASE ~IsValid
    BY <1>5, <2>1, <2>2
  <2>3. CASE IsValid
    <3>1. PICK m \in panel.meta : m.rev = screen.rev /\ m.win = panel.win /\ m.kind = "meta"
      BY <1>1, <2>1, <2>3 DEF Looking, IsValid
    <3>2. ~screen.active
      BY <1>1, <3>1 DEF PreviewsPublished, Unlocked, Metas
    <3>3. ASSUME NEW c \in files PROVE c.rev = screen.rev
      <4>1. c \in Images /\ c.win = panel.win /\ m \in Metas
        BY <3>1 DEF Images, Metas, Of
      <4>2. m.rev <= c.rev /\ Unlocked(c.rev)
        BY <1>1, <3>1, <4>1 DEF PreviewsPublished
      <4> QED
        BY <1>1, <3>1, <4>2 DEF Unlocked
    <3>4. now.active = screen.active /\ now.rev = screen.rev
      OBVIOUS
    <3> HIDE DEF now, files
    <3>5. ASSUME NEW g \in panel'.given PROVE ~g.screen.active /\ g.file.rev = g.screen.rev
      <4>1. CASE g \in panel.given
        BY <1>1, <4>1 DEF PreviewIsCurrent
      <4>2. CASE g \in [screen : {now}, file : files]
        <5>1. g.screen = now /\ g.file \in files
          BY <4>2
        <5> QED
          BY <3>2, <3>3, <3>4, <5>1
      <4> QED
        BY <2>1, <2>3, <3>5, <4>1, <4>2
    <3>6. PreviewsPublished' /\ Batch'
      BY <1>4, <2>1
    <3> QED
      BY <2>1, <3>5, <3>6 DEF Looking, PreviewIsCurrent
  <2> QED
    BY <2>2, <2>3
<1> QED
  BY <1>6, <1>7, <1>8, <1>9, <1>10

\* The files and the helpers at the beginning, and after each step.
LEMMA CaptureStarts == OverviewInit => CaptureInv
<1> SUFFICES ASSUME OverviewInit PROVE CaptureInv
  OBVIOUS
<1>1. /\ overview \in [open : BOOLEAN, windows : SUBSET Windows]
      /\ more \in Quotas /\ more.locks <= MaxLocks /\ more.locks \in Nat
  BY OverviewAssumption DEF OverviewInit, Quotas
<1>2. screen \in LockScreens /\ policy \in [enabled : BOOLEAN, apps : SUBSET Windows]
  BY StampRange DEF OverviewInit, LockScreens
<1>3. CaptureShapes
  BY <1>1, <1>2, HelpersAtRest DEF OverviewInit, CaptureShapes, OverviewTypeOK
<1>4. cache = {} /\ panel.meta = {} /\ panel.given = {} /\ panel.pc = "off"
      /\ grab.pc = "off" /\ grab.taken = {}
  BY HelpersAtRest DEF OverviewInit
<1>5. Images = {} /\ Metas = {}
  BY <1>4 DEF Images, Metas
<1> QED
  BY <1>3, <1>4, <1>5
  DEF CaptureInv, Times, PreviewsPublished, Batch, Dated, Looking, PreviewIsCurrent

\* They keep it.
LEMMA CaptureKeeps == CaptureInv /\ [OverviewNext]_ovars => CaptureInv'
<1> SUFFICES ASSUME CaptureInv, [OverviewNext]_ovars PROVE CaptureInv'
  OBVIOUS
<1>1. CaptureShapes' /\ Times'
  BY ShapesKeep, TimesKeep DEF CaptureInv
<1>2. PreviewsPublished' /\ Batch' /\ Looking' /\ PreviewIsCurrent'
  BY OutsideMoves, BatchWorks, GrimWorks, ImageIsPublished, MetadataIsPublished, PanelWorks
  DEF OverviewNext
<1> QED
  BY <1>1, <1>2 DEF CaptureInv

\* When a panel is given a preview (state, _capture_windows), the file it will
\* load was captured in the unlocked period that still lasts, whatever was
\* locked, evicted, replaced or killed since.
THEOREM PreviewsAreCurrent == OverviewSpec => []PreviewIsCurrent
<1>1. CaptureInv => PreviewIsCurrent
  BY DEF CaptureInv
<1> QED
  BY CaptureStarts, CaptureKeeps, <1>1, PTL DEF OverviewSpec

\* The cache, the two helpers and the guard hold what they are declared to
\* (overview/backend.py), and the revisions stay within the writes allowed.
THEOREM OverviewTypesHold == OverviewSpec => []OverviewTypeOK
<1>1. CaptureInv => OverviewTypeOK
  BY DEF CaptureInv, CaptureShapes
<1> QED
  BY CaptureStarts, CaptureKeeps, <1>1, PTL DEF OverviewSpec
=============================================================================
