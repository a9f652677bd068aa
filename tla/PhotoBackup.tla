---------------------------- MODULE PhotoBackup ----------------------------
(***************************************************************************)
(* labfy-photo-backup: one run lists the library, copies it with rsync to  *)
(* the mount it pinned, synchronises, reads both sides again, lists the    *)
(* library a second time and then leaves a report on the device.  The      *)
(* library is edited and the device unplugged at any moment.               *)
(***************************************************************************)
EXTENDS Naturals

CONSTANTS
    Photos,
    MaxShots,       \* bound on edits that leave a new version
    MaxDiscards,    \* bound on photos removed
    MaxBackups,     \* bound on runs
    MaxTrouble,     \* bound on unplugs, kills and bad writes together
    Torn            \* what a copy holds when rsync read, or wrote, it wrong

ASSUME BackupAssumption ==
    /\ MaxShots \in Nat /\ MaxDiscards \in Nat
    /\ MaxBackups \in Nat /\ MaxTrouble \in Nat

VARIABLES
    library,        \* the version of each photo, 0 when there is none
    device,         \* its mount, and its directories now and after an unplug
    reports,        \* the reports in Verifications/
    saving,         \* the run
    status,         \* status.json
    used            \* what happened so far

pvars == <<library, device, reports, saving, status, used>>

\* A version is what file_identity tells apart: size, both times and inode.
\* An edit leaves one that never was before.
Shots == 0..(1 + MaxShots)
Absence == [f \in Photos |-> 0]
Directories ==
    [Photos -> [copy : Shots \cup {Torn}, kept : SUBSET (Shots \cup {Torn})]]
BackupPcs == {"off", "open", "list", "copy", "sync", "verify", "recheck",
              "probe", "report", "confirm", "result"}
Reports == [listed : [Photos -> Shots], seen : SUBSET [Photos -> Shots]]
NoReport == [listed |-> Absence, seen |-> {}]

NotSaving == [pc |-> "off", mount |-> 0, listed |-> Absence, todo |-> {},
              code |-> 0, seen |-> {}]

BackupTypeOK ==
    /\ library \in [Photos -> Shots]
    /\ device \in [mount : 0..(MaxTrouble + 1), now : Directories, durable : Directories]
    /\ reports \subseteq Reports
    /\ saving \in [pc : BackupPcs, mount : 0..(MaxTrouble + 1),
                   listed : [Photos -> Shots], todo : SUBSET Photos, code : 0..1,
                   seen : SUBSET [Photos -> Shots]]
    /\ status \in [phase : {"idle", "active", "error", "success"},
                   last : Reports]
    /\ used \in [shots : Shots, discards : 0..MaxDiscards, backups : 0..MaxBackups,
                 trouble : 0..MaxTrouble, mounts : 1..(MaxTrouble + 1)]

\* Every photo but one, which a run may see appear.
BackupInit ==
    /\ \E new \in Photos :
         library = [f \in Photos |-> IF f = new THEN 0 ELSE 1]
    /\ LET empty == [f \in Photos |-> [copy |-> 0, kept |-> {}]] IN
       device = [mount |-> 1, now |-> empty, durable |-> empty]
    /\ reports = {} /\ saving = NotSaving
    /\ status = [phase |-> "idle", last |-> NoReport]
    /\ used = [shots |-> 1, discards |-> 0, backups |-> 0, trouble |-> 0, mounts |-> 1]

-----------------------------------------------------------------------------
(* What happens around the run. *)

\* The states of the library that the run has lived through since the sync.
Witness == [saving EXCEPT !.seen = IF @ = {} THEN {} ELSE @ \cup {library'}]

\* A photo is taken, or changed.
Shoot(f) ==
    /\ used.shots < 1 + MaxShots
    /\ used' = [used EXCEPT !.shots = @ + 1]
    /\ library' = [library EXCEPT ![f] = used.shots + 1]
    /\ saving' = Witness
    /\ UNCHANGED <<device, reports, status>>

Discard(f) ==
    /\ library[f] # 0 /\ used.discards < MaxDiscards
    /\ used' = [used EXCEPT !.discards = @ + 1]
    /\ library' = [library EXCEPT ![f] = 0]
    /\ saving' = Witness
    /\ UNCHANGED <<device, reports, status>>

Trouble == used.trouble < MaxTrouble /\ used' = [used EXCEPT !.trouble = @ + 1]

\* What was not synchronised is there or not, photo by photo.
Unplug ==
    /\ device.mount # 0 /\ Trouble
    /\ \E lost \in SUBSET Photos :
         LET left == [f \in Photos |->
                         IF f \in lost THEN device.durable[f] ELSE device.now[f]] IN
         device' = [mount |-> 0, now |-> left, durable |-> left]
    /\ UNCHANGED <<library, reports, saving, status>>

\* A mount has an identity that no earlier one has: the run's is pinned.
Plug ==
    /\ device.mount = 0
    /\ device' = [device EXCEPT !.mount = used.mounts + 1]
    /\ used' = [used EXCEPT !.mounts = @ + 1]
    /\ UNCHANGED <<library, reports, saving, status>>

-----------------------------------------------------------------------------
(* run_backup. *)

Undisturbed == UNCHANGED <<library, used>>
Media == UNCHANGED <<device, reports>>
SavingGoes(pc, todo) == saving' = [saving EXCEPT !.pc = pc, !.todo = todo]
Mounted == device.mount = saving.mount

\* The lock is free when no run holds it; the phase becomes "planning".
StartBackup ==
    /\ saving.pc = "off" /\ used.backups < MaxBackups
    /\ used' = [used EXCEPT !.backups = @ + 1]
    /\ saving' = [saving EXCEPT !.pc = "open"]
    /\ status' = [status EXCEPT !.phase = "active"]
    /\ UNCHANGED <<library, device, reports>>

\* An exception, wherever the run is: SIGTERM, a full or unplugged device, a
\* file that no longer reads.  last_success stays.
Abort ==
    /\ saving.pc # "off" /\ saving' = NotSaving
    /\ status' = [status EXCEPT !.phase = "error"]
    /\ Media /\ Undisturbed

\* The run dies with its rsync: the unit kills the whole group.
KillBackup ==
    /\ saving.pc # "off" /\ saving' = NotSaving /\ Trouble
    /\ UNCHANGED <<library, device, reports, status>>

\* open_destination: the two probes and the descriptor agree on the mount.
OpenDestination ==
    /\ saving.pc = "open" /\ device.mount # 0
    /\ saving' = [saving EXCEPT !.pc = "list", !.mount = device.mount, !.todo = Photos]
    /\ Media /\ Undisturbed /\ UNCHANGED status

\* inventory, one entry after the other.  An empty library is refused.
List(f) ==
    /\ saving.pc = "list" /\ f \in saving.todo
    /\ LET listed == [saving.listed EXCEPT ![f] = library[f]]
           rest == saving.todo \ {f}
           found == {g \in Photos : listed[g] # 0} IN
       /\ rest # {} \/ found # {}
       /\ saving' = [saving EXCEPT !.listed = listed,
                         !.pc = IF rest = {} THEN "copy" ELSE "list",
                         !.todo = IF rest = {} THEN found ELSE rest]
    /\ Media /\ Undisturbed /\ UNCHANGED status

\* --backup: the file that is replaced goes to Historique.
Replaced(old, new) ==
    IF old.copy = new THEN old
    ELSE [copy |-> new,
          kept |-> IF old.copy = 0 THEN old.kept ELSE old.kept \cup {old.copy}]

\* rsync takes the file as it is now; one that vanished only makes its exit
\* code, and one it reads while it changes may be torn.
Copy(f) ==
    /\ saving.pc = "copy" /\ f \in saving.todo /\ Mounted
    /\ LET rest == saving.todo \ {f} IN
       saving' = [saving EXCEPT !.todo = rest,
                      !.pc = IF rest = {} THEN "sync" ELSE "copy",
                      !.code = IF library[f] = 0 THEN 1 ELSE @]
    /\ IF library[f] = 0 THEN UNCHANGED <<device, used>>
       ELSE \E data \in {library[f], Torn} :
              /\ IF data = Torn THEN Trouble ELSE UNCHANGED used
              /\ device' = [device EXCEPT !.now[f] = Replaced(@, data)]
    /\ UNCHANGED <<library, reports, status>>

\* rsync succeeded, and syncfs does.
SyncFilesystem ==
    /\ saving.pc = "sync" /\ saving.code = 0 /\ Mounted
    /\ device' = [device EXCEPT !.durable = device.now]
    /\ saving' = [saving EXCEPT !.pc = "verify", !.seen = {library},
                      !.todo = {f \in Photos : saving.listed[f] # 0}]
    /\ Undisturbed /\ UNCHANGED <<reports, status>>

\* digest of both: the source must be what was listed, the copy the same. An
\* unplugged copy may still be read from the cache.
Verify(f) ==
    /\ saving.pc = "verify" /\ f \in saving.todo
    /\ library[f] = saving.listed[f] /\ device.now[f].copy = saving.listed[f]
    /\ LET rest == saving.todo \ {f} IN
       IF rest = {} THEN SavingGoes("recheck", Photos) ELSE SavingGoes("verify", rest)
    /\ Media /\ Undisturbed /\ UNCHANGED status

\* Mistake: only the photos that were listed are looked at again.
SameAsListedOnly(f) == saving.listed[f] # 0 => library[f] = saving.listed[f]

SameAsListed(f) == library[f] = saving.listed[f]

\* The second inventory must be the first one, absences included.
SecondInventory(f) ==
    /\ saving.pc = "recheck" /\ f \in saving.todo /\ SameAsListed(f)
    /\ LET rest == saving.todo \ {f} IN
       SavingGoes(IF rest = {} THEN "probe" ELSE "recheck", rest)
    /\ Media /\ Undisturbed /\ UNCHANGED status

ProbeAgain ==
    /\ saving.pc = "probe" /\ Mounted /\ SavingGoes("report", {})
    /\ Media /\ Undisturbed /\ UNCHANGED status

\* The report is written through to the device that was pinned.
Report ==
    /\ saving.pc = "report" /\ Mounted /\ SavingGoes("confirm", {})
    /\ reports' = reports \cup {[listed |-> saving.listed, seen |-> saving.seen]}
    /\ Undisturbed /\ UNCHANGED <<device, status>>

\* The last syncfs and probe.
ProbeAtEnd ==
    /\ saving.pc = "confirm" /\ Mounted
    /\ device' = [device EXCEPT !.durable = device.now]
    /\ SavingGoes("result", {})
    /\ Undisturbed /\ UNCHANGED <<reports, status>>

BackupSucceeds ==
    /\ saving.pc = "result" /\ saving' = NotSaving
    /\ status' = [phase |-> "success",
                  last |-> CHOOSE r \in reports : r.listed = saving.listed]
    /\ Media /\ Undisturbed

BackupNext ==
    \/ \E f \in Photos : Shoot(f) \/ Discard(f) \/ List(f) \/ Copy(f) \/ Verify(f)
                         \/ SecondInventory(f)
    \/ Unplug \/ Plug \/ StartBackup \/ Abort \/ KillBackup \/ OpenDestination
    \/ SyncFilesystem \/ ProbeAgain \/ Report \/ ProbeAtEnd \/ BackupSucceeds

BackupSpec == BackupInit /\ [][BackupNext]_pvars

-----------------------------------------------------------------------------
\* get_status: an active phase whose process is gone is shown as an error.
ShownPhase ==
    IF status.phase = "active" /\ saving.pc = "off" THEN "error" ELSE status.phase

\* Whether the library had the reported photos all at one moment after they
\* were on the device, and no photo that is not reported all that time.
IsSnapshot(r) ==
    /\ \E lib \in r.seen : \A f \in Photos : r.listed[f] # 0 => lib[f] = r.listed[f]
    /\ \A f \in Photos : r.listed[f] = 0 => \E lib \in r.seen : lib[f] = 0

\* Whether an unplugged device has every reported version still.
OnDevice(r) ==
    \A f \in Photos : r.listed[f] # 0 =>
        r.listed[f] \in {device.durable[f].copy} \cup device.durable[f].kept

\* A report on the device names a state that the library had, whatever was
\* edited, torn or unplugged on the way, and all its photos stay on the device,
\* also when later runs replace them or die; and the status shows a success, or
\* remembers one, only when its report is on the device (run_backup).
BackupIsSnapshot ==
    /\ \A r \in reports : IsSnapshot(r) /\ OnDevice(r)
    /\ status.last \in reports \cup {NoReport}
    /\ ShownPhase = "success" => status.last \in reports
=============================================================================
