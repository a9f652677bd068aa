-------------------------- MODULE SessionSelection --------------------------
(***************************************************************************)
(* session.py, class Selection: "arm" makes the experimental session the   *)
(* default of UWSM after a backup, "stable" makes sway.desktop the default *)
(* again.  The commands take one lock; uwsm select writes the same file    *)
(* without it, which the code observes twice and cannot exclude.           *)
(***************************************************************************)
EXTENDS Integers

CONSTANTS
    Commands,       \* runs of the tool, each used once
    MaxSelects      \* bound on writes by uwsm

ASSUME SelectionAssumption == MaxSelects \in Nat

VARIABLES
    default,        \* the durable default-id, and who wrote it
    backup,         \* the durable stable-default.backup
    cmd,            \* each run of the tool
    selects         \* writes by uwsm so far

svars == <<default, backup, cmd, selects>>

\* "other" is another session, "bad" a file that validate() refuses.
Ids == {"sway", "mosaic", "other", "bad"}
Pcs == {"new", "lock", "validate", "backup", "again", "replace", "confirm", "done"}

SelectionTypeOK ==
    /\ default \in [value : Ids, by : {"kit", "uwsm"}]
    /\ backup \in Ids \cup {"none"}
    /\ cmd \in [Commands -> [pc : Pcs, arm : BOOLEAN, before : Ids]]
    /\ selects \in 0..MaxSelects

SelectionInit ==
    /\ \E v \in {"sway", "other"} : default = [value |-> v, by |-> "uwsm"]
    /\ backup = "none"
    /\ cmd = [c \in Commands |-> [pc |-> "new", arm |-> FALSE, before |-> "sway"]]
    /\ selects = 0

Continue(c, pc) == cmd' = [cmd EXCEPT ![c].pc = pc]
Holding == {"validate", "backup", "again", "replace", "confirm"}
Disk == UNCHANGED <<default, backup, selects>>

\* main: arm verifies the prepared files first, and may stop there.
Command(c) ==
    /\ cmd[c].pc = "new"
    /\ \E arm \in BOOLEAN, pc \in {"lock", "done"} :
         /\ pc = "done" => arm
         /\ cmd' = [cmd EXCEPT ![c].pc = pc, ![c].arm = arm]
    /\ Disk

\* Mistake: the lock is not waited for.
LockNothing(c) ==
    /\ cmd[c].pc = "lock" /\ Continue(c, "validate") /\ Disk

\* flock, LOCK_EX: one command waits for the other.
Lock(c) ==
    /\ cmd[c].pc = "lock" /\ \A d \in Commands : cmd[d].pc \notin Holding
    /\ Continue(c, "validate") /\ Disk

Validate(c) ==
    /\ cmd[c].pc = "validate"
    /\ LET refused == default.value = "bad" \/ (cmd[c].arm /\ default.value # "sway") IN
       cmd' = [cmd EXCEPT ![c].before = default.value,
                          ![c].pc = IF refused THEN "done"
                                    ELSE IF cmd[c].arm THEN "backup" ELSE "again"]
    /\ Disk

\* atomic_write: what a file may be after a write that failed, or died.
Left(old, new) == {old, new}

\* A write may fail; a failure stops the command.
Backup(c) ==
    /\ cmd[c].pc = "backup"
    /\ \/ backup' = cmd[c].before /\ Continue(c, "again")
       \/ Continue(c, "done") /\ backup' \in Left(backup, cmd[c].before)
    /\ UNCHANGED <<default, selects>>

Again(c) ==
    /\ cmd[c].pc = "again"
    /\ Continue(c, IF default.value = cmd[c].before THEN "replace" ELSE "done")
    /\ Disk

Chosen(c) == IF cmd[c].arm THEN "mosaic" ELSE "sway"
Replace(c) ==
    /\ cmd[c].pc = "replace"
    /\ LET new == [value |-> Chosen(c), by |-> "kit"] IN
       \/ default' = new /\ Continue(c, "confirm")
       \/ Continue(c, "done") /\ default' \in Left(default, new)
    /\ UNCHANGED <<backup, selects>>

\* Reports whether the choice is there; nothing is undone.
ConfirmChoice(c) == cmd[c].pc = "confirm" /\ Continue(c, "done") /\ Disk

\* The command is killed: its lock goes with it.
Die(c) == cmd[c].pc \in Holding /\ Continue(c, "done") /\ Disk

UwsmSelect ==
    /\ selects < MaxSelects /\ selects' = selects + 1
    /\ \E v \in Ids : default' = [value |-> v, by |-> "uwsm"]
    /\ UNCHANGED <<backup, cmd>>

SelectionNext ==
    \/ \E c \in Commands :
         \/ Command(c) \/ Lock(c) \/ Validate(c) \/ Backup(c) \/ Again(c)
         \/ Replace(c) \/ ConfirmChoice(c) \/ Die(c)
    \/ UwsmSelect

SelectionSpec == SelectionInit /\ [][SelectionNext]_svars

-----------------------------------------------------------------------------
\* When a command replaces default-id, nobody but uwsm can have changed what it
\* validated; and the experimental session is never the kit's default without
\* a backup of the stable one, wherever the command died (Selection.change).
SelectionSerialised ==
    /\ \A c \in Commands :
         cmd[c].pc = "replace" =>
             default.value = cmd[c].before \/ default.by = "uwsm"
    /\ default = [value |-> "mosaic", by |-> "kit"] => backup = "sway"
=============================================================================
