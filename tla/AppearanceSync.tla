--------------------------- MODULE AppearanceSync ---------------------------
(***************************************************************************)
(* appearance-app-sync.py: after each change of effective.json, bring the  *)
(* applications to its look and say in last-applied.json which revision    *)
(* they have.  A systemd path unit starts the service; a user may run the  *)
(* tool beside it.  The tool takes its lock, reads, runs the adapters one  *)
(* after the other, and reads again before and after it writes the result, *)
(* because systemd does not watch the file while the service runs.         *)
(*                                                                         *)
(* Abstractions.  A look is a value.  An adapter that reports an error may *)
(* have done all, some or none of its work.  An application that is not    *)
(* supported is not an adapter here, and the palette can be read.          *)
(***************************************************************************)
EXTENDS Integers, Sequences

CONSTANTS
    AdapterOrder,   \* ADAPTERS, in their order
    Looks,
    Absent,         \* no file
    Partial,        \* an application between two looks
    MaxChanges,     \* bound on writes of effective.json
    MaxTools,       \* bound on runs by the user
    MaxErrors       \* bound on adapters that fail and runs that are killed

Adapters == {AdapterOrder[i] : i \in 1..Len(AdapterOrder)}
SyncRuns == {"service", "user"}

ASSUME SyncAssumption ==
    /\ AdapterOrder \in Seq(Adapters) /\ AdapterOrder # <<>>
    /\ Absent \notin Looks /\ Partial \notin Looks
    /\ MaxChanges \in Nat /\ MaxTools \in Nat /\ MaxErrors \in Nat

VARIABLES
    effective,  \* effective.json as read_effective sees it
    previous,   \* what a failed transaction puts back
    apps,       \* each adapter's applications
    applied,    \* last-applied.json
    run,        \* each run of the tool
    watching,   \* the path unit waits for a change
    budget,     \* what is left of MaxChanges, MaxTools and MaxErrors
    missed      \* history: nobody will look at the file as it is

yvars == <<effective, previous, apps, applied, run, watching, budget, missed>>

NotRunning == [pc |-> "off", seen |-> Absent, todo |-> <<>>, errors |-> {}]
Revisions == [rev : Nat, look : Looks]

SyncInit ==
    /\ effective \in {Absent} \cup {[rev |-> 0, look |-> l] : l \in Looks}
    /\ previous = effective
    /\ apps = [a \in Adapters |-> IF effective = Absent THEN Partial ELSE effective.look]
    /\ applied = IF effective = Absent THEN Absent ELSE [rev |-> 0, errors |-> {}]
    /\ run = [r \in SyncRuns |-> NotRunning]
    /\ watching = TRUE
    /\ budget = [changes |-> MaxChanges, tools |-> MaxTools, errors |-> MaxErrors]
    /\ missed = (effective = Absent)

Take(what) == budget[what] > 0 /\ budget' = [budget EXCEPT ![what] = @ - 1]
Moves(r, to) == run' = [run EXCEPT ![r] = to]

-----------------------------------------------------------------------------
(* The file and the units.                                                 *)

\* effective.json is replaced or withdrawn: systemd starts the service if it
\* watches; otherwise a service that has yet to read will see it.
Written ==
    /\ Take("changes")
    /\ watching' = FALSE
    /\ run' = IF watching THEN [run EXCEPT !["service"].pc = "lock"] ELSE run
    /\ missed' = (~watching /\ run["service"].pc = "ended")
    /\ UNCHANGED <<apps, applied>>

Publish ==
    /\ \E l \in Looks :
         effective' = [rev |-> IF effective = Absent THEN 0 ELSE effective.rev + 1, look |-> l]
    /\ previous' = effective
    /\ Written

RollBack ==
    /\ previous # effective
    /\ effective' = previous
    /\ UNCHANGED previous
    /\ Written

\* systemd learns that the service has ended, and watches again.
Rearm ==
    /\ run["service"].pc = "ended"
    /\ Moves("service", NotRunning)
    /\ watching' = TRUE
    /\ UNCHANGED <<effective, previous, apps, applied, budget, missed>>

RunTool ==
    /\ run["user"].pc \in {"off", "ended"}
    /\ Take("tools")
    /\ Moves("user", [NotRunning EXCEPT !.pc = "lock"])
    /\ UNCHANGED <<effective, previous, apps, applied, watching, missed>>

-----------------------------------------------------------------------------
(* reconcile, one run of the tool.                                         *)

Inside(r) == run[r].pc \notin {"off", "lock", "ended"}

TakeSyncLock(r) ==
    /\ run[r].pc = "lock"
    /\ \A q \in SyncRuns : ~Inside(q)
    /\ Moves(r, [run[r] EXCEPT !.pc = "read"])
    /\ UNCHANGED <<effective, previous, apps, applied, watching, budget, missed>>

\* read_effective raises without a file, and the run ends without a result.
ReadEffective(r) ==
    /\ run[r].pc = "read"
    /\ IF effective = Absent
       THEN Moves(r, [NotRunning EXCEPT !.pc = "ended"]) /\ missed' = TRUE
       ELSE /\ Moves(r, [pc |-> "apply", seen |-> effective, todo |-> AdapterOrder,
                         errors |-> {}])
            /\ UNCHANGED missed
    /\ UNCHANGED <<effective, previous, apps, applied, watching, budget>>

\* What an adapter that raises may have done: it replaces several files or
\* settings one after the other.
LeftBy(a, look) == {apps[a], Partial, look}

\* An adapter works, or its error is noted and the next one is run.
Adapt(r) ==
    LET a == Head(run[r].todo)
        rest == Tail(run[r].todo)
        next == [run[r] EXCEPT !.todo = rest, !.pc = IF rest = <<>> THEN "again" ELSE @]
    IN  /\ run[r].pc = "apply"
        /\ \/ /\ apps' = [apps EXCEPT ![a] = run[r].seen.look]
              /\ Moves(r, next)
              /\ UNCHANGED budget
           \/ /\ Take("errors")
              /\ \E l \in LeftBy(a, run[r].seen.look) : apps' = [apps EXCEPT ![a] = l]
              /\ Moves(r, [next EXCEPT !.errors = @ \cup {a}])
        /\ UNCHANGED <<effective, previous, applied, watching, missed>>

\* Mistake: only the revisions are compared, and a failed transaction has given
\* this one back.
SameRevision(r) == effective.rev = run[r].seen.rev

\* The file still says what the adapters were told.
Unchanged(r) == effective = run[r].seen

ReadAgain(r) ==
    /\ run[r].pc = "again"
    /\ Moves(r, IF effective = Absent THEN [NotRunning EXCEPT !.pc = "ended"]
                ELSE [run[r] EXCEPT !.pc = IF Unchanged(r) THEN "write" ELSE "read"])
    /\ missed' = (missed \/ effective = Absent)
    /\ UNCHANGED <<effective, previous, apps, applied, watching, budget>>

WriteResult(r) ==
    /\ run[r].pc = "write"
    /\ applied' = [rev |-> run[r].seen.rev, errors |-> run[r].errors]
    /\ Moves(r, [run[r] EXCEPT !.pc = "last"])
    /\ UNCHANGED <<effective, previous, apps, watching, budget, missed>>

ReadLast(r) ==
    /\ run[r].pc = "last"
    /\ IF effective # Absent /\ ~Unchanged(r)
       THEN Moves(r, [run[r] EXCEPT !.pc = "read"]) /\ UNCHANGED missed
       ELSE /\ Moves(r, [NotRunning EXCEPT !.pc = "ended"])
            /\ missed' = (effective = Absent)
    /\ UNCHANGED <<effective, previous, apps, applied, watching, budget>>

KillRun(r) ==
    /\ run[r].pc \notin {"off", "ended"}
    /\ Take("errors")
    /\ Moves(r, [NotRunning EXCEPT !.pc = "ended"])
    /\ missed' = TRUE
    /\ UNCHANGED <<effective, previous, apps, applied, watching>>

Reconcile(r) ==
    \/ TakeSyncLock(r) \/ ReadEffective(r) \/ Adapt(r) \/ ReadAgain(r)
    \/ WriteResult(r) \/ ReadLast(r) \/ KillRun(r)

SyncNext ==
    \/ Publish \/ RollBack \/ Rearm \/ RunTool
    \/ \E r \in SyncRuns : Reconcile(r)

SyncSpec == SyncInit /\ [][SyncNext]_yvars

-----------------------------------------------------------------------------

SyncTypeOK ==
    /\ effective \in Revisions \cup {Absent} /\ previous \in Revisions \cup {Absent}
    /\ apps \in [Adapters -> Looks \cup {Partial}]
    /\ applied = Absent \/ (applied.rev \in Nat /\ applied.errors \subseteq Adapters)
    /\ \A r \in SyncRuns : /\ run[r].pc \in {"off", "lock", "read", "apply", "again", "write",
                                         "last", "ended"}
                       /\ run[r].errors \subseteq Adapters
    /\ watching \in BOOLEAN /\ missed \in BOOLEAN

\* When nobody runs and systemd watches, last-applied.json names the revision
\* of effective.json, and every application whose adapter did not fail has its
\* look, unless the last run was killed or found no file, or the file was
\* written after the service read it last and before systemd watched again: a
\* change during a run, a failed transaction that reuses a revision, and a run
\* by the user beside the service are never lost (reconcile, 296-312).
AppsFollow ==
    watching /\ ~missed /\ (\A r \in SyncRuns : run[r].pc \in {"off", "ended"}) =>
        /\ applied.rev = effective.rev
        /\ \A a \in Adapters \ applied.errors : apps[a] = effective.look
=============================================================================
