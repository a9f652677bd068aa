--------------------------- MODULE MosaicSession ---------------------------
(***************************************************************************)
(* The start of the experimental session: session.py launch(), which       *)
(* becomes the compositor, and quickshell-guard.py, which lets the shell   *)
(* of that session start.  The stable session shares the systemd user      *)
(* manager, hence its environment: SWAYSOCK there is that of the last      *)
(* compositor that called "uwsm finalize", alive or not.  Both programs    *)
(* read the units and the processes one after the other, while they        *)
(* change, and neither stops anything.  The guard and the shell are two    *)
(* processes of one unit: systemd gives each of them the environment that  *)
(* the manager has when it starts that process.                            *)
(*                                                                         *)
(* Abstractions.  A compositor is known by its process number, which       *)
(* SWAYSOCK contains.  The identities of files, of the binary and of the   *)
(* environment may be found wrong at any time; each refusal ends there.    *)
(* The units are systemd's (external): a session that ends takes its shell *)
(* with it, in a step of its own.                                          *)
(***************************************************************************)
EXTENDS Integers

CONSTANT MaxPid     \* bound on compositors started

ASSUME MosaicAssumption == MaxPid \in Nat

VARIABLES
    wm,         \* the two compositor units: state and main process
    exported,   \* SWAYSOCK in the manager, by its process number; 0 is none
    pids,       \* process numbers used so far
    vt,         \* the session in front
    launch,     \* session.py launch
    guard,      \* quickshell-guard.py
    shells      \* the two QuickShell units: up, the socket the shell was given,
                \* whether that is not the one its guard had, and the stop job

mvars == <<wm, exported, pids, vt, launch, guard, shells>>

Seats == {"stable", "mosaic"}
UnitStates == {"inactive", "activating", "active", "deactivating"}
NoUnit == [state |-> "inactive", pid |-> 0]
NoGuard == [pc |-> "idle", sock |-> 0, pid |-> 0]
NoShell == [up |-> FALSE, sock |-> 0, changed |-> FALSE, stopping |-> FALSE]

MosaicTypeOK ==
    /\ wm \in [Seats -> [state : UnitStates, pid : 0..MaxPid]]
    /\ exported \in 0..MaxPid /\ pids \in 0..MaxPid
    /\ vt \in Seats \cup {"other"}
    /\ launch \in {"idle", "login", "units", "isolation"}
    /\ guard \in [pc : {"idle", "units", "process", "name", "start"},
                  sock : 0..MaxPid, pid : 0..MaxPid]
    /\ shells \in [Seats -> [up : BOOLEAN, sock : 0..MaxPid, changed : BOOLEAN,
                             stopping : BOOLEAN]]

MosaicInit ==
    /\ wm = [s \in Seats |-> NoUnit] /\ exported = 0 /\ pids = 0 /\ vt = "other"
    /\ launch = "idle" /\ guard = NoGuard /\ shells = [s \in Seats |-> NoShell]

NewPid == pids < MaxPid /\ pids' = pids + 1
Unit(s, state) == wm' = [wm EXCEPT ![s].state = state]
Manager == UNCHANGED <<wm, exported, pids, vt, shells>>

-----------------------------------------------------------------------------
\* launch: files, logind, units, isolation, execve.  A refusal ends the unit.
Refuse ==
    /\ launch # "idle" /\ launch' = "idle"
    /\ Unit("mosaic", "inactive")
    /\ UNCHANGED <<exported, pids, vt, guard, shells>>

BeginLaunch ==
    /\ wm["mosaic"].state = "inactive" /\ launch = "idle"
    /\ ~shells["mosaic"].up /\ guard.pc = "idle"
    /\ wm' = [wm EXCEPT !["mosaic"] = [state |-> "activating", pid |-> 0]]
    /\ launch' = "login"
    /\ UNCHANGED <<exported, pids, vt, guard, shells>>

\* The session of the environment is logind's, and is in front.
ReadLogin ==
    /\ launch = "login" /\ vt = "mosaic" /\ launch' = "units"
    /\ UNCHANGED <<wm, exported, pids, vt, guard, shells>>

\* No other compositor, one that is still stopping included.
ReadUnits ==
    /\ launch = "units" /\ wm["stable"].state = "inactive" /\ vt = "mosaic"
    /\ launch' = "isolation"
    /\ UNCHANGED <<wm, exported, pids, vt, guard, shells>>

Exec ==
    /\ launch = "isolation" /\ launch' = "idle" /\ NewPid
    /\ wm' = [wm EXCEPT !["mosaic"].pid = pids + 1]
    /\ UNCHANGED <<exported, vt, guard, shells>>

-----------------------------------------------------------------------------
\* systemd and UWSM (external).
StartStable ==
    /\ wm["stable"].state = "inactive" /\ NewPid
    /\ wm' = [wm EXCEPT !["stable"] = [state |-> "activating", pid |-> pids + 1]]
    /\ UNCHANGED <<exported, vt, launch, guard, shells>>

\* uwsm finalize, from the compositor: its sockets go to the manager, and its
\* notify service is ready.
Finalize(s) ==
    /\ wm[s].state = "activating" /\ wm[s].pid # 0
    /\ exported' = wm[s].pid /\ Unit(s, "active")
    /\ UNCHANGED <<pids, vt, launch, guard, shells>>

\* A compositor ends; BindsTo and PartOf stop its shell and a guard under way.
End(s) ==
    /\ wm[s].pid # 0 /\ wm[s].state # "deactivating"
    /\ wm' = [wm EXCEPT ![s] = [state |-> "deactivating", pid |-> 0]]
    /\ shells' = [shells EXCEPT ![s].stopping = TRUE]
    /\ UNCHANGED <<exported, pids, vt, launch, guard>>
UnitStopped(s) ==
    /\ wm[s].state = "deactivating" /\ Unit(s, "inactive")
    /\ shells' = [shells EXCEPT ![s] = NoShell]
    /\ guard' = IF s = "mosaic" THEN NoGuard ELSE guard
    /\ UNCHANGED <<exported, pids, vt, launch>>

StartStableShell ==
    /\ wm["stable"].state = "active" /\ ~shells["stable"].up
    /\ shells' = [shells EXCEPT !["stable"] =
                    [NoShell EXCEPT !.up = TRUE, !.sock = exported]]
    /\ UNCHANGED <<wm, exported, pids, vt, launch, guard>>

SwitchVt ==
    /\ vt' \in (Seats \cup {"other"}) \ {vt}
    /\ UNCHANGED <<wm, exported, pids, launch, guard, shells>>

-----------------------------------------------------------------------------
\* quickshell-guard.py runs with the environment of its start.
GuardGoto(pc) == guard' = [guard EXCEPT !.pc = pc]
GuardRefuses == guard.pc # "idle" /\ guard' = NoGuard /\ Manager /\ UNCHANGED launch

BeginGuard ==
    /\ wm["mosaic"].state = "active" /\ ~shells["mosaic"].up /\ guard.pc = "idle"
    /\ guard' = [pc |-> "units", sock |-> exported, pid |-> 0]
    /\ Manager /\ UNCHANGED launch

\* Mistake: the manager's socket is taken for the session's.
AnySocket ==
    /\ guard.pc = "units"
    /\ wm["mosaic"].state = "active"
    /\ ~shells["stable"].up /\ wm["stable"].state = "inactive"
    /\ guard' = [guard EXCEPT !.pc = "process", !.pid = wm["mosaic"].pid]
    /\ Manager /\ UNCHANGED launch

\* validate_ready
ValidateReady ==
    /\ guard.pc = "units"
    /\ wm["mosaic"].state = "active"
    /\ ~shells["stable"].up /\ wm["stable"].state = "inactive"
    /\ guard.sock = wm["mosaic"].pid
    /\ guard' = [guard EXCEPT !.pc = "process", !.pid = wm["mosaic"].pid]
    /\ Manager /\ UNCHANGED launch

\* verify_process: the process is alive and owns the sockets, there is no
\* other shell, and its session is in front.
VerifyProcess ==
    /\ guard.pc = "process" /\ wm["mosaic"].pid = guard.pid
    /\ \A s \in Seats : ~shells[s].up
    /\ vt = "mosaic"
    /\ GuardGoto("name") /\ Manager /\ UNCHANGED launch

\* main: no notification server.
VerifyName ==
    /\ guard.pc = "name" /\ ~shells["stable"].up
    /\ GuardGoto("start") /\ Manager /\ UNCHANGED launch

\* ExecStart, once ExecStartPre has succeeded, with the socket of this moment.
StartShell ==
    /\ guard.pc = "start" /\ guard' = NoGuard
    /\ shells' = [shells EXCEPT !["mosaic"] =
                    [up |-> TRUE, sock |-> exported, changed |-> exported # guard.sock,
                     stopping |-> @.stopping]]
    /\ UNCHANGED <<wm, exported, pids, vt, launch>>

MosaicNext ==
    \/ Refuse \/ BeginLaunch \/ ReadLogin \/ ReadUnits \/ Exec
    \/ StartStable \/ StartStableShell \/ SwitchVt
    \/ \E s \in Seats : Finalize(s) \/ End(s) \/ UnitStopped(s)
    \/ GuardRefuses \/ BeginGuard \/ ValidateReady \/ VerifyProcess \/ VerifyName
    \/ StartShell

MosaicSpec == MosaicInit /\ [][MosaicNext]_mvars

-----------------------------------------------------------------------------
\* "le manager utilisateur partagé ne peut pas fournir les sockets d'une
\* ancienne session" (quickshell-guard.py): as long as its session is not
\* ending, the experimental shell holds the socket of the compositor that runs,
\* whatever another session has left in the shared environment before the guard
\* began.  A socket exported since is not seen by the guard, and the shell gets it
\* ("changed"): nothing is promised then.
OwnShell ==
    (shells["mosaic"].up /\ ~shells["mosaic"].stopping) =>
        shells["mosaic"].changed \/ shells["mosaic"].sock = wm["mosaic"].pid
=============================================================================
