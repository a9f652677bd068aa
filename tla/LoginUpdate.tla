---------------------------- MODULE LoginUpdate ----------------------------
(***************************************************************************)
(* login-recovery-update.py: one update of the greeter and of the launcher *)
(* together, with a journal of its own around the two lots.  The launcher  *)
(* goes first and the greeter last, a rollback takes them in the opposite  *)
(* order and tries both.  The root tool runs in the coordinator's process, *)
(* the user tool is a child with a 60 s limit: a child outlives a          *)
(* coordinator that is killed, and each tool can be run alone to restore   *)
(* its lot (LOGIN_RECOVERY_V2.md, "secours indépendant").                  *)
(***************************************************************************)
EXTENDS UpdateBundle

CONSTANTS
    MaxRuns,        \* bound on runs of the coordinator
    MaxAlone        \* bound on tools run alone

ASSUME LoginUpdateAssumption == MaxRuns \in Nat /\ MaxAlone \in Nat

VARIABLES
    batch,      \* the durable journal of the two lots, "batch-state"
    coord,      \* the coordinator
    alone,      \* tools run alone so far
    runs        \* runs of the coordinator so far

lvars == <<bvars, batch, coord, alone, runs>>

CoordPcs == {"idle", "preflight", "barrier", "open", "call", "wait", "undo"}
NoCoord == [pc |-> "idle", op |-> "apply", todo |-> <<>>, undo |-> FALSE,
            errors |-> FALSE]

LoginUpdateTypeOK ==
    /\ BundleTypeOK
    /\ batch \in Journals
    /\ coord \in [pc : CoordPcs, op : Operations,
                  todo : {<<>>} \cup {<<b>> : b \in Lots} \cup (Lots \X Lots),
                  undo : BOOLEAN, errors : BOOLEAN]
    /\ alone \in 0..MaxAlone /\ runs \in 0..MaxRuns

LoginUpdateInit ==
    /\ BundleInit
    /\ batch = "original" /\ coord = NoCoord /\ alone = 0 /\ runs = 0

Advance(pc) == coord' = [coord EXCEPT !.pc = pc]
\* The end of a run, whatever it reports: the lock goes with the process.
Leave == coord' = NoCoord
toolState == <<file, dir, journal, tool>>

-----------------------------------------------------------------------------
\* LOCK is taken for the coordinator and for the root tool, LOCK_NB.
LockFree == coord.pc = "idle" /\ tool["root"].pc = "idle"

Run(op) ==
    /\ LockFree /\ runs < MaxRuns /\ runs' = runs + 1
    /\ coord' = [NoCoord EXCEPT !.pc = "preflight", !.op = op]
    /\ UNCHANGED <<bvars, batch, alone>>

\* A seal, a protected file (apply only) or a target is not what was
\* reviewed: the run ends there.
Preflight ==
    /\ coord.pc = "preflight"
    /\ \/ Leave
       \/ \A b \in Lots : ~Divergent(b) /\ Advance("barrier")
    /\ UNCHANGED <<bvars, batch, alone, runs>>

\* Both lots' backups are made durable before anything is changed; the user
\* tool's needs its lock and repeats its check.
DurableBarrier ==
    /\ coord.pc = "barrier"
    /\ \/ CanStart("user") /\ NoFault /\ Advance("open")
       \/ ~CanStart("user") /\ NoFault /\ Leave
       \/ Fault /\ Leave
    /\ UNCHANGED <<toolState, edits, batch, alone, runs>>

\* The launcher first, the greeter last.
Forward == <<"user", "root">>
Backward == <<"root", "user">>

\* Mistake: the greeter first.
OpenGreeterFirst ==
    /\ coord.pc = "open"
    /\ IF coord.op = "rollback" \/ batch \in Interrupted
       THEN /\ NoFault /\ Advance("undo")
            /\ UNCHANGED batch
       ELSE \/ /\ NoFault /\ batch' = "applying"
               /\ coord' = [coord EXCEPT !.pc = "call", !.todo = Backward]
            \/ /\ Fault /\ Leave
               /\ batch' = "applying" \/ UNCHANGED batch
    /\ UNCHANGED <<toolState, edits, alone, runs>>

\* A rollback, an update to be restored first, or a new update.
OpenBatch ==
    /\ coord.pc = "open"
    /\ IF coord.op = "rollback" \/ batch \in Interrupted
       THEN /\ NoFault /\ Advance("undo")
            /\ UNCHANGED batch
       ELSE \/ /\ NoFault /\ batch' = "applying"
               /\ coord' = [coord EXCEPT !.pc = "call", !.todo = Forward]
            \/ /\ Fault /\ Leave
               /\ batch' = "applying" \/ UNCHANGED batch
    /\ UNCHANGED <<toolState, edits, alone, runs>>

Undo ==
    /\ coord.pc = "undo"
    /\ \/ /\ NoFault /\ batch' = "rolling-back"
          /\ coord' = [coord EXCEPT !.pc = "call", !.todo = Backward, !.undo = TRUE]
       \/ /\ Fault /\ Leave
          /\ batch' = "rolling-back" \/ UNCHANGED batch
    /\ UNCHANGED <<toolState, edits, alone, runs>>

\* A lot failed: a rollback notes it and goes on, an update is undone.
Failed ==
    coord' = IF coord.undo
             THEN [coord EXCEPT !.pc = "call", !.todo = Tail(@), !.errors = TRUE]
             ELSE [coord EXCEPT !.pc = "undo", !.todo = <<>>]

Call(b) ==
    /\ coord.pc = "call" /\ coord.todo # <<>> /\ Head(coord.todo) = b
    /\ IF CanStart(b)
       THEN /\ Started(b, IF coord.undo THEN "rollback" ELSE "apply", "coordinator")
            /\ Advance("wait")
       ELSE Failed /\ UNCHANGED tool
    /\ UNCHANGED <<file, dir, journal, faults, edits, batch, alone, runs>>

Return(b) ==
    /\ coord.pc = "wait" /\ Head(coord.todo) = b /\ tool[b].pc = "idle"
    /\ IF tool[b].result = "done"
       THEN coord' = [coord EXCEPT !.pc = "call", !.todo = Tail(@)]
       ELSE Failed
    /\ UNCHANGED <<bvars, batch, alone, runs>>

\* Mistake: the verdict does not look at the errors.
CloseAnyway ==
    /\ coord.pc = "call" /\ coord.todo = <<>>
    /\ LET verdict == batch' = IF coord.undo THEN "original" ELSE "applied" IN
       \/ NoFault /\ verdict /\ Leave
       \/ /\ Fault /\ (verdict \/ UNCHANGED batch)
          /\ IF coord.undo THEN Leave ELSE Advance("undo")
    /\ UNCHANGED <<toolState, edits, alone, runs>>

\* The verdict; a rollback that is incomplete leaves its journal.
Close ==
    /\ coord.pc = "call" /\ coord.todo = <<>>
    /\ LET verdict == batch' = IF coord.undo THEN "original" ELSE "applied" IN
       IF coord.errors THEN NoFault /\ Leave /\ UNCHANGED batch
       ELSE \/ NoFault /\ verdict /\ Leave
            \/ /\ Fault /\ (verdict \/ UNCHANGED batch)
               /\ IF coord.undo THEN Leave ELSE Advance("undo")
    /\ UNCHANGED <<toolState, edits, alone, runs>>

-----------------------------------------------------------------------------
\* The user tool is killed when its 60 s are over.
Timeout ==
    /\ coord.pc = "wait" /\ Head(coord.todo) = "user" /\ tool["user"].pc # "idle"
    /\ Fault /\ Stop("user", "failed")
    /\ dir' = LeftBehind
    /\ UNCHANGED <<file, journal, edits, batch, coord, alone, runs>>

\* The coordinator is killed; its child goes on.
KillCoordinator ==
    /\ coord.pc # "idle" /\ Fault /\ Leave
    /\ IF tool["root"].pc # "idle" THEN Stop("root", "none") ELSE UNCHANGED tool
    /\ UNCHANGED <<file, dir, journal, edits, batch, alone, runs>>

\* A temporary that was not made durable may go with the power.
PowerLoss ==
    /\ Fault /\ Leave /\ tool' = [b \in Lots |-> Stopped("none")]
    /\ dir' \in {dir, LeftBehind}
    /\ UNCHANGED <<file, journal, edits, batch, alone, runs>>

\* A lot restored by its own tool.
RunAlone(b) ==
    /\ alone < MaxAlone /\ alone' = alone + 1
    /\ IF b = "root" THEN LockFree ELSE TRUE
    /\ CanStart(b) /\ Started(b, "rollback", "alone")
    /\ UNCHANGED <<file, dir, journal, faults, edits, batch, coord, runs>>

Tools ==
    /\ \/ \E b \in Lots : ToolStep(b)
       \/ MakeDirectory \/ MakeTemporary \/ PlaceLink \/ Clean \/ Edit
    /\ UNCHANGED <<batch, coord, alone, runs>>

LoginUpdateNext ==
    \/ \E op \in Operations : Run(op)
    \/ Preflight \/ DurableBarrier \/ OpenBatch \/ Undo \/ Close
    \/ \E b \in Lots : Call(b) \/ Return(b) \/ RunAlone(b)
    \/ Timeout \/ KillCoordinator \/ PowerLoss
    \/ Tools

LoginUpdateSpec == LoginUpdateInit /\ [][LoginUpdateNext]_lvars

-----------------------------------------------------------------------------
\* The journals speak of the targets; the link's directory is none of them.
VerdictOf(state) == IF state \in Interrupted THEN "updating" ELSE state
ContentOf(files) ==
    CASE \E f \in files : file[f] = "foreign" -> "foreign"
      [] \A f \in files : file[f] = "old" -> "old"
      [] \A f \in files : file[f] = "new" -> "new"
      [] OTHER -> "mixed"

RootUpdate == INSTANCE AtomicUpdate
    WITH verdict <- VerdictOf(journal["root"]),
         content <- ContentOf(FilesOf("root"))
UserUpdate == INSTANCE AtomicUpdate
    WITH verdict <- VerdictOf(journal["user"]),
         content <- ContentOf(FilesOf("user"))
\* A tool run alone counts as an edit of the pair: the coordinator's journal
\* does not know of it.
PairUpdate == INSTANCE AtomicUpdate
    WITH verdict <- VerdictOf(batch),
         content <- IF alone > 0 THEN "foreign" ELSE ContentOf(Files)

\* The link's directory goes with the originals when nothing fails and nobody
\* edits.  A kill between the temporary and the rename, or an rmdir that fails,
\* may leave it under the verdict "original": "Une panne peut laisser un temporaire
\* cache dans une cible [...] et exige inspection avant suppression"
\* (LOGIN_RECOVERY_V2.md 211-213).
DirectoryGoes ==
    journal["user"] = "original" /\ faults = MaxFaults /\ edits = MaxEdits
        => dir = "absent"

\* Each lot's update, whoever runs its tool and wherever it is stopped, is a
\* step of AtomicUpdate on its targets: transact of session-update.py and
\* mosaic-user-update.py.  The directory of the link is no target.
LotsAtomic == RootUpdate!Spec /\ UserUpdate!Spec /\ []DirectoryGoes

\* The two lots' targets together are replaced as AtomicUpdate says, under the
\* coordinator's journal (coordinate).
PairAtomic == PairUpdate!Spec

\* "greeter en dernier" (coordinate): a greeter file is replaced by its new
\* version only over a launcher that is complete, so that no greeter offers a
\* launcher that is not there.
GreeterLast ==
    (/\ edits = MaxEdits /\ alone = 0
     /\ tool["root"].pc \in {"write", "settle"} /\ tool["root"].kind = "new")
    => journal["user"] = "applied" /\ All("user", "new")

\* session-update.py:124, "Une modification extérieure n'est jamais écrasée,
\* même pendant la reprise": no tool replaces a foreign file.
NeverOverwritten ==
    [][\A f \in FilesOf("root") : file[f] = "foreign" => file'[f] = "foreign"]_lvars
=============================================================================
