---------------------------- MODULE UpdateBundle ----------------------------
(***************************************************************************)
(* The two tools that replace the files of a login update: "root", the     *)
(* greeter's files (session-update.py), and "user", the launcher's files   *)
(* and the activation link (mosaic-user-update.py).  A tool publishes its  *)
(* files one by one, each by a rename that is durable, between two writes  *)
(* of its journal; an exception inside that bracket restores the originals *)
(* at once, an interruption outside it is restored by the next "apply",    *)
(* which then stops.                                                       *)
(*                                                                         *)
(* Abstractions.  A file is "old" or "new", the two versions of the sealed *)
(* bundle, or "foreign": anything else, its metadata included.  The files  *)
(* are read together, written one by one.  A write either raises before    *)
(* the rename or after it (the directory's fsync).  A missing file and the *)
(* link are versions like the others.  The temporary a write starts from   *)
(* is modelled for the link alone: the directory it lies in is the tool's  *)
(* to remove, and cannot be removed with it.                               *)
(***************************************************************************)
EXTENDS Integers, Sequences

CONSTANTS
    RootTargets,    \* TARGETS of session-update.py, in their order
    UserTargets,    \* TARGETS of mosaic-user-update.py, in their order
    Wants,          \* the last of them, a link in a directory of its own
    MaxFaults,      \* bound on failed writes, kills and power losses
    MaxEdits        \* bound on edits by somebody else

Lots == {"root", "user"}
Order(b) == IF b = "root" THEN RootTargets ELSE UserTargets
FilesOf(b) == {Order(b)[i] : i \in 1..Len(Order(b))}
Files == FilesOf("root") \cup FilesOf("user")

ASSUME UpdateAssumption ==
    /\ RootTargets \in Seq(FilesOf("root")) /\ RootTargets # <<>>
    /\ UserTargets \in Seq(FilesOf("user"))
    /\ FilesOf("root") \cap FilesOf("user") = {}
    /\ Wants \in FilesOf("user")
    /\ MaxFaults \in Nat /\ MaxEdits \in Nat

VARIABLES
    file,       \* each target's content
    dir,        \* the link's directory, and what else than the link is in it
    journal,    \* each lot's durable journal, "state"
    tool,       \* each lot's tool: where it is in transact
    faults,     \* what is left of MaxFaults
    edits       \* what is left of MaxEdits

bvars == <<file, dir, journal, tool, faults, edits>>

Versions == {"old", "new", "foreign"}
\* "kept": an entry that is not the tool's to remove, a temporary that a killed
\* tool left or somebody else's link.
LinkDirectories == {"absent", "empty", "kept"}
Journals == {"original", "applying", "applied", "rolling-back"}
Operations == {"apply", "rollback"}
Interrupted == {"applying", "rolling-back"}

\* mode: "try" under the handler of transact, "handler" in it, "resume" when
\* an interrupted update is being restored; only the first is caught.
Stopped(result) ==
    [pc |-> "idle", op |-> "apply", kind |-> "old", mode |-> "try", i |-> 1,
     seen |-> [f \in Files |-> "old"], by |-> "alone", result |-> result]

ToolPcs == {"idle", "barrier", "decide", "journal", "write", "link", "clean",
            "settle", "recover", "recheck"}

BundleTypeOK ==
    /\ file \in [Files -> Versions]
    /\ dir \in LinkDirectories
    /\ journal \in [Lots -> Journals]
    /\ tool \in [Lots -> [pc : ToolPcs, op : Operations, kind : {"old", "new"},
                          mode : {"try", "handler", "resume"}, i : Nat,
                          seen : [Files -> Versions], by : {"alone", "coordinator"},
                          result : {"none", "done", "failed"}]]
    /\ faults \in 0..MaxFaults /\ edits \in 0..MaxEdits

BundleInit ==
    /\ file = [f \in Files |-> "old"] /\ dir = "absent"
    /\ journal = [b \in Lots |-> "original"]
    /\ tool = [b \in Lots |-> Stopped("none")]
    /\ faults = MaxFaults /\ edits = MaxEdits

Fault == faults > 0 /\ faults' = faults - 1
NoFault == UNCHANGED faults

\* check_targets, check: every file is one of the two versions of the bundle.
Divergent(b) == \E f \in FilesOf(b) : file[f] = "foreign"
All(b, kind) == \A f \in FilesOf(b) : file[f] = kind

Goto(b, pc) == tool' = [tool EXCEPT ![b].pc = pc]
Stop(b, result) == tool' = [tool EXCEPT ![b] = Stopped(result)]

\* An exception: caught once, inside the bracket.
Raise(b) ==
    IF tool[b].mode = "try" THEN Goto(b, "recover") ELSE Stop(b, "failed")

-----------------------------------------------------------------------------
\* The lock, LOCK_NB, and the preflight: a refusal changes nothing.
CanStart(b) == tool[b].pc = "idle" /\ ~Divergent(b)
Started(b, op, by) ==
    tool' = [tool EXCEPT ![b] = [Stopped("none") EXCEPT
               !.pc = "barrier", !.op = op, !.by = by,
               !.seen = [f \in Files |-> IF f \in FilesOf(b) THEN file[f] ELSE "old"]]]

\* durable_bundle: a failure forbids every change.
Barrier(b) ==
    /\ tool[b].pc = "barrier"
    /\ \/ NoFault /\ Goto(b, "decide")
       \/ Fault /\ Stop(b, "failed")
    /\ UNCHANGED <<file, dir, journal, edits>>

\* Reads the journal and chooses what to publish.
Decide(b) ==
    /\ tool[b].pc = "decide"
    /\ LET op == tool[b].op
           mixed == \E f \in FilesOf(b) : tool[b].seen[f] # "old" IN
       CASE op = "apply" /\ journal[b] \in Interrupted ->
              tool' = [tool EXCEPT ![b].pc = "journal", ![b].kind = "old",
                                   ![b].mode = "resume"]
         [] op = "apply" /\ journal[b] = "original" /\ mixed -> Stop(b, "failed")
         [] OTHER ->
              tool' = [tool EXCEPT ![b].pc = "journal",
                                   ![b].kind = IF op = "apply" THEN "new" ELSE "old"]
    /\ UNCHANGED <<file, dir, journal, faults, edits>>

\* set_state, journal: an atomic durable write, which may raise before or
\* after its effect.
Record(b, value) == journal' = [journal EXCEPT ![b] = value]

\* The journal comes first; its failure is outside the bracket.
Open(b) ==
    /\ tool[b].pc = "journal"
    /\ LET opening == Record(b, IF tool[b].kind = "new" THEN "applying"
                                ELSE "rolling-back") IN
       \/ NoFault /\ opening /\ Goto(b, "write")
       \/ Fault /\ Stop(b, "failed") /\ (opening \/ UNCHANGED journal)
    /\ UNCHANGED <<file, dir, edits>>

Target(b) == Order(b)[tool[b].i]
Writing(b) == tool[b].pc = "write" /\ tool[b].i <= Len(Order(b))
\* The root tool trusts its preflight, the user tool reads again.
Pending(b) ==
    (IF b = "root" THEN tool[b].seen[Target(b)] ELSE file[Target(b)]) # tool[b].kind
Entry(b) == b = "user" /\ Target(b) = Wants

\* A target that already is what it should be.
Skip(b) ==
    /\ Writing(b) /\ ~Pending(b)
    /\ tool' = [tool EXCEPT ![b].i = @ + 1]
    /\ UNCHANGED <<file, dir, journal, faults, edits>>

\* snapshot: a link that leads elsewhere stops the user tool, and so does a
\* file whose owner or mode is not what it was.
SnapshotRefuses(b) ==
    /\ b = "user" /\ Writing(b) /\ file[Target(b)] = "foreign"
    /\ Raise(b)
    /\ UNCHANGED <<file, dir, journal, faults, edits>>

\* The link has still to be made.
Linking == /\ Writing("user") /\ Entry("user") /\ tool["user"].kind = "new"
           /\ file[Wants] = "old"

MakeDirectory ==
    /\ Linking /\ dir = "absent"
    /\ \/ NoFault /\ dir' = "empty" /\ UNCHANGED tool
       \/ Fault /\ dir' \in {"absent", "empty"} /\ Raise("user")
    /\ UNCHANGED <<file, journal, edits>>

\* symlink_to: the link is made under a temporary name in its directory.
MakeTemporary ==
    /\ Linking /\ dir # "absent"
    /\ \/ NoFault /\ Goto("user", "link")
       \/ Fault /\ Raise("user")
    /\ UNCHANGED <<file, dir, journal, edits>>

\* os.replace, whatever has come to the link's name; the temporary is removed
\* when it is still there, which may fail as well.
PlaceLink ==
    /\ tool["user"].pc = "link"
    /\ LET placed == file' = [file EXCEPT ![Wants] = "new"] IN
       \/ /\ NoFault /\ placed /\ UNCHANGED dir
          /\ tool' = [tool EXCEPT !["user"].pc = "write", !["user"].i = @ + 1]
       \/ /\ Fault /\ Raise("user")
          /\ \/ (placed \/ UNCHANGED file) /\ UNCHANGED dir
             \/ UNCHANGED file /\ dir' = "kept"
    /\ UNCHANGED <<journal, edits>>

\* What a user tool that is killed leaves in the link's directory.
LeftBehind == IF tool["user"].pc = "link" THEN "kept" ELSE dir

\* A file, or the removal of the link.
Write(b) ==
    /\ Writing(b) /\ Pending(b)
    /\ Entry(b) => tool[b].kind = "old" /\ file[Wants] # "foreign"
    /\ LET written == file' = [file EXCEPT ![Target(b)] = tool[b].kind] IN
       \/ NoFault /\ written /\ tool' = [tool EXCEPT ![b].i = @ + 1]
       \/ Fault /\ Raise(b) /\ (written \/ UNCHANGED file)
    /\ UNCHANGED <<dir, journal, edits>>

Published(b) == tool[b].pc = "write" /\ tool[b].i > Len(Order(b))

\* The published files are read again before the journal certifies them.
Confirm(b) ==
    /\ Published(b)
    /\ IF All(b, tool[b].kind)
       THEN Goto(b, IF b = "user" /\ tool[b].kind = "old" THEN "clean" ELSE "settle")
       ELSE Raise(b)
    /\ UNCHANGED <<file, dir, journal, faults, edits>>

\* The link's directory goes with the link.  rmdir fails when anything is left in
\* the directory, the link that has come back included, and may fail otherwise;
\* the failure is passed over.
Clean ==
    /\ tool["user"].pc = "clean"
    /\ \/ /\ NoFault
          /\ dir' = IF dir = "empty" /\ file[Wants] = "old" THEN "absent" ELSE dir
       \/ Fault /\ UNCHANGED dir
    /\ Goto("user", "settle")
    /\ UNCHANGED <<file, journal, edits>>

Settle(b) ==
    /\ tool[b].pc = "settle"
    /\ LET closing == Record(b, IF tool[b].kind = "new" THEN "applied"
                                ELSE "original") IN
       \/ /\ NoFault /\ closing
          /\ Stop(b, IF tool[b].mode = "try" THEN "done" ELSE "failed")
       \/ Fault /\ Raise(b) /\ (closing \/ UNCHANGED journal)
    /\ UNCHANGED <<file, dir, edits>>

\* The handler: journal, check, restore.
Recover(b) ==
    /\ tool[b].pc = "recover"
    /\ \/ NoFault /\ Record(b, "rolling-back") /\ Goto(b, "recheck")
       \/ /\ Fault /\ Stop(b, "failed")
          /\ Record(b, "rolling-back") \/ UNCHANGED journal
    /\ UNCHANGED <<file, dir, edits>>

\* Mistake: the handler certifies the originals without publishing them.
RecheckOnly(b) ==
    /\ tool[b].pc = "recheck"
    /\ IF Divergent(b) THEN Stop(b, "failed")
       ELSE tool' = [tool EXCEPT ![b].pc = "settle", ![b].kind = "old",
                                 ![b].mode = "handler", ![b].i = 1]
    /\ UNCHANGED <<file, dir, journal, faults, edits>>

Recheck(b) ==
    /\ tool[b].pc = "recheck"
    /\ IF Divergent(b) THEN Stop(b, "failed")
       ELSE tool' = [tool EXCEPT ![b].pc = "write", ![b].kind = "old",
                                 ![b].mode = "handler", ![b].i = 1,
                                 ![b].seen = [f \in Files |->
                                   IF f \in FilesOf(b) THEN file[f] ELSE "old"]]
    /\ UNCHANGED <<file, dir, journal, faults, edits>>

\* Somebody else edits a target, or puts another link beside the tool's.
Edit ==
    /\ edits > 0 /\ edits' = edits - 1
    /\ \/ \E f \in Files :
             /\ file' = [file EXCEPT ![f] = "foreign"]
             /\ dir' = IF f = Wants /\ dir = "absent" THEN "empty" ELSE dir
       \/ UNCHANGED file /\ dir' = "kept"
    /\ UNCHANGED <<journal, tool, faults>>

ToolStep(b) ==
    \/ Barrier(b) \/ Decide(b) \/ Open(b) \/ Skip(b)
    \/ SnapshotRefuses(b) \/ Write(b) \/ Confirm(b) \/ Settle(b) \/ Recover(b) \/ Recheck(b)
=============================================================================
