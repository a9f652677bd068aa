-------------------------- MODULE LoginUpdateProofs --------------------------
(***************************************************************************)
(* Each lot, and the two together, are replaced as AtomicUpdate says, and  *)
(* the greeter last, for any lists of targets and any number of runs,      *)
(* faults and edits.                                                       *)
(***************************************************************************)
EXTENDS LoginUpdate, TLAPS

\* Where a tool is between the two writes of its journal that bracket the
\* files, and where it knows which version it publishes.
InBracket == {"write", "link", "clean", "settle", "recheck"}
Aimed == {"journal", "write", "link", "clean", "settle"}

\* The lot is of one version, or somebody else has edited it.
Is(b, kind) == Divergent(b) \/ All(b, kind)

\* The files change inside the bracket; "clean" and "settle" follow Confirm.
Bracketed(b) ==
    /\ tool[b].pc \in InBracket => journal[b] \in Interrupted
    /\ tool[b].pc = "clean" =>
         b = "user" /\ tool[b].kind = "old" /\ Is(b, "old")
    /\ tool[b].pc = "settle" => Is(b, tool[b].kind)

\* The version a tool publishes is the one of its operation, outside a recovery.
Purpose(b) ==
    /\ tool[b].i >= 1
    /\ tool[b].kind = "new" => tool[b].op = "apply"
    /\ tool[b].pc \in Aimed /\ tool[b].mode = "try" /\ tool[b].op = "apply" =>
         tool[b].kind = "new"

ToolInv == BundleTypeOK /\ \A b \in Lots : Bracketed(b) /\ Purpose(b)

ToolIdle(b) == tool[b].pc = "idle"
Verdict(kind) == IF kind = "new" THEN "applied" ELSE "original"
AimOf(op) == IF op = "apply" THEN "new" ELSE "old"
LotDone(b, kind) == Is(b, kind) /\ journal[b] = Verdict(kind)

\* What the coordinator works for, and what it still has to call for it.
Goal == IF coord.undo THEN "rollback" ELSE "apply"
Todos == {<<>>, <<"user">>, <<"root">>, Forward, Backward}
LeftOn(todo) == {todo[i] : i \in 1..Len(todo)}

CoordTypeOK ==
    /\ batch \in Journals
    /\ coord \in [pc : CoordPcs, op : Operations, todo : Todos, undo : BOOLEAN,
                  errors : BOOLEAN]
    /\ alone \in Nat

Calling ==
    /\ coord.pc \in {"preflight", "barrier", "open"} => ~coord.undo
    /\ ~coord.undo => ~coord.errors
    /\ coord.pc \in {"call", "wait"} =>
         /\ batch \in Interrupted
         /\ coord.todo \in IF coord.undo THEN {Backward, <<"user">>, <<>>}
                           ELSE {Forward, <<"root">>, <<>>}
    /\ coord.pc = "wait" => coord.todo # <<>>

\* While no tool is run alone, a tool runs only for the coordinator, or is a
\* user tool that has outlived it.
Exclusive ==
    /\ coord.pc # "wait" => ToolIdle("root")
    /\ coord.pc \in {"open", "undo", "call"} => ToolIdle("user")
    /\ ~ToolIdle("user") => batch \in Interrupted
    /\ coord.pc = "wait" =>
         \A c \in Lots : ~ToolIdle(c) => c = Head(coord.todo) /\ tool[c].op = Goal

\* What the coordinator has had done, and nothing less, is off its list.
Progress ==
    /\ \A c \in Lots :
         coord.pc = "wait" /\ c = Head(coord.todo) /\ ToolIdle(c) /\ tool[c].result = "done" =>
           LotDone(c, AimOf(Goal))
    /\ \A c \in Lots \ LeftOn(coord.todo) :
         coord.pc \in {"call", "wait"} /\ ~coord.errors => LotDone(c, AimOf(Goal))

NoForeign == edits = MaxEdits => \A f \in Files : file[f] # "foreign"

CoordInv == CoordTypeOK /\ Calling
UpdateInv == ToolInv /\ CoordInv /\ NoForeign /\ (alone = 0 => Exclusive /\ Progress)

-----------------------------------------------------------------------------
(* The tools. *)

\* The targets of a lot are files, and of no other lot.
LEMMA TargetOfLot ==
  ASSUME BundleTypeOK, NEW b \in Lots, Purpose(b), Writing(b)
  PROVE  Target(b) \in FilesOf(b) /\ Target(b) \in Files
<1>1. tool[b].i \in 1..Len(Order(b))
  BY UpdateAssumption DEF BundleTypeOK, Purpose, Writing, Lots, Order
<1> QED
  BY <1>1 DEF Target, FilesOf, Files, Lots

\* The lots have no target in common.
LEMMA LotsApart ==
  ASSUME NEW b \in Lots, NEW c \in Lots, b # c, NEW f \in FilesOf(b)
  PROVE  f \in Files /\ f \notin FilesOf(c)
BY UpdateAssumption DEF Lots, Files

\* A lot that a step leaves alone stays as it was.
LEMMA LeftAlone ==
  ASSUME NEW c \in Lots, Bracketed(c), Purpose(c),
         tool'[c] = tool[c], journal'[c] = journal[c],
         \A f \in FilesOf(c) : file'[f] = file[f]
  PROVE  Bracketed(c)' /\ Purpose(c)'
BY DEF Bracketed, Purpose, Is, Divergent, All

Tool == [pc : ToolPcs, op : Operations, kind : {"old", "new"},
         mode : {"try", "handler", "resume"}, i : Nat,
         seen : [Files -> Versions], by : {"alone", "coordinator"},
         result : {"none", "done", "failed"}]

\* A tool that is stopped.
LEMMA StoppedTool ==
  ASSUME NEW r \in {"none", "done", "failed"}
  PROVE  /\ Stopped(r) \in Tool
         /\ Stopped(r).pc = "idle" /\ Stopped(r).i = 1 /\ Stopped(r).kind = "old"
         /\ Stopped(r).op = "apply" /\ Stopped(r).mode = "try" /\ Stopped(r).result = r
BY DEF Stopped, Tool, ToolPcs, Operations, Versions

\* A tool that is started has read the files of its lot.
LEMMA StartedTool ==
  ASSUME BundleTypeOK, NEW b \in Lots, NEW op \in Operations,
         NEW by \in {"alone", "coordinator"}, Started(b, op, by)
  PROVE  /\ tool' \in [Lots -> Tool]
         /\ tool'[b].pc = "barrier" /\ tool'[b].i = 1 /\ tool'[b].kind = "old"
         /\ tool'[b].op = op /\ tool'[b].mode = "try" /\ tool'[b].result = "none"
         /\ \A c \in Lots \ {b} : tool'[c] = tool[c]
<1> DEFINE seen == [f \in Files |-> IF f \in FilesOf(b) THEN file[f] ELSE "old"]
           start == [Stopped("none") EXCEPT !.pc = "barrier", !.op = op, !.by = by, !.seen = seen]
<1>1. seen \in [Files -> Versions]
  BY DEF BundleTypeOK, Versions
<1>2. tool' = [tool EXCEPT ![b] = start] /\ tool \in [Lots -> Tool]
  BY DEF Started, BundleTypeOK, Tool
<1> HIDE DEF seen
<1>3. /\ start \in Tool /\ start.pc = "barrier" /\ start.i = 1 /\ start.kind = "old"
      /\ start.op = op /\ start.mode = "try" /\ start.result = "none"
  BY <1>1 DEF Stopped, Tool, ToolPcs, Operations
<1> HIDE DEF start
<1> QED
  BY <1>2, <1>3

\* A step in one lot keeps the invariant when it keeps the lot's part of it.
LEMMA LotMoves ==
  ASSUME ToolInv, NEW b \in Lots,
         tool' \in [Lots -> Tool], \A c \in Lots \ {b} : tool'[c] = tool[c],
         journal' \in [Lots -> Journals], \A c \in Lots \ {b} : journal'[c] = journal[c],
         file' \in [Files -> Versions],
         \A c \in Lots \ {b} : \A f \in FilesOf(c) : file'[f] = file[f],
         dir' \in LinkDirectories,
         faults' \in 0..MaxFaults, edits' \in 0..MaxEdits,
         Bracketed(b)', Purpose(b)'
  PROVE  ToolInv'
<1>1. BundleTypeOK'
  BY DEF BundleTypeOK, Tool
<1>2. ASSUME NEW c \in Lots PROVE Bracketed(c)' /\ Purpose(c)'
  <2>1. CASE c = b
    BY <2>1
  <2>2. CASE c # b
    <3>1. Bracketed(c) /\ Purpose(c)
      BY <2>2 DEF ToolInv
    <3> QED
      BY <2>2, <3>1, LeftAlone
  <2> QED
    BY <2>1, <2>2
<1>3. \A c \in Lots : Bracketed(c)' /\ Purpose(c)'
  BY <1>2
<1> QED
  BY <1>1, <1>3 DEF ToolInv

\* One step of a tool, in its own lot.
LEMMA ToolStepKeeps ==
  ASSUME ToolInv, NEW b \in Lots, ToolStep(b)
  PROVE  ToolInv'
<1>1. /\ Bracketed(b) /\ Purpose(b) /\ b \in {"root", "user"}
      /\ file \in [Files -> Versions] /\ dir \in LinkDirectories
      /\ journal \in [Lots -> Journals] /\ tool \in [Lots -> Tool]
      /\ faults \in 0..MaxFaults /\ edits \in 0..MaxEdits
  BY DEF ToolInv, BundleTypeOK, Tool, Lots
<1>2. ASSUME Stop(b, "failed") \/ Stop(b, "done")
      PROVE  /\ tool' \in [Lots -> Tool] /\ Purpose(b)' /\ tool'[b].pc = "idle"
             /\ \A c \in Lots \ {b} : tool'[c] = tool[c]
  <2>1. PICK r \in {"done", "failed"} : tool' = [tool EXCEPT ![b] = Stopped(r)]
    BY <1>2 DEF Stop
  <2> DEFINE t == Stopped(r)
  <2>2. /\ t \in Tool /\ t.pc = "idle" /\ t.i = 1 /\ t.kind = "old"
        /\ tool' = [tool EXCEPT ![b] = t]
    BY <2>1, StoppedTool
  <2> HIDE DEF t
  <2>3. tool' \in [Lots -> Tool] /\ tool'[b] = t /\ \A c \in Lots \ {b} : tool'[c] = tool[c]
    BY <1>1, <2>2
  <2> QED
    BY <2>2, <2>3 DEF Purpose, Aimed
<1>3. ASSUME NEW pc \in ToolPcs, tool' = [tool EXCEPT ![b].pc = pc]
      PROVE  /\ tool' \in [Lots -> Tool] /\ tool'[b].pc = pc /\ tool'[b].i = tool[b].i
             /\ tool'[b].kind = tool[b].kind /\ tool'[b].op = tool[b].op
             /\ tool'[b].mode = tool[b].mode
             /\ \A c \in Lots \ {b} : tool'[c] = tool[c]
  BY <1>1, <1>3 DEF Tool
<1>4. ASSUME Raise(b)
      PROVE  /\ tool' \in [Lots -> Tool] /\ Purpose(b)'
             /\ tool'[b].pc \in {"idle", "recover"}
             /\ \A c \in Lots \ {b} : tool'[c] = tool[c]
  <2>1. CASE Goto(b, "recover")
    <3>1. /\ tool' \in [Lots -> Tool] /\ tool'[b].pc = "recover" /\ tool'[b].i = tool[b].i
          /\ tool'[b].kind = tool[b].kind /\ tool'[b].op = tool[b].op
          /\ \A c \in Lots \ {b} : tool'[c] = tool[c]
      BY <1>3, <2>1 DEF Goto, ToolPcs
    <3> QED
      BY <1>1, <3>1 DEF Purpose, Aimed
  <2>2. CASE Stop(b, "failed")
    BY <1>2, <2>2
  <2> QED
    BY <1>4, <2>1, <2>2 DEF Raise
<1>5. ASSUME Fault \/ NoFault PROVE faults' \in 0..MaxFaults
  BY <1>1, <1>5, UpdateAssumption DEF Fault, NoFault
<1>6. CASE Barrier(b)
  <2>1. UNCHANGED <<file, dir, journal, edits>> /\ faults' \in 0..MaxFaults
    BY <1>5, <1>6 DEF Barrier
  <2>2. Stop(b, "failed") \/ Goto(b, "decide")
    BY <1>6 DEF Barrier
  <2>3. /\ tool' \in [Lots -> Tool] /\ Purpose(b)' /\ Bracketed(b)'
        /\ \A c \in Lots \ {b} : tool'[c] = tool[c]
    <3>1. CASE Stop(b, "failed")
      BY <1>2, <3>1 DEF Bracketed, InBracket
    <3>2. CASE Goto(b, "decide")
      <4>1. /\ tool' \in [Lots -> Tool] /\ tool'[b].pc = "decide" /\ tool'[b].i = tool[b].i
            /\ tool'[b].kind = tool[b].kind /\ tool'[b].op = tool[b].op
            /\ \A c \in Lots \ {b} : tool'[c] = tool[c]
        BY <1>3, <3>2 DEF Goto, ToolPcs
      <4> QED
        BY <1>1, <4>1 DEF Purpose, Bracketed, InBracket, Aimed
    <3> QED
      BY <2>2, <3>1, <3>2
  <2> QED
    BY <1>1, <2>1, <2>3, LotMoves
<1>7. CASE Decide(b)
  <2>1. UNCHANGED <<file, dir, journal, faults, edits>>
    BY <1>7 DEF Decide
  <2>2. \/ tool' = [tool EXCEPT ![b].pc = "journal", ![b].kind = "old", ![b].mode = "resume"]
        \/ Stop(b, "failed")
        \/ tool' = [tool EXCEPT ![b].pc = "journal",
                               ![b].kind = IF tool[b].op = "apply" THEN "new" ELSE "old"]
    BY <1>7 DEF Decide
  <2>3. /\ tool' \in [Lots -> Tool] /\ \A c \in Lots \ {b} : tool'[c] = tool[c]
        /\ Purpose(b)' /\ tool'[b].pc \in {"idle", "journal"}
    <3>1. CASE Stop(b, "failed")
      BY <1>2, <3>1
    <3>2. CASE tool' = [tool EXCEPT ![b].pc = "journal", ![b].kind = "old", ![b].mode = "resume"]
      <4> DEFINE t == [tool[b] EXCEPT !.pc = "journal", !.kind = "old", !.mode = "resume"]
      <4>0. tool[b] \in Tool
        BY <1>1
      <4>1. /\ t \in Tool /\ t.pc = "journal" /\ t.kind = "old" /\ t.mode = "resume"
            /\ t.i = tool[b].i
        BY <4>0 DEF Tool, ToolPcs
      <4>2. tool' = [tool EXCEPT ![b] = t]
        BY <3>2
      <4> HIDE DEF t
      <4>3. tool'[b] = t
        BY <1>1, <4>2
      <4> QED
        BY <1>1, <4>1, <4>2, <4>3 DEF Purpose
    <3>3. CASE tool' = [tool EXCEPT ![b].pc = "journal",
                           ![b].kind = IF tool[b].op = "apply" THEN "new" ELSE "old"]
      <4> DEFINE kind == IF tool[b].op = "apply" THEN "new" ELSE "old"
                 t == [tool[b] EXCEPT !.pc = "journal", !.kind = kind]
      <4>1. /\ t \in Tool /\ t.pc = "journal" /\ t.kind = kind
            /\ t.op = tool[b].op /\ t.i = tool[b].i
        BY <1>1 DEF Tool, ToolPcs
      <4>2. tool' = [tool EXCEPT ![b] = t]
        BY <3>3
      <4> HIDE DEF t
      <4>3. tool'[b] = t
        BY <1>1, <4>2
      <4> QED
        BY <1>1, <4>1, <4>2, <4>3 DEF Purpose
    <3> QED
      BY <2>2, <3>1, <3>2, <3>3
  <2>4. Bracketed(b)'
    BY <2>3 DEF Bracketed, InBracket
  <2> QED
    BY <1>1, <2>1, <2>3, <2>4, LotMoves
<1>8. CASE Open(b)
  <2> DEFINE opening == IF tool[b].kind = "new" THEN "applying" ELSE "rolling-back"
  <2>1. /\ UNCHANGED <<file, dir, edits>> /\ faults' \in 0..MaxFaults
        /\ tool[b].pc = "journal"
        /\ \/ journal' = [journal EXCEPT ![b] = opening] /\ Goto(b, "write")
           \/ Stop(b, "failed") /\ (journal' = [journal EXCEPT ![b] = opening] \/ UNCHANGED journal)
    BY <1>5, <1>8 DEF Open, Record
  <2>2. /\ journal' \in [Lots -> Journals] /\ \A c \in Lots \ {b} : journal'[c] = journal[c]
    BY <1>1, <2>1 DEF Journals
  <2>3. /\ tool' \in [Lots -> Tool] /\ Purpose(b)' /\ Bracketed(b)'
        /\ \A c \in Lots \ {b} : tool'[c] = tool[c]
    <3>1. CASE Stop(b, "failed")
      BY <1>2, <3>1 DEF Bracketed, InBracket
    <3>2. CASE journal' = [journal EXCEPT ![b] = opening] /\ Goto(b, "write")
      <4>1. /\ tool' \in [Lots -> Tool] /\ tool'[b].pc = "write" /\ tool'[b].i = tool[b].i
            /\ tool'[b].kind = tool[b].kind /\ tool'[b].op = tool[b].op
            /\ tool'[b].mode = tool[b].mode
            /\ \A c \in Lots \ {b} : tool'[c] = tool[c]
        BY <1>3, <3>2 DEF Goto, ToolPcs
      <4> QED
        BY <1>1, <2>1, <3>2, <4>1 DEF Purpose, Bracketed, InBracket, Aimed, Interrupted
    <3> QED
      BY <2>1, <3>1, <3>2
  <2> QED
    BY <1>1, <2>1, <2>2, <2>3, LotMoves
<1>9. CASE Skip(b)
  <2>1. UNCHANGED <<file, dir, journal, faults, edits>>
    BY <1>9 DEF Skip
  <2>2. /\ tool' \in [Lots -> Tool] /\ \A c \in Lots \ {b} : tool'[c] = tool[c]
        /\ tool'[b].pc = "write" /\ Purpose(b)' /\ tool[b].pc = "write"
    <3> DEFINE t == [tool[b] EXCEPT !.i = tool[b].i + 1]
    <3>1. tool[b] \in Tool
      BY <1>1
    <3>2. t \in Tool /\ t.i = tool[b].i + 1 /\ t.pc = tool[b].pc /\ t.kind = tool[b].kind
          /\ t.op = tool[b].op /\ t.mode = tool[b].mode /\ tool[b].i \in Nat
      BY <3>1 DEF Tool
    <3>3. tool' = [tool EXCEPT ![b] = t]
      BY <1>9 DEF Skip
    <3> HIDE DEF t
    <3>4. tool'[b] = t /\ tool' \in [Lots -> Tool] /\ \A c \in Lots \ {b} : tool'[c] = tool[c]
      BY <1>1, <3>2, <3>3
    <3> QED
      BY <1>1, <1>9, <3>2, <3>4 DEF Purpose, Skip, Writing
  <2>3. Bracketed(b)'
    BY <1>1, <2>1, <2>2 DEF Bracketed, InBracket
  <2> QED
    BY <1>1, <2>1, <2>2, <2>3, LotMoves
<1>10. CASE SnapshotRefuses(b)
  <2>1. UNCHANGED <<file, dir, journal, faults, edits>> /\ Raise(b)
    BY <1>10 DEF SnapshotRefuses
  <2>2. Bracketed(b)'
    BY <1>4, <2>1 DEF Bracketed, InBracket
  <2> QED
    BY <1>1, <1>4, <2>1, <2>2, LotMoves
<1>11. CASE Write(b)
  <2> DEFINE f == Target(b)
  <2>1. f \in FilesOf(b) /\ f \in Files /\ tool[b].pc = "write"
    BY <1>1, <1>11, TargetOfLot DEF ToolInv, Write, Writing
  <2>2. /\ UNCHANGED <<dir, journal, edits>> /\ faults' \in 0..MaxFaults
        /\ file' = [file EXCEPT ![f] = tool[b].kind] \/ UNCHANGED file
        /\ tool' = [tool EXCEPT ![b].i = @ + 1] \/ Raise(b)
    BY <1>5, <1>11 DEF Write
  <2>3. \A c \in Lots \ {b} : \A g \in FilesOf(c) : file'[g] = file[g]
    BY <1>1, <2>1, <2>2, LotsApart
  <2> HIDE DEF f
  <2>4. file' \in [Files -> Versions]
    BY <1>1, <2>1, <2>2 DEF Versions, Tool
  <2>5. /\ tool' \in [Lots -> Tool] /\ \A c \in Lots \ {b} : tool'[c] = tool[c]
        /\ Purpose(b)' /\ tool'[b].pc \in {"idle", "recover", "write"}
    <3>1. CASE Raise(b)
      BY <1>4, <3>1
    <3>2. CASE tool' = [tool EXCEPT ![b].i = @ + 1]
      <4> DEFINE t == [tool[b] EXCEPT !.i = tool[b].i + 1]
      <4>1. tool[b] \in Tool
        BY <1>1
      <4>2. t \in Tool /\ t.i = tool[b].i + 1 /\ t.pc = tool[b].pc /\ t.kind = tool[b].kind
            /\ t.op = tool[b].op /\ t.mode = tool[b].mode /\ tool[b].i \in Nat
        BY <4>1 DEF Tool
      <4>3. tool' = [tool EXCEPT ![b] = t]
        BY <3>2
      <4> HIDE DEF t
      <4>4. tool'[b] = t /\ tool' \in [Lots -> Tool] /\ \A c \in Lots \ {b} : tool'[c] = tool[c]
        BY <1>1, <4>2, <4>3
      <4> QED
        BY <1>1, <2>1, <4>2, <4>4 DEF Purpose
    <3> QED
      BY <2>2, <3>1, <3>2
  <2>6. Bracketed(b)'
    BY <1>1, <2>1, <2>2, <2>5 DEF Bracketed, InBracket
  <2> QED
    BY <1>1, <2>2, <2>3, <2>4, <2>5, <2>6, LotMoves
<1>12. CASE Confirm(b)
  <2>1. UNCHANGED <<file, dir, journal, faults, edits>> /\ tool[b].pc = "write"
    BY <1>12 DEF Confirm, Published
  <2>2. CASE Raise(b)
    <3>1. Bracketed(b)'
      BY <1>4, <2>2 DEF Bracketed, InBracket
    <3> QED
      BY <1>1, <1>4, <2>1, <2>2, <3>1, LotMoves
  <2>3. CASE /\ All(b, tool[b].kind) /\ b = "user" /\ tool[b].kind = "old"
             /\ Goto(b, "clean")
    <3>1. /\ tool' \in [Lots -> Tool] /\ tool'[b].pc = "clean" /\ tool'[b].i = tool[b].i
          /\ tool'[b].kind = tool[b].kind /\ tool'[b].op = tool[b].op
          /\ tool'[b].mode = tool[b].mode
          /\ \A c \in Lots \ {b} : tool'[c] = tool[c]
      BY <1>3, <2>3 DEF Goto, ToolPcs
    <3>2. Bracketed(b)' /\ Purpose(b)'
      BY <1>1, <2>1, <2>3, <3>1 DEF Bracketed, InBracket, Purpose, Aimed, All, Is
    <3> QED
      BY <1>1, <2>1, <3>1, <3>2, LotMoves
  <2>4. CASE /\ All(b, tool[b].kind) /\ ~(b = "user" /\ tool[b].kind = "old")
             /\ Goto(b, "settle")
    <3>1. /\ tool' \in [Lots -> Tool] /\ tool'[b].pc = "settle" /\ tool'[b].i = tool[b].i
          /\ tool'[b].kind = tool[b].kind /\ tool'[b].op = tool[b].op
          /\ tool'[b].mode = tool[b].mode
          /\ \A c \in Lots \ {b} : tool'[c] = tool[c]
      BY <1>3, <2>4 DEF Goto, ToolPcs
    <3>2. Bracketed(b)' /\ Purpose(b)'
      BY <1>1, <2>1, <2>4, <3>1 DEF Bracketed, InBracket, Purpose, Aimed, All, Is
    <3> QED
      BY <1>1, <2>1, <3>1, <3>2, LotMoves
  <2> QED
    BY <1>12, <2>2, <2>3, <2>4 DEF Confirm
<1>13. CASE Settle(b)
  <2>1. /\ UNCHANGED <<file, dir, edits>> /\ faults' \in 0..MaxFaults
        /\ \/ journal' = [journal EXCEPT ![b] = IF tool[b].kind = "new" THEN "applied"
                                                ELSE "original"]
           \/ UNCHANGED journal
        /\ Raise(b) \/ Stop(b, "failed") \/ Stop(b, "done")
    BY <1>5, <1>13 DEF Settle, Record
  <2>2. /\ journal' \in [Lots -> Journals] /\ \A c \in Lots \ {b} : journal'[c] = journal[c]
    BY <1>1, <2>1 DEF Journals
  <2>3. /\ tool' \in [Lots -> Tool] /\ Purpose(b)' /\ tool'[b].pc \in {"idle", "recover"}
        /\ \A c \in Lots \ {b} : tool'[c] = tool[c]
    BY <1>2, <1>4, <2>1
  <2>4. Bracketed(b)'
    BY <2>3 DEF Bracketed, InBracket
  <2> QED
    BY <1>1, <2>1, <2>2, <2>3, <2>4, LotMoves
<1>14. CASE Recover(b)
  <2>1. /\ UNCHANGED <<file, dir, edits>> /\ faults' \in 0..MaxFaults
        /\ tool[b].pc = "recover"
        /\ \/ journal' = [journal EXCEPT ![b] = "rolling-back"] /\ Goto(b, "recheck")
           \/ /\ Stop(b, "failed")
              /\ journal' = [journal EXCEPT ![b] = "rolling-back"] \/ UNCHANGED journal
    BY <1>5, <1>14 DEF Recover, Record
  <2>2. /\ journal' \in [Lots -> Journals] /\ \A c \in Lots \ {b} : journal'[c] = journal[c]
    BY <1>1, <2>1 DEF Journals
  <2>3. /\ tool' \in [Lots -> Tool] /\ Purpose(b)' /\ Bracketed(b)'
        /\ \A c \in Lots \ {b} : tool'[c] = tool[c]
    <3>1. CASE Stop(b, "failed")
      BY <1>2, <3>1 DEF Bracketed, InBracket
    <3>2. CASE journal' = [journal EXCEPT ![b] = "rolling-back"] /\ Goto(b, "recheck")
      <4>1. /\ tool' \in [Lots -> Tool] /\ tool'[b].pc = "recheck" /\ tool'[b].i = tool[b].i
            /\ tool'[b].kind = tool[b].kind /\ tool'[b].op = tool[b].op
            /\ tool'[b].mode = tool[b].mode
            /\ \A c \in Lots \ {b} : tool'[c] = tool[c]
        BY <1>3, <3>2 DEF Goto, ToolPcs
      <4> QED
        BY <1>1, <2>1, <3>2, <4>1 DEF Purpose, Bracketed, InBracket, Aimed, Interrupted
    <3> QED
      BY <2>1, <3>1, <3>2
  <2> QED
    BY <1>1, <2>1, <2>2, <2>3, LotMoves
<1>15. CASE Recheck(b)
  <2> DEFINE seen == [f \in Files |-> IF f \in FilesOf(b) THEN file[f] ELSE "old"]
  <2>1. seen \in [Files -> Versions]
    BY <1>1 DEF Versions
  <2>2. /\ UNCHANGED <<file, dir, journal, faults, edits>> /\ tool[b].pc = "recheck"
        /\ \/ Stop(b, "failed")
           \/ tool' = [tool EXCEPT ![b].pc = "write", ![b].kind = "old",
                                   ![b].mode = "handler", ![b].i = 1, ![b].seen = seen]
    BY <1>15 DEF Recheck
  <2> HIDE DEF seen
  <2>3. /\ tool' \in [Lots -> Tool] /\ \A c \in Lots \ {b} : tool'[c] = tool[c]
        /\ Purpose(b)' /\ tool'[b].pc \in {"idle", "write"}
    <3>1. CASE Stop(b, "failed")
      BY <1>2, <3>1
    <3>2. CASE tool' = [tool EXCEPT ![b].pc = "write", ![b].kind = "old",
                           ![b].mode = "handler", ![b].i = 1, ![b].seen = seen]
      <4> DEFINE t == [tool[b] EXCEPT !.pc = "write", !.kind = "old",
                                     !.mode = "handler", !.i = 1, !.seen = seen]
      <4>0. tool[b] \in Tool
        BY <1>1
      <4>1. /\ t \in Tool /\ t.pc = "write" /\ t.kind = "old" /\ t.mode = "handler" /\ t.i = 1
        BY <2>1, <4>0 DEF Tool, ToolPcs
      <4>2. tool' = [tool EXCEPT ![b] = t]
        BY <3>2
      <4> HIDE DEF t
      <4>3. tool'[b] = t
        BY <1>1, <4>2
      <4> QED
        BY <1>1, <4>1, <4>2, <4>3 DEF Purpose
    <3> QED
      BY <2>2, <3>1, <3>2
  <2>4. Bracketed(b)'
    BY <1>1, <2>2, <2>3 DEF Bracketed, InBracket
  <2> QED
    BY <1>1, <2>2, <2>3, <2>4, LotMoves
<1> QED
  BY <1>6, <1>7, <1>8, <1>9, <1>10, <1>11, <1>12, <1>13, <1>14, <1>15 DEF ToolStep

\* The tools at rest, as the first state, a power loss and a kill leave them.
LEMMA LotRests ==
  ASSUME ToolInv, NEW b \in Lots, NEW r \in {"none", "failed"},
         UNCHANGED <<file, journal, edits>>, dir' \in LinkDirectories,
         faults' \in 0..MaxFaults, Stop(b, r)
  PROVE  ToolInv'
<1>1. /\ file \in [Files -> Versions] /\ dir \in LinkDirectories /\ edits \in 0..MaxEdits
      /\ journal \in [Lots -> Journals] /\ tool \in [Lots -> Tool]
  BY DEF ToolInv, BundleTypeOK, Tool
<1> DEFINE t == Stopped(r)
<1>2. /\ t \in Tool /\ t.pc = "idle" /\ t.i = 1 /\ t.kind = "old"
      /\ tool' = [tool EXCEPT ![b] = t]
  BY StoppedTool DEF Stop
<1> HIDE DEF t
<1>3. tool' \in [Lots -> Tool] /\ tool'[b] = t /\ \A c \in Lots \ {b} : tool'[c] = tool[c]
  BY <1>1, <1>2
<1>4. Bracketed(b)' /\ Purpose(b)'
  BY <1>2, <1>3 DEF Bracketed, Purpose, InBracket, Aimed
<1> QED
  BY <1>1, <1>3, <1>4, LotMoves

\* A tool that begins has changed nothing yet.
LEMMA LotBegins ==
  ASSUME ToolInv, NEW b \in Lots, NEW op \in Operations,
         NEW by \in {"alone", "coordinator"}, Started(b, op, by),
         UNCHANGED <<file, dir, journal, faults, edits>>
  PROVE  ToolInv'
<1>1. /\ file \in [Files -> Versions] /\ dir \in LinkDirectories /\ edits \in 0..MaxEdits
      /\ journal \in [Lots -> Journals] /\ faults \in 0..MaxFaults
  BY DEF ToolInv, BundleTypeOK
<1>2. /\ tool' \in [Lots -> Tool] /\ \A c \in Lots \ {b} : tool'[c] = tool[c]
      /\ tool'[b].pc = "barrier" /\ tool'[b].i = 1 /\ tool'[b].kind = "old"
  BY StartedTool DEF ToolInv
<1>3. Bracketed(b)' /\ Purpose(b)'
  BY <1>2 DEF Bracketed, Purpose, InBracket, Aimed
<1> QED
  BY <1>1, <1>2, <1>3, LotMoves

\* A tool that goes on to another step.
LEMMA ToolGoes ==
  ASSUME tool \in [Lots -> Tool], NEW b \in Lots, NEW pc \in ToolPcs,
         tool' = [tool EXCEPT ![b].pc = pc]
  PROVE  /\ tool' \in [Lots -> Tool] /\ \A c \in Lots \ {b} : tool'[c] = tool[c]
         /\ tool'[b].pc = pc /\ tool'[b].i = tool[b].i /\ tool'[b].mode = tool[b].mode
         /\ tool'[b].kind = tool[b].kind /\ tool'[b].op = tool[b].op
<1> DEFINE t == [tool[b] EXCEPT !.pc = pc]
<1>1. tool[b] \in Tool
  OBVIOUS
<1>2. /\ t \in Tool /\ t.pc = pc /\ t.i = tool[b].i /\ t.mode = tool[b].mode
      /\ t.kind = tool[b].kind /\ t.op = tool[b].op
  BY <1>1 DEF Tool
<1>3. tool' = [tool EXCEPT ![b] = t]
  OBVIOUS
<1> HIDE DEF t
<1>4. /\ tool' \in [Lots -> Tool] /\ tool'[b] = t
      /\ \A c \in Lots \ {b} : tool'[c] = tool[c]
  BY <1>2, <1>3
<1> QED
  BY <1>2, <1>4

\* The steps on the link and its directory, which only the user tool makes.
LinkStep == MakeDirectory \/ MakeTemporary \/ PlaceLink \/ Clean

\* Where the user tool may be after one.
LEMMA LinkTool ==
  ASSUME ToolInv, LinkStep
  PROVE  /\ tool' \in [Lots -> Tool] /\ tool'["root"] = tool["root"]
         /\ Purpose("user")' /\ ~ToolIdle("user") /\ journal["user"] \in Interrupted
         /\ tool'["user"].pc \in {"write", "link", "settle", "recover", "idle"}
         /\ ~ToolIdle("user")' => tool'["user"].op = tool["user"].op
         /\ ToolIdle("user")' => tool'["user"].result = "failed"
         /\ tool'["user"].pc = "settle" => Clean /\ tool'["user"].kind = tool["user"].kind
<1> DEFINE b == "user"
<1>1. /\ tool \in [Lots -> Tool] /\ b \in Lots /\ "root" \in Lots
      /\ Bracketed(b) /\ Purpose(b)
  BY DEF ToolInv, BundleTypeOK, Tool, Lots
<1>2. /\ tool[b].pc \in {"write", "link", "clean"} /\ (Clean => tool[b].pc = "clean")
      /\ ~ToolIdle(b) /\ journal[b] \in Interrupted
  BY <1>1 DEF LinkStep, MakeDirectory, MakeTemporary, PlaceLink, Clean, Linking, Writing,
     Bracketed, InBracket, ToolIdle
<1> DEFINE Claim == /\ tool' \in [Lots -> Tool] /\ tool'["root"] = tool["root"]
                    /\ Purpose(b)'
                    /\ tool'[b].pc \in {"write", "link", "settle", "recover", "idle"}
                    /\ ~ToolIdle(b)' => tool'[b].op = tool[b].op
                    /\ ToolIdle(b)' => tool'[b].result = "failed"
<1>3. ASSUME NEW pc \in {"link", "settle", "recover"}, tool' = [tool EXCEPT ![b].pc = pc]
      PROVE  Claim /\ tool'[b].pc = pc /\ tool'[b].kind = tool[b].kind
  <2>1. /\ tool' \in [Lots -> Tool] /\ \A c \in Lots \ {b} : tool'[c] = tool[c]
        /\ tool'[b].pc = pc /\ tool'[b].i = tool[b].i /\ tool'[b].mode = tool[b].mode
        /\ tool'[b].kind = tool[b].kind /\ tool'[b].op = tool[b].op
    BY <1>1, <1>3, ToolGoes DEF ToolPcs
  <2>2. Purpose(b)'
    BY <1>1, <1>2, <2>1 DEF Purpose, Aimed
  <2> QED
    BY <1>1, <2>1, <2>2 DEF ToolIdle
<1>4. ASSUME Stop(b, "failed") PROVE Claim /\ tool'[b].pc = "idle"
  <2> DEFINE t == Stopped("failed")
  <2>1. /\ t \in Tool /\ t.pc = "idle" /\ t.i = 1 /\ t.kind = "old" /\ t.result = "failed"
        /\ tool' = [tool EXCEPT ![b] = t]
    BY <1>4, StoppedTool DEF Stop
  <2> HIDE DEF t
  <2>2. tool' \in [Lots -> Tool] /\ tool'[b] = t /\ \A c \in Lots \ {b} : tool'[c] = tool[c]
    BY <1>1, <2>1
  <2>3. Purpose(b)'
    BY <2>1, <2>2 DEF Purpose, Aimed
  <2> QED
    BY <1>1, <2>1, <2>2, <2>3 DEF ToolIdle
<1>5. ASSUME Raise(b) PROVE Claim /\ tool'[b].pc \in {"recover", "idle"}
  BY <1>3, <1>4, <1>5 DEF Raise, Goto
<1>6. CASE UNCHANGED tool /\ tool[b].pc = "write"
  <2>1. tool'[b] = tool[b] /\ Purpose(b)
    BY <1>1, <1>6
  <2>2. Purpose(b)'
    BY <2>1 DEF Purpose
  <2> QED
    BY <1>1, <1>2, <1>6, <2>2 DEF ToolIdle
<1>7. CASE tool' = [tool EXCEPT ![b].pc = "write", ![b].i = @ + 1] /\ tool[b].pc = "link"
  <2> DEFINE t == [tool[b] EXCEPT !.pc = "write", !.i = tool[b].i + 1]
  <2>0. ASSUME NEW u \in Tool, NEW v, v = [u EXCEPT !.pc = "write", !.i = u.i + 1]
        PROVE  /\ v \in Tool /\ v.i = u.i + 1 /\ v.pc = "write" /\ v.kind = u.kind
               /\ v.op = u.op /\ v.mode = u.mode /\ u.i \in Nat
    <3>1. u.i \in Nat
      BY DEF Tool
    <3>2. PICK n \in Nat : n = u.i + 1
      BY <3>1
    <3>3. v = [[u EXCEPT !.pc = "write"] EXCEPT !.i = n]
      BY <2>0, <3>2
    <3> HIDE DEF b, t, Claim
    <3>4. [u EXCEPT !.pc = "write"] \in Tool
      BY DEF Tool, ToolPcs
    <3> QED
      BY <3>1, <3>2, <3>3, <3>4 DEF Tool
  <2>1. tool[b] \in Tool
    BY <1>1
  <2>2. /\ t \in Tool /\ t.i = tool[b].i + 1 /\ t.pc = "write" /\ t.kind = tool[b].kind
        /\ t.op = tool[b].op /\ t.mode = tool[b].mode /\ tool[b].i \in Nat
    BY <2>0, <2>1
  <2>3. tool' = [tool EXCEPT ![b] = t]
    BY <1>7
  <2> HIDE DEF t
  <2>4. tool'[b] = t /\ tool' \in [Lots -> Tool] /\ \A c \in Lots \ {b} : tool'[c] = tool[c]
    BY <1>1, <2>2, <2>3
  <2>5. Purpose(b)'
    BY <1>1, <1>7, <2>2, <2>4 DEF Purpose, Aimed
  <2> QED
    BY <1>1, <1>2, <2>2, <2>4, <2>5 DEF ToolIdle
<1>8. CASE MakeDirectory
  BY <1>2, <1>5, <1>6, <1>8 DEF MakeDirectory, Linking, Writing
<1>9. CASE MakeTemporary
  BY <1>2, <1>3, <1>5, <1>9 DEF MakeTemporary, Goto
<1>10. CASE PlaceLink
  BY <1>2, <1>5, <1>7, <1>10 DEF PlaceLink
<1>11. CASE Clean
  BY <1>2, <1>3, <1>11 DEF Clean, Goto
<1> QED
  BY <1>8, <1>9, <1>10, <1>11 DEF LinkStep

\* What it does to the files and to the directory.
LEMMA LinkEffect ==
  ASSUME ToolInv, LinkStep
  PROVE  /\ file' \in [Files -> Versions] /\ dir' \in LinkDirectories
         /\ \A f \in FilesOf("root") : file'[f] = file[f]
         /\ UNCHANGED <<journal, edits>> /\ faults' \in 0..MaxFaults
         /\ Clean => UNCHANGED file
<1>1. /\ file \in [Files -> Versions] /\ dir \in LinkDirectories /\ faults \in 0..MaxFaults
      /\ Wants \in FilesOf("user") /\ "user" \in Lots /\ "root" \in Lots
  BY UpdateAssumption DEF ToolInv, BundleTypeOK, Lots
<1>2. UNCHANGED <<journal, edits>> /\ dir' \in LinkDirectories /\ (Fault \/ NoFault)
  BY <1>1 DEF LinkStep, MakeDirectory, MakeTemporary, PlaceLink, Clean, LinkDirectories
<1>3. faults' \in 0..MaxFaults
  BY <1>1, <1>2, UpdateAssumption DEF Fault, NoFault
<1>4. UNCHANGED file \/ (PlaceLink /\ file' = [file EXCEPT ![Wants] = "new"])
  BY DEF LinkStep, MakeDirectory, MakeTemporary, PlaceLink, Clean
<1>5. Wants \notin FilesOf("root") /\ \A f \in FilesOf("root") : f \in Files
  BY <1>1, LotsApart
<1>6. file' \in [Files -> Versions] /\ \A f \in FilesOf("root") : file'[f] = file[f]
  BY <1>1, <1>4, <1>5 DEF Versions
<1> QED
  BY <1>2, <1>3, <1>6 DEF Clean

LEMMA DirectoryKeeps == ToolInv /\ LinkStep => ToolInv'
<1> SUFFICES ASSUME ToolInv, LinkStep PROVE ToolInv'
  OBVIOUS
<1> DEFINE b == "user"
<1>1. /\ journal \in [Lots -> Journals] /\ edits \in 0..MaxEdits /\ b \in Lots
      /\ Bracketed(b) /\ Lots \ {b} = {"root"}
  BY DEF ToolInv, BundleTypeOK, Lots
<1>2. UNCHANGED <<journal, edits>>
  BY LinkEffect
<1>3. CASE Clean
  <2>1. UNCHANGED file /\ tool[b].pc = "clean"
    BY <1>3 DEF Clean
  <2>2. Is(b, "old")' /\ tool[b].kind = "old"
    BY <1>1, <2>1 DEF Bracketed, Is, Divergent, All
  <2>3. Bracketed(b)'
    BY <1>2, <1>3, <2>2, LinkTool DEF Bracketed, InBracket
  <2> QED
    BY <1>1, <1>2, <2>3, LinkTool, LinkEffect, LotMoves
<1>4. CASE ~Clean
  <2>1. Bracketed(b)'
    BY <1>2, <1>4, LinkTool DEF Bracketed, InBracket
  <2> QED
    BY <1>1, <1>2, <2>1, LinkTool, LinkEffect, LotMoves
<1> QED
  BY <1>3, <1>4

\* An edit makes the lot of its file divergent, or touches no file.
LEMMA EditKeeps == ToolInv /\ Edit => ToolInv'
<1> SUFFICES ASSUME ToolInv, Edit PROVE ToolInv'
  OBVIOUS
<1>1. /\ file \in [Files -> Versions] /\ dir' \in LinkDirectories /\ edits \in 0..MaxEdits
      /\ journal \in [Lots -> Journals] /\ tool \in [Lots -> Tool] /\ faults \in 0..MaxFaults
      /\ \A b \in Lots : Bracketed(b) /\ Purpose(b)
  BY DEF ToolInv, BundleTypeOK, Tool, Edit, LinkDirectories
<1>2. UNCHANGED <<journal, tool, faults>> /\ edits' \in 0..MaxEdits
  BY <1>1, UpdateAssumption DEF Edit
<1>3. CASE UNCHANGED file
  <2>1. "root" \in Lots /\ \A c \in Lots : Bracketed(c)' /\ Purpose(c)'
    BY <1>1, <1>2, <1>3, LeftAlone DEF Lots
  <2> QED
    BY <1>1, <1>2, <1>3, <2>1, LotMoves
<1>4. ASSUME NEW f \in Files, file' = [file EXCEPT ![f] = "foreign"] PROVE ToolInv'
  <2>1. PICK b \in Lots : f \in FilesOf(b)
    BY DEF Files, Lots
  <2>2. \A c \in Lots \ {b} : \A g \in FilesOf(c) : file'[g] = file[g]
    BY <1>1, <1>4, <2>1, LotsApart
  <2>3. Divergent(b)'
    BY <1>1, <1>4, <2>1 DEF Divergent
  <2>4. Bracketed(b)' /\ Purpose(b)'
    BY <1>1, <1>2, <2>3 DEF Bracketed, Purpose, Is
  <2>5. file' \in [Files -> Versions]
    BY <1>1, <1>4 DEF Versions
  <2> QED
    BY <1>1, <1>2, <2>2, <2>4, <2>5, LotMoves
<1> QED
  BY <1>3, <1>4 DEF Edit

\* Nothing has begun.
LEMMA ToolsBegin == BundleInit => ToolInv
<1> SUFFICES ASSUME BundleInit PROVE ToolInv
  OBVIOUS
<1> DEFINE t == Stopped("none")
<1>1. t \in Tool /\ t.pc = "idle" /\ t.i = 1 /\ t.kind = "old"
  BY StoppedTool
<1>2. tool = [b \in Lots |-> t]
  BY DEF BundleInit
<1> HIDE DEF t
<1>3. tool \in [Lots -> Tool] /\ \A b \in Lots : tool[b] = t
  BY <1>1, <1>2
<1>4. file \in [Files -> Versions] /\ dir \in LinkDirectories /\ journal \in [Lots -> Journals]
  BY DEF BundleInit, Versions, Journals, LinkDirectories
<1>5. faults \in 0..MaxFaults /\ edits \in 0..MaxEdits
  BY UpdateAssumption DEF BundleInit
<1>6. \A b \in Lots : Bracketed(b) /\ Purpose(b)
  BY <1>1, <1>3 DEF Bracketed, Purpose, InBracket, Aimed
<1> QED
  BY <1>3, <1>4, <1>5, <1>6 DEF ToolInv, BundleTypeOK, Tool

\* What a step of the update does to the tools.
LEMMA StepOfTools ==
  ASSUME ToolInv, [LoginUpdateNext]_lvars
  PROVE  \/ /\ UNCHANGED <<file, journal, edits>> /\ faults' \in 0..MaxFaults
            /\ dir' \in LinkDirectories
            /\ \/ UNCHANGED tool
               \/ \E b \in Lots, r \in {"none", "failed"} : Stop(b, r)
               \/ tool' = [b \in Lots |-> Stopped("none")]
         \/ /\ UNCHANGED <<file, dir, journal, faults, edits>>
            /\ \E b \in Lots, op \in Operations, by \in {"alone", "coordinator"} :
                 CanStart(b) /\ Started(b, op, by)
         \/ \E b \in Lots : ToolStep(b)
         \/ LinkStep \/ Edit
<1>0. dir \in LinkDirectories /\ LeftBehind \in LinkDirectories
  BY DEF ToolInv, BundleTypeOK, LeftBehind, LinkDirectories
<1>1. faults \in 0..MaxFaults /\ ((Fault \/ NoFault) => faults' \in 0..MaxFaults)
  BY UpdateAssumption DEF ToolInv, BundleTypeOK, Fault, NoFault
<1> USE DEF toolState, bvars, NoFault, Fault
<1>2. ASSUME NEW op \in Operations, Run(op) PROVE UNCHANGED bvars
  BY <1>2 DEF Run
<1>3. CASE Preflight \/ DurableBarrier \/ OpenBatch \/ Undo \/ Close
  BY <1>0, <1>1, <1>3 DEF Preflight, DurableBarrier, OpenBatch, Undo, Close
<1>4. ASSUME NEW b \in Lots, Call(b)
      PROVE  /\ UNCHANGED <<file, dir, journal, faults, edits>>
             /\ \/ UNCHANGED tool
                \/ CanStart(b) /\ \E op \in Operations : Started(b, op, "coordinator")
  BY <1>4 DEF Call, Operations
<1>5. ASSUME NEW b \in Lots, Return(b) PROVE UNCHANGED bvars
  BY <1>5 DEF Return
<1>6. ASSUME NEW b \in Lots, RunAlone(b)
      PROVE  /\ UNCHANGED <<file, dir, journal, faults, edits>>
             /\ CanStart(b) /\ Started(b, "rollback", "alone")
  BY <1>6 DEF RunAlone
<1>7. CASE Timeout \/ KillCoordinator \/ PowerLoss
  BY <1>0, <1>1, <1>7 DEF Timeout, KillCoordinator, PowerLoss, Lots
<1>8. CASE Tools
  BY <1>8 DEF Tools, LinkStep
<1>9. CASE UNCHANGED lvars
  BY <1>0, <1>1, <1>9 DEF lvars
<1> QED
  BY <1>0, <1>1, <1>2, <1>3, <1>4, <1>5, <1>6, <1>7, <1>8, <1>9
     DEF LoginUpdateNext, Operations

\* Every step keeps the invariant of the tools.
LEMMA ToolsKeep == ToolInv /\ [LoginUpdateNext]_lvars => ToolInv'
<1> SUFFICES ASSUME ToolInv, [LoginUpdateNext]_lvars PROVE ToolInv'
  OBVIOUS
<1>1. CASE /\ UNCHANGED <<file, journal, edits, tool>> /\ faults' \in 0..MaxFaults
           /\ dir' \in LinkDirectories
  BY <1>1 DEF ToolInv, BundleTypeOK, Bracketed, Purpose, Is, Divergent, All
<1>2. ASSUME NEW b \in Lots, NEW r \in {"none", "failed"}, Stop(b, r),
             UNCHANGED <<file, journal, edits>>, faults' \in 0..MaxFaults,
             dir' \in LinkDirectories
      PROVE  ToolInv'
  BY <1>2, LotRests
<1>3. CASE /\ UNCHANGED <<file, journal, edits>> /\ faults' \in 0..MaxFaults
           /\ dir' \in LinkDirectories
           /\ tool' = [b \in Lots |-> Stopped("none")]
  <2> DEFINE t == Stopped("none")
  <2>1. t \in Tool /\ t.pc = "idle" /\ t.i = 1 /\ t.kind = "old"
    BY StoppedTool
  <2>2. tool' = [b \in Lots |-> t]
    BY <1>3
  <2> HIDE DEF t
  <2>3. tool' \in [Lots -> Tool] /\ \A b \in Lots : tool'[b] = t
    BY <2>1, <2>2
  <2>4. BundleTypeOK'
    BY <1>3, <2>3 DEF ToolInv, BundleTypeOK, Tool
  <2>5. (\A b \in Lots : Bracketed(b) /\ Purpose(b))'
    BY <2>1, <2>3 DEF Bracketed, Purpose, InBracket, Aimed
  <2> QED
    BY <2>4, <2>5 DEF ToolInv
<1>4. ASSUME NEW b \in Lots, NEW op \in Operations, NEW by \in {"alone", "coordinator"},
             Started(b, op, by), UNCHANGED <<file, dir, journal, faults, edits>>
      PROVE  ToolInv'
  BY <1>4, LotBegins
<1>5. ASSUME NEW b \in Lots, ToolStep(b) PROVE ToolInv'
  BY <1>5, ToolStepKeeps
<1>6. CASE LinkStep
  BY <1>6, DirectoryKeeps
<1>7. CASE Edit
  BY <1>7, EditKeeps
<1> QED
  BY <1>1, <1>2, <1>3, <1>4, <1>5, <1>6, <1>7, StepOfTools

-----------------------------------------------------------------------------
(* Each lot is replaced as AtomicUpdate says. *)

SameFiles(b) == \A f \in FilesOf(b) : file'[f] = file[f]

\* What a step may do to a lot: its files change only under an open journal or
\* by an edit, and its journal is closed only over files that were confirmed.
LEMMA EffectOnLot ==
  ASSUME ToolInv, [LoginUpdateNext]_lvars, NEW b \in Lots
  PROVE  \/ SameFiles(b) /\ journal'[b] = journal[b]
         \/ SameFiles(b) /\ journal'[b] \in Interrupted /\ ~ToolIdle(b)
         \/ journal[b] \in Interrupted /\ journal'[b] = journal[b] /\ ~ToolIdle(b)
         \/ /\ SameFiles(b) /\ journal[b] \in Interrupted /\ tool[b].pc = "settle"
            /\ Is(b, tool[b].kind) /\ journal'[b] = Verdict(tool[b].kind)
         \/ Divergent(b)' /\ journal'[b] = journal[b]
<1>1. /\ file \in [Files -> Versions] /\ dir \in LinkDirectories /\ journal \in [Lots -> Journals]
      /\ tool \in [Lots -> Tool] /\ BundleTypeOK
  BY DEF ToolInv, BundleTypeOK, Tool
<1>2. Bracketed(b) /\ Purpose(b)
  BY DEF ToolInv
<1>3. CASE UNCHANGED <<file, journal>>
  BY <1>3 DEF SameFiles
<1>4. ASSUME NEW c \in Lots, ToolStep(c), c # b
      PROVE  SameFiles(b) /\ journal'[b] = journal[b]
  <2>2. journal'[b] = journal[b]
    BY <1>1, <1>4 DEF ToolStep, Barrier, Decide, Open, Skip, SnapshotRefuses, Write, Confirm,
                      Settle, Recover, Recheck, Record
  <2>3. UNCHANGED file \/ Write(c)
    BY <1>4 DEF ToolStep, Barrier, Decide, Open, Skip, SnapshotRefuses, Confirm, Settle,
                Recover, Recheck
  <2>4. CASE Write(c)
    <3> DEFINE t == Target(c)
    <3>1. t \in FilesOf(c)
      BY <1>1, <2>4, TargetOfLot DEF ToolInv, Write
    <3>2. file' = [file EXCEPT ![t] = tool[c].kind] \/ UNCHANGED file
      BY <2>4 DEF Write
    <3> HIDE DEF t
    <3> QED
      BY <1>1, <1>4, <2>2, <3>1, <3>2, LotsApart DEF SameFiles
  <2> QED
    BY <2>2, <2>3, <2>4 DEF SameFiles
<1>5. CASE ToolStep(b)
  <2>1. CASE Write(b)
    BY <1>2, <2>1 DEF Write, Writing, Bracketed, InBracket, ToolIdle
  <2>2. CASE Settle(b)
    BY <1>1, <1>2, <2>2 DEF Settle, Record, Bracketed, InBracket, SameFiles, Verdict
  <2>3. CASE Open(b) \/ Recover(b)
    BY <1>1, <2>3 DEF Open, Recover, Record, SameFiles, Interrupted, ToolIdle
  <2>4. CASE \/ Barrier(b) \/ Decide(b) \/ Skip(b) \/ SnapshotRefuses(b) \/ Confirm(b)
             \/ Recheck(b)
    BY <2>4 DEF Barrier, Decide, Skip, SnapshotRefuses, Confirm, Recheck, SameFiles
  <2> QED
    BY <1>5, <2>1, <2>2, <2>3, <2>4 DEF ToolStep
<1>6. CASE LinkStep
  <2>1. CASE b = "user"
    BY <1>6, <2>1, LinkTool, LinkEffect
  <2>2. CASE b = "root"
    BY <1>6, <2>2, LinkEffect DEF SameFiles
  <2> QED
    BY <2>1, <2>2 DEF Lots
<1>7. CASE Edit
  <2>1. UNCHANGED journal
    BY <1>7 DEF Edit
  <2>2. CASE UNCHANGED file
    BY <2>1, <2>2 DEF SameFiles
  <2>3. ASSUME NEW f \in Files, file' = [file EXCEPT ![f] = "foreign"]
        PROVE  SameFiles(b) \/ Divergent(b)'
    <3>1. CASE f \in FilesOf(b)
      BY <1>1, <2>3, <3>1 DEF Divergent
    <3>2. CASE f \notin FilesOf(b)
      BY <1>1, <2>3, <3>2 DEF SameFiles, Files, Lots
    <3> QED
      BY <3>1, <3>2
  <2> QED
    BY <1>7, <2>1, <2>2, <2>3 DEF Edit
<1> QED
  BY <1>3, <1>4, <1>5, <1>6, <1>7, StepOfTools

\* The content of a lot, as the refinement reads it.
Content(b) == ContentOf(FilesOf(b))

\* A lot has a target, so that it is not both old and new.
LEMMA LotsInhabited ==
  ASSUME NEW b \in Lots
  PROVE  FilesOf(b) # {}
<1>1. CASE b = "root"
  <2>1. 1 \in 1..Len(Order(b))
    BY <1>1, UpdateAssumption DEF Order
  <2> QED
    BY <2>1 DEF FilesOf
<1> QED
  BY <1>1, UpdateAssumption DEF Lots

\* What was confirmed reads as the version that was published.
LEMMA ConfirmedContent ==
  ASSUME NEW b \in Lots, NEW kind \in {"old", "new"}, Is(b, kind)
  PROVE  Content(b) \in {kind, "foreign"}
BY LotsInhabited DEF Content, ContentOf, Is, Divergent, All, Lots

\* What AtomicUpdate lets a verdict v and a content c turn to.
Turns(v, c, vNext, cNext) ==
    \/ vNext = v /\ cNext = c
    \/ vNext = "updating" /\ cNext = c
    \/ v = "updating" /\ vNext = v
    \/ v = "updating" /\ c \in {"new", "foreign"} /\ vNext = "applied" /\ cNext = c
    \/ v = "updating" /\ c \in {"old", "foreign"} /\ vNext = "original" /\ cNext = c
    \/ cNext = "foreign" /\ vNext = v

\* A step of the update is, for each lot, a step of AtomicUpdate or none.
LEMMA LotRefines ==
  ASSUME ToolInv, [LoginUpdateNext]_lvars, NEW b \in Lots
  PROVE  Turns(VerdictOf(journal[b]), Content(b), VerdictOf(journal[b])', Content(b)')
<1>1. SameFiles(b) => Content(b)' = Content(b)
  BY DEF SameFiles, Content, ContentOf, Lots
<1>2. journal[b] \in Interrupted => VerdictOf(journal[b]) = "updating"
  BY DEF VerdictOf
<1>3. journal'[b] \in Interrupted => VerdictOf(journal[b])' = "updating"
  BY DEF VerdictOf
<1>4. journal'[b] = journal[b] => VerdictOf(journal[b])' = VerdictOf(journal[b])
  BY DEF VerdictOf
<1>5. Divergent(b)' => Content(b)' = "foreign"
  BY DEF Divergent, Content, ContentOf
<1>6. tool[b].kind \in {"old", "new"}
  BY DEF ToolInv, BundleTypeOK
<1>7. journal'[b] = Verdict(tool[b].kind) => VerdictOf(journal[b])' = Verdict(tool[b].kind)
  BY <1>6 DEF VerdictOf, Verdict, Interrupted
<1>8. Is(b, tool[b].kind) => Content(b) \in {tool[b].kind, "foreign"}
  BY <1>6, ConfirmedContent
<1>9. CASE SameFiles(b) /\ (journal'[b] = journal[b] \/ journal'[b] \in Interrupted)
  BY <1>1, <1>3, <1>4, <1>9 DEF Turns
<1>10. CASE journal[b] \in Interrupted /\ journal'[b] = journal[b]
  BY <1>2, <1>4, <1>10 DEF Turns
<1>11. CASE /\ SameFiles(b) /\ journal[b] \in Interrupted
            /\ Is(b, tool[b].kind) /\ journal'[b] = Verdict(tool[b].kind)
  BY <1>1, <1>2, <1>6, <1>7, <1>8, <1>11 DEF Verdict, Turns
<1>12. CASE Divergent(b)' /\ journal'[b] = journal[b]
  BY <1>4, <1>5, <1>12 DEF Turns
<1> QED
  BY <1>9, <1>10, <1>11, <1>12, EffectOnLot

\* A lot begins with the originals.
LEMMA LotBegan ==
  ASSUME BundleInit, NEW b \in Lots
  PROVE  VerdictOf(journal[b]) = "original" /\ Content(b) = "old"
<1>1. \A f \in FilesOf(b) : file[f] = "old"
  BY DEF BundleInit, Files, Lots
<1> QED
  BY <1>1, LotsInhabited DEF BundleInit, VerdictOf, Interrupted, Content, ContentOf

-----------------------------------------------------------------------------
(* The coordinator. *)

\* The steps of a tool that has been started.
LotStep(b) == ToolStep(b) \/ (b = "user" /\ LinkStep)

\* A stopped tool takes no step; one that runs keeps its operation, and reports
\* success only of what it has done.
LEMMA LotStepTool ==
  ASSUME ToolInv, NEW b \in Lots, LotStep(b), NEW kind, kind = AimOf(tool[b].op)
  PROVE  /\ ~ToolIdle(b) /\ \A c \in Lots \ {b} : tool'[c] = tool[c]
         /\ ~ToolIdle(b)' => tool'[b].op = tool[b].op
         /\ ToolIdle(b)' /\ tool'[b].result = "done" => LotDone(b, kind)'
<1>1. /\ journal \in [Lots -> Journals] /\ tool \in [Lots -> Tool]
      /\ Bracketed(b) /\ Purpose(b)
  BY DEF ToolInv, BundleTypeOK, Tool
<1> DEFINE Claim == /\ \A c \in Lots \ {b} : tool'[c] = tool[c]
                    /\ ~ToolIdle(b)' => tool'[b].op = tool[b].op
                    /\ ~(ToolIdle(b)' /\ tool'[b].result = "done")
<1>2. ASSUME Stop(b, "failed") PROVE Claim
  <2>1. tool' = [tool EXCEPT ![b] = Stopped("failed")]
    BY <1>2 DEF Stop
  <2>2. Stopped("failed").pc = "idle" /\ Stopped("failed").result = "failed"
    BY StoppedTool
  <2>3. tool'[b] = Stopped("failed") /\ \A c \in Lots \ {b} : tool'[c] = tool[c]
    BY <1>1, <2>1
  <2> QED
    BY <2>2, <2>3 DEF ToolIdle
<1>3. ASSUME NEW pc \in ToolPcs \ {"idle"}, tool' = [tool EXCEPT ![b].pc = pc] PROVE Claim
  <2>1. tool'[b].pc = pc /\ tool'[b].op = tool[b].op /\ \A c \in Lots \ {b} : tool'[c] = tool[c]
    BY <1>1, <1>3 DEF Tool
  <2> QED
    BY <2>1 DEF ToolIdle
<1>4. ASSUME Raise(b) PROVE Claim
  BY <1>2, <1>3, <1>4 DEF Raise, Goto, ToolPcs
<1>6. CASE Barrier(b)
  <2>1. Claim
    BY <1>2, <1>3, <1>6 DEF Barrier, Goto, ToolPcs
  <2> QED
    BY <1>6, <2>1 DEF Barrier, ToolIdle
<1>7. CASE Decide(b)
  <2>1. tool[b].pc = "decide"
    BY <1>7 DEF Decide
  <2>2. Claim
    <3>1. CASE Stop(b, "failed")
      BY <1>2, <3>1
    <3>3. CASE tool' = [tool EXCEPT ![b].pc = "journal", ![b].kind = "old", ![b].mode = "resume"]
      <4>1. tool'[b].pc = "journal" /\ tool'[b].op = tool[b].op
            /\ \A c \in Lots \ {b} : tool'[c] = tool[c]
        BY <1>1, <3>3 DEF Tool
      <4> QED
        BY <4>1 DEF ToolIdle
    <3>4. CASE tool' = [tool EXCEPT ![b].pc = "journal",
                           ![b].kind = IF tool[b].op = "apply" THEN "new" ELSE "old"]
      <4>1. tool'[b].pc = "journal" /\ tool'[b].op = tool[b].op
            /\ \A c \in Lots \ {b} : tool'[c] = tool[c]
        BY <1>1, <3>4 DEF Tool
      <4> QED
        BY <4>1 DEF ToolIdle
    <3> QED
      BY <1>7, <3>1, <3>3, <3>4 DEF Decide
  <2> QED
    BY <2>1, <2>2 DEF ToolIdle
<1>8. CASE Open(b)
  <2>1. Claim
    BY <1>2, <1>3, <1>8 DEF Open, Goto, ToolPcs
  <2> QED
    BY <1>8, <2>1 DEF Open, ToolIdle
<1>9. CASE Skip(b) \/ Write(b)
  <2>1. tool[b].pc = "write"
    BY <1>9 DEF Skip, Write, Writing
  <2>2. Raise(b) \/ tool' = [tool EXCEPT ![b].i = @ + 1]
    BY <1>9 DEF Skip, Write
  <2>3. CASE tool' = [tool EXCEPT ![b].i = @ + 1]
    <3>1. /\ tool'[b].pc = tool[b].pc /\ tool'[b].op = tool[b].op
          /\ \A c \in Lots \ {b} : tool'[c] = tool[c]
      BY <1>1, <2>3 DEF Tool
    <3> QED
      BY <2>1, <3>1 DEF ToolIdle
  <2> QED
    BY <1>4, <2>1, <2>2, <2>3 DEF ToolIdle
<1>10. CASE SnapshotRefuses(b)
  BY <1>4, <1>10 DEF SnapshotRefuses, Writing, ToolIdle
<1>11. CASE Confirm(b)
  <2>1. tool[b].pc = "write"
    BY <1>11 DEF Confirm, Published
  <2>2. Raise(b) \/ \E pc \in {"clean", "settle"} : tool' = [tool EXCEPT ![b].pc = pc]
    BY <1>11 DEF Confirm, Goto
  <2>3. Claim
    BY <1>3, <1>4, <2>2 DEF ToolPcs
  <2> QED
    BY <2>1, <2>3 DEF ToolIdle
<1>12. CASE Settle(b)
  <2>1. tool[b].pc = "settle"
    BY <1>12 DEF Settle
  <2>2. CASE Raise(b) \/ Stop(b, "failed")
    BY <1>2, <1>4, <2>1, <2>2 DEF ToolIdle
  <2>3. CASE /\ UNCHANGED <<file, dir>> /\ tool[b].mode = "try" /\ Stop(b, "done")
             /\ journal' = [journal EXCEPT ![b] = IF tool[b].kind = "new" THEN "applied"
                                                  ELSE "original"]
    <3>1. \A c \in Lots \ {b} : tool'[c] = tool[c]
      BY <1>1, <2>3 DEF Stop
    <3>2. Stopped("done").pc = "idle"
      BY StoppedTool
    <3>3. tool'[b].pc = "idle"
      BY <1>1, <2>3, <3>2 DEF Stop
    <3>4. tool[b].kind = AimOf(tool[b].op)
      BY <1>1, <2>1, <2>3 DEF Purpose, Aimed, AimOf, Tool
    <3>5. LotDone(b, kind)'
      BY <1>1, <2>1, <2>3, <3>4 DEF Bracketed, Is, Divergent, All, LotDone, Verdict
    <3> QED
      BY <2>1, <3>1, <3>3, <3>5 DEF ToolIdle
  <2> QED
    BY <1>12, <2>2, <2>3 DEF Settle, Record
<1>13. CASE Recover(b)
  <2>1. Claim
    BY <1>2, <1>3, <1>13 DEF Recover, Goto, ToolPcs
  <2> QED
    BY <1>13, <2>1 DEF Recover, ToolIdle
<1>14. CASE Recheck(b)
  <2> DEFINE seen == [f \in Files |-> IF f \in FilesOf(b) THEN file[f] ELSE "old"]
  <2>1. \/ Stop(b, "failed")
        \/ tool' = [tool EXCEPT ![b].pc = "write", ![b].kind = "old",
                                ![b].mode = "handler", ![b].i = 1, ![b].seen = seen]
    BY <1>14 DEF Recheck
  <2> HIDE DEF seen
  <2>2. CASE tool' = [tool EXCEPT ![b].pc = "write", ![b].kind = "old",
                                ![b].mode = "handler", ![b].i = 1, ![b].seen = seen]
    <3>1. /\ tool'[b].pc = "write" /\ tool'[b].op = tool[b].op
          /\ \A c \in Lots \ {b} : tool'[c] = tool[c]
      BY <1>1, <2>2 DEF Tool
    <3> QED
      BY <1>14, <3>1 DEF ToolIdle, Recheck
  <2> QED
    BY <1>2, <1>14, <2>1, <2>2 DEF ToolIdle, Recheck
<1>15. CASE b = "user" /\ LinkStep
  BY <1>15, LinkTool DEF Lots
<1> QED
  BY <1>6, <1>7, <1>8, <1>9, <1>10, <1>11, <1>12, <1>13, <1>14, <1>15 DEF LotStep, ToolStep

\* What was done stays done while its tool is stopped, but for edits.
LEMMA DoneStays ==
  ASSUME ToolInv, [LoginUpdateNext]_lvars, NEW b \in Lots, NEW kind, ToolIdle(b), LotDone(b, kind)
  PROVE  LotDone(b, kind)'
<1>1. (SameFiles(b) \/ Divergent(b)') /\ journal'[b] = journal[b]
  BY EffectOnLot DEF ToolIdle
<1> QED
  BY <1>1 DEF LotDone, Is, SameFiles, Divergent, All

\* What is on the coordinator's list.
LEMMA TodoLists ==
  /\ LeftOn(<<>>) = {} /\ LeftOn(<<"user">>) = {"user"} /\ LeftOn(<<"root">>) = {"root"}
  /\ LeftOn(Forward) = Lots /\ LeftOn(Backward) = Lots
  /\ Head(Forward) = "user" /\ Tail(Forward) = <<"root">>
  /\ Head(Backward) = "root" /\ Tail(Backward) = <<"user">>
  /\ Head(<<"user">>) = "user" /\ Head(<<"root">>) = "root"
  /\ Tail(<<"user">>) = <<>> /\ Tail(<<"root">>) = <<>>
  /\ Forward # <<>> /\ Backward # <<>> /\ <<"user">> # <<>> /\ <<"root">> # <<>>
  /\ Forward # Backward /\ <<"user">> # <<"root">>
<1>1. 1..0 = {} /\ 1..1 = {1} /\ 1..2 = {1, 2}
  OBVIOUS
<1>2. LeftOn(<<>>) = {} /\ LeftOn(<<"user">>) = {"user"} /\ LeftOn(<<"root">>) = {"root"}
  BY <1>1 DEF LeftOn
<1>3. LeftOn(Forward) = Lots /\ LeftOn(Backward) = Lots
  BY <1>1 DEF LeftOn, Forward, Backward, Lots
<1>4. /\ Head(Forward) = "user" /\ Tail(Forward) = <<"root">>
      /\ Head(Backward) = "root" /\ Tail(Backward) = <<"user">>
      /\ Head(<<"user">>) = "user" /\ Head(<<"root">>) = "root"
  BY DEF Forward, Backward
<1>5. Tail(<<"user">>) = <<>> /\ Tail(<<"root">>) = <<>>
  OBVIOUS
<1>6. /\ Forward # <<>> /\ Backward # <<>> /\ <<"user">> # <<>> /\ <<"root">> # <<>>
      /\ Forward # Backward /\ <<"user">> # <<"root">>
  BY DEF Forward, Backward
<1> QED
  BY <1>2, <1>3, <1>4, <1>5, <1>6

\* A coordinator that calls a lot has it at the head of its list.
LEMMA HeadOfList ==
  ASSUME NEW todo \in Todos, todo # <<>>
  PROVE  /\ Head(todo) \in Lots /\ Tail(todo) \in Todos
         /\ LeftOn(todo) = {Head(todo)} \cup LeftOn(Tail(todo))
BY TodoLists DEF Todos, Lots

\* Every step keeps what the coordinator's journal and its list say together.
LEMMA CoordKeeps == CoordInv /\ [LoginUpdateNext]_lvars => CoordInv'
<1> SUFFICES ASSUME CoordInv, [LoginUpdateNext]_lvars PROVE CoordInv'
  OBVIOUS
<1>0. /\ batch \in Journals /\ alone \in Nat
      /\ coord \in [pc : CoordPcs, op : Operations, todo : Todos, undo : BOOLEAN,
                    errors : BOOLEAN]
      /\ Calling
  BY DEF CoordInv, CoordTypeOK
<1>1. ASSUME coord' = NoCoord, batch' \in Journals, alone' \in Nat PROVE CoordInv'
  BY <1>1 DEF CoordInv, CoordTypeOK, Calling, NoCoord, CoordPcs, Operations, Todos
<1>2. CASE UNCHANGED <<batch, coord, alone>>
  BY <1>0, <1>2 DEF CoordInv, CoordTypeOK, Calling
<1>3. ASSUME NEW op \in Operations, Run(op) PROVE CoordInv'
  BY <1>0, <1>3 DEF Run, CoordInv, CoordTypeOK, Calling, NoCoord, CoordPcs, Operations, Todos
<1>4. CASE Preflight \/ DurableBarrier
  <2>1. CASE Leave
    BY <1>0, <1>1, <1>4, <2>1 DEF Preflight, DurableBarrier, Leave
  <2>2. CASE Advance("barrier") \/ Advance("open")
    BY <1>0, <1>4, <2>2 DEF Preflight, DurableBarrier, Advance, CoordInv, CoordTypeOK, Calling,
       CoordPcs
  <2> QED
    BY <1>4, <2>1, <2>2 DEF Preflight, DurableBarrier, Lots
<1>5. CASE OpenBatch \/ Undo
  <2>1. CASE Leave
    BY <1>0, <1>1, <1>5, <2>1 DEF OpenBatch, Undo, Leave, Journals
  <2>2. CASE Advance("undo") /\ UNCHANGED batch
    BY <1>0, <1>5, <2>2 DEF OpenBatch, Undo, Advance, CoordInv, CoordTypeOK, Calling, CoordPcs
  <2>3. CASE /\ coord.pc = "open" /\ batch' = "applying"
             /\ coord' = [coord EXCEPT !.pc = "call", !.todo = Forward]
    BY <1>0, <1>5, <2>3 DEF OpenBatch, Undo, CoordInv, CoordTypeOK, Calling, CoordPcs, Journals,
       Interrupted, Todos
  <2>4. CASE /\ batch' = "rolling-back"
             /\ coord' = [coord EXCEPT !.pc = "call", !.todo = Backward, !.undo = TRUE]
    BY <1>0, <1>5, <2>4 DEF OpenBatch, Undo, CoordInv, CoordTypeOK, Calling, CoordPcs, Journals,
       Interrupted, Todos
  <2> QED
    BY <1>5, <2>1, <2>2, <2>3, <2>4 DEF OpenBatch, Undo
<1>6. CASE Close
  BY <1>0, <1>1, <1>6 DEF Close, Leave, Advance, CoordInv, CoordTypeOK, Calling, CoordPcs, Journals
<1>7. ASSUME coord.pc \in {"call", "wait"}, coord.todo # <<>>, UNCHANGED <<batch, alone>>,
             Failed \/ coord' = [coord EXCEPT !.pc = "call", !.todo = Tail(@)]
      PROVE  CoordInv'
  <2> DEFINE rest == Tail(coord.todo)
  <2>1. /\ rest \in Todos
        /\ rest \in IF coord.undo THEN {<<"user">>, <<>>} ELSE {<<"root">>, <<>>}
    BY <1>0, <1>7, TodoLists DEF Calling, Todos
  <2>2. \/ coord.undo /\ coord' = [coord EXCEPT !.pc = "call", !.todo = rest, !.errors = TRUE]
        \/ ~coord.undo /\ coord' = [coord EXCEPT !.pc = "undo", !.todo = <<>>]
        \/ coord' = [coord EXCEPT !.pc = "call", !.todo = rest]
    BY <1>7 DEF Failed
  <2> HIDE DEF rest
  <2>3. CASE coord.undo /\ coord' = [coord EXCEPT !.pc = "call", !.todo = rest, !.errors = TRUE]
    BY <1>0, <1>7, <2>1, <2>3 DEF CoordInv, CoordTypeOK, Calling, CoordPcs
  <2>4. CASE ~coord.undo /\ coord' = [coord EXCEPT !.pc = "undo", !.todo = <<>>]
    <3>1. <<>> \in Todos
      BY DEF Todos
    <3> QED
      BY <1>0, <1>7, <2>4, <3>1 DEF CoordInv, CoordTypeOK, Calling, CoordPcs
  <2>5. CASE coord' = [coord EXCEPT !.pc = "call", !.todo = rest]
    BY <1>0, <1>7, <2>1, <2>5 DEF CoordInv, CoordTypeOK, Calling, CoordPcs
  <2> QED
    BY <2>2, <2>3, <2>4, <2>5
<1>8. ASSUME NEW b \in Lots, Call(b) PROVE CoordInv'
  <2>1. CASE Failed
    BY <1>7, <1>8, <2>1 DEF Call
  <2>2. CASE Advance("wait")
    BY <1>0, <1>8, <2>2 DEF Call, Advance, CoordInv, CoordTypeOK, Calling, CoordPcs
  <2> QED
    BY <1>8, <2>1, <2>2 DEF Call
<1>9. ASSUME NEW b \in Lots, Return(b) PROVE CoordInv'
  BY <1>0, <1>7, <1>9 DEF Return, Calling
<1>10. ASSUME NEW b \in Lots, RunAlone(b) PROVE CoordInv'
  BY <1>0, <1>10 DEF RunAlone, CoordInv, CoordTypeOK, Calling
<1>11. CASE Timeout \/ KillCoordinator \/ PowerLoss
  BY <1>0, <1>1, <1>2, <1>11 DEF Timeout, KillCoordinator, PowerLoss, Leave
<1> QED
  BY <1>2, <1>3, <1>4, <1>5, <1>6, <1>8, <1>9, <1>10, <1>11 DEF LoginUpdateNext, Tools, lvars

\* Without edits there are no foreign files.
LEMMA ForeignKeeps == ToolInv /\ NoForeign /\ [LoginUpdateNext]_lvars => NoForeign'
<1> SUFFICES ASSUME ToolInv, NoForeign, [LoginUpdateNext]_lvars, edits' = MaxEdits,
                    NEW f \in Files
             PROVE  file'[f] # "foreign"
  BY DEF NoForeign
<1>1. edits \in 0..MaxEdits /\ file \in [Files -> Versions] /\ tool \in [Lots -> Tool]
  BY DEF ToolInv, BundleTypeOK, Tool
<1>2. ~Edit
  BY <1>1, UpdateAssumption DEF Edit
<1>3. ASSUME NEW b \in Lots, ToolStep(b)
      PROVE  /\ edits' = edits
             /\ file' = file \/ \E kind \in {"old", "new"} : \E t : file' = [file EXCEPT ![t] = kind]
  <2>1. tool[b].kind \in {"old", "new"}
    BY <1>1 DEF Tool
  <2>2. CASE Write(b)
    <3>1. edits' = edits /\ (file' = file \/ file' = [file EXCEPT ![Target(b)] = tool[b].kind])
      BY <2>2 DEF Write
    <3> QED
      BY <2>1, <3>1
  <2> QED
    BY <1>3, <2>2 DEF ToolStep, Barrier, Decide, Open, Skip, SnapshotRefuses, Confirm,
       Settle, Recover, Recheck
<1>4. /\ edits' = edits
      /\ file' = file \/ \E kind \in {"old", "new"} : \E t : file' = [file EXCEPT ![t] = kind]
  BY <1>2, <1>3, StepOfTools DEF LinkStep, MakeDirectory, MakeTemporary, PlaceLink, Clean
<1> QED
  BY <1>1, <1>4 DEF NoForeign

\* While no tool is run alone, only the coordinator's tool runs.
LEMMA ExclusiveKeeps ==
  ASSUME ToolInv, CoordInv, Exclusive, [LoginUpdateNext]_lvars, alone' = 0, alone = 0
  PROVE  Exclusive'
<1>0. /\ batch \in Journals /\ Calling
      /\ coord \in [pc : CoordPcs, op : Operations, todo : Todos, undo : BOOLEAN,
                    errors : BOOLEAN]
      /\ tool \in [Lots -> Tool] /\ "root" \in Lots /\ "user" \in Lots /\ Lots = {"root", "user"}
  BY DEF CoordInv, CoordTypeOK, ToolInv, BundleTypeOK, Tool, Lots
<1>1. ASSUME ToolIdle("root")', ToolIdle("user")' \/ UNCHANGED batch, ToolIdle("user")' \/ ~ToolIdle("user"),
             coord'.pc \in {"idle", "preflight", "barrier"}
      PROVE  Exclusive'
  BY <1>1 DEF Exclusive
<1>2. ASSUME ToolIdle("root")', ToolIdle("user")', coord'.pc # "wait" PROVE Exclusive'
  BY <1>2 DEF Exclusive
<1>3. CASE UNCHANGED <<batch, coord, tool>>
  BY <1>3 DEF Exclusive, ToolIdle, Goal
<1>4. ASSUME NEW op \in Operations, Run(op) PROVE Exclusive'
  BY <1>0, <1>1, <1>4 DEF Run, LockFree, bvars, ToolIdle, NoCoord
<1>5. CASE Preflight
  BY <1>0, <1>1, <1>5 DEF Preflight, bvars, ToolIdle, NoCoord, Leave, Advance, Exclusive
<1>6. CASE DurableBarrier
  BY <1>0, <1>1, <1>2, <1>6
  DEF DurableBarrier, toolState, CanStart, ToolIdle, NoCoord, Leave, Advance, Exclusive
<1>7. CASE OpenBatch \/ Undo \/ Close
  BY <1>0, <1>2, <1>7
  DEF OpenBatch, Undo, Close, toolState, ToolIdle, NoCoord, Leave, Advance, Exclusive
<1>8. ASSUME NEW b \in Lots, Call(b) PROVE Exclusive'
  <2>1. ToolIdle("root") /\ ToolIdle("user")
    BY <1>8 DEF Call, Exclusive
  <2>2. CASE Failed /\ UNCHANGED tool
    BY <1>0, <1>2, <2>1, <2>2 DEF Failed, ToolIdle
  <2>3. CASE Started(b, IF coord.undo THEN "rollback" ELSE "apply", "coordinator") /\ Advance("wait")
    <3>1. BundleTypeOK /\ Goal \in Operations
      BY DEF ToolInv, Goal, Operations
    <3>2. Started(b, Goal, "coordinator")
      BY <2>3 DEF Goal
    <3>3. tool'[b].op = Goal /\ \A c \in Lots \ {b} : tool'[c] = tool[c]
      BY <3>1, <3>2, StartedTool
    <3>4. /\ coord'.pc = "wait" /\ coord'.todo = coord.todo /\ coord'.undo = coord.undo
          /\ Head(coord.todo) = b /\ batch' = batch /\ batch \in Interrupted
      BY <1>0, <1>8, <2>3 DEF Advance, Call, Calling
    <3>5. ASSUME NEW c \in Lots, ~ToolIdle(c)' PROVE c = b
      BY <1>0, <2>1, <3>3, <3>5 DEF ToolIdle
    <3>6. Goal' = Goal
      BY <3>4 DEF Goal
    <3> QED
      BY <1>0, <3>3, <3>4, <3>5, <3>6 DEF Exclusive
  <2> QED
    BY <1>8, <2>2, <2>3 DEF Call
<1>9. ASSUME NEW b \in Lots, Return(b) PROVE Exclusive'
  <2>1. UNCHANGED <<tool, batch>> /\ coord.pc = "wait" /\ Head(coord.todo) = b /\ ToolIdle(b)
    BY <1>9 DEF Return, bvars, ToolIdle
  <2>2. ToolIdle("root") /\ ToolIdle("user")
    BY <1>0, <2>1 DEF Exclusive
  <2>3. coord'.pc # "wait"
    BY <1>0, <1>9 DEF Return, Failed
  <2> QED
    BY <1>2, <2>1, <2>2, <2>3 DEF ToolIdle
<1>10. ASSUME NEW b \in Lots, RunAlone(b) PROVE FALSE
  BY <1>10 DEF RunAlone
<1>11. CASE Timeout
  <2>1. tool' = [tool EXCEPT !["user"] = Stopped("failed")] /\ UNCHANGED <<batch, coord>>
    BY <1>11 DEF Timeout, Stop
  <2>2. Stopped("failed").pc = "idle"
    BY StoppedTool
  <2>3. tool'["user"] = Stopped("failed") /\ tool'["root"] = tool["root"]
    BY <1>0, <2>1
  <2> QED
    BY <1>0, <2>1, <2>2, <2>3 DEF Exclusive, ToolIdle, Goal
<1>12. CASE KillCoordinator
  <2>1. Stopped("none").pc = "idle" /\ coord'.pc = "idle" /\ UNCHANGED batch
    BY <1>12, StoppedTool DEF KillCoordinator, Leave, NoCoord
  <2>2. ToolIdle("root")' /\ tool'["user"] = tool["user"]
    BY <1>0, <1>12, <2>1 DEF KillCoordinator, Stop, ToolIdle
  <2> QED
    BY <1>1, <2>1, <2>2 DEF ToolIdle
<1>13. CASE PowerLoss
  <2>1. Stopped("none").pc = "idle" /\ coord'.pc = "idle"
    BY <1>13, StoppedTool DEF PowerLoss, Leave, NoCoord
  <2>2. ToolIdle("root")' /\ ToolIdle("user")'
    BY <1>0, <1>13, <2>1 DEF PowerLoss, ToolIdle
  <2> QED
    BY <1>2, <2>1, <2>2
<1>14. ASSUME NEW b \in Lots, LotStep(b), UNCHANGED <<batch, coord>> PROVE Exclusive'
  <2>1. /\ ~ToolIdle(b) /\ \A c \in Lots \ {b} : tool'[c] = tool[c]
        /\ ~ToolIdle(b)' => tool'[b].op = tool[b].op
    BY <1>14, LotStepTool
  <2>2. coord.pc = "wait" => tool[b].op = Goal /\ Head(coord.todo) = b
    BY <2>1 DEF Exclusive
  <2>3. coord.pc # "wait" => b = "user" /\ coord.pc \notin {"open", "undo", "call"}
    BY <1>0, <2>1 DEF Exclusive
  <2>4. ToolIdle("user")' \/ batch \in Interrupted
    BY <1>0, <2>1 DEF Exclusive, ToolIdle
  <2>5. Goal' = Goal
    BY <1>14 DEF Goal
  <2>6. CASE coord.pc = "wait"
    <3>1. ASSUME NEW c \in Lots, ~ToolIdle(c)' PROVE c = b
      BY <2>1, <2>2, <2>6, <3>1 DEF Exclusive, ToolIdle
    <3> QED
      BY <1>14, <2>1, <2>2, <2>4, <2>5, <2>6, <3>1 DEF Exclusive
  <2>7. CASE coord.pc # "wait"
    <3>1. ToolIdle("root")'
      BY <1>0, <2>1, <2>3, <2>7 DEF Exclusive, ToolIdle
    <3> QED
      BY <1>14, <2>3, <2>4, <2>7, <3>1 DEF Exclusive
  <2> QED
    BY <2>6, <2>7
<1>15. CASE Tools
  <2>1. CASE Edit
    BY <1>3, <1>15, <2>1 DEF Edit, Tools
  <2> QED
    BY <1>0, <1>14, <1>15, <2>1 DEF Tools, LotStep, LinkStep
<1> QED
  BY <1>3, <1>4, <1>5, <1>6, <1>7, <1>8, <1>9, <1>10, <1>11, <1>12, <1>13, <1>15
  DEF LoginUpdateNext, lvars, bvars

\* What is off the coordinator's list is done, and stays so but for edits.
LEMMA ProgressKeeps ==
  ASSUME ToolInv, CoordInv, Exclusive, Progress, [LoginUpdateNext]_lvars, alone' = 0, alone = 0
  PROVE  Progress'
<1>0. /\ Calling /\ tool \in [Lots -> Tool]
      /\ coord \in [pc : CoordPcs, op : Operations, todo : Todos, undo : BOOLEAN,
                    errors : BOOLEAN]
  BY DEF CoordInv, CoordTypeOK, ToolInv, BundleTypeOK, Tool
<1>1. ASSUME coord'.pc \notin {"call", "wait"} PROVE Progress'
  BY <1>1 DEF Progress
<1>2. ASSUME NEW c \in Lots, coord.pc \in {"call", "wait"}, coord.todo = <<>> \/ c # Head(coord.todo)
      PROVE  ToolIdle(c)
  BY <1>0, <1>2 DEF Exclusive, Calling, Lots
<1>3. ASSUME NEW c \in Lots \ LeftOn(coord.todo), coord.pc \in {"call", "wait"}, ~coord.errors
      PROVE  LotDone(c, AimOf(Goal)) /\ ToolIdle(c)
  <2>1. LotDone(c, AimOf(Goal))
    BY <1>3 DEF Progress
  <2>2. coord.todo = <<>> \/ c # Head(coord.todo)
    BY <1>0, <1>3, HeadOfList
  <2> QED
    BY <1>2, <1>3, <2>1, <2>2
<1>4. ASSUME NEW c \in Lots \ LeftOn(coord.todo), coord.pc \in {"call", "wait"}, ~coord.errors,
             NEW kind, kind = AimOf(Goal)
      PROVE  LotDone(c, kind)'
  <2>1. LotDone(c, kind) /\ ToolIdle(c)
    BY <1>3, <1>4
  <2> QED
    BY <2>1, DoneStays
<1>5. ASSUME coord'.pc \in {"call", "wait"}, coord.pc \in {"call", "wait"},
             coord'.undo = coord.undo, coord'.errors = coord.errors,
             coord'.todo = coord.todo,
             ASSUME NEW c \in Lots, NEW kind, kind = AimOf(Goal), coord'.pc = "wait",
                    c = Head(coord.todo), ToolIdle(c)', tool'[c].result = "done"
             PROVE  LotDone(c, kind)'
      PROVE  Progress'
  <2>1. PICK kind : kind = AimOf(Goal)
    OBVIOUS
  <2>2. AimOf(Goal)' = kind
    BY <1>5, <2>1 DEF Goal
  <2>3. ASSUME NEW c \in Lots, coord'.pc = "wait", c = Head(coord.todo), ToolIdle(c)',
               tool'[c].result = "done"
        PROVE  LotDone(c, kind)'
    BY <1>5, <2>1, <2>3
  <2>4. ASSUME NEW c \in Lots \ LeftOn(coord.todo), ~coord.errors PROVE LotDone(c, kind)'
    BY <1>4, <1>5, <2>1, <2>4
  <2>5. LeftOn(coord'.todo) = LeftOn(coord.todo)
    BY <1>5
  <2> QED
    BY <1>5, <2>2, <2>3, <2>4, <2>5 DEF Progress
<1>6. ASSUME coord.pc \in {"call", "wait"}, Failed PROVE Progress'
  <2>1. coord'.errors \/ coord'.pc = "undo"
    BY <1>0, <1>6 DEF Failed
  <2>2. coord'.pc # "wait"
    BY <1>0, <1>6 DEF Failed
  <2> QED
    BY <2>1, <2>2 DEF Progress
<1>7. ASSUME coord'.pc = "call", coord'.todo \in {Forward, Backward} PROVE Progress'
  BY <1>7, TodoLists DEF Progress
<1>8. CASE UNCHANGED <<coord, tool>>
  <2>1. CASE coord.pc \in {"call", "wait"}
    <3>1. ASSUME NEW c \in Lots, NEW kind, kind = AimOf(Goal), coord.pc = "wait",
                 c = Head(coord.todo), ToolIdle(c)', tool'[c].result = "done"
          PROVE  LotDone(c, kind)'
      <4>1. ToolIdle(c) /\ LotDone(c, kind)
        BY <1>8, <3>1 DEF Progress, ToolIdle
      <4> QED
        BY <4>1, DoneStays
    <3> QED
      BY <1>5, <1>8, <2>1, <3>1
  <2> QED
    BY <1>1, <1>8, <2>1
<1>9. ASSUME NEW op \in Operations, Run(op) PROVE Progress'
  BY <1>1, <1>9 DEF Run, NoCoord
<1>10. CASE Preflight \/ DurableBarrier
  BY <1>0, <1>1, <1>10 DEF Preflight, DurableBarrier, Leave, Advance, NoCoord, Lots
<1>11. CASE OpenBatch \/ Undo \/ Close
  <2>1. \/ Leave \/ Advance("undo")
        \/ coord' = [coord EXCEPT !.pc = "call", !.todo = Forward]
        \/ coord' = [coord EXCEPT !.pc = "call", !.todo = Backward, !.undo = TRUE]
    BY <1>11 DEF OpenBatch, Undo, Close
  <2>2. CASE Leave \/ Advance("undo")
    BY <1>0, <1>1, <2>2 DEF Leave, Advance, NoCoord
  <2>3. CASE coord' = [coord EXCEPT !.pc = "call", !.todo = Forward]
    BY <1>0, <1>7, <2>3
  <2>4. CASE coord' = [coord EXCEPT !.pc = "call", !.todo = Backward, !.undo = TRUE]
    BY <1>0, <1>7, <2>4
  <2> QED
    BY <2>1, <2>2, <2>3, <2>4
<1>12. ASSUME NEW b \in Lots, Call(b) PROVE Progress'
  <2>1. CASE Failed
    BY <1>6, <1>12, <2>1 DEF Call
  <2>2. CASE Started(b, Goal, "coordinator") /\ Advance("wait")
    <3>1. BundleTypeOK /\ Goal \in Operations
      BY DEF ToolInv, Goal, Operations
    <3>2. tool'[b].pc = "barrier"
      BY <2>2, <3>1, StartedTool
    <3>3. /\ coord'.pc = "wait" /\ coord'.todo = coord.todo /\ coord'.undo = coord.undo
          /\ coord'.errors = coord.errors /\ Head(coord.todo) = b /\ coord.pc = "call"
      BY <1>0, <1>12, <2>2 DEF Advance, Call
    <3> QED
      BY <1>5, <3>2, <3>3 DEF ToolIdle
  <2> QED
    BY <1>12, <2>1, <2>2 DEF Call, Goal
<1>13. ASSUME NEW b \in Lots, Return(b) PROVE Progress'
  <2>1. /\ coord.pc = "wait" /\ Head(coord.todo) = b /\ ToolIdle(b)
    BY <1>13 DEF Return, ToolIdle
  <2>2. CASE Failed
    BY <1>6, <2>1, <2>2
  <2>3. CASE tool[b].result = "done" /\ coord' = [coord EXCEPT !.pc = "call", !.todo = Tail(@)]
    <3> DEFINE rest == Tail(coord.todo)
    <3>1. LeftOn(coord.todo) = {b} \cup LeftOn(rest)
      BY <1>0, <2>1, HeadOfList DEF Calling
    <3>2. PICK kind : kind = AimOf(Goal)
      OBVIOUS
    <3>3. /\ coord'.pc = "call" /\ coord'.todo = rest /\ coord'.errors = coord.errors
          /\ coord'.undo = coord.undo
      BY <1>0, <2>3
    <3>4. LotDone(b, kind)'
      <4>1. LotDone(b, kind)
        BY <2>1, <2>3, <3>2 DEF Progress
      <4> QED
        BY <2>1, <4>1, DoneStays
    <3> HIDE DEF rest
    <3>5. ASSUME NEW c \in Lots \ LeftOn(rest), ~coord.errors PROVE LotDone(c, kind)'
      BY <1>4, <2>1, <3>1, <3>2, <3>4, <3>5
    <3>6. AimOf(Goal)' = kind
      BY <3>2, <3>3 DEF Goal
    <3>7. LeftOn(coord'.todo) = LeftOn(rest)
      BY <3>3
    <3> QED
      BY <3>3, <3>5, <3>6, <3>7 DEF Progress
  <2> QED
    BY <1>13, <2>2, <2>3 DEF Return
<1>14. ASSUME NEW b \in Lots, RunAlone(b) PROVE FALSE
  BY <1>14 DEF RunAlone
<1>15. CASE Timeout
  <2>1. /\ tool' = [tool EXCEPT !["user"] = Stopped("failed")] /\ UNCHANGED coord
        /\ coord.pc = "wait" /\ Head(coord.todo) = "user"
    BY <1>15 DEF Timeout, Stop
  <2>2. Stopped("failed").result = "failed"
    BY StoppedTool
  <2>3. tool'["user"].result = "failed"
    BY <1>0, <2>1, <2>2 DEF Lots
  <2> QED
    BY <1>5, <2>1, <2>3
<1>16. CASE KillCoordinator \/ PowerLoss
  BY <1>1, <1>16 DEF KillCoordinator, PowerLoss, Leave, NoCoord
<1>17. ASSUME NEW b \in Lots, LotStep(b), UNCHANGED coord PROVE Progress'
  <2>1. ~ToolIdle(b)
    BY <1>17, LotStepTool
  <2>2. CASE coord.pc = "wait"
    <3>1. Head(coord.todo) = b /\ tool[b].op = Goal
      BY <2>1, <2>2 DEF Exclusive
    <3>2. ASSUME NEW kind, kind = AimOf(Goal), ToolIdle(b)', tool'[b].result = "done"
          PROVE  LotDone(b, kind)'
      <4>1. kind = AimOf(tool[b].op)
        BY <3>1, <3>2
      <4> QED
        BY <1>17, <3>2, <4>1, LotStepTool
    <3> QED
      BY <1>5, <1>17, <2>2, <3>1, <3>2
  <2>3. CASE coord.pc = "call"
    BY <2>1, <2>3 DEF Exclusive, Lots
  <2> QED
    BY <1>1, <1>17, <2>2, <2>3
<1>18. CASE Tools
  <2>1. CASE Edit
    BY <1>8, <1>18, <2>1 DEF Edit, Tools
  <2> QED
    BY <1>17, <1>18, <2>1 DEF Tools, LotStep, LinkStep, Lots
<1> QED
  BY <1>8, <1>9, <1>10, <1>11, <1>12, <1>13, <1>14, <1>15, <1>16, <1>18
  DEF LoginUpdateNext, lvars, bvars

\* The inductive invariant.
LEMMA InvariantHolds == LoginUpdateSpec => []UpdateInv
<1>1. LoginUpdateInit => UpdateInv
  <2> SUFFICES ASSUME LoginUpdateInit PROVE UpdateInv
    OBVIOUS
  <2>1. ToolInv
    BY ToolsBegin DEF LoginUpdateInit
  <2>2. CoordInv
    BY DEF LoginUpdateInit, CoordInv, CoordTypeOK, Calling, NoCoord, CoordPcs, Operations,
       Todos, Journals
  <2>3. NoForeign
    BY DEF LoginUpdateInit, BundleInit, NoForeign
  <2>4. \A b \in Lots : ToolIdle(b)
    BY StoppedTool DEF LoginUpdateInit, BundleInit, ToolIdle
  <2>5. Exclusive /\ Progress
    BY <2>4 DEF LoginUpdateInit, NoCoord, Exclusive, Progress, Lots
  <2> QED
    BY <2>1, <2>2, <2>3, <2>5 DEF UpdateInv
<1>2. UpdateInv /\ [LoginUpdateNext]_lvars => UpdateInv'
  <2> SUFFICES ASSUME UpdateInv, [LoginUpdateNext]_lvars PROVE UpdateInv'
    OBVIOUS
  <2>1. ToolInv' /\ CoordInv' /\ NoForeign'
    BY ToolsKeep, CoordKeeps, ForeignKeeps DEF UpdateInv
  <2>2. ASSUME alone' = 0 PROVE alone = 0
    <3>1. alone \in Nat
      BY DEF UpdateInv, CoordInv, CoordTypeOK
    <3>2. alone' = alone \/ alone' = alone + 1
      BY DEF LoginUpdateNext, Run, Preflight, DurableBarrier, OpenBatch, Undo, Close, Call,
         Return, RunAlone, Timeout, KillCoordinator, PowerLoss, Tools, lvars
    <3> QED
      BY <2>2, <3>1, <3>2
  <2>3. alone' = 0 => Exclusive' /\ Progress'
    BY <2>2, ExclusiveKeeps, ProgressKeeps DEF UpdateInv
  <2> QED
    BY <2>1, <2>3 DEF UpdateInv
<1> QED
  BY <1>1, <1>2, PTL DEF LoginUpdateSpec

-----------------------------------------------------------------------------
(* The link's directory, when nothing fails and nobody edits. *)

Unharmed == faults = MaxFaults /\ edits = MaxEdits

DirInv ==
    Unharmed =>
        /\ dir # "kept"
        /\ journal["user"] = "original" => dir = "absent"
        /\ tool["user"].pc = "settle" /\ tool["user"].kind = "old" => dir = "absent"

\* A step that is no failure and no edit touches the directory, the lot's journal
\* and its tool only in the steps of that tool, and in its start.
LEMMA QuietStep ==
  ASSUME ToolInv, [LoginUpdateNext]_lvars, Unharmed'
  PROVE  /\ Unharmed /\ NoFault
         /\ \/ /\ dir' = dir /\ journal'["user"] = journal["user"]
               /\ tool'["user"] = tool["user"] \/ tool'["user"].pc # "settle"
            \/ ToolStep("user") \/ LinkStep
<1>1. /\ faults \in 0..MaxFaults /\ edits \in 0..MaxEdits /\ MaxFaults \in Nat /\ MaxEdits \in Nat
      /\ journal \in [Lots -> Journals] /\ tool \in [Lots -> Tool] /\ BundleTypeOK
      /\ "user" \in Lots /\ "root" \in Lots
  BY UpdateAssumption DEF ToolInv, BundleTypeOK, Tool, Lots
<1>2. ~Fault
  BY <1>1 DEF Fault, Unharmed
<1>3. ~Edit
  BY <1>1 DEF Edit, Unharmed
<1>4. CASE UNCHANGED bvars
  BY <1>1, <1>4 DEF bvars, Unharmed, NoFault
<1>5. ASSUME NEW op \in Operations, Run(op) PROVE UNCHANGED bvars
  BY <1>5 DEF Run
<1>6. CASE Preflight \/ DurableBarrier \/ OpenBatch \/ Undo \/ Close
  <2>1. UNCHANGED bvars
    BY <1>2, <1>6
    DEF Preflight, DurableBarrier, OpenBatch, Undo, Close, toolState, bvars, NoFault
  <2> QED
    BY <1>4, <2>1
<1>7. ASSUME NEW b \in Lots, Started(b, "apply", "coordinator") \/ Started(b, "rollback", "coordinator")
             \/ Started(b, "rollback", "alone")
      PROVE  tool'["user"] = tool["user"] \/ tool'["user"].pc # "settle"
  <2>1. tool'[b].pc = "barrier" /\ \A c \in Lots \ {b} : tool'[c] = tool[c]
    BY <1>1, <1>7, StartedTool DEF Operations
  <2> QED
    BY <1>1, <2>1 DEF Lots
<1>8. ASSUME NEW b \in Lots, Call(b) \/ RunAlone(b)
      PROVE  /\ UNCHANGED <<dir, journal, faults, edits>>
             /\ tool'["user"] = tool["user"] \/ tool'["user"].pc # "settle"
  BY <1>7, <1>8 DEF Call, RunAlone
<1>9. ASSUME NEW b \in Lots, Return(b) PROVE UNCHANGED bvars
  BY <1>9 DEF Return
<1>10. ~(Timeout \/ KillCoordinator \/ PowerLoss)
  BY <1>2 DEF Timeout, KillCoordinator, PowerLoss
<1>11. CASE Tools
  <2>1. UNCHANGED edits /\ (Fault \/ NoFault \/ UNCHANGED faults)
    BY <1>3, <1>11
    DEF Tools, ToolStep, Barrier, Decide, Open, Skip, SnapshotRefuses, Write, Confirm, Settle,
        Recover, Recheck, MakeDirectory, MakeTemporary, PlaceLink, Clean
  <2>2. NoFault /\ Unharmed
    BY <1>2, <2>1 DEF NoFault, Unharmed
  <2>3. CASE ToolStep("root")
    <3>1. dir' = dir
      BY <2>3 DEF ToolStep, Barrier, Decide, Open, Skip, SnapshotRefuses, Write, Confirm, Settle,
         Recover, Recheck
    <3>2. journal'["user"] = journal["user"]
      BY <1>1, <2>3 DEF ToolStep, Barrier, Decide, Open, Skip, SnapshotRefuses, Write, Confirm,
         Settle, Recover, Recheck, Record
    <3>3. tool'["user"] = tool["user"]
      BY <1>1, <2>3, LotStepTool DEF LotStep, Lots
    <3> QED
      BY <2>2, <3>1, <3>2, <3>3
  <2>4. CASE ToolStep("user") \/ LinkStep
    BY <2>2, <2>4
  <2> QED
    BY <1>3, <1>11, <2>3, <2>4 DEF Tools, LinkStep, Lots
<1> QED
  BY <1>4, <1>5, <1>6, <1>8, <1>9, <1>10, <1>11 DEF LoginUpdateNext, lvars, Unharmed, NoFault

\* A tool's own steps bring it to "settle" with the new version only; with the
\* old one the user tool comes there from Clean.
LEMMA SettledByConfirm ==
  ASSUME ToolInv, ToolStep("user"), tool'["user"].pc = "settle"
  PROVE  tool'["user"].kind = "new"
<1> DEFINE b == "user"
<1>1. tool \in [Lots -> Tool] /\ b \in Lots /\ tool[b].kind \in {"old", "new"}
  BY DEF ToolInv, BundleTypeOK, Tool, Lots
<1>2. ASSUME NEW r \in {"none", "done", "failed"}, Stop(b, r) PROVE FALSE
  <2> DEFINE t == Stopped(r)
  <2>1. tool' = [tool EXCEPT ![b] = t] /\ t.pc = "idle"
    BY <1>2, StoppedTool DEF Stop
  <2> HIDE DEF t
  <2> QED
    BY <1>1, <2>1
<1>3. ASSUME NEW pc \in ToolPcs, Goto(b, pc)
      PROVE  pc = "settle" /\ tool'[b].kind = tool[b].kind
  BY <1>1, <1>3, ToolGoes DEF Goto
<1>4. ~Raise(b)
  BY <1>2, <1>3 DEF Raise, ToolPcs
<1>5. ASSUME tool' = [tool EXCEPT ![b].i = @ + 1], tool[b].pc = "write" PROVE FALSE
  <2>1. tool'[b].pc = tool[b].pc
    BY <1>1, <1>5 DEF Tool
  <2> QED
    BY <1>5, <2>1
<1>6. ASSUME Barrier(b) \/ Open(b) \/ Recover(b) PROVE FALSE
  BY <1>2, <1>3, <1>6 DEF Barrier, Open, Recover, ToolPcs
<1>7. ASSUME Decide(b) PROVE FALSE
  <2>1. \/ tool' = [tool EXCEPT ![b].pc = "journal", ![b].kind = "old", ![b].mode = "resume"]
        \/ Stop(b, "failed")
        \/ tool' = [tool EXCEPT ![b].pc = "journal",
                               ![b].kind = IF tool[b].op = "apply" THEN "new" ELSE "old"]
    BY <1>7 DEF Decide
  <2>2. tool'[b].pc = "journal"
    BY <1>1, <1>2, <2>1 DEF Tool
  <2> QED
    BY <2>2
<1>8. ASSUME Skip(b) \/ SnapshotRefuses(b) \/ Write(b) PROVE FALSE
  BY <1>4, <1>5, <1>8 DEF Skip, SnapshotRefuses, Write, Writing
<1>9. ASSUME Confirm(b) PROVE tool'[b].kind = "new"
  <2>1. Goto(b, IF tool[b].kind = "old" THEN "clean" ELSE "settle")
    BY <1>4, <1>9 DEF Confirm
  <2> QED
    BY <1>1, <1>3, <2>1 DEF ToolPcs
<1>10. ASSUME Settle(b) PROVE FALSE
  BY <1>2, <1>4, <1>10 DEF Settle
<1>11. ASSUME Recheck(b) PROVE FALSE
  <2>1. PICK seen :
          \/ Stop(b, "failed")
          \/ tool' = [tool EXCEPT ![b].pc = "write", ![b].kind = "old",
                                  ![b].mode = "handler", ![b].i = 1, ![b].seen = seen]
    BY <1>11 DEF Recheck
  <2>2. tool'[b].pc = "write"
    BY <1>1, <1>2, <2>1 DEF Tool
  <2> QED
    BY <2>2
<1> QED
  BY <1>6, <1>7, <1>8, <1>9, <1>10, <1>11 DEF ToolStep

\* The directory goes in Clean, before the verdict "original", because the link
\* has gone and nothing else can be in it.
LEMMA DirectoryGoesOn ==
  ASSUME ToolInv, NoForeign, DirInv, [LoginUpdateNext]_lvars
  PROVE  DirInv'
<1> SUFFICES ASSUME Unharmed'
             PROVE  /\ dir' # "kept"
                    /\ journal'["user"] = "original" => dir' = "absent"
                    /\ tool'["user"].pc = "settle" /\ tool'["user"].kind = "old" => dir' = "absent"
  BY DEF DirInv
<1> DEFINE b == "user"
<1>1. /\ b \in Lots /\ journal \in [Lots -> Journals] /\ tool \in [Lots -> Tool]
      /\ dir \in LinkDirectories /\ Bracketed(b) /\ Wants \in FilesOf(b) /\ Wants \in Files
  BY UpdateAssumption, LotsApart DEF ToolInv, BundleTypeOK, Tool, Lots
<1>2. Unharmed /\ NoFault
  BY QuietStep
<1>3. /\ dir \in {"absent", "empty"} /\ (journal[b] = "original" => dir = "absent")
      /\ (tool[b].pc = "settle" /\ tool[b].kind = "old" => dir = "absent")
  BY <1>1, <1>2 DEF DirInv, LinkDirectories
<1>4. ~Fault
  <2>1. faults \in Nat
    BY <1>2, UpdateAssumption DEF Unharmed
  <2> QED
    BY <1>2, <2>1 DEF Fault, NoFault
<1>5. CASE /\ dir' = dir /\ journal'[b] = journal[b]
           /\ tool'[b] = tool[b] \/ tool'[b].pc # "settle"
  BY <1>3, <1>5
<1>6. CASE ToolStep(b)
  <2>1. dir' = dir
    BY <1>6 DEF ToolStep, Barrier, Decide, Open, Skip, SnapshotRefuses, Write, Confirm, Settle,
       Recover, Recheck
  <2>2. journal'[b] = "original" => dir = "absent"
    <3>1. CASE Settle(b)
      <4>1. journal' = [journal EXCEPT ![b] = IF tool[b].kind = "new" THEN "applied" ELSE "original"]
            /\ tool[b].pc = "settle" /\ tool[b].kind \in {"old", "new"}
        BY <1>1, <1>4, <3>1 DEF Settle, Record, Tool
      <4> QED
        BY <1>1, <1>3, <4>1
    <3>2. CASE Open(b) \/ Recover(b)
      <4>1. journal'[b] = journal[b] \/ journal'[b] \in {"applying", "rolling-back"}
        BY <1>1, <3>2 DEF Open, Recover, Record
      <4> QED
        BY <1>3, <4>1
    <3>3. CASE \/ Barrier(b) \/ Decide(b) \/ Skip(b) \/ SnapshotRefuses(b) \/ Write(b)
               \/ Confirm(b) \/ Recheck(b)
      <4>1. journal' = journal
        BY <3>3 DEF Barrier, Decide, Skip, SnapshotRefuses, Write, Confirm, Recheck
      <4> QED
        BY <1>3, <4>1
    <3> QED
      BY <1>6, <3>1, <3>2, <3>3 DEF ToolStep
  <2>3. tool'[b].pc = "settle" => tool'[b].kind = "new"
    BY <1>1, <1>4, <1>6, SettledByConfirm DEF NoFault
  <2> QED
    BY <1>3, <2>1, <2>2, <2>3
<1>7. CASE LinkStep
  <2>1. journal'[b] = journal[b] /\ journal[b] \in Interrupted
    BY <1>7, LinkTool, LinkEffect
  <2>2. journal'[b] # "original"
    BY <2>1 DEF Interrupted
  <2>3. CASE Clean
    <3>1. tool[b].pc = "clean"
      BY <2>3 DEF Clean
    <3>2. Is(b, "old") /\ ~Divergent(b)
      BY <1>1, <1>2, <3>1 DEF Bracketed, NoForeign, Unharmed, Divergent, Files, Lots
    <3>3. file[Wants] = "old"
      BY <1>1, <3>2 DEF Is, All
    <3>4. dir' = "absent"
      BY <1>3, <1>4, <2>3, <3>3 DEF Clean
    <3> QED
      BY <3>4
  <2>4. CASE ~Clean
    <3>1. tool'[b].pc # "settle"
      BY <1>7, <2>4, LinkTool
    <3>2. dir' \in {"absent", "empty"}
      BY <1>3, <1>4, <1>7, <2>4 DEF LinkStep, MakeDirectory, MakeTemporary, PlaceLink
    <3> QED
      BY <2>2, <3>1, <3>2
  <2> QED
    BY <2>3, <2>4
<1> QED
  BY <1>5, <1>6, <1>7, QuietStep

LEMMA DirectoryHolds == LoginUpdateSpec => []DirInv
<1>1. LoginUpdateInit => DirInv
  BY DEF LoginUpdateInit, BundleInit, DirInv
<1>2. UpdateInv /\ DirInv /\ [LoginUpdateNext]_lvars => DirInv'
  BY DirectoryGoesOn DEF UpdateInv
<1> QED
  BY <1>1, <1>2, InvariantHolds, PTL DEF LoginUpdateSpec

-----------------------------------------------------------------------------
\* Whoever runs its tool, and wherever it is stopped, each lot's update is the
\* one of AtomicUpdate: the journal is open while the files change, and closes
\* only over targets all new, all old, or edited by somebody else.  The link's
\* directory goes with the originals, if nothing fails and nobody edits.
THEOREM LotsAreAtomic == LoginUpdateSpec => LotsAtomic
<1>1. LoginUpdateInit => ToolInv
  BY ToolsBegin DEF LoginUpdateInit
<1>2. LoginUpdateInit => RootUpdate!Init
  BY LotBegan DEF LoginUpdateInit, RootUpdate!Init, Content, Lots
<1>3. LoginUpdateInit => UserUpdate!Init
  BY LotBegan DEF LoginUpdateInit, UserUpdate!Init, Content, Lots
<1>4. ToolInv /\ [LoginUpdateNext]_lvars =>
        [RootUpdate!Next]_<<VerdictOf(journal["root"]), ContentOf(FilesOf("root"))>>
  BY LotRefines DEF Turns, Content, Lots, RootUpdate!Next, RootUpdate!Begin, RootUpdate!Change,
     RootUpdate!Commit, RootUpdate!Restore, RootUpdate!Edit, RootUpdate!Contents, ContentOf
<1>5. ToolInv /\ [LoginUpdateNext]_lvars =>
        [UserUpdate!Next]_<<VerdictOf(journal["user"]), ContentOf(FilesOf("user"))>>
  BY LotRefines DEF Turns, Content, Lots, UserUpdate!Next, UserUpdate!Begin, UserUpdate!Change,
     UserUpdate!Commit, UserUpdate!Restore, UserUpdate!Edit, UserUpdate!Contents, ContentOf
<1>6. DirInv => DirectoryGoes
  BY DEF DirInv, Unharmed, DirectoryGoes
<1> QED
  BY <1>1, <1>2, <1>3, <1>4, <1>5, <1>6, DirectoryHolds, ToolsKeep, PTL
  DEF LoginUpdateSpec, LotsAtomic, RootUpdate!Spec, UserUpdate!Spec


\* The states are the ones the variables are declared to range over.
THEOREM UpdateTypesHold == LoginUpdateSpec => []LoginUpdateTypeOK
<1>1. LoginUpdateInit => LoginUpdateTypeOK
  <2> SUFFICES ASSUME LoginUpdateInit PROVE LoginUpdateTypeOK
    OBVIOUS
  <2>1. BundleTypeOK
    BY ToolsBegin DEF LoginUpdateInit, ToolInv
  <2> QED
    BY <2>1, LoginUpdateAssumption
    DEF LoginUpdateInit, LoginUpdateTypeOK, NoCoord, CoordPcs, Operations, Journals
<1>2. UpdateInv /\ UpdateInv' /\ LoginUpdateTypeOK /\ [LoginUpdateNext]_lvars => LoginUpdateTypeOK'
  <2> SUFFICES ASSUME UpdateInv, UpdateInv', LoginUpdateTypeOK, [LoginUpdateNext]_lvars
               PROVE  LoginUpdateTypeOK'
    OBVIOUS
  <2>1. BundleTypeOK' /\ CoordTypeOK'
    BY DEF UpdateInv, ToolInv, CoordInv
  <2>2. Todos \subseteq {<<>>} \cup {<<b>> : b \in Lots} \cup (Lots \X Lots)
    BY DEF Todos, Forward, Backward, Lots
  <2>3. /\ runs' = runs \/ (runs < MaxRuns /\ runs' = runs + 1)
        /\ alone' = alone \/ (alone < MaxAlone /\ alone' = alone + 1)
    BY DEF LoginUpdateNext, Run, Preflight, DurableBarrier, OpenBatch, Undo, Close, Call, Return,
           RunAlone, Timeout, KillCoordinator, PowerLoss, Tools, lvars
  <2>6. runs' \in 0..MaxRuns /\ alone' \in 0..MaxAlone
    BY <2>3, LoginUpdateAssumption DEF LoginUpdateTypeOK
  <2> DEFINE lists == {<<>>} \cup {<<b>> : b \in Lots} \cup (Lots \X Lots)
  <2>4. Todos \subseteq lists
    BY <2>2
  <2> HIDE DEF lists
  <2>5. coord' \in [pc : CoordPcs, op : Operations, todo : lists, undo : BOOLEAN, errors : BOOLEAN]
    BY <2>1, <2>4 DEF CoordTypeOK
  <2> QED
    BY <2>1, <2>5, <2>6 DEF LoginUpdateTypeOK, CoordTypeOK, lists
<1> QED
  BY <1>1, <1>2, InvariantHolds, PTL DEF LoginUpdateSpec

\* The greeter last (coordinate): a new greeter is published only over a
\* launcher that is complete and certified, whatever is killed in between.
THEOREM GreeterIsLast == LoginUpdateSpec => []GreeterLast
<1>1. UpdateInv => GreeterLast
  <2> SUFFICES ASSUME UpdateInv, edits = MaxEdits, alone = 0, ~ToolIdle("root"),
                      tool["root"].kind = "new"
               PROVE  journal["user"] = "applied" /\ All("user", "new")
    BY DEF GreeterLast, ToolIdle
  <2>1. "root" \in Lots /\ "user" \in Lots
    BY DEF Lots
  <2>2. Exclusive /\ Progress /\ Calling /\ NoForeign
    BY DEF UpdateInv, CoordInv
  <2>3. tool["root"].op = "apply"
    BY <2>1 DEF UpdateInv, ToolInv, Purpose
  <2>4. coord.pc = "wait" /\ Head(coord.todo) = "root" /\ Goal = "apply"
    BY <2>1, <2>2, <2>3 DEF Exclusive
  <2>5. ~coord.undo /\ ~coord.errors
    BY <2>2, <2>4 DEF Calling, Goal
  <2>6. coord.todo = <<"root">>
    BY <2>2, <2>4, <2>5, TodoLists DEF Calling
  <2>7. LotDone("user", "new")
    BY <2>1, <2>2, <2>4, <2>5, <2>6, TodoLists DEF Progress, AimOf
  <2>8. ~Divergent("user")
    BY <2>2 DEF NoForeign, Divergent, Files
  <2> QED
    BY <2>7, <2>8 DEF LotDone, Is, Verdict
<1> QED
  BY <1>1, InvariantHolds, PTL

\* The pair as the refinement reads it.
Pair == IF alone > 0 THEN "foreign" ELSE ContentOf(Files)

\* Two lots of one version are the pair in that version.
LEMMA ConfirmedPair ==
  ASSUME NEW kind \in {"old", "new"}, Is("root", kind), Is("user", kind), alone = 0
  PROVE  Pair \in {kind, "foreign"}
<1>1. FilesOf("root") # {} /\ Files = FilesOf("root") \cup FilesOf("user")
  BY LotsInhabited DEF Lots, Files
<1>2. CASE Divergent("root") \/ Divergent("user")
  BY <1>1, <1>2 DEF Pair, ContentOf, Divergent
<1>3. CASE ~Divergent("root") /\ ~Divergent("user")
  <2>1. \A f \in Files : file[f] = kind
    BY <1>1, <1>3 DEF Is, All
  <2>2. \E f \in Files : file[f] = kind
    BY <1>1, <2>1
  <2> QED
    BY <2>1, <2>2 DEF Pair, ContentOf
<1> QED
  BY <1>2, <1>3

\* The coordinator certifies what it has had done.
LEMMA CloseRefines ==
  ASSUME UpdateInv, Close
  PROVE  Turns(VerdictOf(batch), Pair, VerdictOf(batch)', Pair')
<1>1. /\ batch \in Interrupted /\ coord.todo = <<>> /\ alone \in Nat /\ coord.undo \in BOOLEAN
  BY DEF UpdateInv, CoordInv, CoordTypeOK, Calling, Close
<1>2. Pair' = Pair
  BY DEF Close, toolState, Pair, ContentOf
<1>3. CASE batch' = batch
  BY <1>2, <1>3 DEF Turns, VerdictOf
<1>4. CASE ~coord.errors /\ batch' = IF coord.undo THEN "original" ELSE "applied"
  <2> DEFINE kind == AimOf(Goal)
  <2>1. kind = IF coord.undo THEN "old" ELSE "new"
    BY DEF AimOf, Goal
  <2>2. alone = 0 => Is("root", kind) /\ Is("user", kind)
    BY <1>1, <1>4, TodoLists DEF UpdateInv, Progress, LotDone, Lots, Close
  <2> HIDE DEF kind
  <2>3. Pair \in {kind, "foreign"}
    <3>1. CASE alone = 0
      BY <2>1, <2>2, <3>1, ConfirmedPair
    <3>2. CASE alone # 0
      BY <1>1, <3>2 DEF Pair
    <3> QED
      BY <3>1, <3>2
  <2> QED
    BY <1>1, <1>2, <1>4, <2>1, <2>3 DEF Turns, VerdictOf, Interrupted
<1> QED
  BY <1>3, <1>4 DEF Close

\* A step of the update is, for the pair, a step of AtomicUpdate or none.
LEMMA PairRefines ==
  ASSUME UpdateInv, [LoginUpdateNext]_lvars
  PROVE  Turns(VerdictOf(batch), Pair, VerdictOf(batch)', Pair')
<1>1. alone \in Nat /\ ToolInv
  BY DEF UpdateInv, CoordInv, CoordTypeOK
<1>2. ASSUME UNCHANGED <<file, alone>> PROVE Pair' = Pair
  BY <1>2 DEF Pair, ContentOf
<1>3. batch' = batch => VerdictOf(batch)' = VerdictOf(batch)
  BY DEF VerdictOf
<1>4. ASSUME UNCHANGED <<file, alone, batch>>
      PROVE  Turns(VerdictOf(batch), Pair, VerdictOf(batch)', Pair')
  BY <1>2, <1>3, <1>4 DEF Turns
<1>5. CASE UNCHANGED lvars
  BY <1>4, <1>5 DEF lvars, bvars
<1>6. ASSUME NEW op \in Operations, Run(op)
      PROVE  Turns(VerdictOf(batch), Pair, VerdictOf(batch)', Pair')
  BY <1>4, <1>6 DEF Run, bvars
<1>7. CASE Preflight \/ DurableBarrier
  BY <1>4, <1>7 DEF Preflight, DurableBarrier, bvars, toolState
<1>8. CASE OpenBatch \/ Undo
  <2>1. UNCHANGED <<file, alone>>
    BY <1>8 DEF OpenBatch, Undo, toolState
  <2>2. batch' = batch \/ batch' \in Interrupted
    BY <1>8 DEF OpenBatch, Undo, Interrupted
  <2>3. batch' \in Interrupted => VerdictOf(batch)' = "updating"
    BY DEF VerdictOf
  <2> QED
    BY <1>2, <1>3, <2>1, <2>2, <2>3 DEF Turns
<1>9. CASE Close
  BY <1>9, CloseRefines
<1>10. ASSUME NEW b \in Lots, Call(b) \/ Return(b)
       PROVE  Turns(VerdictOf(batch), Pair, VerdictOf(batch)', Pair')
  BY <1>4, <1>10 DEF Call, Return, bvars
<1>11. ASSUME NEW b \in Lots, RunAlone(b)
       PROVE  Turns(VerdictOf(batch), Pair, VerdictOf(batch)', Pair')
  <2>1. Pair' = "foreign" /\ batch' = batch
    BY <1>1, <1>11 DEF RunAlone, Pair
  <2> QED
    BY <1>3, <2>1 DEF Turns
<1>12. CASE Timeout \/ KillCoordinator \/ PowerLoss
  BY <1>4, <1>12 DEF Timeout, KillCoordinator, PowerLoss
<1>13. ASSUME NEW b \in Lots, LotStep(b), UNCHANGED <<batch, alone>>
       PROVE  Turns(VerdictOf(batch), Pair, VerdictOf(batch)', Pair')
  <2>1. CASE alone > 0
    <3>1. Pair' = Pair
      BY <1>13, <2>1 DEF Pair
    <3> QED
      BY <1>3, <1>13, <3>1 DEF Turns
  <2>2. CASE alone = 0
    <3>1. ~ToolIdle(b)
      BY <1>1, <1>13, LotStepTool
    <3>2. batch \in Interrupted
      BY <2>2, <3>1 DEF UpdateInv, CoordInv, Exclusive, Calling, Lots
    <3> QED
      BY <1>3, <1>13, <3>2 DEF Turns, VerdictOf
  <2> QED
    BY <1>1, <2>1, <2>2
<1>14. CASE Tools
  <2>1. CASE Edit /\ ~UNCHANGED file
    <3>1. (\E f \in Files : file[f] = "foreign")' /\ UNCHANGED batch
      BY <1>1, <1>14, <2>1 DEF Edit, Tools, ToolInv, BundleTypeOK
    <3>2. Pair' = "foreign"
      BY <3>1 DEF Pair, ContentOf
    <3> QED
      BY <1>3, <3>1, <3>2 DEF Turns
  <2>2. CASE UNCHANGED file
    BY <1>4, <1>14, <2>2 DEF Tools
  <2>3. UNCHANGED <<batch, alone>> /\ (Edit \/ \E b \in Lots : LotStep(b))
    BY <1>14 DEF Tools, LotStep, LinkStep, Lots
  <2> QED
    BY <1>13, <2>1, <2>2, <2>3
<1> QED
  BY <1>5, <1>6, <1>7, <1>8, <1>9, <1>10, <1>11, <1>12, <1>14 DEF LoginUpdateNext

\* The two lots together (coordinate): whatever is interrupted, the journal of
\* the pair is open while their files change and closes only over a pair that
\* is all new, all old, or edited by somebody else.
THEOREM PairIsAtomic == LoginUpdateSpec => PairAtomic
<1>1. LoginUpdateInit => PairUpdate!Init
  <2> SUFFICES ASSUME LoginUpdateInit PROVE PairUpdate!Init
    OBVIOUS
  <2>1. /\ \A f \in Files : file[f] = "old"
        /\ alone = 0 /\ batch = "original"
    BY DEF LoginUpdateInit, BundleInit
  <2>2. Wants \in Files
    BY UpdateAssumption DEF Files
  <2>3. ContentOf(Files) = "old"
    BY <2>1, <2>2 DEF ContentOf
  <2> QED
    BY <2>1, <2>3 DEF PairUpdate!Init, VerdictOf, Interrupted
<1>2. UpdateInv /\ [LoginUpdateNext]_lvars =>
        [PairUpdate!Next]_<<VerdictOf(batch), IF alone > 0 THEN "foreign"
                                              ELSE ContentOf(Files)>>
  <2> SUFFICES ASSUME UpdateInv, [LoginUpdateNext]_lvars
               PROVE  [PairUpdate!Next]_<<VerdictOf(batch), Pair>>
    BY DEF Pair
  <2>1. Turns(VerdictOf(batch), Pair, VerdictOf(batch)', Pair')
    BY PairRefines
  <2>2. Pair' \in PairUpdate!Contents
    BY DEF Pair, ContentOf, PairUpdate!Contents
  <2> QED
    BY <2>1, <2>2 DEF Turns, Pair, PairUpdate!Next, PairUpdate!Begin, PairUpdate!Change,
       PairUpdate!Commit, PairUpdate!Restore, PairUpdate!Edit
<1> QED
  BY <1>1, <1>2, InvariantHolds, PTL DEF LoginUpdateSpec, PairAtomic, PairUpdate!Spec
=============================================================================
