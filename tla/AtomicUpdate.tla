---------------------------- MODULE AtomicUpdate ----------------------------
(***************************************************************************)
(* What the update tools of the login promise of a set of files that has   *)
(* no atomic replacement as a whole: the journal says "updating" before    *)
(* the first file changes and until the last one has, and it says          *)
(* "applied" or "original" only of files that are all new, or all old.     *)
(* Somebody else may edit a file at any time; the verdict then holds for   *)
(* the files as they were last confirmed.                                  *)
(***************************************************************************)
VARIABLES
    verdict,    \* what the journal says: "original", "updating", "applied"
    content     \* what the files are: "old", "new", "mixed", "foreign"

Verdicts == {"original", "updating", "applied"}
Contents == {"old", "new", "mixed", "foreign"}

Init == verdict = "original" /\ content = "old"

Begin ==
    /\ verdict' = "updating"
    /\ UNCHANGED content

Change ==
    /\ verdict = "updating"
    /\ content' \in Contents
    /\ UNCHANGED verdict

Commit ==
    /\ verdict = "updating"
    /\ content \in {"new", "foreign"}
    /\ verdict' = "applied"
    /\ UNCHANGED content

Restore ==
    /\ verdict = "updating"
    /\ content \in {"old", "foreign"}
    /\ verdict' = "original"
    /\ UNCHANGED content

Edit ==
    /\ content' = "foreign"
    /\ UNCHANGED verdict

Next == Begin \/ Change \/ Commit \/ Restore \/ Edit

Spec == Init /\ [][Next]_<<verdict, content>>
=============================================================================
