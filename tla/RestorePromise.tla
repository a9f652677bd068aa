---------------------------- MODULE RestorePromise ----------------------------
(***************************************************************************)
(* What a session restore promises of the user's windows, without a word of *)
(* journals, processes or IPC: windows go forward to their slots while one  *)
(* driver steers; once it has given up, for whatever reason, windows only   *)
(* come back; a window the user has put elsewhere, or that was returned, is *)
(* not touched; success and recovery are claimed only of a desktop that is  *)
(* entirely in place, or entirely out of the transaction's places; and the *)
(* next restore starts only after the claim of the last was published.     *)
(***************************************************************************)
CONSTANT Windows

VARIABLES
    place,      \* where each window is, relative to the restore
    parked,     \* windows the user has put elsewhere
    phase,      \* of the restore: who may move windows, and where to
    returned,   \* windows given back to the user
    reported    \* the claim, "complete" or "recovered", was published

vars == <<place, parked, phase, returned, reported>>

Claims == {"complete", "recovered"}

Init ==
    /\ place = [w \in Windows |-> "home"] /\ parked = {}
    /\ phase = "idle" /\ returned = {} /\ reported = FALSE

Begin ==
    /\ phase = "idle" \/ (phase \in Claims /\ reported)
    /\ place' = [w \in Windows |-> "home"] /\ parked' = {}
    /\ phase' = "forward" /\ returned' = {} /\ reported' = FALSE

\* The restore moves a window that is its own to move.
Move(w, to) ==
    /\ place[w] # "gone" /\ w \notin parked
    /\ place' = [place EXCEPT ![w] = to]
    /\ UNCHANGED <<parked, returned, reported>>

\* The answer to a command may be lost: the window moves, the driver gives up.
Forward(w) ==
    /\ phase = "forward" /\ phase' \in {"forward", "back"}
    /\ \E to \in {"stage", "slot"} : Move(w, to)

GiveUp ==
    /\ phase = "forward" /\ phase' = "back"
    /\ UNCHANGED <<place, parked, returned, reported>>

Return(w) ==
    /\ phase = "back" /\ w \notin returned
    /\ Move(w, "home")
    /\ UNCHANGED phase

Settle(w) ==
    /\ phase = "back" /\ place[w] \in {"home", "gone"}
    /\ returned' = returned \cup {w}
    /\ UNCHANGED <<place, parked, phase, reported>>

Complete ==
    /\ phase = "forward" /\ \A w \in Windows : place[w] = "slot"
    /\ phase' = "complete"
    /\ UNCHANGED <<place, parked, returned, reported>>

Recovered ==
    /\ phase = "back" /\ \A w \in Windows : place[w] \notin {"stage", "slot"}
    /\ phase' = "recovered"
    /\ UNCHANGED <<place, parked, returned, reported>>

Report ==
    /\ phase \in Claims /\ reported' = TRUE
    /\ UNCHANGED <<place, parked, phase, returned>>

\* The user moves or closes a window at any time; a move made while a command
\* is on its way to the compositor is not told from the command's effect.
User(w) ==
    /\ place[w] # "gone"
    /\ \E to \in {"home", "elsewhere", "gone"} :
           /\ place' = [place EXCEPT ![w] = to]
           /\ \/ parked' = parked \ {w}
              \/ to = "elsewhere" /\ parked' = parked \cup {w}
    /\ UNCHANGED <<phase, returned, reported>>

Next ==
    \/ Begin \/ GiveUp \/ Complete \/ Recovered \/ Report
    \/ \E w \in Windows : Forward(w) \/ Return(w) \/ Settle(w) \/ User(w)

Spec == Init /\ [][Next]_vars
=============================================================================
