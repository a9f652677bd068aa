------------------------- MODULE AppearanceRegister -------------------------
(***************************************************************************)
(* What the appearance managers promise of files, Sway and services that   *)
(* cannot change together: whoever does not look inside a change sees a    *)
(* register.  A change ends with the whole desktop as asked or as it was.  *)
(* A change that was cut short leaves an interrupted desktop, which the    *)
(* next start of the shell makes whole again; each part of its look is     *)
(* then as it was or as it was asked for, never anything else.  When the   *)
(* repair is cut short in its turn the desktop is broken, and nothing is   *)
(* promised.                                                               *)
(***************************************************************************)
VARIABLES
    phase,      \* "rest", "changing", "interrupted", "broken"
    look,       \* the look of the whole desktop when it was last at rest
    asked       \* the looks asked for since

Init == phase = "rest" /\ asked = {}

\* A change of the look, or one that is to leave it as it is.
Begin ==
    /\ phase = "rest" /\ phase' = "changing"
    /\ \A v, w \in asked' : v = w
    /\ UNCHANGED look

Succeed ==
    /\ phase = "changing" /\ phase' = "rest"
    /\ look' \in asked
    /\ asked' = {}

Fail ==
    /\ phase = "changing" /\ phase' = "rest"
    /\ asked' = {}
    /\ UNCHANGED look

Interrupt ==
    /\ phase = "changing" /\ phase' = "interrupted"
    /\ UNCHANGED <<look, asked>>

\* Something else is asked of the interrupted desktop.
Ask ==
    /\ phase = "interrupted"
    /\ asked \subseteq asked'
    /\ UNCHANGED <<phase, look>>

\* The night mode, the place or the zone may be the one asked for while the
\* theme and the wallpaper, which effective.json has together, are as they were.
Known(v) ==
    /\ DOMAIN v = DOMAIN look
    /\ \A part \in DOMAIN v : \E w \in {look} \cup asked : v[part] = w[part]

Repair ==
    /\ phase = "interrupted" /\ phase' = "rest"
    /\ Known(look')
    /\ asked' = {}

Break ==
    /\ phase # "rest" /\ phase' = "broken"
    /\ UNCHANGED <<look, asked>>

Broken == phase = "broken" /\ phase' = "broken"

Next == Begin \/ Succeed \/ Fail \/ Interrupt \/ Ask \/ Repair \/ Break \/ Broken

Spec == Init /\ [][Next]_<<phase, look, asked>>
=============================================================================
