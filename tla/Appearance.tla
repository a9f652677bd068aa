----------------------------- MODULE Appearance -----------------------------
(***************************************************************************)
(* The managers of the desktop's appearance: wallpaper and theme           *)
(* (wallpaper-manager.py), night light (night-light-manager.py), time zone *)
(* and place (location-time-manager.py), and the part of the shell that    *)
(* adopts what they publish (AppearanceController.qml).  A change takes    *)
(* the common lock at once or fails, reads everything, and then goes       *)
(* through its steps: files replaced one by one, Sway reloaded, wlsunset   *)
(* restarted, the shell told.  A step that raises starts the handler of    *)
(* the change, which takes the steps back; a killed change leaves          *)
(* everything where it is, for "status" at the next start of the shell.    *)
(*                                                                         *)
(* Abstractions.  One change holds the lock; a second caller fails before  *)
(* it reads anything.  An image is its name, with a verdict of the         *)
(* analysis that does not change.  There are two flavors, so that the dark *)
(* flavor of the Sun profile is no choice.  A temperature is part of the   *)
(* night mode.  effective.json and preferences.json exist and have the     *)
(* current schema.                                                         *)
(***************************************************************************)
EXTENDS Integers, Sequences

CONSTANTS
    Wallpapers,     \* the images of the user
    Light,          \* those the analysis finds light
    Zones, Coords,  \* time zones and places
    Extras,         \* what the preferences hold besides: folder, saved places
    Budgets         \* bounds: how many changes ("jobs"), starts of the shell
                    \* ("starts"), and failed steps, kills, lost images and
                    \* strangers ("mishaps") may occur together

ASSUME AppearanceAssumption ==
    /\ Wallpapers # {} /\ Zones # {} /\ Coords # {} /\ Extras # {}
    /\ Light \subseteq Wallpapers
    /\ "off" \notin Coords /\ "on" \notin Coords
    /\ Budgets \subseteq [{"jobs", "starts", "mishaps"} -> Nat]

VARIABLES
    desk,       \* the files, and what runs by them
    change,     \* the change that holds wallpaper.lock, or NoChange
    shell,      \* the revision and the look the shell shows
    replies,    \* answers of ended jobs the shell has yet to read
    starting,   \* the shell starts and has not run "status"
    images,     \* the images that exist
    stranger,   \* a wlsunset runs that is not the unit's
    left,       \* what is left of the budget
    damage,     \* history: whether a change was cut short
    was,        \* history: the look when the desktop was last at rest
    asked       \* history: the looks asked for since

deskvars == <<desk, images, stranger>>
shellvars == <<shell, replies, starting>>
history == <<damage, was, asked>>
avars == <<deskvars, shellvars, history, change, left>>

Flavors == {"latte", "mocha"}
NightModes == {"off", "auto", "on"}
Choices == [mode : {"manual", "wallpaper"}, manual : Flavors,
            sun : BOOLEAN, variant : {"light", "dark"}]
Themes == [flavor : Flavors, profile : {"normal", "sun-light", "sun-dark"}]

\* preferences.json and effective.json
Prefs == [choice : Choices, night : NightModes, coords : Coords, extra : Extras]
States == [choice : Choices, theme : Themes, wall : Wallpapers,
           night : NightModes, rev : Nat]

Analysis(w) == IF w \in Light THEN "latte" ELSE "mocha"

\* resolve: what a choice looks like, the Sun profile before everything else.
Resolve(c, w) ==
    IF c.sun
    THEN IF c.variant = "light" THEN [flavor |-> "latte", profile |-> "sun-light"]
                                ELSE [flavor |-> "mocha", profile |-> "sun-dark"]
    ELSE [flavor |-> IF c.mode = "wallpaper" THEN Analysis(w) ELSE c.manual,
          profile |-> "normal"]

Suspended(state) == state.theme.profile # "normal"

\* argv: what wlsunset runs with; the place counts in Auto only.
Gamma(pref, state) ==
    IF Suspended(state) THEN "off"
    ELSE IF pref.night = "auto" THEN pref.coords ELSE pref.night

\* What a caller who takes the lock reads first, and what the handlers keep.
Snapshot == [wall |-> desk.wall, theme |-> desk.theme, state |-> desk.state,
             pref |-> desk.pref, zone |-> desk.zone]

Settled(state, pref, zone) ==
    [wall |-> state.wall, theme |-> state.theme, state |-> state, pref |-> pref,
     zone |-> zone,
     sway |-> [wall |-> state.wall, theme |-> state.theme],
     night |-> Gamma(pref, state), opacity |-> state.theme.profile]

\* effective of night-light-manager.py: the Sun profile suspends the mode.
Effective(pref, state) == IF Suspended(state) THEN "off" ELSE pref.night

\* Everything on the desktop is what effective.json and preferences.json say,
\* and they agree.
Whole ==
    /\ desk = Settled(desk.state, desk.pref, desk.zone)
    /\ desk.pref.choice = desk.state.choice
    /\ desk.state.theme = Resolve(desk.state.choice, desk.state.wall)
    /\ desk.state.night = Effective(desk.pref, desk.state)

\* What a user asks for, or sees, part by part.
Look(files) ==
    [scene |-> [choice |-> files.state.choice, theme |-> files.state.theme,
                wall |-> files.state.wall, rev |-> files.state.rev],
     night |-> files.pref.night, coords |-> files.pref.coords,
     extra |-> files.pref.extra, zone |-> files.zone]

Shown(state) == [rev |-> state.rev, wall |-> state.wall, theme |-> state.theme]

NoChange == [kind |-> "none"]

\* The desktop begins whole, in each of the four combinations of mode and Sun.
AppearanceInit ==
    /\ \E mode \in {"manual", "wallpaper"}, sun \in BOOLEAN :
         LET w == CHOOSE x \in Wallpapers : TRUE
             c == [mode |-> mode, manual |-> "mocha", sun |-> sun, variant |-> "light"]
             s == [choice |-> c, theme |-> Resolve(c, w), wall |-> w, rev |-> 0,
                   night |-> IF sun THEN "off" ELSE "auto"]
             p == [choice |-> c, night |-> "auto", extra |-> CHOOSE x \in Extras : TRUE,
                   coords |-> CHOOSE x \in Coords : TRUE]
         IN  desk = Settled(s, p, CHOOSE x \in Zones : TRUE)
    /\ shell = Shown(desk.state) /\ replies = {} /\ starting = FALSE
    /\ change = NoChange
    /\ images = Wallpapers /\ stranger = FALSE
    /\ left \in Budgets
    /\ damage = "none" /\ was = Look(desk) /\ asked = {}

Spend(what) == left[what] > 0 /\ left' = [left EXCEPT ![what] = @ - 1]

-----------------------------------------------------------------------------
(* The changes, as far as they read: what they will write and which steps  *)
(* they need.  Each takes the lock; a request that changes nothing returns *)
(* at once and is left out.                                                *)

\* "status" and "reconcile" ask for nothing.
Undertake(kind, new, plan) ==
    /\ change' = [kind |-> kind, old |-> Snapshot, new |-> new, plan |-> plan,
                   todo |-> plan, undoing |-> FALSE]
    /\ was' = IF damage = "none" THEN Look(desk) ELSE was
    /\ asked' = (IF damage = "none" THEN {} ELSE asked)
                   \cup (IF kind \in {"status", "reconcile"} THEN {} ELSE {Look(new)})
    /\ UNCHANGED <<deskvars, damage>>

When(condition, steps) == IF condition THEN steps ELSE {}

\* transaction: apply an image, or set the mode, the flavor or the Sun profile.
Transaction(choice, w) ==
    LET theme == Resolve(choice, w)
        old == desk.state
        image == w # old.wall
        themed == theme # old.theme
        visual == image \/ themed \/ choice.mode # desk.pref.choice.mode
        pref == [desk.pref EXCEPT !.choice = choice]
        state == [choice |-> choice, theme |-> theme, wall |-> w,
                  night |-> IF choice.sun THEN "off" ELSE pref.night,
                  rev |-> old.rev + (IF visual THEN 1 ELSE 0)]
    IN  /\ visual \/ pref # desk.pref
        /\ w \in images
        /\ Undertake("look", [wall |-> w, theme |-> theme, state |-> state, pref |-> pref,
                          zone |-> desk.zone],
                 {"state", "pref", "publish"}
                   \cup When(image, {"wall", "reload", "swaybg"})
                   \cup When(themed, {"theme", "reload"})
                   \cup When(Suspended(old) # choice.sun, {"service"})
                   \cup When(theme.profile # old.theme.profile, {"opacity"}))

BeginLook ==
    LET c == desk.pref.choice
    IN  \/ \E w \in Wallpapers : Transaction(c, w)
        \/ \E m \in {"manual", "wallpaper"} :
              Transaction([c EXCEPT !.mode = m], desk.state.wall)
        \/ /\ c.mode = "manual"
           /\ \E f \in Flavors : Transaction([c EXCEPT !.manual = f], desk.state.wall)
        \/ \E b \in BOOLEAN : Transaction([c EXCEPT !.sun = b], desk.state.wall)
        \/ \E v \in {"light", "dark"} :
              Transaction([c EXCEPT !.variant = v], desk.state.wall)

\* change of night-light-manager.py
BeginNight ==
    \E n \in NightModes :
      LET pref == [desk.pref EXCEPT !.night = n]
          state == [desk.state EXCEPT !.night = Effective(pref, desk.state)]
      IN  /\ pref # desk.pref
          /\ Undertake("night", [Snapshot EXCEPT !.pref = pref, !.state = state],
                   {"pref", "service", "state", "told"})

\* reconcile of night-light-manager.py
BeginNightReconcile ==
    LET eff == Effective(desk.pref, desk.state)
    IN  Undertake("reconcile", [Snapshot EXCEPT !.state.night = eff],
              {"mendOwn"} \cup When(eff # desk.state.night, {"state"}))

\* apply of location-time-manager.py
BeginPlace ==
    \E z \in Zones, c \in Coords, kind \in SUBSET {"timezone", "solar"} :
      LET pref == [desk.pref EXCEPT !.coords = IF "solar" \in kind THEN c ELSE @]
          auto == desk.pref.night = "auto" /\ ~Suspended(desk.state)
      IN  /\ kind # {}
          /\ Undertake("place", [Snapshot EXCEPT !.pref = pref,
                                  !.zone = IF "timezone" \in kind THEN z ELSE @],
                   When("timezone" \in kind, {"check"} \cup When(z # desk.zone, {"zone"}))
                     \cup When("solar" \in kind,
                               {"pref", IF auto THEN "service" ELSE "verify"}))

\* set_directory of wallpaper-manager.py, save_location of location-time-manager.py
BeginExtra ==
    \E e \in Extras \ {desk.pref.extra} :
       Undertake("extra", [Snapshot EXCEPT !.pref.extra = e], {"pref"})

\* reconcile_state: effective.json decides, except for the night mode.
BeginStatus ==
    LET old == desk.state
        pref == [desk.pref EXCEPT !.choice = old.choice]
        theme == Resolve(old.choice, old.wall)
        state == [old EXCEPT !.theme = theme,
                             !.night = IF old.choice.sun THEN "off" ELSE pref.night]
        stale == When(desk.theme # theme, {"theme"}) \cup When(desk.wall # old.wall, {"wall"})
    IN  IF old.wall \notin images
        THEN /\ replies' = replies \cup {Shown(old)}
             /\ UNCHANGED <<deskvars, change, history>>
        ELSE /\ Undertake("status", [Snapshot EXCEPT !.theme = theme, !.wall = old.wall,
                                                    !.state = state, !.pref = pref],
                  {"mend", "opacity"} \cup stale \cup When(stale # {}, {"reload"})
                    \cup When(state # old, {"state"}) \cup When(pref # desk.pref, {"pref"}))
             /\ UNCHANGED replies

Begin ==
    /\ change = NoChange
    /\ Spend("jobs")
    /\ BeginLook \/ BeginNight \/ BeginNightReconcile \/ BeginPlace \/ BeginExtra
    /\ UNCHANGED shellvars

-----------------------------------------------------------------------------
(* The steps of the change: one after the other, forth as in the body of   *)
(* the code, and back as in its handler.                                   *)

Forth == [look |-> <<"wall", "theme", "reload", "swaybg", "state", "service", "opacity",
                     "pref", "publish">>,
          night |-> <<"pref", "service", "state", "told">>,
          reconcile |-> <<"mendOwn", "state">>,
          place |-> <<"zone", "pref", "service", "verify", "check">>,
          extra |-> <<"pref">>,
          status |-> <<"theme", "wall", "reload", "mend", "opacity", "state", "pref">>]
Back == [look |-> <<"wall", "theme", "state", "pref", "reload", "service", "opacity">>,
         night |-> <<"pref", "state", "service">>,
         reconcile |-> <<>>,
         place |-> <<"pref", "service", "zone">>,
         extra |-> <<>>,
         status |-> <<"theme", "wall", "reload">>]

\* The step the change is at, the steps that have returned, what they aim at.
At(s) ==
    LET order == IF change.undoing THEN Back[change.kind] ELSE Forth[change.kind]
    IN  \E i \in DOMAIN order :
          order[i] = s /\ s \in change.todo /\ \A j \in 1..(i - 1) : order[j] \notin change.todo
Done == change.plan \ change.todo
Aim == IF change.undoing THEN change.old ELSE change.new

\* apply_service: stop, or restart, and then wlsunset runs with what "launch"
\* reads in the files at that moment.  An own instance is mended only.
Restarted(s, to) ==
    IF s = "mendOwn" /\ stranger THEN desk.night
    ELSE IF Gamma(to.pref, to.state) = "off" THEN "off"
    ELSE Gamma(desk.pref, desk.state)

\* What a step makes of the desktop: the files it replaces; Sway and the windows
\* read them as they are then.
Did(s, to) ==
    CASE s \in {"wall", "theme", "state", "pref", "zone"} -> [desk EXCEPT ![s] = to[s]]
      [] s = "reload" -> [desk EXCEPT !.sway = [wall |-> desk.wall, theme |-> desk.theme]]
      [] s \in {"service", "mend", "mendOwn"} -> [desk EXCEPT !.night = Restarted(s, to)]
      [] s = "opacity" -> [desk EXCEPT !.opacity = desk.state.theme.profile]
      [] OTHER -> desk

\* wlsunset is the unit's alone, and runs with these arguments.
RunsWith(night, to) == ~stranger /\ night = Gamma(to.pref, to.state)

\* swaybg shows the image that was asked for.
ShowsImage(to) == desk.sway.wall = to.wall

\* A step that looks at what it did, and finds it.
Verified(s, to) ==
    CASE s \in {"service", "mend", "mendOwn", "verify"} -> RunsWith(Did(s, to).night, to)
      [] s = "swaybg" -> ShowsImage(to)
      [] s = "check" -> desk.zone = to.zone
      [] OTHER -> TRUE

\* Mistake: the shell adopts every answer it reads.
AcceptsAny(seen) == seen.rev >= 0

\* acceptSnapshot: the shell never goes back to an earlier revision.
Accepts(seen) == seen.rev >= shell.rev
Publishes(s) == s = "publish" /\ Accepts(Shown(change.new.state))

\* What the handlers take back: a look everything it may have touched, the
\* place only what had returned.
LookBack ==
    {"wall", "theme", "state", "pref"}
      \cup When(Done \cap {"wall", "theme"} # {}, {"reload"})
      \cup (change.plan \cap {"service", "opacity"})
NightBack == {"pref", "state", "service"}
PlaceBack ==
    (Done \cap {"pref", "zone"}) \cup When("pref" \in Done, change.plan \cap {"service"})
StatusBack == {"theme", "wall"} \cup (change.plan \cap {"reload"})

\* Mistake: the handler of a look restores files and Sway, not the services.
TakesBackFiles ==
    CASE change.kind = "look" -> LookBack \ {"service", "opacity"}
      [] change.kind = "night" -> NightBack
      [] change.kind = "place" -> PlaceBack
      [] change.kind = "status" -> StatusBack
      [] OTHER -> {}

TakesBack ==
    CASE change.kind = "look" -> LookBack
      [] change.kind = "night" -> NightBack
      [] change.kind = "place" -> PlaceBack
      [] change.kind = "status" -> StatusBack
      [] OTHER -> {}

\* The change returns and the lock is free.  The shell reads the answer to what
\* it asked for when it comes to it.
Returns(answer, hurt) ==
    /\ change' = NoChange
    /\ damage' = hurt
    /\ asked' = IF hurt = "none" THEN {} ELSE asked
    /\ UNCHANGED <<was, starting>>
    /\ replies' = replies \cup answer

\* Nobody may wait for the answer to a look; "status" is what the shell runs.
Answers ==
    CASE change.kind = "look" -> {{}, {Shown(change.new.state)}}
      [] change.kind = "status" -> {{Shown(change.new.state)}}
      [] OTHER -> {{}}
Mended == IF change.kind = "status" /\ damage = "interrupted" THEN "none" ELSE damage

\* A step that does not raise.
StepSucceeds ==
    /\ change # NoChange
    /\ \E s \in change.todo :
         /\ At(s)
         /\ Verified(s, Aim)
         /\ s = "publish" => Publishes(s)
         /\ desk' = Did(s, Aim)
         /\ shell' = IF s = "publish" THEN Shown(change.new.state) ELSE shell
         /\ \/ /\ change.todo # {s}
               /\ change' = [change EXCEPT !.todo = @ \ {s}]
               /\ UNCHANGED <<history, replies, starting>>
            \/ change.todo = {s} /\ change.undoing /\ Returns({}, damage)
            \/ /\ change.todo = {s} /\ ~change.undoing
               /\ \E answer \in Answers : Returns(answer, Mended)
    /\ UNCHANGED <<images, stranger, left>>

\* It raises: because of what it sees, or before or after it had its effect.
Raises(s) ==
    \/ /\ ~Verified(s, Aim)
       /\ desk' = Did(s, Aim)
       /\ UNCHANGED <<shell, left>>
    \/ /\ s = "publish" /\ ~Publishes(s)
       /\ UNCHANGED <<desk, shell, left>>
    \/ /\ Spend("mishaps")
       /\ \/ UNCHANGED <<desk, shell>>
          \/ /\ desk' = Did(s, Aim)
             /\ shell' = IF Publishes(s) THEN Shown(change.new.state) ELSE shell

\* The handler begins, if the change has one with something to do.  The
\* handler of a place does not see what a step did before it raised.
StepFails ==
    /\ change # NoChange /\ ~change.undoing
    /\ \E s \in change.todo :
         LET hurt == IF change.kind = "place" /\ s \in {"zone", "pref"} /\ desk' # desk
                     THEN "broken" ELSE damage
         IN  /\ At(s)
             /\ Raises(s)
             /\ \/ TakesBack = {} /\ Returns({}, hurt)
                \/ /\ TakesBack # {}
                   /\ change' = [change EXCEPT !.todo = TakesBack, !.undoing = TRUE]
                   /\ damage' = hurt
                   /\ UNCHANGED <<was, asked, replies, starting>>
    /\ UNCHANGED <<images, stranger>>

\* The handler raises: the rest of it is skipped, except for a place, whose
\* zone is taken back by itself.
HandlerFails ==
    /\ change # NoChange /\ change.undoing
    /\ \E s \in change.todo :
         LET rest == IF change.kind = "place" THEN (change.todo \ {s}) \cap {"zone"} ELSE {}
         IN  /\ At(s)
             /\ Raises(s)
             /\ \/ rest = {} /\ Returns({}, "broken")
                \/ /\ rest # {}
                   /\ change' = [change EXCEPT !.todo = rest]
                   /\ damage' = "broken"
                   /\ UNCHANGED <<was, asked, replies, starting>>
    /\ UNCHANGED <<images, stranger>>

\* The change is killed and interrupted, if it had begun; what was taken back
\* or repaired only in part is broken.
Kill ==
    LET half == \/ change.undoing
                \/ /\ change.kind = "status" /\ "reload" \notin Done
                   /\ Done \cap {"theme", "wall"} # {}
        untouched == damage = "broken" \/ (Done = {} /\ ~change.undoing)
    IN  /\ change # NoChange
        /\ Spend("mishaps")
        /\ Returns({}, IF untouched THEN damage ELSE IF half THEN "broken" ELSE "interrupted")
        /\ UNCHANGED <<deskvars, shell>>

-----------------------------------------------------------------------------
(* The shell and the rest of the desktop.                                  *)

\* The shell starts: it reads effective.json without the lock, then runs
\* "status", which fails if the lock is taken.
ShellStarts ==
    /\ Spend("starts")
    /\ shell' = Shown(desk.state) /\ replies' = {} /\ starting' = TRUE
    /\ UNCHANGED <<deskvars, history, change>>

RunStatus ==
    /\ starting /\ starting' = FALSE
    /\ IF change = NoChange THEN BeginStatus
       ELSE UNCHANGED <<deskvars, history, change, replies>>
    /\ UNCHANGED <<shell, left>>

AcceptReply ==
    /\ \E r \in replies :
         /\ replies' = replies \ {r}
         /\ shell' = IF Accepts(r) THEN r ELSE shell
    /\ UNCHANGED <<deskvars, history, change, left, starting>>

\* wlsunset fails and systemd starts it again, at any moment (launch).
Relaunch ==
    /\ desk.night # "off"
    /\ desk' = [desk EXCEPT !.night = Gamma(desk.pref, desk.state)]
    /\ UNCHANGED <<images, stranger, shellvars, history, change, left>>

\* The listener of the windows reads effective.json at every event.
FocusChanges ==
    /\ desk' = [desk EXCEPT !.opacity = desk.state.theme.profile]
    /\ UNCHANGED <<images, stranger, shellvars, history, change, left>>

\* A new session: Sway and wlsunset read the files.
SessionStarts ==
    /\ change = NoChange
    /\ desk' = [desk EXCEPT !.sway = [wall |-> desk.wall, theme |-> desk.theme],
                            !.night = Gamma(desk.pref, desk.state)]
    /\ UNCHANGED <<images, stranger, shellvars, history, change, left>>

LoseImage ==
    /\ Spend("mishaps")
    /\ \E w \in images : images' = images \ {w}
    /\ UNCHANGED <<desk, stranger, shellvars, history, change>>

StrangerRuns ==
    /\ ~stranger /\ stranger' = TRUE
    /\ Spend("mishaps")
    /\ UNCHANGED <<desk, images, shellvars, history, change>>

AppearanceNext ==
    \/ Begin \/ StepSucceeds \/ StepFails \/ HandlerFails \/ Kill
    \/ ShellStarts \/ RunStatus \/ AcceptReply
    \/ Relaunch \/ FocusChanges \/ SessionStarts \/ LoseImage \/ StrangerRuns

AppearanceSpec == AppearanceInit /\ [][AppearanceNext]_avars

-----------------------------------------------------------------------------

Steps == {"wall", "theme", "reload", "swaybg", "state", "service", "opacity", "pref",
          "publish", "told", "mend", "mendOwn", "verify", "check", "zone"}
Nights == {"off", "on"} \cup Coords
FileSets == [wall : Wallpapers, theme : Themes, state : States, pref : Prefs, zone : Zones]
Desks == [wall : Wallpapers, theme : Themes, state : States, pref : Prefs, zone : Zones,
          sway : [wall : Wallpapers, theme : Themes], night : Nights,
          opacity : {"normal", "sun-light", "sun-dark"}]
Changes == [kind : {"look", "night", "place", "reconcile", "extra", "status"},
            old : FileSets, new : FileSets, plan : SUBSET Steps,
            todo : (SUBSET Steps) \ {{}}, undoing : BOOLEAN]
LookSet == [scene : [choice : Choices, theme : Themes, wall : Wallpapers, rev : Nat],
            night : NightModes, coords : Coords, extra : Extras, zone : Zones]
Seen == [rev : Nat, wall : Wallpapers, theme : Themes]

\* Every component of the appearance managers' model has its type.
AppearanceTypeOK ==
    /\ desk \in Desks /\ images \subseteq Wallpapers /\ stranger \in BOOLEAN
    /\ change \in Changes \cup {NoChange}
    /\ shell \in Seen /\ replies \subseteq Seen /\ starting \in BOOLEAN
    /\ damage \in {"none", "interrupted", "broken"}
    /\ was \in LookSet /\ asked \subseteq LookSet

\* The managers implement the register: a change that fails has restored files,
\* Sway, wlsunset, opacity, place and zone; one that succeeds has set them all;
\* after a kill, the next "status" makes the desktop whole again, each part of
\* its look being one it had or that was asked for (the handlers of transaction,
\* change and apply, and reconcile_state).
Register == INSTANCE AppearanceRegister WITH
    phase <- IF damage # "none" THEN damage ELSE IF change = NoChange THEN "rest" ELSE "changing",
    look <- IF damage # "none" \/ change # NoChange THEN was
            ELSE IF Whole THEN Look(desk) ELSE [torn |-> TRUE],
    asked <- asked
AtomicLook == Register!Spec

\* When no change runs on an unhurt desktop and the shell has read every
\* answer, it is not behind effective.json, and what it shows at that revision
\* is what the file says (acceptSnapshot, publish_live, startupReader).
ShellNotBehind ==
    change = NoChange /\ damage = "none" /\ replies = {} =>
        /\ shell.rev >= desk.state.rev
        /\ shell.rev = desk.state.rev => shell = Shown(desk.state)

\* "Au restart, effective.json tranche toute publication interrompue": when
\* "status" has succeeded, Sway shows what effective.json says.
RestartDecides ==
    [][ change # NoChange /\ change' = NoChange /\ change.kind = "status" /\ ~change.undoing
          /\ replies' # replies
        => desk'.sway = [wall |-> desk'.state.wall, theme |-> desk'.state.theme] ]_avars
=============================================================================
