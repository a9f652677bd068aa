------------------------- MODULE AppearanceProofs -------------------------
(***************************************************************************)
(* The managers of the appearance implement the register, the shell is not *)
(* behind effective.json, and the applications follow it: for any images,  *)
(* places, zones and adapters, any number of changes, failures, kills,     *)
(* restarts and strangers.  The first part is about Appearance: what a     *)
(* change plans, how far it has come going forward or back, where it ends. *)
(* The second is about AppearanceSync.                                     *)
(***************************************************************************)
EXTENDS Appearance, AppearanceSync, TLAPS

\* A whole set of files: Sway's files, preferences and effective.json agree.
Even(f) == f.wall = f.state.wall /\ f.theme = f.state.theme
Square(f) ==
    /\ Even(f) /\ f.pref.choice = f.state.choice
    /\ f.state.night = Effective(f.pref, f.state)
Coherent(s) == s.theme = Resolve(s.choice, s.wall)

Profile(s) == s.theme.profile
Sway(f) == [wall |-> f.wall, theme |-> f.theme]
NotOlder(s, t) == s.rev > t.rev \/ Shown(s) = Shown(t)

Work == [look |-> {"wall", "theme", "reload", "swaybg", "state", "service", "opacity", "pref",
                   "publish"},
         night |-> {"pref", "service", "state", "told"},
         reconcile |-> {"mendOwn", "state"},
         place |-> {"zone", "pref", "service", "verify", "check"},
         extra |-> {"pref"},
         status |-> {"theme", "wall", "reload", "mend", "opacity", "state", "pref"}]

\* What the change that was begun with these files, for these, has to do.
Scenic == {"look", "status"}
Planned(c) ==
    LET o == c.old  n == c.new  plan == c.plan
    IN  /\ plan \subseteq Work[c.kind]
        /\ Coherent(o.state) /\ Coherent(n.state) /\ NotOlder(n.state, o.state)
        /\ \A f \in {"state", "pref", "zone"} : f \notin plan => n[f] = o[f]
        /\ Square(o) => Square(n)
        /\ c.kind \in Scenic => Even(n)
        /\ c.kind = "status" => Square(n)
        /\ c.kind # "look" =>
             /\ \A f \in {"wall", "theme"} : f \notin plan => n[f] = o[f]
             /\ n.state.wall = o.state.wall /\ n.state.theme = o.state.theme
             /\ n.state.rev = o.state.rev
        /\ c.kind = "look" =>
             /\ "wall" \in plan <=> n.wall # o.state.wall
             /\ "theme" \in plan <=> n.theme # o.state.theme
             /\ "publish" \in plan
        /\ "reload" \in plan <=> plan \cap {"wall", "theme"} # {}
        /\ c.kind = "status" => {"mend", "opacity"} \subseteq plan
        /\ c.kind \in {"status", "reconcile"} => Look(n) = Look(o) /\ (Square(o) => n = o)

\* What wlsunset would run with, while the files are part old and part new.
NightPlanned(c) ==
    LET o == c.old  n == c.new
    IN  /\ "service" \notin c.plan =>
             \A p \in {o.pref, n.pref}, s \in {o.state, n.state} :
               Gamma(p, s) = Gamma(o.pref, o.state)
        /\ "service" \in c.plan =>
             /\ c.kind \in {"look", "night", "place"}
             /\ c.kind = "look" =>
                  /\ "state" \in c.plan
                  /\ \A p \in {o.pref, n.pref} : /\ Gamma(p, n.state) = Gamma(n.pref, n.state)
                                                 /\ Gamma(p, o.state) = Gamma(o.pref, o.state)
             /\ c.kind # "look" =>
                  /\ "pref" \in c.plan
                  /\ \A s \in {o.state, n.state} : /\ Gamma(n.pref, s) = Gamma(n.pref, n.state)
                                                   /\ Gamma(o.pref, s) = Gamma(o.pref, o.state)
        /\ Profile(n.state) # Profile(o.state)
             => c.kind = "look" /\ {"opacity", "state"} \subseteq c.plan

LookFiles == {"wall", "theme", "state", "pref", "zone"}

\* How far a change has come: todo is what is left of it.
BodyDone(c, d, todo, hurt) ==
    LET done == c.plan \ todo  o == c.old  n == c.new
    IN  /\ todo \subseteq c.plan
        /\ \A f \in LookFiles : d[f] = IF f \in done THEN n[f] ELSE o[f]
        /\ IF "reload" \in done THEN d.sway = Sway(d) /\ todo \cap {"wall", "theme"} = {}
                                ELSE Even(o) => d.sway = Sway(o)
        /\ c.kind = "look" /\ "state" \in done => todo \cap {"wall", "theme", "reload"} = {}
        /\ "service" \in done =>
             IF c.kind = "look" THEN "state" \notin todo ELSE "pref" \notin todo
        /\ c.kind = "look" /\ todo # {} => "publish" \in todo
        /\ c.kind = "status" /\ "mend" \notin todo => d.night = Gamma(d.pref, d.state)
        /\ c.kind = "status" /\ "opacity" \notin todo => d.opacity = Profile(d.state)
        /\ hurt = "none" =>
             /\ "service" \notin todo =>
                  d.night = Gamma(n.pref, n.state) /\ Gamma(d.pref, d.state) = Gamma(n.pref, n.state)
             /\ done \cap {"service", "pref", "state"} = {} => d.night = Gamma(o.pref, o.state)
             /\ "opacity" \notin todo =>
                  d.opacity = Profile(n.state) /\ Profile(d.state) = Profile(n.state)
             /\ (done \cap {"opacity", "state"} = {} \/ Profile(n.state) = Profile(o.state))
                  => d.opacity = Profile(o.state)

\* How far its handler has come.
HandlerDone(c, d, todo, hurt) ==
    LET o == c.old  n == c.new
    IN  /\ c.kind \in {"look", "night", "place", "status"}
        /\ c.kind = "place" => "state" \notin todo
        /\ "service" \in c.plan \ todo => "pref" \notin todo /\ "state" \notin todo
        /\ \A f \in LookFiles :
             /\ d[f] \in {o[f], n[f]}
             /\ f \notin todo => d[f] = o[f] \/ (c.kind = "status" /\ f \in {"state", "pref"})
        /\ "reload" \notin todo => (Even(o) => d.sway = Sway(o))
        /\ hurt = "none" =>
             /\ "service" \notin todo =>
                  d.night = Gamma(o.pref, o.state) /\ Gamma(d.pref, d.state) = Gamma(o.pref, o.state)
             /\ "opacity" \notin todo =>
                  d.opacity = Profile(o.state) /\ Profile(d.state) = Profile(o.state)

KnownAs(l, looks) == \A part \in DOMAIN l : \E m \in looks : l[part] = m[part]
SwayKnows(d) == Even(d) => d.sway = Sway(d)

\* A desktop whose files are square and whose services follow them.
WholeDesk(d) ==
    /\ d = Settled(d.state, d.pref, d.zone)
    /\ d.pref.choice = d.state.choice
    /\ d.state.theme = Resolve(d.state.choice, d.state.wall)
    /\ d.state.night = Effective(d.pref, d.state)

\* No change runs on the desktop d; h is what befell it, w what it looked like when
\* it was last at rest, as what has been asked of it since.
AtRest(d, h, w, as) ==
    /\ h = "none" => WholeDesk(d)
    /\ h = "interrupted" => KnownAs(Look(d), {w} \cup as) /\ SwayKnows(d)

\* The change c runs.
Underway(c, d, h, w, as) ==
    /\ h = "none" =>
         /\ Square(c.old) /\ w = Look(c.old)
         /\ as = IF c.kind \in {"status", "reconcile"} THEN {} ELSE {Look(c.new)}
    /\ h = "interrupted" =>
         KnownAs(Look(c.old), {w} \cup as) /\ KnownAs(Look(c.new), {w} \cup as)
    /\ ~c.undoing => BodyDone(c, d, c.todo, h)
    /\ c.undoing => HandlerDone(c, d, c.todo, h)

\* The shell is not behind what the files say, or will read an answer that says it;
\* no answer is of a later look.
Caught(sh, seen) == sh.rev > seen.rev \/ sh = seen
Told(h, sh, answers, state) ==
    /\ h = "none" => Caught(sh, Shown(state)) \/ Shown(state) \in answers
    /\ \A r \in answers : r.rev < state.rev \/ r = Shown(state)

\* effective.json is never at odds with itself, and a change knows what to do.
Plans ==
    /\ Coherent(desk.state)
    /\ change # NoChange => Planned(change) /\ NightPlanned(change)

LookInv ==
    damage # "broken" =>
      IF change = NoChange
      THEN AtRest(desk, damage, was, asked) /\ Told(damage, shell, replies, desk.state)
      ELSE /\ Underway(change, desk, damage, was, asked)
           /\ Told(damage, shell, replies, change.old.state)

-----------------------------------------------------------------------------
\* Types.

\* What wlsunset may run with.
LEMMA GammaType == \A p \in Prefs, s \in States : Gamma(p, s) \in Nights
BY DEF Gamma, Nights, Prefs, NightModes

\* The fields of the desktop.
LEMMA DeskFields ==
    ASSUME NEW d \in Desks
    PROVE  /\ d.wall \in Wallpapers /\ d.theme \in Themes /\ d.state \in States
           /\ d.pref \in Prefs /\ d.zone \in Zones
           /\ d.sway \in [wall : Wallpapers, theme : Themes]
           /\ d.night \in Nights /\ d.opacity \in {"normal", "sun-light", "sun-dark"}
BY DEF Desks

\* What a caller who takes the lock reads.
LEMMA SnapshotType == desk \in Desks => Snapshot \in FileSets
BY DEF Desks, FileSets, Snapshot

\* What a service runs with after a step.
LEMMA RestartedType ==
    ASSUME desk \in Desks, NEW s, NEW to \in FileSets
    PROVE  Restarted(s, to) \in Nights
BY DeskFields, GammaType DEF Restarted, FileSets, Nights

\* A step changes one thing.
LEMMA DidThis ==
    ASSUME desk \in Desks, NEW s \in Steps, NEW to \in FileSets, NEW d, d = Did(s, to)
    PROVE  /\ d \in Desks
           /\ \A f \in LookFiles : d[f] = IF f = s THEN to[f] ELSE desk[f]
           /\ d.sway = IF s = "reload" THEN Sway(desk) ELSE desk.sway
           /\ d.night = IF s \in {"service", "mend", "mendOwn"} THEN Restarted(s, to)
                        ELSE desk.night
           /\ d.opacity = IF s = "opacity" THEN Profile(desk.state) ELSE desk.opacity
<1>0. /\ to.wall \in Wallpapers /\ to.theme \in Themes /\ to.state \in States
      /\ to.pref \in Prefs /\ to.zone \in Zones
  BY DEF FileSets
<1>1. CASE s = "wall"
  <2>1. d = [desk EXCEPT !["wall"] = to["wall"]]
    BY <1>1 DEF Did
  <2> QED
    BY <1>0, <1>1, <2>1 DEF Desks, LookFiles
<1>2. CASE s = "theme"
  <2>1. d = [desk EXCEPT !["theme"] = to["theme"]]
    BY <1>2 DEF Did
  <2> QED
    BY <1>0, <1>2, <2>1 DEF Desks, LookFiles
<1>3. CASE s = "state"
  <2>1. d = [desk EXCEPT !["state"] = to["state"]]
    BY <1>3 DEF Did
  <2> QED
    BY <1>0, <1>3, <2>1 DEF Desks, LookFiles
<1>4. CASE s = "pref"
  <2>1. d = [desk EXCEPT !["pref"] = to["pref"]]
    BY <1>4 DEF Did
  <2> QED
    BY <1>0, <1>4, <2>1 DEF Desks, LookFiles
<1>5. CASE s = "zone"
  <2>1. d = [desk EXCEPT !["zone"] = to["zone"]]
    BY <1>5 DEF Did
  <2> QED
    BY <1>0, <1>5, <2>1 DEF Desks, LookFiles
<1>6. CASE s = "reload"
  <2>1. d = [desk EXCEPT !.sway = Sway(desk)]
    BY <1>6 DEF Did, Sway
  <2>2. Sway(desk) \in [wall : Wallpapers, theme : Themes]
    BY DeskFields DEF Sway
  <2> HIDE DEF Sway
  <2> QED
    BY <1>6, <2>1, <2>2 DEF Desks, LookFiles
<1>7. CASE s \in {"service", "mend", "mendOwn"}
  <2>1. d = [desk EXCEPT !.night = Restarted(s, to)]
    BY <1>7 DEF Did
  <2>2. Restarted(s, to) \in Nights
    BY RestartedType
  <2> QED
    BY <1>7, <2>1, <2>2 DEF Desks, LookFiles
<1>8. CASE s = "opacity"
  <2>1. d = [desk EXCEPT !.opacity = Profile(desk.state)]
    BY <1>8 DEF Did, Profile
  <2>2. Profile(desk.state) \in {"normal", "sun-light", "sun-dark"}
    BY DeskFields DEF Profile, States, Themes
  <2> HIDE DEF Profile
  <2> QED
    BY <1>8, <2>1, <2>2 DEF Desks, LookFiles
<1>9. CASE s \in {"swaybg", "publish", "told", "verify", "check"}
  <2>1. d = desk
    BY <1>9 DEF Did
  <2> QED
    BY <1>9, <2>1 DEF LookFiles
<1> QED
  BY <1>1, <1>2, <1>3, <1>4, <1>5, <1>6, <1>7, <1>8, <1>9 DEF Steps

-----------------------------------------------------------------------------
\* What a change plans.

\* The look of the files.
LEMMA LookFields ==
    ASSUME NEW f
    PROVE  /\ DOMAIN Look(f) = {"scene", "night", "coords", "extra", "zone"}
           /\ Look(f).scene = [choice |-> f.state.choice, theme |-> f.state.theme,
                               wall |-> f.state.wall, rev |-> f.state.rev]
           /\ Look(f).night = f.pref.night /\ Look(f).coords = f.pref.coords
           /\ Look(f).extra = f.pref.extra /\ Look(f).zone = f.zone
BY DEF Look

\* The look of files is one of the looks.
LEMMA LookType ==
    /\ \A f \in FileSets : Look(f) \in LookSet
    /\ desk \in Desks => Look(desk) = Look(Snapshot) /\ Look(desk) \in LookSet
<1>1. \A f : f.state \in States /\ f.pref \in Prefs /\ f.zone \in Zones => Look(f) \in LookSet
  BY DEF Look, LookSet, States, Prefs
<1>2. Look(desk) = Look(Snapshot)
  BY DEF Look, Snapshot
<1> QED
  BY <1>1, <1>2, DeskFields DEF FileSets

\* A choice and an image give a theme, the Sun profile its own.
LEMMA ResolveType ==
    \A c \in Choices, w \in Wallpapers :
      /\ Resolve(c, w) \in Themes
      /\ Resolve(c, w).profile # "normal" <=> c.sun
BY DEF Resolve, Choices, Themes, Flavors, Analysis

\* A new choice, or image.
LookData(o, choice, w, theme, image, themed, visual, pref, state, n, plan) ==
    /\ theme = Resolve(choice, w)
    /\ image = (w # o.state.wall)
    /\ themed = (theme # o.state.theme)
    /\ visual = (image \/ themed \/ choice.mode # o.pref.choice.mode)
    /\ pref = [o.pref EXCEPT !.choice = choice]
    /\ state = [choice |-> choice, theme |-> theme, wall |-> w,
                night |-> IF choice.sun THEN "off" ELSE pref.night,
                rev |-> o.state.rev + (IF visual THEN 1 ELSE 0)]
    /\ n = [wall |-> w, theme |-> theme, state |-> state, pref |-> pref, zone |-> o.zone]
    /\ plan = {"state", "pref", "publish"}
                \cup When(image, {"wall", "reload", "swaybg"})
                \cup When(themed, {"theme", "reload"})
                \cup When(Suspended(o.state) # choice.sun, {"service"})
                \cup When(theme.profile # o.state.theme.profile, {"opacity"})

\* What is planned for a new choice, or image.
LEMMA LookPlanned ==
    ASSUME NEW o \in FileSets, NEW choice \in Choices, NEW w \in Wallpapers,
           NEW theme, NEW image, NEW themed, NEW visual, NEW pref, NEW state, NEW n, NEW plan,
           LookData(o, choice, w, theme, image, themed, visual, pref, state, n, plan),
           Coherent(o.state),
           NEW c, c.kind = "look", c.old = o, c.new = n, c.plan = plan
    PROVE  /\ n \in FileSets /\ plan \in SUBSET Steps /\ plan # {}
           /\ Planned(c) /\ NightPlanned(c)
<1> USE DEF LookData
<1>1. /\ theme \in Themes /\ (theme.profile # "normal" <=> choice.sun)
      /\ choice.sun \in BOOLEAN
  BY ResolveType DEF Choices
<1>2. /\ o.state \in States /\ o.pref \in Prefs /\ o.zone \in Zones
      /\ o.state.rev \in Nat /\ o.pref.night \in NightModes
  BY DEF FileSets, States, Prefs
<1>3. /\ pref \in Prefs /\ pref.night = o.pref.night /\ pref.coords = o.pref.coords
      /\ pref.extra = o.pref.extra /\ pref.choice = choice
  BY <1>2 DEF Prefs
<1>4. /\ state \in States /\ state.choice = choice /\ state.theme = theme /\ state.wall = w
      /\ state.night = (IF choice.sun THEN "off" ELSE pref.night)
      /\ state.rev = o.state.rev + (IF visual THEN 1 ELSE 0)
  BY <1>1, <1>2, <1>3 DEF States, NightModes
<1>5. /\ n.wall = w /\ n.theme = theme /\ n.state = state /\ n.pref = pref /\ n.zone = o.zone
      /\ n["wall"] = w /\ n["theme"] = theme /\ n["state"] = state /\ n["pref"] = pref
      /\ n["zone"] = o["zone"]
  OBVIOUS
<1>6. n \in FileSets
  BY <1>1, <1>2, <1>3, <1>4 DEF FileSets
<1>7. /\ plan \in SUBSET Steps /\ plan # {} /\ plan \subseteq Work["look"]
      /\ "wall" \in plan <=> w # o.state.wall
      /\ "theme" \in plan <=> theme # o.state.theme
      /\ "reload" \in plan <=> plan \cap {"wall", "theme"} # {}
      /\ "service" \in plan <=> Suspended(o.state) # choice.sun
      /\ "opacity" \in plan <=> theme.profile # o.state.theme.profile
      /\ {"state", "pref", "publish"} \subseteq plan /\ "zone" \notin plan
  BY DEF When, Steps, Work
<1>8. Suspended(state) <=> choice.sun
  BY <1>1, <1>4 DEF Suspended
<1> HIDE DEF Resolve
<1>9. Coherent(state) /\ NotOlder(state, o.state)
  <2>1. CASE visual
    BY <1>2, <1>4, <2>1 DEF NotOlder, Coherent
  <2>2. CASE ~visual
    <3>1. w = o.state.wall /\ theme = o.state.theme
      BY <2>2
    <3>2. state.rev = o.state.rev
      BY <1>2, <1>4, <2>2
    <3> QED
      BY <1>4, <3>1, <3>2 DEF NotOlder, Coherent, Shown
  <2> QED
    BY <2>1, <2>2
<1>10. Square(n) /\ Even(n)
  BY <1>3, <1>4, <1>5, <1>8, <1>1 DEF Square, Even, Effective
<1>11. Planned(c)
  BY <1>5, <1>7, <1>9, <1>10 DEF Planned, Scenic
<1>12. \A p \in {o.pref, pref} : p.night = o.pref.night /\ p.coords = o.pref.coords
  BY <1>3
<1>13. NightPlanned(c)
  <2>1. "service" \notin plan => (Suspended(o.state) <=> Suspended(state))
    BY <1>7, <1>8, <1>1
  <2>2. \A p \in {o.pref, pref} : \A s : Gamma(p, s) = Gamma(o.pref, s)
    BY <1>12 DEF Gamma
  <2>3. "service" \notin plan => \A s \in {o.state, state} : Gamma(o.pref, s) = Gamma(o.pref, o.state)
    BY <2>1 DEF Gamma
  <2>4. Profile(state) # Profile(o.state) => "opacity" \in plan
    BY <1>4, <1>7 DEF Profile
  <2> QED
    BY <1>5, <1>7, <2>2, <2>3, <2>4 DEF NightPlanned
<1> QED
  BY <1>6, <1>7, <1>11, <1>13

\* Another night mode.
NightData(o, m, pref, state, n) ==
    /\ pref = [o.pref EXCEPT !.night = m]
    /\ state = [o.state EXCEPT !.night = Effective(pref, o.state)]
    /\ n = [o EXCEPT !.pref = pref, !.state = state]

\* What is planned for another night mode.
LEMMA NightPlannedOf ==
    ASSUME NEW o \in FileSets, NEW m \in NightModes,
           NEW pref, NEW state, NEW n, NightData(o, m, pref, state, n),
           Coherent(o.state),
           NEW c, c.kind = "night", c.old = o, c.new = n,
           c.plan = {"pref", "service", "state", "told"}
    PROVE  /\ n \in FileSets
           /\ Planned(c) /\ NightPlanned(c)
<1> USE DEF NightData
<1>1. /\ o.state \in States /\ o.pref \in Prefs /\ o.zone \in Zones
      /\ o.state.rev \in Nat /\ o.pref.night \in NightModes
      /\ o.wall \in Wallpapers /\ o.theme \in Themes
  BY DEF FileSets, States, Prefs
<1>2. /\ pref \in Prefs /\ pref.night = m /\ pref.coords = o.pref.coords
      /\ pref.extra = o.pref.extra /\ pref.choice = o.pref.choice
  BY <1>1 DEF Prefs
<1>3. Effective(pref, o.state) \in NightModes
  BY <1>1, <1>2 DEF Effective, NightModes
<1>4. /\ state \in States /\ state.choice = o.state.choice /\ state.theme = o.state.theme
      /\ state.wall = o.state.wall /\ state.rev = o.state.rev
      /\ state.night = Effective(pref, o.state)
  BY <1>1, <1>3 DEF States
<1>5. /\ n \in FileSets
      /\ n.wall = o.wall /\ n.theme = o.theme /\ n.state = state /\ n.pref = pref
      /\ n.zone = o.zone /\ n["wall"] = o["wall"] /\ n["theme"] = o["theme"]
      /\ n["zone"] = o["zone"]
  BY <1>1, <1>2, <1>4 DEF FileSets
<1> HIDE DEF Resolve, Effective
<1>6. Effective(pref, o.state) = Effective(pref, state)
  BY <1>4 DEF Effective, Suspended
<1>7. Square(o) => Square(n)
  BY <1>2, <1>4, <1>5, <1>6 DEF Square, Even
<1>8. Coherent(state) /\ NotOlder(state, o.state)
  BY <1>4 DEF Coherent, NotOlder, Shown
<1>9. Planned(c)
  <2>1. c.plan \subseteq Work[c.kind] /\ "reload" \notin c.plan /\ "mend" \notin c.plan
        /\ c.plan \cap {"wall", "theme"} = {}
    BY DEF Work
  <2>2. \A f \in {"state", "pref", "zone"} : f \notin c.plan => n[f] = o[f]
    BY <1>5
  <2> QED
    BY <1>4, <1>5, <1>7, <1>8, <2>1, <2>2 DEF Planned, Scenic
<1>10. \A p : Gamma(p, state) = Gamma(p, o.state)
  BY <1>4 DEF Gamma, Suspended
<1>11. NightPlanned(c)
  <2>1. Profile(n.state) = Profile(o.state)
    BY <1>4, <1>5 DEF Profile
  <2>2. "service" \in c.plan /\ "pref" \in c.plan
    OBVIOUS
  <2> QED
    BY <1>5, <1>10, <2>1, <2>2 DEF NightPlanned
<1> QED
  BY <1>5, <1>9, <1>11

\* The night mode that effective.json should have.
LEMMA ReconcilePlanned ==
    ASSUME NEW o \in FileSets,
           NEW eff, eff = Effective(o.pref, o.state),
           NEW n, n = [o EXCEPT !.state.night = eff],
           NEW plan, plan = {"mendOwn"} \cup When(eff # o.state.night, {"state"}),
           Coherent(o.state),
           NEW c, c.kind = "reconcile", c.old = o, c.new = n, c.plan = plan
    PROVE  /\ n \in FileSets /\ plan \in SUBSET Steps /\ plan # {}
           /\ Planned(c) /\ NightPlanned(c)
<1>1. /\ o.state \in States /\ o.pref \in Prefs /\ o.zone \in Zones
      /\ o.state.rev \in Nat /\ o.pref.night \in NightModes
      /\ o.wall \in Wallpapers /\ o.theme \in Themes
  BY DEF FileSets, States, Prefs
<1>3. eff \in NightModes
  BY <1>1 DEF Effective, NightModes
<1> DEFINE state == [o.state EXCEPT !.night = eff]
<1>4. /\ state \in States /\ state.choice = o.state.choice /\ state.theme = o.state.theme
      /\ state.wall = o.state.wall /\ state.rev = o.state.rev
      /\ state.night = eff /\ (eff = o.state.night => state = o.state)
  BY <1>1, <1>3 DEF States
<1>a. n = [o EXCEPT !.state = state]
  BY <1>1 DEF FileSets
<1> HIDE DEF state
<1>5. /\ n \in FileSets
      /\ n.wall = o.wall /\ n.theme = o.theme /\ n.state = state /\ n.pref = o.pref
      /\ n.zone = o.zone /\ n["wall"] = o["wall"] /\ n["theme"] = o["theme"]
      /\ n["zone"] = o["zone"] /\ n["pref"] = o["pref"] /\ n["state"] = state
  BY <1>1, <1>4, <1>a DEF FileSets
<1>6. /\ plan \in SUBSET Steps /\ plan # {} /\ plan \subseteq Work["reconcile"]
      /\ "state" \in plan <=> eff # o.state.night
  BY DEF When, Steps, Work
<1>7. Square(o) => Square(n)
  BY <1>4, <1>5 DEF Square, Even, Effective
<1>8. Coherent(state) /\ NotOlder(state, o.state)
  BY <1>4 DEF Coherent, NotOlder, Shown
<1>b. Look(n) = Look(o)
  BY <1>4, <1>5 DEF Look
<1>c. Square(o) => n = o
  <2> SUFFICES ASSUME Square(o) PROVE n = o
    OBVIOUS
  <2>1. state = o.state
    BY <1>4 DEF Square
  <2>2. n = [wall |-> n.wall, theme |-> n.theme, state |-> n.state, pref |-> n.pref,
             zone |-> n.zone]
        /\ o = [wall |-> o.wall, theme |-> o.theme, state |-> o.state, pref |-> o.pref,
                zone |-> o.zone]
    BY <1>5 DEF FileSets
  <2> QED
    BY <1>5, <2>1, <2>2
<1>9. Planned(c)
  <2>1. c.plan \subseteq Work[c.kind] /\ "reload" \notin c.plan /\ "mend" \notin c.plan
        /\ c.plan \cap {"wall", "theme"} = {}
    BY <1>6 DEF Work
  <2>2. \A f \in {"state", "pref", "zone"} : f \notin c.plan => n[f] = o[f]
    BY <1>4, <1>5, <1>6
  <2> QED
    BY <1>4, <1>5, <1>7, <1>8, <1>b, <1>c, <2>1, <2>2 DEF Planned, Scenic
<1>10. \A p : Gamma(p, state) = Gamma(p, o.state)
  BY <1>4 DEF Gamma, Suspended
<1>11. NightPlanned(c)
  <2>1. "service" \notin c.plan
    BY <1>6 DEF Work
  <2> QED
    BY <1>4, <1>5, <1>10, <2>1 DEF NightPlanned, Profile
<1> QED
  BY <1>5, <1>6, <1>9, <1>11

\* Another zone, or place.
PlaceData(o, z, x, kind, pref, auto, n, plan) ==
    /\ pref = [o.pref EXCEPT !.coords = IF "solar" \in kind THEN x ELSE @]
    /\ auto = (o.pref.night = "auto" /\ ~Suspended(o.state))
    /\ n = [o EXCEPT !.pref = pref, !.zone = IF "timezone" \in kind THEN z ELSE @]
    /\ plan = When("timezone" \in kind, {"check"} \cup When(z # o.zone, {"zone"}))
                \cup When("solar" \in kind, {"pref", IF auto THEN "service" ELSE "verify"})

\* What is planned for another zone, or place.
LEMMA PlacePlanned ==
    ASSUME NEW o \in FileSets, NEW z \in Zones, NEW x \in Coords,
           NEW kind \in SUBSET {"timezone", "solar"}, kind # {},
           NEW pref, NEW auto, NEW n, NEW plan, PlaceData(o, z, x, kind, pref, auto, n, plan),
           Coherent(o.state),
           NEW c, c.kind = "place", c.old = o, c.new = n, c.plan = plan
    PROVE  /\ n \in FileSets /\ plan \in SUBSET Steps /\ plan # {}
           /\ Planned(c) /\ NightPlanned(c)
<1> USE DEF PlaceData
<1>1. /\ o.state \in States /\ o.pref \in Prefs /\ o.zone \in Zones
      /\ o.state.rev \in Nat /\ o.pref.night \in NightModes
      /\ o.wall \in Wallpapers /\ o.theme \in Themes
  BY DEF FileSets, States, Prefs
<1>2. /\ pref \in Prefs /\ pref.night = o.pref.night
      /\ pref.extra = o.pref.extra /\ pref.choice = o.pref.choice
      /\ ("solar" \notin kind => pref = o.pref)
  BY <1>1 DEF Prefs
<1>5. /\ n \in FileSets
      /\ n.wall = o.wall /\ n.theme = o.theme /\ n.state = o.state /\ n.pref = pref
      /\ n.zone = (IF "timezone" \in kind THEN z ELSE o.zone)
      /\ n["wall"] = o["wall"] /\ n["theme"] = o["theme"]
      /\ n["zone"] = (IF "timezone" \in kind THEN z ELSE o.zone)
      /\ n["pref"] = pref /\ n["state"] = o["state"]
  BY <1>1, <1>2 DEF FileSets
<1>6. /\ plan \in SUBSET Steps /\ plan # {} /\ plan \subseteq Work["place"]
      /\ plan \cap {"wall", "theme", "reload", "mend", "state"} = {}
      /\ "pref" \in plan <=> "solar" \in kind
      /\ "service" \in plan <=> "solar" \in kind /\ auto
      /\ "zone" \in plan <=> "timezone" \in kind /\ z # o.zone
  BY DEF When, Steps, Work
<1>7. Square(o) => Square(n)
  <2>1. Effective(pref, o.state) = Effective(o.pref, o.state)
    BY <1>2 DEF Effective
  <2> QED
    BY <1>2, <1>5, <2>1 DEF Square, Even
<1>8. NotOlder(n.state, o.state)
  BY <1>5 DEF NotOlder
<1>9. Planned(c)
  <2>1. c.plan \subseteq Work[c.kind] /\ "reload" \notin c.plan /\ "mend" \notin c.plan
        /\ c.plan \cap {"wall", "theme"} = {}
    BY <1>6
  <2>2. \A f \in {"state", "pref", "zone"} : f \notin c.plan => n[f] = o[f]
    BY <1>2, <1>5, <1>6
  <2> QED
    BY <1>5, <1>7, <1>8, <2>1, <2>2 DEF Planned, Scenic
<1>11. NightPlanned(c)
  <2>1. ASSUME "service" \notin plan
        PROVE  Gamma(pref, o.state) = Gamma(o.pref, o.state)
    <3>1. CASE "solar" \notin kind
      BY <1>2, <3>1
    <3>2. CASE ~auto
      <4>1. o.pref.night # "auto" \/ Suspended(o.state)
        BY <3>2
      <4> QED
        BY <1>2, <4>1 DEF Gamma
    <3> QED
      BY <1>6, <2>1, <3>1, <3>2
  <2> QED
    BY <1>5, <1>6, <2>1 DEF NightPlanned, Profile
<1> QED
  BY <1>5, <1>6, <1>9, <1>11

\* A folder, or a place to remember.
LEMMA ExtraPlanned ==
    ASSUME NEW o \in FileSets, NEW e \in Extras,
           NEW n, n = [o EXCEPT !.pref.extra = e],
           Coherent(o.state),
           NEW c, c.kind = "extra", c.old = o, c.new = n, c.plan = {"pref"}
    PROVE  n \in FileSets /\ Planned(c) /\ NightPlanned(c)
<1>1. /\ o.state \in States /\ o.pref \in Prefs /\ o.zone \in Zones
      /\ o.state.rev \in Nat /\ o.pref.night \in NightModes
      /\ o.wall \in Wallpapers /\ o.theme \in Themes
  BY DEF FileSets, States, Prefs
<1> DEFINE pref == [o.pref EXCEPT !.extra = e]
<1>2. /\ pref \in Prefs /\ pref.night = o.pref.night /\ pref.coords = o.pref.coords
      /\ pref.choice = o.pref.choice
  BY <1>1 DEF Prefs
<1>a. n = [o EXCEPT !.pref = pref]
  BY <1>1 DEF FileSets
<1> HIDE DEF pref
<1>5. /\ n \in FileSets
      /\ n.wall = o.wall /\ n.theme = o.theme /\ n.state = o.state /\ n.pref = pref
      /\ n.zone = o.zone /\ n["wall"] = o["wall"] /\ n["theme"] = o["theme"]
      /\ n["zone"] = o["zone"] /\ n["state"] = o["state"]
  BY <1>1, <1>2, <1>a DEF FileSets
<1>7. Square(o) => Square(n)
  BY <1>2, <1>5 DEF Square, Even, Effective
<1>8. NotOlder(n.state, o.state)
  BY <1>5 DEF NotOlder
<1>9. Planned(c)
  BY <1>5, <1>7, <1>8 DEF Planned, Scenic, Work
<1>10. \A s : Gamma(pref, s) = Gamma(o.pref, s)
  BY <1>2 DEF Gamma
<1>11. NightPlanned(c)
  BY <1>5, <1>10 DEF NightPlanned, Profile
<1> QED
  BY <1>5, <1>9, <1>11

\* What effective.json says.
StatusData(o, pref, theme, state, stale, n, plan) ==
    /\ pref = [o.pref EXCEPT !.choice = o.state.choice]
    /\ theme = Resolve(o.state.choice, o.state.wall)
    /\ state = [o.state EXCEPT !.theme = theme,
                               !.night = IF o.state.choice.sun THEN "off" ELSE pref.night]
    /\ stale = When(o.theme # theme, {"theme"}) \cup When(o.wall # o.state.wall, {"wall"})
    /\ n = [o EXCEPT !.theme = theme, !.wall = o.state.wall, !.state = state, !.pref = pref]
    /\ plan = {"mend", "opacity"} \cup stale \cup When(stale # {}, {"reload"})
                \cup When(state # o.state, {"state"}) \cup When(pref # o.pref, {"pref"})

\* What "status" plans.
LEMMA StatusPlanned ==
    ASSUME NEW o \in FileSets, Coherent(o.state),
           NEW pref, NEW theme, NEW state, NEW stale, NEW n, NEW plan,
           StatusData(o, pref, theme, state, stale, n, plan),
           NEW c, c.kind = "status", c.old = o, c.new = n, c.plan = plan
    PROVE  /\ n \in FileSets /\ plan \in SUBSET Steps /\ plan # {}
           /\ Planned(c) /\ NightPlanned(c)
<1> USE DEF StatusData
<1>1. /\ o.state \in States /\ o.pref \in Prefs /\ o.zone \in Zones
      /\ o.state.rev \in Nat /\ o.pref.night \in NightModes /\ o.state.choice \in Choices
      /\ o.wall \in Wallpapers /\ o.theme \in Themes /\ o.state.wall \in Wallpapers
      /\ o.state.theme \in Themes
  BY DEF FileSets, States, Prefs
<1>0. theme = o.state.theme /\ (Suspended(o.state) <=> o.state.choice.sun)
  BY <1>1, ResolveType DEF Coherent, Suspended
<1>2. /\ pref \in Prefs /\ pref.night = o.pref.night /\ pref.coords = o.pref.coords
      /\ pref.extra = o.pref.extra /\ pref.choice = o.state.choice
      /\ (o.pref.choice = o.state.choice => pref = o.pref)
  BY <1>1 DEF Prefs
<1>3. Effective(pref, o.state) = (IF o.state.choice.sun THEN "off" ELSE pref.night)
      /\ Effective(pref, o.state) \in NightModes
  BY <1>0, <1>1, <1>2 DEF Effective, NightModes
<1>4. /\ state \in States /\ state.choice = o.state.choice /\ state.theme = o.state.theme
      /\ state.wall = o.state.wall /\ state.rev = o.state.rev
      /\ state.night = Effective(pref, o.state)
      /\ (state.night = o.state.night => state = o.state)
  <2> DEFINE m == IF o.state.choice.sun THEN "off" ELSE pref.night
  <2>1. m \in NightModes /\ state = [o.state EXCEPT !.theme = theme, !.night = m]
        /\ Effective(pref, o.state) = m
    BY <1>3
  <2> HIDE DEF m
  <2>2. state = [choice |-> o.state.choice, theme |-> theme, wall |-> o.state.wall, night |-> m,
                 rev |-> o.state.rev]
    BY <1>1, <2>1 DEF States
  <2>3. o.state = [choice |-> o.state.choice, theme |-> o.state.theme, wall |-> o.state.wall,
                   night |-> o.state.night, rev |-> o.state.rev]
    BY <1>1 DEF States
  <2>4. theme = o.state.theme
    BY <1>0
  <2> HIDE DEF Resolve
  <2>5. state \in States
    BY <1>1, <2>1, <2>2, <2>4 DEF States
  <2> QED
    BY <2>1, <2>2, <2>3, <2>4, <2>5
<1>5. /\ n \in FileSets
      /\ n.wall = o.state.wall /\ n.theme = o.state.theme /\ n.state = state /\ n.pref = pref
      /\ n.zone = o.zone /\ n["wall"] = o.state.wall /\ n["theme"] = o.state.theme
      /\ n["zone"] = o["zone"] /\ n["state"] = state /\ n["pref"] = pref
  <2>1. n = [wall |-> o.state.wall, theme |-> theme, state |-> state, pref |-> pref,
             zone |-> o.zone]
    BY DEF FileSets
  <2>2. theme = o.state.theme
    BY <1>0
  <2> HIDE DEF Resolve
  <2> QED
    BY <1>1, <1>2, <1>4, <2>1, <2>2 DEF FileSets
<1> HIDE DEF Resolve
<1>6. /\ plan \in SUBSET Steps /\ plan # {} /\ plan \subseteq Work["status"]
      /\ "state" \in plan <=> state # o.state
      /\ "pref" \in plan <=> pref # o.pref
      /\ "theme" \in plan <=> o.theme # theme
      /\ "wall" \in plan <=> o.wall # o.state.wall
      /\ "reload" \in plan <=> plan \cap {"wall", "theme"} # {}
      /\ {"mend", "opacity"} \subseteq plan /\ "service" \notin plan /\ "zone" \notin plan
  BY DEF When, Steps, Work
<1>7. Square(n) /\ Even(n)
  <2>1. Effective(pref, state) = Effective(pref, o.state)
    BY <1>4 DEF Effective, Suspended
  <2> QED
    BY <1>2, <1>4, <1>5, <2>1 DEF Square, Even
<1>8. Coherent(state) /\ NotOlder(state, o.state)
  BY <1>4 DEF Coherent, NotOlder, Shown
<1>b. Look(n) = Look(o)
  BY <1>2, <1>4, <1>5 DEF Look
<1>c. Square(o) => n = o
  <2> SUFFICES ASSUME Square(o) PROVE n = o
    OBVIOUS
  <2>1. pref = o.pref
    BY <1>2 DEF Square
  <2>2. state = o.state
    BY <1>4, <2>1 DEF Square
  <2>3. n.wall = o.wall /\ n.theme = o.theme
    BY <1>5 DEF Square, Even
  <2>4. n = [wall |-> n.wall, theme |-> n.theme, state |-> n.state, pref |-> n.pref,
             zone |-> n.zone]
        /\ o = [wall |-> o.wall, theme |-> o.theme, state |-> o.state, pref |-> o.pref,
                zone |-> o.zone]
    BY <1>5 DEF FileSets
  <2> QED
    BY <1>5, <2>1, <2>2, <2>3, <2>4
<1>9. Planned(c)
  <2>1. \A f \in {"state", "pref", "zone", "wall", "theme"} : f \notin c.plan => n[f] = o[f]
    BY <1>0, <1>2, <1>5, <1>6
  <2> QED
    BY <1>4, <1>5, <1>6, <1>7, <1>8, <1>b, <1>c, <2>1 DEF Planned, Scenic
<1>10. NightPlanned(c)
  <2>1. \A p : Gamma(p, state) = Gamma(p, o.state)
    BY <1>4 DEF Gamma, Suspended
  <2>2. Gamma(pref, o.state) = Gamma(o.pref, o.state)
    BY <1>2 DEF Gamma
  <2>3. Profile(n.state) = Profile(o.state)
    BY <1>4, <1>5 DEF Profile
  <2> QED
    BY <1>5, <1>6, <2>1, <2>2, <2>3 DEF NightPlanned
<1> QED
  BY <1>5, <1>6, <1>9, <1>10

-----------------------------------------------------------------------------
\* The order of the steps.

\* A change of the look reloads Sway after the two files it reads and before
\* effective.json; the services follow effective.json, and the shell is told last.
LEMMA AtLook ==
    ASSUME change.kind = "look", ~change.undoing, NEW s, At(s)
    PROVE  /\ s \in change.todo /\ s \in Work["look"]
           /\ s = "reload" => change.todo \cap {"wall", "theme"} = {}
           /\ s = "service" => "state" \notin change.todo
           /\ s = "opacity" => "state" \notin change.todo
           /\ s = "state" => change.todo \cap {"wall", "theme", "reload"} = {}
           /\ s = "publish" => change.todo \cap Work["look"] = {"publish"}
<1> DEFINE order == <<"wall", "theme", "reload", "swaybg", "state", "service", "opacity",
                      "pref", "publish">>
<1>1. PICK i \in DOMAIN order :
        order[i] = s /\ s \in change.todo /\ \A j \in 1..(i - 1) : order[j] \notin change.todo
  BY DEF At, Forth
<1>2. /\ DOMAIN order = 1..9
      /\ order[1] = "wall" /\ order[2] = "theme" /\ order[3] = "reload" /\ order[4] = "swaybg"
      /\ order[5] = "state" /\ order[6] = "service" /\ order[7] = "opacity"
      /\ order[8] = "pref" /\ order[9] = "publish"
  OBVIOUS
<1> HIDE DEF order
<1>3. i \in 1..9
  BY <1>1, <1>2
<1>4. s \in Work["look"]
  BY <1>1, <1>2, <1>3 DEF Work
<1>5. s = "reload" => i = 3
  BY <1>1, <1>2, <1>3
<1>6. s = "service" => i = 6
  BY <1>1, <1>2, <1>3
<1>7. s = "opacity" => i = 7
  BY <1>1, <1>2, <1>3
<1>8. s = "state" => i = 5
  BY <1>1, <1>2, <1>3
<1>9. s = "publish" => i = 9
  BY <1>1, <1>2, <1>3
<1>10. s = "publish" => change.todo \cap Work["look"] = {"publish"}
  BY <1>1, <1>2, <1>9 DEF Work
<1> QED
  BY <1>1, <1>2, <1>4, <1>5, <1>6, <1>7, <1>8, <1>10

\* The other changes but "status" restart wlsunset after they have written the preferences.
LEMMA AtOthers ==
    ASSUME ~change.undoing, NEW s, At(s),
           change.kind \in {"night", "reconcile", "place", "extra"}
    PROVE  /\ s \in change.todo /\ s \in Work[change.kind]
           /\ s = "service" => "pref" \notin change.todo
<1>1. CASE change.kind = "night"
  <2> DEFINE order == <<"pref", "service", "state", "told">>
  <2>1. PICK i \in DOMAIN order :
          order[i] = s /\ s \in change.todo /\ \A j \in 1..(i - 1) : order[j] \notin change.todo
    BY <1>1 DEF At, Forth
  <2>2. DOMAIN order = 1..4 /\ order[1] = "pref" /\ order[2] = "service" /\ order[3] = "state"
        /\ order[4] = "told"
    OBVIOUS
  <2> HIDE DEF order
  <2>3. i \in 1..4
    BY <2>1, <2>2
  <2>4. s \in Work["night"] /\ (s = "service" => i = 2)
    BY <2>1, <2>2, <2>3 DEF Work
  <2> QED
    BY <1>1, <2>1, <2>2, <2>4
<1>2. CASE change.kind = "place"
  <2> DEFINE order == <<"zone", "pref", "service", "verify", "check">>
  <2>1. PICK i \in DOMAIN order :
          order[i] = s /\ s \in change.todo /\ \A j \in 1..(i - 1) : order[j] \notin change.todo
    BY <1>2 DEF At, Forth
  <2>2. DOMAIN order = 1..5 /\ order[1] = "zone" /\ order[2] = "pref" /\ order[3] = "service"
        /\ order[4] = "verify" /\ order[5] = "check"
    OBVIOUS
  <2> HIDE DEF order
  <2>3. i \in 1..5
    BY <2>1, <2>2
  <2>4. s \in Work["place"] /\ (s = "service" => i = 3)
    BY <2>1, <2>2, <2>3 DEF Work
  <2> QED
    BY <1>2, <2>1, <2>2, <2>4
<1>3. CASE change.kind = "reconcile"
  <2> DEFINE order == <<"mendOwn", "state">>
  <2>1. PICK i \in DOMAIN order : order[i] = s /\ s \in change.todo
    BY <1>3 DEF At, Forth
  <2>2. DOMAIN order = 1..2 /\ order[1] = "mendOwn" /\ order[2] = "state"
    OBVIOUS
  <2> HIDE DEF order
  <2> QED
    BY <1>3, <2>1, <2>2 DEF Work
<1>4. CASE change.kind = "extra"
  <2> DEFINE order == <<"pref">>
  <2>1. PICK i \in DOMAIN order : order[i] = s /\ s \in change.todo
    BY <1>4 DEF At, Forth
  <2>2. DOMAIN order = 1..1 /\ order[1] = "pref"
    OBVIOUS
  <2> HIDE DEF order
  <2> QED
    BY <1>4, <2>1, <2>2 DEF Work
<1> QED
  BY <1>1, <1>2, <1>3, <1>4

\* "status" reloads Sway after the two files it reads.
LEMMA AtStatus ==
    ASSUME ~change.undoing, NEW s, At(s), change.kind = "status"
    PROVE  /\ s \in change.todo /\ s \in Work["status"]
           /\ s = "reload" => change.todo \cap {"wall", "theme"} = {}
<1> DEFINE order == <<"theme", "wall", "reload", "mend", "opacity", "state", "pref">>
<1>1. PICK i \in DOMAIN order :
        order[i] = s /\ s \in change.todo /\ \A j \in 1..(i - 1) : order[j] \notin change.todo
  BY DEF At, Forth
<1>2. /\ DOMAIN order = 1..7
      /\ order[1] = "theme" /\ order[2] = "wall" /\ order[3] = "reload" /\ order[4] = "mend"
      /\ order[5] = "opacity" /\ order[6] = "state" /\ order[7] = "pref"
  OBVIOUS
<1> HIDE DEF order
<1>3. i \in 1..7
  BY <1>1, <1>2
<1>4. s \in Work["status"] /\ (s = "reload" => i = 3)
  BY <1>1, <1>2, <1>3 DEF Work
<1> QED
  BY <1>1, <1>2, <1>4

\* What a handler has restored before it reloads Sway, or restarts a service.
LEMMA AtBack ==
    ASSUME change.undoing, NEW s, At(s),
           change.kind \in {"look", "night", "place", "status"}
    PROVE  /\ s \in change.todo
           /\ s \in {"wall", "theme", "state", "pref", "zone", "reload", "service", "opacity"}
           /\ s = "reload" => change.todo \cap {"wall", "theme"} = {}
           /\ s = "service" => /\ change.kind # "status" /\ "pref" \notin change.todo
                               /\ change.kind # "place" => "state" \notin change.todo
           /\ s = "opacity" => change.kind # "status" /\ "state" \notin change.todo
<1>1. CASE change.kind = "look"
  <2> DEFINE order == <<"wall", "theme", "state", "pref", "reload", "service", "opacity">>
  <2>1. PICK i \in DOMAIN order :
          order[i] = s /\ s \in change.todo /\ \A j \in 1..(i - 1) : order[j] \notin change.todo
    BY <1>1 DEF At, Back
  <2>2. /\ DOMAIN order = 1..7
        /\ order[1] = "wall" /\ order[2] = "theme" /\ order[3] = "state" /\ order[4] = "pref"
        /\ order[5] = "reload" /\ order[6] = "service" /\ order[7] = "opacity"
    OBVIOUS
  <2> HIDE DEF order
  <2>3. i \in 1..7
    BY <2>1, <2>2
  <2>4. /\ s \in {"wall", "theme", "state", "pref", "zone", "reload", "service", "opacity"}
        /\ s = "reload" => i = 5
        /\ s = "service" => i = 6
        /\ s = "opacity" => i = 7
    BY <2>1, <2>2, <2>3
  <2> QED
    BY <1>1, <2>1, <2>2, <2>4
<1>2. CASE change.kind = "night"
  <2> DEFINE order == <<"pref", "state", "service">>
  <2>1. PICK i \in DOMAIN order :
          order[i] = s /\ s \in change.todo /\ \A j \in 1..(i - 1) : order[j] \notin change.todo
    BY <1>2 DEF At, Back
  <2>2. DOMAIN order = 1..3 /\ order[1] = "pref" /\ order[2] = "state" /\ order[3] = "service"
    OBVIOUS
  <2> HIDE DEF order
  <2>3. i \in 1..3
    BY <2>1, <2>2
  <2>4. s \in {"pref", "state", "service"} /\ (s = "service" => i = 3)
    BY <2>1, <2>2, <2>3
  <2> QED
    BY <1>2, <2>1, <2>2, <2>4
<1>3. CASE change.kind = "place"
  <2> DEFINE order == <<"pref", "service", "zone">>
  <2>1. PICK i \in DOMAIN order :
          order[i] = s /\ s \in change.todo /\ \A j \in 1..(i - 1) : order[j] \notin change.todo
    BY <1>3 DEF At, Back
  <2>2. DOMAIN order = 1..3 /\ order[1] = "pref" /\ order[2] = "service" /\ order[3] = "zone"
    OBVIOUS
  <2> HIDE DEF order
  <2>3. i \in 1..3
    BY <2>1, <2>2
  <2>4. s \in {"pref", "service", "zone"} /\ (s = "service" => i = 2)
    BY <2>1, <2>2, <2>3
  <2> QED
    BY <1>3, <2>1, <2>2, <2>4
<1>4. CASE change.kind = "status"
  <2> DEFINE order == <<"theme", "wall", "reload">>
  <2>1. PICK i \in DOMAIN order :
          order[i] = s /\ s \in change.todo /\ \A j \in 1..(i - 1) : order[j] \notin change.todo
    BY <1>4 DEF At, Back
  <2>2. DOMAIN order = 1..3 /\ order[1] = "theme" /\ order[2] = "wall" /\ order[3] = "reload"
    OBVIOUS
  <2> HIDE DEF order
  <2>3. i \in 1..3
    BY <2>1, <2>2
  <2>4. s \in {"theme", "wall", "reload"} /\ (s = "reload" => i = 3)
    BY <2>1, <2>2, <2>3
  <2> QED
    BY <1>4, <2>1, <2>2, <2>4
<1> QED
  BY <1>1, <1>2, <1>3, <1>4

-----------------------------------------------------------------------------
\* How a change begins.

\* The caller has the lock, has read everything and knows what to do.
Taken(c) ==
    /\ c \in Changes /\ c.old = Snapshot /\ c.todo = c.plan /\ ~c.undoing
    /\ Planned(c) /\ NightPlanned(c)
    /\ Undertake(c.kind, c.new, c.plan) /\ change' = c

\* A caller that undertakes what is planned has taken the lock.
LEMMA TakenBy ==
    ASSUME NEW kind \in {"look", "night", "place", "reconcile", "extra", "status"},
           desk \in Desks, NEW n \in FileSets, NEW plan \in SUBSET Steps, plan # {},
           Undertake(kind, n, plan),
           \A c : c.kind = kind /\ c.old = Snapshot /\ c.new = n /\ c.plan = plan
                    => Planned(c) /\ NightPlanned(c)
    PROVE  \E c : Taken(c) /\ c.kind = kind
<1> DEFINE c == [kind |-> kind, old |-> Snapshot, new |-> n, plan |-> plan,
                 todo |-> plan, undoing |-> FALSE]
<1>1. change' = c
  BY DEF Undertake
<1>2. c.kind = kind /\ c.old = Snapshot /\ c.new = n /\ c.plan = plan /\ c.todo = plan
      /\ c.undoing = FALSE
  OBVIOUS
<1>3. c \in Changes
  <2>1. Snapshot \in FileSets /\ plan \in (SUBSET Steps) \ {{}} /\ FALSE \in BOOLEAN
    BY SnapshotType
  <2> HIDE DEF Snapshot
  <2> QED
    BY <2>1 DEF Changes
<1> HIDE DEF c
<1>4. Planned(c) /\ NightPlanned(c)
  BY <1>2
<1> QED
  BY <1>1, <1>2, <1>3, <1>4 DEF Taken

\* What the code of a change reads is what it takes for the old files.
LEMMA SnapshotFields ==
    /\ Snapshot.wall = desk.wall /\ Snapshot.theme = desk.theme
    /\ Snapshot.state = desk.state /\ Snapshot.pref = desk.pref
    /\ Snapshot.zone = desk.zone
BY DEF Snapshot

\* A transaction that finds something to change is planned.
LEMMA BegunTransaction ==
    ASSUME desk \in Desks, Coherent(desk.state), NEW choice \in Choices, NEW w \in Wallpapers,
           Transaction(choice, w)
    PROVE  \E c : Taken(c) /\ c.kind = "look"
<1> DEFINE o == Snapshot
           theme == Resolve(choice, w)
           image == w # o.state.wall
           themed == theme # o.state.theme
           visual == image \/ themed \/ choice.mode # o.pref.choice.mode
           pref == [o.pref EXCEPT !.choice = choice]
           state == [choice |-> choice, theme |-> theme, wall |-> w,
                     night |-> IF choice.sun THEN "off" ELSE pref.night,
                     rev |-> o.state.rev + (IF visual THEN 1 ELSE 0)]
           n == [wall |-> w, theme |-> theme, state |-> state, pref |-> pref, zone |-> o.zone]
           plan == {"state", "pref", "publish"}
                     \cup When(image, {"wall", "reload", "swaybg"})
                     \cup When(themed, {"theme", "reload"})
                     \cup When(Suspended(o.state) # choice.sun, {"service"})
                     \cup When(theme.profile # o.state.theme.profile, {"opacity"})
<1>1. o \in FileSets
  BY SnapshotType
<1>2. o.state = desk.state /\ o.pref = desk.pref /\ o.zone = desk.zone
  BY SnapshotFields
<1> HIDE DEF o
<1>3. Undertake("look", n, plan)
  BY <1>2 DEF Transaction
<1>a. LookData(o, choice, w, theme, image, themed, visual, pref, state, n, plan)
  BY DEF LookData
<1>f. Coherent(o.state)
  BY <1>2
<1> HIDE DEF theme, image, themed, visual, pref, state, n, plan
<1>4. \A c : c.kind = "look" /\ c.old = Snapshot /\ c.new = n /\ c.plan = plan
               => Planned(c) /\ NightPlanned(c)
  <2> TAKE c
  <2> SUFFICES ASSUME c.kind = "look", c.old = Snapshot, c.new = n, c.plan = plan
               PROVE  Planned(c) /\ NightPlanned(c)
    OBVIOUS
  <2>1. c.old = o
    BY DEF o
  <2> QED
    BY <1>1, <1>a, <1>f, <2>1, LookPlanned
<1>5. n \in FileSets /\ plan \in SUBSET Steps /\ plan # {}
  <2> DEFINE c == [kind |-> "look", old |-> o, new |-> n, plan |-> plan]
  <2>1. c.kind = "look" /\ c.old = o /\ c.new = n /\ c.plan = plan
    OBVIOUS
  <2> HIDE DEF c
  <2> QED
    BY <1>1, <1>a, <1>f, <2>1, LookPlanned
<1> QED
  BY <1>3, <1>4, <1>5, TakenBy

\* So is every change of the look.
LEMMA BegunLook ==
    ASSUME desk \in Desks, Coherent(desk.state), BeginLook
    PROVE  \E c : Taken(c) /\ c.kind = "look"
<1> DEFINE choice == desk.pref.choice
<1>1. choice \in Choices /\ desk.state.wall \in Wallpapers
  BY DeskFields DEF Prefs, States
<1>2. /\ \A m \in {"manual", "wallpaper"} : [choice EXCEPT !.mode = m] \in Choices
      /\ \A f \in Flavors : [choice EXCEPT !.manual = f] \in Choices
      /\ \A b \in BOOLEAN : [choice EXCEPT !.sun = b] \in Choices
      /\ \A v \in {"light", "dark"} : [choice EXCEPT !.variant = v] \in Choices
  BY <1>1 DEF Choices
<1>3. PICK x \in Choices, w \in Wallpapers : Transaction(x, w)
  BY <1>1, <1>2 DEF BeginLook
<1> QED
  BY <1>3, BegunTransaction

\* So is a change of the night mode.
LEMMA BegunNight ==
    ASSUME desk \in Desks, Coherent(desk.state), BeginNight
    PROVE  \E c : Taken(c) /\ c.kind = "night"
<1>1. Snapshot \in FileSets /\ Coherent(Snapshot.state)
  BY SnapshotType, SnapshotFields
<1>2. PICK m \in NightModes :
        LET pref == [desk.pref EXCEPT !.night = m]
            state == [desk.state EXCEPT !.night = Effective(pref, desk.state)]
        IN  Undertake("night", [Snapshot EXCEPT !.pref = pref, !.state = state],
                      {"pref", "service", "state", "told"})
  BY DEF BeginNight
<1> DEFINE pref == [Snapshot.pref EXCEPT !.night = m]
           state == [Snapshot.state EXCEPT !.night = Effective(pref, Snapshot.state)]
           n == [Snapshot EXCEPT !.pref = pref, !.state = state]
           plan == {"pref", "service", "state", "told"}
<1>3. Undertake("night", n, plan)
  BY <1>2, SnapshotFields
<1>a. NightData(Snapshot, m, pref, state, n)
  BY DEF NightData
<1> HIDE DEF pref, state, n
<1>4. \A c : c.kind = "night" /\ c.old = Snapshot /\ c.new = n /\ c.plan = plan
               => n \in FileSets /\ Planned(c) /\ NightPlanned(c)
  <2> TAKE c
  <2> SUFFICES ASSUME c.kind = "night", c.old = Snapshot, c.new = n, c.plan = plan
               PROVE  n \in FileSets /\ Planned(c) /\ NightPlanned(c)
    OBVIOUS
  <2> QED
    BY <1>1, <1>a, NightPlannedOf
<1>5. plan \in SUBSET Steps /\ plan # {}
  BY DEF Steps
<1>6. n \in FileSets
  <2> DEFINE c == [kind |-> "night", old |-> Snapshot, new |-> n, plan |-> plan]
  <2>1. c.kind = "night" /\ c.old = Snapshot /\ c.new = n /\ c.plan = plan
    OBVIOUS
  <2> HIDE DEF c, n, plan
  <2> QED
    BY <1>4, <2>1
<1> HIDE DEF n, plan
<1> QED
  BY <1>3, <1>4, <1>5, <1>6, TakenBy

\* So is the reconciliation of the night mode.
LEMMA BegunReconcile ==
    ASSUME desk \in Desks, Coherent(desk.state), BeginNightReconcile
    PROVE  \E c : Taken(c) /\ c.kind = "reconcile"
<1>1. Snapshot \in FileSets /\ Coherent(Snapshot.state)
  BY SnapshotType, SnapshotFields
<1> DEFINE eff == Effective(Snapshot.pref, Snapshot.state)
           n == [Snapshot EXCEPT !.state.night = eff]
           plan == {"mendOwn"} \cup When(eff # Snapshot.state.night, {"state"})
<1>3. Undertake("reconcile", n, plan)
  BY SnapshotFields DEF BeginNightReconcile
<1>4. \A c : c.kind = "reconcile" /\ c.old = Snapshot /\ c.new = n /\ c.plan = plan
               => /\ n \in FileSets /\ plan \in SUBSET Steps /\ plan # {}
                  /\ Planned(c) /\ NightPlanned(c)
  <2> TAKE c
  <2> SUFFICES ASSUME c.kind = "reconcile", c.old = Snapshot, c.new = n, c.plan = plan
               PROVE  /\ n \in FileSets /\ plan \in SUBSET Steps /\ plan # {}
                      /\ Planned(c) /\ NightPlanned(c)
    OBVIOUS
  <2> QED
    BY <1>1, ReconcilePlanned
<1>6. n \in FileSets /\ plan \in SUBSET Steps /\ plan # {}
  <2> DEFINE c == [kind |-> "reconcile", old |-> Snapshot, new |-> n, plan |-> plan]
  <2>1. c.kind = "reconcile" /\ c.old = Snapshot /\ c.new = n /\ c.plan = plan
    OBVIOUS
  <2> HIDE DEF c, n, plan
  <2> QED
    BY <1>4, <2>1
<1> HIDE DEF n, plan
<1> QED
  BY <1>3, <1>4, <1>6, TakenBy

\* So is a change of the place or of the zone.
LEMMA BegunPlace ==
    ASSUME desk \in Desks, Coherent(desk.state), BeginPlace
    PROVE  \E c : Taken(c) /\ c.kind = "place"
<1>1. Snapshot \in FileSets /\ Coherent(Snapshot.state)
  BY SnapshotType, SnapshotFields
<1>2. PICK z \in Zones, x \in Coords, kind \in SUBSET {"timezone", "solar"} :
        LET pref == [desk.pref EXCEPT !.coords = IF "solar" \in kind THEN x ELSE @]
            auto == desk.pref.night = "auto" /\ ~Suspended(desk.state)
        IN  /\ kind # {}
            /\ Undertake("place", [Snapshot EXCEPT !.pref = pref,
                                    !.zone = IF "timezone" \in kind THEN z ELSE @],
                     When("timezone" \in kind, {"check"} \cup When(z # desk.zone, {"zone"}))
                       \cup When("solar" \in kind,
                                 {"pref", IF auto THEN "service" ELSE "verify"}))
  BY DEF BeginPlace
<1> DEFINE pref == [Snapshot.pref EXCEPT !.coords = IF "solar" \in kind THEN x ELSE @]
           auto == Snapshot.pref.night = "auto" /\ ~Suspended(Snapshot.state)
           n == [Snapshot EXCEPT !.pref = pref, !.zone = IF "timezone" \in kind THEN z ELSE @]
           plan == When("timezone" \in kind, {"check"} \cup When(z # Snapshot.zone, {"zone"}))
                     \cup When("solar" \in kind, {"pref", IF auto THEN "service" ELSE "verify"})
<1>3. Undertake("place", n, plan) /\ kind # {}
  BY <1>2, SnapshotFields
<1>a. PlaceData(Snapshot, z, x, kind, pref, auto, n, plan)
  BY DEF PlaceData
<1> HIDE DEF pref, auto, n, plan
<1>4. \A c : c.kind = "place" /\ c.old = Snapshot /\ c.new = n /\ c.plan = plan
               => /\ n \in FileSets /\ plan \in SUBSET Steps /\ plan # {}
                  /\ Planned(c) /\ NightPlanned(c)
  <2> TAKE c
  <2> SUFFICES ASSUME c.kind = "place", c.old = Snapshot, c.new = n, c.plan = plan
               PROVE  /\ n \in FileSets /\ plan \in SUBSET Steps /\ plan # {}
                      /\ Planned(c) /\ NightPlanned(c)
    OBVIOUS
  <2> QED
    BY <1>1, <1>3, <1>a, PlacePlanned
<1>6. n \in FileSets /\ plan \in SUBSET Steps /\ plan # {}
  <2> DEFINE c == [kind |-> "place", old |-> Snapshot, new |-> n, plan |-> plan]
  <2>1. c.kind = "place" /\ c.old = Snapshot /\ c.new = n /\ c.plan = plan
    OBVIOUS
  <2> HIDE DEF c, n, plan
  <2> QED
    BY <1>4, <2>1
<1> HIDE DEF n, plan
<1> QED
  BY <1>3, <1>4, <1>6, TakenBy

\* So is a change of what the preferences hold besides.
LEMMA BegunExtra ==
    ASSUME desk \in Desks, Coherent(desk.state), BeginExtra
    PROVE  \E c : Taken(c) /\ c.kind = "extra"
<1>1. Snapshot \in FileSets /\ Coherent(Snapshot.state)
  BY SnapshotType, SnapshotFields
<1>2. PICK e \in Extras : Undertake("extra", [Snapshot EXCEPT !.pref.extra = e], {"pref"})
  BY DEF BeginExtra
<1> DEFINE n == [Snapshot EXCEPT !.pref.extra = e]
           plan == {"pref"}
<1>4. \A c : c.kind = "extra" /\ c.old = Snapshot /\ c.new = n /\ c.plan = plan
               => n \in FileSets /\ Planned(c) /\ NightPlanned(c)
  <2> TAKE c
  <2> SUFFICES ASSUME c.kind = "extra", c.old = Snapshot, c.new = n, c.plan = plan
               PROVE  n \in FileSets /\ Planned(c) /\ NightPlanned(c)
    OBVIOUS
  <2> QED
    BY <1>1, ExtraPlanned
<1>6. n \in FileSets
  <2> DEFINE c == [kind |-> "extra", old |-> Snapshot, new |-> n, plan |-> plan]
  <2>1. c.kind = "extra" /\ c.old = Snapshot /\ c.new = n /\ c.plan = plan
    OBVIOUS
  <2> HIDE DEF c, n, plan
  <2> QED
    BY <1>4, <2>1
<1>7. plan \in SUBSET Steps /\ plan # {} /\ Undertake("extra", n, plan)
  BY <1>2 DEF Steps
<1> HIDE DEF n, plan
<1> QED
  BY <1>4, <1>6, <1>7, TakenBy

\* "status" finds its image lost, and tells the shell what the file says, or it is planned.
LEMMA BegunStatus ==
    ASSUME desk \in Desks, Coherent(desk.state), BeginStatus
    PROVE  \/ /\ replies' = replies \cup {Shown(desk.state)}
              /\ UNCHANGED <<deskvars, change, history>>
           \/ UNCHANGED replies /\ \E c : Taken(c) /\ c.kind = "status"
<1>1. Snapshot \in FileSets /\ Coherent(Snapshot.state)
  BY SnapshotType, SnapshotFields
<1>2. CASE desk.state.wall \notin images
  BY <1>2 DEF BeginStatus
<1>3. CASE desk.state.wall \in images
  <2> DEFINE o == Snapshot
             pref == [o.pref EXCEPT !.choice = o.state.choice]
             theme == Resolve(o.state.choice, o.state.wall)
             state == [o.state EXCEPT !.theme = theme,
                                      !.night = IF o.state.choice.sun THEN "off" ELSE pref.night]
             stale == When(o.theme # theme, {"theme"}) \cup When(o.wall # o.state.wall, {"wall"})
             n == [o EXCEPT !.theme = theme, !.wall = o.state.wall, !.state = state, !.pref = pref]
             plan == {"mend", "opacity"} \cup stale \cup When(stale # {}, {"reload"})
                       \cup When(state # o.state, {"state"}) \cup When(pref # o.pref, {"pref"})
  <2>1. /\ o.state = desk.state /\ o.pref = desk.pref /\ o.theme = desk.theme
        /\ o.wall = desk.wall
    BY SnapshotFields
  <2>2. Undertake("status", n, plan) /\ UNCHANGED replies
    BY <1>3, <2>1 DEF BeginStatus
  <2>a. StatusData(o, pref, theme, state, stale, n, plan)
    BY DEF StatusData
  <2>e. o \in FileSets /\ Coherent(o.state) /\ o = Snapshot
    BY <1>1
  <2> HIDE DEF pref, theme, state, stale, n, plan, o
  <2>4. \A c : c.kind = "status" /\ c.old = Snapshot /\ c.new = n /\ c.plan = plan
                 => /\ n \in FileSets /\ plan \in SUBSET Steps /\ plan # {}
                    /\ Planned(c) /\ NightPlanned(c)
    <3> TAKE c
    <3> SUFFICES ASSUME c.kind = "status", c.old = Snapshot, c.new = n, c.plan = plan
                 PROVE  /\ n \in FileSets /\ plan \in SUBSET Steps /\ plan # {}
                        /\ Planned(c) /\ NightPlanned(c)
      OBVIOUS
    <3> QED
      BY <2>a, <2>e, StatusPlanned
  <2>6. n \in FileSets /\ plan \in SUBSET Steps /\ plan # {}
    <3> DEFINE c == [kind |-> "status", old |-> Snapshot, new |-> n, plan |-> plan]
    <3>1. c.kind = "status" /\ c.old = Snapshot /\ c.new = n /\ c.plan = plan
      OBVIOUS
    <3> HIDE DEF c, n, plan
    <3> QED
      BY <2>4, <3>1
  <2> HIDE DEF n, plan
  <2>7. \E c : Taken(c) /\ c.kind = "status"
    BY <2>2, <2>4, <2>6, TakenBy
  <2> QED
    BY <2>2, <2>7
<1> QED
  BY <1>2, <1>3

-----------------------------------------------------------------------------
\* Types, and plans, for every step.

\* The fields of a change.
LEMMA ChangeFields ==
    \A c \in Changes :
      /\ c.kind \in {"look", "night", "place", "reconcile", "extra", "status"}
      /\ c.old \in FileSets /\ c.new \in FileSets
      /\ c.plan \subseteq Steps /\ c.todo \subseteq Steps /\ c.todo # {}
      /\ c.undoing \in BOOLEAN /\ c # NoChange
<1> SUFFICES ASSUME NEW c \in Changes
             PROVE  /\ c.kind \in {"look", "night", "place", "reconcile", "extra", "status"}
                    /\ c.old \in FileSets /\ c.new \in FileSets
                    /\ c.plan \subseteq Steps /\ c.todo \subseteq Steps /\ c.todo # {}
                    /\ c.undoing \in BOOLEAN /\ c # NoChange
  OBVIOUS
<1>1. /\ c.kind \in {"look", "night", "place", "reconcile", "extra", "status"}
      /\ c.old \in FileSets /\ c.new \in FileSets
      /\ c.plan \subseteq Steps /\ c.todo \in (SUBSET Steps) \ {{}}
      /\ c.undoing \in BOOLEAN
  BY DEF Changes
<1>2. c # NoChange
  BY <1>1 DEF NoChange
<1> QED
  BY <1>1, <1>2

\* A change that goes on is the same change.
SameChange(c, e) == e.kind = c.kind /\ e.old = c.old /\ e.new = c.new /\ e.plan = c.plan

\* A change that goes on, with less to do.
LEMMA GoesOn ==
    ASSUME NEW c \in Changes, NEW t, t \subseteq Steps, t # {}, NEW e,
           e = [c EXCEPT !.todo = t]
    PROVE  e \in Changes /\ SameChange(c, e) /\ e.todo = t /\ e.undoing = c.undoing
<1>1. t \in (SUBSET Steps) \ {{}}
  OBVIOUS
<1> HIDE DEF Steps
<1> QED
  BY <1>1 DEF Changes, SameChange

\* Its handler begins.
LEMMA TurnsBack ==
    ASSUME NEW c \in Changes, NEW t, t \subseteq Steps, t # {}, NEW e,
           e = [c EXCEPT !.todo = t, !.undoing = TRUE]
    PROVE  e \in Changes /\ SameChange(c, e) /\ e.todo = t /\ e.undoing = TRUE
<1>1. t \in (SUBSET Steps) \ {{}} /\ TRUE \in BOOLEAN
  OBVIOUS
<1> HIDE DEF Steps
<1> QED
  BY <1>1 DEF Changes, SameChange

\* Its plan is as good as it was.
LEMMA SamePlans ==
    ASSUME NEW c, NEW e, SameChange(c, e)
    PROVE  (Planned(c) => Planned(e)) /\ (NightPlanned(c) => NightPlanned(e))
BY DEF SameChange, Planned, NightPlanned

\* A change that begins.
LEMMA TakenTypes ==
    ASSUME AppearanceTypeOK, Coherent(desk.state), NEW c, Taken(c)
    PROVE  /\ change' \in Changes /\ Planned(change') /\ NightPlanned(change')
           /\ was' \in LookSet /\ asked' \subseteq LookSet
           /\ UNCHANGED <<deskvars, damage>>
<1>1. c \in Changes /\ Undertake(c.kind, c.new, c.plan) /\ change' = c
      /\ Planned(c) /\ NightPlanned(c)
  BY DEF Taken
<1>2. Look(c.new) \in LookSet /\ Look(desk) \in LookSet
  BY <1>1, ChangeFields, LookType DEF AppearanceTypeOK
<1> QED
  BY <1>1, <1>2 DEF Undertake, AppearanceTypeOK

\* What the steps of a change aim at.
LEMMA TargetType ==
    ASSUME AppearanceTypeOK, Plans, change # NoChange
    PROVE  Aim \in FileSets /\ Coherent(Aim.state)
<1>1. change \in Changes
  BY DEF AppearanceTypeOK
<1> QED
  BY <1>1, ChangeFields DEF Aim, Plans, Planned

\* What a step leaves on the desktop.
LEMMA StepTypes ==
    ASSUME AppearanceTypeOK, Plans, change # NoChange, NEW s \in change.todo, NEW d,
           d = Did(s, Aim)
    PROVE  d \in Desks /\ Coherent(d.state)
<1>1. change \in Changes /\ desk \in Desks /\ s \in Steps
  BY ChangeFields DEF AppearanceTypeOK
<1>2. PICK to : to = Aim
  OBVIOUS
<1>3. to \in FileSets /\ Coherent(to.state)
  BY <1>2, TargetType
<1>4. d = Did(s, to)
  BY <1>2
<1>5. d \in Desks /\ \A f \in LookFiles : d[f] = IF f = s THEN to[f] ELSE desk[f]
  BY <1>1, <1>3, <1>4, DidThis
<1>6. d.state \in {to.state, desk.state}
  BY <1>5 DEF LookFiles
<1> QED
  BY <1>3, <1>5, <1>6 DEF Plans

\* What the shell may be shown.
LEMMA SeenType ==
    /\ AppearanceTypeOK => Shown(desk.state) \in Seen
    /\ AppearanceTypeOK /\ change # NoChange => Shown(change.new.state) \in Seen
<1>1. \A s \in States : Shown(s) \in Seen
  BY DEF Shown, States, Seen
<1> QED
  BY <1>1, DeskFields, ChangeFields DEF AppearanceTypeOK, FileSets

\* What a handler has to do.
LEMMA TakesBackType ==
    change \in Changes => TakesBack \subseteq Steps
BY ChangeFields
   DEF TakesBack, LookBack, NightBack, PlaceBack, StatusBack, When, Done, Steps

\* What a step that raises leaves.
LEMMA RaisesType ==
    ASSUME AppearanceTypeOK, Plans, change # NoChange, NEW s \in change.todo, Raises(s)
    PROVE  desk' \in Desks /\ Coherent(desk'.state) /\ shell' \in Seen
<1>1. desk' = desk \/ desk' = Did(s, Aim)
  BY DEF Raises
<1>2. shell' = shell \/ shell' = Shown(change.new.state)
  BY DEF Raises
<1>3. PICK d : d = desk'
  OBVIOUS
<1>4. d \in Desks /\ Coherent(d.state)
  BY <1>1, <1>3, StepTypes DEF AppearanceTypeOK, Plans
<1> QED
  BY <1>2, <1>3, <1>4, SeenType DEF AppearanceTypeOK

\* What a change leaves when it returns.
LEMMA ReturnsTypes ==
    ASSUME AppearanceTypeOK, NEW answer, NEW hurt, Returns(answer, hurt), answer \subseteq Seen,
           hurt \in {"none", "interrupted", "broken"}
    PROVE  /\ change' = NoChange /\ replies' \subseteq Seen /\ starting' \in BOOLEAN
           /\ damage' \in {"none", "interrupted", "broken"}
           /\ was' \in LookSet /\ asked' \subseteq LookSet
BY DEF Returns, AppearanceTypeOK

\* The types, and the plans, at first.
LEMMA TypesStart ==
    ASSUME AppearanceInit
    PROVE  AppearanceTypeOK /\ Plans
<1>1. PICK mode \in {"manual", "wallpaper"}, sun \in BOOLEAN :
        LET w == CHOOSE x \in Wallpapers : TRUE
            c == [mode |-> mode, manual |-> "mocha", sun |-> sun, variant |-> "light"]
            s == [choice |-> c, theme |-> Resolve(c, w), wall |-> w, rev |-> 0,
                  night |-> IF sun THEN "off" ELSE "auto"]
            p == [choice |-> c, night |-> "auto", extra |-> CHOOSE x \in Extras : TRUE,
                  coords |-> CHOOSE x \in Coords : TRUE]
        IN  desk = Settled(s, p, CHOOSE x \in Zones : TRUE)
  BY DEF AppearanceInit
<1> DEFINE w == CHOOSE x \in Wallpapers : TRUE
           c == [mode |-> mode, manual |-> "mocha", sun |-> sun, variant |-> "light"]
           s == [choice |-> c, theme |-> Resolve(c, w), wall |-> w, rev |-> 0,
                 night |-> IF sun THEN "off" ELSE "auto"]
           p == [choice |-> c, night |-> "auto", extra |-> CHOOSE x \in Extras : TRUE,
                 coords |-> CHOOSE x \in Coords : TRUE]
           z == CHOOSE x \in Zones : TRUE
<1>2. desk = Settled(s, p, z)
  BY <1>1
<1>3. w \in Wallpapers /\ z \in Zones /\ (CHOOSE x \in Extras : TRUE) \in Extras
      /\ (CHOOSE x \in Coords : TRUE) \in Coords
  BY AppearanceAssumption
<1>4. c \in Choices
  BY DEF Choices, Flavors
<1> HIDE DEF w, c, z
<1>5. Resolve(c, w) \in Themes
  BY <1>3, <1>4, ResolveType
<1>6. s \in States /\ s.theme = Resolve(s.choice, s.wall)
  <2> HIDE DEF Resolve
  <2> QED
    BY <1>3, <1>4, <1>5 DEF States, NightModes
<1>7. p \in Prefs
  BY <1>3, <1>4 DEF Prefs, NightModes
<1> HIDE DEF s, p
<1>8. s.theme.profile \in {"normal", "sun-light", "sun-dark"} /\ s.wall \in Wallpapers
      /\ s.theme \in Themes
  BY <1>6 DEF States, Themes
<1>9. Gamma(p, s) \in Nights
  BY <1>6, <1>7, GammaType
<1>10. desk \in Desks /\ desk.state = s
  <2> HIDE DEF Gamma
  <2> QED
    BY <1>2, <1>3, <1>6, <1>7, <1>8, <1>9 DEF Desks, Settled
<1>11. Coherent(desk.state)
  BY <1>6, <1>10 DEF Coherent
<1>12. Shown(desk.state) \in Seen
  BY <1>6, <1>10 DEF Shown, Seen, States
<1>13. Look(desk) \in LookSet
  BY <1>10, LookType
<1> QED
  BY <1>10, <1>11, <1>12, <1>13 DEF AppearanceInit, AppearanceTypeOK, Plans, NoChange

\* Every step keeps the types and the plans.
LEMMA TypesStep ==
    ASSUME AppearanceTypeOK, Plans, [AppearanceNext]_avars
    PROVE  AppearanceTypeOK' /\ Plans'
<1> USE DEF AppearanceTypeOK
<1>1. CASE Begin
  <2>1. PICK c : Taken(c)
    BY <1>1, BegunLook, BegunNight, BegunReconcile, BegunPlace, BegunExtra DEF Begin, Plans
  <2>2. /\ change' \in Changes /\ Planned(change') /\ NightPlanned(change')
        /\ was' \in LookSet /\ asked' \subseteq LookSet
        /\ UNCHANGED <<deskvars, damage>>
    BY <2>1, TakenTypes DEF Plans
  <2>3. UNCHANGED shellvars
    BY <1>1 DEF Begin
  <2> QED
    BY <2>2, <2>3 DEF deskvars, shellvars, Plans
<1>2. CASE StepSucceeds
  <2>1. change # NoChange /\ UNCHANGED <<images, stranger, left>>
    BY <1>2 DEF StepSucceeds
  <2>2. PICK s \in change.todo :
          /\ desk' = Did(s, Aim)
          /\ shell' = IF s = "publish" THEN Shown(change.new.state) ELSE shell
          /\ \/ /\ change.todo # {s}
                /\ change' = [change EXCEPT !.todo = @ \ {s}]
                /\ UNCHANGED <<history, replies, starting>>
             \/ change.todo = {s} /\ change.undoing /\ Returns({}, damage)
             \/ /\ change.todo = {s} /\ ~change.undoing
                /\ \E answer \in Answers : Returns(answer, Mended)
    BY <1>2 DEF StepSucceeds
  <2>3. PICK d : d = desk'
    OBVIOUS
  <2>4. d \in Desks /\ Coherent(d.state)
    BY <2>1, <2>2, <2>3, StepTypes
  <2>5. shell' \in Seen
    BY <2>1, <2>2, SeenType
  <2>6. change \in Changes
    BY <2>1
  <2>7. CASE /\ change.todo # {s}
             /\ change' = [change EXCEPT !.todo = @ \ {s}]
             /\ UNCHANGED <<history, replies, starting>>
    <3>1. PICK t : t = change.todo \ {s}
      OBVIOUS
    <3>2. t \subseteq Steps /\ t # {}
      BY <2>6, <2>7, <3>1, ChangeFields
    <3>3. change' = [change EXCEPT !.todo = t]
      BY <2>7, <3>1
    <3>4. change' \in Changes /\ SameChange(change, change')
      BY <2>6, <3>2, <3>3, GoesOn
    <3>5. Planned(change') /\ NightPlanned(change')
      BY <2>1, <3>4, SamePlans DEF Plans
    <3> QED
      BY <2>1, <2>3, <2>4, <2>5, <2>7, <3>4, <3>5 DEF history, Plans
  <2>8. CASE change.todo = {s} /\ change.undoing /\ Returns({}, damage)
    <3>1. /\ change' = NoChange /\ replies' \subseteq Seen /\ starting' \in BOOLEAN
          /\ damage' \in {"none", "interrupted", "broken"}
          /\ was' \in LookSet /\ asked' \subseteq LookSet
      BY <2>8, ReturnsTypes
    <3> QED
      BY <2>1, <2>3, <2>4, <2>5, <3>1 DEF Plans
  <2>9. CASE change.todo = {s} /\ ~change.undoing /\ \E answer \in Answers : Returns(answer, Mended)
    <3>1. PICK answer \in Answers : Returns(answer, Mended)
      BY <2>9
    <3>2. answer \subseteq Seen
      BY <2>1, SeenType DEF Answers
    <3>3. Mended \in {"none", "interrupted", "broken"}
      BY DEF Mended
    <3>4. /\ change' = NoChange /\ replies' \subseteq Seen /\ starting' \in BOOLEAN
          /\ damage' \in {"none", "interrupted", "broken"}
          /\ was' \in LookSet /\ asked' \subseteq LookSet
      BY <3>1, <3>2, <3>3, ReturnsTypes
    <3> QED
      BY <2>1, <2>3, <2>4, <2>5, <3>4 DEF Plans
  <2> QED
    BY <2>2, <2>7, <2>8, <2>9
<1>3. CASE StepFails
  <2>1. change # NoChange /\ change \in Changes /\ UNCHANGED <<images, stranger>>
    BY <1>3 DEF StepFails
  <2>2. PICK s \in change.todo, hurt \in {"broken", damage} :
          /\ Raises(s)
          /\ \/ TakesBack = {} /\ Returns({}, hurt)
             \/ /\ TakesBack # {}
                /\ change' = [change EXCEPT !.todo = TakesBack, !.undoing = TRUE]
                /\ damage' = hurt
                /\ UNCHANGED <<was, asked, replies, starting>>
    BY <1>3 DEF StepFails
  <2>3. desk' \in Desks /\ Coherent(desk'.state) /\ shell' \in Seen
    BY <2>1, <2>2, RaisesType
  <2>4. hurt \in {"none", "interrupted", "broken"}
    OBVIOUS
  <2>5. CASE TakesBack = {} /\ Returns({}, hurt)
    <3>1. /\ change' = NoChange /\ replies' \subseteq Seen /\ starting' \in BOOLEAN
          /\ damage' \in {"none", "interrupted", "broken"}
          /\ was' \in LookSet /\ asked' \subseteq LookSet
      BY <2>4, <2>5, ReturnsTypes
    <3> QED
      BY <2>1, <2>3, <3>1 DEF Plans
  <2>6. CASE /\ TakesBack # {}
             /\ change' = [change EXCEPT !.todo = TakesBack, !.undoing = TRUE]
             /\ damage' = hurt
             /\ UNCHANGED <<was, asked, replies, starting>>
    <3>1. PICK t : t = TakesBack
      OBVIOUS
    <3>2. t \subseteq Steps /\ t # {}
      BY <2>1, <2>6, <3>1, TakesBackType
    <3>3. change' = [change EXCEPT !.todo = t, !.undoing = TRUE]
      BY <2>6, <3>1
    <3>4. change' \in Changes /\ SameChange(change, change')
      BY <2>1, <3>2, <3>3, TurnsBack
    <3>5. Planned(change') /\ NightPlanned(change')
      BY <2>1, <3>4, SamePlans DEF Plans
    <3> QED
      BY <2>1, <2>3, <2>4, <2>6, <3>4, <3>5 DEF Plans
  <2> QED
    BY <2>2, <2>5, <2>6
<1>4. CASE HandlerFails
  <2>1. change # NoChange /\ change \in Changes /\ UNCHANGED <<images, stranger>>
    BY <1>4 DEF HandlerFails
  <2>2. PICK s \in change.todo, rest \in SUBSET change.todo :
          /\ Raises(s)
          /\ \/ rest = {} /\ Returns({}, "broken")
             \/ /\ rest # {}
                /\ change' = [change EXCEPT !.todo = rest]
                /\ damage' = "broken"
                /\ UNCHANGED <<was, asked, replies, starting>>
    BY <1>4 DEF HandlerFails
  <2>3. desk' \in Desks /\ Coherent(desk'.state) /\ shell' \in Seen
    BY <2>1, <2>2, RaisesType
  <2>5. CASE rest = {} /\ Returns({}, "broken")
    <3>1. /\ change' = NoChange /\ replies' \subseteq Seen /\ starting' \in BOOLEAN
          /\ damage' \in {"none", "interrupted", "broken"}
          /\ was' \in LookSet /\ asked' \subseteq LookSet
      BY <2>5, ReturnsTypes
    <3> QED
      BY <2>1, <2>3, <3>1 DEF Plans
  <2>6. CASE /\ rest # {}
             /\ change' = [change EXCEPT !.todo = rest]
             /\ damage' = "broken"
             /\ UNCHANGED <<was, asked, replies, starting>>
    <3>2. rest \subseteq Steps /\ rest # {}
      BY <2>1, <2>6, ChangeFields
    <3>4. change' \in Changes /\ SameChange(change, change')
      BY <2>1, <2>6, <3>2, GoesOn
    <3>5. Planned(change') /\ NightPlanned(change')
      BY <2>1, <3>4, SamePlans DEF Plans
    <3> QED
      BY <2>1, <2>3, <2>6, <3>4, <3>5 DEF Plans
  <2> QED
    BY <2>2, <2>5, <2>6
<1>5. CASE Kill
  <2>1. PICK hurt \in {"none", "interrupted", "broken"} : Returns({}, hurt)
    BY <1>5 DEF Kill
  <2>2. /\ change' = NoChange /\ replies' \subseteq Seen /\ starting' \in BOOLEAN
        /\ damage' \in {"none", "interrupted", "broken"}
        /\ was' \in LookSet /\ asked' \subseteq LookSet
    BY <2>1, ReturnsTypes
  <2>3. UNCHANGED <<deskvars, shell>>
    BY <1>5 DEF Kill
  <2> QED
    BY <2>2, <2>3 DEF deskvars, Plans
<1>6. CASE ShellStarts
  BY <1>6, SeenType DEF ShellStarts, deskvars, history, Plans
<1>7. CASE RunStatus
  <2>1. starting' \in BOOLEAN /\ UNCHANGED <<shell, left>>
    BY <1>7 DEF RunStatus
  <2>2. CASE change = NoChange
    <3>1. \/ /\ replies' = replies \cup {Shown(desk.state)}
             /\ UNCHANGED <<deskvars, change, history>>
          \/ UNCHANGED replies /\ \E c : Taken(c) /\ c.kind = "status"
      BY <1>7, <2>2, BegunStatus DEF RunStatus, Plans
    <3>2. CASE /\ replies' = replies \cup {Shown(desk.state)}
               /\ UNCHANGED <<deskvars, change, history>>
      BY <2>1, <3>2, SeenType DEF deskvars, history, Plans
    <3>3. CASE UNCHANGED replies /\ \E c : Taken(c) /\ c.kind = "status"
      <4>1. /\ change' \in Changes /\ Planned(change') /\ NightPlanned(change')
            /\ was' \in LookSet /\ asked' \subseteq LookSet
            /\ UNCHANGED <<deskvars, damage>>
        BY <3>3, TakenTypes DEF Plans
      <4> QED
        BY <2>1, <3>3, <4>1 DEF deskvars, Plans
    <3> QED
      BY <3>1, <3>2, <3>3
  <2>3. CASE change # NoChange
    BY <1>7, <2>1, <2>3 DEF RunStatus, deskvars, history, Plans
  <2> QED
    BY <2>2, <2>3
<1>8. CASE AcceptReply
  BY <1>8 DEF AcceptReply, deskvars, history, Plans
<1>9. CASE Relaunch
  <2>1. Gamma(desk.pref, desk.state) \in Nights
    BY DeskFields, GammaType
  <2> HIDE DEF Gamma
  <2>2. desk' \in Desks /\ desk'.state = desk.state
    BY <1>9, <2>1 DEF Relaunch, Desks
  <2> QED
    BY <1>9, <2>2 DEF Relaunch, shellvars, history, Plans
<1>10. CASE FocusChanges
  <2>1. desk.state.theme.profile \in {"normal", "sun-light", "sun-dark"}
    BY DeskFields DEF States, Themes
  <2>2. desk' \in Desks /\ desk'.state = desk.state
    BY <1>10, <2>1 DEF FocusChanges, Desks
  <2> QED
    BY <1>10, <2>2 DEF FocusChanges, shellvars, history, Plans
<1>11. CASE SessionStarts
  <2>1. Gamma(desk.pref, desk.state) \in Nights
        /\ [wall |-> desk.wall, theme |-> desk.theme] \in [wall : Wallpapers, theme : Themes]
    BY DeskFields, GammaType
  <2> HIDE DEF Gamma
  <2>2. desk' \in Desks /\ desk'.state = desk.state
    BY <1>11, <2>1 DEF SessionStarts, Desks
  <2> QED
    BY <1>11, <2>2 DEF SessionStarts, shellvars, history, Plans
<1>12. CASE LoseImage
  BY <1>12 DEF LoseImage, shellvars, history, Plans
<1>13. CASE StrangerRuns
  BY <1>13 DEF StrangerRuns, shellvars, history, Plans
<1>14. CASE UNCHANGED avars
  BY <1>14 DEF avars, deskvars, shellvars, history, Plans
<1> QED
  BY <1>1, <1>2, <1>3, <1>4, <1>5, <1>6, <1>7, <1>8, <1>9, <1>10, <1>11, <1>12, <1>13, <1>14
     DEF AppearanceNext

\* Every component has its type, effective.json is never at odds with itself, and
\* what a change plans is what takes the old files to the new.
THEOREM LooksHaveTypes == AppearanceSpec => [](AppearanceTypeOK /\ Plans)
BY TypesStart, TypesStep, PTL DEF AppearanceSpec

-----------------------------------------------------------------------------
\* How far a change has come.

\* The desktop e becomes d by the step s; x is what wlsunset then runs with.
Stepped(e, d, s, to, x) ==
    /\ \A f \in LookFiles : d[f] = IF f = s THEN to[f] ELSE e[f]
    /\ d.sway = IF s = "reload" THEN Sway(e) ELSE e.sway
    /\ d.night = IF s \in {"service", "mend", "mendOwn"} THEN x ELSE e.night
    /\ d.opacity = IF s = "opacity" THEN Profile(e.state) ELSE e.opacity

\* What the order of the steps says of the one a change is at.
InOrder(c, s) ==
    /\ s \in c.todo /\ s \in Work[c.kind]
    /\ s = "reload" => c.todo \cap {"wall", "theme"} = {}
    /\ c.kind = "look" =>
         /\ s \in {"service", "opacity"} => "state" \notin c.todo
         /\ s = "state" => c.todo \cap {"wall", "theme", "reload"} = {}
         /\ s = "publish" => c.todo \cap Work["look"] = {"publish"}
    /\ c.kind # "look" /\ s = "service" => "pref" \notin c.todo

\* The order of the steps of a change that goes forward.
LEMMA AtForth ==
    ASSUME change \in Changes, ~change.undoing, NEW s, At(s)
    PROVE  InOrder(change, s)
<1>1. change.kind \in {"look", "night", "place", "reconcile", "extra", "status"}
  BY ChangeFields
<1>2. CASE change.kind = "look"
  <2>1. /\ s \in change.todo /\ s \in Work["look"]
        /\ s = "reload" => change.todo \cap {"wall", "theme"} = {}
        /\ s = "service" => "state" \notin change.todo
        /\ s = "opacity" => "state" \notin change.todo
        /\ s = "state" => change.todo \cap {"wall", "theme", "reload"} = {}
        /\ s = "publish" => change.todo \cap Work["look"] = {"publish"}
    BY <1>2, AtLook
  <2> HIDE DEF Work
  <2> QED
    BY <1>2, <2>1 DEF InOrder
<1>3. CASE change.kind = "status"
  <2>1. /\ s \in change.todo /\ s \in Work["status"]
        /\ s = "reload" => change.todo \cap {"wall", "theme"} = {}
    BY <1>3, AtStatus
  <2>2. s # "service"
    BY <2>1 DEF Work
  <2> QED
    BY <1>3, <2>1, <2>2 DEF InOrder
<1>4. CASE change.kind \in {"night", "reconcile", "place", "extra"}
  <2>1. /\ s \in change.todo /\ s \in Work[change.kind]
        /\ s = "service" => "pref" \notin change.todo
    BY <1>4, AtOthers
  <2>2. s # "reload"
    BY <1>4, <2>1 DEF Work
  <2> QED
    BY <1>4, <2>1, <2>2 DEF InOrder
<1> QED
  BY <1>1, <1>2, <1>3, <1>4

\* The files of a change on its way are old or new.
OneOf(c, d) == \A f \in LookFiles : d[f] \in {c.old[f], c.new[f]}

\* A change that goes forward has files that are old or new.
LEMMA ForwardOneOf ==
    ASSUME NEW c, NEW d, NEW todo, NEW hurt, BodyDone(c, d, todo, hurt)
    PROVE  OneOf(c, d)
BY DEF BodyDone, OneOf

\* So has one whose handler runs.
LEMMA BackwardOneOf ==
    ASSUME NEW c, NEW d, NEW todo, NEW hurt, HandlerDone(c, d, todo, hurt)
    PROVE  OneOf(c, d)
BY DEF HandlerDone, OneOf

\* Where no service is restarted, nothing of wlsunset's arguments changes.
LEMMA SameNight ==
    ASSUME NEW c, NightPlanned(c), "service" \notin c.plan, NEW d, OneOf(c, d)
    PROVE  /\ Gamma(d.pref, d.state) = Gamma(c.old.pref, c.old.state)
           /\ Gamma(c.new.pref, c.new.state) = Gamma(c.old.pref, c.old.state)
<1>1. d.pref \in {c.old.pref, c.new.pref} /\ d.state \in {c.old.state, c.new.state}
  BY DEF OneOf, LookFiles
<1> QED
  BY <1>1 DEF NightPlanned

\* Nor of the opacity of the windows, but in a change of the look.
LEMMA SameProfile ==
    ASSUME NEW c, NightPlanned(c), c.kind # "look", NEW d, OneOf(c, d)
    PROVE  Profile(c.new.state) = Profile(c.old.state) /\ Profile(d.state) = Profile(c.old.state)
<1>1. d.state \in {c.old.state, c.new.state}
  BY DEF OneOf, LookFiles
<1>2. Profile(c.new.state) = Profile(c.old.state)
  BY DEF NightPlanned
<1> QED
  BY <1>1, <1>2

\* wlsunset, after the step that restarts it.
LEMMA ServiceDone ==
    ASSUME NEW c, NightPlanned(c), "service" \in c.plan, NEW d, OneOf(c, d),
           IF c.kind = "look" THEN d.state = c.new.state ELSE d.pref = c.new.pref
    PROVE  Gamma(d.pref, d.state) = Gamma(c.new.pref, c.new.state)
<1>1. d.pref \in {c.old.pref, c.new.pref} /\ d.state \in {c.old.state, c.new.state}
  BY DEF OneOf, LookFiles
<1> QED
  BY <1>1 DEF NightPlanned

\* A change that has done nothing.
LEMMA ForwardBegins ==
    ASSUME NEW c \in Changes, Planned(c), NightPlanned(c), NEW d \in Desks, NEW hurt,
           \A f \in LookFiles : d[f] = c.old[f],
           Even(c.old) => d.sway = Sway(c.old),
           hurt = "none" => /\ d.night = Gamma(d.pref, d.state)
                            /\ d.opacity = Profile(d.state)
    PROVE  BodyDone(c, d, c.plan, hurt)
<1>1. OneOf(c, d) /\ d.pref = c.old.pref /\ d.state = c.old.state
  BY DEF OneOf, LookFiles
<1>2. c.plan \ c.plan = {}
  OBVIOUS
<1>3. c.kind = "look" => "publish" \in c.plan
  BY DEF Planned
<1>4. c.kind = "status" => "mend" \in c.plan /\ "opacity" \in c.plan
  BY DEF Planned
<1>5. "opacity" \notin c.plan => Profile(c.new.state) = Profile(c.old.state)
  BY DEF NightPlanned
<1>6. "service" \notin c.plan => Gamma(c.new.pref, c.new.state) = Gamma(c.old.pref, c.old.state)
  BY <1>1, SameNight
<1> QED
  BY <1>1, <1>2, <1>3, <1>4, <1>5, <1>6 DEF BodyDone

\* A step forth that does not raise.
LEMMA ForwardStep ==
    ASSUME NEW c \in Changes, Planned(c), NightPlanned(c), NEW e, NEW d, NEW hurt,
           BodyDone(c, e, c.todo, hurt), NEW s, InOrder(c, s),
           NEW x, Stepped(e, d, s, c.new, x),
           s \in {"service", "mend", "mendOwn"} => x = Gamma(c.new.pref, c.new.state)
    PROVE  BodyDone(c, d, c.todo \ {s}, hurt)
<1> DEFINE o == c.old
           n == c.new
           done == c.plan \ c.todo
           todo == c.todo \ {s}
<1>1. c.todo \subseteq c.plan /\ s \in c.todo /\ c.plan \ todo = done \cup {s}
  BY DEF BodyDone, InOrder
<1>2. \A f \in LookFiles : /\ e[f] = IF f \in done THEN n[f] ELSE o[f]
                       /\ d[f] = IF f \in done \cup {s} THEN n[f] ELSE o[f]
  BY <1>1 DEF BodyDone, Stepped
<1>3. OneOf(c, e) /\ OneOf(c, d)
  BY <1>2 DEF OneOf
<1>4. c.plan \subseteq Work[c.kind]
  BY DEF Planned
<1>5. IF "reload" \in done \cup {s} THEN d.sway = Sway(d) /\ todo \cap {"wall", "theme"} = {}
                                   ELSE Even(o) => d.sway = Sway(o)
  <2>1. CASE s = "reload"
    <3>1. d.wall = e.wall /\ d.theme = e.theme /\ d.sway = Sway(e)
      BY <2>1 DEF Stepped, LookFiles
    <3>2. todo \cap {"wall", "theme"} = {}
      BY <2>1 DEF InOrder
    <3> QED
      BY <2>1, <3>1, <3>2 DEF Sway
  <2>2. CASE s # "reload" /\ "reload" \in done
    <3>1. e.sway = Sway(e) /\ c.todo \cap {"wall", "theme"} = {}
      BY <2>2 DEF BodyDone
    <3>2. s \notin {"wall", "theme"} /\ d.sway = e.sway
      BY <1>1, <2>2, <3>1 DEF Stepped
    <3>3. d.wall = e.wall /\ d.theme = e.theme
      BY <3>2 DEF Stepped, LookFiles
    <3> QED
      BY <2>2, <3>1, <3>2, <3>3 DEF Sway
  <2>3. CASE s # "reload" /\ "reload" \notin done
    <3>1. d.sway = e.sway /\ (Even(o) => e.sway = Sway(o))
      BY <2>3 DEF Stepped, BodyDone
    <3> QED
      BY <2>3, <3>1
  <2> QED
    BY <2>1, <2>2, <2>3
<1>6. c.kind = "look" /\ "state" \in done \cup {s} => todo \cap {"wall", "theme", "reload"} = {}
  BY DEF BodyDone, InOrder
<1>7. "service" \in done \cup {s} => IF c.kind = "look" THEN "state" \notin todo ELSE "pref" \notin todo
  BY DEF BodyDone, InOrder
<1>8. c.kind = "look" /\ todo # {} => "publish" \in todo
  <2>1. c.kind = "look" /\ s = "publish" => todo = {}
    BY <1>1, <1>4 DEF InOrder
  <2>2. c.kind = "look" => "publish" \in c.todo
    BY <1>1 DEF BodyDone
  <2> QED
    BY <2>1, <2>2
<1>9. c.kind = "status" => "service" \notin c.plan
  BY <1>4 DEF Work
<1>10. c.kind = "status" /\ "mend" \notin todo => d.night = Gamma(d.pref, d.state)
  <2> SUFFICES ASSUME c.kind = "status", "mend" \notin todo PROVE d.night = Gamma(d.pref, d.state)
    OBVIOUS
  <2>1. /\ Gamma(d.pref, d.state) = Gamma(n.pref, n.state)
        /\ Gamma(e.pref, e.state) = Gamma(n.pref, n.state)
    BY <1>3, <1>9, SameNight
  <2>2. CASE s = "mend"
    BY <2>1, <2>2 DEF Stepped
  <2>3. CASE s # "mend"
    <3>1. s \notin {"service", "mend", "mendOwn"}
      BY <2>3 DEF InOrder, Work
    <3>2. d.night = e.night
      BY <3>1 DEF Stepped
    <3>3. e.night = Gamma(e.pref, e.state)
      BY <2>3 DEF BodyDone
    <3> QED
      BY <2>1, <3>2, <3>3
  <2> QED
    BY <2>2, <2>3
<1>11. c.kind = "status" /\ "opacity" \notin todo => d.opacity = Profile(d.state)
  <2> SUFFICES ASSUME c.kind = "status", "opacity" \notin todo PROVE d.opacity = Profile(d.state)
    OBVIOUS
  <2>1. Profile(d.state) = Profile(o.state) /\ Profile(e.state) = Profile(o.state)
    BY <1>3, SameProfile
  <2>2. CASE s = "opacity"
    BY <2>1, <2>2 DEF Stepped
  <2>3. CASE s # "opacity"
    BY <2>1, <2>3 DEF Stepped, BodyDone
  <2> QED
    BY <2>2, <2>3
<1>12. ASSUME hurt = "none"
       PROVE  "service" \notin todo =>
                d.night = Gamma(n.pref, n.state) /\ Gamma(d.pref, d.state) = Gamma(n.pref, n.state)
  <2> SUFFICES ASSUME "service" \notin todo
               PROVE  /\ d.night = Gamma(n.pref, n.state)
                      /\ Gamma(d.pref, d.state) = Gamma(n.pref, n.state)
    OBVIOUS
  <2>1. CASE "service" \notin c.plan
    <3>1. Gamma(d.pref, d.state) = Gamma(n.pref, n.state)
      BY <1>3, <2>1, SameNight
    <3>2. "service" \notin c.todo
      BY <1>1, <2>1
    <3>3. e.night = Gamma(n.pref, n.state)
      BY <1>12, <3>2 DEF BodyDone
    <3> QED
      BY <3>1, <3>3 DEF Stepped
  <2>2. CASE "service" \in c.plan
    <3>1. "service" \in done \cup {s}
      BY <1>1, <2>2
    <3>2. IF c.kind = "look" THEN "state" \in c.plan /\ d.state = n.state
                             ELSE "pref" \in c.plan /\ d.pref = n.pref
      <4>1. IF c.kind = "look" THEN "state" \in c.plan ELSE "pref" \in c.plan
        BY <2>2 DEF NightPlanned
      <4>2. IF c.kind = "look" THEN "state" \in done \cup {s} ELSE "pref" \in done \cup {s}
        BY <1>1, <1>7, <3>1, <4>1
      <4> QED
        BY <1>2, <4>1, <4>2 DEF LookFiles
    <3>3. Gamma(d.pref, d.state) = Gamma(n.pref, n.state)
      BY <1>3, <2>2, <3>2, ServiceDone
    <3>4. d.night = Gamma(n.pref, n.state)
      <4>1. CASE s = "service"
        BY <4>1 DEF Stepped
      <4>2. CASE s # "service"
        <5>1. c.kind \in {"look", "night", "place"}
          BY <2>2 DEF NightPlanned
        <5>2. s \notin {"service", "mend", "mendOwn"}
          BY <4>2, <5>1 DEF InOrder, Work
        <5>3. "service" \notin c.todo
          BY <4>2
        <5> QED
          BY <1>12, <5>2, <5>3 DEF Stepped, BodyDone
      <4> QED
        BY <4>1, <4>2
    <3> QED
      BY <3>3, <3>4
  <2> QED
    BY <2>1, <2>2
<1>13. ASSUME hurt = "none"
       PROVE  (done \cup {s}) \cap {"service", "pref", "state"} = {}
                => d.night = Gamma(o.pref, o.state)
  <2> SUFFICES ASSUME (done \cup {s}) \cap {"service", "pref", "state"} = {}
               PROVE  d.night = Gamma(o.pref, o.state)
    OBVIOUS
  <2>1. e.night = Gamma(o.pref, o.state)
    BY <1>13 DEF BodyDone
  <2>2. CASE s \in {"mend", "mendOwn"}
    <3>1. c.kind \in {"status", "reconcile"}
      BY <2>2, ChangeFields DEF InOrder, Work
    <3>2. "service" \notin c.plan
      BY <1>4, <3>1 DEF Work
    <3>3. Gamma(n.pref, n.state) = Gamma(o.pref, o.state)
      BY <1>3, <3>2, SameNight
    <3> QED
      BY <2>2, <3>3 DEF Stepped
  <2>3. CASE s \notin {"mend", "mendOwn"}
    BY <2>1, <2>3 DEF Stepped
  <2> QED
    BY <2>2, <2>3
<1>14. ASSUME hurt = "none"
       PROVE  "opacity" \notin todo =>
                d.opacity = Profile(n.state) /\ Profile(d.state) = Profile(n.state)
  <2> SUFFICES ASSUME "opacity" \notin todo
               PROVE  d.opacity = Profile(n.state) /\ Profile(d.state) = Profile(n.state)
    OBVIOUS
  <2>1. d.state \in {o.state, n.state} /\ e.state \in {o.state, n.state}
    BY <1>3 DEF OneOf, LookFiles
  <2>2. CASE s = "opacity"
    <3>1. d.opacity = Profile(e.state) /\ d.state = e.state
      BY <2>2 DEF Stepped, LookFiles
    <3>2. CASE Profile(n.state) = Profile(o.state)
      BY <2>1, <3>1, <3>2
    <3>3. CASE Profile(n.state) # Profile(o.state)
      <4>1. c.kind = "look" /\ "state" \in c.plan
        BY <3>3 DEF NightPlanned
      <4>2. "state" \in done
        BY <2>2, <4>1 DEF InOrder
      <4>3. e.state = n.state
        BY <1>2, <4>2 DEF LookFiles
      <4> QED
        BY <3>1, <4>3
    <3> QED
      BY <3>2, <3>3
  <2>3. CASE s # "opacity"
    <3>1. e.opacity = Profile(n.state) /\ Profile(e.state) = Profile(n.state)
      BY <1>14, <2>3 DEF BodyDone
    <3>2. d.opacity = e.opacity /\ d.state \in {e.state, n.state}
      BY <2>3 DEF Stepped, LookFiles
    <3> QED
      BY <3>1, <3>2
  <2> QED
    BY <2>2, <2>3
<1>15. ASSUME hurt = "none"
       PROVE  (\/ (done \cup {s}) \cap {"opacity", "state"} = {}
               \/ Profile(n.state) = Profile(o.state)) => d.opacity = Profile(o.state)
  <2> SUFFICES ASSUME \/ (done \cup {s}) \cap {"opacity", "state"} = {}
                      \/ Profile(n.state) = Profile(o.state)
               PROVE  d.opacity = Profile(o.state)
    OBVIOUS
  <2>1. e.opacity = Profile(o.state)
    BY <1>15 DEF BodyDone
  <2>2. CASE s = "opacity"
    <3>1. Profile(n.state) = Profile(o.state)
      BY <2>2
    <3>2. e.state \in {o.state, n.state}
      BY <1>3 DEF OneOf, LookFiles
    <3> QED
      BY <2>2, <3>1, <3>2 DEF Stepped
  <2>3. CASE s # "opacity"
    BY <2>1, <2>3 DEF Stepped
  <2> QED
    BY <2>2, <2>3
<1>16. todo \subseteq c.plan
  BY <1>1
<1> HIDE DEF o, n, done, todo
<1>17. o = c.old /\ n = c.new /\ todo = c.todo \ {s} /\ c.plan \ todo = done \cup {s}
  BY <1>1 DEF o, n, todo, done
<1> QED
  BY <1>2, <1>5, <1>6, <1>7, <1>8, <1>10, <1>11, <1>12, <1>13, <1>14, <1>15, <1>16, <1>17
     DEF BodyDone

-----------------------------------------------------------------------------
\* Where a change ends.

\* The desktop is whole, in the words of the model.
LEMMA WholeIs == (Whole <=> WholeDesk(desk)) /\ (Whole' <=> WholeDesk(desk'))
BY DEF Whole, WholeDesk

\* A desktop is whole when its files are square and Sway, wlsunset and the windows follow.
LEMMA WholeBy ==
    ASSUME NEW d \in Desks
    PROVE  WholeDesk(d) <=> /\ Square(d) /\ Coherent(d.state)
                            /\ d.sway = Sway(d)
                            /\ d.night = Gamma(d.pref, d.state)
                            /\ d.opacity = Profile(d.state)
<1>1. d = [wall |-> d.wall, theme |-> d.theme, state |-> d.state, pref |-> d.pref,
           zone |-> d.zone, sway |-> d.sway, night |-> d.night, opacity |-> d.opacity]
  BY DEF Desks
<1> DEFINE f == Settled(d.state, d.pref, d.zone)
<1>2. /\ f = [wall |-> d.state.wall, theme |-> d.state.theme, state |-> d.state, pref |-> d.pref,
              zone |-> d.zone, sway |-> [wall |-> d.state.wall, theme |-> d.state.theme],
              night |-> Gamma(d.pref, d.state), opacity |-> Profile(d.state)]
  BY DEF Settled, Profile
<1>3. /\ f.wall = d.state.wall /\ f.theme = d.state.theme
      /\ f.sway = [wall |-> d.state.wall, theme |-> d.state.theme]
      /\ f.night = Gamma(d.pref, d.state) /\ f.opacity = Profile(d.state)
  BY <1>2
<1> HIDE DEF f
<1>4. d = f => /\ Even(d) /\ d.sway = Sway(d)
               /\ d.night = Gamma(d.pref, d.state) /\ d.opacity = Profile(d.state)
  <2> SUFFICES ASSUME d = f
               PROVE  /\ Even(d) /\ d.sway = Sway(d)
                      /\ d.night = Gamma(d.pref, d.state) /\ d.opacity = Profile(d.state)
    OBVIOUS
  <2>1. d.wall = d.state.wall /\ d.theme = d.state.theme
    BY <1>3
  <2>2. d.sway = [wall |-> d.state.wall, theme |-> d.state.theme]
    BY <1>3
  <2>3. d.night = Gamma(d.pref, d.state) /\ d.opacity = Profile(d.state)
    BY <1>3
  <2> QED
    BY <2>1, <2>2, <2>3 DEF Even, Sway
<1>5. Even(d) /\ d.sway = Sway(d) /\ d.night = Gamma(d.pref, d.state)
        /\ d.opacity = Profile(d.state) => d = f
  BY <1>1, <1>2 DEF Even, Sway
<1>6. d = f <=> d = Settled(d.state, d.pref, d.zone)
  BY DEF f
<1> QED
  BY <1>4, <1>5, <1>6 DEF WholeDesk, Square, Coherent

\* Sway and the files, as long as a change goes forward: it shows the old files
\* until it reloads, and effective.json tells of the new ones only after that.
LEMMA ForwardSway ==
    ASSUME NEW c \in Changes, Planned(c), NEW d, NEW todo, NEW hurt, BodyDone(c, d, todo, hurt),
           c.kind = "status" => \/ "reload" \in c.plan \ todo
                                \/ (c.plan \ todo) \cap {"theme", "wall"} = {}
    PROVE  SwayKnows(d)
<1> DEFINE o == c.old
           n == c.new
           done == c.plan \ todo
<1> SUFFICES ASSUME Even(d) PROVE d.sway = Sway(d)
  BY DEF SwayKnows
<1>1. \A f \in LookFiles : d[f] = IF f \in done THEN n[f] ELSE o[f]
  BY DEF BodyDone
<1>2. CASE "reload" \in done
  BY <1>2 DEF BodyDone
<1>3. CASE "reload" \notin done
  <2>1. Even(o) => d.sway = Sway(o)
    BY <1>3 DEF BodyDone
  <2>2. d.wall = o.wall /\ d.theme = o.theme /\ d.state.wall = o.state.wall
        /\ d.state.theme = o.state.theme
    <3>1. CASE c.kind = "look" /\ "reload" \in c.plan
      <4>1. "state" \notin done
        BY <1>3, <3>1 DEF BodyDone
      <4>2. d.state = o.state
        BY <1>1, <4>1 DEF LookFiles
      <4>3. "wall" \notin done
        <5>1. "wall" \in done => n.wall # o.state.wall /\ d.wall = n.wall
          BY <1>1, <3>1 DEF Planned, LookFiles
        <5> QED
          BY <4>2, <5>1 DEF Even
      <4>4. "theme" \notin done
        <5>1. "theme" \in done => n.theme # o.state.theme /\ d.theme = n.theme
          BY <1>1, <3>1 DEF Planned, LookFiles
        <5> QED
          BY <4>2, <5>1 DEF Even
      <4> QED
        BY <1>1, <4>2, <4>3, <4>4 DEF LookFiles
    <3>2. CASE c.kind = "look" /\ "reload" \notin c.plan
      <4>1. "wall" \notin c.plan /\ "theme" \notin c.plan
        BY <3>2 DEF Planned
      <4>2. n.wall = o.state.wall /\ n.theme = o.state.theme /\ Even(n)
        BY <3>2, <4>1 DEF Planned, Scenic
      <4>3. d.state \in {o.state, n.state} /\ d.wall = o.wall /\ d.theme = o.theme
        BY <1>1, <4>1 DEF LookFiles
      <4> QED
        BY <4>2, <4>3 DEF Even
    <3>3. CASE c.kind # "look"
      <4>1. n.state.wall = o.state.wall /\ n.state.theme = o.state.theme
        BY <3>3 DEF Planned
      <4>2. d.state \in {o.state, n.state}
        BY <1>1 DEF LookFiles
      <4>3. "wall" \notin done /\ "theme" \notin done
        <5>1. CASE c.kind = "status"
          BY <1>3, <5>1
        <5>2. CASE c.kind # "status"
          <6>1. c.plan \subseteq Work[c.kind]
            BY DEF Planned
          <6>2. "wall" \notin Work[c.kind] /\ "theme" \notin Work[c.kind]
            BY <3>3, <5>2, ChangeFields DEF Work
          <6> QED
            BY <6>1, <6>2
        <5> QED
          BY <5>1, <5>2
      <4> QED
        BY <1>1, <4>1, <4>2, <4>3 DEF LookFiles
    <3> QED
      BY <3>1, <3>2, <3>3
  <2>3. Even(o)
    BY <2>2 DEF Even
  <2> QED
    BY <2>1, <2>2, <2>3 DEF Sway
<1> QED
  BY <1>2, <1>3

\* The end of a change, when its last step has returned.
LEMMA ForwardEnd ==
    ASSUME NEW c \in Changes, Planned(c), NightPlanned(c), NEW d \in Desks, NEW hurt,
           BodyDone(c, d, {}, hurt)
    PROVE  /\ d.state = c.new.state
           /\ SwayKnows(d)
           /\ (hurt = "none" /\ Square(c.old)) \/ c.kind = "status" =>
                WholeDesk(d) /\ Look(d) = Look(c.new)
<1> DEFINE o == c.old
           n == c.new
<1>0. c.plan \ {} = c.plan
  OBVIOUS
<1>1. \A f \in LookFiles : d[f] = IF f \in c.plan THEN n[f] ELSE o[f]
  BY <1>0 DEF BodyDone
<1>2. d.state = n.state /\ d.pref = n.pref /\ d.zone = n.zone
  BY <1>1 DEF Planned, LookFiles
<1>3. "reload" \in c.plan <=> c.plan \cap {"wall", "theme"} # {}
  BY DEF Planned
<1>4. SwayKnows(d)
  BY <1>0, <1>3, ForwardSway
<1>5. ASSUME (hurt = "none" /\ Square(o)) \/ c.kind = "status"
      PROVE  WholeDesk(d) /\ Look(d) = Look(n)
  <2>1. Square(n)
    BY <1>5 DEF Planned
  <2>2. "wall" \notin c.plan => n.wall = o.wall
    <3>1. CASE c.kind = "look"
      BY <1>5, <3>1 DEF Planned, Square, Even
    <3>2. CASE c.kind # "look"
      BY <3>2 DEF Planned
    <3> QED
      BY <3>1, <3>2
  <2>3. "theme" \notin c.plan => n.theme = o.theme
    <3>1. CASE c.kind = "look"
      BY <1>5, <3>1 DEF Planned, Square, Even
    <3>2. CASE c.kind # "look"
      BY <3>2 DEF Planned
    <3> QED
      BY <3>1, <3>2
  <2>4. d.wall = n.wall /\ d.theme = n.theme
    BY <1>1, <2>2, <2>3 DEF LookFiles
  <2>5. Square(d)
    BY <1>2, <2>1, <2>4 DEF Square, Even
  <2>6. d.sway = Sway(d)
    BY <1>4, <2>5 DEF SwayKnows, Square
  <2>7. Coherent(d.state)
    BY <1>2 DEF Planned
  <2>8. d.night = Gamma(d.pref, d.state)
    BY <1>5 DEF BodyDone
  <2>9. d.opacity = Profile(d.state)
    BY <1>5 DEF BodyDone
  <2>10. Look(d) = Look(n)
    BY <1>2 DEF Look
  <2> QED
    BY <2>5, <2>6, <2>7, <2>8, <2>9, <2>10, WholeBy
<1> QED
  BY <1>2, <1>4, <1>5

\* A change that has restarted nothing and replaced nothing.
LEMMA ForwardUntouched ==
    ASSUME NEW c \in Changes, Planned(c), NEW d \in Desks, NEW todo,
           BodyDone(c, d, todo, "none"), Square(c.old),
           (c.plan \ todo) \cap {"wall", "theme", "reload", "state", "pref", "zone",
                                 "service", "opacity"} = {}
    PROVE  WholeDesk(d) /\ Look(d) = Look(c.old) /\ d.state = c.old.state
<1>1. \A f \in LookFiles : d[f] = c.old[f]
  BY DEF BodyDone, LookFiles
<1>2. /\ d.state = c.old.state /\ d.pref = c.old.pref /\ d.zone = c.old.zone
      /\ d.wall = c.old.wall /\ d.theme = c.old.theme
  BY <1>1 DEF LookFiles
<1>3. Square(d) /\ Coherent(d.state) /\ Look(d) = Look(c.old)
  BY <1>2 DEF Square, Even, Look, Planned
<1>4. d.sway = Sway(d)
  <2>1. d.sway = Sway(c.old)
    BY DEF BodyDone, Square
  <2> QED
    BY <1>2, <2>1 DEF Sway
<1>5. d.night = Gamma(d.pref, d.state)
  BY <1>2 DEF BodyDone
<1>6. d.opacity = Profile(d.state)
  BY <1>2 DEF BodyDone
<1> QED
  BY <1>2, <1>3, <1>4, <1>5, <1>6, WholeBy

\* Each part of the look is one that was known, when the files are old or new.
LEMMA LookParts ==
    ASSUME NEW c, NEW d, OneOf(c, d), NEW looks,
           KnownAs(Look(c.old), looks), KnownAs(Look(c.new), looks)
    PROVE  KnownAs(Look(d), looks)
<1>1. /\ d.state \in {c.old.state, c.new.state} /\ d.pref \in {c.old.pref, c.new.pref}
      /\ d.zone \in {c.old.zone, c.new.zone}
  BY DEF OneOf, LookFiles
<1>2. \A part \in {"scene", "night", "coords", "extra", "zone"} :
        Look(d)[part] \in {Look(c.old)[part], Look(c.new)[part]}
  <2>1. /\ Look(d).scene \in {Look(c.old).scene, Look(c.new).scene}
        /\ Look(d).night \in {Look(c.old).night, Look(c.new).night}
        /\ Look(d).coords \in {Look(c.old).coords, Look(c.new).coords}
        /\ Look(d).extra \in {Look(c.old).extra, Look(c.new).extra}
        /\ Look(d).zone \in {Look(c.old).zone, Look(c.new).zone}
    BY <1>1 DEF Look
  <2> HIDE DEF Look
  <2> QED
    BY <2>1
<1>3. \A f : DOMAIN Look(f) = {"scene", "night", "coords", "extra", "zone"}
  BY LookFields
<1> HIDE DEF Look
<1> QED
  BY <1>2, <1>3 DEF KnownAs

-----------------------------------------------------------------------------
\* The handlers.

\* What a handler is begun with takes back what the change may have done.
TakenBack(c, s, todo, tb) ==
    LET done == c.plan \ todo
    IN  /\ tb # {} => c.kind \in {"look", "night", "place", "status"}
        /\ c.kind = "look" => tb = {"wall", "theme", "state", "pref"}
                                     \cup When(done \cap {"wall", "theme"} # {}, {"reload"})
                                     \cup (c.plan \cap {"service", "opacity"})
        /\ c.kind = "night" => tb = {"pref", "state", "service"}
        /\ c.kind = "place" => tb = (done \cap {"pref", "zone"})
                                      \cup When("pref" \in done, c.plan \cap {"service"})
        /\ c.kind = "status" => tb = {"theme", "wall"} \cup (c.plan \cap {"reload"})

\* What a handler takes back, in the words of the model.
LEMMA TakenBackIs ==
    ASSUME NEW s
    PROVE  TakenBack(change, s, change.todo, TakesBack)
BY DEF TakenBack, TakesBack, LookBack, NightBack, PlaceBack, StatusBack, Done

\* The desktop that the step that raised has left: as before it, or as after it.
\* What a place did before it raised is not known to its handler.
RaisedBy(c, e, d, s, x, hurt) ==
    \/ d = e
    \/ /\ Stepped(e, d, s, c.new, x)
       /\ s \in {"service", "mend", "mendOwn"} =>
            \/ s = "mendOwn" /\ x = e.night
            \/ x = IF Gamma(c.new.pref, c.new.state) = "off" THEN "off" ELSE Gamma(e.pref, e.state)
       /\ c.kind = "place" => s \notin {"zone", "pref"}

\* After a step that raised, too, each file is old or new.
LEMMA LeftOneOf ==
    ASSUME NEW c, NEW e, NEW d, NEW s, NEW x, NEW hurt, RaisedBy(c, e, d, s, x, hurt), OneOf(c, e)
    PROVE  OneOf(c, d)
BY DEF RaisedBy, Stepped, OneOf

\* A handler begins, whatever the step that raised has left.
LEMMA BackwardBegins ==
    ASSUME NEW c \in Changes, Planned(c), NightPlanned(c), NEW e, NEW d, NEW hurt,
           BodyDone(c, e, c.todo, hurt), NEW s, InOrder(c, s), NEW x, RaisedBy(c, e, d, s, x, hurt),
           NEW tb, TakenBack(c, s, c.todo, tb), tb # {}
    PROVE  HandlerDone(c, d, tb, hurt)
<1> DEFINE o == c.old
           n == c.new
           done == c.plan \ c.todo
<1>1. c.todo \subseteq c.plan /\ s \in c.todo /\ c.plan \subseteq Work[c.kind] /\ s \in c.plan
  BY DEF BodyDone, InOrder, Planned
<1>2. c.kind \in {"look", "night", "place", "status"}
  BY DEF TakenBack
<1>3. \A f \in LookFiles : e[f] = IF f \in done THEN n[f] ELSE o[f]
  BY DEF BodyDone
<1>4. OneOf(c, e)
  BY ForwardOneOf
<1>5. OneOf(c, d)
  BY <1>4, LeftOneOf
<1>6. \A f \in LookFiles : d[f] # e[f] => f = s /\ c.kind # "place"
  <2>1. c.kind = "place" => s \notin {"wall", "theme", "state"}
    BY <1>1 DEF Work
  <2> QED
    BY <2>1 DEF RaisedBy, Stepped, LookFiles
<1>7. \A f \in LookFiles : f \notin tb => d[f] = o[f] \/ (c.kind = "status" /\ f \in {"state", "pref"})
  <2> SUFFICES ASSUME NEW f \in LookFiles, f \notin tb, ~(c.kind = "status" /\ f \in {"state", "pref"})
               PROVE  d[f] = o[f]
    OBVIOUS
  <2>1. f \notin done /\ (c.kind # "place" => f # s)
    BY <1>1, <1>2 DEF TakenBack, LookFiles, Work
  <2> QED
    BY <1>3, <1>6, <2>1
<1>8. "reload" \notin tb => "reload" \notin done /\ s # "reload"
  <2>1. CASE c.kind = "look"
    <3> SUFFICES ASSUME "reload" \in done \/ s = "reload" PROVE done \cap {"wall", "theme"} # {}
      BY <2>1 DEF TakenBack, When
    <3>1. "reload" \in c.plan
      BY <1>1
    <3>2. c.plan \cap {"wall", "theme"} # {}
      BY <3>1 DEF Planned
    <3>3. c.todo \cap {"wall", "theme"} = {}
      BY DEF BodyDone, InOrder
    <3> QED
      BY <3>2, <3>3
  <2>2. CASE c.kind = "status"
    BY <1>1, <2>2 DEF TakenBack
  <2>3. CASE c.kind \in {"night", "place"}
    BY <1>1, <2>3 DEF Work
  <2> QED
    BY <1>2, <2>1, <2>2, <2>3
<1>9. "reload" \notin tb => (Even(o) => d.sway = Sway(o))
  <2> SUFFICES ASSUME "reload" \notin tb, Even(o) PROVE d.sway = Sway(o)
    OBVIOUS
  <2>1. e.sway = Sway(o)
    BY <1>8 DEF BodyDone
  <2> QED
    BY <1>8, <2>1 DEF RaisedBy, Stepped
<1>10. "service" \in c.plan \ tb => "pref" \notin tb /\ "state" \notin tb
  <2>1. CASE c.kind = "place"
    BY <2>1 DEF TakenBack, When
  <2>2. CASE c.kind = "status"
    BY <1>1, <2>2 DEF Work
  <2>3. CASE c.kind \in {"look", "night"}
    BY <2>3 DEF TakenBack
  <2> QED
    BY <1>2, <2>1, <2>2, <2>3
<1>11. ASSUME hurt = "none"
       PROVE  "service" \notin tb =>
                d.night = Gamma(o.pref, o.state) /\ Gamma(d.pref, d.state) = Gamma(o.pref, o.state)
  <2> SUFFICES ASSUME "service" \notin tb
               PROVE  /\ d.night = Gamma(o.pref, o.state)
                      /\ Gamma(d.pref, d.state) = Gamma(o.pref, o.state)
    OBVIOUS
  <2>1. CASE "service" \notin c.plan
    <3>1. /\ Gamma(d.pref, d.state) = Gamma(o.pref, o.state)
          /\ Gamma(e.pref, e.state) = Gamma(o.pref, o.state)
          /\ Gamma(n.pref, n.state) = Gamma(o.pref, o.state)
      BY <1>4, <1>5, <2>1, SameNight
    <3>2. "service" \notin c.todo
      BY <1>1, <2>1
    <3>3. e.night = Gamma(o.pref, o.state)
      BY <1>11, <3>1, <3>2 DEF BodyDone
    <3>4. s # "mendOwn" /\ s # "service"
      BY <1>1, <1>2, <2>1 DEF Work
    <3>5. s = "mend" /\ d # e => x = Gamma(o.pref, o.state)
      BY <3>1 DEF RaisedBy
    <3> QED
      BY <3>1, <3>3, <3>4, <3>5 DEF RaisedBy, Stepped
  <2>2. CASE "service" \in c.plan
    <3>1. c.kind = "place"
      BY <1>1, <1>2, <2>2 DEF TakenBack, Work
    <3>2. "pref" \notin done /\ "pref" \in c.plan
      BY <2>2, <3>1 DEF TakenBack, When, NightPlanned
    <3>3. "service" \notin done /\ s # "service" /\ "state" \notin c.plan
      BY <1>1, <3>1, <3>2 DEF BodyDone, InOrder, Work
    <3>4. e.night = Gamma(o.pref, o.state)
      BY <1>11, <3>2, <3>3 DEF BodyDone
    <3>5. d.pref = o.pref /\ d.state = o.state
      BY <1>3, <1>6, <3>1, <3>2, <3>3 DEF LookFiles
    <3>6. s \notin {"mend", "mendOwn"}
      BY <1>1, <3>1 DEF Work
    <3> QED
      BY <3>3, <3>4, <3>5, <3>6 DEF RaisedBy, Stepped
  <2> QED
    BY <2>1, <2>2
<1>12. ASSUME hurt = "none"
       PROVE  "opacity" \notin tb =>
                d.opacity = Profile(o.state) /\ Profile(d.state) = Profile(o.state)
  <2> SUFFICES ASSUME "opacity" \notin tb
               PROVE  d.opacity = Profile(o.state) /\ Profile(d.state) = Profile(o.state)
    OBVIOUS
  <2>1. Profile(n.state) = Profile(o.state)
    BY <1>2 DEF TakenBack, NightPlanned
  <2>2. d.state \in {o.state, n.state} /\ e.state \in {o.state, n.state}
    BY <1>4, <1>5 DEF OneOf, LookFiles
  <2>3. e.opacity = Profile(o.state)
    BY <1>12, <2>1 DEF BodyDone
  <2>4. Profile(e.state) = Profile(o.state) /\ Profile(d.state) = Profile(o.state)
    BY <2>1, <2>2
  <2> QED
    BY <2>3, <2>4 DEF RaisedBy, Stepped
<1>13. c.kind = "place" => "state" \notin tb
  BY DEF TakenBack, When
<1>14. \A f \in LookFiles : d[f] \in {o[f], n[f]}
  BY <1>5 DEF OneOf
<1> HIDE DEF o, n, done
<1>15. o = c.old /\ n = c.new
  BY DEF o, n
<1> QED
  BY <1>2, <1>7, <1>9, <1>10, <1>11, <1>12, <1>13, <1>14, <1>15 DEF HandlerDone

\* A step back that does not raise.
LEMMA BackwardStep ==
    ASSUME NEW c \in Changes, Planned(c), NightPlanned(c), NEW e, NEW d, NEW todo, NEW hurt,
           HandlerDone(c, e, todo, hurt), NEW s \in todo, s # "mend", s # "mendOwn",
           s = "reload" => todo \cap {"wall", "theme"} = {},
           s = "service" => /\ c.kind # "status" /\ "pref" \notin todo
                            /\ c.kind # "place" => "state" \notin todo,
           s = "opacity" => c.kind # "status" /\ "state" \notin todo,
           NEW x, Stepped(e, d, s, c.old, x), s = "service" => x = Gamma(c.old.pref, c.old.state)
    PROVE  HandlerDone(c, d, todo \ {s}, hurt)
<1> DEFINE o == c.old
           n == c.new
           rest == todo \ {s}
<1>1. /\ c.kind \in {"look", "night", "place", "status"}
      /\ c.kind = "place" => "state" \notin todo
  BY DEF HandlerDone
<1>2. \A f \in LookFiles : d[f] = IF f = s THEN o[f] ELSE e[f]
  BY DEF Stepped
<1>3. \A f \in LookFiles :
        /\ e[f] \in {o[f], n[f]}
        /\ f \notin todo => e[f] = o[f] \/ (c.kind = "status" /\ f \in {"state", "pref"})
  BY DEF HandlerDone
<1>4. \A f \in LookFiles :
        /\ d[f] \in {o[f], n[f]}
        /\ f \notin rest => d[f] = o[f] \/ (c.kind = "status" /\ f \in {"state", "pref"})
  BY <1>2, <1>3
<1>5. OneOf(c, d)
  BY <1>4 DEF OneOf
<1>6. "reload" \notin rest => (Even(o) => d.sway = Sway(o))
  <2>1. CASE s = "reload"
    <3>1. e.wall = o.wall /\ e.theme = o.theme
      BY <1>3, <2>1 DEF LookFiles
    <3> QED
      BY <2>1, <3>1 DEF Stepped, Sway
  <2>2. CASE s # "reload"
    BY <2>2 DEF Stepped, HandlerDone
  <2> QED
    BY <2>1, <2>2
<1>7. "service" \in c.plan \ rest => "pref" \notin rest /\ "state" \notin rest
  BY <1>1 DEF HandlerDone
<1>8. ASSUME hurt = "none"
      PROVE  "service" \notin rest =>
               d.night = Gamma(o.pref, o.state) /\ Gamma(d.pref, d.state) = Gamma(o.pref, o.state)
  <2> SUFFICES ASSUME "service" \notin rest
               PROVE  /\ d.night = Gamma(o.pref, o.state)
                      /\ Gamma(d.pref, d.state) = Gamma(o.pref, o.state)
    OBVIOUS
  <2>1. CASE s = "service"
    <3>1. d.pref = o.pref /\ d.state = o.state
      BY <1>1, <1>2, <1>3, <2>1 DEF LookFiles
    <3> QED
      BY <2>1, <3>1 DEF Stepped
  <2>2. CASE s # "service"
    <3>1. e.night = Gamma(o.pref, o.state) /\ Gamma(e.pref, e.state) = Gamma(o.pref, o.state)
      BY <1>8, <2>2 DEF HandlerDone
    <3>2. d.night = e.night
      BY <2>2 DEF Stepped
    <3>3. CASE "service" \in c.plan
      <4>1. s \notin {"pref", "state"}
        BY <2>2, <3>3 DEF HandlerDone
      <4>2. d.pref = e.pref /\ d.state = e.state
        BY <1>2, <4>1 DEF LookFiles
      <4> QED
        BY <3>1, <3>2, <4>2
    <3>4. CASE "service" \notin c.plan
      BY <1>5, <3>1, <3>2, <3>4, SameNight
    <3> QED
      BY <3>3, <3>4
  <2> QED
    BY <2>1, <2>2
<1>9. ASSUME hurt = "none"
      PROVE  "opacity" \notin rest =>
               d.opacity = Profile(o.state) /\ Profile(d.state) = Profile(o.state)
  <2> SUFFICES ASSUME "opacity" \notin rest
               PROVE  d.opacity = Profile(o.state) /\ Profile(d.state) = Profile(o.state)
    OBVIOUS
  <2>1. CASE s = "opacity"
    <3>1. d.state = o.state /\ e.state = o.state
      BY <1>2, <1>3, <2>1 DEF LookFiles
    <3> QED
      BY <2>1, <3>1 DEF Stepped
  <2>2. CASE s # "opacity"
    <3>1. e.opacity = Profile(o.state) /\ Profile(e.state) = Profile(o.state)
      BY <1>9, <2>2 DEF HandlerDone
    <3>2. d.state \in {e.state, o.state} /\ d.opacity = e.opacity
      BY <1>2, <2>2 DEF LookFiles, Stepped
    <3> QED
      BY <3>1, <3>2
  <2> QED
    BY <2>1, <2>2
<1> HIDE DEF o, n, rest
<1>10. o = c.old /\ n = c.new /\ rest = todo \ {s}
  BY DEF o, n, rest
<1>11. c.kind = "place" => "state" \notin rest
  BY <1>1, <1>10
<1> QED
  BY <1>1, <1>4, <1>6, <1>7, <1>8, <1>9, <1>10, <1>11 DEF HandlerDone

\* The end of a handler.
LEMMA BackwardEnd ==
    ASSUME NEW c \in Changes, Planned(c), NEW d \in Desks, Coherent(d.state), NEW hurt,
           HandlerDone(c, d, {}, hurt)
    PROVE  /\ Shown(d.state) = Shown(c.old.state)
           /\ SwayKnows(d)
           /\ hurt = "none" /\ Square(c.old) => WholeDesk(d) /\ Look(d) = Look(c.old)
<1> DEFINE o == c.old
           n == c.new
<1>1. /\ d.wall = o.wall /\ d.theme = o.theme /\ d.zone = o.zone
      /\ d.state \in {o.state, n.state} /\ d.pref \in {o.pref, n.pref}
      /\ c.kind # "status" => d.state = o.state /\ d.pref = o.pref
  BY DEF HandlerDone, LookFiles
<1>2. Shown(d.state) = Shown(o.state)
  <2>1. c.kind = "status" => Shown(n.state) = Shown(o.state)
    BY DEF Planned, Shown
  <2> QED
    BY <1>1, <2>1
<1>3. d.state.wall = o.state.wall /\ d.state.theme = o.state.theme
  BY <1>2 DEF Shown
<1>4. SwayKnows(d)
  <2> SUFFICES ASSUME Even(d) PROVE d.sway = Sway(d)
    BY DEF SwayKnows
  <2>1. Even(o)
    BY <1>1, <1>3 DEF Even
  <2> QED
    BY <1>1, <2>1 DEF HandlerDone, Sway
<1>5. ASSUME hurt = "none", Square(o)
      PROVE  WholeDesk(d) /\ Look(d) = Look(o)
  <2>1. d.state = o.state /\ d.pref = o.pref
    BY <1>1, <1>5 DEF Planned
  <2>2. Square(d) /\ Look(d) = Look(o)
    BY <1>1, <1>5, <2>1 DEF Square, Even, Look
  <2>3. d.sway = Sway(d)
    BY <1>4, <2>2 DEF SwayKnows, Square
  <2>4. d.night = Gamma(d.pref, d.state)
    BY <1>5 DEF HandlerDone
  <2>5. d.opacity = Profile(d.state)
    BY <1>5 DEF HandlerDone
  <2> QED
    BY <2>2, <2>3, <2>4, <2>5, WholeBy
<1> QED
  BY <1>2, <1>4, <1>5

-----------------------------------------------------------------------------
\* What the shell has been told.

\* What is shown of a look tells its revision, its image and its theme.
LEMMA ShownIs ==
    \A s, t : Shown(s) = Shown(t) => s.rev = t.rev /\ s.wall = t.wall /\ s.theme = t.theme
BY DEF Shown

\* The shell is given what a change has published.
LEMMA ToldPublish ==
    ASSUME NEW h, NEW sh \in Seen, NEW as, NEW o \in States, NEW n \in States, NotOlder(n, o),
           Told(h, sh, as, o), NEW sh2, sh2 = sh \/ sh2 = Shown(n)
    PROVE  Told(h, sh2, as, o)
<1>1. Shown(n).rev = n.rev /\ Shown(o).rev = o.rev
  BY DEF Shown
<1>2. CASE sh2 = sh
  BY <1>2
<1>3. CASE sh2 = Shown(n)
  BY <1>1, <1>3 DEF Told, Caught, NotOlder
<1> QED
  BY <1>2, <1>3

\* The same is shown of the files.
LEMMA ToldSame ==
    ASSUME NEW h, NEW h2, h2 # "none" \/ h = "none", NEW sh, NEW as, NEW o, NEW d,
           Shown(d) = Shown(o), Told(h, sh, as, o)
    PROVE  Told(h2, sh, as, d)
<1>1. d.rev = o.rev
  BY ShownIs
<1> QED
  BY <1>1 DEF Told

\* A change has ended, and the shell has seen what it published, or has its answer.
LEMMA ToldEnd ==
    ASSUME NEW h, NEW h2, NEW sh, NEW as, NEW answer, NEW o \in States, NEW n \in States,
           NotOlder(n, o), as \subseteq Seen, Told(h, sh, as, o), answer \subseteq {Shown(n)},
           h2 # "none" \/ sh = Shown(n) \/ answer = {Shown(n)}
    PROVE  Told(h2, sh, as \cup answer, n)
<1>1. \A r \in as : r.rev < n.rev \/ r = Shown(n)
  <2> SUFFICES ASSUME NEW r \in as PROVE r.rev < n.rev \/ r = Shown(n)
    OBVIOUS
  <2>1. r.rev < o.rev \/ r = Shown(o)
    BY DEF Told
  <2>2. n.rev > o.rev \/ Shown(n) = Shown(o)
    BY DEF NotOlder
  <2>3. Shown(o).rev = o.rev /\ Shown(n).rev = n.rev
    BY DEF Shown
  <2>4. r.rev \in Nat /\ o.rev \in Nat /\ n.rev \in Nat
    BY DEF Seen, States
  <2> QED
    BY <2>1, <2>2, <2>3, <2>4
<1> QED
  BY <1>1 DEF Told, Caught

\* The shell starts in the middle of a change, or at rest.
LEMMA ToldStart ==
    ASSUME NEW h, NEW o, NEW d, NotOlder(d, o)
    PROVE  Told(h, Shown(d), {}, o)
BY DEF Told, Caught, NotOlder, Shown

\* The shell reads an answer.
LEMMA ToldAccept ==
    ASSUME NEW h, NEW sh \in Seen, NEW as, as \subseteq Seen, NEW o \in States,
           Told(h, sh, as, o), NEW r \in as,
           NEW sh2, sh2 = IF r.rev >= sh.rev THEN r ELSE sh
    PROVE  Told(h, sh2, as \ {r}, o)
<1>1. r.rev \in Nat /\ sh.rev \in Nat /\ o.rev \in Nat /\ Shown(o).rev = o.rev
  BY DEF Seen, States, Shown
<1>2. r.rev < o.rev \/ r = Shown(o)
  BY DEF Told
<1>3. ASSUME h = "none"
      PROVE  Caught(sh2, Shown(o)) \/ Shown(o) \in as \ {r}
  <2>1. Caught(sh, Shown(o)) \/ Shown(o) \in as
    BY <1>3 DEF Told
  <2>2. CASE r = Shown(o)
    <3>1. CASE r.rev >= sh.rev
      BY <2>2, <3>1 DEF Caught
    <3>2. CASE ~(r.rev >= sh.rev)
      BY <1>1, <2>2, <3>2 DEF Caught
    <3> QED
      BY <3>1, <3>2
  <2>3. CASE r # Shown(o)
    <3>1. CASE Shown(o) \in as
      BY <2>3, <3>1
    <3>2. CASE Caught(sh, Shown(o))
      <4>1. ~(r.rev >= sh.rev)
        BY <1>1, <1>2, <2>3, <3>2 DEF Caught
      <4> QED
        BY <3>2, <4>1
    <3> QED
      BY <2>1, <3>1, <3>2
  <2> QED
    BY <2>2, <2>3
<1> QED
  BY <1>3 DEF Told

-----------------------------------------------------------------------------
\* The register's moves.

Phase == IF damage # "none" THEN damage ELSE IF change = NoChange THEN "rest" ELSE "changing"
Shows == IF damage # "none" \/ change # NoChange THEN was
         ELSE IF Whole THEN Look(desk) ELSE [torn |-> TRUE]
RegisterMoves == [Register!Next]_<<Phase, Shows, asked>>

\* The phase and the look that the register has.
LEMMA PhaseIs ==
    /\ damage # "none" => Phase = damage /\ Shows = was
    /\ damage = "none" /\ change # NoChange => Phase = "changing" /\ Shows = was
    /\ damage = "none" /\ change = NoChange => Phase = "rest" /\ (Whole => Shows = Look(desk))
    /\ damage' # "none" => Phase' = damage' /\ Shows' = was'
    /\ damage' = "none" /\ change' # NoChange => Phase' = "changing" /\ Shows' = was'
    /\ damage' = "none" /\ change' = NoChange
         => Phase' = "rest" /\ (Whole' => Shows' = Look(desk)')
BY DEF Phase, Shows

\* Each move of the register, from what it takes: nothing happens.
LEMMA MoveStays ==
    ASSUME Phase' = Phase, Shows' = Shows, asked' = asked
    PROVE  RegisterMoves
BY DEF RegisterMoves

\* A change begins.
LEMMA MoveBegin ==
    ASSUME Phase = "rest", Phase' = "changing", \A v, w \in asked' : v = w, Shows' = Shows
    PROVE  RegisterMoves
BY DEF RegisterMoves, Phase, Shows, Register!Next, Register!Begin

\* It succeeds.
LEMMA MoveSucceed ==
    ASSUME Phase = "changing", Phase' = "rest", Shows' \in asked, asked' = {}
    PROVE  RegisterMoves
BY DEF RegisterMoves, Phase, Shows, Register!Next, Register!Succeed

\* It fails, and has restored everything.
LEMMA MoveFail ==
    ASSUME Phase = "changing", Phase' = "rest", Shows' = Shows, asked' = {}
    PROVE  RegisterMoves
BY DEF RegisterMoves, Phase, Shows, Register!Next, Register!Fail

\* It is cut short.
LEMMA MoveInterrupt ==
    ASSUME Phase = "changing", Phase' = "interrupted", Shows' = Shows, asked' = asked
    PROVE  RegisterMoves
BY DEF RegisterMoves, Phase, Shows, Register!Next, Register!Interrupt

\* Something is asked of the interrupted desktop.
LEMMA MoveAsk ==
    ASSUME Phase = "interrupted", Phase' = Phase, Shows' = Shows, asked \subseteq asked'
    PROVE  RegisterMoves
BY DEF RegisterMoves, Phase, Shows, Register!Next, Register!Ask

\* The interrupted desktop is repaired.
LEMMA MoveRepair ==
    ASSUME Phase = "interrupted", Phase' = "rest", DOMAIN Shows' = DOMAIN Shows,
           KnownAs(Shows', {Shows} \cup asked), asked' = {}
    PROVE  RegisterMoves
BY DEF RegisterMoves, Phase, Shows, KnownAs, Register!Next, Register!Repair, Register!Known

\* The repair is cut short in its turn.
LEMMA MoveBreak ==
    ASSUME Phase # "rest", Phase' = "broken", Shows' = Shows, asked' = asked
    PROVE  RegisterMoves
BY DEF RegisterMoves, Phase, Shows, Register!Next, Register!Break

\* The desktop is broken and stays so.
LEMMA MoveBroken ==
    ASSUME Phase = "broken", Phase' = "broken"
    PROVE  RegisterMoves
BY DEF RegisterMoves, Phase, Shows, Register!Next, Register!Broken

-----------------------------------------------------------------------------
\* Each action, on files and services, on the shell, and on the register.

\* How far a change has come does not depend on what it keeps to do.
LEMMA SameForward ==
    ASSUME NEW c, NEW e, SameChange(c, e), NEW d, NEW todo, NEW h
    PROVE  /\ BodyDone(c, d, todo, h) => BodyDone(e, d, todo, h)
           /\ HandlerDone(c, d, todo, h) => HandlerDone(e, d, todo, h)
BY DEF SameChange, BodyDone, HandlerDone

\* What is known stays known.
LEMMA KnownMore ==
    ASSUME NEW l, NEW m, NEW more, m \subseteq more
    PROVE  /\ KnownAs(l, m) => KnownAs(l, more)
           /\ l \in m => KnownAs(l, m)
BY DEF KnownAs

\* What a step makes of the desktop.
LEMMA StepIs ==
    ASSUME AppearanceTypeOK, Plans, change # NoChange, NEW s \in change.todo, NEW d,
           d = Did(s, Aim)
    PROVE  Stepped(desk, d, s, Aim, Restarted(s, Aim))
<1>1. change \in Changes /\ desk \in Desks /\ s \in Steps
  BY ChangeFields DEF AppearanceTypeOK
<1>2. PICK to : to = Aim
  OBVIOUS
<1>3. to \in FileSets /\ d = Did(s, to)
  BY <1>2, TargetType
<1>4. /\ \A f \in LookFiles : d[f] = IF f = s THEN to[f] ELSE desk[f]
      /\ d.sway = IF s = "reload" THEN Sway(desk) ELSE desk.sway
      /\ d.night = IF s \in {"service", "mend", "mendOwn"} THEN Restarted(s, to) ELSE desk.night
      /\ d.opacity = IF s = "opacity" THEN Profile(desk.state) ELSE desk.opacity
  BY <1>1, <1>3, DidThis
<1> QED
  BY <1>2, <1>4 DEF Stepped

\* A restart that has been verified.
LEMMA RestartIs ==
    ASSUME AppearanceTypeOK, Plans, change # NoChange, NEW s \in change.todo,
           s \in {"service", "mend", "mendOwn"}, Verified(s, Aim)
    PROVE  Restarted(s, Aim) = Gamma(Aim.pref, Aim.state)
<1>1. PICK d : d = Did(s, Aim)
  OBVIOUS
<1>2. d.night = Restarted(s, Aim)
  BY <1>1, StepIs DEF Stepped
<1>3. RunsWith(d.night, Aim)
  BY <1>1 DEF Verified
<1> QED
  BY <1>2, <1>3 DEF RunsWith

\* A step forth, as the model has it.
LEMMA GoesForth ==
    ASSUME AppearanceTypeOK, Plans, LookInv, damage # "broken", change # NoChange,
           ~change.undoing, NEW s, At(s), Verified(s, Aim), NEW d, d = Did(s, Aim)
    PROVE  BodyDone(change, d, change.todo \ {s}, damage)
<1>1. change \in Changes /\ Planned(change) /\ NightPlanned(change)
  BY DEF AppearanceTypeOK, Plans
<1>2. InOrder(change, s) /\ s \in change.todo
  BY <1>1, AtForth DEF InOrder
<1>3. BodyDone(change, desk, change.todo, damage)
  BY DEF LookInv, Underway
<1>4. Aim = change.new
  BY DEF Aim
<1>5. PICK x : x = Restarted(s, Aim)
  OBVIOUS
<1>6. Stepped(desk, d, s, change.new, x)
  BY <1>2, <1>4, <1>5, StepIs
<1>7. s \in {"service", "mend", "mendOwn"} => x = Gamma(change.new.pref, change.new.state)
  BY <1>2, <1>4, <1>5, RestartIs
<1>8. PICK c, e, h : c = change /\ e = desk /\ h = damage
  OBVIOUS
<1>9. BodyDone(c, d, c.todo \ {s}, h)
  <2>1. c \in Changes /\ Planned(c) /\ NightPlanned(c) /\ BodyDone(c, e, c.todo, h)
        /\ InOrder(c, s) /\ Stepped(e, d, s, c.new, x)
        /\ (s \in {"service", "mend", "mendOwn"} => x = Gamma(c.new.pref, c.new.state))
    BY <1>1, <1>2, <1>3, <1>6, <1>7, <1>8
  <2> QED
    BY <2>1, ForwardStep
<1> QED
  BY <1>8, <1>9

\* A step back, as the model has it.
LEMMA GoesBack ==
    ASSUME AppearanceTypeOK, Plans, LookInv, damage # "broken", change # NoChange,
           change.undoing, NEW s, At(s), Verified(s, Aim), NEW d, d = Did(s, Aim)
    PROVE  HandlerDone(change, d, change.todo \ {s}, damage)
<1>1. change \in Changes /\ Planned(change) /\ NightPlanned(change)
  BY DEF AppearanceTypeOK, Plans
<1>2. HandlerDone(change, desk, change.todo, damage)
  BY DEF LookInv, Underway
<1>3. change.kind \in {"look", "night", "place", "status"}
  BY <1>2 DEF HandlerDone
<1>4. /\ s \in change.todo
      /\ s \in {"wall", "theme", "state", "pref", "zone", "reload", "service", "opacity"}
      /\ s = "reload" => change.todo \cap {"wall", "theme"} = {}
      /\ s = "service" => /\ change.kind # "status" /\ "pref" \notin change.todo
                          /\ change.kind # "place" => "state" \notin change.todo
      /\ s = "opacity" => change.kind # "status" /\ "state" \notin change.todo
  BY <1>3, AtBack
<1>5. Aim = change.old
  BY DEF Aim
<1>6. PICK x : x = Restarted(s, Aim)
  OBVIOUS
<1>7. Stepped(desk, d, s, change.old, x)
  BY <1>4, <1>5, <1>6, StepIs
<1>8. s = "service" => x = Gamma(change.old.pref, change.old.state)
  BY <1>4, <1>5, <1>6, RestartIs
<1>9. PICK c, e, h, todo : c = change /\ e = desk /\ h = damage /\ todo = change.todo
  OBVIOUS
<1>10. HandlerDone(c, d, todo \ {s}, h)
  <2>1. c \in Changes /\ Planned(c) /\ NightPlanned(c) /\ HandlerDone(c, e, todo, h)
        /\ Stepped(e, d, s, c.old, x)
        /\ (s = "service" => x = Gamma(c.old.pref, c.old.state))
    BY <1>1, <1>2, <1>7, <1>8, <1>9
  <2>2. /\ s \in todo /\ s # "mend" /\ s # "mendOwn"
        /\ s = "reload" => todo \cap {"wall", "theme"} = {}
        /\ s = "service" => /\ c.kind # "status" /\ "pref" \notin todo
                            /\ c.kind # "place" => "state" \notin todo
        /\ s = "opacity" => c.kind # "status" /\ "state" \notin todo
    BY <1>4, <1>9
  <2> QED
    BY <2>1, <2>2, BackwardStep
<1> QED
  BY <1>9, <1>10

\* What a step that raised has left, and what its handler begins with.
LEMMA RaisesLeft ==
    ASSUME AppearanceTypeOK, Plans, LookInv, damage # "broken", change # NoChange,
           ~change.undoing, NEW s, At(s), NEW d, d = desk \/ d = Did(s, Aim),
           change.kind = "place" /\ s \in {"zone", "pref"} => d = desk
    PROVE  /\ OneOf(change, d)
           /\ RaisedBy(change, desk, d, s, Restarted(s, Aim), damage)
           /\ TakesBack # {} => HandlerDone(change, d, TakesBack, damage)
<1>1. change \in Changes /\ Planned(change) /\ NightPlanned(change)
  BY DEF AppearanceTypeOK, Plans
<1>2. InOrder(change, s) /\ s \in change.todo
  BY <1>1, AtForth DEF InOrder
<1>3. BodyDone(change, desk, change.todo, damage)
  BY DEF LookInv, Underway
<1>4. Aim = change.new
  BY DEF Aim
<1>5. PICK x : x = Restarted(s, Aim)
  OBVIOUS
<1>6. RaisedBy(change, desk, d, s, x, damage)
  <2>1. CASE d = desk
    BY <2>1 DEF RaisedBy
  <2>2. CASE d # desk
    <3>1. d = Did(s, Aim)
      BY <2>2
    <3>2. Stepped(desk, d, s, change.new, x)
      BY <1>2, <1>4, <1>5, <3>1, StepIs
    <3>3. \/ s = "mendOwn" /\ x = desk.night
          \/ x = IF Gamma(change.new.pref, change.new.state) = "off" THEN "off"
                 ELSE Gamma(desk.pref, desk.state)
      BY <1>4, <1>5 DEF Restarted
    <3> QED
      BY <2>2, <3>2, <3>3 DEF RaisedBy
  <2> QED
    BY <2>1, <2>2
<1>7. PICK c, e, h, tb : c = change /\ e = desk /\ h = damage /\ tb = TakesBack
  OBVIOUS
<1>8. /\ c \in Changes /\ Planned(c) /\ NightPlanned(c) /\ BodyDone(c, e, c.todo, h)
      /\ InOrder(c, s) /\ RaisedBy(c, e, d, s, x, h)
  BY <1>1, <1>2, <1>3, <1>6, <1>7
<1>9. OneOf(c, d)
  BY <1>8, ForwardOneOf, LeftOneOf
<1>10. TakenBack(c, s, c.todo, tb)
  BY <1>7, TakenBackIs
<1>11. tb # {} => HandlerDone(c, d, tb, h)
  BY <1>8, <1>10, BackwardBegins
<1> QED
  BY <1>5, <1>6, <1>7, <1>9, <1>11

\* A change begins.
LEMMA BeginsLook ==
    ASSUME AppearanceTypeOK, Plans, LookInv, change = NoChange, NEW c, Taken(c),
           UNCHANGED <<shell, replies>>
    PROVE  LookInv' /\ RegisterMoves
<1>1. /\ c \in Changes /\ c.old = Snapshot /\ c.todo = c.plan /\ ~c.undoing
      /\ Planned(c) /\ NightPlanned(c) /\ change' = c
  BY DEF Taken
<1>2. /\ desk' = desk /\ damage' = damage
      /\ was' = (IF damage = "none" THEN Look(desk) ELSE was)
      /\ asked' = (IF damage = "none" THEN {} ELSE asked)
                     \cup (IF c.kind \in {"status", "reconcile"} THEN {} ELSE {Look(c.new)})
  BY DEF Taken, Undertake, deskvars
<1>3. c # NoChange
  BY <1>1, ChangeFields
<1>4. PICK d, h : d = desk /\ h = damage
  OBVIOUS
<1>5. d \in Desks /\ c.old.state = d.state /\ Look(d) = Look(c.old)
      /\ (\A f \in LookFiles : d[f] = c.old[f])
  <2>1. Look(desk) = Look(Snapshot) /\ desk \in Desks
    BY LookType DEF AppearanceTypeOK
  <2> QED
    BY <1>1, <1>4, <2>1, SnapshotFields DEF LookFiles
<1>6. Even(c.old) <=> Even(d)
  BY <1>5 DEF Even, LookFiles
<1>7. Sway(c.old) = Sway(d)
  BY <1>5 DEF Sway, LookFiles
<1>8. CASE damage = "broken"
  <2>1. Phase = "broken" /\ Phase' = "broken"
    BY <1>2, <1>8, PhaseIs
  <2> QED
    BY <1>2, <1>8, <2>1, MoveBroken DEF LookInv
<1>9. CASE damage = "none"
  <2>1. WholeDesk(d)
    BY <1>4, <1>9 DEF LookInv, AtRest
  <2>2. /\ Square(d) /\ d.sway = Sway(d) /\ d.night = Gamma(d.pref, d.state)
        /\ d.opacity = Profile(d.state)
    BY <1>5, <2>1, WholeBy
  <2>3. BodyDone(c, d, c.plan, h)
    BY <1>1, <1>5, <1>7, <2>2, ForwardBegins
  <2>4. Square(c.old)
    <3>1. d.wall = c.old.wall /\ d.theme = c.old.theme /\ d.state = c.old.state
          /\ d.pref = c.old.pref
      BY <1>5 DEF LookFiles
    <3> QED
      BY <2>2, <3>1 DEF Square, Even
  <2>5. Underway(c, d, h, was', asked')
    BY <1>1, <1>2, <1>4, <1>5, <1>9, <2>3, <2>4 DEF Underway
  <2>6. LookInv'
    BY <1>1, <1>2, <1>3, <1>4, <1>5, <2>5 DEF LookInv
  <2>7. Whole
    BY <1>4, <2>1, WholeIs
  <2>8. Phase = "rest" /\ Shows = Look(desk) /\ Phase' = "changing" /\ Shows' = was'
    BY <1>1, <1>2, <1>3, <1>9, <2>7, PhaseIs
  <2>9. \A v, w \in asked' : v = w
    BY <1>2, <1>9
  <2>10. RegisterMoves
    BY <1>2, <1>9, <2>8, <2>9, MoveBegin
  <2> QED
    BY <2>6, <2>10
<1>10. CASE damage = "interrupted"
  <2>1. KnownAs(Look(d), {was} \cup asked) /\ SwayKnows(d)
    BY <1>4, <1>10 DEF LookInv, AtRest
  <2>2. BodyDone(c, d, c.plan, h)
    <3>1. h # "none" /\ (Even(c.old) => d.sway = Sway(c.old))
      BY <1>4, <1>6, <1>7, <1>10, <2>1 DEF SwayKnows
    <3> QED
      BY <1>1, <1>5, <3>1, ForwardBegins
  <2>3. was' = was /\ asked \subseteq asked'
    BY <1>2, <1>10
  <2>4. KnownAs(Look(c.old), {was'} \cup asked')
    BY <1>5, <2>1, <2>3, KnownMore
  <2>5. KnownAs(Look(c.new), {was'} \cup asked')
    <3>1. CASE c.kind \in {"status", "reconcile"}
      BY <1>1, <2>4, <3>1 DEF Planned
    <3>2. CASE c.kind \notin {"status", "reconcile"}
      BY <1>2, <3>2, KnownMore
    <3> QED
      BY <3>1, <3>2
  <2>6. Underway(c, d, h, was', asked')
    BY <1>1, <1>4, <1>10, <2>2, <2>4, <2>5 DEF Underway
  <2>7. LookInv'
    BY <1>1, <1>2, <1>3, <1>4, <1>5, <2>6 DEF LookInv
  <2>8. Phase = "interrupted" /\ Shows = was /\ Phase' = "interrupted" /\ Shows' = was'
    BY <1>2, <1>10, PhaseIs
  <2>9. RegisterMoves
    BY <2>3, <2>8, MoveAsk
  <2> QED
    BY <2>7, <2>9
<1> QED
  BY <1>8, <1>9, <1>10 DEF AppearanceTypeOK

\* A change goes on: what it is for, and what the register shows, stay.
LEMMA OnlyGoesOn ==
    ASSUME AppearanceTypeOK, Plans, LookInv, damage # "broken", change # NoChange,
           NEW e \in Changes, SameChange(change, e), change' = e, NEW d, desk' = d,
           IF e.undoing THEN HandlerDone(change, d, e.todo, damage)
                        ELSE BodyDone(change, d, e.todo, damage),
           UNCHANGED <<damage, was, asked, replies>>,
           shell' = shell \/ shell' = Shown(change.new.state)
    PROVE  LookInv' /\ RegisterMoves
<1>1. PICK c, h, w, as : c = change /\ h = damage /\ w = was /\ as = asked
  OBVIOUS
<1>2. e # NoChange /\ c \in Changes /\ Planned(c) /\ e.undoing \in BOOLEAN
  BY <1>1, ChangeFields DEF AppearanceTypeOK, Plans
<1>3. Underway(c, desk, h, w, as) /\ Told(h, shell, replies, c.old.state)
  BY <1>1 DEF LookInv
<1>4. SameChange(c, e)
  BY <1>1
<1>5. IF e.undoing THEN HandlerDone(e, d, e.todo, h) ELSE BodyDone(e, d, e.todo, h)
  BY <1>1, <1>4, SameForward
<1>6. Underway(e, d, h, w, as)
  BY <1>3, <1>4, <1>5 DEF Underway, SameChange
<1>7. c.old.state \in States /\ c.new.state \in States /\ NotOlder(c.new.state, c.old.state)
  BY <1>2, ChangeFields DEF FileSets, Planned
<1>8. Told(h, shell', replies, c.old.state)
  <2>1. PICK o, n, sh2 : o = c.old.state /\ n = c.new.state /\ sh2 = shell'
    OBVIOUS
  <2>2. sh2 = shell \/ sh2 = Shown(n)
    BY <1>1, <2>1
  <2>3. shell \in Seen /\ Told(h, shell, replies, o) /\ o \in States /\ n \in States
        /\ NotOlder(n, o)
    BY <1>3, <1>7, <2>1 DEF AppearanceTypeOK
  <2>4. Told(h, sh2, replies, o)
    BY <2>2, <2>3, ToldPublish
  <2> QED
    BY <2>1, <2>4
<1>9. LookInv'
  BY <1>1, <1>2, <1>4, <1>6, <1>8 DEF LookInv, SameChange
<1>10. RegisterMoves
  <2>1. Phase' = Phase /\ Shows' = Shows
    BY <1>2, PhaseIs
  <2> QED
    BY <2>1, MoveStays
<1> QED
  BY <1>9, <1>10

\* A change returns.  The desktop it leaves is whole, if nothing was amiss.
LEMMA OnlyReturns ==
    ASSUME AppearanceTypeOK, LookInv, damage # "broken", change # NoChange,
           NEW answer, NEW hurt, Returns(answer, hurt), NEW d, desk' = d,
           hurt = "none" => /\ WholeDesk(d)
                            /\ damage = "none" => Look(d) \in {was} \cup asked
                            /\ KnownAs(Look(d), {was} \cup asked) /\ Look(d) \in LookSet,
           hurt = "interrupted" => KnownAs(Look(d), {was} \cup asked) /\ SwayKnows(d),
           hurt # "broken" => Told(hurt, shell', replies \cup answer, d.state),
           hurt \in {"none", "interrupted", "broken"}
    PROVE  LookInv' /\ RegisterMoves
<1>1. /\ change' = NoChange /\ damage' = hurt /\ was' = was
      /\ asked' = (IF hurt = "none" THEN {} ELSE asked) /\ replies' = replies \cup answer
  BY DEF Returns
<1>2. AtRest(d, hurt, was', asked')
  BY <1>1 DEF AtRest
<1>3. LookInv'
  BY <1>1, <1>2 DEF LookInv
<1>4. Shows = was /\ Phase = (IF damage = "none" THEN "changing" ELSE damage)
  BY PhaseIs
<1>5. CASE hurt = "none"
  <2>1. Whole'
    BY <1>5, WholeIs
  <2>2. Phase' = "rest" /\ Shows' = Look(desk)'
    BY <1>1, <1>5, <2>1, PhaseIs
  <2>3. Look(desk)' = Look(d)
    BY DEF Look
  <2>4. CASE damage = "none"
    <3>1. CASE Look(d) = was
      BY <1>1, <1>3, <1>4, <1>5, <2>2, <2>3, <2>4, <3>1, MoveFail
    <3>2. CASE Look(d) \in asked
      BY <1>1, <1>3, <1>4, <1>5, <2>2, <2>3, <2>4, <3>2, MoveSucceed
    <3>3. Look(d) = was \/ Look(d) \in asked
      BY <1>5, <2>4
    <3> QED
      BY <1>3, <3>1, <3>2, <3>3
  <2>5. CASE damage = "interrupted"
    <3>1. DOMAIN was = {"scene", "night", "coords", "extra", "zone"}
          /\ DOMAIN Look(d) = {"scene", "night", "coords", "extra", "zone"}
      BY <1>5 DEF AppearanceTypeOK, LookSet
    <3>2. DOMAIN Shows' = DOMAIN Shows /\ KnownAs(Shows', {Shows} \cup asked)
      BY <1>4, <1>5, <2>2, <2>3, <3>1
    <3>3. Phase = "interrupted"
      BY <1>4, <2>5
    <3>4. RegisterMoves
      BY <1>1, <1>5, <2>2, <3>2, <3>3, MoveRepair
    <3> QED
      BY <1>3, <3>4
  <2> QED
    BY <2>4, <2>5 DEF AppearanceTypeOK
<1>6. CASE hurt = "interrupted"
  <2>1. Phase' = "interrupted" /\ Shows' = was
    BY <1>1, <1>6, PhaseIs
  <2>2. CASE damage = "none"
    BY <1>1, <1>3, <1>4, <1>6, <2>1, <2>2, MoveInterrupt
  <2>3. CASE damage = "interrupted"
    BY <1>1, <1>3, <1>4, <1>6, <2>1, <2>3, MoveStays
  <2> QED
    BY <2>2, <2>3 DEF AppearanceTypeOK
<1>7. CASE hurt = "broken"
  <2>1. Phase' = "broken" /\ Shows' = was /\ Phase # "rest"
    BY <1>1, <1>4, <1>7, PhaseIs DEF AppearanceTypeOK
  <2>2. RegisterMoves
    BY <1>1, <1>4, <1>7, <2>1, MoveBreak
  <2> QED
    BY <1>3, <2>2
<1> QED
  BY <1>5, <1>6, <1>7

\* A broken desktop stays broken.
LEMMA OnlyBroken ==
    ASSUME damage \in {"none", "interrupted", "broken"}, damage' = "broken",
           damage = "broken" \/ (change # NoChange /\ asked' = asked /\ was' = was)
    PROVE  LookInv' /\ RegisterMoves
<1>1. Phase' = "broken" /\ Shows' = was' /\ LookInv'
  BY PhaseIs DEF LookInv
<1>2. CASE damage = "broken"
  <2>1. Phase = "broken"
    BY <1>2, PhaseIs
  <2> QED
    BY <1>1, <2>1, MoveBroken
<1>3. CASE damage # "broken" /\ change # NoChange /\ asked' = asked /\ was' = was
  <2>1. Phase # "rest" /\ Shows = was
    BY <1>3, PhaseIs
  <2> QED
    BY <1>1, <1>3, <2>1, MoveBreak
<1> QED
  BY <1>2, <1>3

\* A step that does not raise.
LEMMA SucceedsLook ==
    ASSUME AppearanceTypeOK, Plans, LookInv, desk' \in Desks, Coherent(desk'.state), StepSucceeds
    PROVE  LookInv' /\ RegisterMoves
<1>1. change # NoChange
  BY DEF StepSucceeds
<1>2. PICK s \in change.todo :
        /\ At(s) /\ Verified(s, Aim)
        /\ desk' = Did(s, Aim)
        /\ shell' = IF s = "publish" THEN Shown(change.new.state) ELSE shell
        /\ \/ /\ change.todo # {s}
              /\ change' = [change EXCEPT !.todo = @ \ {s}]
              /\ UNCHANGED <<history, replies, starting>>
           \/ change.todo = {s} /\ change.undoing /\ Returns({}, damage)
           \/ /\ change.todo = {s} /\ ~change.undoing
              /\ \E answer \in Answers : Returns(answer, Mended)
  BY DEF StepSucceeds
<1>3. CASE damage = "broken"
  <2>1. damage' = "broken"
    BY <1>2, <1>3 DEF Returns, Mended, history
  <2> QED
    BY <1>3, <2>1, OnlyBroken
<1>4. CASE damage # "broken"
  <2>1. change \in Changes /\ Planned(change) /\ NightPlanned(change)
        /\ change.undoing \in BOOLEAN
    BY <1>1, ChangeFields DEF AppearanceTypeOK, Plans
  <2>2. PICK d : d = desk'
    OBVIOUS
  <2>3. IF change.undoing THEN HandlerDone(change, d, change.todo \ {s}, damage)
                          ELSE BodyDone(change, d, change.todo \ {s}, damage)
    BY <1>1, <1>2, <1>4, <2>2, GoesForth, GoesBack
  <2>4. CASE /\ change.todo # {s}
             /\ change' = [change EXCEPT !.todo = @ \ {s}]
             /\ UNCHANGED <<history, replies, starting>>
    <3>1. PICK t : t = change.todo \ {s}
      OBVIOUS
    <3>2. t \subseteq Steps /\ t # {}
      BY <1>2, <2>1, <2>4, <3>1, ChangeFields
    <3>3. PICK e : e = [change EXCEPT !.todo = t]
      OBVIOUS
    <3>4. e \in Changes /\ SameChange(change, e) /\ e.todo = t /\ e.undoing = change.undoing
      BY <2>1, <3>2, <3>3, GoesOn
    <3>5. change' = e
      BY <2>4, <3>1, <3>3
    <3>6. IF e.undoing THEN HandlerDone(change, d, e.todo, damage)
                       ELSE BodyDone(change, d, e.todo, damage)
      BY <2>3, <3>1, <3>4
    <3>7. UNCHANGED <<damage, was, asked, replies>>
      BY <2>4 DEF history
    <3>8. shell' = shell \/ shell' = Shown(change.new.state)
      BY <1>2
    <3> QED
      BY <1>1, <1>4, <2>2, <3>4, <3>5, <3>6, <3>7, <3>8, OnlyGoesOn
  <2>a. PICK c, h, w, as : c = change /\ h = damage /\ w = was /\ as = asked
    OBVIOUS
  <2>b. /\ c \in Changes /\ Planned(c) /\ NightPlanned(c) /\ d \in Desks /\ Coherent(d.state)
        /\ Underway(c, desk, h, w, as) /\ Told(h, shell, replies, c.old.state)
    BY <1>1, <1>4, <2>1, <2>2, <2>a DEF LookInv
  <2>c. PICK o, n : o = c.old.state /\ n = c.new.state
    OBVIOUS
  <2>d. o \in States /\ n \in States /\ NotOlder(n, o) /\ Told(h, shell, replies, o)
        /\ shell \in Seen /\ replies \subseteq Seen /\ h \in {"none", "interrupted"}
    BY <1>4, <2>a, <2>b, <2>c, ChangeFields DEF FileSets, Planned, AppearanceTypeOK
  <2>e. PICK sh2 : sh2 = shell'
    OBVIOUS
  <2>f. sh2 = (IF s = "publish" THEN Shown(n) ELSE shell)
    BY <1>2, <2>a, <2>c, <2>e
  <2>g. Told(h, sh2, replies, o)
    BY <2>d, <2>f, ToldPublish
  <2>5. CASE change.todo = {s} /\ change.undoing /\ Returns({}, damage)
    <3>1. HandlerDone(c, d, {}, h)
      <4>1. change.todo \ {s} = {}
        BY <2>5
      <4> QED
        BY <2>3, <2>5, <2>a, <4>1
    <3>2. /\ Shown(d.state) = Shown(o) /\ SwayKnows(d)
          /\ h = "none" /\ Square(c.old) => WholeDesk(d) /\ Look(d) = Look(c.old)
      BY <2>b, <2>c, <3>1, BackwardEnd
    <3>3. Told(h, sh2, replies, d.state)
      BY <2>g, <3>2, ToldSame
    <3>4. h = "none" => /\ WholeDesk(d) /\ Look(d) = w
      BY <2>b, <3>2 DEF Underway
    <3>5. OneOf(c, d)
      BY <3>1, BackwardOneOf
    <3>6. h = "interrupted" => KnownAs(Look(d), {w} \cup as)
      BY <2>b, <3>5, LookParts DEF Underway
    <3>7. h = "none" => KnownAs(Look(d), {w} \cup as) /\ Look(d) \in {w} \cup as
                        /\ Look(d) \in LookSet
      BY <2>a, <3>4, KnownMore DEF AppearanceTypeOK
    <3>8. Told(h, shell', replies \cup {}, d.state)
      <4>1. replies \cup {} = replies
        OBVIOUS
      <4> QED
        BY <2>e, <3>3, <4>1
    <3>9. Returns({}, h)
      BY <2>5, <2>a
    <3> QED
      BY <1>1, <1>4, <2>2, <2>a, <2>d, <3>2, <3>4, <3>6, <3>7, <3>8, <3>9, OnlyReturns
  <2>6. CASE change.todo = {s} /\ ~change.undoing /\ \E answer \in Answers : Returns(answer, Mended)
    <3>1. BodyDone(c, d, {}, h)
      <4>1. change.todo \ {s} = {}
        BY <2>6
      <4> QED
        BY <2>3, <2>6, <2>a, <4>1
    <3>2. /\ d.state = n /\ SwayKnows(d)
          /\ (h = "none" /\ Square(c.old)) \/ c.kind = "status" =>
               WholeDesk(d) /\ Look(d) = Look(c.new)
      BY <2>b, <2>c, <3>1, ForwardEnd
    <3>3. PICK answer \in Answers : Returns(answer, Mended)
      BY <2>6
    <3>4. PICK hurt : hurt = Mended
      OBVIOUS
    <3>5. /\ hurt \in {"none", "interrupted"}
          /\ hurt = "none" => h = "none" \/ c.kind = "status"
          /\ hurt = "interrupted" => h = "interrupted"
          /\ c.kind # "status" => hurt = h
      BY <2>a, <2>d, <3>4 DEF Mended
    <3>6. /\ c.kind = "look" => answer \in {{}, {Shown(n)}}
          /\ c.kind = "status" => answer = {Shown(n)}
          /\ c.kind \notin {"look", "status"} => answer = {}
      BY <2>a, <2>c, <3>3 DEF Answers
    <3>7. Told(hurt, sh2, replies \cup answer, n)
      <4>1. CASE c.kind \in {"look", "status"}
        <5>1. c.kind = "look" => s = "publish"
          <6>1. c.kind = "look" => "publish" \in c.todo
            <7>1. BodyDone(c, desk, c.todo, h) /\ c.todo # {}
              BY <2>6, <2>a, <2>b DEF Underway
            <7> QED
              BY <7>1 DEF BodyDone
          <6> QED
            BY <2>6, <2>a, <6>1
        <5>2. sh2 = Shown(n) \/ answer = {Shown(n)}
          BY <2>f, <3>6, <4>1, <5>1
        <5>3. answer \subseteq {Shown(n)}
          BY <3>6, <4>1
        <5> QED
          BY <2>d, <2>g, <5>2, <5>3, ToldEnd
      <4>2. CASE c.kind \notin {"look", "status"}
        <5>1. Shown(n) = Shown(o)
          BY <2>b, <2>c, <4>2 DEF Planned, Shown
        <5>2. Told(hurt, sh2, replies, n)
          BY <2>g, <3>5, <4>2, <5>1, ToldSame
        <5>3. replies \cup answer = replies
          BY <3>6, <4>2
        <5> QED
          BY <5>2, <5>3
      <4> QED
        BY <4>1, <4>2
    <3>8. OneOf(c, d)
      BY <3>1, ForwardOneOf
    <3>9. h = "interrupted" =>
            KnownAs(Look(d), {w} \cup as) /\ KnownAs(Look(c.new), {w} \cup as)
      BY <2>b, <3>8, LookParts DEF Underway
    <3>10. ASSUME hurt = "none"
           PROVE  /\ WholeDesk(d) /\ Look(d) \in LookSet
                  /\ h = "none" => Look(d) \in {w} \cup as
                  /\ KnownAs(Look(d), {w} \cup as)
      <4>1. WholeDesk(d) /\ Look(d) = Look(c.new)
        BY <2>b, <3>2, <3>5, <3>10 DEF Underway
      <4>2. h = "none" => Look(d) \in {w} \cup as
        <5> SUFFICES ASSUME h = "none" PROVE Look(d) \in {w} \cup as
          OBVIOUS
        <5>1. /\ w = Look(c.old)
              /\ as = IF c.kind \in {"status", "reconcile"} THEN {} ELSE {Look(c.new)}
          BY <2>b DEF Underway
        <5>2. c.kind \in {"status", "reconcile"} => Look(c.new) = Look(c.old)
          BY <2>b DEF Planned
        <5> QED
          BY <4>1, <5>1, <5>2
      <4>3. KnownAs(Look(d), {w} \cup as)
        BY <2>d, <3>9, <4>2, KnownMore
      <4>4. Look(d) \in LookSet
        BY <2>b, <4>1, LookType, ChangeFields
      <4> QED
        BY <4>1, <4>2, <4>3, <4>4
    <3>11. hurt = "interrupted" => KnownAs(Look(d), {w} \cup as) /\ SwayKnows(d)
      BY <3>2, <3>5, <3>9
    <3>12. Told(hurt, shell', replies \cup answer, d.state)
      BY <2>e, <3>2, <3>7
    <3>13. Returns(answer, hurt)
      BY <3>3, <3>4
    <3> QED
      BY <1>1, <1>4, <2>2, <2>a, <3>5, <3>10, <3>11, <3>12, <3>13, OnlyReturns
  <2> QED
    BY <1>2, <2>4, <2>5, <2>6
<1> QED
  BY <1>3, <1>4

\* Whatever of a look is known, when a change runs.
LEMMA KnownBoth ==
    ASSUME NEW c, Planned(c), NEW d, NEW h, h \in {"none", "interrupted"}, NEW w, NEW as,
           Underway(c, d, h, w, as), NEW f, OneOf(c, f)
    PROVE  KnownAs(Look(f), {w} \cup as)
<1>1. CASE h = "none"
  <2>1. w = Look(c.old) /\ (Look(c.new) = w \/ Look(c.new) \in as)
    BY <1>1 DEF Underway, Planned
  <2>2. KnownAs(Look(c.old), {w} \cup as) /\ KnownAs(Look(c.new), {w} \cup as)
    BY <2>1 DEF KnownAs
  <2> QED
    BY <2>2, LookParts
<1>2. CASE h = "interrupted"
  BY <1>2, LookParts DEF Underway
<1> QED
  BY <1>1, <1>2

\* A change without a handler, or whose handler has nothing to do, that a step has ended.
LEMMA FailsKept ==
    ASSUME NEW c \in Changes, Planned(c), NEW e, NEW d, NEW h, BodyDone(c, e, c.todo, h),
           NEW s, InOrder(c, s), NEW x, RaisedBy(c, e, d, s, x, h), TakenBack(c, s, c.todo, {})
    PROVE  /\ c.kind \in {"reconcile", "extra", "place"}
           /\ Shown(d.state) = Shown(c.old.state)
           /\ d.wall = c.old.wall /\ d.theme = c.old.theme
           /\ c.new.wall = c.old.wall /\ c.new.theme = c.old.theme
           /\ Even(c.old) => d.sway = Sway(c.old)
           /\ SwayKnows(d)
<1>1. c.kind \in {"reconcile", "extra", "place"}
  BY ChangeFields DEF TakenBack, When
<1>2. c.plan \subseteq Work[c.kind] /\ s \in Work[c.kind]
  BY DEF Planned, InOrder
<1>3. c.plan \cap {"wall", "theme", "reload"} = {} /\ s \notin {"wall", "theme", "reload"}
  BY <1>1, <1>2 DEF Work
<1>4. c.new.wall = c.old.wall /\ c.new.theme = c.old.theme
      /\ Shown(c.new.state) = Shown(c.old.state)
  BY <1>1, <1>3 DEF Planned, Shown
<1>5. OneOf(c, d)
  BY ForwardOneOf, LeftOneOf
<1>6. d.wall = c.old.wall /\ d.theme = c.old.theme /\ d.state \in {c.old.state, c.new.state}
  BY <1>4, <1>5 DEF OneOf, LookFiles
<1>7. Even(c.old) => d.sway = Sway(c.old)
  <2>1. Even(c.old) => e.sway = Sway(c.old)
    BY <1>3 DEF BodyDone
  <2>2. d.sway = e.sway
    BY <1>3 DEF RaisedBy, Stepped
  <2> QED
    BY <2>1, <2>2
<1>8. Shown(d.state) = Shown(c.old.state)
  BY <1>4, <1>6
<1>9. SwayKnows(d)
  <2> SUFFICES ASSUME Even(d) PROVE d.sway = Sway(d)
    BY DEF SwayKnows
  <2>1. d.state.wall = c.old.state.wall /\ d.state.theme = c.old.state.theme
    BY <1>8 DEF Shown
  <2>2. Even(c.old)
    BY <1>6, <2>1 DEF Even
  <2> QED
    BY <1>6, <1>7, <2>2 DEF Sway
<1> QED
  BY <1>1, <1>4, <1>6, <1>7, <1>8, <1>9

\* It leaves an unhurt desktop whole, with the old look or the new one.
LEMMA FailsWhole ==
    ASSUME NEW c \in Changes, Planned(c), NightPlanned(c), NEW e, NEW d \in Desks,
           Coherent(d.state), BodyDone(c, e, c.todo, "none"), NEW s, InOrder(c, s),
           NEW x, RaisedBy(c, e, d, s, x, "none"), TakenBack(c, s, c.todo, {}), Square(c.old)
    PROVE  WholeDesk(d) /\ Look(d) \in {Look(c.old), Look(c.new)}
<1> DEFINE o == c.old
           n == c.new
           done == c.plan \ c.todo
<1>1. /\ c.kind \in {"reconcile", "extra", "place"}
      /\ d.wall = o.wall /\ d.theme = o.theme /\ n.wall = o.wall /\ n.theme = o.theme
      /\ SwayKnows(d)
  BY FailsKept
<1>2. c.plan \subseteq Work[c.kind] /\ s \in Work[c.kind] /\ s \in c.plan /\ s \in c.todo
      /\ c.todo \subseteq c.plan
  BY DEF Planned, InOrder, BodyDone
<1>3. OneOf(c, e) /\ OneOf(c, d)
  BY ForwardOneOf, LeftOneOf
<1>4. c.kind = "place" =>
        /\ done \cap {"pref", "zone", "state", "service"} = {} /\ s # "service"
        /\ d.state = o.state /\ d.pref = o.pref /\ d.zone = o.zone
  <2> SUFFICES ASSUME c.kind = "place"
               PROVE  /\ done \cap {"pref", "zone", "state", "service"} = {} /\ s # "service"
                      /\ d.state = o.state /\ d.pref = o.pref /\ d.zone = o.zone
    OBVIOUS
  <2>1. done \cap {"pref", "zone"} = {}
    BY DEF TakenBack
  <2>2. "state" \notin c.plan
    BY <1>2 DEF Work
  <2>3. "service" \in c.plan => "pref" \in c.plan /\ "pref" \notin done
    BY <2>1 DEF NightPlanned
  <2>4. "service" \notin done
    BY <2>3 DEF BodyDone
  <2>5. s # "service"
    BY <1>2, <2>3 DEF InOrder
  <2>6. \A f \in {"state", "pref", "zone"} : e[f] = o[f]
    BY <2>1, <2>2 DEF BodyDone, LookFiles
  <2>7. \A f \in {"state", "pref", "zone"} : d[f] = e[f]
    BY <1>2, <2>2 DEF RaisedBy, Stepped, LookFiles
  <2> QED
    BY <2>1, <2>2, <2>4, <2>5, <2>6, <2>7
<1>5. \/ d.state = o.state /\ d.pref = o.pref /\ d.zone = o.zone
      \/ d.state = n.state /\ d.pref = n.pref /\ d.zone = n.zone
  <2>1. /\ d.state \in {o.state, n.state} /\ d.pref \in {o.pref, n.pref}
        /\ d.zone \in {o.zone, n.zone}
    BY <1>3 DEF OneOf, LookFiles
  <2>2. CASE c.kind = "reconcile"
    BY <2>1, <2>2 DEF Planned
  <2>3. CASE c.kind = "extra"
    <3>1. n.state = o.state /\ n.zone = o.zone
      BY <1>2, <2>3 DEF Planned, Work
    <3> QED
      BY <2>1, <3>1
  <2> QED
    BY <1>1, <1>4, <2>2, <2>3
<1>6. Square(n)
  BY DEF Planned
<1>7. Square(d) /\ Look(d) \in {Look(o), Look(n)}
  <2>1. CASE d.state = o.state /\ d.pref = o.pref /\ d.zone = o.zone
    BY <1>1, <2>1 DEF Square, Even, Look
  <2>2. CASE d.state = n.state /\ d.pref = n.pref /\ d.zone = n.zone
    BY <1>1, <1>6, <2>2 DEF Square, Even, Look
  <2> QED
    BY <1>5, <2>1, <2>2
<1>8. d.sway = Sway(d)
  BY <1>1, <1>7 DEF SwayKnows, Square
<1>9. d.night = Gamma(d.pref, d.state)
  <2>1. CASE "service" \notin c.plan
    <3>1. /\ Gamma(d.pref, d.state) = Gamma(o.pref, o.state)
          /\ Gamma(e.pref, e.state) = Gamma(o.pref, o.state)
          /\ Gamma(n.pref, n.state) = Gamma(o.pref, o.state)
      BY <1>3, <2>1, SameNight
    <3>2. e.night = Gamma(o.pref, o.state)
      BY <1>2, <2>1, <3>1 DEF BodyDone
    <3>3. d.night = e.night \/ d.night = Gamma(o.pref, o.state)
      BY <3>1 DEF RaisedBy, Stepped
    <3> QED
      BY <3>1, <3>2, <3>3
  <2>2. CASE "service" \in c.plan
    <3>1. c.kind = "place"
      BY <1>1, <1>2, <2>2 DEF Work
    <3>2. e.night = Gamma(o.pref, o.state)
      BY <1>4, <3>1 DEF BodyDone
    <3>3. s \notin {"service", "mend", "mendOwn"}
      BY <1>2, <1>4, <3>1 DEF Work
    <3>4. d.night = e.night
      BY <3>3 DEF RaisedBy, Stepped
    <3> QED
      BY <1>4, <3>1, <3>2, <3>4
  <2> QED
    BY <2>1, <2>2
<1>10. d.opacity = Profile(d.state)
  <2>1. Profile(n.state) = Profile(o.state) /\ Profile(d.state) = Profile(o.state)
    BY <1>1, <1>3, SameProfile
  <2>2. e.opacity = Profile(o.state)
    BY <2>1 DEF BodyDone
  <2>3. s # "opacity"
    BY <1>1, <1>2 DEF Work
  <2> QED
    BY <2>1, <2>2, <2>3 DEF RaisedBy, Stepped
<1> QED
  BY <1>7, <1>8, <1>9, <1>10, WholeBy

\* A step that raises.
LEMMA FailsLook ==
    ASSUME AppearanceTypeOK, Plans, LookInv, desk' \in Desks, Coherent(desk'.state), StepFails
    PROVE  LookInv' /\ RegisterMoves
<1>1. change # NoChange /\ ~change.undoing
  BY DEF StepFails
<1>2. PICK s \in change.todo, hurt \in {"broken", damage} :
        /\ hurt = IF change.kind = "place" /\ s \in {"zone", "pref"} /\ desk' # desk
                  THEN "broken" ELSE damage
        /\ At(s)
        /\ Raises(s)
        /\ \/ TakesBack = {} /\ Returns({}, hurt)
           \/ /\ TakesBack # {}
              /\ change' = [change EXCEPT !.todo = TakesBack, !.undoing = TRUE]
              /\ damage' = hurt
              /\ UNCHANGED <<was, asked, replies, starting>>
  BY DEF StepFails
<1>3. damage \in {"none", "interrupted", "broken"}
  BY DEF AppearanceTypeOK
<1>4. CASE hurt = "broken"
  <2>1. damage' = "broken" /\ asked' = asked /\ was' = was
    BY <1>2, <1>4 DEF Returns
  <2> QED
    BY <1>1, <1>3, <2>1, OnlyBroken
<1>5. CASE hurt # "broken"
  <2>0. hurt = damage /\ damage # "broken" /\ damage \in {"none", "interrupted"}
    BY <1>2, <1>3, <1>5
  <2>1. PICK d : d = desk'
    OBVIOUS
  <2>2. d = desk \/ d = Did(s, Aim)
    BY <1>2, <2>1 DEF Raises
  <2>3. change.kind = "place" /\ s \in {"zone", "pref"} => d = desk
    BY <1>2, <1>5, <2>1
  <2>4. /\ OneOf(change, d)
        /\ RaisedBy(change, desk, d, s, Restarted(s, Aim), damage)
        /\ TakesBack # {} => HandlerDone(change, d, TakesBack, damage)
    BY <1>1, <1>2, <2>0, <2>2, <2>3, RaisesLeft
  <2>5. shell' = shell \/ (s = "publish" /\ shell' = Shown(change.new.state))
    BY <1>2 DEF Raises, Publishes
  <2>6. change \in Changes /\ Planned(change) /\ NightPlanned(change)
    BY <1>1 DEF AppearanceTypeOK, Plans
  <2>7. CASE /\ TakesBack # {}
             /\ change' = [change EXCEPT !.todo = TakesBack, !.undoing = TRUE]
             /\ damage' = hurt
             /\ UNCHANGED <<was, asked, replies, starting>>
    <3>1. PICK t : t = TakesBack
      OBVIOUS
    <3>2. t \subseteq Steps /\ t # {}
      BY <2>6, <2>7, <3>1, TakesBackType
    <3>3. PICK e : e = [change EXCEPT !.todo = t, !.undoing = TRUE]
      OBVIOUS
    <3>4. e \in Changes /\ SameChange(change, e) /\ e.todo = t /\ e.undoing = TRUE
      BY <2>6, <3>2, <3>3, TurnsBack
    <3>5. change' = e
      BY <2>7, <3>1, <3>3
    <3>6. HandlerDone(change, d, e.todo, damage)
      BY <2>4, <2>7, <3>1, <3>4
    <3>7. UNCHANGED <<damage, was, asked, replies>>
      BY <2>0, <2>7
    <3> QED
      BY <1>1, <2>0, <2>1, <2>5, <3>4, <3>5, <3>6, <3>7, OnlyGoesOn
  <2>8. CASE TakesBack = {} /\ Returns({}, hurt)
    <3>1. PICK c, e, h, w, as, x :
            /\ c = change /\ e = desk /\ h = damage /\ w = was /\ as = asked
            /\ x = Restarted(s, Aim)
      OBVIOUS
    <3>2. /\ c \in Changes /\ Planned(c) /\ NightPlanned(c) /\ d \in Desks /\ Coherent(d.state)
          /\ Underway(c, e, h, w, as) /\ Told(h, shell, replies, c.old.state)
          /\ h \in {"none", "interrupted"}
      BY <1>1, <2>0, <2>1, <2>6, <3>1 DEF LookInv
    <3>3. BodyDone(c, e, c.todo, h) /\ InOrder(c, s) /\ RaisedBy(c, e, d, s, x, h) /\ OneOf(c, d)
      <4>1. InOrder(change, s)
        BY <1>1, <1>2, <2>6, AtForth
      <4> QED
        BY <1>1, <2>4, <3>1, <3>2, <4>1 DEF Underway
    <3>4. TakenBack(c, s, c.todo, {})
      BY <2>8, <3>1, TakenBackIs
    <3>5. /\ c.kind \in {"reconcile", "extra", "place"}
          /\ Shown(d.state) = Shown(c.old.state) /\ SwayKnows(d)
      BY <3>2, <3>3, <3>4, FailsKept
    <3>6. KnownAs(Look(d), {w} \cup as)
      BY <3>2, <3>3, KnownBoth
    <3>7. ASSUME h = "none"
          PROVE  WholeDesk(d) /\ Look(d) \in {w} \cup as /\ Look(d) \in LookSet
      <4>1. Square(c.old)
        BY <3>2, <3>7 DEF Underway
      <4>2. WholeDesk(d) /\ Look(d) \in {Look(c.old), Look(c.new)}
        BY <3>2, <3>3, <3>4, <3>7, <4>1, FailsWhole
      <4>3. w = Look(c.old) /\ (Look(c.new) = w \/ Look(c.new) \in as)
        BY <3>2, <3>7 DEF Underway, Planned
      <4>4. Look(c.old) \in LookSet /\ Look(c.new) \in LookSet
        BY <3>2, LookType, ChangeFields
      <4> QED
        BY <4>2, <4>3, <4>4
    <3>8. shell' = shell
      <4>1. s # "publish"
        BY <3>3, <3>5 DEF InOrder, Work
      <4> QED
        BY <2>5, <4>1
    <3>9. Told(h, shell', replies \cup {}, d.state)
      <4>1. Told(h, shell, replies, d.state)
        BY <3>2, <3>5, ToldSame
      <4>2. replies \cup {} = replies
        OBVIOUS
      <4> QED
        BY <3>8, <4>1, <4>2
    <3>10. Returns({}, h)
      BY <2>0, <2>8, <3>1
    <3> QED
      BY <1>1, <2>0, <2>1, <3>1, <3>2, <3>5, <3>6, <3>7, <3>9, <3>10, OnlyReturns
  <2> QED
    BY <1>2, <2>7, <2>8
<1> QED
  BY <1>4, <1>5

\* A handler that raises breaks the desktop.
LEMMA HandlerLook ==
    ASSUME AppearanceTypeOK, HandlerFails
    PROVE  LookInv' /\ RegisterMoves
<1>1. change # NoChange /\ damage' = "broken" /\ asked' = asked /\ was' = was
  BY DEF HandlerFails, Returns
<1> QED
  BY <1>1, OnlyBroken DEF AppearanceTypeOK

\* A change is killed.
LEMMA KillLook ==
    ASSUME AppearanceTypeOK, Plans, LookInv, Kill
    PROVE  LookInv' /\ RegisterMoves
<1>1. change # NoChange /\ desk' = desk /\ shell' = shell
  BY DEF Kill, deskvars
<1>2. PICK hurt : hurt = damage'
  OBVIOUS
<1>3. /\ Returns({}, hurt)
      /\ hurt = IF damage = "broken" \/ (Done = {} /\ ~change.undoing) THEN damage
                ELSE IF \/ change.undoing
                        \/ /\ change.kind = "status" /\ "reload" \notin Done
                           /\ Done \cap {"theme", "wall"} # {}
                THEN "broken" ELSE "interrupted"
  BY <1>2 DEF Kill, Returns
<1>4. damage \in {"none", "interrupted", "broken"}
  BY DEF AppearanceTypeOK
<1>5. CASE hurt = "broken"
  <2>1. asked' = asked /\ was' = was /\ damage' = "broken"
    BY <1>3, <1>5 DEF Returns
  <2> QED
    BY <1>1, <1>4, <2>1, OnlyBroken
<1>6. CASE hurt # "broken"
  <2>1. PICK c, d, h, w, as, done :
          /\ c = change /\ d = desk /\ h = damage /\ w = was /\ as = asked /\ done = Done
    OBVIOUS
  <2>2. h \in {"none", "interrupted"}
    BY <1>3, <1>4, <1>6, <2>1
  <2>3. /\ c \in Changes /\ Planned(c) /\ NightPlanned(c) /\ d \in Desks
        /\ Underway(c, d, h, w, as) /\ Told(h, shell, replies, c.old.state)
        /\ done = c.plan \ c.todo
    BY <1>1, <2>1, <2>2 DEF AppearanceTypeOK, Plans, LookInv, Done
  <2>4. /\ ~c.undoing
        /\ hurt = IF done = {} THEN h ELSE "interrupted"
        /\ c.kind = "status" => "reload" \in done \/ done \cap {"theme", "wall"} = {}
    BY <1>3, <1>6, <2>1, <2>2
  <2>5. BodyDone(c, d, c.todo, h)
    BY <2>3, <2>4 DEF Underway
  <2>6. SwayKnows(d)
    BY <2>3, <2>4, <2>5, ForwardSway
  <2>7. OneOf(c, d)
    BY <2>5, ForwardOneOf
  <2>8. KnownAs(Look(d), {w} \cup as)
    BY <2>2, <2>3, <2>7, KnownBoth
  <2>9. hurt \in {"none", "interrupted"}
    BY <2>2, <2>4
  <2>10. ASSUME hurt = "none"
         PROVE  /\ WholeDesk(d) /\ Look(d) = w /\ Look(d) \in LookSet
                /\ d.state = c.old.state /\ h = "none"
    <3>1. h = "none" /\ done = {}
      BY <2>4, <2>10
    <3>2. Square(c.old) /\ w = Look(c.old)
      BY <2>3, <3>1 DEF Underway
    <3>3. WholeDesk(d) /\ Look(d) = Look(c.old) /\ d.state = c.old.state
      BY <2>3, <2>5, <3>1, <3>2, ForwardUntouched
    <3> QED
      BY <2>3, <3>1, <3>2, <3>3, LookType, ChangeFields
  <2>11. Told(hurt, shell, replies, d.state)
    <3>1. d.state \in {c.old.state, c.new.state}
      BY <2>7 DEF OneOf, LookFiles
    <3>2. CASE d.state = c.old.state
      <4>1. hurt # "none" \/ h = "none"
        BY <2>10
      <4> QED
        BY <2>3, <3>2, <4>1, ToldSame
    <3>3. CASE d.state = c.new.state /\ d.state # c.old.state
      <4>1. hurt # "none"
        BY <2>10, <3>3
      <4>2. PICK o, n : o = c.old.state /\ n = c.new.state
        OBVIOUS
      <4>3. o \in States /\ n \in States /\ NotOlder(n, o) /\ replies \subseteq Seen
            /\ Told(h, shell, replies, o)
        BY <2>3, <4>2, ChangeFields DEF FileSets, Planned, AppearanceTypeOK
      <4>4. Told(hurt, shell, replies \cup {}, n)
        BY <4>1, <4>3, ToldEnd
      <4>5. replies \cup {} = replies
        OBVIOUS
      <4> QED
        BY <3>3, <4>2, <4>4, <4>5
    <3> QED
      BY <3>1, <3>2, <3>3
  <2>12. Told(hurt, shell', replies \cup {}, d.state)
    <3>1. replies \cup {} = replies
      OBVIOUS
    <3> QED
      BY <1>1, <2>11, <3>1
  <2>13. desk' = d /\ damage # "broken"
    BY <1>1, <2>1, <2>2
  <2> QED
    BY <1>1, <1>3, <2>1, <2>6, <2>8, <2>9, <2>10, <2>12, <2>13, OnlyReturns
<1> QED
  BY <1>5, <1>6

-----------------------------------------------------------------------------
\* Whatever else happens.

\* wlsunset is started again, or the windows get their opacity anew.
Restyled(e, d) ==
    /\ \A f \in LookFiles : d[f] = e[f]
    /\ d.night \in {e.night, Gamma(e.pref, e.state)}
    /\ d.opacity \in {e.opacity, Profile(e.state)}

\* A change under way does not mind it going forward.
LEMMA RestyledForward ==
    ASSUME NEW c, NEW e, NEW d, NEW todo, NEW h, BodyDone(c, e, todo, h), Restyled(e, d),
           d.sway = e.sway
    PROVE  BodyDone(c, d, todo, h)
<1> DEFINE done == c.plan \ todo
<1>1. /\ d.wall = e.wall /\ d.theme = e.theme /\ d.state = e.state /\ d.pref = e.pref
      /\ d.zone = e.zone /\ d.night \in {e.night, Gamma(e.pref, e.state)}
      /\ d.opacity \in {e.opacity, Profile(e.state)}
  BY DEF Restyled, LookFiles
<1>2. \A f \in LookFiles : d[f] = IF f \in done THEN c.new[f] ELSE c.old[f]
  BY DEF Restyled, BodyDone
<1>3. Sway(d) = Sway(e)
  BY <1>1 DEF Sway
<1>4. IF "reload" \in done THEN d.sway = Sway(d) /\ todo \cap {"wall", "theme"} = {}
                           ELSE Even(c.old) => d.sway = Sway(c.old)
  BY <1>3 DEF BodyDone
<1>5. ASSUME h = "none", done \cap {"service", "pref", "state"} = {}
      PROVE  d.night = Gamma(c.old.pref, c.old.state)
  <2>1. d.pref = c.old.pref /\ d.state = c.old.state
    BY <1>2, <1>5 DEF LookFiles
  <2>2. e.night = Gamma(c.old.pref, c.old.state)
    BY <1>5 DEF BodyDone
  <2> QED
    BY <1>1, <2>1, <2>2
<1>6. ASSUME h = "none",
             done \cap {"opacity", "state"} = {} \/ Profile(c.new.state) = Profile(c.old.state)
      PROVE  d.opacity = Profile(c.old.state)
  <2>1. e.opacity = Profile(c.old.state)
    BY <1>6 DEF BodyDone
  <2>2. "state" \notin done => d.state = c.old.state
    BY <1>2 DEF LookFiles
  <2>3. d.state \in {c.old.state, c.new.state}
    BY <1>2 DEF LookFiles
  <2>4. Profile(d.state) = Profile(c.old.state)
    BY <1>6, <2>2, <2>3
  <2> QED
    BY <1>1, <2>1, <2>4
<1>7. ASSUME h = "none"
      PROVE  /\ "service" \notin todo => /\ d.night = Gamma(c.new.pref, c.new.state)
                                         /\ Gamma(d.pref, d.state) = Gamma(c.new.pref, c.new.state)
             /\ "opacity" \notin todo => /\ d.opacity = Profile(c.new.state)
                                         /\ Profile(d.state) = Profile(c.new.state)
  <2>1. /\ "service" \notin todo => /\ e.night = Gamma(c.new.pref, c.new.state)
                                    /\ Gamma(e.pref, e.state) = Gamma(c.new.pref, c.new.state)
        /\ "opacity" \notin todo => /\ e.opacity = Profile(c.new.state)
                                    /\ Profile(e.state) = Profile(c.new.state)
    BY <1>7 DEF BodyDone
  <2> QED
    BY <1>1, <2>1
<1>8. /\ c.kind = "status" /\ "mend" \notin todo => d.night = Gamma(d.pref, d.state)
      /\ c.kind = "status" /\ "opacity" \notin todo => d.opacity = Profile(d.state)
  <2>1. /\ c.kind = "status" /\ "mend" \notin todo => e.night = Gamma(e.pref, e.state)
        /\ c.kind = "status" /\ "opacity" \notin todo => e.opacity = Profile(e.state)
    BY DEF BodyDone
  <2> QED
    BY <1>1, <2>1
<1>9. /\ todo \subseteq c.plan
      /\ c.kind = "look" /\ "state" \in done => todo \cap {"wall", "theme", "reload"} = {}
      /\ "service" \in done => IF c.kind = "look" THEN "state" \notin todo ELSE "pref" \notin todo
      /\ c.kind = "look" /\ todo # {} => "publish" \in todo
  BY DEF BodyDone
<1> QED
  BY <1>2, <1>4, <1>5, <1>6, <1>7, <1>8, <1>9 DEF BodyDone

\* Nor going back.
LEMMA RestyledBackward ==
    ASSUME NEW c, NEW e, NEW d, NEW todo, NEW h, HandlerDone(c, e, todo, h), Restyled(e, d),
           d.sway = e.sway
    PROVE  HandlerDone(c, d, todo, h)
<1>1. /\ d.state = e.state /\ d.pref = e.pref
      /\ d.night \in {e.night, Gamma(e.pref, e.state)}
      /\ d.opacity \in {e.opacity, Profile(e.state)}
  BY DEF Restyled, LookFiles
<1>2. \A f \in LookFiles :
        /\ d[f] \in {c.old[f], c.new[f]}
        /\ f \notin todo => d[f] = c.old[f] \/ (c.kind = "status" /\ f \in {"state", "pref"})
  BY DEF Restyled, HandlerDone
<1>3. ASSUME h = "none"
      PROVE  /\ "service" \notin todo => /\ d.night = Gamma(c.old.pref, c.old.state)
                                         /\ Gamma(d.pref, d.state) = Gamma(c.old.pref, c.old.state)
             /\ "opacity" \notin todo => /\ d.opacity = Profile(c.old.state)
                                         /\ Profile(d.state) = Profile(c.old.state)
  <2>1. /\ "service" \notin todo => /\ e.night = Gamma(c.old.pref, c.old.state)
                                    /\ Gamma(e.pref, e.state) = Gamma(c.old.pref, c.old.state)
        /\ "opacity" \notin todo => /\ e.opacity = Profile(c.old.state)
                                    /\ Profile(e.state) = Profile(c.old.state)
    BY <1>3 DEF HandlerDone
  <2> QED
    BY <1>1, <2>1
<1> QED
  BY <1>2, <1>3 DEF HandlerDone

\* Neither does a desktop at rest; there Sway may also read its files anew.
LEMMA RestyledRest ==
    ASSUME NEW e \in Desks, NEW d \in Desks, Coherent(d.state), Restyled(e, d),
           d.sway = e.sway \/ d.sway = Sway(e), NEW h, NEW w, NEW as, AtRest(e, h, w, as)
    PROVE  /\ AtRest(d, h, w, as) /\ Look(d) = Look(e) /\ d.state = e.state
           /\ h = "none" => WholeDesk(e) /\ WholeDesk(d)
<1>1. /\ d.wall = e.wall /\ d.theme = e.theme /\ d.state = e.state /\ d.pref = e.pref
      /\ d.zone = e.zone /\ d.night \in {e.night, Gamma(e.pref, e.state)}
      /\ d.opacity \in {e.opacity, Profile(e.state)}
  BY DEF Restyled, LookFiles
<1>2. Sway(d) = Sway(e) /\ (Even(d) <=> Even(e)) /\ (Square(d) <=> Square(e))
  BY <1>1 DEF Sway, Even, Square
<1>3. Look(d) = Look(e)
  BY <1>1 DEF Look
<1>4. ASSUME h = "none"
      PROVE  WholeDesk(e) /\ WholeDesk(d)
  <2>1. WholeDesk(e)
    BY <1>4 DEF AtRest
  <2>2. /\ Square(e) /\ e.sway = Sway(e) /\ e.night = Gamma(e.pref, e.state)
        /\ e.opacity = Profile(e.state)
    BY <2>1, WholeBy
  <2>3. /\ Square(d) /\ d.sway = Sway(d) /\ d.night = Gamma(d.pref, d.state)
        /\ d.opacity = Profile(d.state)
    BY <1>1, <1>2, <2>2
  <2> QED
    BY <2>1, <2>3, WholeBy
<1>5. h = "interrupted" => KnownAs(Look(d), {w} \cup as) /\ SwayKnows(d)
  BY <1>2, <1>3 DEF AtRest, SwayKnows
<1> QED
  BY <1>1, <1>3, <1>4, <1>5 DEF AtRest

\* An action that the register does not see, and that concerns the desktop's services.
LEMMA ServiceLook ==
    ASSUME AppearanceTypeOK, Plans, LookInv, NEW d \in Desks, desk' = d, Coherent(d.state),
           Restyled(desk, d),
           d.sway = desk.sway \/ (change = NoChange /\ d.sway = Sway(desk)),
           UNCHANGED <<change, damage, was, asked, shell, replies>>
    PROVE  LookInv' /\ RegisterMoves
<1>1. CASE damage = "broken"
  BY <1>1, OnlyBroken
<1>2. CASE damage # "broken" /\ change = NoChange
  <2>1. AtRest(desk, damage, was, asked) /\ Told(damage, shell, replies, desk.state)
        /\ desk \in Desks
    BY <1>2 DEF LookInv, AppearanceTypeOK
  <2>2. /\ AtRest(d, damage, was, asked) /\ Look(d) = Look(desk) /\ d.state = desk.state
        /\ damage = "none" => WholeDesk(desk) /\ WholeDesk(d)
    BY <2>1, RestyledRest
  <2>3. LookInv'
    BY <1>2, <2>1, <2>2 DEF LookInv
  <2>4. Look(desk)' = Look(d)
    BY DEF Look
  <2>5. Phase' = Phase /\ Shows' = Shows
    BY <1>2, <2>2, <2>4, PhaseIs, WholeIs
  <2> QED
    BY <2>3, <2>5, MoveStays
<1>3. CASE damage # "broken" /\ change # NoChange
  <2>1. Underway(change, desk, damage, was, asked) /\ Told(damage, shell, replies, change.old.state)
    BY <1>3 DEF LookInv
  <2>2. PICK c, e, h : c = change /\ e = desk /\ h = damage
    OBVIOUS
  <2>3. /\ BodyDone(c, e, c.todo, h) => BodyDone(c, d, c.todo, h)
        /\ HandlerDone(c, e, c.todo, h) => HandlerDone(c, d, c.todo, h)
    BY <1>3, <2>2, RestyledForward, RestyledBackward
  <2>4. Underway(change, d, damage, was, asked)
    BY <2>1, <2>2, <2>3 DEF Underway
  <2>5. LookInv'
    BY <1>3, <2>1, <2>4 DEF LookInv
  <2>6. Phase' = Phase /\ Shows' = Shows
    BY <1>3, PhaseIs
  <2> QED
    BY <2>5, <2>6, MoveStays
<1> QED
  BY <1>1, <1>2, <1>3

\* An action that leaves the desktop, and whose shell still has been told.
LEMMA DeskStays ==
    ASSUME AppearanceTypeOK, LookInv, UNCHANGED <<desk, change, damage, was, asked>>,
           damage # "broken" =>
             Told(damage, shell', replies',
                  IF change = NoChange THEN desk.state ELSE change.old.state)
    PROVE  LookInv' /\ RegisterMoves
<1>1. LookInv'
  BY DEF LookInv
<1>2. Whole' <=> Whole
  BY WholeIs
<1>3. Look(desk)' = Look(desk)
  BY DEF Look
<1>4. Phase' = Phase /\ Shows' = Shows
  BY <1>2, <1>3 DEF Phase, Shows
<1> QED
  BY <1>1, <1>4, MoveStays

\* effective.json is never older than what the change began with.
LEMMA NeverOlder ==
    ASSUME AppearanceTypeOK, Plans, LookInv, damage # "broken", change # NoChange
    PROVE  NotOlder(desk.state, change.old.state)
<1>1. Planned(change) /\ OneOf(change, desk)
  <2>1. Underway(change, desk, damage, was, asked)
    BY DEF LookInv
  <2>2. BodyDone(change, desk, change.todo, damage) \/ HandlerDone(change, desk, change.todo, damage)
    BY <2>1 DEF Underway
  <2> QED
    BY <2>2, ForwardOneOf, BackwardOneOf DEF Plans
<1>2. desk.state \in {change.old.state, change.new.state}
  BY <1>1 DEF OneOf, LookFiles
<1> QED
  BY <1>1, <1>2 DEF Planned, NotOlder

\* The shell starts, with what the file says.
LEMMA ShellStartsLook ==
    ASSUME AppearanceTypeOK, Plans, LookInv, ShellStarts
    PROVE  LookInv' /\ RegisterMoves
<1>1. /\ UNCHANGED <<desk, change, damage, was, asked>>
      /\ shell' = Shown(desk.state) /\ replies' = {}
  BY DEF ShellStarts, deskvars, history
<1>2. PICK o : o = IF change = NoChange THEN desk.state ELSE change.old.state
  OBVIOUS
<1>3. damage # "broken" => NotOlder(desk.state, o)
  BY <1>2, NeverOlder DEF NotOlder
<1>4. damage # "broken" => Told(damage, shell', replies', o)
  BY <1>1, <1>3, ToldStart
<1> QED
  BY <1>1, <1>2, <1>4, DeskStays

\* The shell reads an answer.
LEMMA AcceptReplyLook ==
    ASSUME AppearanceTypeOK, Plans, LookInv, AcceptReply
    PROVE  LookInv' /\ RegisterMoves
<1>1. PICK r \in replies :
        replies' = replies \ {r} /\ shell' = IF r.rev >= shell.rev THEN r ELSE shell
  BY DEF AcceptReply, Accepts
<1>2. UNCHANGED <<desk, change, damage, was, asked>>
  BY DEF AcceptReply, deskvars, history
<1>3. PICK o : o = IF change = NoChange THEN desk.state ELSE change.old.state
  OBVIOUS
<1>4. o \in States /\ shell \in Seen /\ replies \subseteq Seen
  BY <1>3, DeskFields, ChangeFields DEF AppearanceTypeOK, FileSets
<1>5. damage # "broken" => Told(damage, shell, replies, o)
  BY <1>3 DEF LookInv
<1>6. PICK sh2 : sh2 = shell'
  OBVIOUS
<1>7. damage # "broken" => Told(damage, sh2, replies \ {r}, o)
  BY <1>1, <1>4, <1>5, <1>6, ToldAccept
<1> QED
  BY <1>1, <1>2, <1>3, <1>6, <1>7, DeskStays

\* The shell runs "status": another change has the lock, the image is lost, or it begins.
LEMMA RunStatusLook ==
    ASSUME AppearanceTypeOK, Plans, LookInv, RunStatus
    PROVE  LookInv' /\ RegisterMoves
<1>1. shell' = shell
  BY DEF RunStatus
<1>2. CASE change # NoChange
  <2>1. UNCHANGED <<desk, change, damage, was, asked, replies>>
    BY <1>2 DEF RunStatus, deskvars, history
  <2> QED
    BY <1>1, <1>2, <2>1, DeskStays DEF LookInv
<1>3. CASE change = NoChange
  <2>1. \/ /\ replies' = replies \cup {Shown(desk.state)}
           /\ UNCHANGED <<deskvars, change, history>>
        \/ UNCHANGED replies /\ \E c : Taken(c) /\ c.kind = "status"
    BY <1>3, BegunStatus DEF RunStatus, Plans, AppearanceTypeOK
  <2>2. CASE /\ replies' = replies \cup {Shown(desk.state)}
             /\ UNCHANGED <<deskvars, change, history>>
    <3>1. UNCHANGED <<desk, change, damage, was, asked>>
      BY <2>2 DEF deskvars, history
    <3>2. damage # "broken" => Told(damage, shell', replies', desk.state)
      BY <1>1, <1>3, <2>2 DEF LookInv, Told
    <3> QED
      BY <1>3, <3>1, <3>2, DeskStays
  <2>3. CASE UNCHANGED replies /\ \E c : Taken(c) /\ c.kind = "status"
    BY <1>1, <1>3, <2>3, BeginsLook
  <2> QED
    BY <2>1, <2>2, <2>3
<1> QED
  BY <1>2, <1>3

\* A change begins.
LEMMA BeginLooks ==
    ASSUME AppearanceTypeOK, Plans, LookInv, Begin
    PROVE  LookInv' /\ RegisterMoves
<1>1. change = NoChange /\ UNCHANGED <<shell, replies>>
  BY DEF Begin, shellvars
<1>2. PICK c : Taken(c)
  BY BegunLook, BegunNight, BegunReconcile, BegunPlace, BegunExtra
     DEF Begin, Plans, AppearanceTypeOK
<1> QED
  BY <1>1, <1>2, BeginsLook

\* wlsunset is started again, the windows get their opacity, a new session reads the files.
LEMMA ServicesLook ==
    ASSUME AppearanceTypeOK, Plans, LookInv, desk' \in Desks, Coherent(desk'.state),
           Relaunch \/ FocusChanges \/ SessionStarts
    PROVE  LookInv' /\ RegisterMoves
<1>1. UNCHANGED <<change, damage, was, asked, shell, replies>>
  BY DEF Relaunch, FocusChanges, SessionStarts, shellvars, history
<1>2. PICK e, d : e = desk /\ d = desk'
  OBVIOUS
<1>3. e \in Desks
  BY <1>2 DEF AppearanceTypeOK
<1>4. /\ Restyled(e, d)
      /\ d.sway = e.sway \/ (change = NoChange /\ d.sway = Sway(e))
  <2>1. PICK x, y, z : /\ x = Gamma(e.pref, e.state) /\ y = Profile(e.state) /\ z = Sway(e)
    OBVIOUS
  <2>2. \/ d = [e EXCEPT !.night = x]
        \/ d = [e EXCEPT !.opacity = y]
        \/ change = NoChange /\ d = [e EXCEPT !.sway = z, !.night = x]
    BY <1>2, <2>1 DEF Relaunch, FocusChanges, SessionStarts, Profile, Sway
  <2>3. \/ /\ d.night = x /\ d.opacity = e.opacity /\ d.sway = e.sway
           /\ d.wall = e.wall /\ d.theme = e.theme /\ d.state = e.state /\ d.pref = e.pref
           /\ d.zone = e.zone
        \/ /\ d.night = e.night /\ d.opacity = y /\ d.sway = e.sway
           /\ d.wall = e.wall /\ d.theme = e.theme /\ d.state = e.state /\ d.pref = e.pref
           /\ d.zone = e.zone
        \/ /\ change = NoChange /\ d.night = x /\ d.opacity = e.opacity /\ d.sway = z
           /\ d.wall = e.wall /\ d.theme = e.theme /\ d.state = e.state /\ d.pref = e.pref
           /\ d.zone = e.zone
    BY <1>3, <2>2 DEF Desks
  <2>4. \A f \in LookFiles : d[f] = e[f]
    BY <2>3 DEF LookFiles
  <2> QED
    BY <2>1, <2>3, <2>4 DEF Restyled
<1> QED
  BY <1>1, <1>2, <1>3, <1>4, ServiceLook

\* What the desktop does not show.
LEMMA ElsewhereLook ==
    ASSUME AppearanceTypeOK, Plans, LookInv, LoseImage \/ StrangerRuns \/ UNCHANGED avars
    PROVE  LookInv' /\ RegisterMoves
<1>1. UNCHANGED <<desk, change, damage, was, asked, shell, replies>>
  BY DEF LoseImage, StrangerRuns, avars, deskvars, shellvars, history
<1> QED
  BY <1>1, DeskStays DEF LookInv

\* Every step keeps the invariant, and is a move of the register.
LEMMA LookStep ==
    ASSUME AppearanceTypeOK, Plans, LookInv, AppearanceTypeOK', Plans', [AppearanceNext]_avars
    PROVE  LookInv' /\ RegisterMoves
<1>1. desk' \in Desks /\ Coherent(desk'.state)
  BY DEF AppearanceTypeOK, Plans
<1>2. CASE Begin
  BY <1>2, BeginLooks
<1>3. CASE StepSucceeds
  BY <1>1, <1>3, SucceedsLook
<1>4. CASE StepFails
  BY <1>1, <1>4, FailsLook
<1>5. CASE HandlerFails
  BY <1>5, HandlerLook
<1>6. CASE Kill
  BY <1>6, KillLook
<1>7. CASE ShellStarts
  BY <1>7, ShellStartsLook
<1>8. CASE RunStatus
  BY <1>8, RunStatusLook
<1>9. CASE AcceptReply
  BY <1>9, AcceptReplyLook
<1>10. CASE Relaunch \/ FocusChanges \/ SessionStarts
  BY <1>1, <1>10, ServicesLook
<1>11. CASE LoseImage \/ StrangerRuns \/ UNCHANGED avars
  BY <1>11, ElsewhereLook
<1> QED
  BY <1>2, <1>3, <1>4, <1>5, <1>6, <1>7, <1>8, <1>9, <1>10, <1>11 DEF AppearanceNext

\* The desktop begins whole, and so does the register.
LEMMA LookStart ==
    ASSUME AppearanceInit
    PROVE  LookInv /\ Register!Init
<1>1. PICK mode \in {"manual", "wallpaper"}, sun \in BOOLEAN :
        LET w == CHOOSE x \in Wallpapers : TRUE
            c == [mode |-> mode, manual |-> "mocha", sun |-> sun, variant |-> "light"]
            s == [choice |-> c, theme |-> Resolve(c, w), wall |-> w, rev |-> 0,
                  night |-> IF sun THEN "off" ELSE "auto"]
            p == [choice |-> c, night |-> "auto", extra |-> CHOOSE x \in Extras : TRUE,
                  coords |-> CHOOSE x \in Coords : TRUE]
        IN  desk = Settled(s, p, CHOOSE x \in Zones : TRUE)
  BY DEF AppearanceInit
<1> DEFINE w == CHOOSE x \in Wallpapers : TRUE
           c == [mode |-> mode, manual |-> "mocha", sun |-> sun, variant |-> "light"]
           s == [choice |-> c, theme |-> Resolve(c, w), wall |-> w, rev |-> 0,
                 night |-> IF sun THEN "off" ELSE "auto"]
           p == [choice |-> c, night |-> "auto", extra |-> CHOOSE x \in Extras : TRUE,
                 coords |-> CHOOSE x \in Coords : TRUE]
           z == CHOOSE x \in Zones : TRUE
<1>2. desk = Settled(s, p, z)
  BY <1>1
<1>3. s.theme = Resolve(s.choice, s.wall) /\ p.choice = s.choice
  <2> HIDE DEF Resolve, w, c
  <2> QED
    OBVIOUS
<1>4. s.night = Effective(p, s)
  <2>1. s.theme.profile # "normal" <=> sun
    BY DEF Resolve
  <2>2. p.night = "auto" /\ s.night = IF sun THEN "off" ELSE "auto"
    OBVIOUS
  <2> HIDE DEF s, p
  <2> QED
    BY <2>1, <2>2 DEF Effective, Suspended
<1> HIDE DEF s, p, z
<1>5. desk.state = s /\ desk.pref = p /\ desk.zone = z
  <2> HIDE DEF Gamma
  <2> QED
    BY <1>2 DEF Settled
<1>6. WholeDesk(desk)
  BY <1>2, <1>3, <1>4, <1>5 DEF WholeDesk
<1>7. /\ change = NoChange /\ damage = "none" /\ asked = {}
      /\ shell = Shown(desk.state) /\ replies = {}
  BY DEF AppearanceInit
<1>8. Told(damage, shell, replies, desk.state)
  BY <1>7 DEF Told, Caught
<1> QED
  BY <1>6, <1>7, <1>8 DEF LookInv, AtRest, Register!Init

\* Whenever no change runs on an unhurt desktop it is whole; while one runs, every file
\* is old or new, as its steps say (transaction, change, apply, reconcile_state).
THEOREM LooksAreKept == AppearanceSpec => [](AppearanceTypeOK /\ Plans /\ LookInv)
BY TypesStart, TypesStep, LookStart, LookStep, PTL DEF AppearanceSpec

\* Every component has its type: what the managers write to preferences.json and
\* effective.json is of the current schema, whatever step fails (normalized).
THEOREM AppearanceTypesHold == AppearanceSpec => []AppearanceTypeOK
<1>1. AppearanceTypeOK /\ Plans /\ LookInv => AppearanceTypeOK
  OBVIOUS
<1> QED
  BY <1>1, LooksAreKept, PTL

\* The managers implement the register: a change that fails has restored every file and
\* service, one that succeeds has set them all, and "status" makes an interrupted desktop
\* whole, of parts it had or that were asked for (transaction, change, apply,
\* reconcile_state and their handlers).
THEOREM LooksAreAtomic == AppearanceSpec => AtomicLook
<1>1. AppearanceInit => Register!Init
  BY LookStart
<1>2. AppearanceTypeOK /\ Plans /\ LookInv /\ AppearanceTypeOK' /\ Plans'
        /\ [AppearanceNext]_avars => RegisterMoves
  BY LookStep
<1> QED
  BY <1>1, <1>2, LooksAreKept, PTL
     DEF AppearanceSpec, AtomicLook, Register!Spec, RegisterMoves, Phase, Shows

\* The shell, once it has read every answer, is not behind effective.json, whenever it
\* was started and whatever it was told (acceptSnapshot, publish_live, startupReader).
THEOREM ShellsAreTold == AppearanceSpec => []ShellNotBehind
<1>1. AppearanceTypeOK /\ Plans /\ LookInv => ShellNotBehind
  <2> SUFFICES ASSUME AppearanceTypeOK, LookInv, change = NoChange, damage = "none", replies = {}
               PROVE  /\ shell.rev >= desk.state.rev
                      /\ shell.rev = desk.state.rev => shell = Shown(desk.state)
    BY DEF ShellNotBehind
  <2>1. Caught(shell, Shown(desk.state))
    BY DEF LookInv, Told
  <2>2. Shown(desk.state).rev = desk.state.rev /\ desk.state.rev \in Nat /\ shell.rev \in Nat
    BY DeskFields DEF Shown, AppearanceTypeOK, States, Seen
  <2> QED
    BY <2>1, <2>2 DEF Caught
<1> QED
  BY <1>1, LooksAreKept, PTL

-----------------------------------------------------------------------------
(* The applications follow the look of the desktop.                        *)

\* A run that is somewhere in pcs.
RunAt(pcs) == [pc : pcs, seen : Revisions \cup {Absent}, todo : Seq(Adapters),
               errors : SUBSET Adapters]
Working == {"read", "apply", "again", "write", "last"}

RunTypes ==
    /\ run \in [SyncRuns -> RunAt(Working \cup {"off", "lock", "ended"})]
    /\ watching \in BOOLEAN
    /\ effective \in Revisions \cup {Absent} /\ previous \in Revisions \cup {Absent}
    /\ DOMAIN apps = Adapters

\* One run holds the lock.
OneRun == \A q, r \in SyncRuns : Inside(q) /\ Inside(r) => q = r

\* systemd does not watch while the service is asked to run, or runs.
Watches == watching <=> run["service"].pc = "off"

Has(look, errors) == \A a \in Adapters \ errors : apps[a] = look

\* What a run has achieved: the applications it has passed have the look it
\* read, and its result says so.
Achieved(r) ==
    /\ run[r].pc \in {"apply", "again", "write", "last"} => run[r].seen # Absent
    /\ run[r].pc = "apply" =>
         /\ run[r].todo # <<>>
         /\ \A a \in Adapters : \/ a \in run[r].errors
                                \/ apps[a] = run[r].seen.look
                                \/ \E i \in 1..Len(run[r].todo) : run[r].todo[i] = a
    /\ run[r].pc \in {"again", "write", "last"} => Has(run[r].seen.look, run[r].errors)
    /\ run[r].pc = "last" => applied = [rev |-> run[r].seen.rev, errors |-> run[r].errors]

\* The file is looked at: by a run that has the lock, by a service that will.
LookedAt == run["service"].pc = "lock" \/ \E r \in SyncRuns : Inside(r)

AppsSettled ==
    ~missed /\ ~LookedAt => applied.rev = effective.rev /\ Has(effective.look, applied.errors)

SyncInv == RunTypes /\ OneRun /\ Watches /\ (\A r \in SyncRuns : Achieved(r)) /\ AppsSettled

\* A run that has not read anything.
LEMMA NewRun ==
    ASSUME NEW pc
    PROVE  /\ NotRunning \in RunAt({"off"}) /\ NotRunning.pc = "off"
           /\ [NotRunning EXCEPT !.pc = pc] \in RunAt({pc})
           /\ [NotRunning EXCEPT !.pc = pc].pc = pc
<1>1. [NotRunning EXCEPT !.pc = pc] = [pc |-> pc, seen |-> Absent, todo |-> <<>>, errors |-> {}]
  BY DEF NotRunning
<1>2. <<>> \in Seq(Adapters)
  OBVIOUS
<1>3. \A p : [pc |-> p, seen |-> Absent, todo |-> <<>>, errors |-> {}] \in RunAt({p})
  BY <1>2 DEF RunAt
<1> QED
  BY <1>1, <1>3 DEF NotRunning

\* The applications have the look of the file, or there is no file.
LEMMA SyncStarts == SyncInit => SyncInv
<1> SUFFICES ASSUME SyncInit PROVE SyncInv
  OBVIOUS
<1>1. RunTypes
  <2>1. run \in [SyncRuns -> RunAt(Working \cup {"off", "lock", "ended"})]
    <3>1. NotRunning \in RunAt(Working \cup {"off", "lock", "ended"})
      BY NewRun DEF RunAt
    <3> QED
      BY <3>1 DEF SyncInit
  <2>2. effective \in Revisions \cup {Absent} /\ previous = effective
    BY DEF SyncInit, Revisions
  <2> QED
    BY <2>1, <2>2 DEF SyncInit, RunTypes
<1>2. \A r \in SyncRuns : run[r].pc = "off"
  BY DEF SyncInit, NotRunning
<1>3. OneRun /\ Watches /\ \A r \in SyncRuns : Achieved(r)
  BY <1>2 DEF SyncInit, OneRun, Watches, Achieved, Inside, SyncRuns
<1>4. AppsSettled
  <2>1. CASE effective = Absent
    BY <2>1 DEF SyncInit, AppsSettled
  <2>2. CASE effective # Absent
    <3>1. PICK l \in Looks : effective = [rev |-> 0, look |-> l]
      BY <2>2 DEF SyncInit
    <3>2. applied = [rev |-> 0, errors |-> {}] /\ apps = [a \in Adapters |-> effective.look]
      BY <2>2 DEF SyncInit
    <3> QED
      BY <3>1, <3>2 DEF AppsSettled, Has
  <2> QED
    BY <2>1, <2>2
<1> QED
  BY <1>1, <1>3, <1>4 DEF SyncInv

\* Whoever writes the file has it looked at, or missed.
LEMMA FileSteps ==
    ASSUME SyncInv, Publish \/ RollBack \/ Rearm \/ RunTool
    PROVE  SyncInv'
<1> USE DEF SyncInv, SyncRuns
<1>1. CASE Publish \/ RollBack
  <2>1. Written /\ effective' \in Revisions \cup {Absent} /\ previous' \in Revisions \cup {Absent}
    BY <1>1 DEF Publish, RollBack, RunTypes, Revisions
  <2>2. UNCHANGED <<apps, applied>> /\ watching' = FALSE
    BY <2>1 DEF Written
  <2>3. CASE watching
    <3>1. run' = [run EXCEPT !["service"] = [run["service"] EXCEPT !.pc = "lock"]]
          /\ run["service"].pc = "off"
      BY <2>1, <2>3 DEF Written, Watches
    <3>2. run'["service"].pc = "lock" /\ run'["user"] = run["user"]
      BY <3>1 DEF RunTypes, RunAt
    <3>3. RunTypes'
      BY <2>1, <2>2, <3>1 DEF RunTypes, RunAt
    <3>4. OneRun' /\ Watches' /\ \A r \in SyncRuns : Achieved(r)'
      BY <2>2, <3>1, <3>2 DEF OneRun, Watches, Achieved, Has, Inside
    <3>5. AppsSettled'
      BY <3>2 DEF AppsSettled, LookedAt
    <3> QED
      BY <3>3, <3>4, <3>5
  <2>4. CASE ~watching
    <3>1. run' = run /\ missed' = (run["service"].pc = "ended")
      BY <2>1, <2>4 DEF Written
    <3>2. RunTypes' /\ Watches'
      BY <2>1, <2>2, <2>4, <3>1 DEF RunTypes, Watches
    <3>5. OneRun' /\ \A r \in SyncRuns : Achieved(r)'
      BY <2>2, <3>1 DEF OneRun, Achieved, Has, Inside
    <3>3. run["service"].pc \in Working \cup {"lock", "ended"}
      BY <2>4 DEF RunTypes, RunAt, Watches
    <3>4. AppsSettled'
      BY <3>1, <3>3 DEF AppsSettled, LookedAt, Inside, Working
    <3> QED
      BY <3>2, <3>4, <3>5
  <2> QED
    BY <2>3, <2>4
<1>2. CASE Rearm
  <2>1. /\ run["service"].pc = "ended" /\ run' = [run EXCEPT !["service"] = NotRunning]
        /\ watching' = TRUE /\ UNCHANGED <<effective, previous, apps, applied, missed>>
    BY <1>2 DEF Rearm, Moves
  <2>2. RunTypes'
    BY <2>1, NewRun DEF RunTypes, RunAt
  <2>3. run'["service"].pc = "off" /\ run'["user"] = run["user"]
    BY <2>1, NewRun DEF RunTypes
  <2> QED
    BY <2>1, <2>2, <2>3 DEF OneRun, Watches, Achieved, Has, AppsSettled, LookedAt, Inside
<1>3. CASE RunTool
  <2>1. /\ run["user"].pc \in {"off", "ended"}
        /\ run' = [run EXCEPT !["user"] = [NotRunning EXCEPT !.pc = "lock"]]
        /\ UNCHANGED <<effective, previous, apps, applied, watching, missed>>
    BY <1>3 DEF RunTool, Moves
  <2>2. RunTypes'
    BY <2>1, NewRun DEF RunTypes, RunAt
  <2>3. run'["user"].pc = "lock" /\ run'["service"] = run["service"]
    BY <2>1, NewRun DEF RunTypes
  <2> QED
    BY <2>1, <2>2, <2>3 DEF OneRun, Watches, Achieved, Has, AppsSettled, LookedAt, Inside
<1> QED
  BY <1>1, <1>2, <1>3

\* A run that stops without a result says so.
LEMMA StopStep ==
    ASSUME SyncInv, NEW r \in SyncRuns, run[r].pc \notin {"off", "ended"},
           run' = [run EXCEPT ![r] = [NotRunning EXCEPT !.pc = "ended"]], missed',
           UNCHANGED <<effective, previous, apps, applied, watching>>
    PROVE  SyncInv'
<1> USE DEF SyncInv, SyncRuns
<1>1. RunTypes'
  BY NewRun DEF RunTypes, RunAt
<1>2. run'[r].pc = "ended" /\ \A q \in SyncRuns \ {r} : run'[q] = run[q]
  BY NewRun DEF RunTypes
<1> QED
  BY <1>1, <1>2 DEF OneRun, Watches, Achieved, Has, AppsSettled, LookedAt, Inside

\* A run that holds the lock goes on: the other one, which does not, keeps what
\* it had, and nothing is promised of the file meanwhile.
LEMMA RunGoesOn ==
    ASSUME SyncInv, NEW r \in SyncRuns, NEW to, run' = [run EXCEPT ![r] = to],
           \A q \in SyncRuns \ {r} : ~Inside(q),
           to \in RunAt(Working),
           run[r].pc # "off", DOMAIN apps' = Adapters, Achieved(r)',
           UNCHANGED <<effective, previous, watching>>
    PROVE  SyncInv'
<1> USE DEF SyncInv, SyncRuns
<1>1. RunTypes'
  BY DEF RunTypes, RunAt
<1>2. run'[r] = to /\ \A q \in SyncRuns \ {r} : run'[q] = run[q]
  BY DEF RunTypes
<1>3. OneRun' /\ Watches' /\ AppsSettled'
  BY <1>2 DEF RunAt, Working, OneRun, Watches, AppsSettled, LookedAt, Inside
<1>4. \A q \in SyncRuns \ {r} : Achieved(q)'
  BY <1>2 DEF Achieved, Inside
<1> QED
  BY <1>1, <1>3, <1>4

\* An adapter takes its application off the list, with the look or as an error.
LEMMA Passes ==
    ASSUME SyncInv, NEW r \in SyncRuns, run[r].pc = "apply", NEW look,
           NEW errors \in SUBSET Adapters, run[r].errors \subseteq errors,
           look = run[r].seen.look \/ Head(run[r].todo) \in errors,
           apps' = [apps EXCEPT ![Head(run[r].todo)] = look],
           NEW to \in RunAt(Working), run' = [run EXCEPT ![r] = to],
           to.pc = (IF Tail(run[r].todo) = <<>> THEN "again" ELSE "apply"),
           to.seen = run[r].seen, to.todo = Tail(run[r].todo), to.errors = errors,
           UNCHANGED <<effective, previous, watching>>
    PROVE  SyncInv'
<1> USE DEF SyncInv
<1> DEFINE todo == run[r].todo
           a == Head(todo)
           rest == Tail(todo)
<1>1. todo \in Seq(Adapters) /\ todo # <<>> /\ run[r].seen \in Revisions
  BY DEF RunTypes, RunAt, Achieved
<1>2. a \in Adapters /\ rest \in Seq(Adapters) /\ Len(rest) = Len(todo) - 1 /\ a = todo[1]
      /\ \A i \in 1..Len(rest) : rest[i] = todo[i + 1]
  BY <1>1
<1>3. ASSUME NEW b \in Adapters, NEW i \in 1..Len(todo), todo[i] = b, b # a
      PROVE  \E j \in 1..Len(rest) : rest[j] = b
  <2>1. i # 1
    BY <1>2, <1>3
  <2>2. i - 1 \in 1..Len(rest) /\ rest[i - 1] = todo[i]
    BY <1>1, <1>2, <2>1
  <2> QED
    BY <1>3, <2>2
<1>4. DOMAIN apps' = Adapters
      /\ \A b \in Adapters : apps'[b] = IF b = a THEN look ELSE apps[b]
  BY <1>2 DEF RunTypes
<1>5. ASSUME NEW b \in Adapters \ errors, apps'[b] # run[r].seen.look
      PROVE  \E j \in 1..Len(rest) : rest[j] = b
  <2>1. b # a /\ apps[b] # run[r].seen.look /\ b \notin run[r].errors
    BY <1>4, <1>5
  <2>2. \E i \in 1..Len(todo) : todo[i] = b
    BY <2>1 DEF Achieved
  <2> QED
    BY <1>3, <2>1, <2>2
<1>6. run'[r] = to
  BY DEF RunTypes
<1>7. Achieved(r)'
  <2>1. CASE rest = <<>>
    <3>1. \A b \in Adapters \ errors : apps'[b] = run[r].seen.look
      <4>1. 1..Len(rest) = {}
        BY <2>1
      <4> HIDE DEF rest
      <4> QED
        BY <1>5, <4>1
    <3>2. run'[r].pc = "again" /\ run'[r].seen = run[r].seen /\ run'[r].errors = errors
      BY <1>6, <2>1
    <3> QED
      BY <1>1, <3>1, <3>2, SyncAssumption DEF Achieved, Has
  <2>2. CASE rest # <<>>
    <3>1. run'[r].pc = "apply" /\ run'[r].seen = run[r].seen /\ run'[r].errors = errors
          /\ run'[r].todo = rest
      BY <1>6, <2>2
    <3>2. run'[r].seen # Absent
      BY <3>1 DEF Achieved
    <3> HIDE DEF rest
    <3> QED
      BY <1>5, <2>2, <3>1, <3>2 DEF Achieved
  <2> QED
    BY <2>1, <2>2
<1>8. \A q \in SyncRuns \ {r} : ~Inside(q)
  BY DEF OneRun, Inside
<1> QED
  BY <1>4, <1>7, <1>8, RunGoesOn

\* An adapter that works, and one that raises.
LEMMA AdaptStep ==
    ASSUME SyncInv, NEW r \in SyncRuns, Adapt(r)
    PROVE  SyncInv'
<1> DEFINE old == run[r]
           a == Head(old.todo)
           rest == Tail(old.todo)
           pc == IF rest = <<>> THEN "again" ELSE "apply"
           next == [old EXCEPT !.todo = rest, !.pc = pc]
           failed == [next EXCEPT !.errors = @ \cup {a}]
<1>1. /\ old.pc = "apply" /\ old \in RunAt(Working) /\ old.errors \subseteq Adapters
      /\ a \in Adapters /\ rest \in Seq(Adapters) /\ pc \in Working
  BY DEF Adapt, SyncInv, RunTypes, RunAt, Working, Achieved
<1>2. /\ next \in RunAt(Working) /\ failed \in RunAt(Working)
      /\ next.pc = pc /\ next.seen = old.seen /\ next.todo = rest /\ next.errors = old.errors
      /\ failed.pc = pc /\ failed.seen = old.seen /\ failed.todo = rest
      /\ failed.errors = old.errors \cup {a}
  <2>1. next = [old EXCEPT !.todo = rest, !.pc = pc]
        /\ failed = [next EXCEPT !.errors = @ \cup {a}]
    OBVIOUS
  <2> HIDE DEF old, a, rest, pc, next, failed
  <2>2. /\ next \in RunAt(Working)
        /\ next.pc = pc /\ next.seen = old.seen /\ next.todo = rest /\ next.errors = old.errors
    BY <1>1, <2>1 DEF RunAt
  <2>3. /\ failed \in RunAt(Working)
        /\ failed.pc = next.pc /\ failed.seen = next.seen /\ failed.todo = next.todo
        /\ failed.errors = next.errors \cup {a}
    BY <1>1, <2>1, <2>2 DEF RunAt
  <2> QED
    BY <2>2, <2>3
<1>3. UNCHANGED <<effective, previous, watching>>
  BY DEF Adapt
<1>4. next = [old EXCEPT !.todo = rest, !.pc = IF rest = <<>> THEN "again" ELSE @]
  BY <1>1
<1>5. CASE apps' = [apps EXCEPT ![a] = old.seen.look] /\ run' = [run EXCEPT ![r] = next]
  <2> HIDE DEF next
  <2> QED
    BY <1>1, <1>2, <1>3, <1>5, Passes
<1>6. ASSUME NEW l, apps' = [apps EXCEPT ![a] = l], run' = [run EXCEPT ![r] = failed]
      PROVE  SyncInv'
  <2>1. old.errors \cup {a} \in SUBSET Adapters
    BY <1>1
  <2> HIDE DEF failed
  <2> QED
    BY <1>1, <1>2, <1>3, <1>6, <2>1, Passes
<1>7. CASE /\ apps' = [apps EXCEPT ![a] = old.seen.look]
           /\ Moves(r, [old EXCEPT !.todo = rest, !.pc = IF rest = <<>> THEN "again" ELSE @])
  BY <1>4, <1>5, <1>7 DEF Moves
<1>8. ASSUME NEW l, apps' = [apps EXCEPT ![a] = l],
             Moves(r, [[old EXCEPT !.todo = rest, !.pc = IF rest = <<>> THEN "again" ELSE @]
                         EXCEPT !.errors = @ \cup {a}])
      PROVE  SyncInv'
  BY <1>4, <1>6, <1>8 DEF Moves
<1> QED
  BY <1>7, <1>8 DEF Adapt

\* The steps that read, compare and write keep what was achieved.
LEMMA RunSteps ==
    ASSUME SyncInv, NEW r \in SyncRuns, Reconcile(r)
    PROVE  SyncInv'
<1> USE DEF SyncInv
<1>1. CASE TakeSyncLock(r)
  <2>1. /\ run[r].pc = "lock" /\ \A q \in SyncRuns : ~Inside(q)
        /\ run' = [run EXCEPT ![r] = [run[r] EXCEPT !.pc = "read"]]
        /\ UNCHANGED <<effective, previous, apps, applied, watching>>
    BY <1>1 DEF TakeSyncLock, Moves
  <2>2. Achieved(r)'
    BY <2>1 DEF RunTypes, Achieved
  <2> QED
    BY <2>1, <2>2, RunGoesOn DEF RunTypes, RunAt, Working
<1>2. CASE ReadEffective(r)
  <2>1. CASE effective = Absent
    BY <1>2, <2>1, StopStep DEF ReadEffective, Moves
  <2>2. CASE effective # Absent
    <3> DEFINE to == [pc |-> "apply", seen |-> effective, todo |-> AdapterOrder, errors |-> {}]
    <3>1. /\ run' = [run EXCEPT ![r] = to] /\ run[r].pc = "read"
          /\ UNCHANGED <<effective, previous, apps, applied, watching>>
      BY <1>2, <2>2 DEF ReadEffective, Moves
    <3>2. run'[r] = to
      BY <3>1 DEF RunTypes
    <3>3. Achieved(r)'
      <4>1. run'[r].todo # <<>> /\ run'[r].seen # Absent /\ run'[r].pc = "apply"
        BY <2>2, <3>2, SyncAssumption
      <4>2. \A a \in Adapters : \E i \in 1..Len(run'[r].todo) : run'[r].todo[i] = a
        BY <3>2 DEF Adapters
      <4> QED
        BY <4>1, <4>2 DEF Achieved
    <3>4. to \in RunAt(Working)
      BY SyncAssumption DEF RunTypes, RunAt, Working
    <3>5. \A q \in SyncRuns \ {r} : ~Inside(q)
      BY <3>1 DEF OneRun, Inside
    <3> HIDE DEF to
    <3> QED
      BY <3>1, <3>3, <3>4, <3>5, RunGoesOn DEF RunTypes, RunAt, Working
  <2> QED
    BY <2>1, <2>2
<1>3. CASE Adapt(r)
  BY <1>3, AdaptStep
<1>4. CASE ReadAgain(r)
  <2>1. CASE effective = Absent
    BY <1>4, <2>1, StopStep DEF ReadAgain, Moves
  <2>2. CASE effective # Absent
    <3>1. PICK pc \in {"write", "read"} : run' = [run EXCEPT ![r] = [run[r] EXCEPT !.pc = pc]]
      BY <1>4, <2>2 DEF ReadAgain, Moves
    <3>2. run[r].pc = "again" /\ UNCHANGED <<effective, previous, apps, applied, watching>>
      BY <1>4 DEF ReadAgain
    <3>3. Achieved(r)'
      BY <3>1, <3>2 DEF RunTypes, Achieved, Has
    <3>4. \A q \in SyncRuns \ {r} : ~Inside(q)
      BY <3>2 DEF OneRun, Inside
    <3> QED
      BY <3>1, <3>2, <3>3, <3>4, RunGoesOn DEF RunTypes, RunAt, Working
  <2> QED
    BY <2>1, <2>2
<1>5. CASE WriteResult(r)
  <2>1. /\ run[r].pc = "write" /\ run' = [run EXCEPT ![r] = [run[r] EXCEPT !.pc = "last"]]
        /\ applied' = [rev |-> run[r].seen.rev, errors |-> run[r].errors]
        /\ UNCHANGED <<effective, previous, apps, watching>>
    BY <1>5 DEF WriteResult, Moves
  <2>2. Achieved(r)'
    BY <2>1 DEF RunTypes, Achieved, Has
  <2>3. \A q \in SyncRuns \ {r} : ~Inside(q)
    BY <2>1 DEF OneRun, Inside
  <2> QED
    BY <2>1, <2>2, <2>3, RunGoesOn DEF RunTypes, RunAt, Working
<1>6. CASE ReadLast(r)
  <2>1. CASE effective # Absent /\ ~Unchanged(r)
    <3>1. /\ run[r].pc = "last" /\ run' = [run EXCEPT ![r] = [run[r] EXCEPT !.pc = "read"]]
          /\ UNCHANGED <<effective, previous, apps, applied, watching>>
      BY <1>6, <2>1 DEF ReadLast, Moves
    <3>2. Achieved(r)'
      BY <3>1 DEF RunTypes, Achieved
    <3>3. \A q \in SyncRuns \ {r} : ~Inside(q)
      BY <3>1 DEF OneRun, Inside
    <3> QED
      BY <3>1, <3>2, <3>3, RunGoesOn DEF RunTypes, RunAt, Working
  <2>2. CASE effective = Absent
    BY <1>6, <2>2, StopStep DEF ReadLast, Moves
  <2>3. CASE effective # Absent /\ Unchanged(r)
    <3>1. /\ run[r].pc = "last" /\ effective = run[r].seen
          /\ run' = [run EXCEPT ![r] = [NotRunning EXCEPT !.pc = "ended"]]
          /\ UNCHANGED <<effective, previous, apps, applied, watching>>
      BY <1>6, <2>3 DEF ReadLast, Moves, Unchanged
    <3>2. applied.rev = effective.rev /\ Has(effective.look, applied.errors)
      BY <3>1 DEF Achieved
    <3>3. AppsSettled'
      BY <3>1, <3>2 DEF AppsSettled, Has
    <3>4. RunTypes'
      BY <3>1, NewRun DEF RunTypes, RunAt
    <3>5. run'[r].pc = "ended" /\ \A q \in SyncRuns \ {r} : run'[q] = run[q]
      BY <3>1, NewRun DEF RunTypes
    <3>6. OneRun' /\ Watches' /\ \A q \in SyncRuns : Achieved(q)'
      BY <3>1, <3>5 DEF OneRun, Watches, Achieved, Has, Inside, SyncRuns
    <3> QED
      BY <3>3, <3>4, <3>6
  <2> QED
    BY <2>1, <2>2, <2>3
<1>7. CASE KillRun(r)
  BY <1>7, StopStep DEF KillRun, Moves
<1> QED
  BY <1>1, <1>2, <1>3, <1>4, <1>5, <1>6, <1>7 DEF Reconcile

\* Each step of a run, of a writer and of systemd keeps it.
LEMMA SyncStep == SyncInv /\ [SyncNext]_yvars => SyncInv'
<1> SUFFICES ASSUME SyncInv, [SyncNext]_yvars PROVE SyncInv'
  OBVIOUS
<1>1. CASE UNCHANGED yvars
  <2>1. UNCHANGED <<effective, previous, apps, applied, watching, missed, run>>
    BY <1>1 DEF yvars
  <2>2. RunTypes'
    BY <2>1 DEF SyncInv, RunTypes
  <2>3. OneRun' /\ Watches'
    BY <2>1 DEF SyncInv, OneRun, Watches, Inside
  <2>4. ASSUME NEW r \in SyncRuns PROVE Achieved(r)'
    BY <2>1, <2>4 DEF SyncInv, Achieved, Has
  <2>5. AppsSettled'
    BY <2>1 DEF SyncInv, AppsSettled, LookedAt, Has, Inside
  <2> QED
    BY <2>2, <2>3, <2>4, <2>5 DEF SyncInv
<1> QED
  BY <1>1, FileSteps, RunSteps DEF SyncNext

\* When nobody runs and systemd watches, every application whose adapter did
\* not fail has the look of effective.json, unless the last write was missed
\* (reconcile of appearance-app-sync.py).
THEOREM ApplicationsFollow == SyncSpec => []AppsFollow
<1>1. SyncInv => AppsFollow
  BY DEF SyncInv, AppsSettled, Watches, LookedAt, Inside, Has, AppsFollow, SyncRuns
<1> QED
  BY SyncStarts, SyncStep, <1>1, PTL DEF SyncSpec

\* The part of SyncTypeOK that the look of the applications does not rest on.
ResultTypes ==
    /\ apps \in [Adapters -> Looks \cup {Partial}]
    /\ applied = Absent \/ (applied.rev \in Nat /\ applied.errors \subseteq Adapters)
    /\ missed \in BOOLEAN

\* An adapter of a run leaves an old look, the new one or neither; a result is
\* of a revision that was read.
LEMMA ResultsKept == SyncInv /\ ResultTypes /\ [SyncNext]_yvars => ResultTypes'
<1> SUFFICES ASSUME SyncInv, ResultTypes, [SyncNext]_yvars PROVE ResultTypes'
  OBVIOUS
<1>0. RunTypes /\ \A r \in SyncRuns : Achieved(r)
  BY DEF SyncInv
<1>1. ASSUME UNCHANGED <<apps, applied>>, missed' \in BOOLEAN PROVE ResultTypes'
  BY <1>1 DEF ResultTypes
<1>2. CASE Publish \/ RollBack \/ Rearm \/ RunTool
  BY <1>1, <1>2 DEF Publish, RollBack, Rearm, RunTool, Written, ResultTypes
<1>3. ASSUME NEW r \in SyncRuns, Adapt(r) PROVE ResultTypes'
  <2>1. PICK look : look = run[r].seen.look
    OBVIOUS
  <2>2. look \in Looks
    BY <1>0, <1>3, <2>1 DEF Adapt, Achieved, RunTypes, RunAt, Revisions
  <2>3. PICK a : a = Head(run[r].todo)
    OBVIOUS
  <2>4. a \in Adapters
    <3>1. run[r].todo \in Seq(Adapters) /\ run[r].todo # <<>>
      BY <1>0, <1>3 DEF Adapt, Achieved, RunTypes, RunAt
    <3> QED
      BY <2>3, <3>1
  <2>5. /\ UNCHANGED <<applied, missed>>
        /\ \E l \in LeftBy(a, look) : apps' = [apps EXCEPT ![a] = l]
    BY <1>3, <2>1, <2>3 DEF Adapt, LeftBy
  <2>6. LeftBy(a, look) \subseteq Looks \cup {Partial}
    BY <2>2, <2>4 DEF LeftBy, ResultTypes
  <2> QED
    BY <2>5, <2>6 DEF ResultTypes
<1>4. ASSUME NEW r \in SyncRuns, WriteResult(r) PROVE ResultTypes'
  <2>1. run[r].seen \in Revisions /\ run[r].errors \subseteq Adapters
    BY <1>0, <1>4 DEF WriteResult, Achieved, RunTypes, RunAt
  <2>2. PICK a : a = [rev |-> run[r].seen.rev, errors |-> run[r].errors]
    OBVIOUS
  <2>3. a.rev \in Nat /\ a.errors \subseteq Adapters
    BY <2>1, <2>2 DEF Revisions
  <2>4. applied' = a /\ UNCHANGED <<apps, missed>>
    BY <1>4, <2>2 DEF WriteResult
  <2> QED
    BY <2>3, <2>4 DEF ResultTypes
<1>5. ASSUME NEW r \in SyncRuns,
             TakeSyncLock(r) \/ ReadEffective(r) \/ ReadAgain(r) \/ ReadLast(r) \/ KillRun(r)
      PROVE  ResultTypes'
  BY <1>1, <1>5 DEF TakeSyncLock, ReadEffective, ReadAgain, ReadLast, KillRun, ResultTypes
<1>6. CASE UNCHANGED yvars
  BY <1>1, <1>6 DEF yvars, ResultTypes
<1> QED
  BY <1>2, <1>3, <1>4, <1>5, <1>6 DEF SyncNext, Reconcile

\* SyncTypeOK: the file, the applications, the result and the runs keep their
\* types, for any adapters and looks (appearance-app-sync.py, reconcile).
THEOREM SyncTypesHold == SyncSpec => []SyncTypeOK
<1>1. SyncInit => ResultTypes
  BY DEF SyncInit, ResultTypes
<1>2. SyncInv /\ ResultTypes => SyncTypeOK
  BY DEF SyncInv, RunTypes, RunAt, Working, ResultTypes, SyncTypeOK
<1> QED
  BY <1>1, <1>2, SyncStarts, SyncStep, ResultsKept, PTL DEF SyncSpec
=============================================================================
