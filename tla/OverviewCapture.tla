-------------------------- MODULE OverviewCapture --------------------------
(***************************************************************************)
(* overview/backend.py: a batch captures the windows of the overview into  *)
(* a cache, a panel reads the cache to show them.  The screen is locked    *)
(* and unlocked (labfy-lock and its shell), the policy edited, the helpers *)
(* killed at any moment.                                                   *)
(***************************************************************************)
EXTENDS Naturals, FiniteSets

CONSTANTS
    Windows,
    Bounds,         \* the windows, writes of the lock guard, edits of the policy,
                    \* capture and state helpers that a behaviour may have
    MaxLocks,       \* the most writes of the lock guard among the Bounds
    MaxFiles        \* MAX_CACHE_FILES

ASSUME OverviewAssumption ==
    /\ Windows # {}
    /\ MaxLocks \in Nat
    /\ Bounds \subseteq [windows : SUBSET Windows, locks : 0..MaxLocks, policies : Nat,
                         batches : Nat, panels : Nat]
    /\ MaxFiles \in Nat \ {0}

VARIABLES
    screen,         \* the lock guard, its revision, and whether a locker runs
    policy,         \* overview-capture.json
    overview,       \* the overview is open, over these windows
    cache,          \* the files of the cache directory
    grab,           \* the capture helper that holds capture.lock
    panel,          \* the state helper
    ticks,          \* time stamps given to files
    more            \* what may still happen

ovars == <<screen, policy, overview, cache, grab, panel, ticks, more>>

\* A revision is what lock_revision() tells apart.  Spoilt is no revision: the
\* guard was active, or written, while grim ran.
LockRevisions == 0..MaxLocks
Spoilt == MaxLocks + 1
Stamps == 0..Spoilt
CacheFiles == [kind : {"temp", "image", "meta"}, win : Windows, at : Nat, of : Nat, rev : Stamps]
GrabPcs == {"off", "admit", "generation", "sweep", "tree", "each", "spawn", "grim",
            "sweepAgain", "treeAgain", "publish", "image", "meta", "finish"}
PanelPcs == {"off", "sweep", "tree", "each", "meta", "compare"}

NoGrab == [pc |-> "off", gen |-> 0, rules |-> {}, todo |-> {}, win |-> CHOOSE w \in Windows : TRUE,
           from |-> 0, seen |-> {}, taken |-> {}]
NoPanel == [pc |-> "off", rules |-> {}, tree |-> {}, todo |-> {},
            win |-> CHOOSE w \in Windows : TRUE, stat |-> 0, meta |-> {}, given |-> {}]

LockScreens == [active : BOOLEAN, rev : LockRevisions, locker : BOOLEAN]
Moments == [active : BOOLEAN, rev : LockRevisions]
Grabs == [pc : GrabPcs, gen : LockRevisions, rules : SUBSET Windows, todo : SUBSET Windows,
          win : Windows, from : Stamps, seen : SUBSET Windows, taken : SUBSET Nat]
Panels == [pc : PanelPcs, rules : SUBSET Windows, tree : SUBSET Windows, todo : SUBSET Windows,
           win : Windows, stat : Nat, meta : SUBSET CacheFiles,
           given : SUBSET [screen : Moments, file : CacheFiles]]
Quotas == [locks : Nat, policies : Nat, batches : Nat, panels : Nat]

OverviewTypeOK ==
    /\ screen \in LockScreens
    /\ policy \in [enabled : BOOLEAN, apps : SUBSET Windows]
    /\ overview \in [open : BOOLEAN, windows : SUBSET Windows]
    /\ cache \subseteq CacheFiles
    /\ grab \in Grabs
    /\ panel \in Panels
    /\ ticks \in Nat
    /\ more \in Quotas

OverviewInit ==
    /\ screen = [active |-> FALSE, rev |-> 0, locker |-> FALSE]
    /\ policy = [enabled |-> TRUE, apps |-> {}]
    /\ \E b \in Bounds :
         /\ overview = [open |-> FALSE, windows |-> b.windows]
         /\ more = [locks |-> b.locks, policies |-> b.policies,
                    batches |-> b.batches, panels |-> b.panels]
    /\ cache = {} /\ grab = NoGrab /\ panel = NoPanel /\ ticks = 0

-----------------------------------------------------------------------------
(* The lock, the policy and the overview. *)

Helpers == <<cache, grab, panel, ticks>>
Uses(what) == more[what] > 0 /\ more' = [more EXCEPT ![what] = @ - 1]

\* labfy-lock: the guard is written before the locker starts.
LockScreen ==
    /\ ~screen.locker /\ Uses("locks")
    /\ screen' = [active |-> TRUE, rev |-> screen.rev + 1, locker |-> TRUE]
    /\ UNCHANGED <<policy, overview, Helpers>>

\* onSecureStateChanged: released only after the authenticated unlock.
Unlock ==
    /\ screen.locker /\ Uses("locks")
    /\ screen' = [active |-> FALSE, rev |-> screen.rev + 1, locker |-> FALSE]
    /\ UNCHANGED <<policy, overview, Helpers>>

\* A locker that the compositor refuses, or that dies, leaves the guard.
LockerQuits ==
    /\ screen.locker /\ screen' = [screen EXCEPT !.locker = FALSE]
    /\ UNCHANGED <<policy, overview, more, Helpers>>

EditPolicy ==
    /\ Uses("policies")
    /\ policy' \in [enabled : BOOLEAN, apps : SUBSET Windows]
    /\ UNCHANGED <<screen, overview, Helpers>>

ToggleOverview ==
    /\ overview' = [overview EXCEPT !.open = ~@]
    /\ UNCHANGED <<screen, policy, more, Helpers>>

CloseWindow(w) ==
    /\ w \in overview.windows
    /\ overview' = [overview EXCEPT !.windows = @ \ {w}]
    /\ UNCHANGED <<screen, policy, more, Helpers>>

Outside == UNCHANGED <<screen, policy, overview, more>>

-----------------------------------------------------------------------------
(* What both helpers do to the cache. *)

\* excluded(): all the windows when the policy is disabled.
Excluded == IF policy.enabled THEN policy.apps ELSE Windows
Of(kind, w) == {c \in cache : c.kind = kind /\ c.win = w}

\* enforce_quota: the oldest files go until MaxFiles are left.
WithinQuota(files) ==
    {c \in files : Cardinality({d \in files : d.at > c.at}) < MaxFiles}

\* The beginning of state().
Swept ==
    IF screen.active \/ ~policy.enabled THEN {} ELSE WithinQuota(cache)

\* prune_window_previews: what belongs to no window of the tree goes.
Pruned(files, tree) == {c \in files : c.kind = "temp" \/ c.win \in tree}

\* The rest of state(), seen from the batch: it needs no preview.
Tidied(rules, tree) ==
    Pruned({c \in cache : c.kind = "temp" \/ c.win \notin rules \cap tree}, tree)

-----------------------------------------------------------------------------
(* capture_windows. *)

GrabGoes(pc) == grab' = [grab EXCEPT !.pc = pc]
\* The finally clause: the temporaries of the batch go.
Temps(w) == {c \in Of("temp", w) : c.at \in grab.taken}
WithoutTemps == cache \ UNION {Temps(w) : w \in Windows}
Returned(files) == cache' = files /\ grab' = NoGrab

\* Whoever finds capture.lock held returns without capturing.
BeginCapture ==
    /\ grab.pc = "off" /\ Uses("batches") /\ GrabGoes("admit")
    /\ UNCHANGED <<screen, policy, overview, cache, panel, ticks>>

AdmitCapture ==
    /\ grab.pc = "admit"
    /\ IF screen.active \/ ~policy.enabled THEN Returned({})
       ELSE IF ~overview.open THEN Returned(cache)
       ELSE GrabGoes("generation") /\ UNCHANGED cache
    /\ Outside /\ UNCHANGED <<panel, ticks>>

Generation ==
    /\ grab.pc = "generation"
    /\ grab' = [grab EXCEPT !.pc = "sweep", !.gen = screen.rev]
    /\ Outside /\ UNCHANGED <<cache, panel, ticks>>

\* state(), before and after the captures.
SweepForCapture(from, to) ==
    /\ grab.pc = from /\ cache' = Swept
    /\ grab' = [grab EXCEPT !.pc = to, !.rules = Excluded]
    /\ Outside /\ UNCHANGED <<panel, ticks>>

Candidates ==
    /\ grab.pc = "tree" /\ cache' = Tidied(grab.rules, overview.windows)
    /\ grab' = [grab EXCEPT !.pc = "each", !.todo = overview.windows \ Excluded]
    /\ Outside /\ UNCHANGED <<panel, ticks>>

\* The guard, its revision and the overview, as both loops ask for them.
MayCapture == ~screen.active /\ grab.gen = screen.rev /\ overview.open

\* The loop ends at the first refusal, at the deadline, or with the batch.
NextWindow ==
    /\ grab.pc = "each"
    /\ \/ GrabGoes("sweepAgain")
       \/ \E w \in grab.todo \ Excluded :
            MayCapture /\ grab' = [grab EXCEPT !.pc = "spawn", !.win = w, !.todo = @ \ {w}]
    /\ Outside /\ UNCHANGED <<cache, panel, ticks>>

SpawnGrim ==
    /\ grab.pc = "spawn"
    /\ grab' = [grab EXCEPT !.pc = "grim",
                            !.from = IF screen.active THEN Spoilt ELSE screen.rev]
    /\ Outside /\ UNCHANGED <<cache, panel, ticks>>

\* grim wrote its file, or failed and the temporary is removed.
GrimEnds ==
    /\ grab.pc = "grim"
    /\ \/ GrabGoes("each") /\ UNCHANGED <<cache, ticks>>
       \/ /\ ticks' = ticks + 1
          /\ grab' = [grab EXCEPT !.pc = "each", !.taken = @ \cup {ticks'}]
          /\ cache' = cache \cup
                {[kind |-> "temp", win |-> grab.win, at |-> ticks', of |-> 0,
                  rev |-> IF grab.from = screen.rev THEN screen.rev ELSE Spoilt]}
    /\ Outside /\ UNCHANGED panel

CandidatesAgain ==
    /\ grab.pc = "treeAgain" /\ cache' = Tidied(grab.rules, overview.windows)
    /\ grab' = [grab EXCEPT !.pc = "publish", !.seen = overview.windows,
                            !.todo = {w \in Windows : Temps(w) # {}}]
    /\ Outside /\ UNCHANGED <<panel, ticks>>

\* The loop ends when the guard changed; a window that is excluded or gone,
\* or whose temporary is, is skipped.
NextPublished ==
    /\ grab.pc = "publish"
    /\ IF MayCapture /\ grab.todo # {}
       THEN \E w \in grab.todo :
              LET skipped == w \in Excluded \/ Temps(w) = {} \/ w \notin grab.seen IN
              grab' = [grab EXCEPT !.todo = @ \ {w}, !.win = w,
                                   !.pc = IF skipped THEN "publish" ELSE "image"]
       ELSE GrabGoes("finish")
    /\ Outside /\ UNCHANGED <<cache, panel, ticks>>

\* Both replacements raise when somebody purged the file they start from.
PublishImage ==
    /\ grab.pc = "image"
    /\ IF Temps(grab.win) = {} THEN Returned(WithoutTemps)
       ELSE /\ GrabGoes("meta")
            /\ cache' = (cache \ (Temps(grab.win) \cup Of("image", grab.win)))
                        \cup {[c EXCEPT !.kind = "image"] : c \in Temps(grab.win)}
    /\ Outside /\ UNCHANGED <<panel, ticks>>

PublishMetadata ==
    /\ grab.pc = "meta"
    /\ IF Of("image", grab.win) = {} THEN Returned(WithoutTemps) /\ UNCHANGED ticks
       ELSE /\ GrabGoes("publish")
            /\ ticks' = ticks + 1
            /\ cache' = (cache \ Of("meta", grab.win)) \cup
                   {[kind |-> "meta", win |-> grab.win, at |-> ticks', of |-> c.at,
                     rev |-> grab.gen] : c \in Of("image", grab.win)}
    /\ Outside /\ UNCHANGED panel

FinishCapture ==
    /\ grab.pc = "finish" /\ Returned(WithinQuota(WithoutTemps))
    /\ Outside /\ UNCHANGED <<panel, ticks>>

\* A failure or SIGTERM runs the finally clause, SIGKILL does not.
CaptureCancelled ==
    /\ grab.pc # "off" /\ \E files \in {WithoutTemps, cache} : Returned(files)
    /\ Outside /\ UNCHANGED <<panel, ticks>>

-----------------------------------------------------------------------------
(* state, for a panel. *)

BeginPanel ==
    /\ panel.pc = "off" /\ Uses("panels") /\ panel' = [panel EXCEPT !.pc = "sweep"]
    /\ UNCHANGED <<screen, policy, overview, cache, grab, ticks>>

Sweep ==
    /\ panel.pc = "sweep" /\ cache' = Swept
    /\ panel' = [panel EXCEPT !.pc = "tree", !.rules = Excluded]
    /\ Outside /\ UNCHANGED <<grab, ticks>>

ReadTree ==
    /\ panel.pc = "tree"
    /\ panel' = [panel EXCEPT !.pc = "each", !.tree = overview.windows, !.todo = overview.windows]
    /\ Outside /\ UNCHANGED <<cache, grab, ticks>>

\* The window loop: an excluded window loses its files; the image of another
\* is looked at when the guard is not active.
Inspect(w) ==
    /\ panel.pc = "each" /\ w \in panel.todo
    /\ LET next == [panel EXCEPT !.todo = @ \ {w}] IN
       \/ /\ w \in panel.rules /\ panel' = next
          /\ cache' = cache \ (Of("image", w) \cup Of("meta", w))
       \/ /\ w \notin panel.rules /\ UNCHANGED cache
          /\ IF screen.active \/ Of("image", w) = {} THEN panel' = next
             ELSE \E c \in Of("image", w) :
                    panel' = [next EXCEPT !.pc = "meta", !.win = w, !.stat = c.at]
    /\ Outside /\ UNCHANGED <<grab, ticks>>

ReadMetadata ==
    /\ panel.pc = "meta"
    /\ panel' = [panel EXCEPT !.meta = Of("meta", panel.win),
                     !.pc = IF Of("meta", panel.win) = {} THEN "each" ELSE "compare"]
    /\ Outside /\ UNCHANGED <<cache, grab, ticks>>

\* Mistake: the revision of the lock is not compared.
IsValidUnderAnyLock == \A m \in panel.meta : m.of = panel.stat

\* valid_window_preview: the metadata is the image's and of the current revision.
IsValid == \A m \in panel.meta : m.of = panel.stat /\ m.rev = screen.rev

\* The panel is given the file, which it loads by its name: it is what has
\* that name now, under the lock as it is now.
Compare ==
    /\ panel.pc = "compare"
    /\ LET now == [active |-> screen.active, rev |-> screen.rev] IN
       panel' = [panel EXCEPT !.pc = "each", !.meta = {},
                     !.given = IF IsValid
                               THEN @ \cup [screen : {now}, file : Of("image", panel.win)]
                               ELSE @]
    /\ Outside /\ UNCHANGED <<cache, grab, ticks>>

FinishPanel ==
    /\ panel.pc = "each" /\ panel.todo = {}
    /\ cache' = Pruned(cache, panel.tree) /\ panel' = NoPanel
    /\ Outside /\ UNCHANGED <<grab, ticks>>

PanelKilled ==
    /\ panel.pc # "off" /\ panel' = NoPanel
    /\ Outside /\ UNCHANGED <<cache, grab, ticks>>

OverviewNext ==
    \/ LockScreen \/ Unlock \/ LockerQuits \/ EditPolicy \/ ToggleOverview
    \/ \E w \in Windows : CloseWindow(w) \/ Inspect(w)
    \/ BeginCapture \/ AdmitCapture \/ Generation \/ Candidates \/ NextWindow
    \/ SweepForCapture("sweep", "tree") \/ SweepForCapture("sweepAgain", "treeAgain")
    \/ SpawnGrim \/ GrimEnds \/ CandidatesAgain \/ NextPublished \/ PublishImage
    \/ PublishMetadata \/ FinishCapture \/ CaptureCancelled
    \/ BeginPanel \/ Sweep \/ ReadTree \/ ReadMetadata \/ Compare \/ FinishPanel \/ PanelKilled

OverviewSpec == OverviewInit /\ [][OverviewNext]_ovars

-----------------------------------------------------------------------------
\* When a panel is given a preview, the file it will load was captured in the
\* unlocked period that still lasts, whatever was locked, replaced, evicted or
\* killed since (state, _capture_windows; "labfy-lock.capture-guard").
PreviewIsCurrent ==
    \A g \in panel.given : ~g.screen.active /\ g.file.rev = g.screen.rev
=============================================================================
