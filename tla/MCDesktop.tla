----------------------------- MODULE MCDesktop -----------------------------
(* Instances for TLC of the components around the restore, each by itself:  *)
(* the one that "component" names steps, the others stay as they begin.     *)
EXTENDS LoginUpdate, Greeter, SessionSelection, MosaicSession, SessionStart,
        Appearance, AppearanceSync, PhotoBackup, OverviewCapture

VARIABLES component

RootOrder == <<"auth", "css">>
UserOrder == <<"session", "wants">>
Adapting == <<"gtk", "qt">>

\* Two changes and one mishap, or one change that two mishaps and two starts
\* of the shell befall.
FewMishaps == {[jobs |-> 2, starts |-> 1, mishaps |-> 1],
               [jobs |-> 1, starts |-> 2, mishaps |-> 2]}

\* Two batches over one window with a lock, one over two windows, and one
\* during which the policy is edited.
FewMoments ==
    LET b == [windows |-> {CHOOSE w \in Windows : TRUE}, locks |-> 0, policies |-> 0,
              batches |-> 1, panels |-> 1] IN
    {[b EXCEPT !.locks = 2, !.batches = 2], [b EXCEPT !.windows = Windows],
     [b EXCEPT !.policies = 1]}

uvars == lvars
allvars == <<uvars, gvars, svars, mvars, tvars, avars, yvars, pvars, ovars, component>>

\* An edit by somebody else and a tool run alone do not occur together.
NotBoth == edits' = MaxEdits \/ alone' = 0

Component(name, here, there) ==
    component = name /\ here /\ UNCHANGED <<there, component>>

\* Where a component has several initial states, it has them only when it is
\* the one that steps.
Init ==
    /\ component \in {"update", "greeter", "selection", "mosaic", "start",
                      "appearance", "sync", "backup", "overview"}
    /\ LoginUpdateInit /\ GreeterInit /\ SelectionInit /\ MosaicInit /\ StartInit
    /\ AppearanceInit /\ SyncInit /\ BackupInit /\ OverviewInit
    /\ component # "greeter" => ui.account = CHOOSE a \in Accounts : TRUE
    /\ component # "selection" => default.value = "sway"
    /\ component # "start" => marker = "new" /\ ~locked
    /\ component # "appearance" => left.jobs = 2 /\ ~desk.pref.choice.sun
    /\ left.jobs = 2 => desk.pref.choice.mode = "manual"
    /\ component # "sync" => effective = Absent
    /\ component # "backup" => library[CHOOSE f \in Photos : TRUE] = 0
    /\ component # "overview" => more.policies = 1

Next ==
    \/ Component("update", LoginUpdateNext /\ NotBoth,
                 <<gvars, svars, mvars, tvars, avars, yvars, pvars, ovars>>)
    \/ Component("greeter", GreeterNext,
                 <<uvars, svars, mvars, tvars, avars, yvars, pvars, ovars>>)
    \/ Component("selection", SelectionNext,
                 <<uvars, gvars, mvars, tvars, avars, yvars, pvars, ovars>>)
    \/ Component("mosaic", MosaicNext,
                 <<uvars, gvars, svars, tvars, avars, yvars, pvars, ovars>>)
    \/ Component("start", StartNext,
                 <<uvars, gvars, svars, mvars, avars, yvars, pvars, ovars>>)
    \/ Component("appearance", AppearanceNext,
                 <<uvars, gvars, svars, mvars, tvars, yvars, pvars, ovars>>)
    \/ Component("sync", SyncNext,
                 <<uvars, gvars, svars, mvars, tvars, avars, pvars, ovars>>)
    \/ Component("backup", BackupNext,
                 <<uvars, gvars, svars, mvars, tvars, avars, yvars, ovars>>)
    \/ Component("overview", OverviewNext,
                 <<uvars, gvars, svars, mvars, tvars, avars, yvars, pvars>>)

\* GreeterFairness and StartFairness, each while it is the one that steps.
Fairness ==
    /\ WF_gvars(component = "greeter" /\ Worker)
    /\ WF_gvars(component = "greeter" /\ (OpenSelected \/ Handler))
    /\ WF_tvars(component = "start" /\ ReadStatus)
    /\ WF_tvars(component = "start" /\ Release)
    /\ WF_tvars(component = "start" /\ Completed)
    /\ WF_tvars(component = "start" /\ Backend("child"))
    /\ WF_tvars(component = "start" /\ Backend("orphan"))
    /\ WF_tvars(component = "start" /\ OrphanExits)
    /\ WF_tvars(component = "start" /\ GuardEnds)

Spec == Init /\ [][Next]_allvars /\ Fairness

DesktopTypeOK ==
    /\ LoginUpdateTypeOK /\ GreeterTypeOK /\ SelectionTypeOK /\ MosaicTypeOK /\ StartTypeOK
    /\ AppearanceTypeOK /\ SyncTypeOK /\ BackupTypeOK /\ OverviewTypeOK
=============================================================================
