SPECIFICATION Spec
CONSTANTS
    RootTargets <- RootOrder
    UserTargets <- UserOrder
    Wants = "wants"
    MaxFaults = 2
    MaxEdits = 1
    MaxRuns = 2
    MaxAlone = 1
    Accounts = {a1, a2}
    Manual = Manual
    Invalid = Invalid
    Nothing = Nothing
    MaxConvs = 3
    MaxPrompts = 2
    MaxLost = 1
    Commands = {c1, c2}
    MaxSelects = 2
    MaxPid = 3
    MaxRestarts = 2
    Wallpapers = {w1, w2}
    Light = {w2}
    Zones = {z1, z2}
    Coords = {here, there}
    Extras = {e1, e2}
    Budgets <- FewMishaps
    AdapterOrder <- Adapting
    Looks = {l1, l2}
    Absent = Absent
    Partial = Partial
    MaxChanges = 3
    MaxTools = 1
    MaxErrors = 1
    Photos = {f1, f2}
    MaxShots = 1
    MaxDiscards = 1
    MaxBackups = 2
    MaxTrouble = 2
    Torn = Torn
    Windows = {o1, o2}
    Bounds <- FewMoments
    MaxLocks = 2
    MaxFiles = 3
CHECK_DEADLOCK FALSE
INVARIANTS
    DesktopTypeOK
    GreeterLast
    AnswerToItsPrompt
    StartsAsShown
    SelectionSerialised
    OwnShell
    RestoredOnce
    PromptAlone
    ShellNotBehind
    AppsFollow
    BackupIsSnapshot
    PreviewIsCurrent
PROPERTIES
    LotsAtomic
    PairAtomic
    Thaws
    Offered
    AtomicLook
