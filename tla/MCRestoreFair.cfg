SPECIFICATION FairSpec
CONSTANTS
    Windows = {w1}
    NoWindow = NoWindow
    Engine = engine
    Guard = guard
    Helpers = {h1}
    Procs = {engine, guard}
    Killable = {engine}
    MaxOperations = 20
    MaxTransactions = 1
    MaxBudget <- OneCrashOneLoss
    MaxFaults = 2
CHECK_DEADLOCK FALSE
PROPERTIES
    EngineEnds
    JournalDecided
    HelpersResumed
    HelpersReleased
