SPECIFICATION TransactionSpec
CONSTANTS
    Windows = {w1}
    NoWindow = NoWindow
    Engine = engine
    Guard = guard
    Helpers = {h1, h2}
    Procs = {engine, guard}
    Killable = {engine, guard}
    MaxOperations = 20
    MaxTransactions = 1
    MaxBudget <- OneCrashOneMove
    MaxFaults = 1
SYMMETRY HelperSymmetry
CHECK_DEADLOCK FALSE
INVARIANTS
    UserPlacementWins
    SuccessIsComplete
    MovesWhileHeld
