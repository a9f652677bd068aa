SPECIFICATION TransactionSpec
CONSTANTS
    Windows = {w1, w2}
    NoWindow = NoWindow
    Engine = engine
    Guard = guard
    Helpers = {h1}
    Procs = {engine, guard}
    Killable = {}
    MaxOperations = 20
    MaxTransactions = 1
    MaxBudget <- OneMove
    MaxFaults = 1
SYMMETRY WindowSymmetry
CHECK_DEADLOCK FALSE
PROPERTIES
    ConflictFreezes
