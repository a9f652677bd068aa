SPECIFICATION TransactionSpec
CONSTANTS
    Windows = {w1}
    NoWindow = NoWindow
    Engine = engine
    Guard = guard
    Helpers = {h1, h2}
    Procs = {engine, guard}
    Killable = {}
    MaxOperations = 20
    MaxTransactions = 1
    MaxBudget <- Nothing
    MaxFaults = 1
CHECK_DEADLOCK FALSE
INVARIANTS
    ReturnsWhileHeld
