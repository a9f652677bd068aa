SPECIFICATION TransactionSpec
CONSTANTS
    Windows = {w1, w2}
    NoWindow = NoWindow
    Engine = engine
    Guard = guard
    Helpers = {h1}
    Procs = {engine, guard}
    Killable = {engine}
    MaxOperations = 20
    MaxTransactions = 2
    MaxBudget <- OneOfEach
    MaxFaults = 0
SYMMETRY WindowSymmetry
CHECK_DEADLOCK FALSE
INVARIANTS
    TransactionTypeOK
PROPERTIES
    Protocol
