SPECIFICATION Spec
CONSTANTS
    Windows = {w1}
    NoWindow = NoWindow
    Procs = {engine, guard}
    MaxOperations = 3
    MaxTransactions = 2
    MaxBudget <- OneOfEach
SYMMETRY JournalSymmetry
CHECK_DEADLOCK FALSE
INVARIANTS
    NoReplay
    SettledIsResolved
    ReceiptNeverAhead
    IInv
PROPERTIES
    ConflictFreezes
    SettledIsFinal
    PromiseKept
