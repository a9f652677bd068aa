------------------------- MODULE MCRecoveryJournal -------------------------
(* Instance of RecoveryJournal for TLC.                                    *)
EXTENDS RecoveryJournalInvariant, TLC

OneOfEach == [crash |-> 1, lost |-> 1, user |-> 1]
JournalSymmetry == Permutations(Windows) \cup Permutations(Procs)
============================================================================
