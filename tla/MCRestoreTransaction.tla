------------------------ MODULE MCRestoreTransaction ------------------------
(* Instances of RestoreTransaction for TLC: what may go wrong in each run.  *)
EXTENDS RestoreTransaction, TLC

\* One crash, one lost IPC answer and one action of the user.
OneOfEach == [crash |-> 1, lost |-> 1, user |-> 1]
OneCrashOneMove == [crash |-> 1, lost |-> 0, user |-> 1]
OneCrashOneLoss == [crash |-> 1, lost |-> 1, user |-> 0]
OneCrash == [crash |-> 1, lost |-> 0, user |-> 0]
OneMove == [crash |-> 0, lost |-> 0, user |-> 1]
Nothing == [crash |-> 0, lost |-> 0, user |-> 0]

WindowSymmetry == Permutations(Windows)
HelperSymmetry == Permutations(Helpers)
=============================================================================
