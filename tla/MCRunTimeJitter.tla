-------------------------- MODULE MCRunTimeJitter --------------------------
EXTENDS RunTimeJitter, TLC

WorkerSymmetry == Permutations(Workers)
=============================================================================
