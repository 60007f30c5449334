------------------------ MODULE MCThreadTimerTotals ------------------------
EXTENDS ThreadTimerTotals, TLC

WorkerSymmetry == Permutations(Workers)
=============================================================================
