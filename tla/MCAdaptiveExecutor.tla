------------------------- MODULE MCAdaptiveExecutor -------------------------
(* Model-checking instance of AdaptiveExecutor: worker slots are model    *)
(* values given in the .cfg files.                                        *)
EXTENDS AdaptiveExecutor, TLC

\* Worker slots are interchangeable (safety runs only).
WorkerSymmetry == Permutations(Workers)

\* State constraint for runs about the executor while it runs: behaviours
\* in which shutdown() is never called.
NoShutdownCall == spc = "none"

=============================================================================
