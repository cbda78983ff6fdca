-------------------------- MODULE MCThresholdPolicy --------------------------
EXTENDS ThresholdPolicy, TLC

\* Processes, and contexts, are interchangeable.
PolicySymmetry == Permutations(Processes) \cup Permutations(Contexts)
=============================================================================
