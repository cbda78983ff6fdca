----------------------------- MODULE MCBaseline ------------------------------
EXTENDS Baseline, TLC

\* Processes of a kind are interchangeable.
ProcessSymmetry == Permutations(Builders) \cup Permutations(Updaters)
=============================================================================
