SPECIFICATION Spec
CONSTANTS
    Builders = {b1}
    Updaters = {u1, u2}
    Means = {0, 6}
    Stds = {0, 1}
    Rate = 20
    Scale = 16000
    MaxBuilds = 2
    MaxUpdates = 3
    Missing = Missing
SYMMETRY ProcessSymmetry
INVARIANTS TypeOK StaysWithinObserved LostOnlyToOverlap
CHECK_DEADLOCK FALSE
