SPECIFICATION Spec
CONSTANTS
    Processes = {p1, p2}
    Contexts = {x1, x2}
    Actions = {80}
    MaxUpdates = 3
    MaxFaults = 1
    Scale = 16
    NoRow = NoRow
    Absent = Absent
    Torn = Torn
SYMMETRY PolicySymmetry
INVARIANTS TypeOK LearningDurable TornByUnreturned
CHECK_DEADLOCK FALSE
