SPECIFICATION Spec
CONSTANTS
    MaxRuns = 3
    MaxChanges = 4
    Images = {blue, green}
    Attempts = 2
SYMMETRY Symmetry
INVARIANTS
    MixedOneWay
    SuccessIsWhole
CHECK_DEADLOCK FALSE
