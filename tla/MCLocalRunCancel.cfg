SPECIFICATION Spec
CONSTANTS
    MaxCalls = 1
INVARIANTS
    CancelRetainsNothing
