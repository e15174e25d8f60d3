SPECIFICATION Spec
CONSTANTS
    MaxCalls = 3
    MaxBytes = 1
INVARIANTS
    ScreenIsTrue
    AwaitedOrAborted
    OwnTimerOnly
PROPERTIES
    RequestsEnd
