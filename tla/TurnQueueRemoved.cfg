SPECIFICATION Spec
CONSTANTS
    Msg = {m1, m2}
    NoMsg = NoMsg
    MaxCrashes = 1
CHECK_DEADLOCK FALSE
INVARIANT RefusedStaysOut
