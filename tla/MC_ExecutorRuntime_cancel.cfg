CONSTANTS
    a1 = a1
    a2 = a2
    k1 = k1
    k2 = k2
    Attempt <- MCAttempt
    Key <- MCKey
    KeyOf <- DistinctKeys
SPECIFICATION Spec
INVARIANT CancelledCallFails
