SPECIFICATION Spec
CONSTANTS
    Delivery = {d1, d2}
    SignedAt = 0
    Lead = 0
    MaxGatewaySkew = 6
    ReadTimeout = 2
    NonceTTL = 7
    MaxTime = 9
INVARIANT AcceptedOnce
CHECK_DEADLOCK FALSE
