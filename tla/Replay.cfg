\* Three keys, so that two others fill a generation; MaxTime lets every key
\* live through more than two generations.
CONSTANTS
    k1 = k1  k2 = k2  k3 = k3
    Key = {k1, k2, k3}
    SignedAt <- MCSignedAt
    Request = {r1, r2}
    Unit = 2
    Window = 2
    TTL = 8
    Max = 2
    Lag = 1
    Stall = 1
    MaxTime = 18
SPECIFICATION ReplaySpec
SYMMETRY RequestSymmetry
INVARIANTS BoundedMemory NoEarlyForgetting
PROPERTY ReplayOnlyLate
