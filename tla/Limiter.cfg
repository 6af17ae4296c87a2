CONSTANTS
    near = near  far = far  proxy = proxy
    Client = {near, far}
    Proxy = {proxy}
    Junk = Junk
    NetOf <- MCNetOf
    Forged <- MCForged
    Chains <- MCChains
    Place = {r1, r2}
    Burst = 2
    Cost = 1
    Idle = 2
    SweepEvery = 1
    Lag = 1
    MaxTime = 6
SPECIFICATION LimiterSpec
SYMMETRY RequestSymmetry
INVARIANTS RateHolds
PROPERTY SweepsForget
