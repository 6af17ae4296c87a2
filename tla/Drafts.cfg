SPECIFICATION Spec
CONSTANTS
    Command = {c1, c2, c3}
    u = u
    v = v
    m = m
    User = {u, v}
    Mail = {m}
    Party <- MCParty
    NoText = NoText
    NoMail = NoMail
    Nobody = Nobody
    MaxId = 3
    MaxAtOnce = 2
SYMMETRY CommandSymmetry
CHECK_DEADLOCK FALSE
INVARIANTS
    TextsKept
    RepliesGoHome
    TornExplained
PROPERTIES
    ChangedKnowingly
