SPECIFICATION Spec
CONSTANTS
    Request = {h1, h2, h3}
    a = a
    b = b
    B = B
    Name = {a, b, B}
    Registered = {a}
    Lower <- MCLower
    Remote = {r}
    o = o
    Odd = {o}
    ReadAs <- MCReadAs
    Here = Here
    There = There
    Target = {a, r, o, Here, There}
    Free = Free
    Gone = Gone
    Nobody = Nobody
SYMMETRY RequestSymmetry
VIEW WorkerView
CHECK_DEADLOCK FALSE
INVARIANTS
    OneSpelling
    MailReadable
    NoUnwantedMail
PROPERTIES
    KeySuccession
    LossExplained
