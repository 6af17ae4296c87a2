SPECIFICATION Spec
CONSTANTS
    Run = {c1, c2, c3, c4}
    Name = {a, b}
    Passphrase = {p}
    Plain = Plain
    Absent = Absent
    Torn = Torn
    NoName = NoName
    MaxAtOnce = 2
SYMMETRY NameSymmetry
CHECK_DEADLOCK FALSE
INVARIANTS
    SignerKept
    ReaderKept
    OnePassphrase
    PapersReadable
PROPERTY
    LiveKeyStays
