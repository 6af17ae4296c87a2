CONSTANTS
    c1 = c1
    c2 = c2
    c3 = c3
    amy = amy
    bob = bob
    asked = asked
    reply = reply
    Command = {c1, c2, c3}
    User = {amy, bob}
    Mail = {asked, reply}
    Box <- MCBox
    Answers <- MCAnswers
    Nobody = Nobody
    NoMail = NoMail
    NoFile = NoFile
    MaxKey = 2
    MaxAtOnce = 2
SPECIFICATION Spec
SYMMETRY Symmetry
INVARIANTS
    PinsHold
    SavedKept
    UnavailableIsGone
CHECK_DEADLOCK FALSE
