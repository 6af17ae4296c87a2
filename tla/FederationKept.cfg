CONSTANTS
    Text = {x}
    MaxSends = 3
SPECIFICATION Spec
INVARIANTS FailedSendsKept
