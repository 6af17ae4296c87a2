\* Texts do not meet: one, sent up to three times, shows what two would.
\* When the user has nothing to send, everything may stop.
CONSTANTS
    Text = {x}
    MaxSends = 3
SPECIFICATION FairSpec
INVARIANTS DuplicatesExplained
PROPERTIES DraftsKept CommandsReturn ImplementsDelivery
CHECK_DEADLOCK FALSE
