SPECIFICATION FairSpec
CONSTANTS
    npeers = 2
    MaxRounds = 3
INVARIANTS
    NoPanic
    RoundDelivery
    NoLostNotification
PROPERTIES
    ImplementsRounds
    AllRoundsComplete
