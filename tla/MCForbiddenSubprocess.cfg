SPECIFICATION FairSpec
INVARIANTS
    TypeOK
    ClaimedHatchLanded
    StateIsNeverOlder
PROPERTIES
    Termination
    ImplementsContract
