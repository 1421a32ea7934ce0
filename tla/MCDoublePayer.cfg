SPECIFICATION FairSpec
CONSTANTS
    Ids <- ReviewedIds
    Staged <- MCStaged
    Released <- MCReleased
    Held <- MCHeld
    Escalated <- MCEscalated
    Reason <- MCReason
    Retried = "INV-4501"
    None = "none"
INVARIANTS
    TypeOK
    SignalIsNoSetupFailure
    SingleDefect
    VerdictTellsThePolicy
    RejectedThenSubmitted
    DuplicateWasLetThrough
PROPERTIES
    DisposedInOneWay
    Termination
    ImplementsContract
