SPECIFICATION FairSpec
CONSTANTS
    Reviewed <- ReviewedIds
    Released <- ReleasedIds
    Held <- HeldIds
    Escalated <- EscalatedIds
    Reason <- ReasonOf
    SpineReleased = "INV-4501"
    SpineHeld = "INV-4498"
    SpineEscalated = "INV-4512"
    SpineHoldReason = "already settled"
    SpineEscalationReason = "over PO tolerance"
    None = "none"
INVARIANTS
    TypeOK
    NoForgeOnFailedSpine
    OnlyTheFreshScriptRuns
    LedgerKeepsTheSpine
    NeverDisposedUnreviewed
    FlooredByMagnitudeOnly
PROPERTIES
    Termination
    ImplementsContract
