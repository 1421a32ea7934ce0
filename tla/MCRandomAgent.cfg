SPECIFICATION FairSpec
CONSTANTS
    Libraries <- MCLibraries
    GrabBag <- MCGrabBag
INVARIANTS
    TypeOK
    ActivityWhenPossible
    WrongStateStands
PROPERTIES
    Termination
    ImplementsContract
