SPECIFICATION Spec
CONSTANTS
    Width <- MCWidth
    Plain <- MCPlain
    Keys = {"answer"}
    HeadLimit = 2
    Worlds <- MCWorlds
    MaxCandidates = 5
INVARIANTS
    TypeOK
    LeakedLiteralsAreSubmitted
    AnswersComeFirst
    StateComesLast
    LeakIsNotDenied
PROPERTY
    ImplementsContract
