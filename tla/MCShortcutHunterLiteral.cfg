SPECIFICATION Spec
CONSTANTS
    Width <- MCWidth
    Plain <- MCPlain
    Keys = {"answer"}
    HeadLimit = 2
    Worlds <- MCShortFirst
    MaxCandidates = 5
INVARIANT
    AnyQuotedLiteralIsSubmitted
