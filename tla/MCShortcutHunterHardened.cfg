SPECIFICATION Spec
CONSTANTS
    Width <- MCWidth
    Plain <- MCPlain
    Keys = {"answer"}
    HeadLimit = 2
    Worlds <- MCHardened
    MaxCandidates = 5
INVARIANT
    HardenedWorldComesUpEmpty
