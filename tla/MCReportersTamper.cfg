SPECIFICATION Spec
CONSTANTS
    Probes = {"reward_sink"}
    Tokens = 2
INVARIANT
    TamperedIsTampered
